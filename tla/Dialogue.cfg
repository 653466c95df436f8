SPECIFICATION Spec
CONSTANTS
  Catalogs <- MCCatalogs
  Texts <- MCTexts
  PlanFor <- MCPlanFor
  Origins <- MCOrigins
  MaxTurns = 3
  IgnoredDomains = {"update"}
  TriggerAutomations = FALSE
INVARIANTS TypeOK
PROPERTIES AsIfItHadBeenClear ItIsOne IndicatorsSpared TwinsAlike NothingDropped StaysInTheRoom
CHECK_DEADLOCK FALSE
