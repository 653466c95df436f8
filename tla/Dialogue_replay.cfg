SPECIFICATION Spec
CONSTANTS
  Catalogs <- MCCatalogs
  Texts <- MCTexts
  PlanFor <- MCPlanFor
  Origins <- MCOrigins
  MaxTurns = 3
  IgnoredDomains = {"update"}
  TriggerAutomations = FALSE
PROPERTIES CommandsStand
CHECK_DEADLOCK FALSE
