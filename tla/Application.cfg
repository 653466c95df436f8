CONSTANTS
  Requests = {r1, r2}
  Past = Past
  Nothing = Nothing
  HistoryTurns = 2
  MaxSessions = 1
  MemoryEnabled = TRUE
  SoundsEnabled = TRUE
  Configured = {"ws", "music", "mcp", "llm"}
  Bodies <- MCBodies
  Houses <- MCHouses
SPECIFICATION Spec
SYMMETRY Symmetry
CHECK_DEADLOCK FALSE
INVARIANT TypeOK
INVARIANT ResetSticks
INVARIANT OrderlyShutdown
PROPERTY TurnsKept
PROPERTY SoundOrder
PROPERTY CallersRoom
