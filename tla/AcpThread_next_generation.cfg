\* A turn that finishes while the next one is under way.
\* Users need not do anything, so every behaviour may stop.
SPECIFICATION Spec
CONSTANTS
  ToolIds = {}
  Calls = {"send"}
  Reasons = {"EndTurn"}
  Impatient = TRUE
  MaxTurns = 2
  MaxEntries = 2
PROPERTIES NextGenerationKept
CHECK_DEADLOCK FALSE
