\* One turn with up to three tool rounds of two tools, an error that is
\* repeated once, and cancel, truncate and resume at any point.
SPECIFICATION Spec
CONSTANTS
  ToolIds = {a, b}
  TextKinds = {"text"}
  Errors <- OneError
  AutoRetry = TRUE
  HasSummarizationModel = FALSE
  ParseErrorsAnnounced = FALSE
  MaxPrompts = 1
  MaxTurns = 2
  MaxMessages = 3
  MaxContent = 2
  MaxTasks = 1
SYMMETRY ToolSymmetry
INVARIANTS TypeOK ToolUsesAnswered RequestEndsWithUser NoResultLost NoToolLeftRunning
PROPERTIES RefusalRestores
