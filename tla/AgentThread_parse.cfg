\* A tool use whose input is not JSON, as the OpenAI-compatible provider reports it.
SPECIFICATION Spec
CONSTANTS
  ToolIds = {a}
  TextKinds = {"text"}
  Errors <- OneError
  AutoRetry = TRUE
  HasSummarizationModel = FALSE
  ParseErrorsAnnounced = FALSE
  MaxPrompts = 1
  MaxTurns = 2
  MaxMessages = 3
  MaxContent = 1
  MaxTasks = 1
PROPERTIES ToolResultReachesModel
