\* A prompt and a resume that overtake one another, titles and summaries, retries up
\* to the limit: every turn ends, and the turns keep the contract of AgentTurns.
SPECIFICATION LiveSpec
CONSTANTS
  ToolIds = {a}
  TextKinds = {"text"}
  Errors <- LongErrors
  AutoRetry = TRUE
  HasSummarizationModel = TRUE
  ParseErrorsAnnounced = TRUE
  MaxPrompts = 1
  MaxTurns = 2
  MaxMessages = 3
  MaxContent = 1
  MaxTasks = 1
INVARIANTS OneFinalEvent
PROPERTIES UserTitleKept TurnEndsEventually ImplementsContract
