\* Two turns one after the other, stopped and rewound at any point.
\* Users need not do anything, so every behaviour may stop.
SPECIFICATION Spec
CONSTANTS
  ToolIds = {a}
  Calls = {"send", "resume", "stop", "rewind"}
  Reasons = {"EndTurn", "Refusal", "MaxTokens", "Error"}
  Impatient = FALSE
  MaxTurns = 2
  MaxEntries = 4
INVARIANTS TypeOK SameConversation
PROPERTIES ToolOutputKept
CHECK_DEADLOCK FALSE
