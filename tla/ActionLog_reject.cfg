\* A file the agent creates, that the user and the agent edit, and that is rejected.
\* Nobody need edit, so every behaviour may stop.
SPECIFICATION Spec
CONSTANTS
  Rows = {1, 2}
  MaxEdits = 4
  MaxUpdates = 2
INVARIANTS UserTextKept
CHECK_DEADLOCK FALSE
