\* Turns that are overtaken, stopped, rewound, resumed and refused at any point,
\* under fair scheduling.
\* Users need not do anything, so every behaviour may stop.
SPECIFICATION LiveSpec
CONSTANTS
  ToolIds = {}
  Calls = {"send", "resume", "stop", "rewind"}
  Reasons = {"EndTurn", "Refusal"}
  Impatient = TRUE
  MaxTurns = 2
  MaxEntries = 2
INVARIANTS OvertakenTurnsFinishFirst StopsGenerating
PROPERTIES RefusalKeepsEarlierPrompts EveryTurnAnswered
CHECK_DEADLOCK FALSE
