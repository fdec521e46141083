SPECIFICATION Spec
CONSTANTS
  Errors <- EveryError
  Plans <- EveryPlan
  MaxRounds = 1
CHECK_DEADLOCK FALSE
INVARIANTS RepetitionsWithinBudget HopelessNeverRepeated WaitBounded
