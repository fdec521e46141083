\* Two rows, three edits of anyone, two updates in the queue.  Nobody need edit, so
\* every behaviour may stop.
SPECIFICATION Spec
CONSTANTS
  Rows = {1, 2}
  MaxEdits = 3
  MaxUpdates = 2
INVARIANTS DiffTrue AgentEditsUnreviewed OnlyAgentEditsUnreviewed KeptStaysKept CommitsAreReviews
CHECK_DEADLOCK FALSE
