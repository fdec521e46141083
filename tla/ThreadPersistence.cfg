\* One thread, open up to twice, with two changes, two reloads of the history at a
\* time and one restart.  Users need not do anything, so every behaviour may stop.
SPECIFICATION LiveSpec
CONSTANTS
  Threads = {t1}
  Copies = {c1, c2}
  MaxChanges = 2
  MaxReloads = 2
  MaxQuits = 1
INVARIANTS TypeOK LatestSaved HistoryCurrent
PROPERTIES RowsOnlyGrow ChangesReachDisk
CHECK_DEADLOCK FALSE
