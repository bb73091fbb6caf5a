CONSTANTS
  t1 = t1
  t2 = t2
  s1 = s1
  Thread = {t1, t2}
  Scanner = {s1}
  Processes <- MCProcesses
  Scripts = 2
  Titles = 2
  MaxOps = 2
  MaxFaults = 1
  Nobody = Nobody
SPECIFICATION FairSpec
INVARIANTS NoLostUpdate
PROPERTIES WrittenWhereBound SyncIsCurrent OpsEnd Heals
\* Stronger than the check for deadlock is OpsEnd: one operation that is stuck is enough.
CHECK_DEADLOCK FALSE
