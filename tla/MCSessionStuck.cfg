SPECIFICATION Spec
CONSTANTS
  Sids = {s1}
  NewSids = {}
  Callers = {c1}
  MaxActive = 1
  MaxObjects = 2
  MaxQueries = 2
  MaxDeaths = 1
CHECK_DEADLOCK FALSE
INVARIANT NeverStuck
