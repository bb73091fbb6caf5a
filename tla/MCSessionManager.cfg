SPECIFICATION Spec
CONSTANTS
  Sids = {s1, s2}
  NewSids = {s2}
  Callers = {c1, c2}
  MaxActive = 1
  MaxObjects = 2
  MaxQueries = 2
  MaxDeaths = 1
SYMMETRY Symmetry
CHECK_DEADLOCK FALSE
INVARIANTS
  TurnShown
  SettledWhenQuiet
  WithinLimit
  NoneLeaked
