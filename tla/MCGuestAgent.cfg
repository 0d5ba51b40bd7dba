SPECIFICATION FairSpec
CONSTANTS
  PidOne = PidOne
  NoTty = NoTty
  PtyConns = {c1}
  ControlConns = {c2}
  Children = {job}
  MaxFds = 5
INVARIANTS
  NoZombieForgotten
PROPERTIES
  LoopServes
  ImplementsPty
\* The VM may be gone.
CHECK_DEADLOCK FALSE
