SPECIFICATION FairSpec
CONSTANT Chunks = 3
INVARIANTS
  BuiltIsComplete
PROPERTY BuildEnds
\* The command ends.
CHECK_DEADLOCK FALSE
