SPECIFICATION ConsoleSpec
CONSTANTS
  Conns = {c1, c2}
  Attached = c1
INVARIANTS
  TerminalRestored
PROPERTY AttachEnds
\* The command ends.
CHECK_DEADLOCK FALSE
