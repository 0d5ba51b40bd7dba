SPECIFICATION Spec
CONSTANT MaxSlots = 1000
INVARIANT InternetReachable
\* All slots may be taken: the fleet stops growing.
CHECK_DEADLOCK FALSE
