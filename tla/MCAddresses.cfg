SPECIFICATION Spec
CONSTANT MaxSlots = 1000
INVARIANTS
  IdentitiesDistinct
  AddressesUsable
\* All slots may be taken: the fleet stops growing.
CHECK_DEADLOCK FALSE
