SPECIFICATION Spec
CONSTANTS
  labctl1 = labctl1
  labctl2 = labctl2
  snap1 = snap1
  port1 = port1
  port2 = port2
  NoName = NoName
  Procs <- MCProcs
  MaxSlots = 2
  Names = {snap1}
  Ports = {}
  Commands <- VMCommands
  Faults = {}
  OneOperator = TRUE
INVARIANT GuestAddressesDistinct
