SPECIFICATION Spec
CONSTANTS
  Procs = {p1, p2}
  Names = {base, ubuntu}
  VMs = {vm0, vm1}
  NoName = NoName
  NoVM = NoVM
  MaxIds = 2
INVARIANTS
  RegisteredImageIsWhole
  VMBootsItsImage
  ImagesInUseStay
SYMMETRY Symmetry
CHECK_DEADLOCK FALSE
