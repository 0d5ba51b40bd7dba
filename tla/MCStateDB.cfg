SPECIFICATION FairSpec
CONSTANTS
  t1 = t1
  t2 = t2
  t3 = t3
  labctl1 = labctl1
  labctl2 = labctl2
  Nobody = Nobody
  Threads <- MCThreads
  Processes <- MCProcesses
  Home <- MCHome
  MaxSlots = 2
INVARIANTS
  TypeOK
  ChosenIsStillFree
PROPERTIES
  ImplementsLedger
  BusyIsAnotherProcess
  RefusedOnlyWhenFull
  CallsReturn
