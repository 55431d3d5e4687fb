SPECIFICATION FairSpec
CONSTANTS
  v1 = v1
  Vms = {v1}
  StreamCount = 2
  OwnerOf <- OwnerOne
  Issuer <- IssuerOne
  VmOf <- VmOfOne
  Devices = {1}
  NoVm = NoVm
  Foreign = Foreign
  Unlocked = Unlocked
  CmdSlots = 4
  EvtSlots = 1
  Lines = {1}
  MaxGen = 1
INVARIANTS ReachesOwnVm
PROPERTIES QuiesceEnds FaultQuarantines
CHECK_DEADLOCK FALSE
