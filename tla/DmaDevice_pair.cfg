SPECIFICATION Spec
CONSTANTS
  v1 = v1
  Vms = {v1}
  StreamCount = 2
  OwnerOf <- OwnerPair
  Issuer <- IssuerPair
  VmOf <- VmOfPair
  Devices = {1, 2}
  NoVm = NoVm
  Foreign = Foreign
  Unlocked = Unlocked
  CmdSlots = 4
  EvtSlots = 1
  Lines = {1}
  MaxGen = 1
INVARIANTS IsolatedWhenQuiet LineComesBack
PROPERTIES BodyUnderInvalid
CHECK_DEADLOCK FALSE
