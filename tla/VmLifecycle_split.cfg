\* One VM, its two vCPUs on two cores, two lifecycles, two generations.
CONSTANTS
  Cores = {0, 1}
  Online = {0, 1}
  Primary = 0
  BootVm = 0
  Vms = {0}
  Slots <- TwoSlots
  SlotCpu <- SplitCpu
  BoxSize = 3
  Reserve = 2
  MaxRetries = 1
  MaxRestarts = 1
  Assigned = {0}
  HostCommands = FALSE
  Noisy <- SecondSlot
  MaxDrift = 1
  MaxEpoch <- Twice
  MaxGen <- Twice
SPECIFICATION Spec
INVARIANTS
  TypeOK
  PowerMatchesLive
  RunningIsLive
  OneCarrier
PROPERTIES
  AckMeansOff
  LatchedForGood
CHECK_DEADLOCK FALSE
