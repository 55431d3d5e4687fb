\* One VM without a device, its two vCPUs on two cores: a start that was
\* refused is cancelled twice.
CONSTANTS
  Cores = {0, 1}
  Online = {0, 1}
  Primary = 0
  BootVm = 0
  Vms = {0}
  Slots <- TwoSlots
  SlotCpu <- SplitCpu
  BoxSize = 3
  Reserve = 2
  MaxRetries = 1
  MaxRestarts = 1
  HostCommands = TRUE
  Noisy <- SecondSlot
  Assigned = {}
  MaxDrift = 1
  MaxEpoch <- Once
  MaxGen <- Twice
SPECIFICATION Spec
INVARIANTS
  RestoreOnlyQuiesced
CHECK_DEADLOCK FALSE
