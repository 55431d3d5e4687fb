\* An idle core reads the two counters one after the other.
CONSTANTS
  Cores = {0, 1}
  Online = {0, 1}
  Primary = 0
  BootVm = 0
  Vms = {0}
  Slots <- TwoSlots
  SlotCpu <- SplitCpu
  BoxSize = 3
  Reserve = 2
  MaxRetries = 1
  MaxRestarts = 1
  Assigned = {0}
  HostCommands = FALSE
  Noisy = {}
  MaxDrift = 1
  MaxEpoch <- Once
  MaxGen <- Once
SPECIFICATION Spec
INVARIANT HaltOnlyWhenDone
CHECK_DEADLOCK FALSE
