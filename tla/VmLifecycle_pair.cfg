\* Two single-vCPU VMs on two cores, the host controlling both.
CONSTANTS
  Cores = {0, 1}
  Online = {0, 1}
  Primary = 0
  BootVm = 0
  Vms = {0, 1}
  Slots <- PairSlots
  SlotCpu <- PairCpu
  BoxSize = 3
  Reserve = 2
  MaxRetries = 1
  MaxRestarts = 1
  Assigned = {0, 1}
  HostCommands = TRUE
  Noisy = {}
  MaxDrift = 1
  MaxEpoch <- PairEpoch
  MaxGen <- PairGen
SPECIFICATION Spec
INVARIANTS
  RestoreOnlyQuiesced
PROPERTY ImplementsVmPower
CHECK_DEADLOCK FALSE
