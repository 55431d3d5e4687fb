\* One VM on two cores under fairness; a mailbox holds a single entry and loses the rest.
CONSTANTS
  Cores = {0, 1}
  Online = {0, 1}
  Primary = 0
  BootVm = 0
  Vms = {0}
  Slots <- TwoSlots
  SlotCpu <- SplitCpu
  BoxSize = 1
  Reserve = 0
  MaxRetries = 1
  MaxRestarts = 1
  Assigned = {0}
  HostCommands = FALSE
  Noisy <- TwoSlots
  MaxDrift = 1
  MaxEpoch <- Once
  MaxGen <- Once
SPECIFICATION FairSpec
INVARIANT NeverAbandoned
PROPERTY LifecycleEnds
CHECK_DEADLOCK FALSE
