\* Two cores: requests start on core 1, their targets are anywhere.
CONSTANTS
  Cores = {0, 1}
  Vcpus = {0, 1}
  Affinity <- OwnCore
  Sgis = {1}
  Ppis = {}
  Spis = {32}
  Tracked = {32}
  Prio <- DeviceFirst
  LrCount = 2
  BoxSize = 1
  MaxGen = 1
  Busy = {1}
  MaxEvents = 4
SPECIFICATION Spec
INVARIANTS
  TypeOK
  OwedIsPending
  OneToken
  NoLostWakeup
CHECK_DEADLOCK FALSE
