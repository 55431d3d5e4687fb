\* One core shared by both vCPUs, more interrupts than list registers.
CONSTANTS
  Cores = {0}
  Vcpus = {0, 1}
  Affinity <- OneCore
  Sgis = {}
  Ppis = {27}
  Spis = {32, 33}
  Tracked = {32}
  Prio <- TimerLast
  LrCount = 2
  BoxSize = 1
  MaxGen = 2
  Busy = {0}
  MaxEvents = 6
SPECIFICATION Spec
INVARIANTS
  NoDoubleInjection
CHECK_DEADLOCK FALSE
