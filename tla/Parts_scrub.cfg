SPECIFICATION Spec
CONSTANTS
  Foci = {"spi"}
  Spans <- SpansOffered
  MaxSlots = 3
  PayloadWords = 4
  Pad = 2
  Budget = 1
  Builds = {"release", "debug"}
  Tails = {2}
  MaxTurns = 2
  MaxChanges = 2
  RegionRecords = 5
  MaxEvents = 7
  MaxEarly = 1
  Limited = TRUE
  CmdSlots = 2
  OpsCap = 2
  OpsOffered <- OpsDeclared
  OpsIssued = {1, 3, 9}
  TooWide = {9}
  MaxIssues = 4
  MaxMeddles = 1
  RingSlots = 2
  IndexSpace = 4
  MaxSent = 7
  QLog2 = 1
  MaxCommands = 6
  MaxEvents_ = 6
  BeatCores = {0, 1}
  Owner = 0
  MailLimit = 1
  MaxBeats = 3
  MaxGenerations = 3
  Fan = 2
  L2Pool = 2
  L3Pool = 3
  IpaBase = 2
  IvcIpa = 6
  GuestPa = 4
  GuestPaSize = 6
  IvcPa = 10
  PristinePa = 12
  PristineSize = 5
  PaPages = 18
  MaxVmid = 255
  MemoryConfigs <- Machines
  TlbEntries = 1
  Vcpus = {0, 1}
  VmWidth = 2
  ByteBits = 1
  PageSize = 4
  DevicePages = {2}
  DeviceWords = {165}
  Places = {4}
  CpuSpecs <- Exposed
  Calls = {1000, 2001, 1002, 1003, 1004, 1007, 1008, 1009, 2010, 3000, 3001, 3801, 3399, 4000, 5000, 5002, 5003, 5004}
  Args = {1, 100, 3801}
  DataRegs = {202}
  Accesses <- GuestAccesses
  CtlrView = 4
  GicVms = {1}
  GicWidth <- GicWidths
  MaxFrames = 3
  Bits = {0, 1, 2, 3}
  SgiBits = {0}
  Words = {{1, 2}}
  PrioBytes = {1}
  RouteBytes = {1, 2}
  Raised = {1}
  MaxAccesses = 3
  ConVms = {0, 1, 2}
  VuartVms = {0, 2}
  CoreZeroVms = {0}
  FifoDepth = 2
  LineMax = 2
  MaxBytes = 3
  MaxMasks = 1
  MaxReboots = 1
  Width = 4
  PolicyPage = 2
  OutputBits = 3
  SidBits = 1
  QueueLog2 = 1
  VmidBits = 2
  MaxDevices = 2
  DmaConfigs <- Images
  IntidsPerBank = 4
  SpecialIntidBase = 11
  LineBanks = {2}
  GicCores = {0, 1}
  FirmwareOwned = {7}
  TriedIntids = {3, 4, 5, 7}
  MaxSpiOps = 3
  TickBits = 6
  PerSecondMs = 4
  PerSecondUs = 8
  MinCounterHz = 8
  MaxCounterHz = 16
  OnlineWaitMs = 1
  BootCores = {0, 1, 2}
  BootBoards <- RealBoards
  kEntries = 3
  kPageSize = 2
  kVaLimit = 36
  kPoolTables = 4
  El2Layouts <- Layouts
  WordTop = 32
  ByteTop = 16
  GuestIpaBase = 33
  GuestDtbSize = 76
  FirstPa = 4
  PaAlign = 4
  MaxGuests = 4
  AffinityCap = 8
  DefaultCores <- AllCores
INVARIANTS NothingInherited

CHECK_DEADLOCK FALSE
