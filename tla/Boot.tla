--------------------------------- MODULE Boot ---------------------------------
(***************************************************************************)
(* Bringing the machine up: the boot core under its own map (El2Map), the  *)
(* contract it holds the board to (timebase, Stage 2, redistributor), the  *)
(* guest table (DeviceTree), what each core initialises for itself, the    *)
(* secondaries that PSCI powers on and that may answer late or never, and  *)
(* the VMs that start on their own (smp.cpp, boot_contract.hpp, main.cpp,  *)
(* the RuntimeStart chain of nexus.hpp).                                   *)
(*                                                                         *)
(* Ticks are numbers of TickBits bits and the scales of the conversions    *)
(* are constants.  A redistributor frame is one unit of the address space, *)
(* with a second one for VLPIs on a GICv4 part.                            *)
(***************************************************************************)
EXTENDS El2Map, DeviceTree

CONSTANTS
  TickBits,          \* bits of the counter (64)
  PerSecondMs,       \* 1000, the millisecond scale
  PerSecondUs,       \* 1000000, the microsecond scale
  MinCounterHz, MaxCounterHz,
  OnlineWaitMs,      \* kOnlineWaitMs
  BootCores,         \* 0..kMaxCpus - 1
  BootBoards         \* the boards considered, each with an image

ASSUME BootAssumption ==
  /\ 0 \in BootCores /\ BootCores = 0..(Cardinality(BootCores) - 1)
  /\ MinCounterHz = PerSecondUs /\ PerSecondMs > 0

VARIABLES
  bd,            \* this board
  bootPc,        \* where each core is
  bootNow, waitUntil, waitFrom, powering, nextVm,   \* start_secondaries
  gaveUp,        \* ticks the boot core gave each core that did not answer, or -1
  g_table,       \* the guest table
  g_freq_hz, g_boot_ctr,
  frames,        \* the cache of redistributor_frame
  gicr_ppis,     \* interrupts enabled in each redistributor
  coreInits,     \* what each core has initialised of itself
  g_online,
  startMail,     \* kStartVm requests for each core
  sgiPending,    \* kCrossCallSgi
  vmStart        \* each VM: "Off", "OnPending", "On"

bootWait == <<bootNow, waitUntil, waitFrom, powering, nextVm, gaveUp>>
bootMach == <<g_freq_hz, g_boot_ctr, frames, gicr_ppis, coreInits>>
bootCall == <<startMail, sgiPending, vmStart>>
bootLater == <<bd, bootPc, bootWait, bootMach, g_online, bootCall>>
bootVars == <<bootLater, g_table, el2Vars>>

\* The VMs besides the first, and the core of each.
BootVms == 1..(Len(bd.payloads) - 1)
BootVmCore(vm) == g_table[vm + 1].cpu[1]

------------------------------------------------------------------------------
(* nova/arch/timebase.hpp, in numbers of TickBits bits                      *)

TopTick == 2^TickBits - 1
Ticks(x) == x % 2^TickBits
Refused == [accepted |-> FALSE, ticks |-> 0]

validate_timebase(hz) == IF hz = 0 THEN "unprogrammed"
                         ELSE IF hz < MinCounterHz \/ hz > MaxCounterHz THEN "out of range" ELSE "none"

Fraction(hz, rest, scale) == Ticks(Ticks((hz \div scale) * rest) + Ticks((hz % scale) * rest) \div scale)

\* ms_to_ticks and us_to_ticks: whole seconds apart from the rest of one.
to_ticks(hz, t, scale) ==
  LET seconds == t \div scale
      whole == Ticks(seconds * hz)
      fraction == Fraction(hz, t % scale, scale)
  IN IF hz = 0 \/ seconds > TopTick \div hz \/ whole > TopTick - fraction THEN Refused
     ELSE [accepted |-> TRUE, ticks |-> Ticks(whole + fraction)]
ms_to_ticks(hz, ms) == to_ticks(hz, ms, PerSecondMs)
us_to_ticks(hz, us) == to_ticks(hz, us, PerSecondUs)

deadline_after_ms(now, hz, ms) ==
  LET plan == ms_to_ticks(hz, ms)
  IN IF ~plan.accepted \/ now > TopTick - plan.ticks THEN Refused
     ELSE [accepted |-> TRUE, ticks |-> now + plan.ticks]

\* hyp_timer::deadline_after_ms adds whatever the conversion gave.
DeadlineAfterMs(ms) == Ticks(bootNow + ms_to_ticks(g_freq_hz, ms).ticks)

------------------------------------------------------------------------------
(* The redistributor of a core                                              *)

NoFrame == 0
FirstFrame == 1

\* GICR_TYPER has Aff3 next to Aff2; MPIDR leaves a byte between them.  Here
\* two bits stand for Aff2..Aff0, the next for the gap.
typer_affinity(affinity) == (affinity \div 8) * 4 + (affinity % 4)

redistributor_stride(typer) == IF typer.vlpis THEN 2 ELSE 1

\* Walk until the frame is this core's, or the last.
find_redistributor_frame(c) ==
  LET walk[f \in DOMAIN bd.gicr] ==
        IF bd.gicr[f].aff = typer_affinity(bd.affinity[c]) THEN f
        ELSE IF bd.gicr[f].last THEN NoFrame ELSE walk[f + redistributor_stride(bd.gicr[f])]
  IN walk[FirstFrame]

redistributor_frame(c) == IF frames[c] = NoFrame THEN find_redistributor_frame(c) ELSE frames[c]

PanicStop == 15
CrossCall == 0
Maintenance == 25
HypTimer == 26
GuestTimer == 27
OwnPpis == {PanicStop, CrossCall, Maintenance, HypTimer, GuestTimer}

\* gic::init_cpu.  A frame that is missing or does not wake is left as it is,
\* but for the panic-stop SGI, and so is one that wakes and does not settle.
GicWorks(c) == redistributor_frame(c) # NoFrame /\ c \in bd.wakes /\ c \in bd.settles
InitGic(c) ==
  LET f == redistributor_frame(c)
      scrubbed == IF c \in bd.wakes THEN {} ELSE gicr_ppis[f]
  IN /\ frames' = [frames EXCEPT ![c] = f]
     /\ gicr_ppis' = IF f = NoFrame THEN gicr_ppis ELSE [gicr_ppis EXCEPT ![f] = scrubbed \union {PanicStop}]
     /\ coreInits' = [coreInits EXCEPT ![c] = @ \union {"cpu interface"}]

\* enable_ppi does nothing for a core without a frame.
EnablePpis(c, intids) ==
  gicr_ppis' = IF frames[c] = NoFrame THEN gicr_ppis ELSE [gicr_ppis EXCEPT ![frames[c]] = @ \union intids]

Initialised(c, what) == coreInits' = [coreInits EXCEPT ![c] = @ \union what]
At_(c, pc)  == bootPc[c] = pc
Goes(c, pc) == bootPc' = [bootPc EXCEPT ![c] = pc]

------------------------------------------------------------------------------
(* The boot core, up to start_secondaries.  A panic ends in halt().         *)

\* boot_contract::enforce, before the chain and under the map of El2Map.
Enforce ==
  /\ At_(0, "reset") /\ el2Pc = "on"
  /\ IF validate_timebase(bd.hz[0]) = "none"
     THEN g_freq_hz' = bd.hz[0] /\ Goes(0, "guest table")
     ELSE UNCHANGED g_freq_hz /\ Goes(0, "panic")
  /\ UNCHANGED <<bd, bootWait, g_boot_ctr, frames, gicr_ppis, coreInits, g_online, bootCall>>

\* project::init_guest_table
FillGuestTable ==
  /\ At_(0, "guest table")
  /\ g_table' = init_guest_table(bd.payloads)
  /\ Goes(0, IF g_table' = <<>> THEN "panic" ELSE "stage 2")
  /\ UNCHANGED <<bd, bootWait, bootMach, g_online, bootCall>>

\* enforce_cpu_contract and init_and_activate; Stage2 has the tables.
BootStage2 ==
  /\ At_(0, "stage 2")
  /\ IF bd.contract THEN Goes(0, "gic") /\ Initialised(0, {"stage 2"}) ELSE Goes(0, "panic") /\ UNCHANGED coreInits
  /\ UNCHANGED <<bd, bootWait, g_freq_hz, g_boot_ctr, frames, gicr_ppis, g_online, bootCall>>

BootGic ==
  /\ At_(0, "gic")
  /\ InitGic(0)
  /\ Goes(0, IF GicWorks(0) THEN "vgic" ELSE "panic")
  /\ UNCHANGED <<bd, bootWait, g_freq_hz, g_boot_ctr, g_online, bootCall>>

\* vgic, core_timer and soft_timer: INIT after INIT of the chain.
BootVgic ==
  /\ At_(0, "vgic") /\ Goes(0, "timers")
  /\ Initialised(0, {"vgic"}) /\ EnablePpis(0, {Maintenance})
  /\ UNCHANGED <<bd, bootWait, g_freq_hz, g_boot_ctr, frames, g_online, bootCall>>
BootTimers ==
  /\ At_(0, "timers") /\ Goes(0, "smp")
  /\ Initialised(0, {"timers"}) /\ EnablePpis(0, {HypTimer, GuestTimer})
  /\ UNCHANGED <<bd, bootWait, g_freq_hz, g_boot_ctr, frames, g_online, bootCall>>

------------------------------------------------------------------------------
(* start_secondaries                                                        *)

StartFirst ==
  /\ At_(0, "smp") /\ Goes(0, "power on")
  /\ g_boot_ctr' = bd.ctr[0]
  /\ g_online' = [g_online EXCEPT ![0] = TRUE]
  /\ EnablePpis(0, {CrossCall})
  /\ powering' = 1
  /\ UNCHANGED <<bd, bootNow, waitUntil, waitFrom, nextVm, gaveUp, g_freq_hz, frames, coreInits, bootCall>>

\* CPU_ON: firmware takes it or refuses it; a core it takes may run at once.
PowerOn ==
  /\ At_(0, "power on") /\ powering \in BootCores
  /\ IF powering \in bd.answers
     THEN /\ bootPc' = [bootPc EXCEPT ![0] = "wait", ![powering] = "entry"]
          /\ waitUntil' = DeadlineAfterMs(OnlineWaitMs) /\ waitFrom' = bootNow
          /\ UNCHANGED powering
     ELSE powering' = powering + 1 /\ UNCHANGED <<bootPc, waitUntil, waitFrom>>
  /\ UNCHANGED <<bd, bootNow, nextVm, gaveUp, bootMach, g_online, bootCall>>

\* Model bound: time passes only while the boot core waits.
TimePasses_ ==
  /\ At_(0, "wait") /\ bootNow < waitUntil
  /\ bootNow' = bootNow + 1
  /\ UNCHANGED <<bd, bootPc, waitUntil, waitFrom, powering, nextVm, gaveUp, bootMach, g_online, bootCall>>

Answered_ ==
  /\ At_(0, "wait") /\ g_online[powering]
  /\ powering' = powering + 1 /\ Goes(0, "power on")
  /\ UNCHANGED <<bd, bootNow, waitUntil, waitFrom, nextVm, gaveUp, bootMach, g_online, bootCall>>

\* The core may still come online after this.
GivesUp ==
  /\ At_(0, "wait") /\ ~g_online[powering] /\ bootNow >= waitUntil
  /\ gaveUp' = [gaveUp EXCEPT ![powering] = bootNow - waitFrom]
  /\ powering' = powering + 1 /\ Goes(0, "power on")
  /\ UNCHANGED <<bd, bootNow, waitUntil, waitFrom, nextVm, bootMach, g_online, bootCall>>

AllPowered ==
  /\ At_(0, "power on") /\ powering \notin BootCores
  /\ Goes(0, "autostart") /\ nextVm' = 1
  /\ UNCHANGED <<bd, bootNow, waitUntil, waitFrom, powering, gaveUp, bootMach, g_online, bootCall>>

\* start_vm_local; VmLifecycle has what it does, and it may fail.
StartLocal(vm) == \E state \in {"On", "Off"} : vmStart' = [vmStart EXCEPT ![vm] = state]

\* start_vm on a core: reserved first, and the reservation is given back when
\* the owner cannot be asked.  enqueue refuses a core that is not online.
StartVm(c, vm) ==
  LET owner == BootVmCore(vm) IN
  IF vmStart[vm] # "Off" THEN UNCHANGED bootCall
  ELSE IF owner = c THEN StartLocal(vm) /\ UNCHANGED <<startMail, sgiPending>>
  ELSE IF g_online[owner]
  THEN /\ vmStart' = [vmStart EXCEPT ![vm] = "OnPending"]
       /\ startMail' = [startMail EXCEPT ![owner] = @ \union {vm}]
       /\ sgiPending' = [sgiPending EXCEPT ![owner] = TRUE]
  ELSE UNCHANGED bootCall

Autostart ==
  /\ At_(0, "autostart")
  /\ IF nextVm \in BootVms
     THEN /\ nextVm' = nextVm + 1 /\ UNCHANGED bootPc
          /\ IF g_table[nextVm + 1].auto_start THEN StartVm(0, nextVm) ELSE UNCHANGED bootCall
     ELSE Goes(0, "scheduler") /\ UNCHANGED <<nextVm, bootCall>>
  /\ UNCHANGED <<bd, bootNow, waitUntil, waitFrom, powering, gaveUp, bootMach, g_online>>

------------------------------------------------------------------------------
(* novavisor_secondary.  A core that does not fit parks before it is online *)

CheckCtr(c) ==
  /\ At_(c, "entry")
  /\ Goes(c, IF bd.ctr[c] = g_boot_ctr THEN "time" ELSE "parked")
  /\ UNCHANGED <<bd, bootWait, bootMach, g_online, bootCall>>
CheckTime(c) ==
  /\ At_(c, "time")
  /\ Goes(c, IF bd.hz[c] = g_freq_hz THEN "own gic" ELSE "parked")
  /\ UNCHANGED <<bd, bootWait, bootMach, g_online, bootCall>>
\* Faulty: what init_cpu says is not looked at.
GicTrusted(c) == At_(c, "own gic") /\ InitGic(c) /\ Goes(c, "inits")
                 /\ UNCHANGED <<bd, bootWait, g_freq_hz, g_boot_ctr, g_online, bootCall>>
OwnGic(c) ==
  /\ At_(c, "own gic")
  /\ InitGic(c)
  /\ Goes(c, IF GicWorks(c) THEN "inits" ELSE "parked")
  /\ UNCHANGED <<bd, bootWait, g_freq_hz, g_boot_ctr, g_online, bootCall>>
OwnInits(c) ==
  /\ At_(c, "inits") /\ Goes(c, "own stage 2")
  /\ Initialised(c, {"vgic", "timers"}) /\ EnablePpis(c, {Maintenance, HypTimer, GuestTimer, CrossCall})
  /\ UNCHANGED <<bd, bootWait, g_freq_hz, g_boot_ctr, frames, g_online, bootCall>>
ActivateCpu(c) ==
  /\ At_(c, "own stage 2") /\ Goes(c, "report")
  /\ Initialised(c, {"stage 2"})
  /\ UNCHANGED <<bd, bootWait, g_freq_hz, g_boot_ctr, frames, gicr_ppis, g_online, bootCall>>
ReportOnline(c) ==
  /\ At_(c, "report") /\ Goes(c, "scheduler")
  /\ g_online' = [g_online EXCEPT ![c] = TRUE]
  /\ UNCHANGED <<bd, bootWait, bootMach, bootCall>>

------------------------------------------------------------------------------
(* Afterwards: the mailbox of a core, and a guest that starts another       *)

\* The SGI is taken by a core that schedules, if its redistributor lets it by.
TakesCrossCall(c) ==
  /\ At_(c, "scheduler") /\ sgiPending[c] /\ CrossCall \in gicr_ppis[frames[c]]
  /\ sgiPending' = [sgiPending EXCEPT ![c] = FALSE]
  /\ startMail' = [startMail EXCEPT ![c] = {}]
  /\ \E refusedVms \in SUBSET startMail[c] :
       vmStart' = [vm \in DOMAIN vmStart |-> IF vm \notin startMail[c] THEN vmStart[vm] ELSE IF vm \in refusedVms THEN "Off" ELSE "On"]
  /\ UNCHANGED <<bd, bootPc, bootWait, bootMach, g_online>>

\* HVC_VM_START, by the first VM or by any VM that runs.
GuestStarts(c) ==
  /\ At_(c, "scheduler")
  /\ c = 0 \/ \E vm \in DOMAIN vmStart : BootVmCore(vm) = c /\ vmStart[vm] = "On"
  /\ \E vm \in DOMAIN vmStart : StartVm(c, vm)
  /\ UNCHANGED <<bd, bootPc, bootWait, bootMach, g_online>>

BootBegins ==
  /\ el2Layout = bd.layout /\ El2Init
  /\ g_table = <<>>
  /\ bootPc = [c \in BootCores |-> IF c = 0 THEN "reset" ELSE "off"]
  /\ bootNow = 0 /\ waitUntil = 0 /\ waitFrom = 0 /\ powering = 0 /\ nextVm = 0
  /\ gaveUp = [c \in BootCores |-> -1]
  /\ g_freq_hz = 0 /\ g_boot_ctr = 0
  /\ frames = [c \in BootCores |-> NoFrame]
  /\ gicr_ppis = [f \in DOMAIN bd.gicr |-> {GuestTimer}]     \* left by firmware
  /\ coreInits = [c \in BootCores |-> {}]
  /\ g_online = [c \in BootCores |-> FALSE]
  /\ startMail = [c \in BootCores |-> {}] /\ sgiPending = [c \in BootCores |-> FALSE]
  /\ vmStart = [vm \in BootVms |-> "Off"]

BootInit == bd \in BootBoards /\ BootBegins

BootRuns ==
  \/ Enforce \/ BootStage2 \/ BootGic \/ BootVgic \/ BootTimers
  \/ StartFirst \/ PowerOn \/ TimePasses_ \/ Answered_ \/ GivesUp \/ AllPowered \/ Autostart
  \/ \E c \in BootCores : \/ CheckCtr(c) \/ CheckTime(c) \/ OwnGic(c) \/ OwnInits(c) \/ ActivateCpu(c) \/ ReportOnline(c)
                          \/ TakesCrossCall(c) \/ GuestStarts(c)

BootNext ==
  \/ El2Next /\ UNCHANGED <<bootLater, g_table>>
  \/ FillGuestTable /\ UNCHANGED el2Vars
  \/ BootRuns /\ UNCHANGED <<g_table, el2Vars>>

------------------------------------------------------------------------------
\* A core that says it is online is one that can be asked: it agrees with the
\* boot core on cache geometry and time, it has initialised everything it has
\* of its own, and its own redistributor, awake, lets exactly EL2's private
\* interrupts by.
OnlineMeansReady ==
  \A c \in BootCores : g_online[c] =>
    /\ bd.ctr[c] = bd.ctr[0] /\ bd.hz[c] = bd.hz[0]
    /\ coreInits[c] = {"cpu interface", "vgic", "timers", "stage 2"}
    /\ c \in bd.wakes \cap bd.settles
    /\ bd.gicr[frames[c]].aff = typer_affinity(bd.affinity[c])
    /\ gicr_ppis[frames[c]] = OwnPpis

\* A VM waits for its start exactly while its owner, online, has the request
\* and the doorbell: no reservation is left behind by a core that is missing.
StartsAreCarried ==
  \A vm \in 1..(Len(g_table) - 1) :
    LET owner == BootVmCore(vm) IN
    /\ vmStart[vm] = "OnPending" <=> vm \in startMail[owner]
    /\ vm \in startMail[owner] => g_online[owner] /\ sgiPending[owner]
    /\ vmStart[vm] # "Off" => g_online[owner]

\* The guest an image was built from: its tree, its window behind the one
\* before, its payload inside it.
Intact(i) == bd.payloads[i].dtb = build_guest_dtb(bd.payloads[i].guest)
AsBuilt ==
  LET p == bd.payloads
      load[i \in DOMAIN p] == IF i = 1 THEN FirstPa ELSE align_up_pa(load[i - 1] + p[i - 1].guest.memory)
  IN Len(p) \in 1..MaxGuests /\ \A i \in DOMAIN p :
       /\ Intact(i) /\ Len(p[i].dtb) <= GuestDtbSize /\ p[i].guest.vcpus <= kMaxVcpusPerVm
       /\ p[i].load_pa = load[i] /\ p[i].memory_size = p[i].guest.memory
       /\ p[i].entry \in GuestIpaBase..(GuestIpaBase + p[i].guest.memory - 1)

\* The machine runs the guests that were configured: a tree reads back as it
\* was written; an image is taken when its trees, windows and payloads agree,
\* and not when they do not; the table says of each VM what its configuration
\* does, in a window nobody else has a part of.  "A truncated or corrupt blob
\* degrades to not ok results" (fdt_model.hpp:6): one that was cut is refused,
\* and a changed word that goes unnoticed still makes a guest that can run.
GuestsAsWritten ==
  /\ At_(0, "guest table") => \A i \in DOMAIN bd.payloads : Intact(i) => ReadsBack(bd.payloads[i].guest)
  /\ At_(0, "stage 2") /\ (\A i \in DOMAIN bd.payloads : Intact(i)) => AsBuilt
  /\ At_(0, "panic") /\ g_freq_hz # 0 /\ g_table = <<>> => ~AsBuilt
  /\ \A i \in DOMAIN g_table :
       LET vm == g_table[i]
           guest == bd.payloads[i].guest
       IN /\ vm.vmid = i /\ vm.vcpus \in 1..kMaxVcpusPerVm /\ vm.entry_pc \in GuestIpaBase..(GuestIpaBase + vm.ipa_size - 1)
          /\ Len(bd.payloads[i].dtb) = Len(build_guest_dtb(guest))
          /\ \A j \in 1..(i - 1) : g_table[j].load_pa + g_table[j].ipa_size <= vm.load_pa
          /\ Intact(i) =>
               /\ vm.ipa_size = guest.memory /\ vm.vcpus = guest.vcpus
               /\ vm.uart = guest.uart /\ vm.auto_start = guest.autostart
               /\ \A v \in 1..vm.vcpus : vm.cpu[v] = IF guest.cores = <<>> THEN DefaultCores[i][v] ELSE guest.cores[v]

\* A core is given its whole wait before the boot core goes on without it.
WaitsAreWhole == \A c \in BootCores : gaveUp[c] # -1 => gaveUp[c] * PerSecondMs > (OnlineWaitMs * bd.hz[0]) - PerSecondMs

\* On every rate that is adopted a conversion is exact to the tick, refused
\* when and only when the result does not fit the counter, and a microsecond
\* is never nothing.
ConversionsExact(hz) ==
  \A t \in 0..TopTick :
    LET ms == (t * hz) \div PerSecondMs
        us == (t * hz) \div PerSecondUs
    IN /\ ms_to_ticks(hz, t) = IF ms <= TopTick THEN [accepted |-> TRUE, ticks |-> ms] ELSE Refused
       /\ us_to_ticks(hz, t) = IF us <= TopTick THEN [accepted |-> TRUE, ticks |-> us] ELSE Refused
       /\ t > 0 /\ us <= TopTick => us_to_ticks(hz, t).ticks > 0
       /\ \A now \in {0, 1, TopTick \div 2, TopTick} :
            deadline_after_ms(now, hz, t) = IF now + ms <= TopTick THEN [accepted |-> TRUE, ticks |-> now + ms] ELSE Refused

\* A machine boots as its board and its image allow: it runs under the map
\* and with the guests the image asks for; a core is asked only once it is ready,
\* whenever it answers; a VM that waits to start is never forgotten; the boot
\* core waits as long as it says; and time is what the board counts.
BootSound ==
  /\ El2MapExact /\ GuestsAsWritten
  /\ OnlineMeansReady /\ StartsAreCarried /\ WaitsAreWhole
  /\ At_(0, "stage 2") => ConversionsExact(g_freq_hz)
  /\ g_online[0] => g_freq_hz \in MinCounterHz..MaxCounterHz /\ g_freq_hz = bd.hz[0]
=============================================================================
