# NovaVisor in TLA+

NovaVisor is a small AArch64 hypervisor: a static table of VMs, each of one or
two vCPUs, each vCPU bound to one physical core for good. EL2 runs with
interrupts masked and never migrates work; cores talk through mailboxes, a few
shared atomics and a lock per VM. That makes it small enough to model
operation by operation, and the hazards are where one core's sequential code
meets another's, the host's or the hardware's.

This directory holds the models, the TLC instances, and the TLAPS proofs.
`PROJECT.json` lists the runs, the mutants that show each property can fail, the
source lines of every definition, the hazards and the findings.

    tlc -workers 2 -config VmLifecycle_split.cfg VmLifecycleMC
    tlapm VmLifecycleProofs.tla

## Inventory

Paths are below `src/src/components/` unless they start with `nova` or `hal`.

| component | state it keeps | operations | hard part | what makes it correct |
|---|---|---|---|---|
| `core/smp` lifecycle (`vm_lifecycle.cpp`, `quiesce_model.hpp`) | per VM: `g_lifecycle_token`, tracker (epoch, pending mask, retries), mode, DMA flags | start_vm, cpu_on, cpu_off, stop_vm, reset_vm, begin, quiesce, acknowledge, finish, timeout, DMA drain, fault recovery | requests from any core, answers late or twice, timer against answers, a device that never drains | one claim at a time, carried to the owner exactly once; memory restored only with all vCPUs off and DMA detached; a claim ends or is latched |
| `core/smp` mailboxes (`cross_call.cpp`) | `g_mail`, `g_reevaluate` | enqueue, batch drain, notify, exchange loop | capacity, reserve for lifecycle traffic, a mark set while the bitmap is exchanged | lifecycle traffic that is refused is sent again; a mark always raises an SGI |
| `core/smp` bring-up (`smp.cpp`) | `g_online`, boot contract | CPU_ON of secondaries, bounded waits, autostart | a core that answers late or never | a VM start is reserved only with an owner who is online |
| `infra/dtb_parser`, `projects/common` (`guest_config.cpp`), `novakit/image/dtb.py` | the tree of each guest, the guest table | write a tree, read it back, check it against the payload | offsets of a blob that was cut or changed | the table says what the configuration said |
| `hal/arch/aarch64/vmsa` (`stage1_tables.hpp`, `el2_mmu.cpp`) | EL2's own tables | map ranges in the largest blocks | boundaries inside a block, a pool of eight tables | the map is what the image asks for; nothing is writable and executable; guard pages fault |
| `core/core_vcpu` power (`lifecycle.cpp`) | `g_published_state`, `g_alive`, `g_lifecycle_transitions`, generation, restart budget | reserve, cancel, start, retire, prepare and publish of cold start and reset | other cores read what the owner writes in several steps | the published view agrees with the owner's |
| `core/core_vcpu` scheduler (`sched.cpp`), `core/core_gic` | per vCPU state and saved banks; per core current, FP owner, slice, idling, deferred epilogue | pick, switch, yield, block, wake, halt; interrupt drain | lazy FP, switch put off to the end of an interrupt, nested drain in the idle loop | registers belong to who runs; no deadline lost; everyone ready runs |
| `service/soft_timer`, `core/core_timer` | slot queue, CNTHP, one-shots | arm, cancel, expiry | a timer that outlives its vCPU | CNTHP never later than an armed slot |
| `vdev/vgic` | per VM pending/enabled/route and EOI tokens; per vCPU pending/enabled, list register shadow, tokens; per core resident | post (private, SPI, tracked), flush/refill, EOI harvest, maintenance, register accesses, save/restore, reset | register truth moves between shadow and hardware; one core's write changes another's deliveries | nothing injected twice, nothing lost or stranded, an EOI token reaches its device; a guest reads back what it wrote |
| `service/watchdog` | per VM window, update sequence | enable, heartbeat, disable, expiry | a refused cross-core request has already moved the sequence; the reset asked for may be refused too | the latest accepted beat rules until it strikes |
| `core/trap_handler`, `service/psci` | ELR policy, tables of calls | decode, MMIO transfer, SMCCC discovery and dispatch, AFFINITY_INFO, CPU_SUSPEND | return addresses per class, a switch before the return | one trapped instruction has its whole effect once |
| `core/core_mmu` | Stage-2 tables, pristine snapshot, VTTBR | map, activate, copy, snapshot, reload, switch | blocks and pages from bounded pools; packed snapshots | a walk gives what the configuration asks; a reload gives what booted |
| `device/dma_device`, `device/smmu` | device registry; stream table, caches, command and event queues, bindings | assign, begin/poll quiesce, resume, fault, IRQ, EOI; install, abort, submit, drain | deadlines, locks dropped between check and use, full queue, stopped consumer | a quiet device reaches no memory; a fault is blamed on who raised it |
| `nova/abi/dma`, `nova/range.hpp` | DMA policy of the image | validate, build contexts and bindings, load registry | ranges at the end of the address space | no context reaches another's RAM |
| `service/telemetry`, `infra/trace`, `service/command`, `service/ivc` | seqlock pages, lapped ring, untrusted command ring, SPSC ring | publish, emit, drain, push/pop | reader on another core or on the host | nothing torn, stale or doubled is accepted; loss is reported exactly |
| `vdev/vuart`, `infra/console_mux` | FIFO, mask, line buffers, focus | inject, read, mask, route, flush, reset | edge of an interrupt level between two cores | no byte or character lost |
| `hal/drivers/gicv3.hpp` | distributor, redistributors | scrub, configure, route, mask, quarantine | words shared between INTIDs and cores | an SPI is as it was last configured |
| demos, host tooling, assembly, boot messages | — | — | sequential or I/O | not modelled |

How they interact. A guest traps; psci, the watchdog or a stage-2 fault asks
`smp` for a power change. `smp` claims the VM's token, sends the request to the
VM's *owner* (the core of vCPU 0), which masks DMA, sends a quiesce to every
foreign vCPU, collects answers under a timer, restores memory through
`core_mmu`, resets device models and republishes vCPU 0 through `core_vcpu`.
Interrupts reach a vCPU through the vGIC: a post or register write marks the
owner core of the target, and that core refills list registers, wakes a
blocked vCPU, and hears of ends of interrupts by maintenance interrupts.

## Modules

Where components interact through shared state they are in one module or one
extends the other; parts that share nothing are checked in one run, one at a
time.

| module | what it is |
|---|---|
| `VmLifecycle` | the lifecycle coordinator of `smp` with the power half of `core_vcpu` and the idle loop's decision to halt |
| `VmPower` | abstract: what the lifecycle promises — exclusive claims, reloads only with everything off, isolation for good |
| `VGic` | interrupt delivery of one VM: vgic, the re-evaluation fan-out of smp, the save/restore/block/wake part of the scheduler, the IRQ half of dma_device |
| `VGicRegs` | the register frames a guest sees: widths, windows, read-back, whom a write re-evaluates |
| `Smmu`, `DmaDevice` | the SMMU driver against caches and queues that the hardware consumes at its own pace; over it the device registry, quiesce and resume walks, faults, the device interrupt |
| `SmmuQueue` | the pointers of the two SMMU queues: wrap bits, overflow, stopped consumer, timeout |
| `DmaPolicy` | what EL2 accepts before a device may master the bus |
| `SoftTimer`, `Sched` | the timer slots of a core; over them the scheduler, the interrupt drain and the guest timers of a core |
| `Telemetry`, `TraceRing`, `CommandRing`, `IvcRing` | the four shared-memory protocols, each with its reader or writer on the other side |
| `Fifo` | abstract: a bounded channel of numbered messages, implemented by `IvcRing` and by both queues of `SmmuQueue` |
| `Watchdog` | the heartbeat window of a VM, across cores and instances |
| `Stage2` | guest tables, Stage-2 construction, copy, snapshot, reload, TLB |
| `Trap` | a trapped instruction from syndrome to resumption, and the firmware calls |
| `Console` | emulated UARTs, host input, guest lines |
| `Distributor` | the physical distributor: the scrub at boot, SPI operations of several cores |
| `El2Map` | the identity map EL2 runs under: its ranges and the builder of its tables |
| `DeviceTree` | pure: the device tree the image builder writes for a guest, the walk that reads it, the guest table made of it |
| `Boot` | over both of them: timebase, guest table, redistributor discovery, secondaries, autostart |
| `VmLifecycleMC`, `VGicMC`, `DmaDeviceMC`, `SchedMC`, `PartsMC` | the TLC instances; `PartsMC` extends the thirteen parts that share no state |
| `VmLifecycleProofs` | theorems: types, the power view, and what every step of the coordinator leaves alone |
| `VmLifecycleSafety` | theorems over it: the invariant of the lifecycle protocol, the safety properties that follow, the refinement of `VmPower` |
| `VGicProofs`, `SchedProofs`, `TelemetryProofs` | theorems about the module of the name |
| `PartsProofs` | theorems about `Watchdog`, `Distributor`, `Stage2`, `Trap` and `DmaPolicy` |
| `DmaDeviceProofs` | theorems about `Smmu` and `DmaDevice`: the isolation of devices and their interrupt lines |
| `RingProofs` | theorems about `IvcRing`, `SmmuQueue`, `CommandRing`, `TraceRing` and `Console`, over lemmas about counters kept modulo the width of an index |

### How the code becomes actions

*One agenda per core.* EL2 runs with interrupts masked, so what a core does
between entry and exit is one sequential function that other cores can only
observe through shared state. In `VmLifecycle`, `agenda[c]` is the rest of that
function: a sequence of instructions, one for every access to a shared atomic,
mailbox or lock-protected critical section. Owner-local work between two such
accesses is part of the step that follows it. A core takes a hypercall, an
interrupt or a timer only with an empty agenda, as the code does. Instruction
names are function names; where a function touches shared state several times,
the instruction after it is named for what it does next (`start_vm`,
`start_vm_on`, `can_start`, `cpu_on`, `begin_reserve`, `recheck`, ...). The other
modules use a `pc` per actor, or a record of where an operation is, to the same
end; a section under a lock is one step when its lock is always taken.

*Mailboxes* are FIFO and drained in one batch, as `handle_irq` copies the box
under its lock before executing anything.

*VmLifecycle.* `power` is `g_published_state`, `live` is `g_vcpus[].state # kOff`,
`current` is `CpuSched::current`, `token` is `g_lifecycle_token`, `life[vm]` is
the tracker with its mode, flags and the two timers, `inst[vm]` is generation,
restart budget and the state of the VM's DMA device. `Assigned` is the set of VMs
that have a device, at most one each here; `DmaDevice` has two. The slots of a VM are
numbered without a gap, as `valid_slot` has them: the walks over a VM's slots stop
at the first that does not exist. `BeginLifecycle`, `OthersLive` and
`RecoverDmaFault` read the mask of live vCPUs in one step, which is exact for
`kMaxVcpusPerVm = 2`: at most one of the slots read belongs to another core, so
there is only one load to place.

*VGic.* `redist` and `dist` are the register banks, `owed` is `g_spi_tokens`,
`lr`, `token`, `uie` are the shadow of a vCPU, `hw`, `hwUie`, `resident` belong
to a core, `armed` is the unmasked state of a device's line and `gen` its
generation. `Truth(v)` is what `sync_resident_lrs` would see. The device IRQ is
handled on the owner core of the VM (`configure_spi` routes it there), so a
lifecycle cannot run between reading the device's generation and posting, and
the two are one step. A harvested EOI and its unmask are one step. The
published power of a vCPU is read as the state of its owner. A switch between
two vCPUs of the VM is `SwitchOut` and `SwitchIn`; `Other` stands for a vCPU of
another VM. An SGI to several targets is several SGIs to one. Guest instructions
on list registers (`GuestAck`, `GuestEoi`), `ICH_EISR` and the maintenance level
are the architecture's, marked external in the map.

*Smmu and DmaDevice.* What a driver call does under the domain lock is an
operation: `domain` says who holds the lock, for what, and which streams are left.
An operation goes section by section, a section being the code for one stream or
one batch of them (`Section`, `AfterSection`), and a section step by step
(`DomainStep`): one memory write, submission or wait at a time, while the
hardware fetches entries, caches translations, consumes commands and drops
events. `ste` is the table in memory, `cfg` and `tlb` what the hardware may hold.
Streams and devices are numbers, walked in their order as the loops over the table
and the registry do. `DmaDevice` adds the threads that call the driver: the owner
core of a VM, the core that takes the SMMU interrupt, the core where a vCPU ends an
interrupt, and boot.

*Sched.* One core. What a register file or a saved bank holds is the slot whose
present life it belongs to, or `Dead`. A trap handler is one step; the idle loop
and the interrupt drain are split where the code reads an interrupt or sleeps.
`SoftTimer` counts what is left of a deadline, so that time may pass for ever in
a finite model; two overdue slots are served in either order.

*Telemetry, TraceRing, CommandRing, IvcRing.* A step is a load or a store of a
word the other side reads or writes. Memory order is sequential consistency: the
code uses acquire and release at the places where the models need them. In
`TraceRing` the ring of a core is placed once, so the reader's rewind branch is
never reached from a running machine. In `Telemetry` the stamp of a slot may go
backwards when the publishers of two turns change places, and is only compared
with the turn that wrote it. In `CommandRing` the writer is the Python of the
workbench, whose `write - read` is not modular; an index that some other process
stored and that a drain under way brings into range executes what the slots
hold, so `Meddle` stores only indices out of range, which no producer could. That none of
the accepted commands is missing is claimed while nobody meddles.

*Watchdog.* A beat takes its number before it is known whether the owner's
mailbox takes the request: a refused beat has already put the one before it out
of date. `LatestBeatRules` says what is promised all the same. `Expiry` may or may not be
answered by a reset: `on_expiry` disarms first and discards what `reset_vm` says.

*Stage2, DmaPolicy, Boot.* Boot is single-core, so a check or a loop iteration is
a step and one that fails stops the machine. A `Stage2` table has `Fan` entries at
each of three levels. `DmaPolicy` takes the walk of the DMA tables, and that their
pools suffice, from `Stage2`; the alignment of the layouts holds by `alignas`. In
`Boot` time passes while the boot core waits; an Aff0 above 15, which no board
has, is left out.

*El2Map.* A turn of the loop of `map` is a step; a range that is refused stops the
core, where the code goes through the remaining calls without making them. The
ranges are in order and disjoint whenever none is refused, so the refusal of an
entry that is already mapped is never reached from `nova_el2_mmu_init`.
`El2MapExact` says when an image is mapped at all: sections on pages and in order,
and no more boundaries inside blocks than the pool has tables. `Layouts` moves each
boundary, and keeps the stacks below the end of memory, as the linker script does.

*DeviceTree.* A blob is a sequence of words. A name takes one word, so what is lost is
a name cut in its middle; lengths and offsets are in words, and every block starts
on one. Of the tree there is what the parser goes by. `Linked` has every cut of a
blob and every word of it changed to one of nine others: tokens, small lengths,
names of other nodes. The model's devices are named "device".

*Trap.* A trap is one step up to a switch of vCPU. Instructions are numbered.
What AFFINITY_INFO says of a sibling may be anything, as its core decides.

*Console.* The guest's UART driver is external: it reads until the FIFO is empty.
A warm reset resets the vGIC, then the lines, then the VM's UART.

*Distributor.* A read-modify-write of a word is two steps and carries the whole
word. The budget of the wait for a register write is left out; so are byte-wide
priorities. No device raises its line.

## What the runs check

| run | instance | shows |
|---|---|---|
| `split` | one VM, vCPUs on two cores, two lifecycles | the published view agrees with the owner; only live vCPUs run; a claim has exactly one carrier; an answer counts only for a vCPU that is off; isolation is for good: token, generation and budget stay, the boot vCPU does not come back |
| `pair` | two single-vCPU VMs on two cores, the host controlling both | restore only with everything off; every step maps to a step of `VmPower` |
| `ends` | one VM, fairness, a mailbox of one entry that loses the rest | an open epoch always has what carries it on; a claimed lifecycle ends or isolates its VM |
| `deliver` | one VM, vCPUs on two cores, a device SPI and an SGI | an owed SPI stays pending; a token is in one place; a blocked vCPU never sleeps through an interrupt, and nothing waits in the pending word without someone due to fetch it |
| `share` | one core, two vCPUs, three interrupts, two registers, a restart | nothing injected twice |
| `isolate` | one VM with two devices, every operation of which may fail | a quiet device reaches nothing, whatever the hardware has cached; an entry changes only while invalid; a device's line comes back |
| `fault` | one device, one unassigned stream, fairness | no stream ever reaches what firmware left; a fault quarantines its context; a pending quiesce ends |
| `time` | two vCPUs on one core, timers, FP, requests from outside, fairness | registers belong to who runs; no deadline is lost; inside an interrupt nothing but a slice expiry's whole swap changes the resident without a switch left owed; sleepers wake and everyone ready runs |
| `alone` | thirteen parts, one at a time | `HostReadsTruth`, `LedgerExact`, `OnceInOrder`, `IvcIsFifo` (the shared-memory protocols), `QueuesAreFifos`, `LatestBeatRules`, `VmsIsolated` and `RestoreExact` (Stage 2), `InstructionExact` (traps), `RegistersExact` (vGIC frames), `ConsoleLossless`, `DmaPolicySound`, `SpisAsAsked`, `BootSound` |
| `halt`, `orphan`, `scrub` | small instances | the findings below |

`CHECK_DEADLOCK FALSE` where requests are bounded, so an instance runs out of
things to do, or where a machine really may stop; `time` checks it.

`alone` fixes `focus` in the initial state: a behaviour of the run is a behaviour
of one part with the others at rest. They share no variable, so no interleaving
is missed; what couples them in the code (a watchdog reset, an interrupt posted
by a UART) is the environment of each: the instance of `Watchdog` may stop at any
time, the interrupt of `Console` is taken when the guest pleases.

### Bounds

The code's limits are CONSTANTS; the instances shrink them, keeping the shape.

| bound | instance | code | why it is enough |
|---|---|---|---|
| `BoxSize`, `Reserve` | 3, 2 (`ends`: 1, 0) | 16, 8 | one ordinary entry, and the command and answer of one VM; in `ends` a box that holds an entry loses every further one |
| `MaxRetries`, `MaxRestarts` | 1, 1 | 3, 3 | both sides of "retry left" and "budget left" occur |
| `MaxEpoch`, `MaxGen` (VmLifecycle) | 1 or 2 per VM | 64-bit | two lifecycles in a row bring an answer or a start of the first into the second |
| `MaxDrift` | 1 | — | no start is requested once `g_lifecycle_transitions` is further than this from zero |
| `Noisy` | the second slot | all | slots that receive ordinary requests: what matters is whether the reserve holds |
| `LrCount` | 2 | up to 16 | three interrupts: overflow, duplicates, and free registers all occur |
| `MaxEvents`, `Busy` (VGic) | 4 or 6, one core | — | posts, register writes, parkings and retirements; taking, ending and EL2 work are not bounded; targets are on every core |
| `CmdSlots`, `EvtSlots` (Smmu) | 4, 1 | 16, 16 | a batch never fits beside another; the event queue overflows on the second record |
| `MaxGen` (DmaDevice) | 1 | 64-bit | one instance, from boot to its quiesce; safety over instances is proved for every number (`DmaInvariant`), and of liveness nothing is said of a fault or an end of interrupt that outlives its instance |
| `Horizon`, `Quanta`, `MaxCalls` | 1, {1}, 2 | — | a deadline is due or not; two requests nest a drain in an idle loop |
| `RingSlots`, `IndexSpace`, `MaxSent` | 2, 4, 7 | 16, 2^32 | the slots wrap three times, the indices once; the theorem is for every size |
| `QLog2`, `MaxCommands` | 1, 6 | 4, — | the pointers go round once and a half; the theorem is for every size |
| `RegionRecords`, `MaxEvents` (trace) | 5, 7 | at least 133 000 a ring | the ring laps the reader within a copy |
| `Spans`, `Budget`, `MaxTurns` | four spans, 1 word, 2 | 32 KiB | a turn is cut by its budget; a span is refused for the payload and one for the table |
| `MaxBeats`, `MailLimit` | 3, 1 | —, 8 | a beat refused, one overtaken, one of the instance before |
| `Fan`, `L2Pool`, `L3Pool` | 2, 2, 3 | 512, per guest | blocks and pages meet, a pool runs out |
| `FifoDepth`, `LineMax`, `MaxBytes` | 2, 2, 3 | 16, 120 | the FIFO is full and wraps, a line fills |
| `Width`, `PolicyPage` | 4, 2 | 64, 4096 | ranges end at the top of the address space and beyond |
| `IntidsPerBank`, `SpecialIntidBase` | 4, 11 | 32, 1020 | the last bank is not whole; two INTIDs share a word |
| `TickBits`, `PerSecondUs` | 6, 8 | 64, 10^6 | every tick count is tried; products overflow |
| `kEntries`, `kPageSize`, `kVaLimit`, `kPoolTables` | 3, 2, 36, 4 | 512, 4096, 2^32, 8 | blocks of both sizes and pages; images that need one table too many |
| `WordTop`, `GuestDtbSize`, `MaxGuests` | 32, 76, 4 | 2^32, 8 KiB, 4 | sizes take two words; one guest's tree is as long as its area allows and one is longer |
| `GicVms`, `MaxFrames`, `Words`, `RouteBytes`, `Raised`, `MaxAccesses` | two VMs of 2 and 1 vCPUs, 2, {{0, 1}}, {1}, {1}, 3 | 4 VMs of at most 2 vCPUs, any word, byte or route | enables, pendings and routes of one vCPU meet those of the other and of another VM; three accesses raise, enable and re-route one interrupt |
| `MaxSpiOps` | 2 | — | two operations on words they share; the theorem is for every number |

### Fairness

`ends`: WF of `Execute`: EL2 code runs to its end, nothing preempts it. SF of
`DrainMail`, `LifecycleTimeout`: a pending interrupt stays pending while
hypercalls are served and is taken when the core next leaves EL2; the action is
disabled again and again by the agenda, hence strong. SF of `DmaDrainEnds`:
`poll_quiesce` fails a device past its deadline, so the drain ends one way or the
other.

`fault`: WF of each thread's next step and of the SMMU's consumption of commands;
WF of `PollQuiesce`, a periodic timer of the owner; WF of `Expire`, since a
deadline that is not met passes.

`time`: WF of EL2's steps and of the interrupt that takes the core there; SF of
`Tick`: time passes however long EL2 works.

No fairness is assumed of guests, hosts or devices.

### Findings

Each of these runs ends in a violation, on the statement quoted in `PROJECT.json`.

1. `halt` — an idle core reads `g_alive` and then `g_lifecycle_transitions`; a start
   in between makes both zero to it, and the machine halts with a vCPU on.
2. `orphan` — a queued CPU_ON that `start_vcpu` refuses is cancelled by it and again
   by the drain. A CPU_ON in between reserves the slot; the second cancel takes that
   reservation away, the next reset does not wait for the slot, and its vCPU comes up
   after the check for live vCPUs, while memory is restored. It takes a VM whose vCPUs
   are on two cores.
3. `scrub` — on a distributor of 1020 INTIDs the scrub stops before the last bank,
   which is not whole, and what firmware left pending there is delivered.

Disagreements of code and text that the models reach or that were met while
reading, and that no run keeps:

- A secondary that kept its VM alive turns vCPU 0 on again: the VM generation
  moves on while the DMA device stays attached to the old one (`lifecycle.cpp:277`).
- Publishing a warm reset overwrites a reservation made after its check;
  `g_lifecycle_transitions` never returns to zero and the machine never halts.
- Dispatch of SMMU faults runs after the event lock is dropped and quarantines the
  stream as it is then: a reset in between makes the fault of the old generation
  quarantine the new one (`smmu.cpp:343`).
- SYSTEM_OFF while a reset holds the VM is refused and forgotten; the VM is on
  afterwards, against the comment in `psci.cpp`.
- A refill between a guest's EOI and the maintenance interrupt reuses the register
  and overwrites its token; the device's line stays masked (`vgic_delivery.hpp:265`).
- A maintenance interrupt that outlives the retirement of its vCPU is handled with
  `kNoResident` as an index.
- `psci_model.hpp:117`: a feature query promises calls that `smccc_model.hpp:55`
  says "discovery can never promise" when the dispatch refuses them.
- `telemetry.hpp:117`: the byte loop of an unoptimised build loads a source byte
  twice, so a slot's bytes may move without its sequence. Two of them in one tail
  then make a reader accept half of each of two readings, against
  `telemetry.hpp:9` (the proof stopped here; `Tails` of two words shows it).
  `HostReadsTruth` claims whole readings for the builds that load once and for a
  loop of one word, and that a sequence stands for its bytes for the former.
- A passed-through device whose id is `uart` makes a root node `uart@...`
  (`dtb.py:246`), which `parse_guest` takes for the emulated UART
  (`fdt_model.hpp:262`): its VM is given one whatever its configuration says.
- `fdt_model.hpp:6` says that a corrupt blob degrades to "not ok". A cut one does; of a
  changed word nothing says more than the words beside it, and one may go
  unnoticed. `GuestsAsWritten` claims that the guest can run all the same.
- `vgic_model.hpp:25` says that a pending SPI "is not re-routed by a later IROUTER write". It
  is: `spi_deliverable` computes the target from the route at each refill
  (`vgic_delivery.hpp:178`), and a write of the route asks for one
  (`vgic_model_test.cpp:207`). `VGic` and
  `VGicRegs` follow the code.
- `core_gic.hpp:42` reads as if no switch could happen between acknowledge and end of
  an interrupt. It holds for `schedule_out`, which takes the epilogue, but a slice that
  expires swaps the frame there (`sched.cpp:210`); the core does end the interrupt
  afterwards, on the same loop. `SwitchPoints` says both.
- A watchdog reset may be refused while another core holds the VM's token
  (`vm_lifecycle.cpp:511`), and that core may then give the token back because its begin
  finds the mailbox full (526, 266). `on_expiry` discards the answer (`watchdog.cpp:66`)
  after it has disarmed: the VM stays on, unwatched until its next beat.
- An end of interrupt that passed its check before a quiesce masked the line opens it
  for a quiesced device (`dma_device.cpp:564`). The next interrupt is masked again and
  not posted (530). `LineComesBack` says nothing of that direction.
- `vgic_model.hpp:269` calls the SGI enables permanent ("RAO/WI"), ICENABLER0
  clears them (485).
- The comment on `kHvcExit` of `demo_hvc` speaks of the VM's line; only the caller's
  slot is flushed. `report_unknown_hvc` remembers eight functions, not all.
- `console.hpp:31`: a core that read the route before a panic took the console
  still writes into the report.
- An SGI to a vCPU that is on is dropped when the mailbox is full, while
  `cross_call.cpp:130` names off targets only.
- A legacy one-shot outlives its vCPU: the slot stays busy for its siblings
  (`core_timer.cpp:30`).

## What is proved

For every value of the constants that satisfies the module's assumption:

| theorem | statement | argument |
|---|---|---|
| `VmLifecycleProofs!TypeCorrect` | `Spec => []TypeOK` | inductive; per action, split into agendas, records and scalars |
| `VmLifecycleProofs!PowerViewCorrect` | `Spec => []PowerMatchesLive` | `Agreement` below |
| `VmLifecycleProofs!OnlyLiveRuns` | `Spec => []RunningIsLive` | `Agreement` below |
| `VmLifecycleSafety!ClaimHasOneCarrier` | `Spec => []OneCarrier` | `Safe` below |
| `VmLifecycleSafety!AcksAreTrue` | `Spec => []AckMeansOff` | `Safe` below |
| `VmLifecycleSafety!RestoresDetached` | `Spec => []DetachedAtRestore` | `Safe` below |
| `VmLifecycleSafety!LatchHolds` | `Spec => LatchedForGood` | a step from a state where `Safe` holds |
| `VmLifecycleSafety!EpochsNeverAbandoned` | `Spec => []NeverAbandoned` | `Safe` and `DrainPolled` below |
| `VmLifecycleSafety!RestoresQuiesced` | `OneCorePerVm`: `Spec => []RestoreOnlyQuiesced` | `Safe` and `ScannedOff` below |
| `VmLifecycleSafety!CoordinatorImplementsVmPower` | `OneCorePerVm`: `Spec => ImplementsVmPower` | refinement, from the same two |
| `VGicProofs!TypeCorrect` | `Spec => []TypeOK` | inductive; `RefillType` and `SavedType` carry the weight |
| `VGicProofs!OwedStaysPending` | `Spec => []OwedIsPending` | inductive by itself: whatever clears a pending bit either takes the token along (`Take`) or spares it (`KeepPending`) |
| `VGicProofs!NeverInjectedTwice` | `Spec => []NoDoubleInjection` | `Single` below |
| `VGicProofs!TokenInOnePlace` | `Spec => []OneToken` | `Bound` below |
| `VGicProofs!WakeupsNotLost` | `Spec => []NoLostWakeup` | `Heard` below |
| `SchedProofs!SchedTyped` | `Spec => []SchedTypeOK` | `SchedInv` below |
| `SchedProofs!RegistersAreTheResidents` | `Spec => []RegistersBelong` | `SchedInv` below |
| `SchedProofs!NoDeadlineLost` | `Spec => []DeadlinesWatched` | `SchedInv` below |
| `SchedProofs!SwitchesWhereAllowed` | `Spec => SwitchPoints` | `SchedInv` below, and a step from a state where it holds |
| `DmaDeviceProofs!DmaInvariant` | `Spec => []IInv` | inductive: `IInv` below |
| `DmaDeviceProofs!QuietIsIsolated` | `Spec => []IsolatedWhenQuiet` | `IInv` |
| `DmaDeviceProofs!OwnVmOnly` | `Spec => []ReachesOwnVm` | `IInv` |
| `DmaDeviceProofs!BodyWrittenInvalid` | `Spec => BodyUnderInvalid` | a step from a state where `IInv` holds |
| `DmaDeviceProofs!LinesComeBack` | `Spec => []LineComesBack` | `IInv` |
| `TelemetryProofs!TelemetryTrue` | `TlmSpec => []HostReadsTruth` | `TlmInv` below |
| `PartsProofs!SpisConfigured` | `DistSpec => []SpisAsAsked` | `DistInv` below |
| `PartsProofs!LatestBeatWins` | `WdSpec => []LatestBeatRules` | `WdInv` below |
| `PartsProofs!MemoryHolds` | `S2Spec => []MemoryInv` | inductive: `MemoryInv` below |
| `PartsProofs!GuestsIsolated` | `S2Spec => []VmsIsolated` | `MemoryInv` |
| `PartsProofs!ReloadRestores` | `S2Spec => RestoreExact` | a step from a state where `MemoryInv` holds |
| `PartsProofs!InstructionsExact` | `TrapSpec => []InstructionExact` | `TrapInv` below |
| `PartsProofs!PolicyIsolates` | `PolSpec => []DmaPolicySound` | `PolInv` below |
| `RingProofs!RingIsFifo` | `IvcSpec => IvcIsFifo` | refinement of `Fifo`: `IvcInv` below |
| `RingProofs!QueuesImplementFifo` | `SmqSpec => QueuesAreFifos` | refinement of `Fifo`, twice: `CommandInv`, `EventInv` below |
| `RingProofs!CommandsOnceInOrder` | `CmdSpec => []OnceInOrder` | `CmdInv` below |
| `RingProofs!LedgerKeptExact` | `TrcSpec => []LedgerExact` | `TrcInv` below |
| `RingProofs!NothingLost` | `ConSpec => []ConsoleLossless` | `ConInv` below |

`Agreement == PowerMatchesLive /\ RunningIsLive` is inductive together with
`TypeOK`: retirement is the only step that turns a vCPU off, and it needs both
conjuncts, since it compares with `current` to decide whether a frame is given
up; reservations only move between Off and OnPending, which the first conjunct
does not see. Only a few actions touch these variables; the others are shown to
leave them alone in one lemma.

`Safe` is what the lifecycle protocol keeps true between its steps. Besides
`TypeOK` and `PowerMatchesLive` it has a part for each thing the code relies on
without saying so:

- `Placement`: an instruction lies only with a core that may execute it, the
  coordinator's with the owner of vCPU 0, a vCPU's with its own core; only some wait
  behind another or in a mailbox.
- `EpochsAgree`, `EpochsBegun`: a token that is taken names the tracker's epoch, an
  open tracker holds it, and nothing on its way is of an epoch still to come.
- `FinishingOpen`: the tracker is open until the last step, and its mask is empty
  while memory is written.
- `StartsAlone`: a start under way on the owner's core excludes an open tracker,
  since both are of one core.
- `AnswersTrue`: an answer that still counts is about a vCPU that is off with no
  start under way, or waits right behind the step that retires it. It is what makes
  late and repeated answers harmless: an answer of a former epoch does not count,
  and within an epoch `StartsAlone` lets nobody turn the vCPU on again.
- `Carriage`: a claim is carried once; `OneCarrier` restated on positions of agendas
  and mailboxes (`Backlog`), which is what sending, draining and executing move.
- `DeviceDrained`: an open lifecycle has drained the device, or knows that it has not.

The proof first says of each instruction what it may leave in agendas and
mailboxes (`Fits`, `Sent`), once, and then uses that for each part. `LatchedForGood`
is about steps: a start past its last look at the token is of a VM that is not
isolated (`StartNotLatched`), with one exception that the property leaves out: a
secondary whose start was under way when the epoch began. vCPU 0 is no such case
(`BootStartFree`), and only starting it moves the generation (`GenMoves`).

`NeverAbandoned` says who carries an open epoch on: the timeout while a vCPU has not
answered, the poll of the device, or the owner. It needs `DrainPolled` beside it,
that the poll is armed as long as the device drains: the property is silent about the
device while answers are missing, and the last answer leaves the epoch to the poll
alone. Only the owner of vCPU 0 writes the tracker
(`TrackerWrites`), so the proof goes along its agenda: a resend ends in the step that
arms the timeout again (`ResendingStep`), a closing epoch in the step that closes it
(`ClosingStep`). Nothing is assumed of the mailboxes, and no property is made of
`kLifecycleReserve`: with three retries a VM may send four quiesces and the reserve of
eight is shared, so lifecycle traffic can be refused (`vm_lifecycle.cpp:391`), and what
is lost is left to the timeout.

`RestoreOnlyQuiesced` and the refinement are false in general: the run `orphan` has a
vCPU come up during the restore. They hold when every vCPU of a VM is on the core of
vCPU 0 (`OneCorePerVm`), since then the start cannot be in flight on another core
while the coordinator works; every machine of single-vCPU VMs is of that kind.
`ScannedOff` adds that what the walk before a restore has seen off stays off. For the
refinement, each step of the code changes at most one of the three abstract
variables: `StartOrStop`, `ClaimOrSettle` and `ReloadOrRefill` show that the change
is then a step of `VmPower`, and every other step is a stutter.

`Single` says that the interrupts in flight are distinct in every shadow and in
every hardware bank. The property speaks of `Truth(v)`, one or the other; it is
not inductive, because a switch makes a shadow the truth that the property said
nothing of. The step that needs work is `RefillDistinct`: a refill puts
different candidates into different free registers because `Rank` and the turn
of a register are injective, and no candidate is in flight.

`Bound == Located /\ Present /\ Exclusive` carries `OneToken`. `Exclusive` is the
property said of registers instead of vCPUs: a line is unmasked, or its token is
bound to the distributor, or one register of one vCPU holds it. To know that a
refill takes the token out of the distributor and into a register that counts,
EL2 code must find the vCPU on when it gets to it (`Located`: what refills, wakes or
parks lies with the vCPU's own core, which is the one that would turn it off, and
nothing that is off is resident), and a token must be of the present generation
(`Present`), except in the registers a vCPU that is off has left behind: those are
wiped before it runs again, and that they may hold the token of a line already
unmasked is why `Holders` does not count them.

`NoLostWakeup` says only that somebody is on the way. `Heard` says who: a marked
bitmap has its SGI raised or taken (`Marked`), and a vCPU nobody is called to look
at either has in its registers what it wants, or an end of interrupt that brings
its core back (`Fetched`), and does not sleep on something deliverable (`Awake`).
The work is in `RefillSees`: what a refill leaves out either overflowed, which arms
the underflow interrupt, or is in flight and had its maintenance bit armed; and in
`EndBrings`: the guest's end of that interrupt raises the maintenance interrupt in
the same step. `Kept` states once that executing an instruction drops no other.

`SchedInv` adds to the three properties of `Sched` what they say nothing of. Who is
in the registers while nobody is in a guest: the resident, or one that was retired
and is still off (`Resident`), so that a switch parks into the bank of its owner or
into none, and a new life makes the remains dead; and that FP registers that do not
trap are the resident's, since the owner changes only by the trap or by the end of a
life (`Banked`). Where a switch is still owed while a dispatch runs (`Stage`): the
core is in the idle loop, or its resident runs, or the epilogue is set, and
`schedule_out()` called from a drain returns to the drain only with somebody running.
`SwitchPoints` adds what a step inside a dispatch does to the resident (`SwapsStep`):
a retirement leaves a switch owed, and an expired slice makes one whole swap.
`DeadlinesWatched` is inductive with the types; it rests on `NextDeadlineWatches`,
that a queue has an earliest slot.

`IInv` of the devices is `SmmuInv /\ DmaInv`, a part for the driver and one for its
callers. The properties are silent while an operation is under way, and what they
say when it has ended is what its steps made true one after another; `SmmuInv` is
that knowledge, step by step:

- `OperationKnown`, `RestKnown`, `PcKnown`: an operation has streams left and lies
  within its section; a detach has exactly the attached streams of its VM left, so
  none is attached when nothing is left.
- `RegistersKnown`: untranslated traffic is aborted from the first write of the
  bring-up on, and outside of it translation is on.
- `TableKnown`, `CacheKnown`: a context, in memory or cached, is the one of the
  owner's VM, and its stream is in use (`Route`). Firmware's entries are the exception:
  they stay cached until the batch that names them is consumed (`Stale`).
- `InstallKnown`, `AbortKnown`: what memory, cache and command queue hold while one
  entry changes. The queue is a suffix of the batch submitted, and a command that
  has left it has had its effect; hence a driver that sees the queue empty knows
  that the hardware holds no valid entry (`Blank`) and may write the body.
- `TlbKnown`: a cached translation is of a VM with a stream in use. The hardware may
  refill what was just invalidated, which is harmless as long as another stream
  of the VM is attached (`OthersOnly`), and impossible otherwise, because the entry
  and its copy went first. The order of the writes carries the whole argument.
- `QueueKnown`: commands are on their way only while the driver waits for them, so
  an operation starts with an empty queue.

`DmaInv` says for whom the lock is held (`HolderKnown`), that nothing moves before
the registry is probed (`BootQuiet`), and what the walks know of their devices
(`VmKnown`): a VM attaches only while its devices are unavailable or resuming, and
once one is quiesced no stream of the VM is attached, which the interrupt core's
quarantines can only confirm. `LineKnown` names who opens the line of a running
device, the unmask walk for those it has yet to visit, and after it the guest's end of
interrupt, whose token is of the present generation. The number of streams, devices,
VMs and generations and the sizes of the rings are arbitrary.

`DistInv` says who holds `config_lock` (`LockHeld`), and that what the holder has
read is what the registers still hold and what it wrote stays written
(`HolderKnows`). `SpisAsAsked` says nothing of an INTID that is being configured,
so the group, which is written long before the trigger and the route, has to be
carried along (`AskedKept`). A write of a word then changes one bit (`OneBit`)
because nobody else is in the configuration. The scrub is arithmetic: an INTID of
the board past the private bank lies in a bank the loop reaches when the last bank
is whole (`BankReached`).

`WdInv` says that a request on its way says what its number was given out for
(`RequestsKnown`), and that an armed deadline is armed for a beat that asked for it
(`ArmedKnown`). `LatestBeatRules` is not inductive: it does not say *for which* beat
the deadline is armed, and one armed for an older beat would expire without
effect and leave the slot free against the latest beat. `LatestKnown` adds that, and
`StrikeKnown` that a strike was for a beat that had asked for a window.
No instance gets its predecessor's beats because generations only grow and a beat
carries the one it was made in (`Numbered`).

`MemoryInv` is about half-built tables. Every table taken from a pool hangs from one
entry alone and one not yet taken is empty (`Tree`), so a write at the end of a
walk changes the walks of the addresses that pass through that entry and no others:
one for a page, `Fan` for a block, none for a fresh table. Hence `Maps`: until a
refusal stops the machine, a guest's walks give exactly the ranges
`map_range` has passed, whether as blocks or as pages, and nothing else. Blocks
stay exact because a block is written only when a whole one fits (`Blockable`) and
its entry is empty; a range that meets another is refused. `VmsIsolated` follows
with the ranges' physical sides: windows are apart because they are packed and checked (`Checked`),
devices because an owner is unique and the inventory keeps their registers apart.
`FirstContent` says where the first content of a window is: in the window until the
snapshot, in its slot from then on. It is inductive because slots are packed by
the same rule as windows (`Packed`), so they are apart from each other, lie in the
reservation (`Reserved`), and no walk leads there. Nothing bounds the number of
guests, of devices or of tables.

`TrapInv` is `InstructionExact` with its types: a vCPU that is not off will resume
with the frame its last trap owes it, wherever that frame is (on the stack of its
core, or put away by a switch). A trap ends in one of three ways, one lemma each: the guest
resumes at once (`StayingKeeps`), it is switched out whole (`YieldingKeeps`,
`GivingWayKeeps`), or it leaves its core, for good or until it is woken (`LeavingKeeps`); the
handlers are then taken one by one for the frame they leave. What a load leaves in
its register is arithmetic: extending the sign within 64 bits and cutting the result
to 32 is the signed number modulo the width of the register (`LoadIsLoaded`), and
the page of the fault with the offset of the virtual address is the address the
access was for (`AddressBack`).

`PolInv` says that boot goes on with an image the checks accepted and with the tables
built from it, and stops only for one they refused; that much is immediate. What
has to be proved is that the checks, which compare an entry with those
before it by arithmetic that must not leave the width, accept exactly the images that
are sound in terms of sets of addresses, devices and owners (`SoundIsAccepted`): two
ranges overlap when they have an address in common (`OverlapIsMeeting`), a table
repeats nothing when it has as many values as entries (`DistinctCount`). The
loops that fill the tables of streams and the registry collect a set, each
member once (`CollectedIsSet`), and the first uses of devices are the
devices (`RegistryIs`).

`IvcInv` counts messages with unbounded numbers and says that an index is the
number modulo its width (`IndicesCount`), that what lies between is in its slots
(`SlotsHold`), and what each side may conclude from an index it read long ago: the
consumer can only have moved on, so room once found stays (`ProducerKnows`), and
the value read is the next one (`ConsumerKnows`). The rest is arithmetic: the
difference of two wrapped counters is their difference while they are less than
the width apart, and wrapping at a multiple of the slots does not move the slot
(`WrappedDifference`, `WrappedSlot`). `CommandInv` and `EventInv` are the same for the two SMMU queues:
a batch is staged only when the device has nothing left, and during a walk the
consumer register lags behind what was seen, so the device keeps clear of slots
not yet read (`SlotsHeld`). None of the three bounds the number of messages: the
`Max...` constants appear in guards only and are not assumed to be anything.

`TlmInv` follows a slot through a copy. Only the publisher inside holds the lock
(`LockKnown`), and each slot has a stretch of the payload to itself (`Laid`).
`CopyKnown` says that what the publisher inside took so far is what the payload
holds, and `StoryKnown` that while it has noticed no change the payload is the
latest reading, but for the words (`Loose`) a loop that loads twice may change
unnoticed. `HostReadsTruth` is not inductive because it speaks of a reader only when
it has accepted; `ReaderKnown` says what it has in hand before: as long as the
sequence it saw may still stand (`Following`), each word read is the one in the
payload, a loose one at least one of a reading made under that sequence, and the
stamp is that of the slot. The case that carries the weight is a copy that has
noticed nothing yet: it will put the sequence back as it was, and the reader that
saw it before must be right about words on both sides of the copy.

`CmdInv` says which commands the machine will still take (`Queue`): up to its own
copy of the write index while it drains, and nothing at all once the index in the
page is broken. That the machine cannot mistake a broken index for a good one is
`IndexTold`: whatever was stored is still out of range when the machine comes to
read it, because nothing is issued in between and a drain only moves the read index
to the copy. Then what waits was accepted, is not voided and is numbered after all
that is done (`QueueKnown`), and the writer has the slot behind it to itself
(`WriterKnows`), also when the process died in a slot and the next one writes it
again.

`TrcInv` is about a reader that copies while the core laps it. `SlotsIntact` says
which slots are whole (all behind the head but the one the core has opened), and
`CopyTrue` what a copy is worth: an entry found is the event of its place unless
the place is below the oldest intact record *now*, which is why the drain reads the
head a second time before it hands anything out. `LedgerKept` is the account at the
cursor: early events, records and gaps handed out so far tell every event once, in
order, except what is counted as pending. `LedgerExact` says this of the ledger as a
whole; that a ledger which tells a prefix goes on telling it when records or a gap
are appended is `Tally` and the lemmas over it, by induction on positions.

`ConInv` is `ConsoleLossless` with its types, and that a byte that was routed is still in the
wire (`RoutedWaits`). The property is inductive because it is stated as two
accounts: what was pushed is what was popped and then what the FIFO holds, over the
wrap of its index (`ReceivedSeq`), and what was printed is what was emitted and
then what the line buffer holds. The level of the interrupt is part of it, since a byte
without its interrupt is lost to a guest that waits for it.

Assumptions on the constants (`ConfigAssumption`, `VGicAssumption`,
`DistributorAssumption`, `MemoryAssumption`, `TrapAssumption`, `PolicyAssumption`, `TelemetryAssumption`, `SmmuAssumption`, `DmaAssumption`, `CommandAssumption`,
`ConAssumption`, ...) say that a guest table or a board is well formed, and TLC evaluates them in
every run of the module. `MemoryAssumption` takes from the image builder that two devices' registers do not
meet, nor a device's and a guest's window (`dtb.py:371`, `dtb.py:469`), and from the
board layouts that the reservation of the snapshots is RAM, apart from the guest
windows, the IVC page and every device; what the boot code checks itself (packing,
windows, reservation, images) is not assumed. `TrapAssumption` says of a byte what the loads need of it (four widths, each even, the
widest the square of the one before, which the provers cannot compute), and that stage 1 keeps
the offset within a page. `SmmuAssumption` also wants room in the command ring for
the two commands of an entry and their sync. `PolicyAssumption` says that an image has four tables of numbers of the
right width, whatever they are, and that powers of two are whole. `TraceAssumption` says only that a region
gives its ring a whole number of records, which the provers, that know no powers
of two, cannot compute.

Only model-checked: liveness (`LifecycleEnds`, `QuiesceEnds`, `FaultQuarantines`,
`SleeperWakes`, `ReadyRuns`), which is out of the prover's reach; and the properties of the parts of `alone` that the table
above does not name (`RegistersExact`, `BootSound`). The library's induction rules take an
operator, which the provers do not instantiate; where an account needs induction it is
made over sets, from a least counterexample (`LeastNatural`, `SetInduction` in
`RingProofs`), with recursive functions in place of operators. What the remaining
recursive functions compute (the folds over records, the device tree) is checked on the instances only.

## Plan

The models follow the code; what is left is proof and size.

1. A device's line in `VGic` and `DmaDevice` under one lifecycle.
2. `Sched` with several cores, so that `VmLifecycle` and it share one idle loop.

## Not modelled

Guest programs and the choice of components of a project (`projects/`); build, test and display
tooling beyond the command writer, the trace drain and the device-tree writer; assembly
and the build-time layouts; boot
messages, which are sequential and leave no state behind; panics and their stop of
other cores; exceptions taken from EL2 itself; identification and configuration
registers of emulated devices; the text of manifests, audits and records. VMs of
more than two vCPUs, which the code does not have. Hardware memory ordering: shared
accesses are acquire/release or under a lock, and the models take them as
sequentially consistent.
