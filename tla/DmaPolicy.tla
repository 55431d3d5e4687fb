------------------------------- MODULE DmaPolicy -------------------------------
(***************************************************************************)
(* What EL2 accepts before a device may master the bus: the capabilities   *)
(* of the SMMU, the policy the image carries (nova/abi/dma), the contexts  *)
(* and bindings built from it, and the registry of devices.                *)
(*                                                                         *)
(* Boot is single-core: each check is one step, and one that fails stops   *)
(* the machine, or leaves the registry without devices.  An address is a   *)
(* number of Width bits, so a range may reach past the end of them.        *)
(***************************************************************************)
EXTENDS Integers, Sequences, FiniteSets

CONSTANTS
  Width,        \* bits of an address (64)
  PolicyPage,   \* kPageSize
  OutputBits,   \* kOutputAddressLimit is 2^OutputBits
  SidBits,      \* kSidBits
  QueueLog2,    \* kCommandQueueLog2, kEventQueueLog2
  VmidBits,     \* bits of a VMID without VMID16
  MaxDevices,   \* kMaxDevices
  DmaConfigs    \* the boards and images considered

VARIABLES
  dmaImage,        \* this board and image
  dmaStage,     \* what boot has reached
  g_contexts,   \* of each VM: its VMID, and the pages its DMA table maps
  g_bindings,   \* owner_vm of each stream
  g_vm_streams, \* streams_of each VM
  g_registry    \* the devices tracked, with their owners

polVars == <<dmaImage, dmaStage, g_contexts, g_bindings, g_vm_streams, g_registry>>

Top == 2^Width - 1

\* A board and an image as the build writes them, whatever they say; and powers
\* of two are whole numbers.
ImageShape(m) ==
  /\ m.guests \in Seq([ipa : 0..Top, pa : 0..Top, size : 0..Top, vmid : Nat])
  /\ m.protected \in Seq([base : 0..Top, size : 0..Top])
  /\ m.assignments \in Seq([dev : STRING, sid : Nat, vm : Nat])
  /\ m.streams \in Seq([dev : STRING, sid : Nat])

ASSUME PolicyAssumption ==
  /\ {2^Width, 2^OutputBits, 2^SidBits, 2^VmidBits, PolicyPage} \subseteq Nat \ {0}
  /\ 2^OutputBits <= 2^Width
  /\ \A m \in DmaConfigs : ImageShape(m)

NoVm == 0          \* VMs are numbered from 1, as the sequences that list them
NoDevice == "none"
Vms == DOMAIN dmaImage.guests
StreamIds == 0..(2^SidBits - 1)

------------------------------------------------------------------------------
(* nova/range.hpp, in numbers that never leave the width                    *)

range_well_formed(base, size) == size # 0 /\ base <= Top - (size - 1)

ranges_overlap(b1, s1, b2, s2) ==
  s1 # 0 /\ s2 # 0 /\ IF b1 <= b2 THEN b2 - b1 < s1 ELSE b1 - b2 < s2

range_contains(base, size, sub, len) == len <= size /\ sub >= base /\ sub - base <= size - len

------------------------------------------------------------------------------
(* The checks, in the order of their loops: an entry is compared with those *)
(* before it.                                                               *)

Before(i) == 1..(i - 1)

validate_capabilities(c) ==
  /\ c.stage2 /\ c.aarch64 /\ c.coherent /\ ~c.preset /\ c.granule4k
  /\ c.output >= 2
  /\ c.sid_bits >= SidBits
  /\ c.queue_log2 >= QueueLog2

guest_range_valid(base, size) == range_well_formed(base, size) /\ base % PolicyPage = 0 /\ size % PolicyPage = 0

\* Faulty: each guest is compared only with the one before it.
NeighboursApart(gs) ==
  \A i \in DOMAIN gs : i > 1 => ~ranges_overlap(gs[i].pa, gs[i].size, gs[i - 1].pa, gs[i - 1].size)
GuestsApart(gs) ==
  \A i \in DOMAIN gs : \A j \in Before(i) : ~ranges_overlap(gs[i].pa, gs[i].size, gs[j].pa, gs[j].size)

GuestsValid(gs, protected) ==
  /\ \A p \in DOMAIN protected : range_well_formed(protected[p].base, protected[p].size)
  /\ \A i \in DOMAIN gs :
       /\ guest_range_valid(gs[i].ipa, gs[i].size) /\ guest_range_valid(gs[i].pa, gs[i].size)
       /\ \A p \in DOMAIN protected : ~ranges_overlap(gs[i].pa, gs[i].size, protected[p].base, protected[p].size)
  /\ GuestsApart(gs)

AssignmentsValid(as, guests) ==
  \A i \in DOMAIN as :
    /\ as[i].vm \in DOMAIN guests
    /\ as[i].dev # NoDevice
    /\ as[i].sid < 2^SidBits
    /\ \A j \in Before(i) : /\ as[i].sid # as[j].sid
                            /\ as[i].dev = as[j].dev => as[i].vm = as[j].vm

\* Faulty: a device may be given away with some of its streams left out.
KnownStreams(as, devices) == \A i \in DOMAIN as : \E d \in DOMAIN devices : devices[d] = [dev |-> as[i].dev, sid |-> as[i].sid]
\* validate_device_policy
WholeDevices(as, devices) ==
  /\ KnownStreams(as, devices)
  /\ \A d \in DOMAIN devices :
       (\E i \in DOMAIN as : as[i].dev = devices[d].dev) => \E i \in DOMAIN as : as[i].dev = devices[d].dev /\ as[i].sid = devices[d].sid

DevicesValid(devices) ==
  \A d \in DOMAIN devices :
    /\ devices[d].dev # NoDevice
    /\ devices[d].sid < 2^SidBits
    /\ \A e \in Before(d) : devices[d].sid # devices[e].sid

validate_policy(m) ==
  /\ GuestsValid(m.guests, m.protected)
  /\ AssignmentsValid(m.assignments, m.guests)
  /\ DevicesValid(m.streams)
  /\ WholeDevices(m.assignments, m.streams)

validate_contexts(gs, vmid16) ==
  \A i \in DOMAIN gs :
    /\ gs[i].vmid # 0 /\ (vmid16 \/ gs[i].vmid < 2^VmidBits)
    /\ range_well_formed(gs[i].pa, gs[i].size) /\ range_contains(0, 2^OutputBits, gs[i].pa, gs[i].size)
    /\ \A j \in Before(i) : gs[i].vmid # gs[j].vmid

\* find_backend, find_capability: the first of the table, none known twice.
Listed(table, dev) == {t \in DOMAIN table : table[t].dev = dev}
FirstOf(table, dev) == table[CHOOSE t \in Listed(table, dev) : \A u \in Listed(table, dev) : t <= u]

backend_well_formed(b) == b.dev # NoDevice /\ b.calls /\ (b.reset = "function" => b.canReset)

validate_backend_policy(m) ==
  /\ Len(m.capabilities) <= MaxDevices
  /\ \A i \in DOMAIN m.backends :
       backend_well_formed(m.backends[i]) /\ \A j \in Before(i) : m.backends[i].dev # m.backends[j].dev
  /\ \A i \in DOMAIN m.assignments :
       LET dev == m.assignments[i].dev
       IN /\ Listed(m.capabilities, dev) # {} /\ Listed(m.backends, dev) # {}
          /\ FirstOf(m.backends, dev).reset = FirstOf(m.capabilities, dev).reset

\* What a loop over the numbers below n collects of a set, in order.
Collected(set, n) ==
  LET upto[k \in 0..n] == IF k = 0 THEN <<>> ELSE IF k - 1 \in set THEN Append(upto[k - 1], k - 1) ELSE upto[k - 1]
  IN upto[n]

\* Registry::load: a device once, for its first owner, while there is room.
FirstUses(as) == {i \in DOMAIN as : \A j \in Before(i) : as[j].dev # as[i].dev}
RegistryEntries(as) ==
  LET first == Collected(FirstUses(as), Len(as) + 1)
  IN [e \in DOMAIN first |-> [dev |-> as[first[e]].dev, vm |-> as[first[e]].vm]]
RegistryLoads(m) == Len(RegistryEntries(m.assignments)) <= MaxDevices

------------------------------------------------------------------------------
(* Boot                                                                     *)

CheckCapabilities ==
  /\ dmaStage = "start"
  /\ dmaStage' = IF validate_capabilities(dmaImage.smmu) THEN "capable" ELSE "panic"
  /\ UNCHANGED <<dmaImage, g_contexts, g_bindings, g_vm_streams, g_registry>>

Bound(as, s) == {i \in DOMAIN as : as[i].sid = s}
Bindings(as) == [s \in StreamIds |-> IF Bound(as, s) = {} THEN NoVm ELSE as[CHOOSE i \in Bound(as, s) : TRUE].vm]

\* build_dma_contexts.  A DMA table maps the RAM of its guest and nothing else;
\* Stage2 has the walk that writes it.  build_stream_index lists the streams
\* of a VM in the order of the stream table.
BuildContexts ==
  /\ dmaStage = "capable"
  /\ IF /\ dmaImage.guests # <<>>
        /\ validate_policy(dmaImage) /\ validate_contexts(dmaImage.guests, dmaImage.smmu.vmid16)
     THEN LET gs == dmaImage.guests
              as == dmaImage.assignments
              owner == Bindings(as)
          IN /\ dmaStage' = "isolated"
             /\ g_contexts' = [vm \in Vms |-> [vmid |-> gs[vm].vmid, reach |-> gs[vm].pa..(gs[vm].pa + gs[vm].size - 1)]]
             /\ g_bindings' = owner
             /\ g_vm_streams' = [vm \in Vms |-> Collected({s \in StreamIds : owner[s] = vm}, 2^SidBits)]
     ELSE dmaStage' = "panic" /\ UNCHANGED <<g_contexts, g_bindings, g_vm_streams>>
  /\ UNCHANGED <<dmaImage, g_registry>>

\* dma_device::init: a policy it cannot carry out leaves no device usable.
LoadRegistry ==
  /\ dmaStage = "isolated"
  /\ IF validate_backend_policy(dmaImage) /\ RegistryLoads(dmaImage)
     THEN dmaStage' = "running" /\ g_registry' = RegistryEntries(dmaImage.assignments)
     ELSE dmaStage' = "no devices" /\ g_registry' = <<>>
  /\ UNCHANGED <<dmaImage, g_contexts, g_bindings, g_vm_streams>>

PolBegins ==
  /\ dmaStage = "start"
  /\ g_contexts = <<>> /\ g_bindings = [s \in StreamIds |-> NoVm] /\ g_vm_streams = <<>> /\ g_registry = <<>>

PolInit == dmaImage \in DmaConfigs /\ PolBegins

PolNext == CheckCapabilities \/ BuildContexts \/ LoadRegistry

PolSpec == PolInit /\ [][PolNext]_polVars

------------------------------------------------------------------------------
(* What a policy must be, in terms of addresses, devices and owners.        *)

\* The addresses of a range, the ones past the end of the width included.
Span(base, size) == base..(base + size - 1)

Owners(m, dev) == {a.vm : a \in {b \in {m.assignments[i] : i \in DOMAIN m.assignments} : b.dev = dev}}
StreamsOf(m, dev) == {m.streams[d].sid : d \in {e \in DOMAIN m.streams : m.streams[e].dev = dev}}
Given(m, dev) == {m.assignments[i].sid : i \in {j \in DOMAIN m.assignments : m.assignments[j].dev = dev}}
Devices(m) == {m.assignments[i].dev : i \in DOMAIN m.assignments}

\* Nothing but its own RAM can be reached through a VM's context.
ReachIsolated ==
  \A vm \in Vms :
    /\ g_contexts[vm].reach # {} /\ g_contexts[vm].reach \subseteq 0..(2^OutputBits - 1)
    /\ \A other \in Vms \ {vm} : g_contexts[vm].reach \cap g_contexts[other].reach = {} /\ g_contexts[vm].vmid # g_contexts[other].vmid
    /\ \A p \in DOMAIN dmaImage.protected : g_contexts[vm].reach \cap Span(dmaImage.protected[p].base, dmaImage.protected[p].size) = {}

\* A device belongs to one VM with every stream it has, and no stream of it
\* may be used by another; each VM's streams are listed once, and no others.
DevicesWhole ==
  /\ \A dev \in Devices(dmaImage) : /\ Given(dmaImage, dev) = StreamsOf(dmaImage, dev)
                                 /\ \E vm \in Vms : \A s \in StreamsOf(dmaImage, dev) : g_bindings[s] = vm
  /\ \A s \in StreamIds : g_bindings[s] # NoVm => \E dev \in Devices(dmaImage) : s \in StreamsOf(dmaImage, dev)
  /\ \A vm \in Vms : /\ {g_vm_streams[vm][i] : i \in DOMAIN g_vm_streams[vm]} = {s \in StreamIds : g_bindings[s] = vm}
                     /\ Len(g_vm_streams[vm]) = Cardinality({s \in StreamIds : g_bindings[s] = vm})

\* Each tracked device has one entry, under the VM its streams are bound to.
RegistryAgrees ==
  /\ {g_registry[i].dev : i \in DOMAIN g_registry} = Devices(dmaImage) /\ Len(g_registry) = Cardinality(Devices(dmaImage))
  /\ \A i \in DOMAIN g_registry : \A s \in StreamsOf(dmaImage, g_registry[i].dev) : g_bindings[s] = g_registry[i].vm

\* An image EL2 must be able to run: whole pages of RAM, apart, within reach.
RamSound ==
  /\ \A vm \in Vms : LET g == dmaImage.guests[vm] IN
       /\ g.size > 0 /\ g.pa % PolicyPage = 0 /\ g.ipa % PolicyPage = 0 /\ g.size % PolicyPage = 0
       /\ Span(g.pa, g.size) \subseteq 0..(2^OutputBits - 1) /\ g.ipa + g.size - 1 <= Top
       /\ \A other \in Vms \ {vm} : Span(g.pa, g.size) \cap Span(dmaImage.guests[other].pa, dmaImage.guests[other].size) = {}
       /\ \A p \in DOMAIN dmaImage.protected : Span(g.pa, g.size) \cap Span(dmaImage.protected[p].base, dmaImage.protected[p].size) = {}
  /\ \A p \in DOMAIN dmaImage.protected : LET r == dmaImage.protected[p] IN r.size > 0 /\ r.base + r.size - 1 <= Top

\* Distinct streams, each of one known device that is given away whole, to one
\* VM of the image, and distinct VMIDs that fit.
OwnersSound ==
  /\ Cardinality({dmaImage.assignments[i].sid : i \in DOMAIN dmaImage.assignments}) = Len(dmaImage.assignments)
  /\ Cardinality({dmaImage.streams[d].sid : d \in DOMAIN dmaImage.streams}) = Len(dmaImage.streams)
  /\ {dmaImage.streams[d].sid : d \in DOMAIN dmaImage.streams} \subseteq StreamIds
  /\ NoDevice \notin {dmaImage.streams[d].dev : d \in DOMAIN dmaImage.streams}
  /\ \A dev \in Devices(dmaImage) : /\ Given(dmaImage, dev) = StreamsOf(dmaImage, dev)
                                 /\ Cardinality(Owners(dmaImage, dev)) = 1 /\ Owners(dmaImage, dev) \subseteq Vms
VmidsSound ==
  /\ Cardinality({dmaImage.guests[vm].vmid : vm \in Vms}) = Cardinality(Vms)
  /\ \A vm \in Vms : dmaImage.guests[vm].vmid > 0 /\ (dmaImage.smmu.vmid16 \/ dmaImage.guests[vm].vmid <= 2^VmidBits - 1)

\* A machine that boots isolates DMA: no context of a VM reaches another's RAM,
\* EL2's or a reserved window, whatever the ranges at the end of the address
\* space; no device is shared or split between VMs; and the registry and the
\* bindings agree on who owns what.  And the checks refuse nothing else: a
\* machine that stops had an image at fault.
DmaPolicySound ==
  /\ dmaStage \in {"isolated", "running", "no devices"} =>
       ReachIsolated /\ DevicesWhole /\ RamSound /\ OwnersSound /\ VmidsSound
  /\ dmaStage = "running" => RegistryAgrees
  /\ dmaStage = "panic" /\ validate_capabilities(dmaImage.smmu) => ~(Vms # {} /\ RamSound /\ OwnersSound /\ VmidsSound)
================================================================================
