-------------------------------- MODULE Stage2 --------------------------------
(***************************************************************************)
(* The memory of the guests (core_mmu): the guest table of the build, its  *)
(* checks at boot, the Stage 2 tables map_range writes one step at a time, *)
(* the copy of the images, the pristine snapshot, and, once guests run,    *)
(* the walks, the TLB and the reload of a window at a warm reset.          *)
(*                                                                         *)
(* Addresses are page numbers.  A table has Fan entries, so an L2 entry    *)
(* covers Fan pages and an L1 entry Fan * Fan; a page holds one value that *)
(* names who wrote it.                                                     *)
(***************************************************************************)
EXTENDS Integers, Sequences, FiniteSets

CONSTANTS
  Fan,                     \* kTableEntries
  L2Pool, L3Pool,          \* kL2PoolSize, kL3PoolSize
  IpaBase, IvcIpa,         \* NOVA_GUEST_IPA_BASE, NOVA_IVC_SHM_IPA
  GuestPa, GuestPaSize,    \* kGuestPaBase, kGuestPaSize
  IvcPa,                   \* kIvcShmPa
  PristinePa, PristineSize,\* kGuestPristinePa, kPristineSize
  PaPages,                 \* physical pages, 0 .. PaPages - 1
  MaxVmid,                 \* the 8-bit VMID space
  MemoryConfigs,           \* the machines the image builder may produce
  TlbEntries               \* bound: translations cached at once

\* What an image may look like.  load_inventory and load_config refuse two
\* devices whose registers meet, one whose registers meet the window of a guest,
\* and a window below its least size; a board reserves RAM for the snapshots, and
\* no device's registers lie in RAM.
Disjoint(b1, s1, b2, s2) == b1 + s1 <= b2 \/ b2 + s2 <= b1
WellFormed(m) ==
  /\ m.guests \in Seq([load : Nat, size : Nat \ {0}, image : Nat, corrupt : BOOLEAN]) /\ Len(m.guests) > 0
  /\ m.regions \in Seq([device : STRING, ipa : Nat, pa : Nat, size : Nat])
  /\ \A i \in 1..Len(m.regions) : LET r == m.regions[i] IN
       /\ \A g \in 1..Len(m.guests) : Disjoint(r.pa, r.size, m.guests[g].load, m.guests[g].size)
       /\ Disjoint(r.pa, r.size, PristinePa, PristineSize)
       /\ \A j \in 1..Len(m.regions) : LET q == m.regions[j] IN q.device # r.device => Disjoint(r.pa, r.size, q.pa, q.size)

ASSUME MemoryAssumption ==
  /\ Fan \in Nat \ {0} /\ L2Pool \in Nat /\ L3Pool \in Nat
  /\ IpaBase \in Nat /\ IvcIpa \in Nat /\ IvcPa \in Nat /\ PaPages \in Nat
  /\ GuestPa \in Nat /\ GuestPaSize \in Nat /\ PristinePa \in Nat /\ PristineSize \in Nat
  /\ GuestPa + GuestPaSize <= PaPages /\ PristinePa + PristineSize <= PaPages
  /\ Disjoint(GuestPa, GuestPaSize, PristinePa, PristineSize) /\ Disjoint(IvcPa, 1, PristinePa, PristineSize)
  /\ \A m \in MemoryConfigs : WellFormed(m)

VARIABLES
  machine,     \* the configuration this image was built with
  bootPhase,   \* what init_guest_table / init_and_activate does next
  g_stage2_sets,
  mapping,     \* map_range: the guest, the range of its list, the address
  g_vttbr,
  mem,         \* physical memory
  vttbr_el2,   \* the guest this core translates for, as [root, vmid]
  tlb          \* [vmid, ipa, pa] cached by this core

s2Vars == <<machine, bootPhase, g_stage2_sets, mapping, g_vttbr, mem, vttbr_el2, tlb>>

Guest == 1..Len(machine.guests)
Ipa == 0..(Fan * Fan * Fan - 1)
Page == 0..(PaPages - 1)

Invalid == [type |-> "invalid", out |-> 0, attr |-> "none"]
Leaf(type, pa, attr) == [type |-> type, out |-> pa, attr |-> attr]
Link(table) == [type |-> "table", out |-> table, attr |-> "none"]

l1_index(ipa) == ipa \div (Fan * Fan)
l2_index(ipa) == (ipa \div Fan) % Fan
l3_index(ipa) == ipa % Fan

------------------------------------------------------------------------------
(* The guest table (init_guest_table) and the checks of its entries         *)

AlignUp(pa) == ((pa + Fan - 1) \div Fan) * Fan

\* Where the packing rule puts window g: the aligned end of the one before.
Packed(base, g) ==
  LET start[i \in Guest] == IF i = 1 THEN base ELSE AlignUp(start[i - 1] + machine.guests[i - 1].size)
  IN start[g]

Window(g) == machine.guests[g].load .. machine.guests[g].load + machine.guests[g].size - 1

\* The DTB takes the last page of the window.
DtbPage(g) == machine.guests[g].load + machine.guests[g].size - 1

Vmid(g) == g

InitGuestTable ==
  /\ bootPhase = "config"
  /\ bootPhase' = IF \A g \in Guest : machine.guests[g].load = Packed(GuestPa, g) THEN "check" ELSE "panic"
  /\ UNCHANGED <<machine, g_stage2_sets, mapping, g_vttbr, mem, vttbr_el2, tlb>>

\* Faulty: the snapshots are not measured against their reservation.
WindowsOnly ==
  \A g \in Guest : machine.guests[g].load >= GuestPa /\ machine.guests[g].load + machine.guests[g].size <= GuestPa + GuestPaSize /\ Vmid(g) <= MaxVmid
Reserved ==
  /\ \A g \in Guest :
       /\ machine.guests[g].load >= GuestPa
       /\ machine.guests[g].load + machine.guests[g].size <= GuestPa + GuestPaSize
       /\ Vmid(g) <= MaxVmid
  /\ Packed(0, Len(machine.guests)) + machine.guests[Len(machine.guests)].size <= PristineSize

\* layout_valid and contents_valid: the image stops below the DTB and is the
\* one its checksum was taken of.
PayloadValid(g) == machine.guests[g].image > 0 => /\ machine.guests[g].image < machine.guests[g].size
                                                 /\ ~machine.guests[g].corrupt

\* validate_cpu_contract, then validate_payloads; a refusal stops the machine.
ValidatePayloads ==
  /\ bootPhase = "check"
  /\ bootPhase' = IF machine.cpuFits /\ Reserved /\ (\A g \in Guest : PayloadValid(g)) /\ (\A g, h \in Guest : g # h => Window(g) \cap Window(h) = {})
                  THEN "build" ELSE "panic"
  /\ UNCHANGED <<machine, g_stage2_sets, mapping, g_vttbr, mem, vttbr_el2, tlb>>

------------------------------------------------------------------------------
(* build_guest_tables: map_range over the ranges of one guest after another *)

\* owner_of: a device two assignments disagree about has no owner.
Owner_of(device) ==
  LET owners == {a.vm : a \in {b \in machine.assignments : b.device = device}}
  IN IF Cardinality(owners) = 1 THEN CHOOSE vm \in owners : TRUE ELSE 0

\* What guest g gets, in order: its window, the IVC page, its devices.
Owns(device, g) == Owner_of(device) = g

Ranges(g) ==
  LET ram == [ipa |-> IpaBase, pa |-> machine.guests[g].load, size |-> machine.guests[g].size, attr |-> "rwx"]
      ivc == [ipa |-> IvcIpa, pa |-> IvcPa, size |-> 1, attr |-> "rw"]
      with[n \in 0..Len(machine.regions)] ==
        IF n = 0 THEN <<ram, ivc>>
        ELSE LET r == machine.regions[n]
             IN IF Owns(r.device, g) THEN Append(with[n - 1], [ipa |-> r.ipa, pa |-> r.pa, size |-> r.size, attr |-> "device"])
                ELSE with[n - 1]
  IN with[Len(machine.regions)]

EmptySet ==
  [l1 |-> [i \in 0..Fan-1 |-> Invalid], l2 |-> [t \in 1..L2Pool |-> [i \in 0..Fan-1 |-> Invalid]],
   l3 |-> [t \in 1..L3Pool |-> [i \in 0..Fan-1 |-> Invalid]], l2_used |-> 0, l3_used |-> 0]

Building == bootPhase = "build"
Set == g_stage2_sets[mapping.vm]
Now == Ranges(mapping.vm)[mapping.range]
Target == Now.pa + (mapping.addr - Now.ipa)
InRange == mapping.addr < Now.ipa + Now.size

\* The entries on the way to the address.
L1Entry == Set.l1[l1_index(mapping.addr)]
L2Entry == Set.l2[L1Entry.out][l2_index(mapping.addr)]
L3Entry == Set.l3[L2Entry.out][l3_index(mapping.addr)]

\* Where this L1 entry, or the range, ends.
RegionEnd ==
  LET l1_end == (l1_index(mapping.addr) + 1) * Fan * Fan
  IN IF Now.ipa + Now.size < l1_end THEN Now.ipa + Now.size ELSE l1_end

Write(set, addr) ==
  /\ g_stage2_sets' = [g_stage2_sets EXCEPT ![mapping.vm] = set]
  /\ mapping' = [mapping EXCEPT !.addr = addr]
  /\ UNCHANGED <<machine, bootPhase, g_vttbr, mem, vttbr_el2, tlb>>

\* The range does not fit the address spaces, a pool is empty, or something is
\* mapped in the way: panic_stage2.
MapRefused ==
  \/ Now.ipa + Now.size > Fan * Fan * Fan
  \/ L1Entry.type = "invalid" /\ Set.l2_used = L2Pool

TakeL2 ==
  /\ Building /\ InRange /\ ~MapRefused
  /\ L1Entry.type = "invalid"
  /\ Write([Set EXCEPT !.l1[l1_index(mapping.addr)] = Link(Set.l2_used + 1), !.l2_used = @ + 1], mapping.addr)

\* A whole free slot whose PA is aligned as well.
\* Faulty: only the IPA is looked at.
HalfAligned == mapping.addr % Fan = 0 /\ RegionEnd - mapping.addr >= Fan /\ L2Entry.type = "invalid"
Blockable ==
  /\ mapping.addr % Fan = 0 /\ Target % Fan = 0
  /\ RegionEnd - mapping.addr >= Fan
  /\ L2Entry.type = "invalid"

MapBlock ==
  /\ Building /\ InRange /\ ~MapRefused /\ L1Entry.type = "table"
  /\ Blockable
  /\ Write([Set EXCEPT !.l2[L1Entry.out][l2_index(mapping.addr)] = Leaf("block", (Target \div Fan) * Fan, Now.attr)], mapping.addr + Fan)

TakeL3 ==
  /\ Building /\ InRange /\ ~MapRefused /\ L1Entry.type = "table"
  /\ ~Blockable /\ L2Entry.type = "invalid" /\ Set.l3_used < L3Pool
  /\ Write([Set EXCEPT !.l2[L1Entry.out][l2_index(mapping.addr)] = Link(Set.l3_used + 1), !.l3_used = @ + 1], mapping.addr)

MapPage ==
  /\ Building /\ InRange /\ ~MapRefused /\ L1Entry.type = "table"
  /\ L2Entry.type = "table" /\ L3Entry.type = "invalid"
  /\ Write([Set EXCEPT !.l3[L2Entry.out][l3_index(mapping.addr)] = Leaf("page", Target, Now.attr)], mapping.addr + 1)

\* panic_stage2 leaves the tables half written; nothing activates them.
PanicStage2 ==
  /\ Building /\ InRange
  /\ \/ MapRefused
     \/ /\ L1Entry.type = "table" /\ ~Blockable
        /\ \/ L2Entry.type = "invalid" /\ Set.l3_used = L3Pool
           \/ L2Entry.type = "block"
           \/ L2Entry.type = "table" /\ L3Entry.type # "invalid"
  /\ bootPhase' = "panic"
  /\ UNCHANGED <<machine, g_stage2_sets, mapping, g_vttbr, mem, vttbr_el2, tlb>>

StartRange(vm, range) == [vm |-> vm, range |-> range, addr |-> Ranges(vm)[range].ipa]

RangeDone ==
  /\ Building /\ ~InRange
  /\ IF mapping.range < Len(Ranges(mapping.vm))
     THEN mapping' = StartRange(mapping.vm, mapping.range + 1) /\ UNCHANGED <<g_vttbr, bootPhase>>
     ELSE /\ g_vttbr' = [g_vttbr EXCEPT ![mapping.vm] = [root |-> mapping.vm, vmid |-> Vmid(mapping.vm)]]
          /\ IF mapping.vm < Len(machine.guests)
             THEN mapping' = StartRange(mapping.vm + 1, 1) /\ UNCHANGED bootPhase
             ELSE bootPhase' = "activate" /\ UNCHANGED mapping
  /\ UNCHANGED <<machine, g_stage2_sets, mem, vttbr_el2, tlb>>

------------------------------------------------------------------------------
(* init_and_activate after the tables: activation, copies, snapshot         *)

Activate ==
  /\ bootPhase = "activate"
  /\ vttbr_el2' = g_vttbr[1] /\ tlb' = {}
  /\ bootPhase' = "copy"
  /\ UNCHANGED <<machine, g_stage2_sets, mapping, g_vttbr, mem>>

\* What a window holds when its guest first runs.
Booted(g, page) ==
  IF page = DtbPage(g) THEN <<"dtb", g>>
  ELSE IF page < machine.guests[g].load + machine.guests[g].image THEN <<"image", g>>
  ELSE <<"zero", 0>>

CopyPayloads ==
  /\ bootPhase = "copy"
  /\ mem' = [p \in Page |-> IF \E g \in Guest : p \in Window(g) THEN Booted(CHOOSE g \in Guest : p \in Window(g), p) ELSE mem[p]]
  /\ bootPhase' = "snapshot"
  /\ UNCHANGED <<machine, g_stage2_sets, mapping, g_vttbr, vttbr_el2, tlb>>

\* pristine_slot: the snapshots pack as the windows do.
PristineSlot(g) == PristinePa + Packed(0, g)

Snapshot ==
  /\ bootPhase = "snapshot"
  /\ mem' = [p \in Page |->
       LET written == {g \in Guest : p \in PristineSlot(g) .. PristineSlot(g) + machine.guests[g].size - 1}
           last == CHOOSE g \in written : \A h \in written : h <= g
       IN IF written = {} THEN mem[p] ELSE mem[machine.guests[last].load + p - PristineSlot(last)]]
  /\ bootPhase' = "run"
  /\ UNCHANGED <<machine, g_stage2_sets, mapping, g_vttbr, vttbr_el2, tlb>>

------------------------------------------------------------------------------
(* Running                                                                  *)

\* The walk of the hardware from the root of guest g, Invalid on a fault.
Walk(g, ipa) ==
  LET set == g_stage2_sets[g]
      e1 == set.l1[l1_index(ipa)]
      e2 == set.l2[e1.out][l2_index(ipa)]
      e3 == set.l3[e2.out][l3_index(ipa)]
  IN IF e1.type # "table" THEN Invalid
     ELSE IF e2.type = "block" THEN [e2 EXCEPT !.out = @ + l3_index(ipa)]
     ELSE IF e2.type = "table" THEN e3
     ELSE Invalid

\* An access of the guest under vttbr_el2 hits the TLB by VMID or walks.
Translate(ipa, pa) ==
  IF \E e \in tlb : e.vmid = vttbr_el2.vmid /\ e.ipa = ipa
  THEN /\ \E e \in tlb : e.vmid = vttbr_el2.vmid /\ e.ipa = ipa /\ pa = e.pa
       /\ UNCHANGED tlb
  ELSE /\ Walk(vttbr_el2.root, ipa).type # "invalid"
       /\ pa = Walk(vttbr_el2.root, ipa).out
       /\ tlb' = tlb \cup {[vmid |-> vttbr_el2.vmid, ipa |-> ipa, pa |-> pa]}

GuestWrites ==
  /\ bootPhase = "run"
  /\ \E ipa \in Ipa, pa \in Page :
       /\ Translate(ipa, pa)
       /\ Cardinality(tlb') <= TlbEntries
       /\ mem' = [mem EXCEPT ![pa] = <<"dirty", vttbr_el2.root>>]
  /\ UNCHANGED <<machine, bootPhase, g_stage2_sets, mapping, g_vttbr, vttbr_el2>>

TlbEvicts ==
  /\ bootPhase = "run"
  /\ \E e \in tlb : tlb' = tlb \ {e}
  /\ UNCHANGED <<machine, bootPhase, g_stage2_sets, mapping, g_vttbr, mem, vttbr_el2>>

\* switch_vm: the VMID tags keep the TLB apart, nothing is invalidated.
SwitchVm ==
  /\ bootPhase = "run"
  /\ \E g \in Guest : g_vttbr[g] # vttbr_el2 /\ vttbr_el2' = g_vttbr[g]
  /\ UNCHANGED <<machine, bootPhase, g_stage2_sets, mapping, g_vttbr, mem, tlb>>

\* restore_changed: only what differs from the snapshot is written.
Restored(g) ==
  [p \in Page |-> IF p \in Window(g) /\ mem[p] # mem[PristineSlot(g) + p - machine.guests[g].load]
                  THEN mem[PristineSlot(g) + p - machine.guests[g].load] ELSE mem[p]]

\* reload_guest_image, of a guest that is off.
ReloadGuestImage(g) ==
  /\ bootPhase = "run"
  /\ mem' = Restored(g)
  /\ UNCHANGED <<machine, bootPhase, g_stage2_sets, mapping, g_vttbr, vttbr_el2, tlb>>

S2Init ==
  /\ machine \in MemoryConfigs
  /\ bootPhase = "config"
  /\ g_stage2_sets = [g \in Guest |-> EmptySet]
  /\ mapping = [vm |-> 1, range |-> 1, addr |-> IpaBase]
  /\ g_vttbr = [g \in Guest |-> [root |-> 0, vmid |-> 0]]
  /\ mem = [p \in Page |-> <<"zero", 0>>]
  /\ vttbr_el2 = [root |-> 0, vmid |-> 0]
  /\ tlb = {}

S2Next ==
  \/ InitGuestTable \/ ValidatePayloads
  \/ TakeL2 \/ MapBlock \/ TakeL3 \/ MapPage \/ PanicStage2 \/ RangeDone
  \/ Activate \/ CopyPayloads \/ Snapshot
  \/ GuestWrites \/ TlbEvicts \/ SwitchVm
  \/ \E g \in Guest : ReloadGuestImage(g)

S2Spec == S2Init /\ [][S2Next]_s2Vars

------------------------------------------------------------------------------
(* Properties                                                               *)

\* What the ranges of guest g ask for at an address.
Intended(g, ipa) ==
  {[out |-> r.pa + ipa - r.ipa, attr |-> r.attr] : r \in {q \in {Ranges(g)[i] : i \in 1..Len(Ranges(g))} : ipa \in q.ipa .. q.ipa + q.size - 1}}

\* Once guests run, a walk of any address gives exactly what the
\* configuration asks for, with its attributes, whatever mixture of blocks
\* and pages map_range chose; a cached translation is one its own guest's
\* tables would give; and the only page two guests both reach is the IVC page
\* (map_range, nova_stage2_switch: "VMID tagging isolates the TLB").
VmsIsolated ==
  bootPhase \in {"copy", "snapshot", "run"} =>
    /\ \A g \in Guest, ipa \in Ipa :
         LET w == Walk(g, ipa)
         IN Intended(g, ipa) = IF w.type = "invalid" THEN {} ELSE {[out |-> w.out, attr |-> w.attr]}
    /\ \A e \in tlb : \A g \in Guest : g_vttbr[g].vmid = e.vmid => Walk(g, e.ipa).type # "invalid" /\ Walk(g, e.ipa).out = e.pa
    /\ \A g, h \in Guest : \A i, j \in Ipa :
         g # h /\ Walk(g, i).type # "invalid" /\ Walk(h, j).type # "invalid" /\ Walk(g, i).out = Walk(h, j).out => Walk(g, i).out = IvcPa

\* However often guests wrote and were reset before, a reload leaves the
\* window as it first booted, image, DTB and zeroed RAM alike, touches no page
\* outside it, and no guest ever writes where the snapshots, or anything that
\* is no guest's, are kept (reload_guest_image: "exactly the state a reboot
\* must restore").
RestoreExact ==
  [][/\ \A g \in Guest : ReloadGuestImage(g) => \A p \in Page : mem'[p] = IF p \in Window(g) THEN Booted(g, p) ELSE mem[p]
     /\ \A p \in Page : mem'[p] # mem[p] /\ bootPhase \in {"snapshot", "run"} =>
          \/ bootPhase = "run" /\ (p = IvcPa \/ (\E g \in Guest : p \in Window(g)) \/ (\E r \in {machine.regions[i] : i \in 1..Len(machine.regions)} : p \in r.pa .. r.pa + r.size - 1))
          \/ bootPhase = "snapshot" /\ p \in PristinePa .. PristinePa + PristineSize - 1]_s2Vars
=============================================================================
