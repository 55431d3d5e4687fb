-------------------------------- MODULE VGicRegs --------------------------------
(***************************************************************************)
(* The registers a guest sees of its interrupt controller (vgic_model):    *)
(* the distributor of its VM, the redistributor frames of its vCPUs, the   *)
(* SGI register, and which writes re-evaluate whose interrupts.            *)
(*                                                                         *)
(* An access runs under the lock of its VM, so it is one step.  Offsets    *)
(* are those of the frames; a word is the set of its bits, a run of        *)
(* priority bytes a function, and a 64-bit identification register a pair  *)
(* of words.  VGic has the delivery that starts from these registers.      *)
(***************************************************************************)
EXTENDS Integers, FiniteSets

CONSTANTS
  GicVms,        \* VMs
  GicWidth,      \* vcpus of each VM
  MaxFrames,     \* kMaxVcpusPerVm: frames whose addresses are claimed
  Bits,          \* interrupts of a word, 0 .. |Bits| - 1 (32)
  SgiBits,       \* those of the private word that are SGIs
  Words,         \* words a guest writes
  PrioBytes,     \* priorities a guest writes, to the lowest byte of an access
  RouteBytes,    \* Aff0 values it routes to
  Raised,        \* bound: bits of the SPIs that are routed and raised by a device
  MaxAccesses    \* bound: writes, SGIs and device interrupts

VARIABLES
  dist,          \* g_dist[vm]: DistState
  redist,        \* CpuState::redist of each vCPU of each VM
  tokens,        \* g_spi_tokens[vm]: SPIs with a live EOI token, not yet taken
  reeval,        \* <<vm, vCPU>> the last access announced by request_reevaluate
  accesses,      \* counts against MaxAccesses
  bytes, set     \* what the guest last wrote, byte by byte and bit by bit

regVars == <<dist, redist, tokens, reeval, accesses, bytes, set>>

P == Cardinality(Bits)
Frames(vm) == 0..(GicWidth[vm] - 1)

\* NOVA_GICD_*: the distributor, whose SPI word is word 1.
GicdCtlr == 0
GicdTyper == 4
GicdPidr2 == 65512
GicdIgroupr1 == 132
GicdIsenabler1 == 260
GicdIcenabler1 == 388
GicdIspendr1 == 516
GicdIcpendr1 == 644
GicdIcactiver1 == 900
GicdIpriorityrSpi == 1024 + P
GicdIpriorityrEnd == 1024 + 2 * P
GicdIrouterSpi == 24576 + 8 * P
GicdIrouterEnd == 24576 + 16 * P

\* NOVA_GICR_*: an RD frame and, 64 KiB on, an SGI frame.
GicrFrameSize == 131072
GicrCtlr == 0
GicrTyper == 8
GicrTyperHi == 12
GicrWaker == 20
GicrIgroupr0 == 65664
GicrIsenabler0 == 65792
GicrIcenabler0 == 65920
GicrIspendr0 == 66048
GicrIcpendr0 == 66176
GicrIpriorityr == 66560
GicrIpriorityEnd == 66560 + P
GicrIcfgr1 == 68612

\* kDistIgnored, kRedistIgnored: one of each is enough.
DistIgnored == {GicdIcactiver1}
RedistIgnored == {GicrIcfgr1}

ResetDistState == [ctlr |-> {}, group |-> Bits, enabled |-> {}, pending |-> {},
                   prio |-> [b \in Bits |-> 0], route |-> [b \in Bits |-> 0]]
ResetRedistState == [asleep |-> TRUE, group |-> Bits, enabled |-> SgiBits, pending |-> {}, prio |-> [b \in Bits |-> 0]]

------------------------------------------------------------------------------
(* Decoding                                                                 *)

Unknown == [known |-> FALSE, value |-> 0]
Known(value) == [known |-> TRUE, value |-> value]

\* redist_typer: low word with Processor_Number and Last, affinity above.
redist_typer(vm, frame) == <<(IF frame = GicWidth[vm] - 1 THEN 16 ELSE 0) + 256 * frame, frame>>

\* decode_redist_frame
FrameOf(off) == off \div GicrFrameSize
InFrame(off) == off % GicrFrameSize

\* prio_read, prio_write: byte lanes from the first one.
PrioRead(prio, first, size) == [i \in 0..(size - 1) |-> prio[first + i]]
PrioWrite(prio, first, size, value) == [b \in Bits |-> IF b \in first..(first + size - 1) THEN value[b - first] ELSE prio[b]]

dist_read(d, off, size) ==
  CASE off >= GicdIpriorityrSpi /\ off + size <= GicdIpriorityrEnd -> Known(PrioRead(d.prio, off - GicdIpriorityrSpi, size))
    [] off >= GicdIrouterSpi /\ off < GicdIrouterEnd -> Known(IF off % 8 = 0 THEN d.route[(off - GicdIrouterSpi) \div 8] ELSE 0)
    [] off = GicdCtlr -> Known(d.ctlr \cup {6})
    [] off = GicdTyper -> Known({0, 19, 22})
    [] off = GicdPidr2 -> Known({4, 5})
    [] off = GicdIgroupr1 -> Known(d.group)
    [] off \in {GicdIsenabler1, GicdIcenabler1} -> Known(d.enabled)
    [] off \in {GicdIspendr1, GicdIcpendr1} -> Known(d.pending)
    [] off \in DistIgnored -> Known({})
    [] OTHER -> Unknown

redist_read(r, off, size, vm, frame) ==
  CASE off >= GicrIpriorityr /\ off + size <= GicrIpriorityEnd -> Known(PrioRead(r.prio, off - GicrIpriorityr, size))
    [] off = GicrCtlr -> Known({})
    [] off = GicrTyper -> Known(IF size = 8 THEN redist_typer(vm, frame) ELSE redist_typer(vm, frame)[1])
    [] off = GicrTyperHi -> Known(redist_typer(vm, frame)[2])
    [] off = GicrWaker -> Known(IF r.asleep THEN {1, 2} ELSE {})
    [] off = GicrIgroupr0 -> Known(r.group)
    [] off \in {GicrIsenabler0, GicrIcenabler0} -> Known(r.enabled)
    [] off \in {GicrIspendr0, GicrIcpendr0} -> Known(r.pending)
    [] off \in RedistIgnored -> Known({})
    [] OTHER -> Unknown

\* A write: the new state, and whether it can change what is delivered.
Stored(state) == [state |-> state, delivery |-> FALSE]
Delivers(state) == [state |-> state, delivery |-> TRUE]

\* Faulty: a clear of pending bits drops a tracked SPI, and its token with it.
KeepNone(vm, off) == {}
\* dist_mmio: the tokens are read under the lock of the write.
Keep(vm, off) == IF off = GicdIcpendr1 THEN tokens[vm] ELSE {}

\* The route is read at delivery, so a later write re-routes an SPI that pends,
\* and delivers.  (The head of the file, vgic_model.hpp:25-28, says that the new
\* route applies from the next post only.)
RouteWrite(d, off, value) ==
  IF off % 8 = 0 THEN Delivers([d EXCEPT !.route[(off - GicdIrouterSpi) \div 8] = value]) ELSE Stored(d)

dist_write(d, off, size, value, keep) ==
  CASE off >= GicdIpriorityrSpi /\ off + size <= GicdIpriorityrEnd ->
         Stored([d EXCEPT !.prio = PrioWrite(@, off - GicdIpriorityrSpi, size, value)])
    [] off >= GicdIrouterSpi /\ off < GicdIrouterEnd -> RouteWrite(d, off, value)
    [] off = GicdCtlr -> Stored([d EXCEPT !.ctlr = value])
    [] off = GicdIgroupr1 -> Stored([d EXCEPT !.group = value])
    [] off = GicdIsenabler1 -> Delivers([d EXCEPT !.enabled = @ \cup value])
    [] off = GicdIcenabler1 -> Delivers([d EXCEPT !.enabled = @ \ value])
    [] off = GicdIspendr1 -> Delivers([d EXCEPT !.pending = @ \cup value])
    [] off = GicdIcpendr1 -> Delivers([d EXCEPT !.pending = (@ \ value) \cup keep])
    [] OTHER -> Stored(d)

redist_write(r, off, size, value) ==
  CASE off >= GicrIpriorityr /\ off + size <= GicrIpriorityEnd ->
         Stored([r EXCEPT !.prio = PrioWrite(@, off - GicrIpriorityr, size, value)])
    [] off = GicrWaker -> Stored([r EXCEPT !.asleep = 1 \in value])
    [] off = GicrIgroupr0 -> Stored([r EXCEPT !.group = value])
    [] off = GicrIsenabler0 -> Delivers([r EXCEPT !.enabled = @ \cup value])
    [] off = GicrIcenabler0 -> Delivers([r EXCEPT !.enabled = @ \ value])
    [] off = GicrIspendr0 -> Delivers([r EXCEPT !.pending = @ \cup value])
    [] off = GicrIcpendr0 -> Delivers([r EXCEPT !.pending = @ \ value])
    [] OTHER -> Stored(r)

------------------------------------------------------------------------------
(* What the guest means by its writes, kept apart from the registers: the   *)
(* address space is bytes and bits, whoever writes them and however wide.   *)

DistAddrs == {<<"gicd", GicdIpriorityrSpi + b>> : b \in Bits}
RedistAddrs(vm) == {<<"gicr", f * GicrFrameSize + GicrIpriorityr + b>> : f \in Frames(vm), b \in Bits}
Addrs(vm) == DistAddrs \cup RedistAddrs(vm)

WroteBytes(vm, space, off, size, value) ==
  bytes' = [bytes EXCEPT ![vm] = [a \in Addrs(vm) |->
              IF a[1] = space /\ a[2] \in off..(off + size - 1) THEN value[a[2] - off] ELSE @[a]]]
\* Set-registers add their bits and clear-registers take them away.
WroteBits(vm, name, adds, takes) == set' = [set EXCEPT ![vm][name] = (@ \cup adds) \ takes]

Count == accesses < MaxAccesses /\ accesses' = accesses + 1

Patterns(size) == {[i \in 0..(size - 1) |-> first + i] : first \in PrioBytes}
DistWords == {GicdCtlr, GicdIgroupr1, GicdIsenabler1, GicdIcenabler1, GicdIspendr1, GicdIcpendr1} \cup DistIgnored
RedistWords == {GicrCtlr, GicrWaker, GicrIgroupr0, GicrIsenabler0, GicrIcenabler0, GicrIspendr0, GicrIcpendr0} \cup RedistIgnored
Aligned(base, size) == {base + b : b \in {c \in Bits : c % size = 0 /\ c + size <= P}}

------------------------------------------------------------------------------
(* Accesses of the guest of a VM; its vCPUs share the address space         *)

\* dist_mmio: a write that delivers re-evaluates every vCPU of the VM.
DistMmio(vm, off, size, value) ==
  /\ Count
  /\ LET w == dist_write(dist[vm], off, size, value, Keep(vm, off))
     IN /\ dist' = [dist EXCEPT ![vm] = w.state]
        /\ reeval' = IF w.delivery THEN {vm} \X Frames(vm) ELSE {}
  /\ UNCHANGED <<redist, tokens>>

DistPriorities(vm) ==
  \E size \in {1, 2, 4} : \E off \in Aligned(GicdIpriorityrSpi, size), value \in Patterns(size) :
    DistMmio(vm, off, size, value) /\ WroteBytes(vm, "gicd", off, size, value) /\ UNCHANGED set

DistRoutes(vm) ==
  \E b \in Raised, value \in RouteBytes, high \in {0, 4} :
    DistMmio(vm, GicdIrouterSpi + 8 * b + high, 4, value) /\ UNCHANGED <<bytes, set>>

DistWord(vm) ==
  \E off \in DistWords, value \in Words :
    /\ DistMmio(vm, off, 4, value)
    /\ UNCHANGED bytes
    /\ CASE off = GicdIsenabler1 -> WroteBits(vm, <<"spi_enabled", 0>>, value, {})
         [] off = GicdIcenabler1 -> WroteBits(vm, <<"spi_enabled", 0>>, {}, value)
         [] off = GicdIspendr1 -> WroteBits(vm, <<"spi_pending", 0>>, value, {})
         [] off = GicdIcpendr1 -> WroteBits(vm, <<"spi_pending", 0>>, {}, value \ tokens[vm])
         [] OTHER -> UNCHANGED set

\* redist_mmio: the frame is a vCPU of the accessing VM, or RAZ/WI.
RedistMmio(vm, off, size, value) ==
  /\ Count
  /\ IF FrameOf(off) \in Frames(vm)
     THEN LET w == redist_write(redist[vm][FrameOf(off)], InFrame(off), size, value)
          IN /\ redist' = [redist EXCEPT ![vm][FrameOf(off)] = w.state]
             /\ reeval' = IF w.delivery THEN {<<vm, FrameOf(off)>>} ELSE {}
     ELSE reeval' = {} /\ UNCHANGED redist
  /\ UNCHANGED <<dist, tokens>>

RedistPriorities(vm) ==
  \E f \in 0..(MaxFrames - 1), size \in {1, 2, 4} : \E off \in Aligned(GicrIpriorityr, size), value \in Patterns(size) :
    /\ RedistMmio(vm, f * GicrFrameSize + off, size, value)
    /\ WroteBytes(vm, "gicr", f * GicrFrameSize + off, size, value) /\ UNCHANGED set

RedistWord(vm) ==
  \E f \in 0..(MaxFrames - 1), off \in RedistWords, value \in Words :
    /\ RedistMmio(vm, f * GicrFrameSize + off, 4, value)
    /\ UNCHANGED bytes
    /\ IF f \notin Frames(vm) THEN UNCHANGED set
       ELSE CASE off = GicrIsenabler0 -> WroteBits(vm, <<"enabled", f>>, value, {})
              [] off = GicrIcenabler0 -> WroteBits(vm, <<"enabled", f>>, {}, value)
              [] off = GicrIspendr0 -> WroteBits(vm, <<"pending", f>>, value, {})
              [] off = GicrIcpendr0 -> WroteBits(vm, <<"pending", f>>, {}, value)
              [] OTHER -> UNCHANGED set

\* sgi1r_targets
Targets(irm, upper, list, sender, vm) ==
  IF irm THEN Frames(vm) \ {sender} ELSE IF upper THEN {} ELSE list \cap Frames(vm)

GuestSgi(vm, sender, irm, upper, list, intid) ==
  LET to == Targets(irm, upper, list, sender, vm) IN
  /\ Count
  /\ redist' = [redist EXCEPT ![vm] = [v \in Frames(vm) |->
                  IF v \in to THEN [@[v] EXCEPT !.pending = @ \cup {intid}] ELSE @[v]]]
  /\ set' = [set EXCEPT ![vm] = [n \in DOMAIN @ |->
               IF \E v \in Frames(vm) : n = <<"pending", v>> /\ (IF irm THEN v # sender ELSE ~upper /\ v \in list)
               THEN @[n] \cup {intid} ELSE @[n]]]
  /\ reeval' = {vm} \X to
  /\ UNCHANGED <<dist, tokens, bytes>>

spi_target(d, b, vm) == IF d.route[b] < GicWidth[vm] THEN d.route[b] ELSE 0

\* post_spi, and post_spi_tracked whose token the end of interrupt will use:
\* only the vCPU the interrupt is routed to is told.
DeviceIrq(vm, b, tracked) ==
  /\ Count
  /\ b \notin tokens[vm] \/ ~tracked
  /\ dist' = [dist EXCEPT ![vm].pending = @ \cup {b}]
  /\ tokens' = [tokens EXCEPT ![vm] = @ \cup (IF tracked THEN {b} ELSE {})]
  /\ WroteBits(vm, <<"spi_pending", 0>>, {b}, {})
  /\ reeval' = {<<vm, spi_target(dist[vm], b, vm)>>}
  /\ UNCHANGED <<redist, bytes>>

\* refill() moves a deliverable interrupt of a vCPU into a list register.
Refill(vm, v, b) ==
  /\ UNCHANGED <<accesses, bytes>> /\ reeval' = {}
  /\ \/ /\ b \in redist[vm][v].pending \cap redist[vm][v].enabled
        /\ redist' = [redist EXCEPT ![vm][v].pending = @ \ {b}]
        /\ WroteBits(vm, <<"pending", v>>, {}, {b})
        /\ UNCHANGED <<dist, tokens>>
     \/ /\ b \in dist[vm].pending \cap dist[vm].enabled /\ spi_target(dist[vm], b, vm) = v
        /\ dist' = [dist EXCEPT ![vm].pending = @ \ {b}]
        /\ tokens' = [tokens EXCEPT ![vm] = @ \ {b}]
        /\ WroteBits(vm, <<"spi_pending", 0>>, {}, {b})
        /\ UNCHANGED redist

RegNames(vm) == {<<n, 0>> : n \in {"spi_enabled", "spi_pending"}} \cup {<<n, f>> : n \in {"enabled", "pending"}, f \in Frames(vm)}

RegInit ==
  /\ dist = [vm \in GicVms |-> ResetDistState]
  /\ redist = [vm \in GicVms |-> [v \in Frames(vm) |-> ResetRedistState]]
  /\ tokens = [vm \in GicVms |-> {}]
  /\ reeval = {} /\ accesses = 0
  /\ bytes = [vm \in GicVms |-> [a \in Addrs(vm) |-> 0]]
  /\ set = [vm \in GicVms |-> [n \in RegNames(vm) |-> IF n \in {<<"enabled", f>> : f \in Frames(vm)} THEN SgiBits ELSE {}]]

SgiLists == {{v} : v \in 0..(MaxFrames - 1)} \cup {0..(MaxFrames - 1)}

RegNext ==
  \E vm \in GicVms :
    \/ DistPriorities(vm) \/ DistRoutes(vm) \/ DistWord(vm)
    \/ RedistPriorities(vm) \/ RedistWord(vm)
    \/ \E sender \in Frames(vm), irm, upper \in BOOLEAN, list \in SgiLists, intid \in SgiBits :
         GuestSgi(vm, sender, irm, upper, list, intid)
    \/ \E b \in Raised, tracked \in BOOLEAN : DeviceIrq(vm, b, tracked)
    \/ \E b \in Bits, v \in Frames(vm) : Refill(vm, v, b)

------------------------------------------------------------------------------
(* Properties                                                               *)

\* Any aligned width, in any frame: each byte is the one the VM wrote there.
BytesReadBack(vm) ==
  /\ \A size \in {1, 2, 4} : \A off \in Aligned(GicdIpriorityrSpi, size) : \A i \in 0..(size - 1) :
       dist_read(dist[vm], off, size).value[i] = bytes[vm][<<"gicd", off + i>>]
  /\ \A f \in Frames(vm), size \in {1, 2, 4} : \A off \in Aligned(GicrIpriorityr, size) : \A i \in 0..(size - 1) :
       redist_read(redist[vm][f], off, size, vm, f).value[i] = bytes[vm][<<"gicr", f * GicrFrameSize + off + i>>]

BitsReadBack(vm) ==
  /\ \A off \in {GicdIsenabler1, GicdIcenabler1} : dist_read(dist[vm], off, 4).value = set[vm][<<"spi_enabled", 0>>]
  /\ \A off \in {GicdIspendr1, GicdIcpendr1} : dist_read(dist[vm], off, 4).value = set[vm][<<"spi_pending", 0>>]
  /\ \A f \in Frames(vm) :
       /\ \A off \in {GicrIsenabler0, GicrIcenabler0} : redist_read(redist[vm][f], off, 4, vm, f).value = set[vm][<<"enabled", f>>]
       /\ \A off \in {GicrIspendr0, GicrIcpendr0} : redist_read(redist[vm][f], off, 4, vm, f).value = set[vm][<<"pending", f>>]

\* A driver walks the frames by 64-bit or by 32-bit reads of TYPER until Last:
\* it meets each vCPU of the VM once, in order, and no frame beyond.
WalkFindsFrames(vm) ==
  \A f \in Frames(vm) :
    LET low == redist_read(redist[vm][f], GicrTyper, 4, vm, f).value
        high == redist_read(redist[vm][f], GicrTyperHi, 4, vm, f).value
    IN /\ redist_read(redist[vm][f], GicrTyper, 8, vm, f).value = <<low, high>>
       /\ high = f /\ low \div 256 = f
       /\ (low % 32 = 16) <=> (f = GicWidth[vm] - 1)

DeliverableTo(vm, v) ==
  <<redist[vm][v].pending \cap redist[vm][v].enabled,
    {b \in dist[vm].pending \cap dist[vm].enabled : spi_target(dist[vm], b, vm) = v}>>

\* Whatever the width, the frame and the vCPU of its accesses, a guest reads
\* back what its own VM wrote; the frames it walks are its vCPUs; a pending
\* interrupt that was posted with a token is only ever taken by delivery; and
\* an access that leaves some vCPU un-announced has not changed what that vCPU
\* is to be delivered (WriteResult: "marks writes that can change what refill
\* would deliver or where").
RegistersExact ==
  /\ [](\A vm \in GicVms : BytesReadBack(vm) /\ BitsReadBack(vm) /\ WalkFindsFrames(vm))
  /\ [][accesses' # accesses =>
          \A vm \in GicVms : /\ tokens[vm] \subseteq dist'[vm].pending
                             /\ \A v \in Frames(vm) : DeliverableTo(vm, v)' # DeliverableTo(vm, v) => <<vm, v>> \in reeval']_regVars
================================================================================
