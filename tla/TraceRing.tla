------------------------------- MODULE TraceRing -------------------------------
(***************************************************************************)
(* One core's trace ring (nova/trace.hpp) and the reader of the workbench  *)
(* (novakit/services/workbench/trace.py).  The core writes a record and    *)
(* then moves its head, never waiting for anyone; the reader copies what   *)
(* lies behind the head while the core goes on, and must say how many      *)
(* records it lost and where.  A record is two halves, each the number of  *)
(* its event, so that one torn in two shows.                               *)
(***************************************************************************)
EXTENDS Integers, Sequences

CONSTANTS
  RegionRecords,  \* room of the region, in records
  MaxEvents,      \* bound: events emitted
  MaxEarly,       \* bound: of those, before the ring is placed
  Limited         \* whether a drain may be given a limit

VARIABLES
  capacity,   \* 0 until the region is placed
  g_early,    \* events that had no ring
  early,      \* the count the header publishes
  head,       \* records produced
  records,    \* the slots
  writing,    \* halves of the record at head that are written
  drain,      \* the reader's drain
  rcursor, pending_, earlyPending,
  handed      \* what the reader gave out: events, and gaps with a count

trcVars == <<capacity, g_early, early, head, records, writing, drain, rcursor, pending_, earlyPending, handed>>

NoDrain == [pc |-> "idle", head |-> 0, keep |-> 0, half |-> 0, found |-> <<>>]

TrcInit ==
  /\ capacity = 0 /\ g_early = 0 /\ early = 0
  /\ head = 0 /\ records = <<>> /\ writing = 0
  /\ drain = [NoDrain EXCEPT !.pc = "closed"]
  /\ rcursor = 0 /\ pending_ = 0 /\ earlyPending = 0
  /\ handed = <<>>

------------------------------------------------------------------------------
\* records_per_ring: floored to a power of two so that indexing is a mask.
RecordsPerRing(room) == IF room = 0 THEN 0 ELSE CHOOSE c \in {2^k : k \in 0..room} : c <= room /\ room < 2 * c

\* What the region has room for is a number of records.
ASSUME TraceAssumption == RecordsPerRing(RegionRecords) \in Nat

\* Too little room and the region stays unformatted.
Place ==
  /\ capacity = 0 /\ RecordsPerRing(RegionRecords) > 0
  /\ capacity' = RecordsPerRing(RegionRecords)
  /\ records' = [i \in 0..(capacity' - 1) |-> <<0, 0>>]
  /\ head' = 0
  /\ early' = g_early
  /\ UNCHANGED <<g_early, writing, drain, rcursor, pending_, earlyPending, handed>>

\* emit, before there is a ring
EmitUnplaced ==
  /\ capacity = 0 /\ g_early < MaxEarly
  /\ g_early' = g_early + 1
  /\ UNCHANGED <<capacity, early, head, records, writing, drain, rcursor, pending_, earlyPending, handed>>

Written == <<capacity, g_early, early, drain, rcursor, pending_, earlyPending, handed>>

\* The body first, the head last: the store of the head publishes the body.
EmitBody ==
  /\ capacity > 0 /\ writing < 2 /\ head < MaxEvents
  /\ records' = [records EXCEPT ![head % capacity][writing + 1] = head + 1]
  /\ writing' = writing + 1
  /\ UNCHANGED <<head>> /\ UNCHANGED Written

Whole == writing = 2

EmitHead ==
  /\ capacity > 0 /\ Whole
  /\ head' = head + 1
  /\ writing' = 0
  /\ UNCHANGED records /\ UNCHANGED Written

------------------------------------------------------------------------------
Placed == <<capacity, g_early, early, head, records, writing>>

\* Faulty: the slot being overwritten is taken for a record.
OldestPublished(h) == IF h >= capacity THEN h - capacity ELSE 0
\* One short of the capacity: the core is inside the slot of its head.
OldestIntact(h) == IF h >= capacity THEN h - capacity + 1 ELSE 0

Larger(a, b) == IF a > b THEN a ELSE b

\* TraceReader.__init__ finds the magic.
Attach ==
  /\ drain.pc = "closed" /\ capacity > 0
  /\ drain' = NoDrain
  /\ earlyPending' = early
  /\ UNCHANGED <<rcursor, pending_, handed>> /\ UNCHANGED Placed

\* drain reads the head, and moves it back when it was given a limit; what it
\* keeps is decided from that head.
DrainHead ==
  /\ drain.pc = "idle"
  /\ \E stop \in (IF Limited THEN Larger(rcursor, OldestIntact(head))..head ELSE {head}) :
       drain' = [pc |-> "copy", head |-> stop, keep |-> Larger(rcursor, OldestIntact(stop)), half |-> 0, found |-> <<>>]
  /\ UNCHANGED <<rcursor, pending_, earlyPending, handed>> /\ UNCHANGED Placed

\* A half at a time, as the core writes.
CopyHalf ==
  /\ drain.pc = "copy"
  /\ LET n == drain.keep + Len(drain.found) - drain.half
         slot == records[n % capacity]
     IN drain' = IF drain.half = 1 THEN [drain EXCEPT !.half = 0, !.found[Len(drain.found)][2] = slot[2]]
                 ELSE IF n < drain.head THEN [drain EXCEPT !.half = 1, !.found = Append(@, <<slot[1], 0>>)]
                 ELSE [drain EXCEPT !.pc = "finish"]
  /\ UNCHANGED <<rcursor, pending_, earlyPending, handed>> /\ UNCHANGED Placed

Lesser(a, b) == IF a < b THEN a ELSE b

\* The head is read again: what was lapped in the copy is dropped, counted,
\* and placed as a gap before the first survivor; with no survivor the count
\* is held for a later drain.
Missed(n) == n + pending_

Gap(n) == IF n > 0 THEN <<[gap |-> n]>> ELSE <<>>
Event(r) == [half1 |-> r[1], half2 |-> r[2]]

DrainFinish ==
  /\ drain.pc = "finish"
  /\ LET lapped == Lesser(Larger(OldestIntact(head) - drain.keep, 0), Len(drain.found))
         kept == SubSeq(drain.found, lapped + 1, Len(drain.found))
         missed == Missed(drain.head - rcursor - Len(kept))
     IN /\ IF kept = <<>>
           THEN pending_' = missed /\ UNCHANGED <<handed, earlyPending>>
           ELSE /\ pending_' = 0
                /\ handed' = handed \o Gap(earlyPending) \o Gap(missed) \o [i \in DOMAIN kept |-> Event(kept[i])]
                /\ earlyPending' = 0
  /\ rcursor' = drain.head
  /\ drain' = NoDrain
  /\ UNCHANGED Placed

\* flush_held: the core is gone, and no record will carry out what is held.
FlushHeld ==
  /\ drain.pc = "idle" /\ head = MaxEvents /\ rcursor = head
  /\ pending_ + earlyPending > 0
  /\ handed' = handed \o Gap(earlyPending) \o Gap(pending_)
  /\ pending_' = 0 /\ earlyPending' = 0
  /\ UNCHANGED <<drain, rcursor>> /\ UNCHANGED Placed

Emit == EmitUnplaced \/ EmitBody \/ EmitHead
TrcNext == Place \/ Emit \/ Attach \/ DrainHead \/ CopyHalf \/ DrainFinish \/ FlushHeld

TrcSpec == TrcInit /\ [][TrcNext]_trcVars

------------------------------------------------------------------------------
\* What a sequence of events and gaps accounts for.
Weight(e) == IF "gap" \in DOMAIN e THEN e.gap ELSE 1
Counted(s) ==
  LET upTo[n \in 0..Len(s)] == IF n = 0 THEN 0 ELSE upTo[n - 1] + Weight(s[n])
  IN upTo[Len(s)]

\* A reader may trust what it is handed however far the core laps it: every
\* record is whole, and is the event its place in the account says, a gap
\* standing exactly where the records it counts were lost (trace.py:464, 648);
\* what is neither handed out nor in a gap is held, and nothing is counted
\* twice or forgotten, not even the events that had no ring.
LedgerExact ==
  LET counted == handed \o Gap(earlyPending) \o Gap(pending_) IN
  /\ capacity > 0 /\ drain.pc # "closed" => Counted(counted) = early + rcursor
  /\ early = IF capacity > 0 THEN g_early ELSE 0
  /\ \A i \in DOMAIN handed : "half1" \in DOMAIN handed[i] =>
       /\ handed[i].half1 = handed[i].half2
       /\ early + handed[i].half1 = Counted(SubSeq(handed, 1, i))
=============================================================================
