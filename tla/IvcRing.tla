-------------------------------- MODULE IvcRing --------------------------------
(***************************************************************************)
(* The ring in the page two guests share (service/ivc/ring.hpp) and the    *)
(* doorbell that wakes its consumer (ivc.cpp).  Each side runs on its own  *)
(* core and owns one index; the indices are words that wrap.               *)
(***************************************************************************)
EXTENDS Integers, Sequences

CONSTANTS
  RingSlots,    \* NOVA_IVC_RING_SLOTS
  IndexSpace,   \* 2^32: the values of an index, a multiple of RingSlots
  MaxSent       \* bound: messages sent

ASSUME IvcAssumption ==
  /\ RingSlots \in Nat \ {0} /\ IndexSpace \in Nat
  /\ RingSlots < IndexSpace /\ IndexSpace % RingSlots = 0

VARIABLES
  put, taken,  \* widx and ridx in the page
  slots,
  tx,          \* the producer: where it is, and the index it read
  rx,          \* the consumer
  doorbell,    \* NOVA_IVC_DOORBELL_VINTID is pending for the consumer
  sent, received

ivcVars == <<put, taken, slots, tx, rx, doorbell, sent, received>>

IvcInit ==
  /\ put = 0 /\ taken = 0
  /\ slots = [i \in 0..(RingSlots - 1) |-> 0]
  /\ tx = [pc |-> "idle", read |-> 0]
  /\ rx = [pc |-> "asleep", read |-> 0, value |-> 0]
  /\ doorbell = FALSE
  /\ sent = 0 /\ received = 0

Less(a, b) == (a - b) % IndexSpace
Advance(i) == (i + 1) % IndexSpace

------------------------------------------------------------------------------
(* push                                                                     *)

PushBegin ==
  /\ tx.pc = "idle" /\ sent < MaxSent
  /\ tx' = [pc |-> "push", read |-> taken]
  /\ UNCHANGED <<put, taken, slots, rx, doorbell, sent, received>>

\* Faulty: the ring is full when the indices are equal in their slot.
FullBeyond == Less(put, tx.read) > RingSlots
Full == Less(put, tx.read) = RingSlots

PushFull ==
  /\ tx.pc = "push" /\ Full
  /\ tx' = [tx EXCEPT !.pc = "idle"]
  /\ UNCHANGED <<put, taken, slots, rx, doorbell, sent, received>>

PushSlot ==
  /\ tx.pc = "push" /\ ~Full
  /\ slots' = [slots EXCEPT ![put % RingSlots] = sent + 1]
  /\ tx' = [tx EXCEPT !.pc = "publish"]
  /\ UNCHANGED <<put, taken, rx, doorbell, sent, received>>

PushPublish ==
  /\ tx.pc = "publish"
  /\ put' = Advance(put)
  /\ sent' = sent + 1
  /\ tx' = [tx EXCEPT !.pc = "ring"]
  /\ UNCHANGED <<taken, slots, rx, doorbell, received>>

\* The doorbell call: refused when the target is off or its core's mailbox is
\* full, and then the guest rings again.
Doorbell ==
  /\ tx.pc = "ring"
  /\ doorbell' = TRUE
  /\ tx' = [tx EXCEPT !.pc = "idle"]
  /\ UNCHANGED <<put, taken, slots, rx, sent, received>>

------------------------------------------------------------------------------
(* pop, until the ring is empty, at each doorbell                           *)

Awake ==
  /\ rx.pc = "asleep" /\ doorbell
  /\ doorbell' = FALSE
  /\ rx' = [rx EXCEPT !.pc = "pop"]
  /\ UNCHANGED <<put, taken, slots, tx, sent, received>>

PopEmpty ==
  /\ rx.pc = "pop" /\ put = taken
  /\ rx' = [rx EXCEPT !.pc = "asleep"]
  /\ UNCHANGED <<put, taken, slots, tx, doorbell, sent, received>>

PopSlot ==
  /\ rx.pc = "pop" /\ put # taken
  /\ rx' = [pc |-> "free", read |-> put, value |-> slots[taken % RingSlots]]
  /\ UNCHANGED <<put, taken, slots, tx, doorbell, sent, received>>

PopFree ==
  /\ rx.pc = "free"
  /\ taken' = Advance(taken)
  /\ received' = rx.value
  /\ rx' = [rx EXCEPT !.pc = "pop"]
  /\ UNCHANGED <<put, slots, tx, doorbell, sent>>

IvcNext ==
  \/ PushBegin \/ PushFull \/ PushSlot \/ PushPublish \/ Doorbell
  \/ Awake \/ PopEmpty \/ PopSlot \/ PopFree

IvcSpec == IvcInit /\ [][IvcNext]_ivcVars

------------------------------------------------------------------------------
Contents == [i \in 1..Less(put, taken) |-> slots[(taken + i - 1) % RingSlots]]

RingFifo == INSTANCE Fifo WITH Capacity <- RingSlots, queue <- Contents, sent <- sent, got <- received

\* The ring is a bounded channel for its whole life, across the wrap of both
\* indices: nothing is lost, doubled, reordered or read before it is written,
\* though neither side ever waits for the other (ring.hpp:32, 44).
IvcIsFifo == RingFifo!Spec

=============================================================================
