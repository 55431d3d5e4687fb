------------------------------ MODULE RingProofs ------------------------------
(***************************************************************************)
(* IvcRing and both queues of SmmuQueue implement Fifo, and a lost record  *)
(* is flagged, for every number of slots, every width of the indices and   *)
(* any number of messages, commands and faults.  The three keep counters   *)
(* modulo the width of an index and use them to pick a slot.  CommandRing, *)
(* whose index comes from outside, carries every command out once.  The    *)
(* console loses nothing, for every set of VMs, every depth of a FIFO and  *)
(* every length of a line.  What the reader of TraceRing hands out is      *)
(* exact, for every capacity of the ring.                                  *)
(***************************************************************************)
EXTENDS IvcRing, SmmuQueue, CommandRing, Console, TraceRing, SequenceTheorems, WellFoundedInduction, TLAPS

-----------------------------------------------------------------------------
(* Counters kept modulo the width of an index.                             *)

\* Division with remainder.
LEMMA Remainder ==
  ASSUME NEW n \in Nat, NEW d \in Nat \ {0}
  PROVE  /\ n \div d \in Nat /\ n % d \in 0..(d - 1)
         /\ n = d * (n \div d) + (n % d)
  OBVIOUS

\* The remainder is the only one there is.
LEMMA RemainderUnique ==
  ASSUME NEW d \in Nat \ {0}, NEW q \in Int, NEW r \in 0..(d - 1), NEW n \in Int, n = d * q + r
  PROVE  n % d = r
  OBVIOUS

\* The difference of two wrapped counters is their difference.
LEMMA WrappedDifference ==
  ASSUME NEW d \in Nat \ {0}, NEW a \in Nat, NEW b \in Nat, a - b \in 0..(d - 1)
  PROVE  ((a % d) - (b % d)) % d = a - b
<1> DEFINE qa == a \div d
           ra == a % d
           qb == b \div d
           rb == b % d
<1>1. /\ qa \in Nat /\ ra \in 0..(d - 1) /\ a = d * qa + ra
      /\ qb \in Nat /\ rb \in 0..(d - 1) /\ b = d * qb + rb
  BY Remainder
<1> HIDE DEF qa, ra, qb, rb
<1> DEFINE q == qb - qa
           r == a - b
           n == ra - rb
<1>2. n = d * q + r
  BY <1>1
<1>3. q \in Int /\ n \in Int /\ r \in 0..(d - 1)
  BY <1>1
<1> HIDE DEF q, r, n
<1>4. n % d = r
  BY <1>2, <1>3, RemainderUnique
<1> QED
  BY <1>4 DEF ra, rb, n, r

\* Multiples of d leave no trace in the remainder.
LEMMA SameRemainder ==
  ASSUME NEW d \in Nat \ {0}, NEW y \in Nat, NEW c \in Int, NEW x \in Int, x = y - d * c
  PROVE  x % d = y % d
<1> DEFINE p == y \div d
           s == y % d
           q == p - c
<1>1. p \in Nat /\ s \in 0..(d - 1) /\ y = d * p + s
  BY Remainder
<1> HIDE DEF p, s
<1>2. q \in Int /\ x = d * q + s
  BY <1>1
<1> HIDE DEF q
<1>3. s \in 0..(d - 1)
  BY <1>1
<1>4. x % d = s
  BY <1>2, <1>3, RemainderUnique
<1> QED
  BY <1>4 DEF s

\* A counter k wrapped to n picks the same one of d slots as k, j places on.
SameSlot(d, n, k, j) == ((k % n) + j) % d = (k + j) % d
Divides(d, n) == n % d = 0

\* A counter wrapped to a multiple of d picks the same one of d slots.
LEMMA WrappedSlot ==
  ASSUME NEW d \in Nat \ {0}, NEW n \in Nat \ {0}, Divides(d, n),
         NEW k \in Nat, NEW j \in Nat
  PROVE  SameSlot(d, n, k, j)
<1> DEFINE m == n \div d
           q == k \div n
           r == k % n
           c == m * q
           x == r + j
           y == k + j
<1>1. m \in Nat /\ n = d * m
  BY Remainder DEF Divides
<1>2. q \in Nat /\ r \in 0..(n - 1) /\ k = n * q + r
  BY Remainder
<1> HIDE DEF m, q, r
<1>3. c \in Int /\ n * q = d * c
  BY <1>1, <1>2
<1> HIDE DEF c
<1>4. x \in Int /\ y \in Nat /\ x = y - d * c
  BY <1>2, <1>3
<1> HIDE DEF x, y
<1>5. x % d = y % d
  BY <1>3, <1>4, SameRemainder
<1> QED
  BY <1>5 DEF x, y, r, SameSlot

\* Counters less than d apart are in different slots.
LEMMA SlotsDistinct ==
  ASSUME NEW d \in Nat \ {0}, NEW a \in Nat, NEW b \in Nat, a - b \in 1..(d - 1)
  PROVE  a % d # b % d
<1>1. ((a % d) - (b % d)) % d = a - b
  <2>1. a - b \in 0..(d - 1)
    OBVIOUS
  <2> QED
    BY <2>1, WrappedDifference
<1>2. SUFFICES ASSUME a % d = b % d PROVE FALSE
  OBVIOUS
<1>3. a % d \in Int /\ (a % d) - (b % d) = 0
  BY <1>2
<1>4. 0 % d = 0
  OBVIOUS
<1> QED
  BY <1>1, <1>3, <1>4

\* The next value of a wrapped counter is the wrapped next value.
LEMMA WrappedStep ==
  ASSUME NEW n \in Nat \ {0}, NEW k \in Nat
  PROVE  ((k % n) + 1) % n = (k + 1) % n /\ (k + 1) % n \in 0..(n - 1)
<1>1. Divides(n, n)
  BY DEF Divides
<1>2. ((k % n) + 1) % n = (k + 1) % n
  <2>1. SameSlot(n, n, k, 1)
    BY <1>1, WrappedSlot
  <2> QED
    BY <2>1 DEF SameSlot
<1>3. (k + 1) % n \in 0..(n - 1)
  <2>1. k + 1 \in Nat
    OBVIOUS
  <2> QED
    BY <2>1, Remainder
<1> QED
  BY <1>2, <1>3

-----------------------------------------------------------------------------
(* What lies between two counters.                                         *)

Numbers(from, to) == [i \in 1..(to - from) |-> from + i]

\* Some numbers more.
LEMMA NumbersAppend ==
  ASSUME NEW r \in Nat, NEW s \in Nat, NEW n \in Nat, r <= s
  PROVE  Numbers(r, s + n) = Numbers(r, s) \o [i \in 1..n |-> s + i]
<1>1. Numbers(r, s) \in Seq(Nat) /\ Len(Numbers(r, s)) = s - r
  BY DEF Numbers
<1>2. [i \in 1..n |-> s + i] \in Seq(Nat) /\ Len([i \in 1..n |-> s + i]) = n
  OBVIOUS
<1> QED
  BY <1>1, <1>2 DEF Numbers

\* One number less.
LEMMA NumbersShrink ==
  ASSUME NEW r \in Nat, NEW s \in Nat, r < s
  PROVE  /\ Numbers(r, s) # <<>> /\ Head(Numbers(r, s)) = r + 1
         /\ Tail(Numbers(r, s)) = Numbers(r + 1, s)
<1>1. Numbers(r, s) \in Seq(Nat) /\ Len(Numbers(r, s)) = s - r
  BY DEF Numbers
<1> QED
  BY <1>1 DEF Numbers

-----------------------------------------------------------------------------
(* Indices that wrap.                                                      *)

\* An index is a multiple of the slots away from its counter.
LEMMA SlotOfIndex ==
  ASSUME NEW k \in Nat, NEW j \in Nat
  PROVE  ((k % IndexSpace) + j) % RingSlots = (k + j) % RingSlots
<1>1. RingSlots \in Nat \ {0}
  BY IvcAssumption DEF IvcAssumption
<1>2. IndexSpace \in Nat \ {0}
  BY IvcAssumption DEF IvcAssumption
<1>3. Divides(RingSlots, IndexSpace)
  BY IvcAssumption DEF IvcAssumption, Divides
<1>4. SameSlot(RingSlots, IndexSpace, k, j)
  BY <1>1, <1>2, <1>3, WrappedSlot
<1> QED
  BY <1>4 DEF SameSlot

-----------------------------------------------------------------------------
(* The invariant.                                                          *)

Index == 0..(IndexSpace - 1)

IvcTypeOK ==
  /\ put \in Index /\ taken \in Index
  /\ slots \in [0..(RingSlots - 1) -> Nat]
  /\ tx \in [pc : {"idle", "push", "publish", "ring"}, read : Index]
  /\ rx \in [pc : {"asleep", "pop", "free"}, read : Index, value : Nat]
  /\ doorbell \in BOOLEAN
  /\ sent \in Nat /\ received \in Nat

\* The indices are the counters, wrapped, and no more than the ring apart.
IndicesCount ==
  /\ put = sent % IndexSpace /\ taken = received % IndexSpace
  /\ sent - received \in 0..RingSlots

\* Every message published and not taken is in its slot.
SlotsHold == \A k \in received..(sent - 1) : slots[k % RingSlots] = k + 1

\* The producer has read the consumer's index, perhaps long ago; and once it
\* has found room it keeps it, since only it fills the ring.
ProducerKnows ==
  /\ tx.pc = "push" => \E r \in 0..received : tx.read = r % IndexSpace /\ sent - r \in 0..RingSlots
  /\ tx.pc = "publish" => sent - received < RingSlots /\ slots[sent % RingSlots] = sent + 1

\* The consumer holds the next message until it frees its slot.
ConsumerKnows == rx.pc = "free" => received < sent /\ rx.value = received + 1

IvcInv == IvcTypeOK /\ IndicesCount /\ SlotsHold /\ ProducerKnows /\ ConsumerKnows

\* The ring has a slot, and its indices a value more than it has slots.
LEMMA ConstantsTyped ==
  /\ RingSlots \in Nat \ {0} /\ IndexSpace \in Nat \ {0} /\ RingSlots < IndexSpace
  BY IvcAssumption DEF IvcAssumption

\* Advancing an index counts one more message.
LEMMA AdvanceCounts ==
  ASSUME NEW k \in Nat
  PROVE  Advance(k % IndexSpace) = (k + 1) % IndexSpace /\ (k + 1) % IndexSpace \in Index
<1>1. IndexSpace \in Nat \ {0}
  BY ConstantsTyped
<1>2. ((k % IndexSpace) + 1) % IndexSpace = (k + 1) % IndexSpace /\ (k + 1) % IndexSpace \in 0..(IndexSpace - 1)
  BY <1>1, WrappedStep
<1> QED
  BY <1>2 DEF Advance, Index

\* The distance between the indices is the number of messages between them.
LEMMA LessCounts ==
  ASSUME NEW a \in Nat, NEW b \in Nat, a - b \in 0..RingSlots
  PROVE  Less(a % IndexSpace, b % IndexSpace) = a - b
<1>1. a - b \in 0..(IndexSpace - 1)
  BY ConstantsTyped
<1> QED
  BY <1>1, ConstantsTyped, WrappedDifference DEF Less

\* The empty ring satisfies the invariant.
LEMMA InitInv == IvcInit => IvcInv
<1> SUFFICES ASSUME IvcInit PROVE IvcInv
  OBVIOUS
<1> USE ConstantsTyped DEF IvcInit
<1>1. 0 % IndexSpace = 0
  OBVIOUS
<1>2. IvcTypeOK
  <2>1. 0 \in Index
    BY DEF Index
  <2>2. slots \in [0..(RingSlots - 1) -> Nat]
    OBVIOUS
  <2>3. rx \in [pc : {"asleep", "pop", "free"}, read : Index, value : Nat]
    BY <2>1
  <2> QED
    BY <2>1, <2>2, <2>3 DEF IvcTypeOK
<1>3. IndicesCount
  BY <1>1 DEF IndicesCount
<1>4. SlotsHold
  BY DEF SlotsHold
<1>5. ProducerKnows /\ ConsumerKnows
  BY DEF ProducerKnows, ConsumerKnows
<1> QED
  BY <1>2, <1>3, <1>4, <1>5 DEF IvcInv

\* Every step of the two sides preserves it.
LEMMA NextInv == IvcInv /\ [IvcNext]_ivcVars => IvcInv'
<1> SUFFICES ASSUME IvcInv, [IvcNext]_ivcVars PROVE IvcInv'
  OBVIOUS
<1> USE ConstantsTyped
<1> USE DEF IvcInv
<1>1. CASE PushBegin
  <2> USE <1>1 DEF PushBegin
  <2>1. IvcTypeOK' /\ IndicesCount' /\ SlotsHold' /\ ConsumerKnows'
    BY DEF IvcTypeOK, IndicesCount, SlotsHold, ConsumerKnows
  <2>2. ProducerKnows'
    <3>1. tx'.pc = "push" /\ tx'.read = received % IndexSpace
      BY DEF IndicesCount
    <3>2. received \in 0..received /\ sent - received \in 0..RingSlots
      BY DEF IndicesCount, IvcTypeOK
    <3> QED
      BY <3>1, <3>2 DEF ProducerKnows
  <2> QED
    BY <2>1, <2>2
<1>2. CASE PushFull
  BY <1>2 DEF PushFull, IvcTypeOK, IndicesCount, SlotsHold, ConsumerKnows, ProducerKnows
<1>3. CASE PushSlot
  <2> USE <1>3 DEF PushSlot
  <2>1. sent - received < RingSlots
    <3>1. PICK r \in 0..received : tx.read = r % IndexSpace /\ sent - r \in 0..RingSlots
      BY DEF ProducerKnows
    <3>2. Less(put, tx.read) = sent - r
      BY <3>1, LessCounts DEF IndicesCount, IvcTypeOK
    <3> QED
      BY <3>1, <3>2 DEF Full, IvcTypeOK
  <2>2. put % RingSlots = sent % RingSlots
    <3>1. ((sent % IndexSpace) + 0) % RingSlots = (sent + 0) % RingSlots
      BY SlotOfIndex DEF IvcTypeOK
    <3>2. sent % IndexSpace \in Nat
      BY DEF IvcTypeOK, IndicesCount, Index
    <3> QED
      BY <3>1, <3>2 DEF IndicesCount, IvcTypeOK
  <2>3. sent % RingSlots \in 0..(RingSlots - 1)
    BY Remainder DEF IvcTypeOK
  <2>4. slots' = [slots EXCEPT ![sent % RingSlots] = sent + 1]
    BY <2>2
  <2>5. IvcTypeOK'
    <3>1. slots' \in [0..(RingSlots - 1) -> Nat]
      <4> DEFINE i == sent % RingSlots
      <4>1. i \in 0..(RingSlots - 1) /\ sent + 1 \in Nat /\ slots \in [0..(RingSlots - 1) -> Nat]
        BY <2>3 DEF IvcTypeOK
      <4>2. slots' = [slots EXCEPT ![i] = sent + 1]
        BY <2>4
      <4> HIDE DEF i
      <4> QED
        BY <4>1, <4>2
    <3>2. tx' \in [pc : {"idle", "push", "publish", "ring"}, read : Index]
      BY DEF IvcTypeOK
    <3> QED
      BY <3>1, <3>2 DEF IvcTypeOK
  <2>6. IndicesCount' /\ ConsumerKnows'
    BY DEF IndicesCount, ConsumerKnows
  <2>7. SlotsHold'
    <3> SUFFICES ASSUME NEW k \in received..(sent - 1) PROVE slots'[k % RingSlots] = k + 1
      BY DEF SlotsHold
    <3>1. k \in Nat /\ sent - k \in 1..(RingSlots - 1)
      BY <2>1 DEF IvcTypeOK
    <3>2. sent % RingSlots # k % RingSlots
      BY <3>1, SlotsDistinct DEF IvcTypeOK
    <3>3. k % RingSlots \in 0..(RingSlots - 1)
      BY <3>1, Remainder
    <3> QED
      BY <2>4, <3>2, <3>3 DEF SlotsHold, IvcTypeOK
  <2>8. ProducerKnows'
    BY <2>1, <2>3, <2>4 DEF ProducerKnows, IvcTypeOK
  <2> QED
    BY <2>5, <2>6, <2>7, <2>8
<1>4. CASE PushPublish
  <2> USE <1>4 DEF PushPublish
  <2>1. sent - received < RingSlots /\ slots[sent % RingSlots] = sent + 1
    BY DEF ProducerKnows
  <2>2. put' = (sent + 1) % IndexSpace /\ put' \in Index
    BY AdvanceCounts DEF IvcTypeOK, IndicesCount
  <2>3. IvcTypeOK'
    BY <2>2 DEF IvcTypeOK
  <2>4. IndicesCount'
    <3>1. sent' = sent + 1 /\ received' = received /\ taken' = taken
      OBVIOUS
    <3>2. sent' - received' \in 0..RingSlots
      BY <2>1, <3>1 DEF IndicesCount, IvcTypeOK
    <3> QED
      BY <2>2, <3>1, <3>2 DEF IndicesCount
  <2>5. SlotsHold'
    BY <2>1 DEF SlotsHold, IvcTypeOK
  <2>6. ProducerKnows' /\ ConsumerKnows'
    BY DEF ProducerKnows, ConsumerKnows, IvcTypeOK
  <2> QED
    BY <2>3, <2>4, <2>5, <2>6
<1>5. CASE Doorbell
  BY <1>5 DEF Doorbell, IvcTypeOK, IndicesCount, SlotsHold, ConsumerKnows, ProducerKnows
<1>6. CASE Awake
  BY <1>6 DEF Awake, IvcTypeOK, IndicesCount, SlotsHold, ConsumerKnows, ProducerKnows
<1>7. CASE PopEmpty
  BY <1>7 DEF PopEmpty, IvcTypeOK, IndicesCount, SlotsHold, ConsumerKnows, ProducerKnows
<1>8. CASE PopSlot
  <2> USE <1>8 DEF PopSlot
  <2>1. received < sent
    <3>1. sent # received
      BY DEF IndicesCount
    <3> QED
      BY <3>1 DEF IndicesCount, IvcTypeOK
  <2>2. taken % RingSlots = received % RingSlots
    <3>1. ((received % IndexSpace) + 0) % RingSlots = (received + 0) % RingSlots
      BY SlotOfIndex DEF IvcTypeOK
    <3>2. received % IndexSpace \in Nat
      BY DEF IvcTypeOK, IndicesCount, Index
    <3> QED
      BY <3>1, <3>2 DEF IndicesCount, IvcTypeOK
  <2>3. rx'.value = received + 1
    <3>1. received \in received..(sent - 1)
      BY <2>1 DEF IvcTypeOK
    <3> QED
      BY <2>2, <3>1 DEF SlotsHold
  <2>4. IvcTypeOK'
    BY <2>3 DEF IvcTypeOK
  <2>5. IndicesCount' /\ SlotsHold' /\ ProducerKnows'
    BY DEF IndicesCount, SlotsHold, ProducerKnows
  <2>6. ConsumerKnows'
    BY <2>1, <2>3 DEF ConsumerKnows
  <2> QED
    BY <2>4, <2>5, <2>6
<1>9. CASE PopFree
  <2> USE <1>9 DEF PopFree
  <2>1. received < sent /\ received' = received + 1
    BY DEF ConsumerKnows
  <2>2. taken' = (received + 1) % IndexSpace /\ taken' \in Index
    BY AdvanceCounts DEF IvcTypeOK, IndicesCount
  <2>3. IvcTypeOK'
    BY <2>1, <2>2 DEF IvcTypeOK
  <2>4. IndicesCount'
    BY <2>1, <2>2 DEF IndicesCount, IvcTypeOK
  <2>5. SlotsHold'
    BY <2>1 DEF SlotsHold, IvcTypeOK
  <2>6. ProducerKnows'
    BY <2>1 DEF ProducerKnows, IvcTypeOK
  <2>7. ConsumerKnows'
    BY DEF ConsumerKnows, IvcTypeOK
  <2> QED
    BY <2>3, <2>4, <2>5, <2>6, <2>7
<1>10. CASE UNCHANGED ivcVars
  BY <1>10 DEF ivcVars, IvcTypeOK, IndicesCount, SlotsHold, ConsumerKnows, ProducerKnows
<1> QED
  BY <1>1, <1>2, <1>3, <1>4, <1>5, <1>6, <1>7, <1>8, <1>9, <1>10 DEF IvcNext

\* The invariant holds throughout.
THEOREM IvcInvariant == IvcSpec => []IvcInv
<1>1. IvcInit => IvcInv
  BY InitInv
<1>2. IvcInv /\ [IvcNext]_ivcVars => IvcInv'
  BY NextInv
<1> QED
  BY <1>1, <1>2, PTL DEF IvcSpec

-----------------------------------------------------------------------------
(* The refinement.  What lies between the two indices is the messages that *)
(* are on their way, in the order of their numbers.                        *)

\* What lies between two wrapped counters of a written ring.
LEMMA ContentsAre ==
  ASSUME NEW s \in Nat, NEW r \in Nat, s - r \in 0..RingSlots,
         NEW slot, \A k \in r..(s - 1) : slot[k % RingSlots] = k + 1
  PROVE  [i \in 1..Less(s % IndexSpace, r % IndexSpace) |->
            slot[((r % IndexSpace) + i - 1) % RingSlots]] = Numbers(r, s)
<1>1. Less(s % IndexSpace, r % IndexSpace) = s - r
  BY LessCounts
<1>2. ASSUME NEW i \in 1..(s - r)
      PROVE  slot[((r % IndexSpace) + i - 1) % RingSlots] = r + i
  <2> DEFINE j == i - 1
             k == r + j
             a == (r % IndexSpace) + j
  <2>1. j \in Nat /\ k \in r..(s - 1) /\ k + 1 = r + i
    OBVIOUS
  <2>2. (r % IndexSpace) + i - 1 = a
    BY ConstantsTyped
  <2>3. a % RingSlots = k % RingSlots
    BY <2>1, SlotOfIndex
  <2> HIDE DEF a, k
  <2> QED
    BY <2>1, <2>2, <2>3
<1> QED
  BY <1>1, <1>2 DEF Numbers

\* The ring holds the messages published and not taken, in order.
LEMMA ContentsExact ==
  ASSUME IvcInv
  PROVE  Contents = Numbers(received, sent) /\ sent - received \in 0..RingSlots
<1>1. sent \in Nat /\ received \in Nat
  BY DEF IvcInv, IvcTypeOK
<1>2. sent - received \in 0..RingSlots /\ put = sent % IndexSpace /\ taken = received % IndexSpace
  BY DEF IvcInv, IndicesCount
<1>3. \A k \in received..(sent - 1) : slots[k % RingSlots] = k + 1
  BY DEF IvcInv, SlotsHold
<1>4. [i \in 1..Less(sent % IndexSpace, received % IndexSpace) |->
         slots[((received % IndexSpace) + i - 1) % RingSlots]] = Numbers(received, sent)
  BY <1>1, <1>2, <1>3, ContentsAre
<1> QED
  BY <1>2, <1>4 DEF Contents

\* The same after a step.
LEMMA ContentsExactNext ==
  ASSUME IvcInv'
  PROVE  Contents' = Numbers(received', sent')
<1>1. sent' \in Nat /\ received' \in Nat
  BY DEF IvcInv, IvcTypeOK
<1>2. sent' - received' \in 0..RingSlots /\ put' = sent' % IndexSpace /\ taken' = received' % IndexSpace
  BY DEF IvcInv, IndicesCount
<1>3. \A k \in received'..(sent' - 1) : slots'[k % RingSlots] = k + 1
  BY DEF IvcInv, SlotsHold
<1>4. [i \in 1..Less(sent' % IndexSpace, received' % IndexSpace) |->
         slots'[((received' % IndexSpace) + i - 1) % RingSlots]] = Numbers(received', sent')
  BY <1>1, <1>2, <1>3, ContentsAre
<1> QED
  BY <1>2, <1>4 DEF Contents, Less

\* A push that publishes is a Put of one message, a pop that frees a slot is a Get,
\* and nothing else is seen in the channel.
LEMMA StepIsFifo ==
  ASSUME IvcInv, IvcInv', [IvcNext]_ivcVars
  PROVE  [RingFifo!Put \/ RingFifo!Get]_<<Contents, sent, received>>
<1>1. /\ Contents = Numbers(received, sent) /\ Contents' = Numbers(received', sent')
      /\ sent \in Nat /\ received \in Nat /\ received <= sent
  BY ContentsExact, ContentsExactNext DEF IvcInv, IvcTypeOK
<1>2. CASE PushPublish
  <2>1. sent' = sent + 1 /\ received' = received
    BY <1>2 DEF PushPublish
  <2>2. Contents' = Contents \o [i \in 1..1 |-> sent + i]
    <3>1. 1 \in Nat
      OBVIOUS
    <3> QED
      BY <1>1, <2>1, <3>1, NumbersAppend
  <2>3. 1 \in 1..(RingSlots - Len(Contents))
    <3>1. sent - received < RingSlots
      BY <1>2 DEF PushPublish, IvcInv, ProducerKnows
    <3>2. Len(Contents) = sent - received
      BY <1>1 DEF Numbers
    <3> QED
      BY <1>1, <3>1, <3>2, ConstantsTyped
  <2> QED
    BY <2>1, <2>2, <2>3 DEF RingFifo!Put
<1>3. CASE PopFree
  <2>1. sent' = sent /\ received' = received + 1 /\ received < sent
    BY <1>3 DEF PopFree, IvcInv, ConsumerKnows
  <2> QED
    BY <1>1, <2>1, NumbersShrink DEF RingFifo!Get
<1>4. CASE sent' = sent /\ received' = received
  BY <1>1, <1>4
<1> QED
  BY <1>2, <1>3, <1>4 DEF IvcNext, PushBegin, PushFull, PushSlot, Doorbell, Awake, PopEmpty, PopSlot, ivcVars

\* The ring between two guests is a bounded first-in first-out channel: what
\* push and pop do to the page implements Fifo, however often the indices wrap.
THEOREM RingIsFifo == IvcSpec => IvcIsFifo
<1>1. IvcInit => RingFifo!Init
  <2> SUFFICES ASSUME IvcInit PROVE RingFifo!Init
    OBVIOUS
  <2>1. Contents = Numbers(0, 0)
    BY InitInv, ContentsExact DEF IvcInit
  <2> QED
    BY <2>1 DEF IvcInit, Numbers, RingFifo!Init
<1>2. IvcInv /\ IvcInv' /\ [IvcNext]_ivcVars => [RingFifo!Put \/ RingFifo!Get]_<<Contents, sent, received>>
  BY StepIsFifo
<1> QED
  BY <1>1, <1>2, IvcInvariant, PTL DEF IvcSpec, IvcIsFifo, RingFifo!Spec

-----------------------------------------------------------------------------
(* Pointers: an index with a wrap bit above it.                            *)

Pointer == 0..(PointerSpace - 1)
Wrapped(k) == k % PointerSpace

\* A queue has a slot, and its pointers twice as many values as it has slots.
LEMMA SizesTyped ==
  /\ Entries \in Nat \ {0} /\ PointerSpace \in Nat \ {0} /\ Entries < PointerSpace
  /\ PointerSpace = 2 * Entries
  BY SmmuQueueAssumption DEF SmmuQueueAssumption, PointerSpace

\* The wrap bit does not move the slot.
LEMMA SlotOfPointer ==
  ASSUME NEW k \in Nat, NEW j \in Nat
  PROVE  (Wrapped(k) + j) % Entries = (k + j) % Entries
<1> DEFINE e == Entries
           n == PointerSpace
<1>1. e \in Nat \ {0}
  BY SizesTyped
<1>2. n \in Nat \ {0}
  BY SizesTyped
<1>3. n = e * 2 + 0
  BY SizesTyped
<1> HIDE DEF e, n
<1>4. Divides(e, n)
  BY <1>1, <1>2, <1>3, RemainderUnique DEF Divides
<1>5. SameSlot(e, n, k, j)
  BY <1>1, <1>2, <1>4, WrappedSlot
<1> QED
  BY <1>5 DEF Wrapped, SameSlot, e, n

\* A step of a pointer counts one more entry.
LEMMA StepCounts ==
  ASSUME NEW k \in Nat
  PROVE  Step(Wrapped(k)) = Wrapped(k + 1) /\ Wrapped(k) \in Pointer /\ Wrapped(k + 1) \in Pointer
<1>1. PointerSpace \in Nat \ {0}
  BY SizesTyped
<1>2. ((k % PointerSpace) + 1) % PointerSpace = (k + 1) % PointerSpace /\ (k + 1) % PointerSpace \in 0..(PointerSpace - 1)
  BY <1>1, WrappedStep
<1>3. k % PointerSpace \in 0..(PointerSpace - 1)
  BY <1>1, Remainder
<1> QED
  BY <1>2, <1>3 DEF Step, Pointer, Wrapped

\* The distance of two pointers is the number of entries between them.
LEMMA UsedCounts ==
  ASSUME NEW a \in Nat, NEW b \in Nat, a - b \in 0..Entries
  PROVE  /\ UsedOf(Wrapped(a), Wrapped(b)) = a - b
         /\ FullAt(Wrapped(a), Wrapped(b)) <=> a - b = Entries
<1>1. a - b \in 0..(PointerSpace - 1)
  BY SizesTyped
<1>2. UsedOf(Wrapped(a), Wrapped(b)) = a - b
  BY <1>1, SizesTyped, WrappedDifference DEF UsedOf, Wrapped
<1> QED
  BY <1>2 DEF FullAt

\* The slot of a pointer is that of its counter.
LEMMA SlotCounts ==
  ASSUME NEW k \in Nat
  PROVE  Wrapped(k) % Entries = k % Entries /\ k % Entries \in 0..(Entries - 1)
<1>1. (Wrapped(k) + 0) % Entries = (k + 0) % Entries
  BY SlotOfPointer
<1>2. Wrapped(k) \in Nat
  BY StepCounts DEF Pointer
<1>3. k % Entries \in 0..(Entries - 1)
  BY SizesTyped, Remainder
<1> QED
  BY <1>1, <1>2, <1>3

\* What lies between the pointers of a queue whose entries are written.
LEMMA BetweenIs ==
  ASSUME NEW s \in Nat, NEW r \in Nat, s - r \in 0..Entries,
         NEW slot, \A k \in r..(s - 1) : slot[k % Entries] = k + 1
  PROVE  Between(slot, Wrapped(r), Wrapped(s)) = Numbers(r, s)
<1>1. UsedOf(Wrapped(s), Wrapped(r)) = s - r
  BY UsedCounts
<1>2. ASSUME NEW i \in 1..(s - r)
      PROVE  slot[(Wrapped(r) + i - 1) % Entries] = r + i
  <2> DEFINE j == i - 1
             k == r + j
             a == Wrapped(r) + j
  <2>1. j \in Nat /\ k \in r..(s - 1) /\ k + 1 = r + i
    OBVIOUS
  <2>2. Wrapped(r) + i - 1 = a
    BY StepCounts DEF Pointer
  <2>3. a % Entries = k % Entries
    BY <2>1, SlotOfPointer
  <2> HIDE DEF a, k
  <2> QED
    BY <2>1, <2>2, <2>3
<1> QED
  BY <1>1, <1>2 DEF Numbers, Between

-----------------------------------------------------------------------------
(* The invariant of the command queue.                                     *)

CommandsTyped ==
  /\ cmdq \in [prod : Pointer, cons : Pointer, error : BOOLEAN]
  /\ cmdEntries \in [0..(Entries - 1) -> Nat]
  /\ driver \in [pc : {"idle", "stage", "sync"}, staged : Pointer, put : Nat, size : Nat]
  /\ commandsSent \in Nat /\ commandsDone \in Nat

\* The registers are the counters, wrapped, and the commands between them are in
\* their slots.
CommandsCounted ==
  /\ cmdq.prod = Wrapped(commandsSent) /\ cmdq.cons = Wrapped(commandsDone)
  /\ commandsSent - commandsDone \in 0..Entries
  /\ \A k \in commandsDone..(commandsSent - 1) : cmdEntries[k % Entries] = k + 1

\* While a batch is staged the device has nothing to do, and what is staged is
\* in the slots past the producer.
DriverStages ==
  driver.pc = "stage" =>
    /\ commandsDone = commandsSent
    /\ driver.size \in 1..Entries /\ driver.put \in 0..driver.size
    /\ driver.staged = Wrapped(commandsSent + driver.put)
    /\ \A k \in commandsSent..(commandsSent + driver.put - 1) : cmdEntries[k % Entries] = k + 1

CommandInv == CommandsTyped /\ CommandsCounted /\ DriverStages

\* The two queues are empty at first.
LEMMA CommandInit == SmqInit => CommandInv
<1> SUFFICES ASSUME SmqInit PROVE CommandInv
  OBVIOUS
<1> USE SizesTyped DEF SmqInit
<1>1. 0 = Wrapped(0) /\ 0 \in Pointer
  BY DEF Wrapped, Pointer
<1>2. cmdEntries \in [0..(Entries - 1) -> Nat]
  OBVIOUS
<1>3. driver \in [pc : {"idle", "stage", "sync"}, staged : Pointer, put : Nat, size : Nat]
  BY <1>1
<1>4. CommandsTyped
  BY <1>1, <1>2, <1>3 DEF CommandsTyped
<1>5. CommandsCounted
  BY <1>1 DEF CommandsCounted
<1>6. DriverStages
  BY DEF DriverStages
<1> QED
  BY <1>4, <1>5, <1>6 DEF CommandInv

\* Entry n is written into its slot.
Stored(entries, n) == [entries EXCEPT ![n % Entries] = n + 1]

\* A write into one slot leaves the others alone.
LEMMA SlotWritten ==
  ASSUME NEW entries \in [0..(Entries - 1) -> Nat], NEW n \in Nat
  PROVE  /\ Stored(entries, n) \in [0..(Entries - 1) -> Nat]
         /\ Stored(entries, n)[n % Entries] = n + 1
         /\ \A k \in Nat : n - k \in 1..(Entries - 1) => Stored(entries, n)[k % Entries] = entries[k % Entries]
<1> DEFINE i == n % Entries
           new == Stored(entries, n)
<1>1. i \in 0..(Entries - 1) /\ n + 1 \in Nat
  <2>1. n % Entries \in 0..(Entries - 1)
    BY SlotCounts
  <2> QED
    BY <2>1
<1>2. ASSUME NEW k \in Nat, n - k \in 1..(Entries - 1)
      PROVE  k % Entries \in 0..(Entries - 1) /\ k % Entries # i
  BY <1>2, SizesTyped, SlotsDistinct, SlotCounts
<1>3. new = [entries EXCEPT ![i] = n + 1]
  BY DEF Stored
<1> HIDE DEF i, new
<1>4. new \in [0..(Entries - 1) -> Nat] /\ new[i] = n + 1
  BY <1>1, <1>3
<1>5. ASSUME NEW k \in Nat, n - k \in 1..(Entries - 1)
      PROVE  new[k % Entries] = entries[k % Entries]
  <2> DEFINE x == k % Entries
  <2>1. x \in 0..(Entries - 1) /\ x # i
    BY <1>2, <1>5
  <2> HIDE DEF x
  <2>2. new[x] = entries[x]
    BY <1>1, <1>3, <2>1
  <2> QED
    BY <2>2 DEF x
<1> QED
  BY <1>4, <1>5 DEF i, new

\* Every step keeps the command queue in order.
LEMMA CommandNext == CommandInv /\ [SmqNext]_smqVars => CommandInv'
<1> SUFFICES ASSUME CommandInv, [SmqNext]_smqVars PROVE CommandInv'
  OBVIOUS
<1> USE SizesTyped DEF CommandInv
<1>1. CASE Submit
  <2>1. cmdq.prod \in Pointer
    BY DEF CommandsTyped
  <2>2. commandsDone = commandsSent
    <3>1. Wrapped(commandsSent) = Wrapped(commandsDone)
      BY <1>1 DEF Submit, Idle, CommandsCounted
    <3>2. UsedOf(Wrapped(commandsSent), Wrapped(commandsDone)) = commandsSent - commandsDone
      BY UsedCounts DEF CommandsCounted, CommandsTyped
    <3>3. UsedOf(Wrapped(commandsSent), Wrapped(commandsDone)) = 0
      <4>1. Wrapped(commandsSent) \in Int /\ Wrapped(commandsSent) - Wrapped(commandsDone) = 0
        BY <3>1, StepCounts DEF CommandsTyped, Pointer
      <4> QED
        BY <4>1 DEF UsedOf
    <3> QED
      BY <3>2, <3>3 DEF CommandsTyped
  <2>3. CommandsTyped'
    BY <1>1, <2>1 DEF Submit, CommandsTyped
  <2>4. CommandsCounted'
    BY <1>1 DEF Submit, CommandsCounted
  <2>5. DriverStages'
    BY <1>1, <2>2 DEF Submit, DriverStages, CommandsTyped, CommandsCounted
  <2> QED
    BY <2>3, <2>4, <2>5
<1>2. CASE Stage
  <2> DEFINE n == commandsSent + driver.put
  <2>1. /\ commandsDone = commandsSent /\ driver.size \in 1..Entries
        /\ driver.put \in 0..(driver.size - 1) /\ driver.staged = Wrapped(n)
        /\ n \in Nat /\ commandsSent \in Nat
    BY <1>2 DEF Stage, DriverStages, CommandsTyped
  <2>2. ~FullAt(driver.staged, cmdq.cons)
    <3>1. n \in Nat /\ commandsDone \in Nat /\ n - commandsDone \in 0..Entries /\ n - commandsDone # Entries
      BY <2>1, SmmuQueueAssumption DEF SmmuQueueAssumption
    <3>2. driver.staged = Wrapped(n) /\ cmdq.cons = Wrapped(commandsDone)
      BY <2>1 DEF CommandsCounted
    <3> HIDE DEF n
    <3> QED
      BY <3>1, <3>2, UsedCounts
  <2>3. cmdEntries' = [cmdEntries EXCEPT ![n % Entries] = n + 1]
    <3>1. driver.staged % Entries = n % Entries
      BY <2>1, SlotCounts
    <3> QED
      BY <1>2, <3>1 DEF Stage
  <2>4. /\ driver'.pc = driver.pc /\ driver'.staged = Wrapped(n + 1) /\ driver'.put = driver.put + 1
        /\ driver'.size = driver.size
        /\ driver' \in [pc : {"idle", "stage", "sync"}, staged : Pointer, put : Nat, size : Nat]
    <3>1. Step(driver.staged) = Wrapped(n + 1) /\ Wrapped(n + 1) \in Pointer
      BY <2>1, StepCounts
    <3>2. driver' = [driver EXCEPT !.staged = Wrapped(n + 1), !.put = driver.put + 1]
      BY <1>2, <2>2, <3>1 DEF Stage
    <3>3. driver.put + 1 \in Nat
      BY <2>1
    <3> HIDE DEF n
    <3> QED
      BY <3>1, <3>2, <3>3 DEF CommandsTyped
  <2>5. UNCHANGED <<cmdq, commandsSent, commandsDone>>
    BY <1>2 DEF Stage
  <2> HIDE DEF n
  <2>6. /\ cmdEntries' \in [0..(Entries - 1) -> Nat] /\ cmdEntries'[n % Entries] = n + 1
        /\ \A k \in Nat : n - k \in 1..(Entries - 1) => cmdEntries'[k % Entries] = cmdEntries[k % Entries]
    <3>1. cmdEntries \in [0..(Entries - 1) -> Nat]
      BY DEF CommandsTyped
    <3>2. cmdEntries' = Stored(cmdEntries, n)
      BY <2>3 DEF Stored
    <3> QED
      BY <2>1, <3>1, <3>2, SlotWritten
  <2>7. ASSUME NEW k \in commandsSent..(n - 1) PROVE cmdEntries'[k % Entries] = k + 1
    <3>1. k \in Nat /\ n - k \in 1..(Entries - 1) /\ k \in commandsSent..(commandsSent + driver.put - 1)
      BY <2>1 DEF n
    <3>2. cmdEntries[k % Entries] = k + 1
      BY <1>2, <3>1 DEF Stage, DriverStages
    <3> QED
      BY <2>6, <3>1, <3>2
  <2>8. CommandsTyped'
    BY <2>4, <2>5, <2>6 DEF CommandsTyped
  <2>9. CommandsCounted'
    BY <2>1, <2>5 DEF CommandsCounted
  <2>10. DriverStages'
    <3>1. n + 1 = commandsSent + driver'.put /\ commandsSent + driver'.put - 1 = n
      BY <2>1, <2>4 DEF n
    <3>2. \A k \in commandsSent..n : cmdEntries'[k % Entries] = k + 1
      BY <2>1, <2>6, <2>7
    <3>3. driver'.size \in 1..Entries /\ driver'.put \in 0..driver'.size
      BY <2>1, <2>4
    <3>4. commandsDone' = commandsSent' /\ commandsSent' = commandsSent
      BY <2>1, <2>5
    <3>5. driver'.staged = Wrapped(commandsSent' + driver'.put)
      BY <2>4, <3>1, <3>4
    <3>6. \A k \in commandsSent'..(commandsSent' + driver'.put - 1) : cmdEntries'[k % Entries] = k + 1
      BY <3>1, <3>2, <3>4
    <3> QED
      BY <3>3, <3>4, <3>5, <3>6 DEF DriverStages
  <2> QED
    BY <2>8, <2>9, <2>10
<1>3. CASE PublishProd
  <2> DEFINE n == commandsSent + driver.size
  <2>1. /\ commandsDone = commandsSent /\ driver.size \in 1..Entries /\ driver.put = driver.size
        /\ driver.staged = Wrapped(n) /\ n \in Nat
        /\ \A k \in commandsSent..(n - 1) : cmdEntries[k % Entries] = k + 1
    BY <1>3 DEF PublishProd, DriverStages, CommandsTyped
  <2>2. /\ cmdq'.prod = Wrapped(n) /\ cmdq'.cons = cmdq.cons /\ commandsSent' = n
        /\ driver'.pc = "sync" /\ UNCHANGED <<cmdEntries, commandsDone>>
    BY <1>3, <2>1 DEF PublishProd, CommandsTyped
  <2>3. CommandsTyped'
    BY <1>3, <2>1, <2>2 DEF PublishProd, CommandsTyped
  <2>4. CommandsCounted'
    BY <2>1, <2>2 DEF CommandsCounted, CommandsTyped
  <2>5. DriverStages'
    BY <2>2 DEF DriverStages
  <2> QED
    BY <2>3, <2>4, <2>5
<1>4. CASE SyncEnds
  BY <1>4 DEF SyncEnds, CommandsTyped, CommandsCounted, DriverStages
<1>5. CASE DeviceTakes
  <2>1. commandsSent # commandsDone
    BY <1>5 DEF DeviceTakes, Idle, CommandsCounted
  <2>2. commandsDone \in commandsDone..(commandsSent - 1)
    BY <2>1 DEF CommandsCounted, CommandsTyped
  <2>3. commandsDone' = commandsDone + 1
    <3>1. cmdq.cons % Entries = commandsDone % Entries
      BY SlotCounts DEF CommandsCounted, CommandsTyped
    <3> QED
      BY <1>5, <2>2, <3>1 DEF DeviceTakes, CommandsCounted
  <2>4. cmdq'.cons = Wrapped(commandsDone + 1) /\ cmdq'.cons \in Pointer /\ cmdq'.prod = cmdq.prod /\ cmdq'.error = cmdq.error
    BY <1>5, StepCounts DEF DeviceTakes, CommandsCounted, CommandsTyped
  <2>5. UNCHANGED <<cmdEntries, driver, commandsSent>>
    BY <1>5 DEF DeviceTakes
  <2>6. CommandsTyped'
    BY <1>5, <2>3, <2>4, <2>5 DEF DeviceTakes, CommandsTyped
  <2>7. CommandsCounted'
    BY <2>2, <2>3, <2>4, <2>5 DEF CommandsCounted, CommandsTyped
  <2>8. DriverStages'
    BY <2>1, <2>5 DEF DriverStages
  <2> QED
    BY <2>6, <2>7, <2>8
<1>6. CASE DeviceStops
  BY <1>6 DEF DeviceStops, CommandsTyped, CommandsCounted, DriverStages
<1>7. CASE UNCHANGED Commands
  BY <1>7 DEF Commands, CommandsTyped, CommandsCounted, DriverStages
<1> QED
  BY <1>1, <1>2, <1>3, <1>4, <1>5, <1>6, <1>7
     DEF SmqNext, smqVars, Commands, Record, Lose, DrainEvents, OnEvent, Release

-----------------------------------------------------------------------------
(* The invariant of the event queue.                                       *)

EventsTyped ==
  /\ evtq \in [prod : Pointer, cons : Pointer, prodOvf : {0, 1}, consOvf : {0, 1}]
  /\ evtEntries \in [0..(Entries - 1) -> Nat]
  /\ drainer \in [pc : {"idle", "walk"}, prod : Pointer, cons : Pointer, ovf : {0, 1}]
  /\ eventsSent \in Nat /\ eventsSeen \in Nat
  /\ unreported \in BOOLEAN

\* The producer counts the records, and those not yet seen are in their slots.
EventsCounted ==
  /\ evtq.prod = Wrapped(eventsSent) /\ eventsSent - eventsSeen \in 0..Entries
  /\ \A k \in eventsSeen..(eventsSent - 1) : evtEntries[k % Entries] = k + 1

\* The consumer register is behind what was seen while a walk is under way: the
\* device keeps clear of all that lies past it.
SlotsHeld ==
  \E freed \in 0..eventsSeen :
    /\ evtq.cons = Wrapped(freed) /\ eventsSent - freed \in 0..Entries
    /\ drainer.pc = "idle" => freed = eventsSeen

\* A walk is somewhere before the producer it read.
WalkBounded ==
  drainer.pc = "walk" =>
    /\ drainer.cons = Wrapped(eventsSeen)
    /\ \E last \in eventsSeen..eventsSent : drainer.prod = Wrapped(last)

EventInv == EventsTyped /\ EventsCounted /\ SlotsHeld /\ WalkBounded /\ LossFlagged

\* The event queue is empty at first, and nothing is lost.
LEMMA EventInit == SmqInit => EventInv
<1> SUFFICES ASSUME SmqInit PROVE EventInv
  OBVIOUS
<1> USE SizesTyped DEF SmqInit
<1>1. 0 = Wrapped(0) /\ 0 \in Pointer
  BY DEF Wrapped, Pointer
<1>2. evtEntries \in [0..(Entries - 1) -> Nat]
  OBVIOUS
<1>3. evtq \in [prod : Pointer, cons : Pointer, prodOvf : {0, 1}, consOvf : {0, 1}]
  BY <1>1
<1>4. drainer \in [pc : {"idle", "walk"}, prod : Pointer, cons : Pointer, ovf : {0, 1}]
  BY <1>1
<1>5. EventsTyped
  BY <1>2, <1>3, <1>4 DEF EventsTyped
<1>6. EventsCounted /\ SlotsHeld
  BY <1>1 DEF EventsCounted, SlotsHeld
<1>7. WalkBounded /\ LossFlagged
  BY DEF WalkBounded, LossFlagged
<1> QED
  BY <1>5, <1>6, <1>7 DEF EventInv

\* Every step keeps the event queue in order.
LEMMA EventNext == EventInv /\ [SmqNext]_smqVars => EventInv'
<1> SUFFICES ASSUME EventInv, [SmqNext]_smqVars PROVE EventInv'
  OBVIOUS
<1> USE SizesTyped DEF EventInv
<1>1. CASE Record
  <2> DEFINE n == eventsSent
  <2>1. PICK freed \in 0..eventsSeen :
          /\ evtq.cons = Wrapped(freed) /\ n - freed \in 0..Entries
          /\ drainer.pc = "idle" => freed = eventsSeen
    BY DEF SlotsHeld
  <2>2. n \in Nat /\ freed \in Nat /\ eventsSeen \in Nat /\ freed <= eventsSeen /\ n - freed \in 0..(Entries - 1)
    <3>1. n \in Nat /\ freed \in Nat
      BY <2>1 DEF EventsTyped
    <3>2. n - freed # Entries
      BY <1>1, <2>1, <3>1, UsedCounts DEF Record, EventsCounted
    <3> QED
      BY <2>1, <3>1, <3>2 DEF EventsTyped
  <2>3. evtEntries' = Stored(evtEntries, n)
    <3>1. evtq.prod % Entries = n % Entries
      BY <2>2, SlotCounts DEF EventsCounted
    <3> QED
      BY <1>1, <3>1 DEF Record, Stored
  <2>4. /\ evtEntries' \in [0..(Entries - 1) -> Nat] /\ evtEntries'[n % Entries] = n + 1
        /\ \A k \in Nat : n - k \in 1..(Entries - 1) => evtEntries'[k % Entries] = evtEntries[k % Entries]
    <3>1. evtEntries \in [0..(Entries - 1) -> Nat]
      BY DEF EventsTyped
    <3> HIDE DEF n
    <3> QED
      BY <2>2, <2>3, <3>1, SlotWritten
  <2>5. evtq' = [evtq EXCEPT !.prod = Wrapped(n + 1)] /\ Wrapped(n + 1) \in Pointer
    <3>1. Step(evtq.prod) = Wrapped(n + 1) /\ Wrapped(n + 1) \in Pointer
      BY <2>2, StepCounts DEF EventsCounted
    <3> QED
      BY <1>1, <3>1 DEF Record
  <2>6. eventsSent' = n + 1 /\ UNCHANGED <<drainer, eventsSeen, unreported>>
    BY <1>1 DEF Record
  <2>7. EventsTyped'
    <3>1. evtq' \in [prod : Pointer, cons : Pointer, prodOvf : {0, 1}, consOvf : {0, 1}]
      BY <2>5 DEF EventsTyped
    <3>2. eventsSent' \in Nat
      BY <2>2, <2>6
    <3> QED
      BY <2>4, <2>6, <3>1, <3>2 DEF EventsTyped
  <2>8. EventsCounted'
    <3>1. evtq'.prod = Wrapped(eventsSent') /\ eventsSent' - eventsSeen' \in 0..Entries
      BY <2>2, <2>5, <2>6 DEF EventsTyped, EventsCounted
    <3>2. ASSUME NEW k \in eventsSeen'..(eventsSent' - 1) PROVE evtEntries'[k % Entries] = k + 1
      <4>1. CASE k = n
        BY <2>4, <4>1
      <4>2. CASE k # n
        <5>1. k \in Nat /\ k \in eventsSeen..(eventsSent - 1) /\ n - k \in 1..(Entries - 1)
          BY <2>2, <2>6, <4>2
        <5>2. evtEntries[k % Entries] = k + 1
          BY <5>1 DEF EventsCounted
        <5> QED
          BY <2>4, <5>1, <5>2
      <4> QED
        BY <4>1, <4>2
    <3> QED
      BY <3>1, <3>2 DEF EventsCounted
  <2>9. SlotsHeld'
    <3>1. freed \in 0..eventsSeen' /\ evtq'.cons = Wrapped(freed) /\ eventsSent' - freed \in 0..Entries
      BY <2>1, <2>2, <2>5, <2>6 DEF EventsTyped
    <3>2. drainer'.pc = "idle" => freed = eventsSeen'
      BY <2>1, <2>6
    <3> QED
      BY <3>1, <3>2 DEF SlotsHeld
  <2>10. WalkBounded'
    BY <2>2, <2>6 DEF WalkBounded
  <2>11. LossFlagged'
    BY <2>5, <2>6 DEF LossFlagged, Pending, EventsTyped
  <2> QED
    BY <2>7, <2>8, <2>9, <2>10, <2>11
<1>2. CASE Lose
  <2>1. /\ evtq' = MarkOverflow(evtq) /\ unreported'
        /\ UNCHANGED <<evtEntries, drainer, eventsSent, eventsSeen>>
    BY <1>2 DEF Lose
  <2>2. /\ evtq'.prod = evtq.prod /\ evtq'.cons = evtq.cons /\ Pending(evtq')
        /\ evtq' \in [prod : Pointer, cons : Pointer, prodOvf : {0, 1}, consOvf : {0, 1}]
    <3>1. CASE Pending(evtq)
      BY <2>1, <3>1 DEF MarkOverflow, EventsTyped
    <3>2. CASE ~Pending(evtq)
      <4>1. evtq' = [evtq EXCEPT !.prodOvf = 1 - evtq.prodOvf] /\ evtq.prodOvf = evtq.consOvf
        BY <2>1, <3>2 DEF MarkOverflow, Pending
      <4>2. 1 - evtq.prodOvf \in {0, 1} /\ 1 - evtq.prodOvf # evtq.consOvf
        BY <4>1 DEF EventsTyped
      <4> QED
        BY <4>1, <4>2 DEF Pending, EventsTyped
    <3> QED
      BY <3>1, <3>2
  <2>3. EventsTyped'
    <3>1. unreported' \in BOOLEAN
      BY <1>2 DEF Lose
    <3> QED
      BY <2>1, <2>2, <3>1 DEF EventsTyped
  <2>4. EventsCounted' /\ SlotsHeld' /\ WalkBounded'
    BY <2>1, <2>2 DEF EventsCounted, SlotsHeld, WalkBounded
  <2>5. LossFlagged'
    BY <2>2 DEF LossFlagged
  <2> QED
    BY <2>3, <2>4, <2>5
<1>3. CASE DrainEvents
  <2>1. /\ drainer.pc = "idle" /\ drainer'.pc = "walk" /\ drainer'.prod = evtq.prod /\ drainer'.cons = evtq.cons
        /\ UNCHANGED <<evtq, evtEntries, eventsSent, eventsSeen, unreported>>
    BY <1>3 DEF DrainEvents
  <2>2. EventsTyped'
    BY <1>3, <2>1 DEF DrainEvents, EventsTyped
  <2>3. EventsCounted' /\ LossFlagged'
    BY <2>1 DEF EventsCounted, LossFlagged
  <2>4. SlotsHeld'
    BY <2>1 DEF SlotsHeld
  <2>5. WalkBounded'
    <3>1. evtq.cons = Wrapped(eventsSeen)
      BY <2>1 DEF SlotsHeld
    <3>2. eventsSent \in eventsSeen..eventsSent /\ evtq.prod = Wrapped(eventsSent)
      BY DEF EventsTyped, EventsCounted
    <3> QED
      BY <2>1, <3>1, <3>2 DEF WalkBounded
  <2> QED
    BY <2>2, <2>3, <2>4, <2>5
<1>4. CASE OnEvent
  <2>1. PICK last \in eventsSeen..eventsSent : drainer.prod = Wrapped(last) /\ drainer.cons = Wrapped(eventsSeen)
    BY <1>4 DEF OnEvent, WalkBounded
  <2>2. last - eventsSeen > 0
    <3>1. last \in Nat /\ last - eventsSeen \in 0..Entries /\ eventsSeen \in Nat
      BY <2>1 DEF EventsTyped, EventsCounted
    <3>2. UsedOf(drainer.prod, drainer.cons) = last - eventsSeen
      BY <2>1, <3>1, UsedCounts
    <3> QED
      BY <1>4, <3>2 DEF OnEvent
  <2>3. eventsSeen' = eventsSeen + 1
    <3>1. eventsSeen \in eventsSeen..(eventsSent - 1)
      BY <2>1, <2>2 DEF EventsTyped
    <3>2. drainer.cons % Entries = eventsSeen % Entries
      BY <2>1, SlotCounts DEF EventsTyped
    <3> QED
      BY <1>4, <3>1, <3>2 DEF OnEvent, EventsCounted
  <2>4. drainer' = [drainer EXCEPT !.cons = Wrapped(eventsSeen + 1)] /\ Wrapped(eventsSeen + 1) \in Pointer
    <3>1. Step(drainer.cons) = Wrapped(eventsSeen + 1) /\ Wrapped(eventsSeen + 1) \in Pointer
      BY <2>1, StepCounts DEF EventsTyped
    <3> QED
      BY <1>4, <3>1 DEF OnEvent
  <2>5. drainer.pc = "walk" /\ UNCHANGED <<evtq, evtEntries, eventsSent, unreported>>
    BY <1>4 DEF OnEvent
  <2>6. EventsTyped'
    BY <2>3, <2>4, <2>5 DEF EventsTyped
  <2>7. EventsCounted' /\ LossFlagged'
    BY <2>1, <2>2, <2>3, <2>5 DEF EventsCounted, LossFlagged, EventsTyped
  <2>8. SlotsHeld'
    <3>1. PICK freed \in 0..eventsSeen : evtq.cons = Wrapped(freed) /\ eventsSent - freed \in 0..Entries
      BY DEF SlotsHeld
    <3>2. freed \in 0..eventsSeen' /\ drainer'.pc # "idle"
      BY <2>3, <2>4, <2>5, <3>1 DEF EventsTyped
    <3> QED
      BY <2>5, <3>1, <3>2 DEF SlotsHeld
  <2>9. WalkBounded'
    <3>1. last \in eventsSeen'..eventsSent' /\ drainer'.prod = Wrapped(last) /\ drainer'.cons = Wrapped(eventsSeen')
      BY <2>1, <2>2, <2>3, <2>4, <2>5 DEF EventsTyped
    <3> QED
      BY <3>1 DEF WalkBounded
  <2> QED
    BY <2>6, <2>7, <2>8, <2>9
<1>5. CASE Release
  <2>1. /\ drainer.pc = "walk" /\ evtq' = [evtq EXCEPT !.cons = drainer.cons, !.consOvf = drainer.ovf]
        /\ unreported' = (unreported /\ drainer.ovf = evtq.consOvf) /\ drainer' = [drainer EXCEPT !.pc = "idle"]
        /\ UNCHANGED <<evtEntries, eventsSent, eventsSeen>>
    BY <1>5 DEF Release
  <2>2. EventsTyped'
    BY <2>1 DEF EventsTyped
  <2>3. EventsCounted'
    BY <2>1 DEF EventsCounted, EventsTyped
  <2>4. SlotsHeld'
    <3>1. evtq'.cons = Wrapped(eventsSeen) /\ eventsSeen \in 0..eventsSeen' /\ eventsSent' - eventsSeen \in 0..Entries
      BY <2>1 DEF WalkBounded, EventsTyped, EventsCounted
    <3> QED
      BY <2>1, <3>1 DEF SlotsHeld
  <2>5. WalkBounded'
    BY <2>1 DEF WalkBounded, EventsTyped
  <2>6. LossFlagged'
    <3>1. evtq'.prodOvf = evtq.prodOvf /\ evtq'.consOvf = drainer.ovf
      BY <2>1 DEF EventsTyped
    <3> QED
      BY <2>1, <3>1 DEF LossFlagged, Pending
  <2> QED
    BY <2>2, <2>3, <2>4, <2>5, <2>6
<1>6. CASE UNCHANGED Events
  BY <1>6 DEF Events, EventsTyped, EventsCounted, SlotsHeld, WalkBounded, LossFlagged
<1> QED
  BY <1>1, <1>2, <1>3, <1>4, <1>5, <1>6
     DEF SmqNext, smqVars, Events, Submit, Stage, PublishProd, SyncEnds, DeviceTakes, DeviceStops

\* Both invariants hold throughout.
THEOREM QueueInvariant == SmqSpec => [](CommandInv /\ EventInv)
<1>1. SmqInit => CommandInv /\ EventInv
  BY CommandInit, EventInit
<1>2. CommandInv /\ EventInv /\ [SmqNext]_smqVars => CommandInv' /\ EventInv'
  BY CommandNext, EventNext
<1> QED
  BY <1>1, <1>2, PTL DEF SmqSpec

-----------------------------------------------------------------------------
(* The refinement.                                                         *)

\* The command queue holds what was submitted and not consumed, in order.
LEMMA CommandsBetween ==
  ASSUME CommandInv
  PROVE  Between(cmdEntries, cmdq.cons, cmdq.prod) = Numbers(commandsDone, commandsSent)
<1>1. /\ commandsSent \in Nat /\ commandsDone \in Nat /\ commandsSent - commandsDone \in 0..Entries
      /\ \A k \in commandsDone..(commandsSent - 1) : cmdEntries[k % Entries] = k + 1
  BY DEF CommandInv, CommandsTyped, CommandsCounted
<1>2. Between(cmdEntries, Wrapped(commandsDone), Wrapped(commandsSent)) = Numbers(commandsDone, commandsSent)
  BY <1>1, BetweenIs
<1> QED
  BY <1>2 DEF CommandInv, CommandsCounted

\* The same after a step.
LEMMA CommandsBetweenNext ==
  ASSUME CommandInv'
  PROVE  Between(cmdEntries', cmdq'.cons, cmdq'.prod) = Numbers(commandsDone', commandsSent')
<1>1. /\ commandsSent' \in Nat /\ commandsDone' \in Nat /\ commandsSent' - commandsDone' \in 0..Entries
      /\ \A k \in commandsDone'..(commandsSent' - 1) : cmdEntries'[k % Entries] = k + 1
  BY DEF CommandInv, CommandsTyped, CommandsCounted
<1>2. Between(cmdEntries', Wrapped(commandsDone'), Wrapped(commandsSent')) = Numbers(commandsDone', commandsSent')
  BY <1>1, BetweenIs
<1>3. cmdq'.cons = Wrapped(commandsDone') /\ cmdq'.prod = Wrapped(commandsSent')
  BY DEF CommandInv, CommandsCounted, Wrapped, PointerSpace, Entries
<1> QED
  BY <1>2, <1>3

\* Where the consumer of the event queue is.
Reached == IF drainer.pc = "walk" THEN drainer.cons ELSE evtq.cons

\* The event queue holds what was recorded and not seen, in order.
LEMMA EventsBetween ==
  ASSUME EventInv
  PROVE  Between(evtEntries, Reached, evtq.prod) = Numbers(eventsSeen, eventsSent)
<1>1. /\ eventsSent \in Nat /\ eventsSeen \in Nat /\ eventsSent - eventsSeen \in 0..Entries
      /\ \A k \in eventsSeen..(eventsSent - 1) : evtEntries[k % Entries] = k + 1
  BY DEF EventInv, EventsTyped, EventsCounted
<1>2. Between(evtEntries, Wrapped(eventsSeen), Wrapped(eventsSent)) = Numbers(eventsSeen, eventsSent)
  BY <1>1, BetweenIs
<1>3. Reached = Wrapped(eventsSeen)
  BY DEF EventInv, EventsTyped, Reached, WalkBounded, SlotsHeld
<1> QED
  BY <1>2, <1>3 DEF EventInv, EventsCounted

\* The same after a step.
LEMMA EventsBetweenNext ==
  ASSUME EventInv'
  PROVE  Between(evtEntries', Reached', evtq'.prod) = Numbers(eventsSeen', eventsSent')
<1>1. /\ eventsSent' \in Nat /\ eventsSeen' \in Nat /\ eventsSent' - eventsSeen' \in 0..Entries
      /\ \A k \in eventsSeen'..(eventsSent' - 1) : evtEntries'[k % Entries] = k + 1
  BY DEF EventInv, EventsTyped, EventsCounted
<1>2. Between(evtEntries', Wrapped(eventsSeen'), Wrapped(eventsSent')) = Numbers(eventsSeen', eventsSent')
  BY <1>1, BetweenIs
<1>3. Reached' = Wrapped(eventsSeen')
  BY DEF EventInv, EventsTyped, Reached, WalkBounded, SlotsHeld, Wrapped, PointerSpace, Entries
<1>4. evtq'.prod = Wrapped(eventsSent')
  BY DEF EventInv, EventsCounted, Wrapped, PointerSpace, Entries
<1> QED
  BY <1>2, <1>3, <1>4

\* Publishing a batch is a Put of its size; the device takes one command at a time.
LEMMA CommandStepIsFifo ==
  ASSUME CommandInv, CommandInv', [SmqNext]_smqVars
  PROVE  [CommandFifo!Put \/ CommandFifo!Get]_<<Between(cmdEntries, cmdq.cons, cmdq.prod), commandsSent, commandsDone>>
<1> DEFINE queue == Between(cmdEntries, cmdq.cons, cmdq.prod)
<1>1. /\ queue = Numbers(commandsDone, commandsSent) /\ queue' = Numbers(commandsDone', commandsSent')
      /\ commandsSent \in Nat /\ commandsDone \in Nat /\ commandsDone <= commandsSent
  <2>1. queue = Numbers(commandsDone, commandsSent)
    BY CommandsBetween
  <2>2. queue' = Between(cmdEntries', cmdq'.cons, cmdq'.prod)
    BY DEF Between, UsedOf, PointerSpace, Entries
  <2>3. queue' = Numbers(commandsDone', commandsSent')
    BY <2>2, CommandsBetweenNext
  <2> QED
    BY <2>1, <2>3 DEF CommandInv, CommandsTyped, CommandsCounted
<1>2. CASE PublishProd
  <2> DEFINE n == driver.size
  <2>1. /\ n \in 1..Entries /\ commandsDone = commandsSent /\ commandsSent' = commandsSent + n
        /\ commandsDone' = commandsDone
    BY <1>2 DEF PublishProd, CommandInv, DriverStages
  <2>2. n \in Nat /\ n \in 1..(Entries - Len(queue))
    <3>1. Len(queue) = 0
      BY <1>1, <2>1 DEF Numbers
    <3> QED
      BY <2>1, <3>1, SizesTyped
  <2> HIDE DEF n, queue
  <2>3. queue' = queue \o [i \in 1..n |-> commandsSent + i]
    <3>1. queue = Numbers(commandsDone, commandsSent) /\ queue' = Numbers(commandsDone, commandsSent + n)
      BY <1>1, <2>1
    <3>2. commandsDone \in Nat /\ commandsSent \in Nat /\ commandsDone <= commandsSent
      BY <1>1, <2>1
    <3> QED
      BY <2>2, <3>1, <3>2, NumbersAppend
  <2>4. CommandFifo!Put
    BY <2>1, <2>2, <2>3 DEF CommandFifo!Put, queue
  <2> QED
    BY <2>4
<1>3. CASE DeviceTakes
  <2>1. commandsSent' = commandsSent /\ commandsDone' = commandsDone + 1 /\ commandsDone < commandsSent
    <3>1. commandsSent # commandsDone
      BY <1>3 DEF DeviceTakes, Idle, CommandInv, CommandsCounted
    <3>2. commandsDone \in commandsDone..(commandsSent - 1)
      BY <1>1, <3>1
    <3>3. cmdq.cons % Entries = commandsDone % Entries
      BY <1>1, SlotCounts DEF CommandInv, CommandsCounted
    <3> QED
      BY <1>1, <1>3, <3>2, <3>3 DEF DeviceTakes, CommandInv, CommandsCounted
  <2>2. CommandFifo!Get
    BY <1>1, <2>1, NumbersShrink DEF CommandFifo!Get
  <2> QED
    BY <2>2
<1>4. CASE commandsSent' = commandsSent /\ commandsDone' = commandsDone
  BY <1>1, <1>4
<1> QED
  BY <1>2, <1>3, <1>4
     DEF SmqNext, smqVars, Submit, Stage, SyncEnds, DeviceStops, Record, Lose, DrainEvents, OnEvent, Release, Commands

\* A recorded fault is a Put, a fault the walk reaches a Get.
LEMMA EventStepIsFifo ==
  ASSUME EventInv, EventInv', [SmqNext]_smqVars
  PROVE  [EventFifo!Put \/ EventFifo!Get]_<<Between(evtEntries, Reached, evtq.prod), eventsSent, eventsSeen>>
<1> DEFINE queue == Between(evtEntries, Reached, evtq.prod)
<1>1. /\ queue = Numbers(eventsSeen, eventsSent) /\ queue' = Numbers(eventsSeen', eventsSent')
      /\ eventsSent \in Nat /\ eventsSeen \in Nat /\ eventsSeen <= eventsSent
  <2>1. queue = Numbers(eventsSeen, eventsSent)
    BY EventsBetween
  <2>2. queue' = Between(evtEntries', Reached', evtq'.prod)
    BY DEF Between, UsedOf, PointerSpace, Entries
  <2>3. queue' = Numbers(eventsSeen', eventsSent')
    BY <2>2, EventsBetweenNext
  <2> QED
    BY <2>1, <2>3 DEF EventInv, EventsTyped, EventsCounted
<1>2. CASE Record
  <2>1. eventsSent' = eventsSent + 1 /\ eventsSeen' = eventsSeen
    BY <1>2 DEF Record
  <2>2. 1 \in Nat /\ 1 \in 1..(Entries - Len(queue))
    <3>1. eventsSent' - eventsSeen' \in 0..Entries
      BY DEF EventInv, EventsCounted, Entries
    <3>2. Len(queue) = eventsSent - eventsSeen
      BY <1>1 DEF Numbers
    <3> QED
      BY <1>1, <2>1, <3>1, <3>2, SizesTyped
  <2>3. queue' = queue \o [i \in 1..1 |-> eventsSent + i]
    BY <1>1, <2>1, <2>2, NumbersAppend
  <2>4. EventFifo!Put
    BY <2>1, <2>2, <2>3 DEF EventFifo!Put, Reached
  <2> QED
    BY <2>4
<1>3. CASE OnEvent
  <2>1. eventsSent' = eventsSent /\ eventsSeen' = eventsSeen + 1 /\ eventsSeen < eventsSent
    <3>1. PICK last \in eventsSeen..eventsSent : drainer.prod = Wrapped(last) /\ drainer.cons = Wrapped(eventsSeen)
      BY <1>3 DEF OnEvent, EventInv, WalkBounded
    <3>2. UsedOf(drainer.prod, drainer.cons) = last - eventsSeen /\ last \in Nat
      <4>1. last \in Nat /\ last - eventsSeen \in 0..Entries
        BY <1>1, <3>1, SizesTyped DEF EventInv, EventsCounted
      <4> QED
        BY <1>1, <3>1, <4>1, UsedCounts
    <3>3. eventsSeen \in eventsSeen..(eventsSent - 1)
      BY <1>1, <1>3, <3>1, <3>2 DEF OnEvent
    <3>4. drainer.cons % Entries = eventsSeen % Entries
      BY <1>1, <3>1, SlotCounts
    <3> QED
      BY <1>1, <1>3, <3>3, <3>4 DEF OnEvent, EventInv, EventsCounted
  <2>2. EventFifo!Get
    BY <1>1, <2>1, NumbersShrink DEF EventFifo!Get, Reached
  <2> QED
    BY <2>2
<1>4. CASE eventsSent' = eventsSent /\ eventsSeen' = eventsSeen
  BY <1>1, <1>4
<1> QED
  BY <1>2, <1>3, <1>4
     DEF SmqNext, smqVars, Submit, Stage, PublishProd, SyncEnds, DeviceTakes, DeviceStops, Lose, DrainEvents, Release, Events

\* Both queues of the SMMU are bounded first-in first-out channels through every
\* wrap of their pointers, and a record that the full event queue lost is flagged
\* until a drain reports it.
THEOREM QueuesImplementFifo == SmqSpec => QueuesAreFifos
<1>1. SmqInit => CommandFifo!Init
  <2> SUFFICES ASSUME SmqInit PROVE CommandFifo!Init
    OBVIOUS
  <2>1. Between(cmdEntries, cmdq.cons, cmdq.prod) = Numbers(0, 0)
    BY CommandInit, CommandsBetween DEF SmqInit
  <2> QED
    BY <2>1 DEF SmqInit, Numbers, CommandFifo!Init
<1>2. SmqInit => EventFifo!Init
  <2> SUFFICES ASSUME SmqInit PROVE EventFifo!Init
    OBVIOUS
  <2>1. Between(evtEntries, Reached, evtq.prod) = Numbers(0, 0)
    BY EventInit, EventsBetween DEF SmqInit
  <2> QED
    BY <2>1 DEF SmqInit, Numbers, EventFifo!Init, Reached
<1>3. CommandInv /\ CommandInv' /\ [SmqNext]_smqVars
        => [CommandFifo!Put \/ CommandFifo!Get]_<<Between(cmdEntries, cmdq.cons, cmdq.prod), commandsSent, commandsDone>>
  BY CommandStepIsFifo
<1>4. EventInv /\ EventInv' /\ [SmqNext]_smqVars
        => [EventFifo!Put \/ EventFifo!Get]_<<Between(evtEntries, Reached, evtq.prod), eventsSent, eventsSeen>>
  BY EventStepIsFifo
<1>5. EventInv => LossFlagged
  BY DEF EventInv
<1>6. SmqSpec => CommandFifo!Spec
  BY <1>1, <1>3, QueueInvariant, PTL DEF SmqSpec, CommandFifo!Spec
<1>7. SmqSpec => EventFifo!Spec
  BY <1>2, <1>4, QueueInvariant, PTL DEF SmqSpec, EventFifo!Spec, Reached
<1>8. SmqSpec => []LossFlagged
  BY <1>5, QueueInvariant, PTL
<1> QED
  BY <1>6, <1>7, <1>8 DEF QueuesAreFifos
-----------------------------------------------------------------------------
(* The command page: what lies between the machine and an index it does    *)
(* not trust.                                                              *)

Opcode == OpsIssued \cup {0}
Answer == [id : Nat, op : Opcode, result : {"ok", "unknown"}]

CmdTypeOK ==
  /\ offers \in 0..Len(OpsOffered) /\ g_ops \in Seq(Nat) /\ placed \in BOOLEAN
  /\ widx \in Nat /\ ridx \in Nat
  /\ bodies \in [0..(CmdSlots - 1) -> [op : Opcode, id : Nat]]
  /\ writer \in [pc : {"idle", "body", "index"}, op : Opcode, id : Nat, write : Nat]
  /\ consumer \in [pc : {"waiting", "consume"}, index : Nat, write : Nat]
  /\ begun \in Nat /\ meddles \in Nat /\ broken \in BOOLEAN
  /\ answers \in Seq(Answer)

Draining == consumer.pc = "consume"

\* The commands the machine will still take: up to its own copy of the index
\* when it has one, and no further than where it stands when the index is broken.
Drained == IF Draining THEN consumer.write ELSE ridx
Oldest == IF Draining THEN consumer.index ELSE ridx
Newest == IF broken THEN Drained ELSE widx
Ids(k) == bodies[k % CmdSlots].id
Queue == Oldest..(Newest - 1)

\* A good index is at most a ring ahead, and a broken one is seen to be broken
\* whenever the machine comes to read it.
IndexTold ==
  /\ Draining => ridx <= consumer.index /\ consumer.index <= consumer.write
                 /\ consumer.write <= ridx + CmdSlots
  /\ ~broken => Drained <= widx /\ widx <= ridx + CmdSlots
  /\ broken => (widx < Drained \/ widx > Drained + CmdSlots) /\ meddles > 0

\* Nothing happens before the page is placed, and no opcode is 0.
Unplaced ==
  /\ ~placed => widx = 0 /\ ridx = 0 /\ ~broken /\ ~Draining /\ writer.pc = "idle" /\ answers = <<>>
  /\ \A i \in DOMAIN g_ops : g_ops[i] # 0

\* The writer has the slot after the newest to itself, and a number that was
\* never accepted.
WriterKnows ==
  /\ accepted \subseteq 1..begun
  /\ writer.pc # "idle" =>
       /\ ~broken /\ writer.write = widx /\ widx < ridx + CmdSlots
       /\ writer.id = begun /\ begun \in Nat \ {0} /\ begun \notin accepted
  /\ writer.pc = "index" => Ids(widx) = begun

\* What waits was accepted, is not thrown away, and comes after what is done.
QueueKnown ==
  /\ \A k \in Queue : Ids(k) \in accepted /\ Ids(k) \notin voided
  /\ \A j, k \in Queue : j < k => Ids(j) < Ids(k)
  /\ \A k \in Queue : \A i \in DOMAIN answers : answers[i].id < Ids(k)

\* The account of the host's commands.
Done == {answers[i].id : i \in DOMAIN answers}
AnswersKnown ==
  /\ Done \subseteq accepted /\ Done \cap voided = {} /\ voided \subseteq accepted
  /\ \A i, j \in DOMAIN answers : i < j => answers[i].id < answers[j].id
  /\ \A i \in DOMAIN answers : answers[i].result = "ok" <=> answers[i].op \in ToSet(g_ops)
  /\ meddles = 0 => accepted = Done \cup {Ids(k) : k \in Queue}

CmdInv == CmdTypeOK /\ IndexTold /\ Unplaced /\ WriterKnows /\ QueueKnown /\ AnswersKnown

\* The slot of a command.
LEMMA SlotIn == \A k \in Nat : k % CmdSlots \in 0..(CmdSlots - 1)
  BY Remainder, CommandAssumption DEF CommandAssumption

\* Where the queue lies.
LEMMA QueueFacts ==
  ASSUME CmdTypeOK, IndexTold
  PROVE  /\ Oldest \in Nat /\ Newest \in Nat /\ ridx <= Oldest /\ Oldest <= Newest
         /\ ~broken => Newest = widx
         /\ Queue \subseteq Nat
         /\ \A k \in Queue : Ids(k) \in Nat
<1> USE DEF CmdTypeOK
<1>1. /\ Oldest \in Nat /\ Newest \in Nat /\ ridx <= Oldest /\ Oldest <= Newest
      /\ ~broken => Newest = widx
  BY DEF IndexTold, Oldest, Newest, Drained, Draining
<1>2. Queue \subseteq Nat
  BY <1>1 DEF Queue
<1>3. \A k \in Queue : Ids(k) \in Nat
  BY <1>2, SlotIn DEF Ids
<1> QED
  BY <1>1, <1>2, <1>3

\* The empty page satisfies the invariant.
LEMMA CmdInitInv == CmdInit => CmdInv
<1> SUFFICES ASSUME CmdInit PROVE CmdInv
  OBVIOUS
<1> USE CommandAssumption DEF CmdInit, CommandAssumption
<1>1. CmdTypeOK
  <2>1. bodies \in [0..(CmdSlots - 1) -> [op : Opcode, id : Nat]]
    BY DEF Opcode
  <2>2. writer \in [pc : {"idle", "body", "index"}, op : Opcode, id : Nat, write : Nat]
    BY DEF Opcode, NoWriter
  <2>3. consumer \in [pc : {"waiting", "consume"}, index : Nat, write : Nat]
    BY DEF NoDrainer
  <2>4. offers \in 0..Len(OpsOffered) /\ g_ops \in Seq(Nat) /\ answers \in Seq(Answer)
    OBVIOUS
  <2> QED
    BY <2>1, <2>2, <2>3, <2>4 DEF CmdTypeOK
<1>2. ~Draining /\ writer.pc = "idle"
  BY DEF Draining, NoDrainer, NoWriter
<1>3. IndexTold /\ Unplaced /\ WriterKnows
  BY <1>2 DEF IndexTold, Unplaced, WriterKnows, Drained
<1>4. Queue = {} /\ Done = {}
  BY <1>2 DEF Queue, Oldest, Newest, Drained, Done
<1>5. QueueKnown /\ AnswersKnown
  BY <1>4 DEF QueueKnown, AnswersKnown
<1> QED
  BY <1>1, <1>3, <1>5 DEF CmdInv

\* The table grows by opcodes only, and only before the page is placed.
LEMMA DeclareKeeps ==
  ASSUME CmdInv, DeclareOp PROVE CmdInv'
<1> USE DEF DeclareOp
<1>1. offers' \in 0..Len(OpsOffered) /\ OpsOffered[offers + 1] \in Nat
  <2>1. offers \in 0..Len(OpsOffered) /\ offers < Len(OpsOffered) /\ offers' = offers + 1
    BY DEF CmdInv, CmdTypeOK
  <2>2. OpsOffered \in Seq(Nat)
    BY CommandAssumption DEF CommandAssumption
  <2>3. Len(OpsOffered) \in Nat /\ offers + 1 \in 1..Len(OpsOffered)
    BY <2>1, <2>2
  <2> QED
    BY <2>1, <2>2, <2>3
<1> DEFINE o == OpsOffered[offers + 1]
<1>2. g_ops' = g_ops \/ (g_ops' = Append(g_ops, o) /\ o # 0)
  OBVIOUS
<1>3. o \in Nat /\ g_ops \in Seq(Nat)
  BY <1>1 DEF CmdInv, CmdTypeOK
<1> HIDE DEF o
<1>4. g_ops' \in Seq(Nat) /\ ((\A i \in DOMAIN g_ops : g_ops[i] # 0) => \A i \in DOMAIN g_ops' : g_ops'[i] # 0)
  BY <1>2, <1>3
<1>5. CmdTypeOK'
  BY <1>1, <1>4 DEF CmdInv, CmdTypeOK
<1>6. IndexTold' /\ WriterKnows' /\ QueueKnown'
  BY DEF CmdInv, IndexTold, WriterKnows, QueueKnown, Drained, Draining, Queue, Oldest, Newest, Ids
<1>7. Unplaced'
  BY <1>4 DEF CmdInv, Unplaced, Draining
<1>8. AnswersKnown'
  <2>1. answers = <<>> /\ answers' = answers
    BY DEF CmdInv, Unplaced
  <2>2. DOMAIN answers' = {}
    BY <2>1
  <2>3. Done' = Done /\ Queue' = Queue /\ \A k : Ids(k)' = Ids(k)
    BY <2>1 DEF Done, Queue, Oldest, Newest, Drained, Draining, Ids
  <2> QED
    BY <2>2, <2>3 DEF CmdInv, AnswersKnown
<1> QED
  BY <1>5, <1>6, <1>7, <1>8 DEF CmdInv

\* The page is placed empty.
LEMMA PlaceKeeps ==
  ASSUME CmdInv, PlacePage PROVE CmdInv'
<1> USE DEF PlacePage
<1>1. widx' = widx /\ ridx' = ridx
  BY DEF CmdInv, Unplaced
<1>2. CmdTypeOK'
  BY <1>1 DEF CmdInv, CmdTypeOK
<1>3. IndexTold' /\ WriterKnows' /\ QueueKnown' /\ AnswersKnown'
  BY <1>1 DEF CmdInv, IndexTold, WriterKnows, QueueKnown, AnswersKnown, Drained, Draining, Queue, Oldest, Newest, Ids, Done
<1>4. Unplaced'
  BY <1>1 DEF CmdInv, Unplaced
<1> QED
  BY <1>2, <1>3, <1>4 DEF CmdInv

\* The host begins a command, or the body of one: it writes a slot nobody reads.
LEMMA BodyKeeps ==
  ASSUME CmdInv, IssueOp \/ IssueBody PROVE CmdInv'
<1> DEFINE N == CmdSlots
           s == widx % CmdSlots
<1>0. /\ CmdTypeOK /\ IndexTold /\ Unplaced /\ WriterKnows /\ QueueKnown /\ AnswersKnown
  BY DEF CmdInv
<1>1. /\ UNCHANGED <<widx, meddles, accepted, broken>> /\ UNCHANGED Machine
      /\ writer.pc = "idle" => IssueOp
      /\ writer.pc # "idle" => IssueBody
  BY DEF IssueOp, IssueBody
<1>2. ~broken /\ placed /\ widx < ridx + CmdSlots /\ widx \in Nat /\ ridx \in Nat
  <2>1. CASE IssueOp
    BY <1>0, <2>1, CommandAssumption DEF IssueOp, Room, CmdTypeOK, CommandAssumption
  <2>2. CASE IssueBody
    BY <1>0, <2>2 DEF IssueBody, WriterKnows, Unplaced, CmdTypeOK
  <2> QED
    BY <2>1, <2>2
<1>3. s \in 0..(CmdSlots - 1) /\ CmdSlots \in Nat \ {0}
  BY <1>2, SlotIn, CommandAssumption DEF CommandAssumption
<1>4. Queue' = Queue /\ Done' = Done
  BY <1>1 DEF Queue, Done, Oldest, Newest, Drained, Draining, Machine
<1>5. \A k \in Queue : k \in Nat /\ k % CmdSlots # s
  <2> SUFFICES ASSUME NEW k \in Queue PROVE k \in Nat /\ k % CmdSlots # s
    OBVIOUS
  <2>1. k \in Nat /\ ridx <= k /\ k < widx
    BY <1>0, <1>2, QueueFacts DEF Queue
  <2>2. widx - k \in 1..(CmdSlots - 1)
    BY <1>2, <1>3, <2>1
  <2> QED
    BY <1>2, <1>3, <2>1, <2>2, SlotsDistinct
<1>6. /\ bodies' \in [0..(CmdSlots - 1) -> [op : Opcode, id : Nat]]
      /\ \A k \in Queue : Ids(k)' = Ids(k)
      /\ writer' \in [pc : {"idle", "body", "index"}, op : Opcode, id : Nat, write : Nat]
      /\ begun' \in Nat \ {0} /\ writer'.id = begun' /\ writer'.write = widx
      /\ begun' \notin accepted /\ accepted \subseteq 1..begun' /\ writer'.pc \in {"body", "index"}
      /\ writer'.pc = "index" => Ids(widx)' = begun'
  <2>1. CASE IssueOp
    <3>1. PICK op \in OpsIssued :
             /\ writer' = [pc |-> "body", op |-> op, id |-> begun + 1, write |-> widx]
             /\ bodies' = [bodies EXCEPT ![s].op = op]
      BY <2>1 DEF IssueOp
    <3>2. bodies \in [0..(CmdSlots - 1) -> [op : Opcode, id : Nat]] /\ op \in Opcode
      BY <1>0 DEF CmdTypeOK, Opcode
    <3> HIDE DEF s
    <3>3. bodies' \in [0..(CmdSlots - 1) -> [op : Opcode, id : Nat]]
      BY <1>3, <3>1, <3>2
    <3>4. \A k \in Queue : Ids(k)' = Ids(k)
      BY <1>3, <1>5, <3>1, <3>2, SlotIn DEF Ids
    <3>5. begun' = begun + 1 /\ begun \in Nat /\ accepted \subseteq 1..begun
      BY <1>0, <2>1 DEF IssueOp, CmdTypeOK, WriterKnows
    <3> QED
      BY <1>2, <3>1, <3>2, <3>3, <3>4, <3>5
  <2>2. CASE IssueBody
    <3>1. /\ writer' = [writer EXCEPT !.pc = "index"] /\ begun' = begun
          /\ writer.write = widx /\ writer.id = begun /\ begun \in Nat \ {0} /\ begun \notin accepted
          /\ accepted \subseteq 1..begun
          /\ writer \in [pc : {"idle", "body", "index"}, op : Opcode, id : Nat, write : Nat]
      BY <1>0, <2>2 DEF IssueBody, WriterKnows, CmdTypeOK
    <3>2. bodies' = [bodies EXCEPT ![s].id = begun]
      BY <3>1, <2>2 DEF IssueBody
    <3>3. bodies \in [0..(CmdSlots - 1) -> [op : Opcode, id : Nat]]
      BY <1>0 DEF CmdTypeOK
    <3>4. Ids(widx)' = bodies'[s].id
      BY <1>1 DEF Ids
    <3> HIDE DEF s
    <3>5. bodies' \in [0..(CmdSlots - 1) -> [op : Opcode, id : Nat]] /\ bodies'[s].id = begun
      BY <1>3, <3>1, <3>2, <3>3
    <3>6. \A k \in Queue : Ids(k)' = Ids(k)
      BY <1>3, <1>5, <3>1, <3>2, <3>3, SlotIn DEF Ids
    <3> QED
      BY <3>1, <3>4, <3>5, <3>6
  <2> QED
    BY <2>1, <2>2
<1> HIDE DEF s, N
<1>7. CmdTypeOK'
  BY <1>0, <1>1, <1>6 DEF CmdTypeOK, Machine
<1>8. IndexTold' /\ Unplaced'
  BY <1>0, <1>1, <1>2 DEF IndexTold, Unplaced, Drained, Draining, Machine
<1>9. WriterKnows'
  BY <1>1, <1>2, <1>6 DEF WriterKnows, Machine
<1>10. QueueKnown'
  BY <1>0, <1>1, <1>4, <1>6 DEF QueueKnown, Machine
<1>11. AnswersKnown'
  <2>1. {Ids(k)' : k \in Queue} = {Ids(k) : k \in Queue}
    BY <1>6
  <2>2. {Ids(k) : k \in Queue}' = {Ids(k) : k \in Queue}
    BY <1>4, <2>1
  <2> QED
    BY <1>0, <1>1, <1>4, <2>2 DEF AnswersKnown, Machine
<1> QED
  BY <1>7, <1>8, <1>9, <1>10, <1>11 DEF CmdInv

\* The index publishes the body: one more command waits.
LEMMA IndexKeeps ==
  ASSUME CmdInv, IssueIndex PROVE CmdInv'
<1>0. /\ CmdTypeOK /\ IndexTold /\ Unplaced /\ WriterKnows /\ QueueKnown /\ AnswersKnown
  BY DEF CmdInv
<1>1. /\ ~broken /\ widx < ridx + CmdSlots /\ widx \in Nat /\ ridx \in Nat /\ placed
      /\ widx' = widx + 1 /\ accepted' = accepted \cup {begun} /\ writer' = NoWriter
      /\ begun \in Nat \ {0} /\ begun \notin accepted /\ accepted \subseteq 1..begun /\ Ids(widx) = begun
  BY <1>0 DEF IssueIndex, WriterKnows, CmdTypeOK, Unplaced
<1>2. UNCHANGED <<bodies, begun, meddles, broken>> /\ UNCHANGED Machine
  BY DEF IssueIndex
<1>3. Queue' = Queue \cup {widx} /\ widx \notin Queue /\ \A k \in Queue : k < widx
  <2>1. Oldest' = Oldest /\ Newest = widx /\ Newest' = widx + 1 /\ Oldest \in Nat /\ Oldest <= widx
    BY <1>0, <1>1, <1>2, QueueFacts DEF Oldest, Newest, Draining, Machine
  <2>2. Queue' = Oldest..(widx + 1 - 1) /\ Queue = Oldest..(widx - 1)
    BY <1>1, <2>1 DEF Queue
  <2> QED
    BY <1>1, <2>1, <2>2
<1>4. Done' = Done /\ \A k : Ids(k)' = Ids(k)
  BY <1>2 DEF Done, Ids, Machine
<1>5. CmdTypeOK'
  <2>1. NoWriter \in [pc : {"idle", "body", "index"}, op : Opcode, id : Nat, write : Nat]
    BY DEF NoWriter, Opcode
  <2> QED
    BY <1>0, <1>1, <1>2, <2>1 DEF CmdTypeOK, Machine
<1>6. IndexTold'
  BY <1>0, <1>1, <1>2, CommandAssumption, SMTT(20) DEF IndexTold, Drained, Draining, Machine, CmdTypeOK, CommandAssumption
<1>7. Unplaced' /\ WriterKnows'
  BY <1>0, <1>1, <1>2 DEF Unplaced, WriterKnows, Draining, Machine, NoWriter
<1>8. \A k \in Queue : Ids(k) \in accepted /\ Ids(k) \in Nat /\ Ids(k) < begun
  <2> SUFFICES ASSUME NEW k \in Queue PROVE Ids(k) \in accepted /\ Ids(k) \in Nat /\ Ids(k) < begun
    OBVIOUS
  <2>1. Ids(k) \in accepted
    BY <1>0 DEF QueueKnown
  <2>2. Ids(k) \in 1..begun /\ Ids(k) # begun
    BY <1>1, <2>1
  <2> QED
    BY <1>1, <2>1, <2>2
<1>9. \A i \in DOMAIN answers : answers[i].id < begun
  <2> SUFFICES ASSUME NEW i \in DOMAIN answers PROVE answers[i].id < begun
    OBVIOUS
  <2>1. answers[i].id \in accepted
    BY <1>0 DEF AnswersKnown, Done
  <2>2. answers[i].id \in 1..begun /\ answers[i].id # begun
    BY <1>1, <2>1
  <2> QED
    BY <1>1, <2>2
<1>10. begun \notin voided /\ voided' = voided /\ answers' = answers
  BY <1>0, <1>1, <1>2 DEF AnswersKnown, Machine
<1>11. QueueKnown'
  <2>1. \A k \in Queue' : Ids(k)' \in accepted' /\ Ids(k)' \notin voided'
    BY <1>0, <1>1, <1>3, <1>4, <1>10 DEF QueueKnown
  <2>2. ASSUME NEW j \in Queue', NEW k \in Queue', j < k PROVE Ids(j) < Ids(k)
    <3>1. j \in Queue
      <4>1. j # widx
        <5>1. SUFFICES ASSUME j = widx PROVE FALSE
          OBVIOUS
        <5>2. k \in Queue \/ k = widx
          BY <1>3
        <5>3. k \in Queue => k \in Nat /\ k < widx
          BY <1>3, <1>0, QueueFacts
        <5> QED
          BY <1>1, <2>2, <5>1, <5>2, <5>3
      <4> QED
        BY <1>3, <4>1
    <3>2. CASE k \in Queue
      BY <1>0, <2>2, <3>1, <3>2 DEF QueueKnown
    <3>3. CASE k = widx
      BY <1>1, <1>8, <3>1, <3>3
    <3> QED
      BY <1>3, <3>2, <3>3
  <2>3. \A j, k \in Queue' : j < k => Ids(j)' < Ids(k)'
    BY <1>4, <2>2
  <2>4. \A k \in Queue' : \A i \in DOMAIN answers' : answers'[i].id < Ids(k)'
    BY <1>0, <1>1, <1>3, <1>4, <1>9, <1>10 DEF QueueKnown
  <2> QED
    BY <2>1, <2>3, <2>4 DEF QueueKnown
<1>12. AnswersKnown'
  <2>1. {Ids(k) : k \in Queue}' = {Ids(k) : k \in Queue} \cup {begun}
    BY <1>1, <1>3, <1>4
  <2>2. answers' = answers /\ g_ops' = g_ops /\ meddles' = meddles /\ voided' = voided
    BY <1>2 DEF Machine
  <2> QED
    BY <1>0, <1>1, <1>4, <2>1, <2>2 DEF AnswersKnown
<1> QED
  BY <1>5, <1>6, <1>7, <1>11, <1>12 DEF CmdInv

\* A command the host did not finish was never accepted.
LEMMA DeathKeeps ==
  ASSUME CmdInv, HostDies PROVE CmdInv'
<1>1. /\ writer' = NoWriter /\ NoWriter.pc = "idle"
      /\ NoWriter \in [pc : {"idle", "body", "index"}, op : Opcode, id : Nat, write : Nat]
      /\ UNCHANGED <<offers, g_ops, placed, widx, ridx, bodies, consumer, begun, meddles, accepted, answers, voided, broken>>
  BY DEF HostDies, Machine, NoWriter, Opcode
<1>2. CmdTypeOK'
  BY <1>1 DEF CmdInv, CmdTypeOK
<1>3. IndexTold' /\ Unplaced' /\ WriterKnows'
  BY <1>1 DEF CmdInv, IndexTold, Unplaced, WriterKnows, Drained, Draining
<1>4. QueueKnown' /\ AnswersKnown'
  BY <1>1 DEF CmdInv, QueueKnown, AnswersKnown, Queue, Oldest, Newest, Drained, Draining, Ids, Done
<1> QED
  BY <1>2, <1>3, <1>4 DEF CmdInv

\* A broken index adds nothing to what the machine will take.
LEMMA MeddleKeeps ==
  ASSUME CmdInv, Meddle PROVE CmdInv'
<1>0. /\ CmdTypeOK /\ IndexTold /\ Unplaced /\ WriterKnows /\ QueueKnown /\ AnswersKnown
  BY DEF CmdInv
<1>1. /\ placed /\ writer.pc = "idle" /\ meddles' = meddles + 1 /\ broken'
      /\ UNCHANGED <<offers, g_ops, placed, ridx, bodies, writer, consumer, begun, accepted, answers, voided>>
  BY DEF Meddle, Machine
<1>2. widx' \in Nat /\ (widx' < Drained \/ widx' > Drained + CmdSlots)
  <2>1. widx' \in (0..(Drained + CmdSlots + 1)) \ (Drained..(Drained + CmdSlots))
    BY DEF Meddle, Drained, Draining
  <2>2. Drained \in Nat
    BY <1>0 DEF CmdTypeOK, Drained
  <2> QED
    BY <2>1, <2>2, CommandAssumption DEF CommandAssumption
<1>3. Drained' = Drained /\ Oldest' = Oldest /\ Newest' = Drained
  BY <1>1 DEF Drained, Oldest, Newest, Draining
<1>4. Queue' \subseteq Queue
  <2>1. Drained \in Nat /\ Newest \in Nat /\ Oldest \in Nat /\ Drained <= Newest
    BY <1>0, QueueFacts DEF CmdTypeOK, Drained, Newest, IndexTold
  <2>2. Queue' = Oldest..(Drained - 1) /\ Queue = Oldest..(Newest - 1)
    BY <1>3 DEF Queue
  <2> QED
    BY <2>1, <2>2
<1>5. CmdTypeOK'
  BY <1>0, <1>1, <1>2 DEF CmdTypeOK
<1>6. IndexTold'
  BY <1>0, <1>1, <1>2, <1>3 DEF IndexTold, Draining, CmdTypeOK
<1>7. Unplaced' /\ WriterKnows'
  BY <1>0, <1>1 DEF Unplaced, WriterKnows
<1>8. QueueKnown'
  BY <1>0, <1>1, <1>4 DEF QueueKnown, Ids
<1>9. AnswersKnown'
  <2>1. meddles' # 0 /\ Done' = Done
    BY <1>0, <1>1 DEF CmdTypeOK, Done
  <2> QED
    BY <1>0, <1>1, <2>1 DEF AnswersKnown
<1> QED
  BY <1>5, <1>6, <1>7, <1>8, <1>9 DEF CmdInv

\* The machine copies a good index, and throws away everything at a broken one.
LEMMA BeginKeeps ==
  ASSUME CmdInv, DrainBegin PROVE CmdInv'
<1>0. /\ CmdTypeOK /\ IndexTold /\ Unplaced /\ WriterKnows /\ QueueKnown /\ AnswersKnown
  BY DEF CmdInv
<1>1. /\ placed /\ ~Draining /\ Drained = ridx /\ Oldest = ridx
      /\ UNCHANGED <<offers, g_ops, placed, widx, bodies, writer, begun, meddles, accepted, answers>>
  BY DEF DrainBegin, Host, Draining, Drained, Oldest
<1>2. widx \in Nat /\ ridx \in Nat /\ CmdSlots \in Nat \ {0}
  BY <1>0, CommandAssumption DEF CmdTypeOK, CommandAssumption
<1>3. broken <=> OutOfRange(widx - ridx)
  BY <1>0, <1>1, <1>2 DEF OutOfRange, IndexTold, CmdTypeOK
<1>4. CASE broken
  <2>1. /\ ridx' = widx /\ broken' = FALSE /\ consumer' = consumer
        /\ voided' = accepted \ Done
    BY <1>3, <1>4 DEF DrainBegin, Done
  <2>2. Done' = Done /\ Queue' = {}
    BY <1>1, <1>2, <2>1 DEF Done, Queue, Oldest, Newest, Drained, Draining
  <2>3. CmdTypeOK'
    BY <1>0, <1>1, <1>2, <2>1 DEF CmdTypeOK
  <2>4. IndexTold'
    BY <1>1, <1>2, <2>1 DEF IndexTold, Drained, Draining
  <2>5. Unplaced' /\ WriterKnows'
    <3>1. writer.pc = "idle" /\ writer'.pc = "idle"
      BY <1>0, <1>1, <1>4 DEF WriterKnows
    <3> QED
      BY <1>0, <1>1, <2>1, <3>1 DEF Unplaced, WriterKnows
  <2>6. QueueKnown'
    BY <2>2 DEF QueueKnown
  <2>7. AnswersKnown'
    <3>1. meddles' # 0
      BY <1>0, <1>1, <1>4 DEF IndexTold, CmdTypeOK
    <3> QED
      BY <1>0, <1>1, <2>1, <2>2, <3>1 DEF AnswersKnown
  <2> QED
    BY <2>3, <2>4, <2>5, <2>6, <2>7 DEF CmdInv
<1>5. CASE ~broken
  <2>1. /\ consumer' = [pc |-> "consume", index |-> ridx, write |-> widx]
        /\ UNCHANGED <<ridx, voided, broken>>
    BY <1>3, <1>5 DEF DrainBegin
  <2>2. Draining' /\ consumer'.index = ridx /\ consumer'.write = widx
    BY <2>1 DEF Draining
  <2>3. ridx <= widx /\ widx <= ridx + CmdSlots
    BY <1>0, <1>1, <1>2, <1>5 DEF IndexTold
  <2>4. Done' = Done /\ Queue' = Queue /\ \A k : Ids(k)' = Ids(k)
    BY <1>1, <1>5, <2>1, <2>2 DEF Done, Queue, Oldest, Newest, Drained, Ids
  <2>5. CmdTypeOK'
    BY <1>0, <1>1, <1>2, <2>1 DEF CmdTypeOK
  <2>6. IndexTold'
    <3>1. ridx' = ridx /\ widx' = widx /\ ~broken' /\ Drained' = widx
      BY <1>1, <1>5, <2>1, <2>2 DEF Drained
    <3>2. ridx' <= consumer'.index /\ consumer'.index <= consumer'.write /\ consumer'.write <= ridx' + CmdSlots
      BY <1>2, <2>2, <2>3, <3>1
    <3> QED
      BY <1>2, <2>3, <3>1, <3>2 DEF IndexTold
  <2>7. Unplaced' /\ WriterKnows'
    BY <1>0, <1>1, <2>1 DEF Unplaced, WriterKnows, Ids
  <2>8. QueueKnown'
    BY <1>0, <1>1, <2>1, <2>4 DEF QueueKnown
  <2>9. AnswersKnown'
    <3>1. {Ids(k) : k \in Queue}' = {Ids(k) : k \in Queue}
      BY <2>4
    <3> QED
      BY <1>0, <1>1, <2>1, <2>4, <3>1 DEF AnswersKnown
  <2> QED
    BY <2>5, <2>6, <2>7, <2>8, <2>9 DEF CmdInv
<1> QED
  BY <1>4, <1>5

\* The machine carries out the oldest of what waits.
LEMMA ConsumeKeeps ==
  ASSUME CmdInv, Consume PROVE CmdInv'
<1>0. /\ CmdTypeOK /\ IndexTold /\ Unplaced /\ WriterKnows /\ QueueKnown /\ AnswersKnown
  BY DEF CmdInv
<1>1. /\ Draining /\ consumer.index # consumer.write
      /\ UNCHANGED <<offers, g_ops, placed, widx, bodies, writer, begun, meddles, accepted, ridx, voided, broken>>
      /\ consumer' = [consumer EXCEPT !.index = @ + 1]
  BY DEF Consume, Draining, Host
<1> DEFINE n == consumer.index
           command == bodies[n % CmdSlots]
           answer == [id |-> command.id, op |-> Named(command.op), result |-> Dispatch(command.op)]
<1>2. answers' = Append(answers, answer)
  BY DEF Consume
<1>3. /\ n \in Nat /\ Oldest = n /\ n < consumer.write /\ Drained = consumer.write
      /\ consumer \in [pc : {"waiting", "consume"}, index : Nat, write : Nat]
  BY <1>0, <1>1 DEF CmdTypeOK, Oldest, Drained, IndexTold
<1>4. /\ consumer' \in [pc : {"waiting", "consume"}, index : Nat, write : Nat]
      /\ consumer'.index = n + 1 /\ consumer'.write = consumer.write /\ Draining'
  BY <1>1, <1>3 DEF Draining
<1>5. /\ Newest \in Nat /\ n < Newest /\ Newest' = Newest /\ Drained' = Drained
  <2>1. Drained <= Newest /\ Newest \in Nat
    BY <1>0, QueueFacts DEF IndexTold, Newest, Drained, CmdTypeOK
  <2>2. Newest' = Newest /\ Drained' = Drained
    BY <1>1, <1>4 DEF Newest, Drained
  <2> QED
    BY <1>3, <2>1, <2>2
<1>6. Queue = {n} \cup Queue' /\ n \in Queue /\ \A k \in Queue' : k \in Queue /\ n < k
  <2>1. Queue = n..(Newest - 1) /\ Queue' = (n + 1)..(Newest - 1)
    BY <1>3, <1>4, <1>5 DEF Queue, Oldest
  <2> QED
    BY <1>3, <1>5, <2>1
<1>7. command \in [op : Opcode, id : Nat] /\ command.id = Ids(n)
  BY <1>0, <1>3, SlotIn DEF CmdTypeOK, Ids
<1>8. answer \in Answer /\ answer.id = Ids(n) /\ (answer.result = "ok" <=> answer.op \in ToSet(g_ops))
  <2>1. answer.id = Ids(n) /\ answer.op = Named(command.op) /\ answer.result = Dispatch(command.op)
    BY <1>7
  <2>2. command.op \in Opcode /\ command.id \in Nat
    BY <1>7
  <2> HIDE DEF command
  <2>3. Named(command.op) \in Opcode /\ Dispatch(command.op) \in {"ok", "unknown"}
    BY <2>2 DEF Named, Dispatch, Opcode
  <2>4. 0 \notin ToSet(g_ops)
    BY <1>0 DEF Unplaced, ToSet
  <2>5. Dispatch(command.op) = "ok" <=> Named(command.op) \in ToSet(g_ops)
    BY <2>4 DEF Named, Dispatch, Claimed
  <2>6. answer \in Answer
    BY <2>2, <2>3 DEF Answer
  <2> QED
    BY <2>1, <2>5, <2>6
<1> HIDE DEF answer, command
<1>9. /\ answers \in Seq(Answer) /\ answers' \in Seq(Answer)
      /\ Len(answers') = Len(answers) + 1 /\ Len(answers) \in Nat
      /\ answers'[Len(answers) + 1] = answer
      /\ \A i \in 1..Len(answers) : answers'[i] = answers[i]
      /\ DOMAIN answers = 1..Len(answers) /\ DOMAIN answers' = 1..(Len(answers) + 1)
  <2>1. answers \in Seq(Answer)
    BY <1>0 DEF CmdTypeOK
  <2> QED
    BY <1>2, <1>8, <2>1
<1> DEFINE L == Len(answers)
<1>10. /\ DOMAIN answers' = DOMAIN answers \cup {L + 1} /\ L + 1 \notin DOMAIN answers
       /\ \A i \in DOMAIN answers : answers'[i] = answers[i] /\ i < L + 1 /\ i \in Nat
       /\ answers'[L + 1] = answer /\ L + 1 \in Nat
  BY <1>9
<1> HIDE DEF L
<1>11. Ids(n) \in accepted /\ Ids(n) \notin voided /\ Ids(n) \in Nat
       /\ \A i \in DOMAIN answers : answers[i].id < Ids(n)
  BY <1>0, <1>6, QueueFacts DEF QueueKnown
<1>12. Done' = Done \cup {Ids(n)} /\ \A k : Ids(k)' = Ids(k)
  <2>1. \A k : Ids(k)' = Ids(k)
    BY <1>1 DEF Ids
  <2>2. \A i \in DOMAIN answers : answers'[i].id = answers[i].id
    BY <1>10
  <2>3. answers'[L + 1].id = Ids(n)
    BY <1>8, <1>10
  <2>4. Done' = {answers'[i].id : i \in DOMAIN answers'}
    BY DEF Done
  <2> QED
    BY <1>10, <2>1, <2>2, <2>3, <2>4 DEF Done
<1>13. CmdTypeOK'
  BY <1>0, <1>1, <1>4, <1>9 DEF CmdTypeOK
<1>14. IndexTold'
  <2>1. Draining' => ridx' <= consumer'.index /\ consumer'.index <= consumer'.write /\ consumer'.write <= ridx' + CmdSlots
    BY <1>0, <1>1, <1>3, <1>4 DEF IndexTold, CmdTypeOK
  <2>2. (~broken' => Drained' <= widx' /\ widx' <= ridx' + CmdSlots)
    BY <1>0, <1>1, <1>5 DEF IndexTold
  <2>3. broken' => (widx' < Drained' \/ widx' > Drained' + CmdSlots) /\ meddles' > 0
    BY <1>0, <1>1, <1>5 DEF IndexTold
  <2> QED
    BY <2>1, <2>2, <2>3 DEF IndexTold
<1>15. Unplaced' /\ WriterKnows'
  <2>1. placed
    BY <1>0, <1>1 DEF Unplaced
  <2> QED
    BY <1>0, <1>1, <2>1 DEF Unplaced, WriterKnows, Ids
<1>16. QueueKnown'
  <2>1. \A k \in Queue' : Ids(k)' \in accepted' /\ Ids(k)' \notin voided'
    BY <1>0, <1>1, <1>6, <1>12 DEF QueueKnown
  <2>2. \A j, k \in Queue' : j < k => Ids(j)' < Ids(k)'
    BY <1>0, <1>6, <1>12 DEF QueueKnown
  <2>3. ASSUME NEW k \in Queue', NEW i \in DOMAIN answers' PROVE answers'[i].id < Ids(k)'
    <3>1. CASE i = L + 1
      BY <1>0, <1>6, <1>8, <1>10, <1>12, <3>1 DEF QueueKnown
    <3>2. CASE i \in DOMAIN answers
      BY <1>0, <1>6, <1>10, <1>12, <3>2 DEF QueueKnown
    <3> QED
      BY <1>10, <3>1, <3>2
  <2> QED
    BY <2>1, <2>2, <2>3 DEF QueueKnown
<1>17. AnswersKnown'
  <2>1. Done' \subseteq accepted' /\ Done' \cap voided' = {} /\ voided' \subseteq accepted'
    BY <1>0, <1>1, <1>11, <1>12 DEF AnswersKnown
  <2>2. ASSUME NEW i \in DOMAIN answers', NEW j \in DOMAIN answers', i < j PROVE answers'[i].id < answers'[j].id
    <3>1. i \in DOMAIN answers
      BY <1>10, <2>2
    <3>2. CASE j \in DOMAIN answers
      BY <1>0, <1>10, <2>2, <3>1, <3>2 DEF AnswersKnown
    <3>3. CASE j = L + 1
      BY <1>8, <1>10, <1>11, <3>1, <3>3
    <3> QED
      BY <1>10, <3>2, <3>3
  <2>3. \A i \in DOMAIN answers' : answers'[i].result = "ok" <=> answers'[i].op \in ToSet(g_ops)
    BY <1>0, <1>8, <1>10 DEF AnswersKnown
  <2>4. meddles' = 0 => accepted' = Done' \cup {Ids(k) : k \in Queue}'
    <3>1. {Ids(k) : k \in Queue} = {Ids(n)} \cup {Ids(k) : k \in Queue'}
      BY <1>6
    <3>2. {Ids(k) : k \in Queue}' = {Ids(k) : k \in Queue'}
      BY <1>12
    <3> QED
      BY <1>0, <1>1, <1>12, <3>1, <3>2 DEF AnswersKnown
  <2>5. g_ops' = g_ops
    BY <1>1
  <2> QED
    BY <2>1, <2>2, <2>3, <2>4, <2>5 DEF AnswersKnown
<1> QED
  BY <1>13, <1>14, <1>15, <1>16, <1>17 DEF CmdInv

\* Freeing the slots changes nothing in what waits.
LEMMA EndKeeps ==
  ASSUME CmdInv, DrainEnd PROVE CmdInv'
<1>0. /\ CmdTypeOK /\ IndexTold /\ Unplaced /\ WriterKnows /\ QueueKnown /\ AnswersKnown
  BY DEF CmdInv
<1>1. /\ Draining /\ consumer.index = consumer.write /\ ridx' = consumer.write /\ consumer' = NoDrainer
      /\ ~Draining' /\ NoDrainer \in [pc : {"waiting", "consume"}, index : Nat, write : Nat]
      /\ UNCHANGED <<offers, g_ops, placed, widx, bodies, writer, begun, meddles, accepted, answers, voided, broken>>
  BY DEF DrainEnd, Draining, Host, NoDrainer
<1>2. /\ consumer.write \in Nat /\ widx \in Nat /\ ridx \in Nat /\ CmdSlots \in Nat
      /\ ridx <= consumer.write /\ placed
  BY <1>0, <1>1, CommandAssumption DEF CmdTypeOK, IndexTold, CommandAssumption, Unplaced
<1>3. Drained' = Drained /\ Oldest' = Oldest /\ Newest' = Newest /\ Drained = consumer.write
  BY <1>1 DEF Drained, Oldest, Newest
<1>4. Queue' = Queue /\ Done' = Done /\ \A k : Ids(k)' = Ids(k)
  BY <1>1, <1>3 DEF Queue, Done, Ids
<1>5. CmdTypeOK'
  BY <1>0, <1>1, <1>2 DEF CmdTypeOK
<1>6. IndexTold'
  BY <1>0, <1>1, <1>2, <1>3 DEF IndexTold
<1>7. Unplaced' /\ WriterKnows'
  BY <1>0, <1>1, <1>2 DEF Unplaced, WriterKnows, Ids, CmdTypeOK
<1>8. QueueKnown'
  BY <1>0, <1>1, <1>4 DEF QueueKnown
<1>9. AnswersKnown'
  <2>1. {Ids(k) : k \in Queue}' = {Ids(k) : k \in Queue}
    BY <1>4
  <2> QED
    BY <1>0, <1>1, <1>4, <2>1 DEF AnswersKnown
<1> QED
  BY <1>5, <1>6, <1>7, <1>8, <1>9 DEF CmdInv

\* The invariant holds throughout.
THEOREM CommandInvariant == CmdSpec => []CmdInv
<1>1. CmdInit => CmdInv
  BY CmdInitInv
<1>2. CmdInv /\ [CmdNext]_cmdVars => CmdInv'
  <2> SUFFICES ASSUME CmdInv, [CmdNext]_cmdVars PROVE CmdInv'
    OBVIOUS
  <2>1. CASE CmdNext
    BY <2>1, DeclareKeeps, PlaceKeeps, BodyKeeps, IndexKeeps, DeathKeeps, MeddleKeeps, BeginKeeps, ConsumeKeeps, EndKeeps
       DEF CmdNext
  <2>2. CASE UNCHANGED cmdVars
    <3>1. CmdTypeOK' /\ IndexTold' /\ Unplaced'
      BY <2>2 DEF cmdVars, CmdInv, CmdTypeOK, IndexTold, Unplaced, Drained, Draining
    <3>2. WriterKnows' /\ QueueKnown' /\ AnswersKnown'
      BY <2>2 DEF cmdVars, CmdInv, WriterKnows, QueueKnown, AnswersKnown, Queue, Oldest, Newest, Drained, Draining, Ids, Done
    <3> QED
      BY <3>1, <3>2 DEF CmdInv
  <2> QED
    BY <2>1, <2>2
<1> QED
  BY <1>1, <1>2, PTL DEF CmdSpec

\* An accepted command is carried out at most once, in order, and nothing else is,
\* while what is stored in the index by others is out of range; none is missing as
\* long as nobody has stored anything there (nova/command.hpp, drain).
THEOREM CommandsOnceInOrder == CmdSpec => []OnceInOrder
<1>1. CmdInv => OnceInOrder
  <2> SUFFICES ASSUME CmdInv PROVE OnceInOrder
    OBVIOUS
  <2>0. CmdTypeOK /\ IndexTold /\ AnswersKnown
    BY DEF CmdInv
  <2>1. meddles = 0 => Waiting = {Ids(k) : k \in Queue}
    <3> SUFFICES ASSUME meddles = 0 PROVE Waiting = {Ids(k) : k \in Queue}
      OBVIOUS
    <3>1. ~broken /\ widx \in Nat /\ ridx \in Nat /\ CmdSlots \in Nat
      BY <2>0, CommandAssumption DEF IndexTold, CmdTypeOK, CommandAssumption
    <3>2. ridx <= widx /\ widx <= ridx + CmdSlots
      BY <2>0, <3>1 DEF IndexTold, Drained, Draining, CmdTypeOK
    <3>3. Queue = Oldest..(widx - 1)
      BY <3>1 DEF Queue, Newest
    <3> QED
      BY <3>1, <3>2, <3>3 DEF Waiting, Oldest, Draining, Ids
  <2> QED
    BY <2>0, <2>1 DEF OnceInOrder, AnswersKnown, Done
<1> QED
  BY <1>1, CommandInvariant, PTL

-----------------------------------------------------------------------------
(* The console: nothing typed or printed is lost.  Sequences first.        *)

\* Among naturals there is a least.
LEMMA LeastNatural ==
  ASSUME NEW T \in SUBSET Nat, T # {}
  PROVE  \E x \in T : \A y \in T : x <= y
<1>1. IsWellFoundedOn(OpToRel(<, Nat), Nat)
  BY NatLessThanWellFounded
<1>2. \E x \in T : \A y \in T : ~ (<<y, x>> \in OpToRel(<, Nat))
  BY <1>1, WFMin, Zenon
<1>3. PICK x \in T : \A y \in T : ~ (<<y, x>> \in OpToRel(<, Nat))
  BY <1>2
<1>4. \A y \in T : ~(y < x)
  BY <1>3 DEF OpToRel
<1> QED
  BY <1>4

\* A sequence with one element more.
LEMMA LongerByOne ==
  ASSUME NEW s \in Seq(Int), NEW t \in Seq(Int), NEW b \in Int, Len(t) = Len(s) + 1,
         \A i \in 1..Len(s) : t[i] = s[i], t[Len(s) + 1] = b
  PROVE  t = Append(s, b)
<1> DEFINE a == Append(s, b)
<1>1. /\ a \in Seq(Int) /\ Len(a) = Len(s) + 1
      /\ \A i \in 1..Len(s) : a[i] = s[i]
      /\ a[Len(s) + 1] = b
  BY AppendProperties
<1>2. Len(s) \in Nat
  BY LenProperties
<1> HIDE DEF a
<1>3. \A i \in 1..Len(t) : t[i] = a[i]
  BY <1>1, <1>2
<1>4. t = a
  BY <1>1, <1>3, SeqEqual
<1> QED
  BY <1>4 DEF a

\* A sequence is its first element and the others.
LEMMA FirstAndRest ==
  ASSUME NEW s \in Seq(Int), NEW t \in Seq(Int), Len(s) = Len(t) + 1,
         \A i \in 1..Len(t) : s[i + 1] = t[i]
  PROVE  s = <<s[1]>> \o t
<1> DEFINE a == <<s[1]>>
           c == a \o t
<1>1. Len(t) \in Nat
  BY LenProperties
<1>2. s[1] \in Int
  BY <1>1, ElementOfSeq
<1>3. a \in Seq(Int) /\ Len(a) = 1 /\ a[1] = s[1]
  BY <1>2
<1> HIDE DEF a
<1>4. /\ c \in Seq(Int) /\ Len(c) = Len(a) + Len(t)
      /\ \A i \in 1..(Len(a) + Len(t)) : c[i] = IF i <= Len(a) THEN a[i] ELSE t[i - Len(a)]
  BY <1>3, ConcatProperties
<1> HIDE DEF c
<1>5. ASSUME NEW i \in 1..Len(s) PROVE s[i] = c[i]
  <2>1. CASE i = 1
    BY <1>1, <1>3, <1>4, <2>1
  <2>2. CASE i # 1
    <3>1. i - 1 \in 1..Len(t) /\ (i - 1) + 1 = i /\ i \in 1..(1 + Len(t)) /\ ~(i <= 1)
      BY <1>1, <2>2
    <3> QED
      BY <1>3, <1>4, <3>1
  <2> QED
    BY <2>1, <2>2
<1>6. Len(c) = Len(s)
  BY <1>1, <1>3, <1>4
<1>7. s = c
  BY <1>4, <1>5, <1>6, SeqEqual
<1> QED
  BY <1>7 DEF c, a

\* Three sequences in a row, grouped either way.
LEMMA Grouped ==
  ASSUME NEW p \in Seq(Int), NEW q \in Seq(Int), NEW t \in Seq(Int)
  PROVE  (p \o q) \o t = p \o (q \o t)
  BY ConcatAssociative, SMTT(20)

\* An element put behind the second of two sequences is behind both.
LEMMA AppendBehind ==
  ASSUME NEW s \in Seq(Int), NEW t \in Seq(Int), NEW b \in Int
  PROVE  Append(s \o t, b) = s \o Append(t, b)
<1> DEFINE l == <<b>>
<1>1. l \in Seq(Int)
  OBVIOUS
<1>2. s \o t \in Seq(Int)
  BY ConcatProperties
<1> HIDE DEF l
<1>3. (s \o t) \o l = s \o (t \o l)
  BY <1>1, ConcatAssociative, SMTT(20)
<1> USE DEF l
<1>4. Append(s \o t, b) = (s \o t) \o <<b>> /\ Append(t, b) = t \o <<b>>
  BY <1>2, AppendIsConcat
<1> QED
  BY <1>3, <1>4

Uart == [fifo : [0..(FifoDepth - 1) -> Int], head : 0..(FifoDepth - 1), count : 0..FifoDepth, imsc : BOOLEAN]

ConTypeOK ==
  /\ g_uart \in [ConVms -> Uart]
  /\ uartSpi \in [ConVms -> BOOLEAN]
  /\ guestUart \in [ConVms -> {"run", "post", "draining", "drained", "off", "resetting"}]
  /\ wire \in Seq(Int)
  /\ rxIrq \in [pc : {"idle", "reading", "inject", "post"}, vm : ConVms]
  /\ g_focus \in ConVms
  /\ g_line \in [ConVms -> Seq(Int)] /\ printed \in [ConVms -> Seq(Int)] /\ shown \in [ConVms -> Seq(Int)]
  /\ pushed \in [ConVms -> Seq(Int)] /\ popped \in [ConVms -> Seq(Int)]
  /\ keys \in Int

\* The byte that was routed is still in the wire.
RoutedWaits == rxIrq.pc = "inject" => wire # <<>>

ConInv == ConTypeOK /\ RoutedWaits /\ ConsoleLossless

LEMMA ConFacts == FifoDepth \in Nat \ {0} /\ LineMax \in Nat \ {0} /\ 0 \in ConVms /\ VuartVms \subseteq ConVms
  BY ConAssumption DEF ConAssumption

\* What was received is a sequence of as many bytes as are counted.
LEMMA ReceivedSeq == ASSUME NEW u \in Uart PROVE Received(u) \in Seq(Int) /\ Len(Received(u)) = u.count
<1> DEFINE n == u.count
           h == u.head
           D == FifoDepth
<1>1. D \in Nat \ {0} /\ h \in Nat /\ n \in Nat /\ u.fifo \in [0..(D - 1) -> Int]
  BY ConFacts DEF Uart
<1>2. \A i \in Int : i % D \in 0..(D - 1)
  BY <1>1
<1>3. Received(u) = [i \in 1..n |-> u.fifo[(h + i - 1) % D]]
  BY DEF Received
<1> HIDE DEF n, h, D
<1>4. \A i \in 1..n : h + i - 1 \in Int
  BY <1>1
<1>5. \A i \in 1..n : u.fifo[(h + i - 1) % D] \in Int
  BY <1>1, <1>2, <1>4
<1> DEFINE s == [i \in 1..n |-> u.fifo[(h + i - 1) % D]]
<1>6. s \in [1..n -> Int]
  BY <1>5
<1> HIDE DEF s
<1>7. s \in Seq(Int) /\ Len(s) = n
  BY <1>1, <1>6
<1> QED
  BY <1>3, <1>7 DEF s, n

\* The next VM to have the focus is a VM.
LEMMA FocusIn == ASSUME NEW from \in ConVms PROVE next_focus(from) \in ConVms
<1>1. VmCount \in Nat \ {0} /\ ConVms = 0..(VmCount - 1)
  BY ConAssumption DEF ConAssumption, VmCount
<1> DEFINE after == {i \in 1..VmCount : focus_valid((from + i) % VmCount)}
           first == CHOOSE i \in after : \A j \in after : i <= j
<1>2. after \in SUBSET Nat
  BY <1>1
<1> HIDE DEF after
<1>3. CASE after # {}
  <2>1. \E i \in after : \A j \in after : i <= j
    BY <1>2, <1>3, LeastNatural
  <2>2. first \in after
    BY <2>1
  <2> HIDE DEF first
  <2>3. from + first \in Int
    BY <1>1, <1>2, <2>2
  <2> DEFINE n == from + first
  <2> HIDE DEF n
  <2>4. n % VmCount \in 0..(VmCount - 1)
    BY <1>1, <2>3 DEF n
  <2> QED
    BY <1>1, <1>3, <2>4 DEF next_focus, after, first, n
<1>4. CASE after = {}
  BY <1>1, <1>4 DEF next_focus, after
<1> QED
  BY <1>3, <1>4

\* A byte pushed goes behind the others, unless the FIFO is full.
LEMMA PushAppends ==
  ASSUME NEW u \in Uart, NEW b \in Int
  PROVE  /\ rx_push(u, b) \in Uart
         /\ rx_push(u, b).imsc = u.imsc
         /\ rx_push(u, b) = u <=> u.count = FifoDepth
         /\ u.count # FifoDepth => Received(rx_push(u, b)) = Append(Received(u), b)
<1> DEFINE D == FifoDepth
           h == u.head
           n == u.count
           v == rx_push(u, b)
<1>1. D \in Nat \ {0} /\ h \in 0..(D - 1) /\ n \in 0..D /\ u.fifo \in [0..(D - 1) -> Int] /\ u.imsc \in BOOLEAN
  BY ConFacts DEF Uart
<1>2. CASE n = D
  BY <1>1, <1>2 DEF rx_push
<1>3. CASE n # D
  <2> DEFINE s == (h + n) % D
  <2>0. h + n \in Nat
    BY <1>1
  <2>1. s \in 0..(D - 1)
    BY <1>1, <2>0, Remainder
  <2>2. v = [u EXCEPT !.fifo[s] = b, !.count = @ + 1]
    BY <1>3 DEF rx_push
  <2> HIDE DEF s, D
  <2>3. v = [fifo |-> [u.fifo EXCEPT ![s] = b], head |-> h, count |-> n + 1, imsc |-> u.imsc]
    BY <2>2 DEF Uart
  <2>4. v \in Uart /\ v # u /\ v.imsc = u.imsc /\ v.count = n + 1 /\ v.head = h /\ v.fifo = [u.fifo EXCEPT ![s] = b]
    BY <1>1, <1>3, <2>1, <2>3 DEF Uart, D
  <2> HIDE DEF h, n, v
  <2>5. ASSUME NEW i \in 1..n PROVE v.fifo[(h + i - 1) % D] = u.fifo[(h + i - 1) % D]
    <3>1. (h + n) - (h + i - 1) \in 1..(D - 1) /\ h + n \in Nat /\ h + i - 1 \in Nat
      BY <1>1, <1>3
    <3> DEFINE x == h + n
               y == h + i - 1
    <3>2. x \in Nat /\ y \in Nat /\ x - y \in 1..(D - 1)
      BY <3>1
    <3> HIDE DEF x, y
    <3>3. x % D # y % D /\ y % D \in 0..(D - 1)
      BY <1>1, <3>2, SlotsDistinct, Remainder
    <3> QED
      BY <1>1, <2>4, <3>3 DEF x, y, s
  <2>6. v.fifo[(h + (n + 1) - 1) % D] = b
    <3>1. h + (n + 1) - 1 = h + n
      BY <1>1
    <3> QED
      BY <1>1, <2>1, <2>4, <3>1 DEF s
  <2>7. Received(u) = [i \in 1..n |-> u.fifo[(h + i - 1) % D]] /\ Received(v) = [i \in 1..(n + 1) |-> v.fifo[(h + i - 1) % D]]
    BY <2>4 DEF Received, D, h, n
  <2>8. Received(v) = Append(Received(u), b)
    <3>1. Received(u) \in Seq(Int) /\ Len(Received(u)) = n
      BY ReceivedSeq DEF n
    <3> DEFINE A(i) == u.fifo[(h + i - 1) % D]
               B(i) == v.fifo[(h + i - 1) % D]
    <3>a. /\ Received(u) = [i \in 1..n |-> A(i)] /\ Received(v) = [i \in 1..(n + 1) |-> B(i)]
          /\ \A i \in 1..n : B(i) = A(i)
          /\ B(n + 1) = b
      BY <2>5, <2>6, <2>7, Zenon
    <3>b. n \in Nat
      BY <1>1
    <3> HIDE DEF A, B
    <3>2. \A i \in 1..n : Received(u)[i] = Received(v)[i]
      BY <3>a, <3>b
    <3>3. Received(v)[n + 1] = b
      BY <3>a, <3>b
    <3>4. Received(v) \in Seq(Int) /\ Len(Received(v)) = n + 1
      BY <2>4, ReceivedSeq
    <3> QED
      BY <1>1, <3>1, <3>2, <3>3, <3>4, LongerByOne
  <2> QED
    BY <1>3, <2>4, <2>8 DEF D, n, v
<1> QED
  BY <1>2, <1>3

\* A byte popped is the first of what was received.
LEMMA PopTakesFirst ==
  ASSUME NEW u \in Uart, ~rx_empty(u)
  PROVE  /\ rx_pop(u) \in Uart /\ OldestByte(u) \in Int
         /\ rx_pop(u).imsc = u.imsc
         /\ Received(u) = <<OldestByte(u)>> \o Received(rx_pop(u))
<1> DEFINE D == FifoDepth
           h == u.head
           n == u.count
           v == rx_pop(u)
           g == (h + 1) % D
<1>1. D \in Nat \ {0} /\ h \in 0..(D - 1) /\ n \in 0..D /\ u.fifo \in [0..(D - 1) -> Int] /\ u.imsc \in BOOLEAN /\ n # 0
  BY ConFacts DEF Uart, rx_empty
<1>2. g \in 0..(D - 1)
  BY <1>1
<1>3. v = [u EXCEPT !.head = g, !.count = n - 1]
  BY DEF rx_pop
<1> HIDE DEF D, g
<1>4. v \in Uart /\ v.imsc = u.imsc /\ v.count = n - 1 /\ v.head = g /\ v.fifo = u.fifo
  <2>1. v = [fifo |-> u.fifo, head |-> g, count |-> n - 1, imsc |-> u.imsc]
    BY <1>3 DEF Uart
  <2> QED
    BY <1>1, <1>2, <2>1 DEF Uart, D
<1>5. OldestByte(u) = u.fifo[h] /\ u.fifo[h] \in Int
  BY <1>1 DEF OldestByte
<1> HIDE DEF h, n, v
<1>6. Received(u) = [i \in 1..n |-> u.fifo[(h + i - 1) % D]] /\ Received(v) = [i \in 1..(n - 1) |-> u.fifo[(g + i - 1) % D]]
  BY <1>4 DEF Received, D, h, n
<1>7. /\ Received(u) \in Seq(Int) /\ Len(Received(u)) = n
      /\ Received(v) \in Seq(Int) /\ Len(Received(v)) = n - 1
  BY <1>4, ReceivedSeq DEF n
<1>8. ASSUME NEW i \in 1..(n - 1) PROVE Received(v)[i] = Received(u)[i + 1]
  <2>1. h + 1 \in Nat /\ i - 1 \in Nat /\ i \in 1..n /\ i + 1 \in 1..n /\ i \in Int
    BY <1>1
  <2>2. SameSlot(D, D, h + 1, i - 1)
    <3>1. Divides(D, D)
      BY <1>1 DEF Divides
    <3> QED
      BY <1>1, <2>1, <3>1, WrappedSlot
  <2>3. (g + (i - 1)) % D = (h + 1 + (i - 1)) % D
    BY <2>2 DEF SameSlot, g
  <2>4. g + (i - 1) = g + i - 1 /\ h + 1 + (i - 1) = h + (i + 1) - 1
    BY <1>1, <1>2, <2>1
  <2> QED
    BY <1>6, <2>1, <2>3, <2>4
<1>9. Received(u)[1] = u.fifo[h]
  <2>1. (h + 1 - 1) % D = h
    BY <1>1
  <2> QED
    BY <1>1, <1>6, <2>1
<1>10. Received(u) = <<u.fifo[h]>> \o Received(v)
  <2>1. Len(Received(u)) = Len(Received(v)) + 1 /\ 1..Len(Received(v)) = 1..(n - 1)
    BY <1>1, <1>7
  <2> QED
    BY <1>7, <1>8, <1>9, <2>1, FirstAndRest
<1> QED
  BY <1>4, <1>5, <1>10 DEF v, h

\* The empty console satisfies the invariant.
LEMMA ConInitInv == ConInit => ConInv
<1> SUFFICES ASSUME ConInit PROVE ConInv
  OBVIOUS
<1> USE DEF ConInit
<1>1. ResetUart \in Uart
  BY ConFacts DEF Uart, ResetUart
<1>2. ConTypeOK
  <2>1. rxIrq \in [pc : {"idle", "reading", "inject", "post"}, vm : ConVms]
    BY ConFacts DEF RxResting
  <2> QED
    BY <1>1, <2>1, ConFacts DEF ConTypeOK
<1>3. RoutedWaits
  BY DEF RoutedWaits, RxResting
<1>4. ASSUME NEW vm \in ConVms PROVE Announced(vm) /\ InOrder(vm) /\ LinesWhole(vm)
  <2>1. Announced(vm)
    BY <1>4 DEF Announced, mis, ResetUart
  <2>2. InOrder(vm)
    <3>1. Received(ResetUart) = <<>>
      BY DEF Received, ResetUart
    <3> QED
      BY <1>4, <3>1 DEF InOrder
  <2>3. LinesWhole(vm)
    BY <1>4, ConFacts DEF LinesWhole
  <2> QED
    BY <2>1, <2>2, <2>3
<1> QED
  BY <1>2, <1>3, <1>4 DEF ConInv, ConsoleLossless

\* What the invariant says of one VM.
VmServed(vm) ==
  /\ guestUart[vm] \notin {"off", "resetting"} => Announced(vm)
  /\ InOrder(vm) /\ LinesWhole(vm)

\* A step that leaves the UART and the line of a VM alone leaves it served.
LEMMA OthersServed ==
  ASSUME NEW vm \in ConVms, VmServed(vm),
         g_uart'[vm] = g_uart[vm], uartSpi[vm] => uartSpi'[vm], guestUart'[vm] = guestUart[vm],
         pushed'[vm] = pushed[vm], popped'[vm] = popped[vm],
         g_line'[vm] = g_line[vm], printed'[vm] = printed[vm], shown'[vm] = shown[vm],
         rxIrq = [pc |-> "post", vm |-> vm] => rxIrq' = rxIrq \/ uartSpi'[vm]
  PROVE  VmServed(vm)'
<1>1. (guestUart[vm] \notin {"off", "resetting"} => Announced(vm))'
  BY DEF VmServed, Announced
<1>2. InOrder(vm)' /\ LinesWhole(vm)'
  BY DEF VmServed, InOrder, LinesWhole
<1> QED
  BY <1>1, <1>2 DEF VmServed

\* The physical receiver, but for the byte it injects.
LEMMA ReceiverKeeps ==
  ASSUME ConInv, Type \/ RxIrq \/ Route \/ RxIrqEnds
  PROVE  ConInv'
<1> USE DEF ConInv
<1>1. UNCHANGED <<g_uart, uartSpi, guestUart, pushed, popped, g_line, printed, shown>>
  BY DEF Type, RxIrq, Route, RxIrqEnds, TxVars
<1>2. /\ keys' \in Int /\ wire' \in Seq(Int) /\ g_focus' \in ConVms
      /\ rxIrq' \in [pc : {"idle", "reading", "inject", "post"}, vm : ConVms]
      /\ RoutedWaits'
      /\ \A vm \in ConVms : rxIrq = [pc |-> "post", vm |-> vm] => rxIrq' = rxIrq
  <2>1. CASE Type
    <3>1. PICK b \in {keys + 1, FocusByte} : wire' = Append(wire, b)
      BY <2>1 DEF Type
    <3>2. b \in Int /\ keys' \in Int
      BY <2>1 DEF Type, ConTypeOK, FocusByte
    <3>3. wire \in Seq(Int)
      BY DEF ConTypeOK
    <3>4. wire' \in Seq(Int) /\ Len(wire') = Len(wire) + 1 /\ Len(wire) \in Nat
      BY <3>1, <3>2, <3>3, AppendProperties, LenProperties
    <3>5. wire' # <<>>
      BY <3>4, EmptySeq
    <3> QED
      BY <2>1, <3>2, <3>4, <3>5 DEF Type, ConTypeOK, RoutedWaits
  <2>2. CASE RxIrq
    <3>1. rxIrq' = [pc |-> "reading", vm |-> 0] /\ rxIrq.pc = "idle" /\ UNCHANGED <<wire, keys, g_focus>>
      BY <2>2 DEF RxIrq, RxResting
    <3>2. rxIrq' \in [pc : {"idle", "reading", "inject", "post"}, vm : ConVms] /\ rxIrq'.pc = "reading"
      BY <3>1, ConFacts
    <3>3. \A vm \in ConVms : rxIrq # [pc |-> "post", vm |-> vm]
      BY <3>1
    <3> QED
      BY <3>1, <3>2, <3>3 DEF ConTypeOK, RoutedWaits
  <2>3. CASE Route
    <3>1. wire # <<>> /\ Head(wire) \in Int /\ Tail(wire) \in Seq(Int) /\ rxIrq.pc = "reading"
      BY <2>3, HeadTailProperties DEF Route, ConTypeOK
    <3>2. next_focus(g_focus) \in ConVms
      BY FocusIn DEF ConTypeOK
    <3>3. CASE Head(wire) = FocusByte
      BY <2>3, <3>1, <3>2, <3>3 DEF Route, ConTypeOK, RoutedWaits
    <3>4. CASE Head(wire) # FocusByte
      <4>1. g_focus' \in ConVms /\ rxIrq' = [pc |-> "inject", vm |-> g_focus'] /\ UNCHANGED <<wire, keys>>
        BY <2>3, <3>2, <3>4 DEF Route, ConTypeOK
      <4> QED
        BY <3>1, <4>1 DEF ConTypeOK, RoutedWaits
    <3> QED
      BY <3>3, <3>4
  <2>4. CASE RxIrqEnds
    BY <2>4, ConFacts DEF RxIrqEnds, RxResting, ConTypeOK, RoutedWaits, RxVars, TxVars
  <2> QED
    BY <2>1, <2>2, <2>3, <2>4
<1>3. ConTypeOK'
  BY <1>1, <1>2 DEF ConTypeOK
<1>4. ASSUME NEW vm \in ConVms PROVE VmServed(vm)'
  BY <1>1, <1>2, OthersServed DEF ConsoleLossless, VmServed
<1> QED
  BY <1>2, <1>3, <1>4 DEF ConsoleLossless, VmServed

\* A byte injected goes behind those that wait, and a level it raises is
\* about to be posted.
LEMMA InjectKeeps == ConInv /\ Inject => ConInv'
<1> SUFFICES ASSUME ConInv, Inject PROVE ConInv'
  OBVIOUS
<1> USE DEF ConInv
<1> DEFINE r == rxIrq.vm
           b == Head(wire)
           u == g_uart[r]
           w == rx_push(u, b)
<1>1. /\ rxIrq.pc = "inject" /\ rxIrq \in [pc : {"idle", "reading", "inject", "post"}, vm : ConVms]
      /\ r \in ConVms /\ u \in Uart /\ b \in Int /\ Tail(wire) \in Seq(Int)
  BY HeadTailProperties DEF Inject, ConTypeOK, RoutedWaits
<1>2. /\ w \in Uart /\ w.imsc = u.imsc /\ (w = u <=> u.count = FifoDepth)
      /\ u.count # FifoDepth => Received(w) = Append(Received(u), b)
  BY <1>1, PushAppends
<1>3. /\ g_uart' = [g_uart EXCEPT ![r] = w]
      /\ pushed' = IF w = u THEN pushed ELSE [pushed EXCEPT ![r] = Append(@, b)]
      /\ rxIrq' = [pc |-> IF Rises(u, w) THEN "post" ELSE "reading", vm |-> r]
      /\ wire' = Tail(wire)
      /\ UNCHANGED <<uartSpi, guestUart, g_focus, keys, popped, g_line, printed, shown>>
  <2>1. rxIrq' = [rxIrq EXCEPT !.pc = IF Rises(u, w) THEN "post" ELSE "reading"]
    BY DEF Inject
  <2> QED
    BY <1>1, <2>1 DEF Inject, TxVars
<1> HIDE DEF u, w, b, r
<1>4. ConTypeOK'
  <2>1. g_uart' \in [ConVms -> Uart]
    BY <1>1, <1>2, <1>3 DEF ConTypeOK
  <2>2. pushed' \in [ConVms -> Seq(Int)]
    <3>1. Append(pushed[r], b) \in Seq(Int)
      BY <1>1, AppendProperties DEF ConTypeOK
    <3> QED
      BY <1>1, <1>3, <3>1 DEF ConTypeOK
  <2>3. rxIrq' \in [pc : {"idle", "reading", "inject", "post"}, vm : ConVms]
    BY <1>1, <1>3
  <2> QED
    BY <1>1, <1>3, <2>1, <2>2, <2>3 DEF ConTypeOK
<1>5. RoutedWaits'
  BY <1>3 DEF RoutedWaits
<1>6. ASSUME NEW vm \in ConVms PROVE VmServed(vm)'
  <2>0. VmServed(vm)
    BY DEF ConsoleLossless, VmServed
  <2>1. rxIrq # [pc |-> "post", vm |-> vm]
    BY <1>1
  <2>2. CASE vm # r
    <3>1. g_uart'[vm] = g_uart[vm] /\ pushed'[vm] = pushed[vm]
      BY <1>1, <1>3, <2>2 DEF ConTypeOK
    <3> QED
      BY <1>3, <2>0, <2>1, <3>1, OthersServed
  <2>3. CASE vm = r
    <3>1. g_uart'[vm] = w /\ g_uart[vm] = u
      BY <1>1, <1>3, <2>3 DEF ConTypeOK, u
    <3>2. InOrder(vm)'
      <4>0. InOrder(vm) /\ popped[vm] \in Seq(Int) /\ pushed[vm] \in Seq(Int)
        BY <2>0 DEF VmServed, ConTypeOK
      <4>1. CASE w = u
        BY <1>3, <3>1, <4>0, <4>1 DEF InOrder
      <4>2. CASE w # u
        <5>1. Received(w) = Append(Received(u), b) /\ pushed'[vm] = Append(pushed[vm], b)
          BY <1>1, <1>2, <1>3, <2>3, <4>2 DEF ConTypeOK
        <5>2. Received(u) \in Seq(Int)
          BY <1>1, ReceivedSeq
        <5>3. Append(popped[vm] \o Received(u), b) = popped[vm] \o Append(Received(u), b)
          BY <1>1, <4>0, <5>2, AppendBehind
        <5> QED
          BY <1>3, <3>1, <4>0, <5>1, <5>3 DEF InOrder
      <4> QED
        BY <4>1, <4>2
    <3>3. (guestUart[vm] \notin {"off", "resetting"} => Announced(vm))'
      <4>1. CASE Rises(u, w)
        BY <1>3, <2>3, <4>1 DEF Announced
      <4>2. CASE ~Rises(u, w)
        BY <1>3, <2>0, <2>1, <3>1, <4>2 DEF Announced, Rises, VmServed
      <4> QED
        BY <4>1, <4>2
    <3>4. LinesWhole(vm)'
      BY <1>3, <2>0 DEF LinesWhole, VmServed
    <3> QED
      BY <3>2, <3>3, <3>4 DEF VmServed
  <2> QED
    BY <2>2, <2>3
<1> QED
  BY <1>4, <1>5, <1>6 DEF ConsoleLossless, VmServed

\* The interrupt of the level raised is pending.
LEMMA PostKeeps == ConInv /\ PostInjected => ConInv'
<1> SUFFICES ASSUME ConInv, PostInjected PROVE ConInv'
  OBVIOUS
<1> USE DEF ConInv
<1>1. /\ rxIrq.pc = "post" /\ rxIrq \in [pc : {"idle", "reading", "inject", "post"}, vm : ConVms]
      /\ uartSpi' = [uartSpi EXCEPT ![rxIrq.vm] = TRUE]
      /\ rxIrq' = [rxIrq EXCEPT !.pc = "reading"]
      /\ UNCHANGED <<g_uart, guestUart, wire, g_focus, keys, pushed, popped, g_line, printed, shown>>
  BY DEF PostInjected, TxVars, ConTypeOK
<1>2. ConTypeOK' /\ RoutedWaits'
  BY <1>1 DEF ConTypeOK, RoutedWaits
<1>3. ASSUME NEW vm \in ConVms PROVE VmServed(vm)'
  <2>1. uartSpi[vm] => uartSpi'[vm]
    BY <1>1 DEF ConTypeOK
  <2>2. rxIrq = [pc |-> "post", vm |-> vm] => uartSpi'[vm]
    BY <1>1 DEF ConTypeOK
  <2>3. VmServed(vm)
    BY DEF ConsoleLossless, VmServed
  <2> QED
    BY <1>1, <2>1, <2>2, <2>3, OthersServed
<1> QED
  BY <1>2, <1>3 DEF ConsoleLossless, VmServed

\* The guest's side of its UART: what it does on `vm`, step by step.
LEMMA UartStepKeeps ==
  ASSUME ConInv, NEW vm \in ConVms,
         WriteImsc(vm) \/ PostUnmasked(vm) \/ TakeSpi(vm) \/ ReadDr(vm) \/ SeesEmpty(vm) \/ EndsIsr(vm)
  PROVE  ConInv'
<1> USE DEF ConInv
<1> DEFINE u == g_uart[vm]
<1>0. u \in Uart /\ VmServed(vm) /\ u.imsc \in BOOLEAN
  BY DEF ConTypeOK, ConsoleLossless, VmServed, Uart
<1>1. /\ UNCHANGED <<wire, rxIrq, g_focus, keys, g_line, printed, shown, pushed>>
      /\ \E x, y, z, a :
           /\ g_uart' = [g_uart EXCEPT ![vm] = x] /\ guestUart' = [guestUart EXCEPT ![vm] = y]
           /\ uartSpi' = [uartSpi EXCEPT ![vm] = z] /\ popped' = [popped EXCEPT ![vm] = a]
           /\ x \in Uart /\ y \in {"run", "post", "draining", "drained"} /\ z \in BOOLEAN /\ a \in Seq(Int)
           /\ mis(x) => z \/ y \in {"draining", "post"} \/ rxIrq = [pc |-> "post", vm |-> vm]
           /\ a \o Received(x) = popped[vm] \o Received(u)
  <2> DEFINE Same(x, y, z, a) ==
               /\ g_uart' = [g_uart EXCEPT ![vm] = x] /\ guestUart' = [guestUart EXCEPT ![vm] = y]
               /\ uartSpi' = [uartSpi EXCEPT ![vm] = z] /\ popped' = [popped EXCEPT ![vm] = a]
               /\ x \in Uart /\ y \in {"run", "post", "draining", "drained"} /\ z \in BOOLEAN /\ a \in Seq(Int)
               /\ mis(x) => z \/ y \in {"draining", "post"} \/ rxIrq = [pc |-> "post", vm |-> vm]
               /\ a \o Received(x) = popped[vm] \o Received(u)
  <2>0. /\ g_uart = [g_uart EXCEPT ![vm] = u] /\ guestUart = [guestUart EXCEPT ![vm] = guestUart[vm]]
        /\ uartSpi = [uartSpi EXCEPT ![vm] = uartSpi[vm]] /\ popped = [popped EXCEPT ![vm] = popped[vm]]
        /\ uartSpi[vm] \in BOOLEAN /\ popped[vm] \in Seq(Int)
    BY DEF ConTypeOK
  <2>a. UNCHANGED <<wire, rxIrq, g_focus, keys, g_line, printed, shown, pushed>>
    BY DEF WriteImsc, PostUnmasked, TakeSpi, ReadDr, SeesEmpty, EndsIsr, RxVars, TxVars
  <2>1. CASE WriteImsc(vm)
    <3> DEFINE x == [u EXCEPT !.imsc = ~@]
               y == IF Rises(u, x) THEN "post" ELSE "run"
    <3>1. x = [fifo |-> u.fifo, head |-> u.head, count |-> u.count, imsc |-> ~u.imsc]
      BY <1>0 DEF Uart
    <3>2. x \in Uart /\ Received(x) = Received(u)
      BY <1>0, <3>1 DEF Uart, Received
    <3>3. g_uart' = [g_uart EXCEPT ![vm] = x] /\ guestUart' = [guestUart EXCEPT ![vm] = y]
          /\ guestUart[vm] = "run" /\ UNCHANGED <<uartSpi, popped>>
      BY <2>1 DEF WriteImsc
    <3> HIDE DEF x, u
    <3>4. mis(x) => uartSpi[vm] \/ y \in {"draining", "post"} \/ rxIrq = [pc |-> "post", vm |-> vm]
      BY <1>0, <3>3 DEF VmServed, Announced, Rises, u
    <3>5. Same(x, y, uartSpi[vm], popped[vm])
      BY <2>0, <3>2, <3>3, <3>4
    <3> QED
      BY <2>a, <3>5
  <2>2. CASE PostUnmasked(vm)
    <3>1. Same(u, "run", TRUE, popped[vm])
      BY <1>0, <2>0, <2>2 DEF PostUnmasked
    <3> QED
      BY <2>a, <3>1
  <2>3. CASE TakeSpi(vm)
    <3>1. Same(u, "draining", FALSE, popped[vm])
      BY <1>0, <2>0, <2>3 DEF TakeSpi
    <3> QED
      BY <2>a, <3>1
  <2>4. CASE ReadDr(vm)
    <3> DEFINE x == rx_pop(u)
               a == Append(popped[vm], OldestByte(u))
    <3>1. ~rx_empty(u) /\ g_uart' = [g_uart EXCEPT ![vm] = x] /\ popped' = [popped EXCEPT ![vm] = a]
          /\ guestUart[vm] = "draining" /\ UNCHANGED <<guestUart, uartSpi>>
      BY <2>4 DEF ReadDr, ConTypeOK
    <3>2. x \in Uart /\ OldestByte(u) \in Int /\ Received(u) = <<OldestByte(u)>> \o Received(x)
      BY <1>0, <3>1, PopTakesFirst
    <3>3. Received(x) \in Seq(Int)
      BY <3>2, ReceivedSeq
    <3> DEFINE l == <<OldestByte(u)>>
    <3>4. l \in Seq(Int) /\ Received(u) = l \o Received(x)
      BY <3>2
    <3>5. a = popped[vm] \o l /\ a \in Seq(Int)
      BY <2>0, <3>2, AppendIsConcat, AppendProperties
    <3> HIDE DEF x, u, l, a, Same, ConInv
    <3>6. (popped[vm] \o l) \o Received(x) = popped[vm] \o (l \o Received(x))
      BY <2>0, <3>3, <3>4, Grouped
    <3>7. Same(x, "draining", uartSpi[vm], a)
      BY <2>0, <3>1, <3>2, <3>4, <3>5, <3>6 DEF Same
    <3> QED
      BY <2>a, <3>7 DEF Same
  <2>5. CASE SeesEmpty(vm)
    <3>1. ~mis(u) /\ guestUart' = [guestUart EXCEPT ![vm] = "drained"] /\ UNCHANGED <<g_uart, uartSpi, popped>>
      BY <2>5 DEF SeesEmpty, mis
    <3>2. Same(u, "drained", uartSpi[vm], popped[vm])
      BY <1>0, <2>0, <3>1
    <3> QED
      BY <2>a, <3>2
  <2>6. CASE EndsIsr(vm)
    <3>1. guestUart[vm] = "drained" /\ guestUart' = [guestUart EXCEPT ![vm] = "run"] /\ UNCHANGED <<g_uart, uartSpi, popped>>
      BY <2>6 DEF EndsIsr
    <3>2. mis(u) => uartSpi[vm] \/ rxIrq = [pc |-> "post", vm |-> vm]
      BY <1>0, <3>1 DEF VmServed, Announced
    <3>3. Same(u, "run", uartSpi[vm], popped[vm])
      BY <1>0, <2>0, <3>1, <3>2
    <3> QED
      BY <2>a, <3>3
  <2> QED
    BY <2>1, <2>2, <2>3, <2>4, <2>5, <2>6
<1> HIDE DEF u
<1>2. PICK x, y, z, a :
           /\ g_uart' = [g_uart EXCEPT ![vm] = x] /\ guestUart' = [guestUart EXCEPT ![vm] = y]
           /\ uartSpi' = [uartSpi EXCEPT ![vm] = z] /\ popped' = [popped EXCEPT ![vm] = a]
           /\ x \in Uart /\ y \in {"run", "post", "draining", "drained"} /\ z \in BOOLEAN /\ a \in Seq(Int)
           /\ mis(x) => z \/ y \in {"draining", "post"} \/ rxIrq = [pc |-> "post", vm |-> vm]
           /\ a \o Received(x) = popped[vm] \o Received(u)
  BY <1>1
<1>3. ConTypeOK' /\ RoutedWaits'
  BY <1>1, <1>2 DEF ConTypeOK, RoutedWaits
<1>4. ASSUME NEW v \in ConVms PROVE VmServed(v)'
  <2>1. VmServed(v)
    BY DEF ConsoleLossless, VmServed
  <2>2. CASE v # vm
    <3>1. g_uart'[v] = g_uart[v] /\ uartSpi'[v] = uartSpi[v] /\ guestUart'[v] = guestUart[v] /\ popped'[v] = popped[v]
      BY <1>2, <2>2 DEF ConTypeOK
    <3> QED
      BY <1>1, <2>1, <3>1, OthersServed
  <2>3. CASE v = vm
    <3>1. g_uart'[vm] = x /\ uartSpi'[vm] = z /\ guestUart'[vm] = y /\ popped'[vm] = a
      BY <1>2 DEF ConTypeOK
    <3>2. Announced(vm)'
      BY <1>1, <1>2, <3>1 DEF Announced
    <3>3. InOrder(vm)'
      BY <1>0, <1>1, <1>2, <3>1 DEF InOrder, VmServed, u
    <3>4. LinesWhole(vm)'
      BY <1>0, <1>1 DEF LinesWhole, VmServed
    <3> QED
      BY <2>3, <3>2, <3>3, <3>4 DEF VmServed
  <2> QED
    BY <2>2, <2>3
<1> QED
  BY <1>3, <1>4 DEF ConsoleLossless, VmServed

\* A step that moves the line of `vm` and at most its power state.
LEMMA LineMoves ==
  ASSUME ConInv, NEW vm \in ConVms, NEW l \in Seq(Int), NEW p \in Seq(Int), NEW s \in Seq(Int),
         NEW y \in {"run", "off"},
         guestUart[vm] = "run", s \o l = p, Len(l) < LineMax,
         guestUart' = [guestUart EXCEPT ![vm] = y],
         g_line' = [g_line EXCEPT ![vm] = l], printed' = [printed EXCEPT ![vm] = p],
         shown' = [shown EXCEPT ![vm] = s],
         UNCHANGED <<wire, rxIrq, g_focus, keys, g_uart, uartSpi, pushed, popped>>
  PROVE  ConInv'
<1> USE DEF ConInv
<1>1. ConTypeOK' /\ RoutedWaits'
  BY DEF ConTypeOK, RoutedWaits
<1>2. ASSUME NEW v \in ConVms PROVE VmServed(v)'
  <2>1. VmServed(v)
    BY DEF ConsoleLossless, VmServed
  <2>2. CASE v # vm
    <3>1. g_line'[v] = g_line[v] /\ printed'[v] = printed[v] /\ shown'[v] = shown[v] /\ guestUart'[v] = guestUart[v]
      BY <2>2 DEF ConTypeOK
    <3> QED
      BY <2>1, <3>1, OthersServed
  <2>3. CASE v = vm
    <3>1. g_line'[vm] = l /\ printed'[vm] = p /\ shown'[vm] = s /\ guestUart'[vm] = y
      BY DEF ConTypeOK
    <3>2. LinesWhole(vm)'
      BY <3>1 DEF LinesWhole
    <3>3. (guestUart[vm] \notin {"off", "resetting"} => Announced(vm))' /\ InOrder(vm)'
      BY <2>1, <2>3, <3>1 DEF VmServed, Announced, InOrder
    <3> QED
      BY <2>3, <3>2, <3>3 DEF VmServed
  <2> QED
    BY <2>2, <2>3
<1> QED
  BY <1>1, <1>2 DEF ConsoleLossless, VmServed

\* Emitting a line moves it from the buffer to what was shown.
LEMMA EmitMoves ==
  ASSUME NEW s \in Seq(Int), NEW l \in Seq(Int)
  PROVE  (s \o l) \in Seq(Int) /\ (s \o l) \o <<>> = s \o l
<1>1. s \o l \in Seq(Int)
  BY ConcatProperties
<1> QED
  BY <1>1, ConcatEmptySeq

\* A character of text goes into the buffer, which is emitted when it is full.
LEMMA PutText ==
  ASSUME NEW l \in Seq(Int), Len(l) < LineMax, NEW c \in Nat \ {0}
  PROVE  put_char(l, c).line = Append(l, c) /\ (put_char(l, c).emit <=> Len(Append(l, c)) = LineMax)
<1> DEFINE a == Append(l, c)
           e == Len(a) = LineMax
<1>1. put_char(l, c) = [line |-> a, emit |-> e]
  BY DEF put_char, CR, LF
<1>2. e \in BOOLEAN
  OBVIOUS
<1> HIDE DEF a, e
<1>3. put_char(l, c).line = a /\ (put_char(l, c).emit <=> e)
  BY <1>1, <1>2
<1> QED
  BY <1>3 DEF a, e

\* The guest's output: each character is shown, waits in the buffer, or ends a
\* line; a flush shows what waits.
LEMMA OutputKeeps ==
  ASSUME ConInv, NEW vm \in ConVms, Putc(vm) \/ Wfi(vm) \/ \E exits \in BOOLEAN : Stop(vm, exits)
  PROVE  ConInv'
<1> USE DEF ConInv
<1> DEFINE l == g_line[vm]
           p == printed[vm]
           s == shown[vm]
<1>1. /\ l \in Seq(Int) /\ p \in Seq(Int) /\ s \in Seq(Int) /\ s \o l = p /\ Len(l) < LineMax
      /\ g_line = [g_line EXCEPT ![vm] = l] /\ printed = [printed EXCEPT ![vm] = p] /\ shown = [shown EXCEPT ![vm] = s]
      /\ guestUart = [guestUart EXCEPT ![vm] = guestUart[vm]]
  BY DEF ConTypeOK, ConsoleLossless, LinesWhole
<1>2. <<>> \in Seq(Int) /\ Len(<<>>) < LineMax /\ (s \o l) \in Seq(Int) /\ (s \o l) \o <<>> = p
  BY <1>1, ConFacts, EmitMoves
<1>3. ASSUME flush(vm) \/ UNCHANGED <<g_line, shown>>, NEW y \in {"run", "off"}, guestUart[vm] = "run",
             guestUart' = [guestUart EXCEPT ![vm] = y],
             UNCHANGED <<wire, rxIrq, g_focus, keys, g_uart, uartSpi, pushed, popped, printed>>
      PROVE  ConInv'
  <2>1. CASE UNCHANGED <<g_line, shown>>
    BY <1>1, <1>3, <2>1, LineMoves
  <2>2. CASE g_line' = [g_line EXCEPT ![vm] = <<>>] /\ shown' = [shown EXCEPT ![vm] = s \o l]
    <3> HIDE DEF ConInv
    <3> QED
      BY <1>1, <1>2, <1>3, <2>2, LineMoves DEF ConInv
  <2> QED
    BY <1>3, <2>1, <2>2 DEF flush, Emitted
<1>4. CASE Wfi(vm)
  <2>1. guestUart' = [guestUart EXCEPT ![vm] = "run"] /\ guestUart[vm] = "run"
    BY <1>1, <1>4 DEF Wfi
  <2>2. UNCHANGED <<wire, rxIrq, g_focus, keys, g_uart, uartSpi, pushed, popped, printed>> /\ flush(vm)
    BY <1>4 DEF Wfi, RxVars
  <2> QED
    BY <1>3, <2>1, <2>2
<1>5. CASE \E exits \in BOOLEAN : Stop(vm, exits)
  <2>1. /\ UNCHANGED <<wire, rxIrq, g_focus, keys, g_uart, uartSpi, pushed, popped, printed>>
        /\ flush(vm) \/ UNCHANGED <<g_line, shown>>
        /\ guestUart' = [guestUart EXCEPT ![vm] = "off"] /\ guestUart[vm] = "run"
    BY <1>5 DEF Stop, RxVars
  <2> QED
    BY <1>3, <2>1
<1>6. CASE Putc(vm)
  <2> DEFINE c == Len(p) + 1
  <2> DEFINE Prints(text, ch) ==
               LET next == put_char(l, ch) IN
               /\ printed' = IF text THEN [printed EXCEPT ![vm] = Append(@, c)] ELSE printed
               /\ IF next.emit THEN Emitted(vm, next.line)
                  ELSE g_line' = [g_line EXCEPT ![vm] = next.line] /\ UNCHANGED shown
  <2>0. PICK text \in BOOLEAN : \E ch \in IF text THEN {c} ELSE {CR, LF} : Prints(text, ch)
    BY <1>6 DEF Putc
  <2>1. PICK ch \in IF text THEN {c} ELSE {CR, LF} : Prints(text, ch)
    BY <2>0
  <2>2. /\ UNCHANGED <<wire, rxIrq, g_focus, keys, g_uart, uartSpi, guestUart, pushed, popped>>
        /\ guestUart[vm] = "run" /\ guestUart' = [guestUart EXCEPT ![vm] = "run"]
    BY <1>1, <1>6 DEF Putc, RxVars
  <2>3. c \in Nat \ {0}
    BY <1>1, LenProperties
  <2> DEFINE e == put_char(l, ch).emit
             n == put_char(l, ch).line
             a == Append(l, c)
             q == Append(p, c)
  <2>4. /\ printed' = IF text THEN [printed EXCEPT ![vm] = q] ELSE printed
        /\ e => g_line' = [g_line EXCEPT ![vm] = <<>>] /\ shown' = [shown EXCEPT ![vm] = s \o n]
        /\ ~e => g_line' = [g_line EXCEPT ![vm] = n] /\ shown' = shown
    BY <2>1 DEF Emitted
  <2>5. /\ text => ch = c /\ n = a /\ (e <=> Len(a) = LineMax)
        /\ ~text => n = l
    <3>1. text => ch = c
      BY <2>1
    <3>2. put_char(l, c).line = a /\ (put_char(l, c).emit <=> Len(a) = LineMax)
      BY <1>1, <2>3, PutText
    <3>3. ~text => ch \in {CR, LF}
      BY <2>1
    <3>4. ~text => n = l
      BY <3>3 DEF put_char, CR, LF
    <3> HIDE DEF a, l, c, q, p, s, Prints, ConInv
    <3> QED
      BY <3>1, <3>2, <3>4
  <2> HIDE DEF e, n, ConInv, Prints, l, p, s, c
  <2>6. a \in Seq(Int) /\ Len(a) = Len(l) + 1 /\ Len(l) \in Nat /\ q \in Seq(Int)
    BY <1>1, <2>3, AppendProperties, LenProperties
  <2>7. s \o a = q
    <3> HIDE DEF a, q
    <3>1. s \in Seq(Int) /\ l \in Seq(Int) /\ c \in Int /\ s \o l = p
      BY <1>1, <2>3
    <3>2. Append(s \o l, c) = s \o Append(l, c)
      BY <3>1, AppendBehind, Zenon
    <3> QED
      BY <3>1, <3>2 DEF a, q
  <2> HIDE DEF a, q
  <2>8. CASE text /\ e
    <3>1. s \o a \in Seq(Int) /\ (s \o a) \o <<>> = q
      BY <1>1, <2>6, <2>7, EmitMoves
    <3>2. /\ printed' = [printed EXCEPT ![vm] = q] /\ g_line' = [g_line EXCEPT ![vm] = <<>>]
          /\ shown' = [shown EXCEPT ![vm] = s \o a]
      BY <2>4, <2>5, <2>8
    <3> QED
      BY <1>1, <1>2, <2>2, <2>6, <3>1, <3>2, LineMoves
  <2>9. CASE text /\ ~e
    <3>1. /\ printed' = [printed EXCEPT ![vm] = q] /\ g_line' = [g_line EXCEPT ![vm] = a]
          /\ shown' = [shown EXCEPT ![vm] = s]
      BY <1>1, <2>4, <2>5, <2>9
    <3>2. Len(a) # LineMax
      BY <2>5, <2>9
    <3>3. Len(a) < LineMax
      BY <1>1, <2>6, <3>2, ConFacts
    <3> QED
      BY <1>1, <2>2, <2>6, <2>7, <3>1, <3>3, LineMoves
  <2>10. CASE ~text /\ e
    <3>1. /\ printed' = [printed EXCEPT ![vm] = p] /\ g_line' = [g_line EXCEPT ![vm] = <<>>]
          /\ shown' = [shown EXCEPT ![vm] = s \o l]
      BY <1>1, <2>4, <2>5, <2>10
    <3> QED
      BY <1>1, <1>2, <2>2, <3>1, LineMoves
  <2>11. CASE ~text /\ ~e
    <3>1. /\ printed' = [printed EXCEPT ![vm] = p] /\ g_line' = [g_line EXCEPT ![vm] = l]
          /\ shown' = [shown EXCEPT ![vm] = s]
      BY <1>1, <2>4, <2>5, <2>11
    <3> QED
      BY <1>1, <2>2, <3>1, LineMoves
  <2> QED
    BY <2>8, <2>9, <2>10, <2>11
<1> QED
  BY <1>4, <1>5, <1>6

\* A reset drops the partial line and counts what the FIFO held as taken.
LEMMA ResetKeeps ==
  ASSUME ConInv, NEW vm \in ConVms, Reset(vm) \/ ResetDone(vm)
  PROVE  ConInv'
<1> USE DEF ConInv
<1>0. VmServed(vm)
  BY DEF ConsoleLossless, VmServed
<1>1. CASE Reset(vm)
  <2>1. /\ uartSpi' = [uartSpi EXCEPT ![vm] = FALSE] /\ g_line' = [g_line EXCEPT ![vm] = <<>>]
        /\ shown' = [shown EXCEPT ![vm] = @ \o g_line[vm]] /\ guestUart' = [guestUart EXCEPT ![vm] = "resetting"]
        /\ UNCHANGED <<wire, rxIrq, g_focus, keys, g_uart, pushed, popped, printed>>
    BY <1>1 DEF Reset, RxVars
  <2>2. /\ shown[vm] \o g_line[vm] \in Seq(Int) /\ (shown[vm] \o g_line[vm]) \o <<>> = printed[vm]
        /\ <<>> \in Seq(Int) /\ Len(<<>>) < LineMax
    <3>1. shown[vm] \in Seq(Int) /\ g_line[vm] \in Seq(Int)
      BY DEF ConTypeOK
    <3>2. shown[vm] \o g_line[vm] = printed[vm]
      BY <1>0 DEF VmServed, LinesWhole
    <3> HIDE DEF ConInv
    <3>3. shown[vm] \o g_line[vm] \in Seq(Int) /\ (shown[vm] \o g_line[vm]) \o <<>> = shown[vm] \o g_line[vm]
      BY <3>1, EmitMoves
    <3>4. <<>> \in Seq(Int) /\ Len(<<>>) < LineMax
      BY ConFacts
    <3> QED
      BY <3>2, <3>3, <3>4
  <2>3. ConTypeOK' /\ RoutedWaits'
    BY <2>1, <2>2 DEF ConTypeOK, RoutedWaits
  <2>4. ASSUME NEW v \in ConVms PROVE VmServed(v)'
    <3>1. VmServed(v)
      BY DEF ConsoleLossless, VmServed
    <3>2. CASE v # vm
      <4>1. uartSpi'[v] = uartSpi[v] /\ g_line'[v] = g_line[v] /\ shown'[v] = shown[v] /\ guestUart'[v] = guestUart[v]
        BY <2>1, <3>2 DEF ConTypeOK
      <4> QED
        BY <2>1, <3>1, <4>1, OthersServed
    <3>3. CASE v = vm
      <4>1. g_line'[vm] = <<>> /\ shown'[vm] = shown[vm] \o g_line[vm] /\ guestUart'[vm] = "resetting"
        BY <2>1 DEF ConTypeOK
      <4> QED
        BY <1>0, <2>1, <2>2, <3>3, <4>1 DEF VmServed, InOrder, LinesWhole
    <3> QED
      BY <3>2, <3>3
  <2> QED
    BY <2>3, <2>4 DEF ConsoleLossless, VmServed
<1>2. CASE ResetDone(vm)
  <2> DEFINE t == Received(g_uart[vm])
  <2>1. /\ popped' = [popped EXCEPT ![vm] = @ \o t] /\ g_uart' = [g_uart EXCEPT ![vm] = ResetUart]
        /\ guestUart' = [guestUart EXCEPT ![vm] = "run"]
        /\ UNCHANGED <<wire, rxIrq, g_focus, keys, uartSpi, pushed, g_line, printed, shown>>
    BY <1>2 DEF ResetDone, RxVars, TxVars
  <2>2. t \in Seq(Int)
    <3>1. g_uart[vm] \in Uart
      BY DEF ConTypeOK
    <3> QED
      BY <3>1, ReceivedSeq
  <2>3. ResetUart \in Uart /\ Received(ResetUart) = <<>> /\ ~mis(ResetUart)
    BY ConFacts DEF Uart, ResetUart, Received, mis
  <2> HIDE DEF t
  <2>4. popped[vm] \o t \in Seq(Int) /\ (popped[vm] \o t) \o <<>> = popped[vm] \o t
    <3>1. popped[vm] \in Seq(Int)
      BY DEF ConTypeOK
    <3> QED
      BY <2>2, <3>1, EmitMoves
  <2>5. ConTypeOK' /\ RoutedWaits'
    BY <2>1, <2>3, <2>4 DEF ConTypeOK, RoutedWaits
  <2>6. ASSUME NEW v \in ConVms PROVE VmServed(v)'
    <3>1. VmServed(v)
      BY DEF ConsoleLossless, VmServed
    <3>2. CASE v # vm
      <4>1. g_uart'[v] = g_uart[v] /\ popped'[v] = popped[v] /\ guestUart'[v] = guestUart[v]
        BY <2>1, <3>2 DEF ConTypeOK
      <4> QED
        BY <2>1, <3>1, <4>1, OthersServed
    <3>3. CASE v = vm
      <4>1. g_uart'[vm] = ResetUart /\ popped'[vm] = popped[vm] \o t
        BY <2>1 DEF ConTypeOK
      <4>2. pushed[vm] = popped[vm] \o t
        BY <1>0 DEF VmServed, InOrder, t
      <4> QED
        BY <1>0, <2>1, <2>3, <2>4, <3>3, <4>1, <4>2 DEF VmServed, Announced, InOrder, LinesWhole
    <3> QED
      BY <3>2, <3>3
  <2> QED
    BY <2>5, <2>6 DEF ConsoleLossless, VmServed
<1> QED
  BY <1>1, <1>2

\* Every step of the console keeps its invariant.
LEMMA ConStepKeeps == ConInv /\ [ConNext]_conVars => ConInv'
<1> SUFFICES ASSUME ConInv, [ConNext]_conVars PROVE ConInv'
  OBVIOUS
<1>1. CASE Type \/ RxIrq \/ Route \/ RxIrqEnds
  BY <1>1, ReceiverKeeps
<1>2. CASE Inject
  BY <1>2, InjectKeeps
<1>3. CASE PostInjected
  BY <1>3, PostKeeps
<1>4. ASSUME NEW vm \in ConVms,
             WriteImsc(vm) \/ PostUnmasked(vm) \/ TakeSpi(vm) \/ ReadDr(vm) \/ SeesEmpty(vm) \/ EndsIsr(vm)
      PROVE  ConInv'
  BY <1>4, UartStepKeeps
<1>5. ASSUME NEW vm \in ConVms, Putc(vm) \/ Wfi(vm) \/ \E exits \in BOOLEAN : Stop(vm, exits)
      PROVE  ConInv'
  BY <1>5, OutputKeeps
<1>6. ASSUME NEW vm \in ConVms, Reset(vm) \/ ResetDone(vm)
      PROVE  ConInv'
  BY <1>6, ResetKeeps
<1>7. CASE UNCHANGED conVars
  BY <1>7 DEF conVars, ConInv, ConTypeOK, RoutedWaits, ConsoleLossless, Announced, InOrder, LinesWhole, mis, rx_empty, Received
<1> QED
  BY <1>1, <1>2, <1>3, <1>4, <1>5, <1>6, <1>7 DEF ConNext

\* Whatever the number of VMs, the depth of the FIFO and the length of a line:
\* vuart's inject, post_rx and the register writes, interleaved in any order
\* with the guest's driver, leave no receive level without its interrupt, no
\* byte out of order and no printed character unaccounted for.
THEOREM NothingLost == ConSpec => []ConsoleLossless
<1>1. ConInit => ConInv
  BY ConInitInv
<1>2. ConInv /\ [ConNext]_conVars => ConInv'
  BY ConStepKeeps
<1>3. ConInv => ConsoleLossless
  BY DEF ConInv
<1> QED
  BY <1>1, <1>2, <1>3, PTL DEF ConSpec

-----------------------------------------------------------------------------
(* The trace ring: the account of its reader.  Counting first.             *)

\* What holds of 0 and is passed on holds of every natural number.
LEMMA SetInduction ==
  ASSUME NEW S \in SUBSET Nat, 0 \in S, \A n \in S : n + 1 \in S
  PROVE  S = Nat
<1> SUFFICES ASSUME S # Nat PROVE FALSE
  OBVIOUS
<1> DEFINE T == Nat \ S
<1>1. T \in SUBSET Nat /\ T # {}
  OBVIOUS
<1>2. PICK x \in T : \A y \in T : x <= y
  <2> HIDE DEF T
  <2> QED
    BY <1>1, LeastNatural
<1>3. x \in Nat /\ x # 0 /\ x \notin S
  BY <1>2
<1>4. x - 1 \in Nat /\ ~(x <= x - 1)
  BY <1>3
<1>5. x - 1 \in S
  BY <1>2, <1>4
<1>6. (x - 1) + 1 \in S
  BY <1>5
<1> QED
  BY <1>3, <1>6

\* What the reader hands out.
Entry == [gap : Nat \ {0}] \cup [half1 : Int, half2 : Int]

LEMMA EntryFields ==
  /\ \A e \in [gap : Nat \ {0}] : "gap" \in DOMAIN e /\ "half1" \notin DOMAIN e /\ Weight(e) = e.gap
  /\ \A e \in [half1 : Int, half2 : Int] : "gap" \notin DOMAIN e /\ "half1" \in DOMAIN e /\ Weight(e) = 1
<1>1. /\ \A e \in [gap : Nat \ {0}] : "gap" \in DOMAIN e /\ "half1" \notin DOMAIN e
      /\ \A e \in [half1 : Int, half2 : Int] : "gap" \notin DOMAIN e /\ "half1" \in DOMAIN e
  OBVIOUS
<1> QED
  BY <1>1 DEF Weight

\* A count of what each prefix of a sequence accounts for.
Tally(s, g) ==
  /\ g \in [0..Len(s) -> Nat] /\ g[0] = 0
  /\ \A n \in 1..Len(s) : g[n] = g[n - 1] + Weight(s[n])

\* Such a count is the only one, and what Counted finds.
LEMMA CountedIs ==
  ASSUME NEW s \in Seq(Entry), NEW g, Tally(s, g)
  PROVE  Counted(s) = g[Len(s)]
<1> DEFINE N == Len(s)
           F(f) == [n \in 0..N |-> IF n = 0 THEN 0 ELSE f[n - 1] + Weight(s[n])]
           up == CHOOSE f : f = F(f)
<1>0. N \in Nat
  BY LenProperties
<1>1. g = F(g)
  <2>1. g \in [0..N -> Nat]
    BY DEF Tally
  <2>2. \A n \in 0..N : g[n] = F(g)[n]
    BY <1>0 DEF Tally
  <2> QED
    BY <2>1, <2>2
<1>2. up = F(up)
  <2> HIDE DEF F
  <2> QED
    BY <1>1
<1>3. Counted(s) = up[N]
  BY DEF Counted
<1> HIDE DEF up
<1>4. \A n \in 0..N : up[n] = IF n = 0 THEN 0 ELSE up[n - 1] + Weight(s[n])
  <2>1. \A n \in 0..N : F(up)[n] = IF n = 0 THEN 0 ELSE up[n - 1] + Weight(s[n])
    OBVIOUS
  <2> HIDE DEF F
  <2> QED
    BY <1>2, <2>1
<1> DEFINE S == {n \in Nat : n <= N => up[n] = g[n]}
<1>5. S = Nat
  <2>1. 0 \in S
    BY <1>0, <1>4 DEF Tally
  <2>2. ASSUME NEW n \in S PROVE n + 1 \in S
    <3>1. n \in Nat /\ (n <= N => up[n] = g[n]) /\ n + 1 \in Nat
      OBVIOUS
    <3>2. CASE n + 1 <= N
      <4>1. n + 1 \in 0..N /\ n + 1 \in 1..N /\ n + 1 # 0 /\ (n + 1) - 1 = n /\ n <= N
        BY <1>0, <3>1, <3>2
      <4>2. up[n + 1] = up[n] + Weight(s[n + 1])
        BY <1>4, <4>1
      <4>3. g[n + 1] = g[n] + Weight(s[n + 1])
        BY <4>1 DEF Tally
      <4> QED
        BY <3>1, <4>1, <4>2, <4>3
    <3> QED
      BY <3>1, <3>2
  <2>3. S \in SUBSET Nat
    OBVIOUS
  <2> HIDE DEF S
  <2> QED
    BY <2>1, <2>2, <2>3, SetInduction
<1>6. N \in S
  BY <1>0, <1>5
<1> QED
  BY <1>0, <1>3, <1>6

\* The count of one sequence behind another.
LEMMA TallyBehind ==
  ASSUME NEW s \in Seq(Entry), NEW t \in Seq(Entry), NEW g, NEW h, Tally(s, g), Tally(t, h)
  PROVE  /\ s \o t \in Seq(Entry) /\ Len(s \o t) = Len(s) + Len(t)
         /\ \E k : /\ Tally(s \o t, k)
                   /\ \A i \in 0..Len(s) : k[i] = g[i]
                   /\ \A i \in 0..Len(t) : k[Len(s) + i] = g[Len(s)] + h[i]
<1> DEFINE M == Len(s)
           N == Len(t)
           c == s \o t
           k == [n \in 0..(M + N) |-> IF n <= M THEN g[n] ELSE g[M] + h[n - M]]
<1>1. M \in Nat /\ N \in Nat
  BY LenProperties
<1>2. c \in Seq(Entry) /\ Len(c) = M + N /\ \A i \in 1..(M + N) : c[i] = IF i <= M THEN s[i] ELSE t[i - M]
  BY ConcatProperties
<1>3. /\ g \in [0..M -> Nat] /\ g[0] = 0 /\ \A n \in 1..M : g[n] = g[n - 1] + Weight(s[n])
      /\ h \in [0..N -> Nat] /\ h[0] = 0 /\ \A n \in 1..N : h[n] = h[n - 1] + Weight(t[n])
  BY DEF Tally
<1> HIDE DEF M, N, c
<1>4. \A n \in 0..(M + N) : k[n] \in Nat
  <2> TAKE n \in 0..(M + N)
  <2>1. CASE n <= M
    BY <1>1, <1>3, <2>1
  <2>2. CASE ~(n <= M)
    <3>1. n - M \in 0..N /\ M \in 0..M
      BY <1>1, <2>2
    <3> QED
      BY <1>1, <1>3, <2>2, <3>1
  <2> QED
    BY <2>1, <2>2
<1>5. \A i \in 0..M : k[i] = g[i]
  BY <1>1
<1>6. \A i \in 0..N : k[M + i] = g[M] + h[i]
  <2> TAKE i \in 0..N
  <2>1. M + i \in 0..(M + N) /\ g[M] \in Nat /\ (M + i) - M = i /\ (M + i <= M <=> i = 0) /\ M + 0 = M
    BY <1>1, <1>3
  <2>2. CASE i = 0
    BY <1>3, <2>1, <2>2
  <2>3. CASE i # 0
    BY <2>1, <2>3
  <2> QED
    BY <2>2, <2>3
<1>7. ASSUME NEW n \in 1..(M + N) PROVE k[n] = k[n - 1] + Weight(c[n])
  <2>1. CASE n <= M
    <3>1. n \in 0..M /\ n - 1 \in 0..M /\ n \in 1..M
      BY <1>1, <2>1
    <3>2. k[n] = g[n] /\ k[n - 1] = g[n - 1]
      BY <1>5, <3>1
    <3> QED
      BY <1>2, <1>3, <2>1, <3>1, <3>2
  <2>2. CASE ~(n <= M)
    <3> DEFINE i == n - M
    <3>1. i \in 0..N /\ i - 1 \in 0..N /\ i \in 1..N /\ n = M + i /\ n - 1 = M + (i - 1)
      BY <1>1, <2>2
    <3>2. k[n] = g[M] + h[i] /\ k[n - 1] = g[M] + h[i - 1]
      <4> HIDE DEF i, k
      <4> QED
        BY <1>6, <3>1
    <3>3. c[n] = t[i] /\ h[i] = h[i - 1] + Weight(t[i])
      BY <1>2, <1>3, <2>2, <3>1
    <3>4. g[M] \in Nat /\ h[i] \in Nat /\ h[i - 1] \in Nat
      BY <1>1, <1>3, <3>1
    <3>5. t[i] \in Entry
      BY <3>1, ElementOfSeq DEF N
    <3>6. Weight(t[i]) \in Int
      BY <3>5, EntryFields DEF Entry
    <3> HIDE DEF i, k
    <3> QED
      BY <3>2, <3>3, <3>4, <3>6
  <2> QED
    BY <2>1, <2>2
<1>8. k \in [0..(M + N) -> Nat] /\ k[0] = 0
  <2>1. k \in [0..(M + N) -> Nat]
    BY <1>4
  <2>2. k[0] = g[0]
    BY <1>1, <1>5
  <2> QED
    BY <1>3, <2>1, <2>2
<1> HIDE DEF k
<1>9. Tally(c, k)
  BY <1>2, <1>7, <1>8 DEF Tally
<1> QED
  BY <1>2, <1>5, <1>6, <1>9 DEF M, N, c

\* The count of a prefix.
LEMMA PrefixCounted ==
  ASSUME NEW s \in Seq(Entry), NEW g, Tally(s, g), NEW i \in 1..Len(s)
  PROVE  Counted(SubSeq(s, 1, i)) = g[i]
<1> DEFINE p == SubSeq(s, 1, i)
           f == [n \in 0..i |-> g[n]]
<1>1. Len(s) \in Nat /\ i \in Nat
  BY LenProperties
<1>2. p \in Seq(Entry) /\ Len(p) = i /\ \A j \in 1..i : p[j] = s[j]
  <2>1. 1 \in Nat /\ 1 <= i + 1 /\ i <= Len(s) /\ \A j \in 1..i : j \in 1..Len(s) /\ s[j] \in Entry
    BY <1>1, ElementOfSeq
  <2> QED
    BY <1>1, <2>1
<1>3. g \in [0..Len(s) -> Nat] /\ g[0] = 0 /\ \A n \in 1..Len(s) : g[n] = g[n - 1] + Weight(s[n])
  BY DEF Tally
<1> HIDE DEF p
<1>4. Tally(p, f)
  <2>1. f \in [0..i -> Nat] /\ f[0] = 0
    BY <1>1, <1>3
  <2>2. ASSUME NEW n \in 1..i PROVE f[n] = f[n - 1] + Weight(p[n])
    <3>1. n \in 1..Len(s) /\ n \in 0..i /\ n - 1 \in 0..i
      BY <1>1
    <3> QED
      BY <1>2, <1>3, <3>1
  <2> QED
    BY <1>2, <2>1, <2>2 DEF Tally
<1>5. Counted(p) = f[i]
  <2> HIDE DEF f
  <2> QED
    BY <1>2, <1>4, CountedIs
<1> QED
  BY <1>1, <1>5 DEF p

\* What was handed out accounts for `total`, and each event among it is whole
\* and stands where the account puts it, `e` before the first.
TellsOf(s, g, e) ==
  \A i \in DOMAIN s : "half1" \in DOMAIN s[i] => s[i].half1 = s[i].half2 /\ e + s[i].half1 = g[i]
Ledger(s, total, e) ==
  s \in Seq(Entry) /\ \E g : Tally(s, g) /\ g[Len(s)] = total /\ TellsOf(s, g, e)

LEMMA LedgerMeans ==
  ASSUME NEW s, NEW total, NEW e \in Int, Ledger(s, total, e)
  PROVE  /\ s \in Seq(Entry) /\ Counted(s) = total
         /\ \A i \in DOMAIN s : "half1" \in DOMAIN s[i] =>
              s[i].half1 = s[i].half2 /\ e + s[i].half1 = Counted(SubSeq(s, 1, i))
<1>1. s \in Seq(Entry)
  BY DEF Ledger
<1>2. PICK g : Tally(s, g) /\ g[Len(s)] = total /\ TellsOf(s, g, e)
  BY DEF Ledger
<1>3. Counted(s) = total
  BY <1>1, <1>2, CountedIs
<1>4. ASSUME NEW i \in DOMAIN s PROVE Counted(SubSeq(s, 1, i)) = g[i]
  <2>1. i \in 1..Len(s)
    BY <1>1, LenProperties
  <2> QED
    BY <1>1, <1>2, <2>1, PrefixCounted
<1> QED
  BY <1>1, <1>2, <1>3, <1>4 DEF TellsOf

\* An account goes on with a sequence whose events stand where it puts them.
LEMMA LedgerGoesOn ==
  ASSUME NEW s, NEW total \in Nat, NEW e \in Int, Ledger(s, total, e),
         NEW t \in Seq(Entry), NEW h, Tally(t, h),
         \A i \in DOMAIN t : "half1" \in DOMAIN t[i] => t[i].half1 = t[i].half2 /\ e + t[i].half1 = total + h[i]
  PROVE  Ledger(s \o t, total + h[Len(t)], e)
<1> DEFINE M == Len(s)
           N == Len(t)
           c == s \o t
<1>1. s \in Seq(Entry)
  BY DEF Ledger
<1>2. PICK g : Tally(s, g) /\ g[M] = total /\ TellsOf(s, g, e)
  BY DEF Ledger
<1>3. M \in Nat /\ N \in Nat /\ DOMAIN s = 1..M /\ DOMAIN t = 1..N
  BY <1>1, LenProperties
<1>4. /\ c \in Seq(Entry) /\ Len(c) = M + N /\ DOMAIN c = 1..(M + N)
      /\ \A i \in 1..(M + N) : c[i] = IF i <= M THEN s[i] ELSE t[i - M]
  <2>1. /\ c \in Seq(Entry) /\ Len(c) = M + N
        /\ \A i \in 1..(M + N) : c[i] = IF i <= M THEN s[i] ELSE t[i - M]
    BY <1>1, ConcatProperties
  <2> QED
    BY <2>1, LenProperties
<1> HIDE DEF M, N, c
<1>5. PICK k : Tally(c, k) /\ (\A i \in 0..M : k[i] = g[i]) /\ \A i \in 0..N : k[M + i] = g[M] + h[i]
  BY <1>1, <1>2, TallyBehind DEF M, N, c
<1>6. k[M + N] = total + h[N]
  BY <1>2, <1>3, <1>5
<1>7. ASSUME NEW i \in 1..(M + N), "half1" \in DOMAIN c[i]
      PROVE  c[i].half1 = c[i].half2 /\ e + c[i].half1 = k[i]
  <2>1. CASE i <= M
    <3>1. i \in 1..M /\ i \in 0..M /\ c[i] = s[i]
      BY <1>3, <1>4, <2>1
    <3> QED
      BY <1>2, <1>3, <1>5, <1>7, <3>1 DEF TellsOf
  <2>2. CASE ~(i <= M)
    <3>1. i - M \in 1..N /\ i - M \in 0..N /\ M + (i - M) = i /\ c[i] = t[i - M]
      BY <1>3, <1>4, <2>2
    <3>2. k[i] = total + h[i - M]
      BY <1>2, <1>5, <3>1
    <3> QED
      BY <1>3, <1>7, <3>1, <3>2
  <2> QED
    BY <2>1, <2>2
<1>8. TellsOf(c, k, e)
  BY <1>4, <1>7 DEF TellsOf
<1> QED
  BY <1>4, <1>5, <1>6, <1>8 DEF Ledger, M, N, c

\* ... with a gap,
LEMMA LedgerGap ==
  ASSUME NEW s, NEW total \in Nat, NEW e \in Int, Ledger(s, total, e), NEW n \in Nat
  PROVE  Ledger(s \o Gap(n), total + n, e)
<1> DEFINE t == Gap(n)
           h == [i \in 0..Len(t) |-> IF i = 0 THEN 0 ELSE n]
<1>1. CASE n = 0
  <2>1. t = <<>> /\ s \in Seq(Entry) /\ total + n = total
    BY <1>1 DEF Gap, Ledger
  <2>2. s \o <<>> = s
    BY <2>1, ConcatEmptySeq
  <2> QED
    BY <2>1, <2>2
<1>2. CASE n # 0
  <2> DEFINE a == [gap |-> n]
  <2>1. a \in [gap : Nat \ {0}] /\ a.gap = n
    BY <1>2
  <2>2. a \in Entry /\ Weight(a) = n /\ "half1" \notin DOMAIN a
    BY <2>1, EntryFields DEF Entry
  <2>3. t = <<a>>
    BY <1>2 DEF Gap
  <2> HIDE DEF a, t
  <2>4. t \in Seq(Entry) /\ Len(t) = 1 /\ t[1] = a /\ DOMAIN t = {1}
    BY <2>2, <2>3
  <2>5. h \in [0..Len(t) -> Nat] /\ h[0] = 0 /\ h[1] = n
    BY <2>4
  <2> HIDE DEF h
  <2>6. Tally(t, h)
    <3>1. \A i \in 1..Len(t) : h[i] = h[i - 1] + Weight(t[i])
      BY <2>2, <2>4, <2>5
    <3> QED
      BY <2>5, <3>1 DEF Tally
  <2>7. Ledger(s \o t, total + h[Len(t)], e)
    BY <2>2, <2>4, <2>6, LedgerGoesOn
  <2> QED
    BY <2>4, <2>5, <2>7 DEF t
<1> QED
  BY <1>1, <1>2

\* ... and with events in their order.
LEMMA LedgerEvents ==
  ASSUME NEW s, NEW total \in Nat, NEW e \in Int, Ledger(s, total, e), NEW v \in Int, e + v = total,
         NEW t \in Seq(Entry), \A i \in 1..Len(t) : t[i] = [half1 |-> v + i, half2 |-> v + i]
  PROVE  Ledger(s \o t, total + Len(t), e)
<1> DEFINE N == Len(t)
           h == [i \in 0..N |-> i]
<1>1. N \in Nat /\ DOMAIN t = 1..N
  BY LenProperties
<1>2. \A i \in 1..N : t[i] \in [half1 : Int, half2 : Int] /\ t[i].half1 = v + i /\ t[i].half2 = v + i
  BY <1>1
<1>3. \A i \in 1..N : Weight(t[i]) = 1
  BY <1>2, EntryFields
<1>4. h \in [0..N -> Nat] /\ h[0] = 0 /\ h[N] = N /\ \A i \in 1..N : h[i] = h[i - 1] + 1 /\ h[i] = i
  BY <1>1
<1> HIDE DEF h
<1>5. Tally(t, h)
  BY <1>3, <1>4 DEF Tally
<1>6. \A i \in DOMAIN t : t[i].half1 = t[i].half2 /\ e + t[i].half1 = total + h[i]
  BY <1>1, <1>2, <1>4
<1> QED
  BY <1>4, <1>5, <1>6, LedgerGoesOn

\* Nothing was handed out.
LEMMA LedgerEmpty == ASSUME NEW e \in Int PROVE Ledger(<<>>, 0, e)
<1> DEFINE g == [n \in 0..0 |-> 0]
<1>1. <<>> \in Seq(Entry) /\ Len(<<>>) = 0 /\ DOMAIN <<>> = {}
  OBVIOUS
<1>2. Tally(<<>>, g) /\ g[0] = 0
  BY <1>1 DEF Tally
<1> HIDE DEF g
<1> QED
  BY <1>1, <1>2 DEF Ledger, TellsOf


Halves == Int \X Int
Drain == [pc : {"closed", "idle", "copy", "finish"}, head : Nat, keep : Nat, half : {0, 1}, found : Seq(Halves)]

TrcTypeOK ==
  /\ capacity \in Nat /\ g_early \in Nat /\ early \in Nat /\ head \in Nat /\ writing \in 0..2
  /\ drain \in Drain /\ rcursor \in Nat /\ pending_ \in Nat /\ earlyPending \in Nat

\* Before the ring is placed nothing is written, and nobody reads.
TraceUnplaced ==
  /\ early = IF capacity > 0 THEN g_early ELSE 0
  /\ capacity = 0 => writing = 0 /\ head = 0 /\ drain.pc = "closed"

\* The slots behind the head are whole, but for the one it is in.
SlotsIntact ==
  capacity > 0 =>
    /\ records \in [0..(capacity - 1) -> Halves]
    /\ \A n \in OldestIntact(head)..(head - 1) : records[n % capacity] = <<n + 1, n + 1>>
    /\ writing >= 1 => records[head % capacity][1] = head + 1
    /\ writing = 2 => records[head % capacity][2] = head + 1

\* What the drain copied is whole unless the core has lapped it.
CopyTrue ==
  drain.pc \in {"copy", "finish"} =>
    /\ rcursor <= drain.keep /\ drain.keep <= drain.head /\ drain.head <= head
    /\ Len(drain.found) <= drain.head - drain.keep
    /\ drain.half = 1 => drain.pc = "copy" /\ Len(drain.found) > 0
    /\ drain.pc = "finish" => Len(drain.found) = drain.head - drain.keep
    /\ \A i \in 1..Len(drain.found) : drain.keep + i - 1 >= OldestIntact(head) =>
         /\ drain.found[i][1] = drain.keep + i
         /\ i < Len(drain.found) \/ drain.half = 0 => drain.found[i][2] = drain.keep + i

\* The account up to the cursor, but for what is held.
Accounted == early + rcursor - earlyPending - pending_
LedgerKept ==
  /\ drain.pc = "closed" => handed = <<>> /\ rcursor = 0 /\ pending_ = 0 /\ earlyPending = 0
  /\ drain.pc # "closed" => rcursor <= head /\ Accounted \in Nat /\ Ledger(handed, Accounted, early)

TrcInv == TrcTypeOK /\ TraceUnplaced /\ SlotsIntact /\ CopyTrue /\ LedgerKept

\* The oldest whole record is not past the head, and goes on with it.
LEMMA OldestGoesOn ==
  ASSUME NEW a \in Nat, NEW b \in Nat, a <= b, capacity \in Nat
  PROVE  /\ OldestIntact(a) \in Nat /\ OldestIntact(a) <= OldestIntact(b)
         /\ capacity > 0 => OldestIntact(a) <= a
  BY DEF OldestIntact

LEMMA TrcInitInv == TrcInit => TrcInv
<1> SUFFICES ASSUME TrcInit PROVE TrcInv
  OBVIOUS
<1>1. drain \in Drain /\ drain.pc = "closed"
  <2>1. drain = [pc |-> "closed", head |-> 0, keep |-> 0, half |-> 0, found |-> <<>>]
    BY DEF TrcInit, NoDrain
  <2> QED
    BY <2>1 DEF Drain
<1>2. TrcTypeOK
  BY <1>1 DEF TrcInit, TrcTypeOK
<1> QED
  BY <1>1, <1>2 DEF TrcInit, TrcInv, TraceUnplaced, SlotsIntact, CopyTrue, LedgerKept

\* One half of a record is written.
LEMMA HalfWritten ==
  ASSUME NEW p \in Halves, NEW i \in {1, 2}, NEW v \in Int
  PROVE  /\ [p EXCEPT ![i] = v] \in Halves /\ [p EXCEPT ![i] = v][i] = v
         /\ \A j \in {1, 2} \ {i} : [p EXCEPT ![i] = v][j] = p[j]
<1>1. PICK a \in Int, b \in Int : p = <<a, b>>
  BY DEF Halves
<1>2. CASE i = 1
  <2>1. [p EXCEPT ![1] = v] = <<v, b>>
    BY <1>1
  <2> QED
    BY <1>1, <1>2, <2>1 DEF Halves
<1>3. CASE i = 2
  <2>1. [p EXCEPT ![2] = v] = <<a, v>>
    BY <1>1
  <2> QED
    BY <1>1, <1>3, <2>1 DEF Halves
<1> QED
  BY <1>2, <1>3

\* The core, before its ring is placed and as it places it.
LEMMA PlacingKeeps == TrcInv /\ (Place \/ EmitUnplaced) => TrcInv'
<1> SUFFICES ASSUME TrcInv, Place \/ EmitUnplaced PROVE TrcInv'
  OBVIOUS
<1>1. CASE Place
  <2>1. capacity' \in Nat /\ capacity' > 0 /\ capacity = 0
    BY <1>1, TraceAssumption DEF Place, TraceAssumption
  <2>2. /\ head = 0 /\ writing = 0 /\ drain.pc = "closed" /\ head' = 0 /\ early' = g_early
        /\ records' = [i \in 0..(capacity' - 1) |-> <<0, 0>>]
        /\ UNCHANGED <<g_early, writing, drain, rcursor, pending_, earlyPending, handed>>
    BY <1>1, <2>1 DEF Place, TrcInv, TraceUnplaced
  <2>3. TrcTypeOK' /\ TraceUnplaced'
    BY <2>1, <2>2 DEF TrcInv, TrcTypeOK, TraceUnplaced
  <2>4. SlotsIntact'
    <3>1. records' \in [0..(capacity' - 1) -> Halves]
      BY <2>2 DEF Halves
    <3>2. OldestIntact(head)' = 0
      <4>1. capacity' \in Nat /\ capacity' > 0 /\ head' = 0
        BY <2>1, <2>2
      <4>2. (OldestIntact(head))' = IF head' >= capacity' THEN head' - capacity' + 1 ELSE 0
        BY DEF OldestIntact
      <4>3. ~(0 >= capacity')
        BY <4>1
      <4> QED
        BY <4>1, <4>2, <4>3
    <3> QED
      BY <2>2, <3>1, <3>2 DEF SlotsIntact
  <2>5. CopyTrue' /\ LedgerKept'
    BY <2>2 DEF TrcInv, CopyTrue, LedgerKept
  <2> QED
    BY <2>3, <2>4, <2>5 DEF TrcInv
<1>2. CASE EmitUnplaced
  <2>1. capacity = 0 /\ g_early' = g_early + 1 /\ drain.pc = "closed"
        /\ UNCHANGED <<capacity, early, head, records, writing, drain, rcursor, pending_, earlyPending, handed>>
    BY <1>2 DEF EmitUnplaced, TrcInv, TraceUnplaced
  <2> QED
    BY <2>1 DEF TrcInv, TrcTypeOK, TraceUnplaced, SlotsIntact, CopyTrue, LedgerKept
<1> QED
  BY <1>1, <1>2

\* The core writes a record and moves its head over it.
LEMMA EmitKeeps == TrcInv /\ (EmitBody \/ EmitHead) => TrcInv'
<1> SUFFICES ASSUME TrcInv, EmitBody \/ EmitHead PROVE TrcInv'
  OBVIOUS
<1>0. /\ capacity \in Nat \ {0} /\ head \in Nat /\ writing \in 0..2
      /\ records \in [0..(capacity - 1) -> Halves]
      /\ \A n \in OldestIntact(head)..(head - 1) : records[n % capacity] = <<n + 1, n + 1>>
      /\ writing >= 1 => records[head % capacity][1] = head + 1
      /\ writing = 2 => records[head % capacity][2] = head + 1
  BY SMTT(20) DEF EmitBody, EmitHead, TrcInv, TrcTypeOK, SlotsIntact
<1>1. UNCHANGED <<capacity, g_early, early, drain, rcursor, pending_, earlyPending, handed>>
  BY DEF EmitBody, EmitHead, Written
<1>2. CASE EmitBody
  <2> DEFINE s == head % capacity
             i == writing + 1
             r == [records[s] EXCEPT ![i] = head + 1]
  <2>1. s \in 0..(capacity - 1)
    BY <1>0, Remainder
  <2>2. i \in {1, 2} /\ writing' = i /\ head' = head /\ records' = [records EXCEPT ![s] = r]
    BY <1>0, <1>2 DEF EmitBody
  <2>3. records[s] \in Halves
    BY <1>0, <2>1
  <2>4. r \in Halves /\ r[i] = head + 1 /\ \A j \in {1, 2} \ {i} : r[j] = records[s][j]
    <3>1. head + 1 \in Int
      BY <1>0
    <3> QED
      BY <2>2, <2>3, <3>1, HalfWritten
  <2> HIDE DEF r
  <2>5. ASSUME NEW n \in OldestIntact(head)..(head - 1) PROVE records'[n % capacity] = <<n + 1, n + 1>>
    <3>1. n \in Nat /\ head - n \in 1..(capacity - 1)
      BY <1>0 DEF OldestIntact
    <3>2. n % capacity # s /\ n % capacity \in 0..(capacity - 1)
      BY <1>0, <3>1, SlotsDistinct, Remainder
    <3> QED
      BY <1>0, <2>2, <3>2
  <2>6. records'[s] = r /\ records' \in [0..(capacity - 1) -> Halves]
    BY <1>0, <2>1, <2>2, <2>4
  <2>7. SlotsIntact'
    <3>1. writing' >= 1 => records'[s][1] = head + 1
      BY <1>0, <2>2, <2>4, <2>6
    <3>2. writing' = 2 => records'[s][2] = head + 1
      BY <1>0, <2>2, <2>4, <2>6
    <3>3. OldestIntact(head)' = OldestIntact(head)
      BY <1>1, <2>2 DEF OldestIntact
    <3> QED
      BY <1>1, <2>2, <2>5, <2>6, <3>1, <3>2, <3>3 DEF SlotsIntact
  <2>8. CopyTrue' /\ LedgerKept'
    BY <1>1, <2>2 DEF TrcInv, CopyTrue, LedgerKept, OldestIntact, Accounted
  <2>9. TrcTypeOK' /\ TraceUnplaced'
    BY <1>0, <1>1, <2>2 DEF TrcInv, TrcTypeOK, TraceUnplaced
  <2> QED
    BY <2>7, <2>8, <2>9 DEF TrcInv
<1>3. CASE EmitHead
  <2>1. writing = 2 /\ writing' = 0 /\ head' = head + 1 /\ UNCHANGED records
    BY <1>3 DEF EmitHead, Whole
  <2>2. records[head % capacity] = <<head + 1, head + 1>>
    <3>1. records[head % capacity] \in Halves
      BY <1>0, Remainder
    <3> QED
      BY <1>0, <2>1, <3>1 DEF Halves
  <2> DEFINE o == OldestIntact(head)
             p == OldestIntact(head + 1)
  <2>3. /\ o \in Nat /\ p \in Nat /\ o <= p /\ (OldestIntact(head))' = p
        /\ \A n \in p..head : n = head \/ n \in o..(head - 1)
    <3>1. o \in Nat /\ p \in Nat /\ o <= p
      BY <1>0, OldestGoesOn
    <3>2. (OldestIntact(head))' = p
      BY <1>1, <2>1 DEF OldestIntact
    <3> HIDE DEF o, p
    <3> QED
      BY <1>0, <3>1, <3>2
  <2>4. SlotsIntact'
    <3> HIDE DEF p
    <3>1. ASSUME NEW n \in p..head PROVE records[n % capacity] = <<n + 1, n + 1>>
      BY <1>0, <2>2, <2>3
    <3>2. head' - 1 = head
      BY <1>0, <2>1
    <3> QED
      BY <1>0, <1>1, <2>1, <2>3, <3>1, <3>2 DEF SlotsIntact
  <2>5. CopyTrue'
    <3>1. drain.keep \in Nat /\ drain.head \in Nat
      BY DEF TrcInv, TrcTypeOK, Drain
    <3>2. \A i \in 1..Len(drain.found) : drain.keep + i - 1 >= p => drain.keep + i - 1 >= o
      BY <2>3, <3>1
    <3> SUFFICES ASSUME drain.pc \in {"copy", "finish"} PROVE CopyTrue'
      BY <1>1 DEF CopyTrue
    <3>3. /\ rcursor <= drain.keep /\ drain.keep <= drain.head /\ drain.head <= head
          /\ Len(drain.found) <= drain.head - drain.keep
          /\ drain.half = 1 => drain.pc = "copy" /\ Len(drain.found) > 0
          /\ drain.pc = "finish" => Len(drain.found) = drain.head - drain.keep
          /\ \A i \in 1..Len(drain.found) : drain.keep + i - 1 >= o =>
               /\ drain.found[i][1] = drain.keep + i
               /\ i < Len(drain.found) \/ drain.half = 0 => drain.found[i][2] = drain.keep + i
      BY DEF TrcInv, CopyTrue
    <3> HIDE DEF o, p
    <3>4. drain.head <= head'
      BY <1>0, <2>1, <3>1, <3>3
    <3>5. \A i \in 1..Len(drain.found) : drain.keep + i - 1 >= p =>
               /\ drain.found[i][1] = drain.keep + i
               /\ i < Len(drain.found) \/ drain.half = 0 => drain.found[i][2] = drain.keep + i
      BY <3>2, <3>3
    <3> QED
      BY <1>1, <2>3, <3>3, <3>4, <3>5 DEF CopyTrue
  <2>6. LedgerKept'
    BY <1>0, <1>1, <2>1 DEF TrcInv, TrcTypeOK, LedgerKept, Accounted
  <2>7. TrcTypeOK' /\ TraceUnplaced'
    BY <1>0, <1>1, <2>1 DEF TrcInv, TrcTypeOK, TraceUnplaced
  <2> QED
    BY <2>4, <2>5, <2>6, <2>7 DEF TrcInv
<1> QED
  BY <1>2, <1>3

\* What the drain's fields may be.
LEMMA DrainFields ==
  ASSUME TrcTypeOK
  PROVE  /\ drain.pc \in {"closed", "idle", "copy", "finish"} /\ drain.head \in Nat /\ drain.keep \in Nat
         /\ drain.half \in {0, 1} /\ drain.found \in Seq(Halves) /\ Len(drain.found) \in Nat
         /\ NoDrain \in Drain
<1>1. drain \in Drain
  BY DEF TrcTypeOK
<1>2. drain.found \in Seq(Halves)
  BY <1>1 DEF Drain
<1>3. Len(drain.found) \in Nat
  BY <1>2, LenProperties
<1>4. NoDrain \in Drain
  BY DEF NoDrain, Drain
<1> QED
  BY <1>1, <1>2, <1>3, <1>4 DEF Drain

\* The reader finds the ring, and begins a drain.
LEMMA DrainBegins == TrcInv /\ (Attach \/ DrainHead) => TrcInv'
<1> SUFFICES ASSUME TrcInv, Attach \/ DrainHead PROVE TrcInv'
  OBVIOUS
<1>0. /\ capacity \in Nat /\ head \in Nat /\ early \in Nat /\ rcursor \in Nat /\ pending_ \in Nat /\ earlyPending \in Nat
      /\ TrcTypeOK /\ NoDrain \in Drain
  BY DrainFields DEF TrcInv, TrcTypeOK
<1>1. UNCHANGED <<capacity, g_early, early, head, records, writing>>
  BY DEF Attach, DrainHead, Placed
<1>2. SlotsIntact'
  <2>1. (OldestIntact(head))' = OldestIntact(head)
    BY <1>1 DEF OldestIntact
  <2> QED
    BY <1>1, <2>1 DEF TrcInv, SlotsIntact
<1>3. CASE Attach
  <2>1. /\ drain.pc = "closed" /\ capacity > 0 /\ drain' = NoDrain /\ earlyPending' = early
        /\ UNCHANGED <<rcursor, pending_, handed>>
    BY <1>3 DEF Attach
  <2>2. handed = <<>> /\ rcursor = 0 /\ pending_ = 0
    BY <2>1 DEF TrcInv, LedgerKept
  <2>3. drain'.pc = "idle"
    BY <2>1 DEF NoDrain
  <2>4. TrcTypeOK' /\ TraceUnplaced' /\ CopyTrue'
    BY <1>0, <1>1, <2>1, <2>3 DEF TrcInv, TrcTypeOK, TraceUnplaced, CopyTrue
  <2>5. LedgerKept'
    <3>1. Accounted' = 0 /\ rcursor' <= head'
      BY <1>0, <1>1, <2>1, <2>2 DEF Accounted
    <3>2. Ledger(<<>>, 0, early)
      BY <1>0, LedgerEmpty
    <3> HIDE DEF Ledger
    <3> QED
      BY <1>1, <2>1, <2>2, <2>3, <3>1, <3>2 DEF LedgerKept
  <2> QED
    BY <1>2, <2>4, <2>5 DEF TrcInv
<1>4. CASE DrainHead
  <2>1. drain.pc = "idle" /\ capacity > 0 /\ rcursor <= head
        /\ UNCHANGED <<rcursor, pending_, earlyPending, handed>>
    BY <1>0, <1>4 DEF DrainHead, TrcInv, TraceUnplaced, LedgerKept
  <2>2. PICK stop \in (IF Limited THEN Larger(rcursor, OldestIntact(head))..head ELSE {head}) :
          drain' = [pc |-> "copy", head |-> stop, keep |-> Larger(rcursor, OldestIntact(stop)), half |-> 0, found |-> <<>>]
    BY <1>4 DEF DrainHead
  <2> DEFINE k == Larger(rcursor, OldestIntact(stop))
  <2>3. stop \in Nat /\ rcursor <= stop /\ stop <= head
    <3>1. OldestIntact(head) \in Nat
      BY <1>0, OldestGoesOn
    <3> QED
      BY <1>0, <2>1, <3>1 DEF Larger
  <2>4. k \in Nat /\ rcursor <= k /\ k <= stop
    <3>1. OldestIntact(stop) \in Nat /\ OldestIntact(stop) <= stop
      BY <1>0, <2>1, <2>3, OldestGoesOn
    <3> QED
      BY <1>0, <2>3, <3>1 DEF Larger
  <2>5. drain' = [pc |-> "copy", head |-> stop, keep |-> k, half |-> 0, found |-> <<>>]
    BY <2>2
  <2> HIDE DEF k
  <2>6. drain' \in Drain
    BY <2>3, <2>4, <2>5 DEF Drain
  <2>7. CopyTrue'
    <3>1. /\ drain'.pc = "copy" /\ drain'.head = stop /\ drain'.keep = k /\ drain'.half = 0
          /\ Len(drain'.found) = 0
      BY <2>5
    <3>2. Len(drain'.found) <= drain'.head - drain'.keep /\ 1..Len(drain'.found) = {}
      BY <2>3, <2>4, <3>1
    <3> QED
      BY <1>1, <2>1, <2>3, <2>4, <3>1, <3>2 DEF CopyTrue
  <2>8. LedgerKept'
    BY <1>1, <2>1, <2>5 DEF TrcInv, LedgerKept, Accounted
  <2>9. TrcTypeOK' /\ TraceUnplaced'
    BY <1>0, <1>1, <2>1, <2>6 DEF TrcInv, TrcTypeOK, TraceUnplaced
  <2> QED
    BY <1>2, <2>7, <2>8, <2>9 DEF TrcInv
<1> QED
  BY <1>3, <1>4

\* The second half joins the first.
LEMMA SecondHalf ==
  ASSUME NEW f \in Seq(Halves), Len(f) > 0, NEW b \in Int
  PROVE  LET g == [f EXCEPT ![Len(f)][2] = b]
         IN /\ g \in Seq(Halves) /\ Len(g) = Len(f)
            /\ g[Len(f)][1] = f[Len(f)][1] /\ g[Len(f)][2] = b
            /\ \A i \in 1..(Len(f) - 1) : g[i] = f[i]
<1> DEFINE n == Len(f)
           p == [f[n] EXCEPT ![2] = b]
           g == [f EXCEPT ![n] = p]
<1>0. [f EXCEPT ![Len(f)][2] = b] = g
  OBVIOUS
<1>1. n \in Nat /\ n \in 1..n
  BY LenProperties
<1>2. f[n] \in Halves
  BY <1>1, ElementOfSeq
<1>3. p \in Halves /\ p[2] = b /\ p[1] = f[n][1]
  <2> DEFINE q == f[n]
  <2>1. q \in Halves
    BY <1>2
  <2> HIDE DEF q
  <2>2. LET r == [q EXCEPT ![2] = b] IN r \in Halves /\ r[2] = b /\ r[1] = q[1]
    BY <2>1, HalfWritten
  <2> QED
    BY <2>2 DEF q
<1> HIDE DEF p
<1>4. g \in Seq(Halves) /\ Len(g) = n /\ g[n] = p /\ \A i \in 1..n : i # n => g[i] = f[i]
  BY <1>1, <1>3, ExceptSeq
<1>5. \A i \in 1..(n - 1) : i \in 1..n /\ i # n
  BY <1>1
<1> HIDE DEF g
<1> QED
  BY <1>0, <1>3, <1>4, <1>5

\* A half is copied: it is true unless the core is past its slot.
LEMMA CopyKeeps == TrcInv /\ CopyHalf => TrcInv'
<1> SUFFICES ASSUME TrcInv, CopyHalf PROVE TrcInv'
  OBVIOUS
<1> DEFINE f == drain.found
           l == Len(f)
           n == drain.keep + l - drain.half
           o == OldestIntact(head)
           slot == records[n % capacity]
<1>0. /\ capacity \in Nat \ {0} /\ head \in Nat /\ drain.pc = "copy" /\ drain.keep \in Nat /\ drain.head \in Nat
      /\ drain.half \in {0, 1} /\ f \in Seq(Halves) /\ l \in Nat /\ drain \in Drain
      /\ UNCHANGED <<capacity, g_early, early, head, records, writing, rcursor, pending_, earlyPending, handed>>
  BY DrainFields DEF CopyHalf, Placed, TrcInv, TrcTypeOK, TraceUnplaced
<1>1. /\ rcursor <= drain.keep /\ drain.keep <= drain.head /\ drain.head <= head
      /\ l <= drain.head - drain.keep /\ (drain.half = 1 => l > 0)
      /\ \A i \in 1..l : drain.keep + i - 1 >= o =>
           f[i][1] = drain.keep + i /\ (i < l \/ drain.half = 0 => f[i][2] = drain.keep + i)
  BY <1>0 DEF TrcInv, CopyTrue
<1>2. n \in Nat /\ o \in Nat
  <2>1. o \in Nat
    BY <1>0, OldestGoesOn
  <2> HIDE DEF o, l
  <2>2. n \in Nat
    BY <1>0, <1>1
  <2> QED
    BY <2>1, <2>2
<1>3. slot \in Halves /\ (n < head /\ n >= o => slot = <<n + 1, n + 1>>)
  <2> HIDE DEF n
  <2>1. n % capacity \in 0..(capacity - 1)
    BY <1>0, <1>2, Remainder
  <2>2. records \in [0..(capacity - 1) -> Halves] /\ \A m \in o..(head - 1) : records[m % capacity] = <<m + 1, m + 1>>
    <3>1. capacity > 0
      BY <1>0
    <3> QED
      BY <3>1 DEF TrcInv, SlotsIntact
  <2> HIDE DEF o
  <2>3. n < head /\ n >= o => n \in o..(head - 1)
    BY <1>0, <1>2
  <2> QED
    BY <2>1, <2>2, <2>3
<1>4. slot[1] \in Int /\ slot[2] \in Int
  BY <1>3 DEF Halves
<1>5. (OldestIntact(head))' = o
  BY <1>0 DEF OldestIntact
<1> DEFINE two == [f EXCEPT ![Len(f)][2] = slot[2]]
           one == Append(f, <<slot[1], 0>>)
<1>6. \/ drain.half = 1 /\ drain' = [drain EXCEPT !.half = 0, !.found = two]
      \/ drain.half = 0 /\ n < drain.head /\ drain' = [drain EXCEPT !.half = 1, !.found = one]
      \/ drain.half = 0 /\ ~(n < drain.head) /\ drain' = [drain EXCEPT !.pc = "finish"]
  <2>1. drain' = IF drain.half = 1 THEN [drain EXCEPT !.half = 0, !.found[l][2] = slot[2]]
                 ELSE IF n < drain.head THEN [drain EXCEPT !.half = 1, !.found = Append(@, <<slot[1], 0>>)]
                 ELSE [drain EXCEPT !.pc = "finish"]
    BY DEF CopyHalf
  <2>2. [drain EXCEPT !.half = 0, !.found[l][2] = slot[2]] = [drain EXCEPT !.half = 0, !.found = two]
    BY <1>0 DEF Drain
  <2> HIDE DEF two, slot
  <2> QED
    BY <1>0, <2>1, <2>2
<1> HIDE DEF o, slot
<1>7. CASE drain.half = 1 /\ drain' = [drain EXCEPT !.half = 0, !.found = two]
  <2>1. two \in Seq(Halves) /\ Len(two) = l /\ two[l][1] = f[l][1] /\ two[l][2] = slot[2] /\ \A i \in 1..(l - 1) : two[i] = f[i]
    BY <1>0, <1>1, <1>4, <1>7, SecondHalf, SMTT(20)
  <2> HIDE DEF two
  <2>2. /\ drain'.pc = "copy" /\ drain'.head = drain.head /\ drain'.keep = drain.keep /\ drain'.half = 0 /\ drain'.found = two
        /\ drain' \in Drain
    BY <1>0, <1>7, <2>1 DEF Drain
  <2>3. ASSUME NEW i \in 1..l, drain.keep + i - 1 >= o
        PROVE  two[i][1] = drain.keep + i /\ two[i][2] = drain.keep + i
    <3>1. CASE i < l
      <4>1. i \in 1..(l - 1)
        BY <1>0, <3>1
      <4> QED
        BY <1>1, <2>1, <2>3, <3>1, <4>1
    <3>2. CASE i = l
      <4>1. n < head /\ n >= o /\ n + 1 = drain.keep + l
        BY <1>0, <1>1, <1>7, <2>3, <3>2
      <4>2. slot = <<drain.keep + l, drain.keep + l>>
        BY <1>3, <4>1
      <4>3. f[l][1] = drain.keep + l
        BY <1>1, <2>3, <3>2
      <4> QED
        BY <2>1, <3>2, <4>2, <4>3
    <3> QED
      BY <1>0, <3>1, <3>2
  <2>4. CopyTrue'
    BY <1>0, <1>1, <1>5, <2>1, <2>2, <2>3 DEF CopyTrue
  <2> QED
    BY <1>0, <1>5, <2>2, <2>4 DEF TrcInv, TrcTypeOK, TraceUnplaced, SlotsIntact, LedgerKept, Accounted, o
<1>8. CASE drain.half = 0 /\ n < drain.head /\ drain' = [drain EXCEPT !.half = 1, !.found = one]
  <2>0. n = drain.keep + l
    BY <1>0, <1>8
  <2>1. one \in Seq(Halves) /\ Len(one) = l + 1 /\ one[l + 1] = <<slot[1], 0>> /\ \A i \in 1..l : one[i] = f[i]
    <3>1. <<slot[1], 0>> \in Halves
      BY <1>4 DEF Halves
    <3> QED
      BY <1>0, <3>1, AppendProperties
  <2> HIDE DEF one
  <2>2. /\ drain'.pc = "copy" /\ drain'.head = drain.head /\ drain'.keep = drain.keep /\ drain'.half = 1 /\ drain'.found = one
        /\ drain' \in Drain
    BY <1>0, <1>8, <2>1 DEF Drain
  <2>3. ASSUME NEW i \in 1..(l + 1), drain.keep + i - 1 >= o
        PROVE  one[i][1] = drain.keep + i /\ (i < l + 1 => one[i][2] = drain.keep + i)
    <3>1. CASE i \in 1..l
      BY <1>1, <1>8, <2>1, <2>3, <3>1
    <3>2. CASE i = l + 1
      <4>1. n < head /\ n >= o /\ n + 1 = drain.keep + i
        BY <1>0, <1>1, <1>8, <2>0, <2>3, <3>2, SMTT(20)
      <4>2. slot = <<drain.keep + i, drain.keep + i>>
        BY <1>3, <4>1
      <4> QED
        BY <1>0, <2>1, <3>2, <4>2
    <3> QED
      BY <1>0, <3>1, <3>2
  <2>4. l + 1 <= drain.head - drain.keep /\ l + 1 > 0
    BY <1>0, <1>8, <2>0
  <2>5. CopyTrue'
    BY <1>0, <1>1, <1>5, <2>1, <2>2, <2>3, <2>4 DEF CopyTrue
  <2> QED
    BY <1>0, <1>5, <2>2, <2>5 DEF TrcInv, TrcTypeOK, TraceUnplaced, SlotsIntact, LedgerKept, Accounted, o
<1>9. CASE drain.half = 0 /\ ~(n < drain.head) /\ drain' = [drain EXCEPT !.pc = "finish"]
  <2>1. /\ drain'.pc = "finish" /\ drain'.head = drain.head /\ drain'.keep = drain.keep /\ drain'.half = 0 /\ drain'.found = f
        /\ drain' \in Drain
    BY <1>0, <1>9 DEF Drain
  <2>2. l = drain.head - drain.keep
    <3> DEFINE k == drain.keep
               d == drain.head
    <3>1. k \in Nat /\ d \in Nat /\ l \in Nat /\ l <= d - k /\ n = k + l - 0 /\ ~(n < d)
      BY <1>0, <1>1, <1>9
    <3> HIDE DEF k, d, l, n
    <3>2. l = d - k
      BY <3>1
    <3> QED
      BY <3>2 DEF k, d
  <2>3. CopyTrue'
    BY <1>0, <1>1, <1>5, <1>9, <2>1, <2>2 DEF CopyTrue
  <2> QED
    BY <1>0, <1>5, <2>1, <2>3 DEF TrcInv, TrcTypeOK, TraceUnplaced, SlotsIntact, LedgerKept, Accounted, o
<1> QED
  BY <1>6, <1>7, <1>8, <1>9

\* What is left of a sequence without its first `x`.
LEMMA RestOf ==
  ASSUME NEW s \in Seq(Halves), NEW x \in Nat, x <= Len(s)
  PROVE  LET t == SubSeq(s, x + 1, Len(s))
         IN /\ t \in Seq(Halves) /\ Len(t) = Len(s) - x
            /\ \A j \in 1..(Len(s) - x) : t[j] = s[x + j] /\ x + j \in 1..Len(s)
<1> DEFINE l == Len(s)
           t == SubSeq(s, x + 1, l)
<1>1. l \in Nat /\ l - x \in Nat
  BY LenProperties
<1>2. \A i \in (x + 1)..l : i \in 1..l /\ s[i] \in Halves
  BY <1>1, ElementOfSeq
<1>3. t = [j \in 1..(l - x) |-> s[x + j]]
  BY <1>1, <1>2
<1>4. \A j \in 1..(l - x) : x + j \in 1..l /\ s[x + j] \in Halves
  BY <1>1, <1>2
<1> DEFINE n == l - x
<1>5. n \in Nat /\ DOMAIN t = 1..n /\ \A j \in 1..n : t[j] \in Halves
  BY <1>1, <1>3, <1>4
<1>6. t \in [1..n -> Halves]
  <2> HIDE DEF t, n
  <2> QED
    BY <1>3, <1>4, <1>5 DEF n
<1>7. t \in Seq(Halves) /\ Len(t) = n
  <2> HIDE DEF t, n
  <2> QED
    BY <1>5, <1>6
<1> HIDE DEF t, l
<1> QED
  BY <1>1, <1>3, <1>4, <1>7 DEF t, l

\* The account is kept through what a drain hands out: it carries on from the
\* records the cursor passed, those lost in a gap before the first survivor.
LEMMA HandedOut ==
  ASSUME TrcTypeOK, Accounted \in Nat, Ledger(handed, Accounted, early), drain.pc = "finish", CopyTrue, capacity > 0,
         NEW lapped \in Nat, lapped <= Len(drain.found),
         lapped < Len(drain.found) => drain.keep + lapped >= OldestIntact(head)
  PROVE  LET kept == SubSeq(drain.found, lapped + 1, Len(drain.found))
             missed == Missed(drain.head - rcursor - Len(kept))
         IN /\ missed \in Nat /\ Len(kept) = Len(drain.found) - lapped
            /\ missed + Len(kept) = drain.head - rcursor + pending_
            /\ Ledger(handed \o Gap(earlyPending) \o Gap(missed) \o [i \in DOMAIN kept |-> Event(kept[i])], early + drain.head, early)
<1> DEFINE f == drain.found
           l == Len(f)
           kept == SubSeq(f, lapped + 1, l)
           n == Len(kept)
           missed == Missed(drain.head - rcursor - n)
           events == [i \in DOMAIN kept |-> Event(kept[i])]
           first == handed \o Gap(earlyPending)
           second == first \o Gap(missed)
<1>0. /\ capacity \in Nat /\ head \in Nat /\ early \in Nat /\ rcursor \in Nat /\ pending_ \in Nat /\ earlyPending \in Nat
      /\ drain.keep \in Nat /\ drain.head \in Nat /\ f \in Seq(Halves) /\ l \in Nat
  BY DrainFields DEF TrcTypeOK
<1>1. /\ rcursor <= drain.keep /\ drain.keep <= drain.head /\ l = drain.head - drain.keep /\ drain.half # 1
      /\ \A i \in 1..l : drain.keep + i - 1 >= OldestIntact(head) =>
           f[i][1] = drain.keep + i /\ (drain.half = 0 => f[i][2] = drain.keep + i)
  BY DEF CopyTrue
<1>2. drain.half = 0
  BY <1>1, DrainFields
<1>3. /\ kept \in Seq(Halves) /\ n = l - lapped /\ n \in Nat /\ DOMAIN kept = 1..n
      /\ \A j \in 1..n : kept[j] = f[lapped + j] /\ lapped + j \in 1..l
  <2>1. /\ kept \in Seq(Halves) /\ n = l - lapped
        /\ \A j \in 1..(l - lapped) : kept[j] = f[lapped + j] /\ lapped + j \in 1..l
    BY <1>0, RestOf
  <2> HIDE DEF kept
  <2> QED
    BY <2>1, LenProperties
<1> HIDE DEF f, l, kept, n, events, first, second
<1> DEFINE total == Accounted + earlyPending + missed
           v == drain.keep + lapped
<1>a. /\ early \in Nat /\ rcursor \in Nat /\ pending_ \in Nat /\ earlyPending \in Nat /\ drain.keep \in Nat /\ drain.head \in Nat
      /\ l \in Nat /\ n \in Nat /\ n = l - lapped /\ l = drain.head - drain.keep /\ lapped <= l /\ rcursor <= drain.keep
  BY <1>0, <1>1, <1>3 DEF l, f
<1>4. /\ missed \in Nat /\ missed + n = drain.head - rcursor + pending_
      /\ Accounted + earlyPending \in Nat /\ v \in Nat
      /\ total \in Nat /\ early + v = total /\ total + n = early + drain.head
      /\ \A j \in 1..n : /\ lapped < l /\ drain.keep + (lapped + j) - 1 >= drain.keep + lapped
                         /\ drain.keep + (lapped + j) = drain.keep + lapped + j
  <2>1. missed = (drain.head - rcursor - n) + pending_
    BY DEF Missed
  <2>2. Accounted = early + rcursor - earlyPending - pending_
    BY DEF Accounted
  <2> HIDE DEF missed
  <2> DEFINE k == drain.keep
             d == drain.head
  <2>3. /\ early \in Nat /\ rcursor \in Nat /\ pending_ \in Nat /\ earlyPending \in Nat /\ k \in Nat /\ d \in Nat
        /\ l \in Nat /\ n \in Nat /\ n = l - lapped /\ l = d - k /\ lapped <= l /\ rcursor <= k
        /\ missed = (d - rcursor - n) + pending_
    BY <1>a, <2>1
  <2> HIDE DEF k, d
  <2> DEFINE a == Accounted
  <2>4. a \in Nat /\ a = early + rcursor - earlyPending - pending_
    BY <2>2
  <2> HIDE DEF a
  <2>5. missed \in Nat /\ missed + n = d - rcursor + pending_ /\ a + earlyPending \in Nat /\ k + lapped \in Nat
    BY <2>3, <2>4
  <2>6. a + earlyPending + missed \in Nat
    BY <2>3, <2>4, <2>5
  <2>7. early + (k + lapped) = a + earlyPending + missed
    BY <2>3, <2>4, <2>5
  <2>8. a + earlyPending + missed + n = early + d
    BY <2>3, <2>4, <2>5
  <2>9. \A j \in 1..n : lapped < l /\ k + (lapped + j) - 1 >= k + lapped /\ k + (lapped + j) = k + lapped + j
    BY <2>3
  <2> QED
    BY <2>5, <2>6, <2>7, <2>8, <2>9 DEF a, k, d
<1>5. \A j \in 1..n : kept[j] = <<drain.keep + lapped + j, drain.keep + lapped + j>>
  <2> TAKE j \in 1..n
  <2>1. lapped + j \in 1..l /\ kept[j] = f[lapped + j] /\ kept[j] \in Halves
    BY <1>3, ElementOfSeq DEF n
  <2>2. lapped < l /\ drain.keep + (lapped + j) - 1 >= drain.keep + lapped /\ drain.keep + (lapped + j) = drain.keep + lapped + j
    BY <1>4
  <2>3. OldestIntact(head) \in Nat
    <3>1. capacity \in Nat /\ head \in Nat /\ head <= head
      BY <1>0
    <3> QED
      BY <3>1, OldestGoesOn
  <2>4. drain.keep + lapped >= OldestIntact(head)
    BY <2>2 DEF l, f
  <2>5. drain.keep + (lapped + j) - 1 >= OldestIntact(head)
    BY <1>a, <2>2, <2>3, <2>4
  <2>6. f[lapped + j][1] = drain.keep + lapped + j /\ f[lapped + j][2] = drain.keep + lapped + j
    BY <1>1, <1>2, <2>1, <2>2, <2>5
  <2> QED
    BY <2>1, <2>6 DEF Halves
<1> HIDE DEF missed
<1>6. /\ events \in Seq(Entry) /\ Len(events) = n
      /\ \A j \in 1..n : events[j] = [half1 |-> v + j, half2 |-> v + j]
  <2>1. \A j \in 1..n : Event(kept[j]) = [half1 |-> v + j, half2 |-> v + j]
    BY <1>5 DEF Event
  <2>2. v \in Nat
    BY <1>0
  <2> HIDE DEF v
  <2>3. \A j \in 1..n : Event(kept[j]) \in Entry
    BY <1>3, <2>1, <2>2 DEF Entry
  <2>4. events = [j \in 1..n |-> Event(kept[j])]
    BY <1>3 DEF events
  <2>5. events \in Seq(Entry) /\ Len(events) = n
    BY <1>a, <2>3, <2>4
  <2> QED
    BY <2>1, <2>4, <2>5
<1>7. Ledger(first, Accounted + earlyPending, early)
  BY <1>0, LedgerGap DEF first
<1>8. Ledger(second, total, early)
  <2> DEFINE t == Accounted + earlyPending
  <2>1. t \in Nat /\ Ledger(first, t, early) /\ early \in Int
    BY <1>a, <1>4, <1>7
  <2> HIDE DEF t
  <2>2. Ledger(first \o Gap(missed), t + missed, early)
    BY <1>4, <2>1, LedgerGap
  <2> QED
    BY <2>2 DEF t, second
<1>9. Ledger(second \o events, total + Len(events), early)
  <2>1. \A j \in 1..Len(events) : events[j] = [half1 |-> v + j, half2 |-> v + j]
    BY <1>6
  <2>0. v \in Nat /\ early \in Nat /\ total \in Nat /\ early + v = total
    <3> HIDE DEF v, total
    <3> QED
      BY <1>a, <1>4
  <2> HIDE DEF v, total
  <2>2. v \in Int /\ early \in Int
    BY <2>0
  <2> QED
    BY <1>6, <1>8, <2>0, <2>1, <2>2, LedgerEvents
<1>10. Ledger(second \o events, early + drain.head, early)
  BY <1>4, <1>6, <1>9
<1> QED
  BY <1>3, <1>4, <1>10 DEF events, second, first, kept, f, l, n, missed

\* A drain ends: what the core lapped meanwhile is dropped and counted.
LEMMA FinishKeeps == TrcInv /\ DrainFinish => TrcInv'
<1> SUFFICES ASSUME TrcInv, DrainFinish PROVE TrcInv'
  OBVIOUS
<1> DEFINE f == drain.found
           l == Len(f)
           lapped == Lesser(Larger(OldestIntact(head) - drain.keep, 0), l)
           kept == SubSeq(f, lapped + 1, l)
           missed == Missed(drain.head - rcursor - Len(kept))
           out == handed \o Gap(earlyPending) \o Gap(missed) \o [i \in DOMAIN kept |-> Event(kept[i])]
<1>0. /\ capacity \in Nat \ {0} /\ head \in Nat /\ early \in Nat /\ rcursor \in Nat /\ pending_ \in Nat /\ earlyPending \in Nat
      /\ drain.keep \in Nat /\ drain.head \in Nat /\ f \in Seq(Halves) /\ l \in Nat /\ NoDrain \in Drain /\ drain.pc = "finish"
      /\ UNCHANGED <<capacity, g_early, early, head, records, writing>>
      /\ TrcTypeOK /\ CopyTrue /\ Accounted \in Nat /\ Ledger(handed, Accounted, early) /\ rcursor <= head
  BY DrainFields DEF DrainFinish, Placed, TrcInv, TrcTypeOK, TraceUnplaced, LedgerKept
<1>1. lapped \in Nat /\ lapped <= l /\ (lapped < l => drain.keep + lapped >= OldestIntact(head))
  <2>1. OldestIntact(head) \in Nat
    BY <1>0, OldestGoesOn
  <2> HIDE DEF l
  <2> QED
    BY <1>0, <2>1 DEF Lesser, Larger
<1>2. /\ IF kept = <<>>
         THEN pending_' = missed /\ UNCHANGED <<handed, earlyPending>>
         ELSE pending_' = 0 /\ handed' = out /\ earlyPending' = 0
      /\ rcursor' = drain.head /\ drain' = NoDrain
  BY DEF DrainFinish
<1>3. drain.head <= head /\ drain.head \in Nat
  BY <1>0 DEF CopyTrue
<1> HIDE DEF lapped
<1>4. /\ missed \in Nat /\ Len(kept) = l - lapped
      /\ missed + Len(kept) = drain.head - rcursor + pending_
      /\ Ledger(out, early + drain.head, early)
  <2>1. capacity > 0
    BY <1>0
  <2> HIDE DEF Ledger, CopyTrue, TrcTypeOK, Accounted
  <2> QED
    BY <1>0, <1>1, <2>1, HandedOut
<1> HIDE DEF kept, missed, out, l
<1>5. /\ pending_' \in Nat /\ earlyPending' \in Nat
      /\ Accounted' \in Nat /\ Ledger(handed', Accounted', early')
  <2>1. CASE kept = <<>>
    <3>1. Len(kept) = 0
      BY <2>1
    <3>2. Accounted' = Accounted
      BY <1>0, <1>2, <1>3, <1>4, <2>1, <3>1 DEF Accounted
    <3> QED
      BY <1>0, <1>2, <1>4, <2>1, <3>2
  <2>2. CASE kept # <<>>
    <3>1. Accounted' = early + drain.head
      BY <1>0, <1>2, <1>3, <2>2 DEF Accounted
    <3> QED
      BY <1>0, <1>2, <1>3, <1>4, <2>2, <3>1, SMTT(20)
  <2> QED
    BY <2>1, <2>2
<1>6. drain'.pc = "idle"
  BY <1>2 DEF NoDrain
<1>7. TrcTypeOK' /\ TraceUnplaced' /\ CopyTrue'
  BY <1>0, <1>2, <1>3, <1>5, <1>6 DEF TrcInv, TrcTypeOK, TraceUnplaced, CopyTrue
<1>8. SlotsIntact'
  <2>1. (OldestIntact(head))' = OldestIntact(head)
    BY <1>0 DEF OldestIntact
  <2> QED
    BY <1>0, <2>1 DEF TrcInv, SlotsIntact
<1>9. LedgerKept'
  <2>1. (Ledger(handed, Accounted, early))'
    BY <1>5 DEF Ledger, Tally, TellsOf
  <2> QED
    BY <1>0, <1>2, <1>3, <1>5, <1>6, <2>1 DEF LedgerKept
<1> QED
  BY <1>7, <1>8, <1>9 DEF TrcInv

\* What is held goes out when the core is gone.
LEMMA FlushKeeps == TrcInv /\ FlushHeld => TrcInv'
<1> SUFFICES ASSUME TrcInv, FlushHeld PROVE TrcInv'
  OBVIOUS
<1>0. /\ early \in Nat /\ rcursor \in Nat /\ pending_ \in Nat /\ earlyPending \in Nat /\ drain.pc = "idle"
      /\ handed' = handed \o Gap(earlyPending) \o Gap(pending_) /\ pending_' = 0 /\ earlyPending' = 0
      /\ UNCHANGED <<capacity, g_early, early, head, records, writing, drain, rcursor>>
      /\ Accounted \in Nat /\ Ledger(handed, Accounted, early) /\ rcursor <= head
  BY DEF FlushHeld, Placed, TrcInv, TrcTypeOK, LedgerKept
<1>1. Ledger(handed \o Gap(earlyPending), Accounted + earlyPending, early)
  BY <1>0, LedgerGap
<1> DEFINE s == handed \o Gap(earlyPending)
           t == Accounted + earlyPending
<1>2. t \in Nat /\ Ledger(s, t, early)
  BY <1>0, <1>1
<1> HIDE DEF s, t
<1>3. Ledger(s \o Gap(pending_), t + pending_, early)
  BY <1>0, <1>2, LedgerGap
<1>4. t + pending_ = early + rcursor /\ Accounted' = early + rcursor /\ early + rcursor \in Nat
  BY <1>0 DEF Accounted, t
<1>5. (Ledger(handed, Accounted, early))'
  BY <1>0, <1>3, <1>4 DEF Ledger, Tally, TellsOf, s
<1>6. LedgerKept'
  BY <1>0, <1>4, <1>5 DEF LedgerKept
<1>7. SlotsIntact'
  <2>1. (OldestIntact(head))' = OldestIntact(head)
    BY <1>0 DEF OldestIntact
  <2> QED
    BY <1>0, <2>1 DEF TrcInv, SlotsIntact
<1>8. TrcTypeOK' /\ TraceUnplaced' /\ CopyTrue'
  BY <1>0 DEF TrcInv, TrcTypeOK, TraceUnplaced, CopyTrue
<1> QED
  BY <1>6, <1>7, <1>8 DEF TrcInv

\* The account is what the reader was promised.
LEMMA TrcInvMeans == TrcInv => LedgerExact
<1> SUFFICES ASSUME TrcInv PROVE LedgerExact
  OBVIOUS
<1>0. early \in Nat /\ rcursor \in Nat /\ pending_ \in Nat /\ earlyPending \in Nat
  BY DEF TrcInv, TrcTypeOK
<1>1. early = IF capacity > 0 THEN g_early ELSE 0
  BY DEF TrcInv, TraceUnplaced
<1>2. CASE drain.pc = "closed"
  <2>1. handed = <<>> /\ DOMAIN <<>> = {}
    BY <1>2 DEF TrcInv, LedgerKept
  <2> QED
    BY <1>1, <1>2, <2>1 DEF LedgerExact
<1>3. CASE drain.pc # "closed"
  <2>1. Accounted \in Nat /\ Ledger(handed, Accounted, early)
    BY <1>3 DEF TrcInv, LedgerKept
  <2> DEFINE s == handed \o Gap(earlyPending)
             t == Accounted + earlyPending
  <2>2. t \in Nat /\ Ledger(s, t, early)
    BY <1>0, <2>1, LedgerGap
  <2> HIDE DEF s, t
  <2>3. Ledger(s \o Gap(pending_), t + pending_, early)
    BY <1>0, <2>2, LedgerGap
  <2>4. Counted(s \o Gap(pending_)) = t + pending_
    <3> DEFINE c == s \o Gap(pending_)
               n == t + pending_
    <3>1. Ledger(c, n, early) /\ early \in Int
      BY <1>0, <2>3
    <3> HIDE DEF c, n
    <3>2. Counted(c) = n
      BY <3>1, LedgerMeans
    <3> QED
      BY <3>2 DEF c, n
  <2>5. t + pending_ = early + rcursor
    BY <1>0, <2>1 DEF t, Accounted
  <2>6. \A i \in DOMAIN handed : "half1" \in DOMAIN handed[i] =>
          handed[i].half1 = handed[i].half2 /\ early + handed[i].half1 = Counted(SubSeq(handed, 1, i))
    BY <1>0, <2>1, LedgerMeans
  <2> QED
    BY <1>1, <2>4, <2>5, <2>6 DEF LedgerExact, s
<1> QED
  BY <1>2, <1>3

\* Whatever the capacity of the ring and however far the core laps a drain of
\* TraceReader, halves of a record interleaved with halves of its copy: what it
\* hands out is whole and in place, and every record is in it, in a gap or held.
THEOREM LedgerKeptExact == TrcSpec => []LedgerExact
<1>1. TrcInit => TrcInv
  BY TrcInitInv
<1>2. TrcInv /\ [TrcNext]_trcVars => TrcInv'
  <2> SUFFICES ASSUME TrcInv, [TrcNext]_trcVars PROVE TrcInv'
    OBVIOUS
  <2>1. CASE Place \/ EmitUnplaced
    BY <2>1, PlacingKeeps
  <2>2. CASE EmitBody \/ EmitHead
    BY <2>2, EmitKeeps
  <2>3. CASE Attach \/ DrainHead
    BY <2>3, DrainBegins
  <2>4. CASE CopyHalf
    BY <2>4, CopyKeeps
  <2>5. CASE DrainFinish
    BY <2>5, FinishKeeps
  <2>6. CASE FlushHeld
    BY <2>6, FlushKeeps
  <2>7. CASE UNCHANGED trcVars
    BY <2>7 DEF trcVars, TrcInv, TrcTypeOK, TraceUnplaced, SlotsIntact, CopyTrue, LedgerKept, Accounted, OldestIntact, Ledger, Tally, TellsOf
  <2> QED
    BY <2>1, <2>2, <2>3, <2>4, <2>5, <2>6, <2>7 DEF TrcNext, Emit
<1>3. TrcInv => LedgerExact
  BY TrcInvMeans
<1> QED
  BY <1>1, <1>2, <1>3, PTL DEF TrcSpec
=============================================================================
