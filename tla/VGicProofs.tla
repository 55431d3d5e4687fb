----------------------------- MODULE VGicProofs -----------------------------
(***************************************************************************)
(* Theorems about VGic, for every VM, placement of its vCPUs, interrupt    *)
(* set, priorities, number of list registers and mailbox size.             *)
(***************************************************************************)
EXTENDS VGic, SequenceTheorems, FiniteSetTheorems, WellFoundedInduction, TLAPS

-----------------------------------------------------------------------------
(* Lemmas about values.                                                    *)

LEMMA LeastIn ==
  ASSUME NEW S \in SUBSET Vcpus, S # {}
  PROVE  Least(S) \in S
<1> DEFINE lt == OpToRel(<, Nat)
<1>1. S \subseteq Nat
  BY VGicAssumption
<1>2. IsWellFoundedOn(lt, Nat)
  BY NatLessThanWellFounded
<1>3. \A x, y \in Nat : y < x => <<y, x>> \in lt
  BY DEF OpToRel
<1> HIDE DEF lt
<1>4. PICK x \in S : \A y \in S : ~ (<<y, x>> \in lt)
  BY <1>1, <1>2, WFMin
<1>5. ASSUME NEW y \in S PROVE x <= y
  <2>1. x \in Nat /\ y \in Nat
    BY <1>1
  <2>2. ~ (<<y, x>> \in lt)
    BY <1>4
  <2>3. ~ (y < x)
    BY <1>3, <2>1, <2>2
  <2> QED
    BY <2>1, <2>3
<1> QED
  BY <1>5 DEF Least

LEMMA DoType ==
  ASSUME NEW what \in Steps \ {"pend"}, NEW v \in Vcpus
  PROVE  Do(what, v) \in Instr
BY DEF Do, Instr

\* The agenda of a loop holds one instruction, which carries the others.
LEMMA EachType ==
  ASSUME NEW what \in Steps \ {"pend"}, NEW S \in SUBSET Vcpus
  PROVE  Each(what, S) \in Seq(Instr)
<1>1. CASE S = {}
  BY <1>1, EmptySeq DEF Each
<1>2. CASE S # {}
  <2>1. Least(S) \in Vcpus /\ S \ {Least(S)} \in SUBSET Vcpus
    BY <1>2, LeastIn
  <2>2. [Do(what, Least(S)) EXCEPT !.more = S \ {Least(S)}] \in Instr
    BY <2>1 DEF Do, Instr
  <2> QED
    BY <1>2, <2>2 DEF Each
<1> QED
  BY <1>1, <1>2

LEMMA RefreshType ==
  ASSUME NEW v \in Vcpus
  PROVE  Refresh(v) \in Seq(Instr)
<1>1. Do("flush", v) \in Instr /\ Do("wake", v) \in Instr
  BY DoType DEF Steps
<1>2. <<Do("flush", v)>> \in Seq(Instr) /\ <<Do("flush", v), Do("wake", v)>> \in Seq(Instr)
  BY <1>1
<1> QED
  BY <1>2, EmptySeq DEF Refresh

LEMMA NowType ==
  ASSUME agenda \in [Cores -> Seq(Instr)], NEW c \in Cores, agenda[c] # <<>>
  PROVE  /\ Now(c) \in Instr /\ Tail(agenda[c]) \in Seq(Instr)
         /\ Now(c).at \in Vcpus /\ (Now(c).do = "pend" => Now(c).id \in Priv)
         /\ Now(c).more \in SUBSET Vcpus
<1>1. agenda[c] \in Seq(Instr)
  OBVIOUS
<1>2. Now(c) \in Instr /\ Tail(agenda[c]) \in Seq(Instr)
  BY <1>1, HeadTailProperties DEF Now
<1> QED
  BY <1>2 DEF Instr

LEMMA ThenType ==
  ASSUME agenda \in [Cores -> Seq(Instr)], NEW c \in Cores, agenda[c] # <<>>,
         NEW is \in Seq(Instr), Then(c, is)
  PROVE  agenda' \in [Cores -> Seq(Instr)]
BY NowType, ConcatProperties DEF Then

LEMMA EnterType ==
  ASSUME agenda \in [Cores -> Seq(Instr)], NEW c \in Cores, NEW is \in Seq(Instr), Enter(c, is)
  PROVE  agenda' \in [Cores -> Seq(Instr)]
BY DEF Enter

LEMMA AffinityType == ASSUME NEW v \in Vcpus PROVE Affinity[v] \in Cores
BY VGicAssumption

LEMMA ResetTypes ==
  /\ EmptyLrs \in [Lrs -> ListReg] /\ NoTokens \in [Lrs -> Nat]
  /\ ResetRedist \in [pending : SUBSET Priv, enabled : SUBSET Priv]
  /\ ResetDist \in [pending : SUBSET Spis, enabled : SUBSET Spis, route : [Spis -> Vcpus]]
BY VGicAssumption DEF EmptyLrs, FreeLr, ListReg, NoTokens, ResetRedist, ResetDist, Priv

-----------------------------------------------------------------------------
(* Lemmas about delivery.                                                  *)

LEMMA TruthType ==
  ASSUME TypeOK, NEW v \in Vcpus
  PROVE  Truth(v) \in [Lrs -> ListReg]
BY AffinityType DEF TypeOK, Truth

LEMMA WantedType ==
  ASSUME TypeOK, NEW v \in Vcpus
  PROVE  Wanted(v) \subseteq Intids
BY DEF TypeOK, Wanted, Intids

\* A refill fills registers with registers, and takes only interrupts that
\* are wanted and not in flight.
LEMMA RefillType ==
  ASSUME TypeOK, NEW v \in Vcpus, NEW regs \in [Lrs -> ListReg]
  PROVE  /\ Refill(regs, v).regs \in [Lrs -> ListReg]
         /\ Refill(regs, v).tokens \in [Lrs -> Nat]
         /\ Refill(regs, v).placed \subseteq Candidates(regs, v)
         /\ Refill(regs, v).overflow \in BOOLEAN
<1> DEFINE cand    == Candidates(regs, v)
           free    == {i \in Lrs : ~InFlight(regs[i])}
           turn(i) == Cardinality({j \in free : j <= i})
           best(i) == {x \in cand : Rank(x, cand) = turn(i)}
           used    == {i \in free : best(i) # {}}
           pick(i) == CHOOSE x \in best(i) : TRUE
           owes(x) == IF x \in Spis THEN owed[x] ELSE 0
           new(i)  == [st |-> "pending", id |-> pick(i), eoi |-> owes(pick(i)) # 0]
           full    == [i \in Lrs |-> IF i \in used THEN new(i) ELSE ArmEoi(regs[i], v)]
           toks    == [i \in Lrs |-> IF i \in used THEN owes(pick(i)) ELSE token[v][i]]
           placed  == {pick(i) : i \in used}
<1>1. Refill(regs, v) = [regs |-> full, tokens |-> toks, placed |-> placed,
                         overflow |-> placed # cand]
  BY DEF Refill
<1>2. cand \subseteq Intids
  BY WantedType DEF Candidates
<1>3. ASSUME NEW i \in used PROVE pick(i) \in cand
  <2>1. \E x : x \in best(i)
    BY <1>3
  <2>2. pick(i) \in best(i)
    BY <2>1
  <2> QED
    BY <2>2
<1>4. ASSUME NEW x PROVE owes(x) \in Nat
  BY DEF TypeOK
<1>5. ASSUME NEW i \in used PROVE new(i) \in ListReg
  <2>1. pick(i) \in Intids
    BY <1>2, <1>3
  <2>2. (owes(pick(i)) # 0) \in BOOLEAN
    OBVIOUS
  <2> QED
    BY <2>1, <2>2 DEF ListReg
<1>6. ASSUME NEW i \in Lrs PROVE ArmEoi(regs[i], v) \in ListReg
  BY DEF ArmEoi, ListReg
<1>7. full \in [Lrs -> ListReg]
  BY <1>5, <1>6
<1>8. toks \in [Lrs -> Nat]
  <2>1. token[v] \in [Lrs -> Nat]
    BY DEF TypeOK
  <2> QED
    BY <1>4, <2>1
<1>9. placed \subseteq cand
  BY <1>3
<1>10. (placed # cand) \in BOOLEAN
  OBVIOUS
<1> HIDE DEF full, toks, placed
<1> QED
  BY <1>1, <1>7, <1>8, <1>9, <1>10

LEMMA TakeType ==
  ASSUME TypeOK, NEW v \in Vcpus, NEW placed, Take(v, placed)
  PROVE  /\ redist' \in [Vcpus -> [pending : SUBSET Priv, enabled : SUBSET Priv]]
         /\ dist' \in [pending : SUBSET Spis, enabled : SUBSET Spis, route : [Spis -> Vcpus]]
         /\ owed' \in [Spis -> Nat]
BY DEF TypeOK, Take

LEMMA PendedType ==
  ASSUME TypeOK, NEW v \in Vcpus, NEW p \in Priv, Pended(v, p)
  PROVE  redist' \in [Vcpus -> [pending : SUBSET Priv, enabled : SUBSET Priv]]
<1>1. redist \in [Vcpus -> [pending : SUBSET Priv, enabled : SUBSET Priv]]
  BY DEF TypeOK
<1>2. CASE state[v] = "off"
  BY <1>1, <1>2 DEF Pended
<1>3. CASE state[v] # "off"
  <2>1. redist' = [redist EXCEPT ![v].pending = redist[v].pending \cup {p}]
    BY <1>3 DEF Pended
  <2> QED
    BY <1>1, <2>1
<1> QED
  BY <1>2, <1>3

LEMMA FlushType ==
  ASSUME TypeOK, NEW v \in Vcpus, Flush(v)
  PROVE  /\ redist' \in [Vcpus -> [pending : SUBSET Priv, enabled : SUBSET Priv]]
         /\ dist' \in [pending : SUBSET Spis, enabled : SUBSET Spis, route : [Spis -> Vcpus]]
         /\ owed' \in [Spis -> Nat]
         /\ lr' \in [Vcpus -> [Lrs -> ListReg]] /\ hw' \in [Cores -> [Lrs -> ListReg]]
         /\ token' \in [Vcpus -> [Lrs -> Nat]]
         /\ uie' \in [Vcpus -> BOOLEAN] /\ hwUie' \in [Cores -> BOOLEAN]
<1> DEFINE r == Refill(Truth(v), v)
<1>1. /\ r.regs \in [Lrs -> ListReg] /\ r.tokens \in [Lrs -> Nat] /\ r.overflow \in BOOLEAN
  BY TruthType, RefillType
<1>2. Take(v, r.placed)
  BY DEF Flush
<1>3. lr' = [lr EXCEPT ![v] = r.regs] /\ token' = [token EXCEPT ![v] = r.tokens]
  BY DEF Flush
<1>4. \/ /\ hw' = [hw EXCEPT ![Affinity[v]] = r.regs]
         /\ hwUie' = [hwUie EXCEPT ![Affinity[v]] = r.overflow] /\ uie' = uie
      \/ uie' = [uie EXCEPT ![v] = r.overflow] /\ hw' = hw /\ hwUie' = hwUie
  BY DEF Flush
<1> HIDE DEF r
<1>5. lr' \in [Vcpus -> [Lrs -> ListReg]] /\ token' \in [Vcpus -> [Lrs -> Nat]]
  BY <1>1, <1>3 DEF TypeOK
<1>6. hw' \in [Cores -> [Lrs -> ListReg]]
  BY <1>1, <1>4, AffinityType DEF TypeOK
<1>7. uie' \in [Vcpus -> BOOLEAN] /\ hwUie' \in [Cores -> BOOLEAN]
  BY <1>1, <1>4, AffinityType DEF TypeOK
<1> QED
  BY <1>2, <1>5, <1>6, <1>7, TakeType

-----------------------------------------------------------------------------
(* Types: EL2 code.                                                        *)

LEMMA PendType ==
  ASSUME TypeOK, NEW c \in Cores, Pend(c) \/ Reeval(c) \/ Notify(c) \/ Exchange(c)
  PROVE  agenda' \in [Cores -> Seq(Instr)]
<1>1. agenda \in [Cores -> Seq(Instr)] /\ agenda[c] # <<>>
  BY DEF TypeOK, Pend, Reeval, Notify, Exchange, At
<1>2. Refresh(Now(c).at) \in Seq(Instr)
  BY <1>1, NowType, RefreshType
<1>3. Each("reeval", Now(c).more) \in Seq(Instr) /\ Each("notify", Now(c).more) \in Seq(Instr)
  BY <1>1, NowType, EachType DEF Steps
<1>4. /\ Refresh(Now(c).at) \o Each("reeval", Now(c).more) \in Seq(Instr)
      /\ Refresh(Now(c).at) \o Each("notify", Now(c).more) \in Seq(Instr)
  BY <1>2, <1>3, ConcatProperties
<1>5. CASE Pend(c)
  <2>1. Then(c, Refresh(Now(c).at))
    BY <1>5 DEF Pend
  <2> QED
    BY <1>1, <1>2, <2>1, ThenType
<1>6. CASE Reeval(c)
  <2>1. Then(c, Refresh(Now(c).at) \o Each("reeval", Now(c).more))
    BY <1>6 DEF Reeval
  <2> QED
    BY <1>1, <1>4, <2>1, ThenType
<1>7. CASE Notify(c)
  <2>1. \/ Then(c, Refresh(Now(c).at) \o Each("notify", Now(c).more))
        \/ Then(c, Each("notify", Now(c).more))
    BY <1>7 DEF Notify
  <2> QED
    BY <1>1, <1>3, <1>4, <2>1, ThenType
<1>8. CASE Exchange(c)
  <2>1. Each("reeval", dirty[c]) \in Seq(Instr)
    BY EachType DEF TypeOK, Steps
  <2>2. Each("reeval", dirty[c]) \o <<Now(c)>> \in Seq(Instr)
    BY <1>1, <2>1, NowType, ConcatProperties
  <2>3. \/ Then(c, Each("reeval", dirty[c]) \o <<Now(c)>>)
        \/ Then(c, <<>>)
    BY <1>8 DEF Exchange
  <2> QED
    BY <1>1, <2>2, <2>3, ThenType, EmptySeq
<1> QED
  BY <1>5, <1>6, <1>7, <1>8

\* EL2 code leaves every variable within its type.
LEMMA ExecuteType ==
  ASSUME TypeOK, NEW c \in Cores, Execute(c)
  PROVE  TypeOK'
<1>0. agenda \in [Cores -> Seq(Instr)] /\ (agenda[c] # <<>> => Now(c).at \in Vcpus)
  BY NowType DEF TypeOK
<1>1. CASE Pend(c)
  <2>1. agenda' \in [Cores -> Seq(Instr)]
    BY <1>1, PendType
  <2>2. Now(c).at \in Vcpus /\ Now(c).id \in Priv
    BY <1>0, <1>1, NowType DEF Pend, At, Now
  <2>3. redist' \in [Vcpus -> [pending : SUBSET Priv, enabled : SUBSET Priv]]
    BY <1>1, <2>2, PendedType DEF Pend
  <2> QED
    BY <1>1, <2>1, <2>3 DEF Pend, TypeOK, shadow, hard, calls, device, rest
<1>2. CASE DoFlush(c)
  <2>1. agenda[c] # <<>> /\ Flush(Now(c).at) /\ Then(c, <<>>)
    BY <1>2 DEF DoFlush, At
  <2>2. agenda' \in [Cores -> Seq(Instr)]
    BY <1>0, <2>1, ThenType, EmptySeq
  <2> QED
    BY <1>0, <1>2, <2>1, <2>2, FlushType DEF DoFlush, TypeOK, calls, device, rest
<1>3. CASE Wake(c) \/ Sleep(c)
  <2>1. agenda[c] # <<>> /\ Then(c, <<>>) /\ Sync(Now(c).at)
    BY <1>3 DEF Wake, Sleep, At
  <2>2. agenda' \in [Cores -> Seq(Instr)]
    BY <1>0, <2>1, ThenType, EmptySeq
  <2>3. Now(c).at \in Vcpus /\ Truth(Now(c).at) \in [Lrs -> ListReg]
    BY <1>0, <2>1, TruthType
  <2>4. lr' \in [Vcpus -> [Lrs -> ListReg]]
    BY <2>1, <2>3 DEF Sync, TypeOK
  <2>5. state' \in [Vcpus -> States]
    BY <1>3, <2>3 DEF Wake, Sleep, TypeOK, States
  <2> QED
    BY <1>3, <2>2, <2>4, <2>5 DEF Wake, Sleep, TypeOK, banks, hard, calls, device, rest
<1>4. CASE Notify(c)
  <2>1. agenda' \in [Cores -> Seq(Instr)]
    BY <1>4, PendType
  <2>2. agenda[c] # <<>> /\ Now(c).at \in Vcpus
    BY <1>0, <1>4 DEF Notify, At
  <2>3. dirty' \in [Cores -> SUBSET Vcpus]
    <3>1. \/ dirty' = dirty
          \/ \E o \in Cores : dirty' = [dirty EXCEPT ![o] = @ \cup {Now(c).at}]
      BY <1>4, <2>2, AffinityType DEF Notify
    <3>2. \A o \in Cores : dirty[o] \cup {Now(c).at} \in SUBSET Vcpus
      BY <2>2 DEF TypeOK
    <3>3. dirty' = dirty \/ \E o \in Cores, D \in SUBSET Vcpus : dirty' = [dirty EXCEPT ![o] = D]
      BY <3>1, <3>2
    <3> QED
      BY <3>3 DEF TypeOK
  <2>4. \A o \in Cores : (sgi[o] \/ dirty[o] = {}) \in BOOLEAN
    OBVIOUS
  <2>5. \/ sgi' = sgi
        \/ \E o \in Cores : sgi' = [sgi EXCEPT ![o] = @ \/ dirty[o] = {}]
    BY <1>4, <2>2, AffinityType DEF Notify
  <2>6. sgi' \in [Cores -> BOOLEAN]
    BY <2>4, <2>5 DEF TypeOK
  <2> QED
    BY <1>4, <2>1, <2>3, <2>6 DEF Notify, TypeOK, banks, shadow, hard, device, rest
<1>5. CASE Reeval(c)
  <2>1. agenda' \in [Cores -> Seq(Instr)]
    BY <1>5, PendType
  <2> QED
    BY <1>5, <2>1 DEF Reeval, TypeOK, banks, shadow, hard, calls, device, rest
<1>6. CASE Exchange(c)
  <2>1. agenda' \in [Cores -> Seq(Instr)]
    BY <1>6, PendType
  <2> QED
    BY <1>6, <2>1 DEF Exchange, TypeOK, banks, shadow, hard, device, rest
<1>7. CASE Boot(c)
  <2>1. agenda[c] # <<>> /\ Then(c, <<>>) /\ Seed(0) /\ 0 \in Vcpus
    BY <1>7, VGicAssumption DEF Boot, At
  <2>2. agenda' \in [Cores -> Seq(Instr)]
    BY <1>0, <2>1, ThenType, EmptySeq
  <2>3. /\ redist' \in [Vcpus -> [pending : SUBSET Priv, enabled : SUBSET Priv]]
        /\ lr' \in [Vcpus -> [Lrs -> ListReg]] /\ token' \in [Vcpus -> [Lrs -> Nat]]
        /\ uie' \in [Vcpus -> BOOLEAN] /\ state' \in [Vcpus -> States]
    BY <2>1, ResetTypes DEF Seed, TypeOK, States
  <2> QED
    BY <1>7, <2>2, <2>3 DEF Boot, TypeOK, hard, calls, device, rest
<1> QED
  BY <1>1, <1>2, <1>3, <1>4, <1>5, <1>6, <1>7 DEF Execute

-----------------------------------------------------------------------------
(* Types: interrupts.                                                      *)

LEMMA DrainType ==
  ASSUME TypeOK, NEW c \in Cores, NEW v \in Vcpus, DrainEois(c, v)
  PROVE  /\ lr' \in [Vcpus -> [Lrs -> ListReg]] /\ token' \in [Vcpus -> [Lrs -> Nat]]
         /\ hw' \in [Cores -> [Lrs -> ListReg]] /\ armed' \in [Tracked -> BOOLEAN]
<1>1. FreeLr \in ListReg
  BY DEF FreeLr, ListReg
<1>2. lr' \in [Vcpus -> [Lrs -> ListReg]]
  BY <1>1 DEF DrainEois, TypeOK
<1>3. token' \in [Vcpus -> [Lrs -> Nat]]
  BY DEF DrainEois, TypeOK
<1>4. hw' \in [Cores -> [Lrs -> ListReg]]
  BY <1>1 DEF DrainEois, TypeOK
<1>5. armed' \in [Tracked -> BOOLEAN]
  BY DEF DrainEois, TypeOK
<1> QED
  BY <1>2, <1>3, <1>4, <1>5

LEMMA InterruptType ==
  ASSUME TypeOK, NEW c \in Cores, Interrupt(c)
  PROVE  TypeOK'
<1>0. agenda \in [Cores -> Seq(Instr)]
  BY DEF TypeOK
<1>1. CASE CrossCall(c)
  <2>1. Do("exchange", 0) \in Instr
    BY DoType, VGicAssumption DEF Steps
  <2>2. mail[c] \o <<Do("exchange", 0)>> \in Seq(Instr)
    BY <2>1, ConcatProperties DEF TypeOK
  <2>3. agenda' \in [Cores -> Seq(Instr)]
    BY <1>0, <1>1, <2>2, EnterType DEF CrossCall
  <2>4. mail' \in [Cores -> Seq(Instr)] /\ sgi' \in [Cores -> BOOLEAN]
    BY <1>1, EmptySeq DEF CrossCall, TypeOK
  <2> QED
    BY <1>1, <2>3, <2>4 DEF CrossCall, TypeOK, banks, shadow, hard, device, rest
<1>2. CASE HandleMaintenance(c)
  <2>1. resident[c] \in Vcpus /\ DrainEois(c, resident[c])
    BY <1>2 DEF HandleMaintenance
  <2>2. <<Do("flush", resident[c])>> \in Seq(Instr)
    BY <2>1, DoType DEF Steps
  <2>3. agenda' \in [Cores -> Seq(Instr)]
    BY <1>0, <1>2, <2>2, EnterType DEF HandleMaintenance
  <2> QED
    BY <1>2, <2>1, <2>3, DrainType DEF HandleMaintenance, TypeOK, banks, calls, rest
<1>3. CASE StrayMaintenance(c)
  BY <1>3 DEF StrayMaintenance, TypeOK, banks, shadow, hard, calls, device
<1>4. ASSUME NEW s \in Spis, NEW v \in Vcpus, Enter(c, <<Do("notify", v)>>)
      PROVE  agenda' \in [Cores -> Seq(Instr)]
  <2>1. <<Do("notify", v)>> \in Seq(Instr)
    BY DoType DEF Steps
  <2> QED
    BY <1>0, <1>4, <2>1, EnterType
<1>5. \A s \in Spis : dist.route[s] \in Vcpus
  BY DEF TypeOK
<1>6. ASSUME NEW s \in Tracked, DeviceIrq(c, s) PROVE TypeOK'
  <2>0. s \in Spis
    BY VGicAssumption
  <2>1. agenda' \in [Cores -> Seq(Instr)]
    BY <1>0, <1>4, <1>5, <1>6, <2>0 DEF DeviceIrq
  <2>2. armed' \in [Tracked -> BOOLEAN] /\ owed' \in [Spis -> Nat]
    BY <1>6 DEF DeviceIrq, TypeOK
  <2>3. dist' \in [pending : SUBSET Spis, enabled : SUBSET Spis, route : [Spis -> Vcpus]]
    <3>1. dist' = dist \/ dist' = [dist EXCEPT !.pending = @ \cup {s}]
      BY <1>6 DEF DeviceIrq
    <3>2. dist.pending \cup {s} \in SUBSET Spis
      BY <2>0 DEF TypeOK
    <3>3. dist' = dist \/ \E P \in SUBSET Spis : dist' = [dist EXCEPT !.pending = P]
      BY <3>1, <3>2
    <3> QED
      BY <3>3 DEF TypeOK
  <2>4. spent' \in Nat
    BY <1>6 DEF DeviceIrq, Count, TypeOK
  <2> QED
    BY <1>6, <2>1, <2>2, <2>3, <2>4 DEF DeviceIrq, TypeOK, shadow, hard, calls
<1>7. ASSUME NEW s \in Spis, PostSpi(c, s) PROVE TypeOK'
  <2>1. agenda' \in [Cores -> Seq(Instr)]
    BY <1>4, <1>5, <1>7 DEF PostSpi
  <2>2. dist' \in [pending : SUBSET Spis, enabled : SUBSET Spis, route : [Spis -> Vcpus]]
    BY <1>7 DEF PostSpi, TypeOK
  <2>3. spent' \in Nat
    BY <1>7 DEF PostSpi, Count, TypeOK
  <2> QED
    BY <1>7, <2>1, <2>2, <2>3 DEF PostSpi, TypeOK, shadow, hard, calls, device
<1>8. ASSUME NEW v \in Vcpus, NEW p \in Priv, PostPrivate(c, v, p) PROVE TypeOK'
  <2>1. agenda' \in [Cores -> Seq(Instr)]
    BY <1>0, <1>8, RefreshType, EnterType DEF PostPrivate
  <2>2. redist' \in [Vcpus -> [pending : SUBSET Priv, enabled : SUBSET Priv]]
    BY <1>8, PendedType DEF PostPrivate
  <2>3. spent' \in Nat
    BY <1>8 DEF PostPrivate, Count, TypeOK
  <2> QED
    BY <1>8, <2>1, <2>2, <2>3 DEF PostPrivate, TypeOK, shadow, hard, calls, device
<1> QED
  BY <1>1, <1>2, <1>3, <1>6, <1>7, <1>8 DEF Interrupt

-----------------------------------------------------------------------------
(* Types: the guest.                                                       *)

LEMMA DistWritesType ==
  ASSUME TypeOK, NEW d \in DistWrites
  PROVE  d \in [pending : SUBSET Spis, enabled : SUBSET Spis, route : [Spis -> Vcpus]]
<1>1. dist \in [pending : SUBSET Spis, enabled : SUBSET Spis, route : [Spis -> Vcpus]]
  BY DEF TypeOK
<1>2. KeepPending \subseteq Spis
  BY DEF KeepPending
<1>3. \/ \E s \in Spis : \/ d = [dist EXCEPT !.enabled = @ \cup {s}]
                         \/ d = [dist EXCEPT !.enabled = @ \ {s}]
                         \/ d = [dist EXCEPT !.pending = @ \cup {s}]
                         \/ d = [dist EXCEPT !.pending = (@ \ {s}) \cup KeepPending]
      \/ \E s \in Spis, v \in Vcpus : d = [dist EXCEPT !.route[s] = v]
  BY DEF DistWrites, Routes
<1> QED
  BY <1>1, <1>2, <1>3

LEMMA RedistWritesType ==
  ASSUME TypeOK, NEW v \in Vcpus, NEW r \in RedistWrites(v)
  PROVE  r \in [pending : SUBSET Priv, enabled : SUBSET Priv]
<1>1. redist[v] \in [pending : SUBSET Priv, enabled : SUBSET Priv]
  BY DEF TypeOK
<1>2. \E p \in Priv : \/ r = [redist[v] EXCEPT !.enabled = @ \cup {p}]
                      \/ r = [redist[v] EXCEPT !.enabled = @ \ {p}]
                      \/ r = [redist[v] EXCEPT !.pending = @ \cup {p}]
                      \/ r = [redist[v] EXCEPT !.pending = @ \ {p}]
  BY DEF RedistWrites
<1> QED
  BY <1>1, <1>2

LEMMA GuestType ==
  ASSUME TypeOK, NEW c \in Cores, Guest(c)
  PROVE  TypeOK'
<1>0. agenda \in [Cores -> Seq(Instr)]
  BY DEF TypeOK
<1>1. CASE GuestAck(c) \/ GuestEoi(c)
  <2>1. PICK i \in Lrs : \E st \in {"active", "free"} : SetLr(c, i, [hw[c][i] EXCEPT !.st = st])
    BY <1>1 DEF GuestAck, GuestEoi
  <2>2. hw[c] \in [Lrs -> ListReg] /\ hw[c][i] \in ListReg
    BY DEF TypeOK
  <2>3. \A st \in {"active", "free"} : [hw[c][i] EXCEPT !.st = st] \in ListReg
    BY <2>2 DEF ListReg
  <2>4. PICK r \in ListReg : hw' = [hw EXCEPT ![c] = [hw[c] EXCEPT ![i] = r]]
    BY <2>1, <2>3 DEF SetLr
  <2>5. hw' \in [Cores -> [Lrs -> ListReg]]
    BY <2>2, <2>4 DEF TypeOK
  <2> QED
    BY <1>1, <2>5 DEF GuestAck, GuestEoi, TypeOK, banks, shadow, calls, device, rest
<1>2. CASE GuestWfi(c)
  <2>1. Do("flush", resident[c]) \in Instr /\ Do("sleep", resident[c]) \in Instr
    BY <1>2, DoType DEF GuestWfi, Guested, Steps
  <2>2. <<Do("flush", resident[c]), Do("sleep", resident[c])>> \in Seq(Instr)
    BY <2>1
  <2>3. agenda' \in [Cores -> Seq(Instr)]
    BY <1>0, <1>2, <2>2, EnterType DEF GuestWfi
  <2> QED
    BY <1>2, <2>3 DEF GuestWfi, TypeOK, banks, shadow, hard, calls, device, rest
<1>3. CASE DistMmio(c)
  <2>1. agenda' \in [Cores -> Seq(Instr)]
    <3>1. Each("notify", Vcpus) \in Seq(Instr)
      BY EachType DEF Steps
    <3> QED
      BY <1>0, <1>3, <3>1, EnterType DEF DistMmio
  <2>2. dist' \in [pending : SUBSET Spis, enabled : SUBSET Spis, route : [Spis -> Vcpus]]
    BY <1>3, DistWritesType DEF DistMmio
  <2>3. spent' \in Nat
    BY <1>3 DEF DistMmio, Count, TypeOK
  <2> QED
    BY <1>3, <2>1, <2>2, <2>3 DEF DistMmio, TypeOK, shadow, hard, calls, device
<1>4. ASSUME NEW v \in Vcpus, RedistMmio(c, v) PROVE TypeOK'
  <2>1. agenda' \in [Cores -> Seq(Instr)]
    <3>1. <<Do("notify", v)>> \in Seq(Instr)
      BY DoType DEF Steps
    <3> QED
      BY <1>0, <1>4, <3>1, EnterType DEF RedistMmio
  <2>2. redist' \in [Vcpus -> [pending : SUBSET Priv, enabled : SUBSET Priv]]
    <3>1. PICK r \in RedistWrites(v) : redist' = [redist EXCEPT ![v] = r]
      BY <1>4 DEF RedistMmio
    <3>2. r \in [pending : SUBSET Priv, enabled : SUBSET Priv]
      BY RedistWritesType
    <3> QED
      BY <3>1, <3>2 DEF TypeOK
  <2>3. spent' \in Nat
    BY <1>4 DEF RedistMmio, Count, TypeOK
  <2> QED
    BY <1>4, <2>1, <2>2, <2>3 DEF RedistMmio, TypeOK, shadow, hard, calls, device
<1>5. ASSUME NEW v \in Vcpus, NEW p \in Sgis, GuestSgi(c, v, p) PROVE TypeOK'
  <2>0. p \in Priv /\ Affinity[v] \in Cores
    BY AffinityType DEF Priv
  <2>1. spent' \in Nat
    BY <1>5 DEF GuestSgi, Count, TypeOK
  <2>2. CASE Affinity[v] = c
    <3>1. agenda' \in [Cores -> Seq(Instr)]
      BY <1>0, <1>5, <2>2, RefreshType, EnterType DEF GuestSgi
    <3>2. redist' \in [Vcpus -> [pending : SUBSET Priv, enabled : SUBSET Priv]]
      BY <1>5, <2>0, <2>2, PendedType DEF GuestSgi
    <3>3. mail' = mail /\ sgi' = sgi
      BY <1>5, <2>2 DEF GuestSgi
    <3> QED
      BY <1>5, <2>1, <3>1, <3>2, <3>3 DEF GuestSgi, TypeOK, shadow, hard, device
  <2>3. CASE Affinity[v] # c
    <3>1. [Do("pend", v) EXCEPT !.id = p] \in Instr
      BY <2>0 DEF Do, Instr, Steps
    <3>2. mail' = [mail EXCEPT ![Affinity[v]] = Append(@, [Do("pend", v) EXCEPT !.id = p])]
      BY <1>5, <2>3 DEF GuestSgi
    <3>3. mail' \in [Cores -> Seq(Instr)]
      BY <2>0, <3>1, <3>2, AppendProperties DEF TypeOK
    <3>4. sgi' \in [Cores -> BOOLEAN] /\ redist' = redist /\ agenda' = agenda
      BY <1>5, <2>0, <2>3 DEF GuestSgi, TypeOK
    <3> QED
      BY <1>5, <2>1, <3>3, <3>4 DEF GuestSgi, TypeOK, shadow, hard, device
  <2> QED
    BY <2>2, <2>3
<1> QED
  BY <1>1, <1>2, <1>3, <1>4, <1>5 DEF Guest

-----------------------------------------------------------------------------
(* Types: switches and power.                                              *)

LEMMA SavedType ==
  ASSUME TypeOK, NEW c \in Cores, Saved(c)
  PROVE  /\ lr' \in [Vcpus -> [Lrs -> ListReg]] /\ token' \in [Vcpus -> [Lrs -> Nat]]
         /\ uie' \in [Vcpus -> BOOLEAN] /\ armed' \in [Tracked -> BOOLEAN]
<1>1. CASE resident[c] \notin Vcpus
  BY <1>1 DEF Saved, TypeOK
<1>2. CASE resident[c] \in Vcpus
  <2> DEFINE v    == resident[c]
             regs == [i \in Lrs |-> IF i \in Eisr(c) THEN FreeLr ELSE hw[c][i]]
             toks == [i \in Lrs |-> IF i \in Eisr(c) THEN 0 ELSE token[v][i]]
  <2>1. regs \in [Lrs -> ListReg] /\ toks \in [Lrs -> Nat]
    <3>1. FreeLr \in ListReg
      BY DEF FreeLr, ListReg
    <3>2. hw[c] \in [Lrs -> ListReg] /\ token[v] \in [Lrs -> Nat]
      BY <1>2 DEF TypeOK
    <3> QED
      BY <3>1, <3>2
  <2>2. lr' = [lr EXCEPT ![v] = regs] /\ token' = [token EXCEPT ![v] = toks]
    BY <1>2 DEF Saved
  <2> HIDE DEF regs, toks
  <2>3. lr' \in [Vcpus -> [Lrs -> ListReg]] /\ token' \in [Vcpus -> [Lrs -> Nat]]
    BY <1>2, <2>1, <2>2 DEF TypeOK
  <2>4. uie' \in [Vcpus -> BOOLEAN]
    <3>1. uie' = [uie EXCEPT ![v] = hwUie[c]]
      BY <1>2 DEF Saved
    <3>2. uie \in [Vcpus -> BOOLEAN] /\ hwUie[c] \in BOOLEAN
      BY DEF TypeOK
    <3> QED
      BY <3>1, <3>2
  <2>5. armed' \in [Tracked -> BOOLEAN]
    BY <1>2 DEF Saved, TypeOK
  <2> QED
    BY <2>3, <2>4, <2>5
<1> QED
  BY <1>1, <1>2

LEMMA SeedType ==
  ASSUME TypeOK, NEW v \in Vcpus, Seed(v)
  PROVE  /\ redist' \in [Vcpus -> [pending : SUBSET Priv, enabled : SUBSET Priv]]
         /\ lr' \in [Vcpus -> [Lrs -> ListReg]] /\ token' \in [Vcpus -> [Lrs -> Nat]]
         /\ uie' \in [Vcpus -> BOOLEAN] /\ state' \in [Vcpus -> States]
BY ResetTypes DEF Seed, TypeOK, States

LEMMA PowerType ==
  ASSUME TypeOK, NEW c \in Cores, Power(c)
  PROVE  TypeOK'
<1>1. CASE SwitchOut(c)
  <2>1. state' \in [Vcpus -> States]
    BY <1>1 DEF SwitchOut, Parked, TypeOK, States
  <2>2. /\ hw' \in [Cores -> [Lrs -> ListReg]] /\ hwUie' \in [Cores -> BOOLEAN]
        /\ resident' \in [Cores -> Vcpus \cup {None, Other}]
    BY <1>1, ResetTypes DEF SwitchOut, TypeOK
  <2>3. spent' \in Nat
    BY <1>1 DEF SwitchOut, Count, TypeOK
  <2>4. Saved(c)
    BY <1>1 DEF SwitchOut
  <2> QED
    BY <1>1, <2>1, <2>2, <2>3, <2>4, SavedType DEF SwitchOut, TypeOK, banks, calls
<1>2. CASE Resume(c)
  <2>1. state' \in [Vcpus -> States]
    BY <1>2 DEF Resume, TypeOK, States
  <2> QED
    BY <1>2, <2>1 DEF Resume, TypeOK, banks, shadow, hard, calls, device, rest
<1>3. CASE VmReset(c)
  <2>1. <<Do("boot", 0)>> \in Seq(Instr)
    BY DoType, VGicAssumption DEF Steps
  <2>2. agenda' \in [Cores -> Seq(Instr)]
    BY <1>3, <2>1, EnterType DEF VmReset, TypeOK
  <2>3. /\ dist' \in [pending : SUBSET Spis, enabled : SUBSET Spis, route : [Spis -> Vcpus]]
        /\ owed' \in [Spis -> Nat] /\ armed' \in [Tracked -> BOOLEAN] /\ gen' \in Nat
    BY <1>3, ResetTypes DEF VmReset, TypeOK
  <2> QED
    BY <1>3, <2>2, <2>3 DEF VmReset, TypeOK, shadow, hard, calls, rest
<1>4. ASSUME NEW v \in Vcpus, SwitchIn(c, v) PROVE TypeOK'
  <2> DEFINE r == Refill(lr[v], v)
  <2>1. /\ r.regs \in [Lrs -> ListReg] /\ r.tokens \in [Lrs -> Nat] /\ r.overflow \in BOOLEAN
    BY RefillType DEF TypeOK
  <2>2. Take(v, r.placed)
    BY <1>4 DEF SwitchIn
  <2>3. /\ lr' = [lr EXCEPT ![v] = r.regs] /\ token' = [token EXCEPT ![v] = r.tokens]
        /\ uie' = [uie EXCEPT ![v] = r.overflow]
        /\ hw' = [hw EXCEPT ![c] = r.regs] /\ hwUie' = [hwUie EXCEPT ![c] = r.overflow]
    BY <1>4 DEF SwitchIn
  <2> HIDE DEF r
  <2>4. /\ lr' \in [Vcpus -> [Lrs -> ListReg]] /\ token' \in [Vcpus -> [Lrs -> Nat]]
        /\ uie' \in [Vcpus -> BOOLEAN]
    BY <2>1, <2>3 DEF TypeOK
  <2>5. hw' \in [Cores -> [Lrs -> ListReg]] /\ hwUie' \in [Cores -> BOOLEAN]
    BY <2>1, <2>3 DEF TypeOK
  <2>6. resident' \in [Cores -> Vcpus \cup {None, Other}] /\ state' \in [Vcpus -> States]
    BY <1>4 DEF SwitchIn, TypeOK, States
  <2> QED
    BY <1>4, <2>2, <2>4, <2>5, <2>6, TakeType DEF SwitchIn, TypeOK, calls, device, rest
<1>5. ASSUME NEW v \in Vcpus, Retire(c, v) PROVE TypeOK'
  <2>1. state' \in [Vcpus -> States] /\ resident' \in [Cores -> Vcpus \cup {None, Other}]
    BY <1>5 DEF Retire, TypeOK, States
  <2>2. spent' \in Nat
    BY <1>5 DEF Retire, Count, TypeOK
  <2> QED
    BY <1>5, <2>1, <2>2 DEF Retire, TypeOK, banks, shadow, calls, device
<1>6. ASSUME NEW v \in Vcpus, Start(c, v) PROVE TypeOK'
  <2>1. Seed(v)
    BY <1>6 DEF Start
  <2> QED
    BY <1>6, <2>1, SeedType DEF Start, TypeOK, hard, calls, device, rest
<1> QED
  BY <1>1, <1>2, <1>3, <1>4, <1>5, <1>6 DEF Power

-----------------------------------------------------------------------------

LEMMA InitType == Init => TypeOK
<1> SUFFICES ASSUME Init PROVE TypeOK
  OBVIOUS
<1>1. 0 \in Vcpus /\ IsFiniteSet(Vcpus)
  BY VGicAssumption
<1>2. /\ redist \in [Vcpus -> [pending : SUBSET Priv, enabled : SUBSET Priv]]
      /\ dist \in [pending : SUBSET Spis, enabled : SUBSET Spis, route : [Spis -> Vcpus]]
      /\ owed \in [Spis -> Nat]
  BY ResetTypes DEF Init
<1>3. /\ lr \in [Vcpus -> [Lrs -> ListReg]] /\ hw \in [Cores -> [Lrs -> ListReg]]
      /\ token \in [Vcpus -> [Lrs -> Nat]]
  BY ResetTypes DEF Init
<1>4. /\ uie \in [Vcpus -> BOOLEAN] /\ hwUie \in [Cores -> BOOLEAN]
      /\ resident \in [Cores -> Vcpus \cup {None, Other}]
      /\ state \in [Vcpus -> States]
      /\ dirty \in [Cores -> SUBSET Vcpus] /\ sgi \in [Cores -> BOOLEAN]
      /\ armed \in [Tracked -> BOOLEAN] /\ gen \in Nat
      /\ wild \subseteq Cores /\ spent \in Nat
  BY DEF Init, States
<1>5. mail \in [Cores -> Seq(Instr)] /\ agenda \in [Cores -> Seq(Instr)]
  BY EmptySeq DEF Init
<1> QED
  BY <1>2, <1>3, <1>4, <1>5 DEF TypeOK

LEMMA NextType == TypeOK /\ [Next]_vars => TypeOK'
<1> SUFFICES ASSUME TypeOK, [Next]_vars PROVE TypeOK'
  OBVIOUS
<1>1. CASE Next
  BY <1>1, ExecuteType, InterruptType, GuestType, PowerType DEF Next
<1>2. CASE UNCHANGED vars
  BY <1>2 DEF vars, banks, shadow, hard, calls, device, rest, TypeOK
<1> QED
  BY <1>1, <1>2

\* Every variable stays within its type, whatever the guests, the devices and
\* the scheduler do: in particular a route always names a vCPU of the VM and a
\* private interrupt is all a mailbox ever posts.
THEOREM TypeCorrect == Spec => []TypeOK
BY InitType, NextType, PTL DEF Spec

-----------------------------------------------------------------------------
(* A pending interrupt keeps its EOI token, and its pending bit with it.   *)

LEMMA TakeOwed ==
  ASSUME TypeOK, OwedIsPending, NEW v \in Vcpus, NEW placed, Take(v, placed)
  PROVE  OwedIsPending'
<1>1. dist'.pending = dist.pending \ placed
  BY DEF Take, TypeOK
<1>2. owed' = [s \in Spis |-> IF s \in placed THEN 0 ELSE owed[s]]
  BY DEF Take
<1> QED
  BY <1>1, <1>2 DEF OwedIsPending

\* The steps that post, write or refill; the others leave both sides alone.
LEMMA OwedStep ==
  ASSUME TypeOK, OwedIsPending, [Next]_vars
  PROVE  OwedIsPending'
<1>1. ASSUME UNCHANGED <<dist, owed>> PROVE OwedIsPending'
  BY <1>1 DEF OwedIsPending
<1>2. CASE UNCHANGED vars
  BY <1>1, <1>2 DEF vars, banks
<1>3. ASSUME NEW c \in Cores, Execute(c) PROVE OwedIsPending'
  <2>1. CASE DoFlush(c)
    <3>1. Now(c).at \in Vcpus
      BY <2>1, NowType DEF DoFlush, At, TypeOK
    <3>2. Take(Now(c).at, Refill(Truth(Now(c).at), Now(c).at).placed)
      BY <2>1 DEF DoFlush, Flush
    <3> QED
      BY <3>1, <3>2, TakeOwed
  <2>2. CASE Pend(c) \/ Wake(c) \/ Sleep(c) \/ Notify(c) \/ Reeval(c) \/ Exchange(c) \/ Boot(c)
    BY <1>1, <2>2 DEF Pend, Wake, Sleep, Notify, Reeval, Exchange, Boot, banks
  <2> QED
    BY <1>3, <2>1, <2>2 DEF Execute
<1>4. ASSUME NEW c \in Cores, Interrupt(c) PROVE OwedIsPending'
  <2>1. CASE CrossCall(c) \/ HandleMaintenance(c) \/ StrayMaintenance(c)
    BY <1>1, <2>1 DEF CrossCall, HandleMaintenance, StrayMaintenance, banks
  <2>2. ASSUME NEW s \in Tracked, DeviceIrq(c, s) PROVE OwedIsPending'
    <3>1. CASE owed[s] # 0
      BY <1>1, <2>2, <3>1 DEF DeviceIrq
    <3>2. CASE owed[s] = 0
      <4>1. owed' = [owed EXCEPT ![s] = gen] /\ dist' = [dist EXCEPT !.pending = @ \cup {s}]
        BY <2>2, <3>2 DEF DeviceIrq
      <4>2. dist'.pending = dist.pending \cup {s}
        BY <4>1 DEF TypeOK
      <4> QED
        BY <4>1, <4>2 DEF OwedIsPending, TypeOK
    <3> QED
      BY <3>1, <3>2
  <2>3. ASSUME NEW s \in Spis, PostSpi(c, s) PROVE OwedIsPending'
    <3>1. dist'.pending = dist.pending \cup {s} /\ owed' = owed
      BY <2>3 DEF PostSpi, TypeOK
    <3> QED
      BY <3>1 DEF OwedIsPending
  <2>4. ASSUME NEW v \in Vcpus, NEW p \in Priv, PostPrivate(c, v, p) PROVE OwedIsPending'
    BY <1>1, <2>4 DEF PostPrivate
  <2> QED
    BY <1>4, <2>1, <2>2, <2>3, <2>4 DEF Interrupt
<1>5. ASSUME NEW c \in Cores, Guest(c) PROVE OwedIsPending'
  <2>1. CASE GuestAck(c) \/ GuestEoi(c) \/ GuestWfi(c)
    BY <1>1, <2>1 DEF GuestAck, GuestEoi, GuestWfi, banks
  <2>2. ASSUME NEW v \in Vcpus, RedistMmio(c, v) \/ \E p \in Sgis : GuestSgi(c, v, p)
        PROVE  OwedIsPending'
    BY <1>1, <2>2 DEF RedistMmio, GuestSgi
  <2>3. CASE DistMmio(c)
    <3>1. dist' \in DistWrites /\ owed' = owed
      BY <2>3 DEF DistMmio
    <3>2. \/ \E s \in Spis : \/ dist' = [dist EXCEPT !.enabled = @ \cup {s}]
                             \/ dist' = [dist EXCEPT !.enabled = @ \ {s}]
                             \/ dist' = [dist EXCEPT !.pending = @ \cup {s}]
                             \/ dist' = [dist EXCEPT !.pending = (@ \ {s}) \cup KeepPending]
          \/ \E s \in Spis, v \in Vcpus : dist' = [dist EXCEPT !.route[s] = v]
      BY <3>1 DEF DistWrites, Routes
    <3>3. \/ dist.pending \subseteq dist'.pending
          \/ KeepPending \subseteq dist'.pending
      BY <3>2 DEF TypeOK
    <3> QED
      BY <3>1, <3>3 DEF OwedIsPending, KeepPending
  <2> QED
    BY <1>5, <2>1, <2>2, <2>3 DEF Guest
<1>6. ASSUME NEW c \in Cores, Power(c) PROVE OwedIsPending'
  <2>1. CASE SwitchOut(c) \/ Resume(c)
    BY <1>1, <2>1 DEF SwitchOut, Resume, banks
  <2>2. CASE VmReset(c)
    BY <2>2 DEF VmReset, OwedIsPending
  <2>3. ASSUME NEW v \in Vcpus, Retire(c, v) \/ Start(c, v) PROVE OwedIsPending'
    BY <1>1, <2>3 DEF Retire, Start, banks
  <2>4. ASSUME NEW v \in Vcpus, SwitchIn(c, v) PROVE OwedIsPending'
    <3>1. Take(v, Refill(lr[v], v).placed)
      BY <2>4 DEF SwitchIn
    <3> QED
      BY <3>1, TakeOwed
  <2> QED
    BY <1>6, <2>1, <2>2, <2>3, <2>4 DEF Power
<1> QED
  BY <1>2, <1>3, <1>4, <1>5, <1>6 DEF Next

\* An SPI that owes a device its EOI stays pending until a refill moves both
\* into a list register, whatever the guest writes to the distributor.
THEOREM OwedStaysPending == Spec => []OwedIsPending
<1>1. Init => OwedIsPending
  BY DEF Init, OwedIsPending
<1>2. TypeOK /\ OwedIsPending /\ [Next]_vars => OwedIsPending'
  BY OwedStep
<1> QED
  BY <1>1, <1>2, TypeCorrect, PTL DEF Spec

-----------------------------------------------------------------------------
(* No interrupt sits in two list registers.                                *)

Distinct(regs) ==
  \A i, j \in Lrs :
    InFlight(regs[i]) /\ InFlight(regs[j]) /\ regs[i].id = regs[j].id => i = j

\* The registers of a core and the shadow of a vCPU are each without a
\* duplicate: what is resident is in one of them, and a switch copies one over
\* the other, so the invariant speaks of both.
Single ==
  /\ \A v \in Vcpus : Distinct(lr[v])
  /\ \A c \in Cores : Distinct(hw[c])

\* A free register further on has a later turn.
LEMMA TurnsDiffer ==
  ASSUME NEW free \in SUBSET Lrs, NEW i \in free, NEW k \in free, i < k
  PROVE  Cardinality({j \in free : j <= i}) # Cardinality({j \in free : j <= k})
<1> DEFINE low  == {j \in free : j <= i}
           high == {j \in free : j <= k}
<1>1. IsFiniteSet(Lrs) /\ Lrs \subseteq Nat
  <2>1. 1 \in Int /\ LrCount \in Int
    BY VGicAssumption
  <2>2. IsFiniteSet(1..LrCount)
    BY <2>1, FS_Interval
  <2> QED
    BY <2>1, <2>2 DEF Lrs
<1>2. IsFiniteSet(high)
  BY <1>1, FS_Subset
<1>3. low \in SUBSET high
  <2>1. i \in Nat /\ k \in Nat /\ \A j \in free : j \in Nat
    BY <1>1
  <2>2. \A j \in free : j <= i => j <= k
    BY <2>1
  <2> QED
    BY <2>2
<1>4. k \in high /\ k \notin low
  BY <1>1
<1> HIDE DEF low, high
<1>5. Cardinality(low) # Cardinality(high)
  BY <1>2, <1>3, <1>4, FS_Subset
<1> QED
  BY <1>5 DEF low, high

\* Registers in flight only in places where others were, and with their
\* interrupts, are as distinct as the others.
LEMMA DistinctUnder ==
  ASSUME NEW old, NEW new, Distinct(old),
         \A i \in Lrs : InFlight(new[i]) => InFlight(old[i]) /\ new[i].id = old[i].id
  PROVE  Distinct(new)
BY DEF Distinct

LEMMA FreeDistinct == Distinct(EmptyLrs)
BY DEF Distinct, EmptyLrs, InFlight, FreeLr

LEMMA RefillDistinct ==
  ASSUME TypeOK, NEW v \in Vcpus, NEW regs \in [Lrs -> ListReg], Distinct(regs)
  PROVE  Distinct(Refill(regs, v).regs)
<1> DEFINE cand    == Candidates(regs, v)
           free    == {i \in Lrs : ~InFlight(regs[i])}
           turn(i) == Cardinality({j \in free : j <= i})
           best(i) == {x \in cand : Rank(x, cand) = turn(i)}
           used    == {i \in free : best(i) # {}}
           pick(i) == CHOOSE x \in best(i) : TRUE
           owes(x) == IF x \in Spis THEN owed[x] ELSE 0
           new(i)  == [st |-> "pending", id |-> pick(i), eoi |-> owes(pick(i)) # 0]
           full    == [i \in Lrs |-> IF i \in used THEN new(i) ELSE ArmEoi(regs[i], v)]
<1>1. Refill(regs, v).regs = full
  BY DEF Refill
<1>2. ASSUME NEW i \in used PROVE pick(i) \in cand /\ Rank(pick(i), cand) = turn(i)
  <2>1. \E x : x \in best(i)
    BY <1>2
  <2>2. pick(i) \in best(i)
    BY <2>1
  <2> QED
    BY <2>2
<1>3. ASSUME NEW i \in used, NEW j \in used, pick(i) = pick(j) PROVE i = j
  <2>1. turn(i) = turn(j)
    BY <1>2, <1>3
  <2>2. i \in Nat /\ j \in Nat /\ free \in SUBSET Lrs
    BY VGicAssumption DEF Lrs
  <2>3. ~ (i < j) /\ ~ (j < i)
    BY <2>1, <2>2, TurnsDiffer
  <2> QED
    BY <2>2, <2>3
<1>4. ASSUME NEW i \in used, NEW j \in Lrs, InFlight(regs[j]) PROVE pick(i) # regs[j].id
  BY <1>2, <1>4 DEF Candidates, FlightIds
<1>5. ASSUME NEW i \in used PROVE full[i].id = pick(i)
  BY <1>5
<1>6. ASSUME NEW i \in Lrs, i \notin used, InFlight(full[i])
      PROVE  InFlight(regs[i]) /\ full[i].id = regs[i].id
  <2>1. full[i] = ArmEoi(regs[i], v)
    BY <1>6
  <2>2. regs[i] \in ListReg
    OBVIOUS
  <2>3. ArmEoi(regs[i], v).st = regs[i].st /\ ArmEoi(regs[i], v).id = regs[i].id
    BY <2>2 DEF ArmEoi, ListReg
  <2> HIDE DEF full
  <2> QED
    BY <1>6, <2>1, <2>3 DEF InFlight
<1> SUFFICES ASSUME NEW i \in Lrs, NEW j \in Lrs, InFlight(full[i]), InFlight(full[j]),
                    full[i].id = full[j].id
             PROVE  i = j
  BY <1>1 DEF Distinct
<1> HIDE DEF full, used, pick
<1>7. CASE i \in used /\ j \in used
  BY <1>3, <1>5, <1>7
<1>8. CASE i \in used /\ j \notin used
  BY <1>4, <1>5, <1>6, <1>8
<1>9. CASE i \notin used /\ j \in used
  BY <1>4, <1>5, <1>6, <1>9
<1>10. CASE i \notin used /\ j \notin used
  BY <1>6, <1>10 DEF Distinct
<1> QED
  BY <1>7, <1>8, <1>9, <1>10

LEMMA TruthDistinct ==
  ASSUME TypeOK, Single, NEW v \in Vcpus
  PROVE  Distinct(Truth(v))
BY AffinityType DEF Single, Truth

\* A shadow or a bank that is replaced as a whole.
LEMMA ShadowStep ==
  ASSUME TypeOK, Single, NEW v \in Vcpus, NEW regs, Distinct(regs), lr' = [lr EXCEPT ![v] = regs]
  PROVE  \A w \in Vcpus : Distinct(lr'[w])
BY DEF TypeOK, Single

LEMMA BankStep ==
  ASSUME TypeOK, Single, NEW c \in Cores, NEW regs, Distinct(regs), hw' = [hw EXCEPT ![c] = regs]
  PROVE  \A d \in Cores : Distinct(hw'[d])
BY DEF TypeOK, Single

LEMMA SingleStep ==
  ASSUME TypeOK, Single, [Next]_vars
  PROVE  Single'
<1>1. ASSUME UNCHANGED lr PROVE \A v \in Vcpus : Distinct(lr'[v])
  BY <1>1 DEF Single
<1>2. ASSUME UNCHANGED hw PROVE \A c \in Cores : Distinct(hw'[c])
  BY <1>2 DEF Single
<1>3. ASSUME UNCHANGED <<lr, hw>> PROVE Single'
  BY <1>1, <1>2, <1>3 DEF Single, Distinct
<1>4. ASSUME \A v \in Vcpus : Distinct(lr'[v]), \A c \in Cores : Distinct(hw'[c]) PROVE Single'
  BY <1>4 DEF Single, Distinct
<1>5. CASE UNCHANGED vars
  BY <1>3, <1>5 DEF vars, shadow, hard
<1>6. ASSUME NEW c \in Cores, Execute(c) PROVE Single'
  <2>1. CASE DoFlush(c)
    <3> DEFINE v == Now(c).at
               r == Refill(Truth(v), v)
    <3>1. v \in Vcpus /\ Flush(v)
      BY <2>1, NowType DEF DoFlush, At, TypeOK
    <3>2. Distinct(r.regs)
      BY <3>1, TruthType, TruthDistinct, RefillDistinct
    <3>3. lr' = [lr EXCEPT ![v] = r.regs]
      BY <3>1 DEF Flush
    <3>4. hw' = hw \/ hw' = [hw EXCEPT ![Affinity[v]] = r.regs]
      BY <3>1 DEF Flush
    <3> HIDE DEF v, r
    <3> QED
      BY <1>2, <1>4, <3>1, <3>2, <3>3, <3>4, ShadowStep, BankStep, AffinityType
  <2>2. CASE Wake(c) \/ Sleep(c)
    <3>1. Now(c).at \in Vcpus /\ lr' = [lr EXCEPT ![Now(c).at] = Truth(Now(c).at)] /\ hw' = hw
      BY <2>2, NowType DEF Wake, Sleep, At, Sync, TypeOK, hard
    <3> QED
      BY <1>2, <1>4, <3>1, TruthDistinct, ShadowStep
  <2>3. CASE Boot(c)
    <3>1. lr' = [lr EXCEPT ![0] = EmptyLrs] /\ hw' = hw /\ 0 \in Vcpus
      BY <2>3, VGicAssumption DEF Boot, Seed, hard
    <3> QED
      BY <1>2, <1>4, <3>1, FreeDistinct, ShadowStep
  <2>4. CASE Pend(c) \/ Notify(c) \/ Reeval(c) \/ Exchange(c)
    BY <1>3, <2>4 DEF Pend, Notify, Reeval, Exchange, shadow, hard
  <2> QED
    BY <1>6, <2>1, <2>2, <2>3, <2>4 DEF Execute
<1>7. ASSUME NEW c \in Cores, Interrupt(c) PROVE Single'
  <2>1. CASE HandleMaintenance(c)
    <3> DEFINE v    == resident[c]
               kept == [i \in Lrs |-> IF i \in Eisr(c) THEN FreeLr ELSE lr[v][i]]
               left == [i \in Lrs |-> IF i \in Eisr(c) THEN FreeLr ELSE hw[c][i]]
    <3>1. v \in Vcpus /\ lr' = [lr EXCEPT ![v] = kept] /\ hw' = [hw EXCEPT ![c] = left]
      BY <2>1 DEF HandleMaintenance, DrainEois
    <3>2. Distinct(lr[v]) /\ Distinct(hw[c])
      BY <3>1 DEF Single
    <3>3. \A i \in Lrs : InFlight(kept[i]) => InFlight(lr[v][i]) /\ kept[i].id = lr[v][i].id
      BY DEF InFlight, FreeLr
    <3>6. \A i \in Lrs : InFlight(left[i]) => InFlight(hw[c][i]) /\ left[i].id = hw[c][i].id
      BY DEF InFlight, FreeLr
    <3> HIDE DEF v, kept, left
    <3>4. Distinct(kept)
      BY <3>2, <3>3, DistinctUnder
    <3>5. Distinct(left)
      BY <3>2, <3>6, DistinctUnder
    <3> QED
      BY <1>4, <3>1, <3>4, <3>5, ShadowStep, BankStep
  <2>2. CASE CrossCall(c) \/ StrayMaintenance(c)
    BY <1>3, <2>2 DEF CrossCall, StrayMaintenance, shadow, hard
  <2>3. ASSUME NEW s \in Spis, DeviceIrq(c, s) \/ PostSpi(c, s) PROVE Single'
    BY <1>3, <2>3 DEF DeviceIrq, PostSpi, shadow, hard
  <2>4. ASSUME NEW v \in Vcpus, NEW p \in Priv, PostPrivate(c, v, p) PROVE Single'
    BY <1>3, <2>4 DEF PostPrivate, shadow, hard
  <2> QED
    BY <1>7, <2>1, <2>2, <2>3, <2>4, VGicAssumption DEF Interrupt
<1>8. ASSUME NEW c \in Cores, Guest(c) PROVE Single'
  <2>1. CASE GuestAck(c) \/ GuestEoi(c)
    <3>1. PICK i \in Lrs : \E st \in {"active", "free"} :
                 InFlight(hw[c][i]) /\ SetLr(c, i, [hw[c][i] EXCEPT !.st = st])
      BY <2>1 DEF GuestAck, GuestEoi, InFlight
    <3>2. PICK st \in {"active", "free"} :
                 InFlight(hw[c][i]) /\ SetLr(c, i, [hw[c][i] EXCEPT !.st = st])
      BY <3>1
    <3> DEFINE left == [hw[c] EXCEPT ![i] = [hw[c][i] EXCEPT !.st = st]]
    <3>3. hw' = [hw EXCEPT ![c] = left] /\ lr' = lr
      BY <2>1, <3>2 DEF SetLr, GuestAck, GuestEoi, shadow
    <3>4. hw[c] \in [Lrs -> ListReg] /\ hw[c][i] \in ListReg
      BY DEF TypeOK
    <3>5. \A j \in Lrs : InFlight(left[j]) => InFlight(hw[c][j]) /\ left[j].id = hw[c][j].id
      BY <3>2, <3>4 DEF ListReg
    <3>6. Distinct(hw[c])
      BY DEF Single
    <3> HIDE DEF left
    <3>7. Distinct(left)
      BY <3>5, <3>6, DistinctUnder
    <3> QED
      BY <1>1, <1>4, <3>3, <3>7, BankStep
  <2>2. CASE GuestWfi(c) \/ DistMmio(c)
    BY <1>3, <2>2 DEF GuestWfi, DistMmio, shadow, hard
  <2>3. ASSUME NEW v \in Vcpus, RedistMmio(c, v) \/ \E p \in Sgis : GuestSgi(c, v, p) PROVE Single'
    BY <1>3, <2>3 DEF RedistMmio, GuestSgi, shadow, hard
  <2> QED
    BY <1>8, <2>1, <2>2, <2>3 DEF Guest
<1>9. ASSUME NEW c \in Cores, Power(c) PROVE Single'
  <2>1. CASE SwitchOut(c)
    <3>1. hw' = [hw EXCEPT ![c] = EmptyLrs]
      BY <2>1 DEF SwitchOut
    <3>2. \A v \in Vcpus : Distinct(lr'[v])
      <4>1. CASE resident[c] \notin Vcpus
        BY <1>1, <2>1, <4>1 DEF SwitchOut, Saved
      <4>2. CASE resident[c] \in Vcpus
        <5> DEFINE v    == resident[c]
                   kept == [i \in Lrs |-> IF i \in Eisr(c) THEN FreeLr ELSE hw[c][i]]
        <5>1. lr' = [lr EXCEPT ![v] = kept]
          BY <2>1, <4>2 DEF SwitchOut, Saved
        <5>2. \A i \in Lrs : InFlight(kept[i]) => InFlight(hw[c][i]) /\ kept[i].id = hw[c][i].id
          BY DEF InFlight, FreeLr
        <5>3. Distinct(hw[c])
          BY DEF Single
        <5> HIDE DEF kept
        <5>4. Distinct(kept)
          BY <5>2, <5>3, DistinctUnder
        <5> QED
          BY <4>2, <5>1, <5>4, ShadowStep
      <4> QED
        BY <4>1, <4>2
    <3> QED
      BY <1>4, <3>1, <3>2, FreeDistinct, BankStep
  <2>2. ASSUME NEW v \in Vcpus, SwitchIn(c, v) PROVE Single'
    <3> DEFINE r == Refill(lr[v], v)
    <3>1. lr' = [lr EXCEPT ![v] = r.regs] /\ hw' = [hw EXCEPT ![c] = r.regs]
      BY <2>2 DEF SwitchIn
    <3>2. lr[v] \in [Lrs -> ListReg] /\ Distinct(lr[v])
      BY DEF TypeOK, Single
    <3>3. Distinct(r.regs)
      BY <3>2, RefillDistinct
    <3> HIDE DEF r
    <3> QED
      BY <1>4, <3>1, <3>3, ShadowStep, BankStep
  <2>3. ASSUME NEW v \in Vcpus, Start(c, v) PROVE Single'
    <3>1. lr' = [lr EXCEPT ![v] = EmptyLrs] /\ hw' = hw
      BY <2>3 DEF Start, Seed, hard
    <3> QED
      BY <1>2, <1>4, <3>1, FreeDistinct, ShadowStep
  <2>4. CASE Resume(c) \/ VmReset(c)
    BY <1>3, <2>4 DEF Resume, VmReset, shadow, hard
  <2>5. ASSUME NEW v \in Vcpus, Retire(c, v) PROVE Single'
    BY <1>3, <2>5 DEF Retire, shadow
  <2> QED
    BY <1>9, <2>1, <2>2, <2>3, <2>4, <2>5 DEF Power
<1> QED
  BY <1>5, <1>6, <1>7, <1>8, <1>9 DEF Next

\* refill() never injects an interrupt that is still in flight, whatever moves
\* between the shadow, the hardware and the pending words.
THEOREM NeverInjectedTwice == Spec => []NoDoubleInjection
<1>1. Init => Single
  BY FreeDistinct DEF Init, Single
<1>2. TypeOK /\ Single /\ [Next]_vars => Single'
  BY SingleStep
<1>3. TypeOK /\ Single => NoDoubleInjection
  BY TruthDistinct DEF NoDoubleInjection, Distinct
<1> QED
  BY <1>1, <1>2, <1>3, TypeCorrect, PTL DEF Spec

-----------------------------------------------------------------------------
(* The token of a device interrupt is in one place.                        *)

\* Register i of a vCPU that is on carries the token of device interrupt s.
Holds(v, i, s) == state[v] # "off" /\ token[v][i] = gen /\ Truth(v)[i].id = s

\* EL2 code lies with the core of the vCPU it is about, and what refills,
\* wakes or parks a vCPU finds it on.
Rightly(c, i) ==
  /\ i.do \in {"flush", "wake", "sleep"} => Affinity[i.at] = c /\ state[i.at] # "off"
  /\ i.do \in {"pend", "reeval"} => Affinity[i.at] = c
  /\ i.do = "reeval" => \A v \in i.more : Affinity[v] = c
Located ==
  \A c \in Cores :
    /\ resident[c] \in Vcpus => Affinity[resident[c]] = c /\ state[resident[c]] # "off"
    /\ \A v \in dirty[c] : Affinity[v] = c
    /\ \A k \in DOMAIN agenda[c] : Rightly(c, agenda[c][k])
    /\ \A k \in DOMAIN mail[c] : mail[c][k].do = "pend" /\ Affinity[mail[c][k].at] = c

\* Tokens are of the present generation, except in the registers a vCPU that
\* is off has left behind.
Present ==
  /\ gen # 0
  /\ \A s \in Spis : owed[s] \in {0, gen} /\ (owed[s] # 0 => s \in Tracked)
  /\ \A v \in Vcpus : state[v] # "off" => \A i \in Lrs : token[v][i] \in {0, gen}

\* The line unmasked, a token bound to the distributor, or one register that
\* holds it.
Exclusive ==
  \A s \in Tracked :
    /\ armed[s] \/ owed[s] # 0 => \A v \in Vcpus, i \in Lrs : ~Holds(v, i, s)
    /\ ~(armed[s] /\ owed[s] # 0)
    /\ \A v, w \in Vcpus, i, j \in Lrs : Holds(v, i, s) /\ Holds(w, j, s) => v = w /\ i = j

Bound == Located /\ Present /\ Exclusive

\* What a refill does to identities and tokens: an interrupt it places, in
\* one of the used registers, brings its token along and goes to one register;
\* the others keep both.
Refilled(regs, v, r, used) ==
  /\ \A i \in used : /\ r.regs[i].id \in r.placed
                     /\ r.tokens[i] = IF r.regs[i].id \in Spis THEN owed[r.regs[i].id] ELSE 0
  /\ \A i, j \in used : r.regs[i].id = r.regs[j].id => i = j
  /\ \A i \in Lrs \ used : r.regs[i].id = regs[i].id /\ r.tokens[i] = token[v][i]

LEMMA RefillTokens ==
  ASSUME TypeOK, NEW v \in Vcpus, NEW regs \in [Lrs -> ListReg]
  PROVE  \E used \in SUBSET Lrs : Refilled(regs, v, Refill(regs, v), used)
<1> DEFINE cand    == Candidates(regs, v)
           free    == {i \in Lrs : ~InFlight(regs[i])}
           turn(i) == Cardinality({j \in free : j <= i})
           best(i) == {x \in cand : Rank(x, cand) = turn(i)}
           used    == {i \in free : best(i) # {}}
           pick(i) == CHOOSE x \in best(i) : TRUE
           owes(x) == IF x \in Spis THEN owed[x] ELSE 0
           new(i)  == [st |-> "pending", id |-> pick(i), eoi |-> owes(pick(i)) # 0]
           full    == [i \in Lrs |-> IF i \in used THEN new(i) ELSE ArmEoi(regs[i], v)]
           toks    == [i \in Lrs |-> IF i \in used THEN owes(pick(i)) ELSE token[v][i]]
           placed  == {pick(i) : i \in used}
<1>1. /\ Refill(regs, v).regs = full /\ Refill(regs, v).tokens = toks
      /\ Refill(regs, v).placed = placed
  BY DEF Refill
<1>2. ASSUME NEW i \in used PROVE pick(i) \in cand /\ Rank(pick(i), cand) = turn(i)
  <2>1. \E x : x \in best(i)
    BY <1>2
  <2>2. pick(i) \in best(i)
    BY <2>1
  <2> QED
    BY <2>2
<1>3. ASSUME NEW i \in used, NEW j \in used, pick(i) = pick(j) PROVE i = j
  <2>1. turn(i) = turn(j)
    BY <1>2, <1>3
  <2>2. i \in Nat /\ j \in Nat /\ free \in SUBSET Lrs
    BY VGicAssumption DEF Lrs
  <2>3. ~ (i < j) /\ ~ (j < i)
    BY <2>1, <2>2, TurnsDiffer
  <2> QED
    BY <2>2, <2>3
<1>4. ASSUME NEW i \in used PROVE full[i].id = pick(i) /\ toks[i] = owes(pick(i)) /\ pick(i) \in placed
  BY <1>4
<1>5. ASSUME NEW i \in Lrs \ used PROVE full[i].id = regs[i].id /\ toks[i] = token[v][i]
  <2>1. full[i] = ArmEoi(regs[i], v) /\ toks[i] = token[v][i]
    BY <1>5
  <2>2. regs[i] \in ListReg
    OBVIOUS
  <2>3. ArmEoi(regs[i], v).id = regs[i].id
    BY <2>2 DEF ArmEoi, ListReg
  <2> HIDE DEF full, toks
  <2> QED
    BY <2>1, <2>3
<1>6. used \in SUBSET Lrs
  OBVIOUS
<1> HIDE DEF full, toks, placed, used, pick
<1>7. ASSUME NEW i \in used
      PROVE  /\ full[i].id \in placed
             /\ toks[i] = IF full[i].id \in Spis THEN owed[full[i].id] ELSE 0
  BY <1>4, <1>7
<1>8. ASSUME NEW i \in used, NEW j \in used, full[i].id = full[j].id PROVE i = j
  BY <1>3, <1>4, <1>8
<1> HIDE DEF owes
<1>9. Refilled(regs, v, Refill(regs, v), used)
  BY <1>1, <1>5, <1>7, <1>8 DEF Refilled
<1> QED
  BY <1>6, <1>9

\* A refill of the registers a vCPU has: whoever carries a token afterwards
\* carried it before, or took it from the distributor.
LEMMA RefillHolds ==
  ASSUME TypeOK, Present, NEW v \in Vcpus, state[v] # "off",
         NEW r, r = Refill(Truth(v), v), Take(v, r.placed), token' = [token EXCEPT ![v] = r.tokens],
         NEW i \in Lrs, NEW s \in Tracked, r.regs[i].id = s, r.tokens[i] = gen
  PROVE  \/ Holds(v, i, s)
         \/ /\ owed[s] # 0 /\ owed'[s] = 0
            /\ \A j \in Lrs : r.regs[j].id = s /\ r.tokens[j] = gen => i = j \/ Holds(v, j, s)
<1>0. Truth(v) \in [Lrs -> ListReg] /\ s \in Spis
  BY TruthType, VGicAssumption
<1>1. PICK used \in SUBSET Lrs : Refilled(Truth(v), v, r, used)
  BY <1>0, RefillTokens
<1>2. CASE i \notin used
  BY <1>1, <1>2 DEF Holds, Refilled
<1>3. CASE i \in used
  <2>1. s \in r.placed /\ owed[s] = gen
    BY <1>0, <1>1, <1>3 DEF Refilled
  <2>2. owed[s] # 0 /\ owed'[s] = 0
    BY <1>0, <2>1 DEF Present, Take
  <2>3. ASSUME NEW j \in Lrs, r.regs[j].id = s, r.tokens[j] = gen PROVE i = j \/ Holds(v, j, s)
    BY <1>1, <1>3, <2>3 DEF Holds, Refilled
  <2> QED
    BY <2>2, <2>3
<1> QED
  BY <1>2, <1>3

\* The registers of a vCPU are replaced by refilled ones.
LEMMA RefillExclusive ==
  ASSUME TypeOK, Present, Exclusive, NEW v \in Vcpus, state[v] # "off",
         NEW r, r = Refill(Truth(v), v), Take(v, r.placed), token' = [token EXCEPT ![v] = r.tokens],
         Truth(v)' = r.regs, \A w \in Vcpus : w # v => Truth(w)' = Truth(w),
         \A w \in Vcpus : state'[w] = "off" <=> state[w] = "off", UNCHANGED <<armed, gen>>
  PROVE  Exclusive' /\ Present'
<1>0. \A s \in Tracked : s \in Spis
  BY VGicAssumption
<1>1. /\ token \in [Vcpus -> [Lrs -> Nat]] /\ Truth(v) \in [Lrs -> ListReg]
      /\ \A w \in Vcpus : token'[w] = IF w = v THEN r.tokens ELSE token[w]
  BY TruthType DEF TypeOK
<1>2. \A s \in Spis : owed'[s] \in {0, owed[s]}
  BY DEF Take
<1>3. ASSUME NEW w \in Vcpus, NEW i \in Lrs, NEW s \in Tracked, w # v PROVE Holds(w, i, s)' => Holds(w, i, s)
  BY <1>1, <1>3 DEF Holds
<1>4. ASSUME NEW i \in Lrs, NEW s \in Tracked, Holds(v, i, s)'
      PROVE  \/ Holds(v, i, s)
             \/ /\ owed[s] # 0 /\ owed'[s] = 0
                /\ \A j \in Lrs : Holds(v, j, s)' => i = j \/ Holds(v, j, s)
  <2>1. r.regs[i].id = s /\ r.tokens[i] = gen
    BY <1>1, <1>4 DEF Holds
  <2>2. ASSUME NEW j \in Lrs, Holds(v, j, s)' PROVE r.regs[j].id = s /\ r.tokens[j] = gen
    BY <1>1, <2>2 DEF Holds
  <2>3. \/ Holds(v, i, s)
        \/ /\ owed[s] # 0 /\ owed'[s] = 0
           /\ \A j \in Lrs : r.regs[j].id = s /\ r.tokens[j] = gen => i = j \/ Holds(v, j, s)
    BY <2>1, RefillHolds
  <2> QED
    BY <2>2, <2>3
<1>5. ASSUME NEW s \in Tracked PROVE
        /\ armed'[s] \/ owed'[s] # 0 => \A w \in Vcpus, i \in Lrs : ~Holds(w, i, s)'
        /\ ~(armed'[s] /\ owed'[s] # 0)
        /\ \A w, u \in Vcpus, i, j \in Lrs : Holds(w, i, s)' /\ Holds(u, j, s)' => w = u /\ i = j
  <2>1. ~(armed'[s] /\ owed'[s] # 0)
    BY <1>0, <1>2 DEF Exclusive
  <2>2. ASSUME armed'[s] \/ owed'[s] # 0, NEW w \in Vcpus, NEW i \in Lrs PROVE ~Holds(w, i, s)'
    <3>1. armed[s] \/ owed[s] # 0
      BY <1>0, <1>2, <2>2
    <3>2. ~Holds(w, i, s)
      BY <3>1 DEF Exclusive
    <3>3. armed[s] => owed[s] = 0
      BY DEF Exclusive
    <3> QED
      BY <1>3, <1>4, <2>2, <3>2, <3>3
  <2>3. ASSUME NEW w \in Vcpus, NEW u \in Vcpus, NEW i \in Lrs, NEW j \in Lrs, Holds(w, i, s)', Holds(u, j, s)'
        PROVE  w = u /\ i = j
    <3>1. CASE Holds(w, i, s) /\ Holds(u, j, s)
      BY <3>1 DEF Exclusive
    <3>2. CASE ~Holds(w, i, s)
      <4>1. w = v
        BY <1>3, <2>3, <3>2
      <4>2. owed[s] # 0 /\ \A k \in Lrs : Holds(v, k, s)' => i = k \/ Holds(v, k, s)
        BY <1>4, <2>3, <3>2, <4>1
      <4>3. ~Holds(u, j, s)
        BY <4>2 DEF Exclusive
      <4>4. u = v
        BY <1>3, <2>3, <4>3
      <4> QED
        BY <2>3, <4>1, <4>2, <4>3, <4>4
    <3>3. CASE ~Holds(u, j, s)
      <4>1. u = v
        BY <1>3, <2>3, <3>3
      <4>2. owed[s] # 0 /\ \A k \in Lrs : Holds(v, k, s)' => j = k \/ Holds(v, k, s)
        BY <1>4, <2>3, <3>3, <4>1
      <4>3. ~Holds(w, i, s)
        BY <4>2 DEF Exclusive
      <4>4. w = v
        BY <1>3, <2>3, <4>3
      <4> QED
        BY <2>3, <4>1, <4>2, <4>3, <4>4
    <3> QED
      BY <3>1, <3>2, <3>3
  <2> QED
    BY <2>1, <2>2, <2>3
<1>6. Present'
  <2>1. \A s \in Spis : owed'[s] \in {0, gen'} /\ (owed'[s] # 0 => s \in Tracked)
    BY <1>2 DEF Present
  <2>2. ASSUME NEW w \in Vcpus, state'[w] # "off", NEW i \in Lrs PROVE token'[w][i] \in {0, gen'}
    <3>1. CASE w # v
      BY <1>1, <2>2, <3>1 DEF Present
    <3>2. CASE w = v
      <4>1. PICK used \in SUBSET Lrs : Refilled(Truth(v), v, r, used)
        BY <1>1, RefillTokens
      <4>2. r.tokens[i] \in {0, gen}
        BY <4>1 DEF Present, Refilled
      <4> QED
        BY <1>1, <3>2, <4>2
    <3> QED
      BY <3>1, <3>2
  <2> QED
    BY <2>1, <2>2 DEF Present
<1> QED
  BY <1>5, <1>6 DEF Exclusive

-----------------------------------------------------------------------------
(* Where EL2 code lies.                                                    *)

\* Only retirement turns a vCPU off.
Stays == \A v \in Vcpus : state'[v] = "off" => state[v] = "off"

LEMMA RightlyStays ==
  ASSUME agenda \in [Cores -> Seq(Instr)], Stays, NEW c \in Cores, NEW i \in Instr, Rightly(c, i)
  PROVE  Rightly(c, i)'
BY DEF Rightly, Stays, Instr

\* A loop carries its vCPUs in one instruction.
LEMMA EachRightly ==
  ASSUME NEW c \in Cores, NEW what \in {"notify", "reeval"}, NEW S \in SUBSET Vcpus,
         what = "reeval" => \A v \in S : Affinity[v] = c
  PROVE  \A k \in DOMAIN Each(what, S) : Rightly(c, Each(what, S)[k])
<1>1. CASE S = {}
  BY <1>1, EmptySeq DEF Each
<1>2. CASE S # {}
  <2> DEFINE i == [Do(what, Least(S)) EXCEPT !.more = S \ {Least(S)}]
  <2>1. Least(S) \in S
    BY <1>2, LeastIn
  <2>2. i.do = what /\ i.at = Least(S) /\ i.more = S \ {Least(S)}
    BY DEF Do
  <2>3. Each(what, S) = <<i>>
    BY <1>2 DEF Each
  <2> HIDE DEF i
  <2>4. Rightly(c, i)
    BY <2>1, <2>2 DEF Rightly
  <2> QED
    BY <2>3, <2>4
<1> QED
  BY <1>1, <1>2

LEMMA RefreshRightly ==
  ASSUME NEW c \in Cores, NEW v \in Vcpus, Affinity[v] = c
  PROVE  \A k \in DOMAIN Refresh(v) : Rightly(c, Refresh(v)[k])
<1> DEFINE f == Do("flush", v)
           w == Do("wake", v)
<1>1. f.do = "flush" /\ f.at = v /\ w.do = "wake" /\ w.at = v
  BY DEF Do
<1>2. /\ state[v] = "off" => Refresh(v) = <<>>
      /\ state[v] # "off" => Refresh(v) = <<f>> \/ Refresh(v) = <<f, w>>
  BY DEF Refresh
<1> HIDE DEF f, w
<1>3. CASE state[v] = "off"
  BY <1>2, <1>3, EmptySeq
<1>4. CASE state[v] # "off"
  <2>1. Rightly(c, f) /\ Rightly(c, w)
    BY <1>1, <1>4 DEF Rightly
  <2>2. \A k \in DOMAIN <<f>> : <<f>>[k] = f
    OBVIOUS
  <2>3. \A k \in DOMAIN <<f, w>> : <<f, w>>[k] \in {f, w}
    OBVIOUS
  <2> QED
    BY <1>2, <1>4, <2>1, <2>2, <2>3
<1> QED
  BY <1>3, <1>4

LEMMA BothRightly ==
  ASSUME NEW c \in Cores, NEW a \in Seq(Instr), NEW b \in Seq(Instr),
         \A k \in DOMAIN a : Rightly(c, a[k]), \A k \in DOMAIN b : Rightly(c, b[k])
  PROVE  \A k \in DOMAIN (a \o b) : Rightly(c, (a \o b)[k])
<1>1. /\ Len(a) \in Nat /\ Len(b) \in Nat /\ DOMAIN a = 1..Len(a) /\ DOMAIN b = 1..Len(b)
      /\ DOMAIN (a \o b) = 1..(Len(a) + Len(b))
      /\ \A k \in 1..(Len(a) + Len(b)) : (a \o b)[k] = IF k <= Len(a) THEN a[k] ELSE b[k - Len(a)]
  BY LenProperties, ConcatProperties
<1> SUFFICES ASSUME NEW k \in 1..(Len(a) + Len(b)) PROVE Rightly(c, (a \o b)[k])
  BY <1>1
<1>2. CASE k <= Len(a)
  BY <1>1, <1>2
<1>3. CASE k > Len(a)
  <2>1. k - Len(a) \in 1..Len(b) /\ (a \o b)[k] = b[k - Len(a)]
    BY <1>1, <1>3
  <2> QED
    BY <1>1, <2>1
<1> QED
  BY <1>1, <1>2, <1>3

\* The agenda of a core that continues, and the agendas of the others.
LEMMA ThenRightly ==
  ASSUME TypeOK, Located, Stays, NEW c \in Cores, agenda[c] # <<>>, NEW is \in Seq(Instr),
         \A k \in DOMAIN is : Rightly(c, is[k]), Then(c, is)
  PROVE  (\A d \in Cores : \A k \in DOMAIN agenda[d] : Rightly(d, agenda[d][k]))'
<1>1. agenda \in [Cores -> Seq(Instr)] /\ agenda' \in [Cores -> Seq(Instr)]
  BY ThenType DEF TypeOK
<1>2. \A d \in Cores : agenda'[d] = IF d = c THEN is \o Tail(agenda[c]) ELSE agenda[d]
  BY <1>1 DEF Then
<1>3. \A k \in DOMAIN Tail(agenda[c]) : Rightly(c, Tail(agenda[c])[k])
  <2>1. /\ Tail(agenda[c]) \in Seq(Instr) /\ Len(Tail(agenda[c])) = Len(agenda[c]) - 1
        /\ \A k \in 1..Len(Tail(agenda[c])) : Tail(agenda[c])[k] = agenda[c][k + 1]
        /\ Len(agenda[c]) \in Nat
    BY <1>1, HeadTailProperties, LenProperties
  <2>2. \A k \in DOMAIN Tail(agenda[c]) : k + 1 \in DOMAIN agenda[c] /\ Tail(agenda[c])[k] = agenda[c][k + 1]
    BY <1>1, <2>1, LenProperties
  <2> QED
    BY <2>2 DEF Located
<1>4. Tail(agenda[c]) \in Seq(Instr)
  BY <1>1, NowType
<1>9. \A k \in DOMAIN (is \o Tail(agenda[c])) : Rightly(c, (is \o Tail(agenda[c]))[k])
  BY <1>3, <1>4, BothRightly
<1>5. ASSUME NEW d \in Cores, NEW k \in DOMAIN agenda'[d] PROVE Rightly(d, agenda'[d][k])
  <2>1. CASE d = c
    BY <1>2, <1>5, <1>9, <2>1
  <2>2. CASE d # c
    BY <1>2, <1>5, <2>2 DEF Located
  <2> QED
    BY <2>1, <2>2
<1>6. \A d \in Cores : \A k \in DOMAIN agenda'[d] : agenda'[d][k] \in Instr
  BY <1>1, ElementOfSeq, LenProperties
<1>7. ASSUME NEW d \in Cores, NEW i \in Instr, Rightly(d, i) PROVE Rightly(d, i)'
  BY <1>1, <1>7, RightlyStays
<1>8. ASSUME NEW d \in Cores, NEW k \in DOMAIN agenda'[d] PROVE Rightly(d, agenda[d][k])'
  <2>1. PICK i \in Instr : i = agenda'[d][k]
    BY <1>6, <1>8
  <2>2. Rightly(d, i)
    BY <1>5, <1>8, <2>1
  <2>3. Rightly(d, i)'
    BY <1>7, <2>2
  <2> QED
    BY <2>1, <2>3 DEF Rightly
<1> QED
  BY <1>8

LEMMA EnterRightly ==
  ASSUME TypeOK, Located, Stays, NEW c \in Cores, NEW is \in Seq(Instr),
         \A k \in DOMAIN is : Rightly(c, is[k]), Enter(c, is) \/ agenda' = agenda
  PROVE  (\A d \in Cores : \A k \in DOMAIN agenda[d] : Rightly(d, agenda[d][k]))'
<1>1. agenda \in [Cores -> Seq(Instr)] /\ agenda' \in [Cores -> Seq(Instr)]
  BY EnterType DEF TypeOK
<1>2. \A d \in Cores : agenda'[d] = agenda[d] \/ (d = c /\ agenda'[d] = is)
  BY <1>1 DEF Enter
<1>5. ASSUME NEW d \in Cores, NEW k \in DOMAIN agenda'[d] PROVE Rightly(d, agenda'[d][k])
  BY <1>2, <1>5 DEF Located
<1>6. \A d \in Cores : \A k \in DOMAIN agenda'[d] : agenda'[d][k] \in Instr
  BY <1>1, ElementOfSeq, LenProperties
<1>7. ASSUME NEW d \in Cores, NEW i \in Instr, Rightly(d, i) PROVE Rightly(d, i)'
  BY <1>1, <1>7, RightlyStays
<1>8. ASSUME NEW d \in Cores, NEW k \in DOMAIN agenda'[d] PROVE Rightly(d, agenda[d][k])'
  <2>1. PICK i \in Instr : i = agenda'[d][k]
    BY <1>6, <1>8
  <2>2. Rightly(d, i)
    BY <1>5, <1>8, <2>1
  <2>3. Rightly(d, i)'
    BY <1>7, <2>2
  <2> QED
    BY <2>1, <2>3 DEF Rightly
<1> QED
  BY <1>8

AgendasRightly == \A d \in Cores : \A k \in DOMAIN agenda[d] : Rightly(d, agenda[d][k])
MailRightly ==
  \A d \in Cores : \A k \in DOMAIN mail[d] : mail[d][k].do = "pend" /\ Affinity[mail[d][k].at] = d

\* What is resident, marked and posted, when a step leaves it alone.
LEMMA LocatedFrom ==
  ASSUME Located, Stays, resident' = resident, dirty' = dirty, mail' = mail, AgendasRightly'
  PROVE  Located'
<1>1. \A c \in Cores : resident'[c] \in Vcpus => Affinity[resident'[c]] = c /\ state'[resident'[c]] # "off"
  BY DEF Located, Stays
<1>2. \A c \in Cores : \A v \in dirty'[c] : Affinity[v] = c
  BY DEF Located
<1>3. \A c \in Cores : \A k \in DOMAIN mail'[c] : mail'[c][k].do = "pend" /\ Affinity[mail'[c][k].at] = c
  BY DEF Located
<1> QED
  BY <1>1, <1>2, <1>3 DEF Located, AgendasRightly

\* One instruction, of a kind that says nothing.
LEMMA OneRightly ==
  ASSUME NEW c \in Cores, NEW i, Rightly(c, i)
  PROVE  \A k \in DOMAIN <<i>> : Rightly(c, <<i>>[k])
OBVIOUS

LEMMA NoneRightly == ASSUME NEW c \in Cores PROVE \A k \in DOMAIN <<>> : Rightly(c, <<>>[k])
BY EmptySeq

LEMMA LocatedExecute ==
  ASSUME TypeOK, Located, NEW c \in Cores, Execute(c)
  PROVE  Located'
<1>0. /\ agenda \in [Cores -> Seq(Instr)] /\ agenda[c] # <<>>
      /\ Now(c) \in Instr /\ Now(c).at \in Vcpus /\ Now(c).more \in SUBSET Vcpus
      /\ Rightly(c, Now(c)) /\ Tail(agenda[c]) \in Seq(Instr)
  <2>1. agenda \in [Cores -> Seq(Instr)] /\ agenda[c] # <<>>
    BY DEF TypeOK, Execute, Pend, DoFlush, Wake, Sleep, Notify, Reeval, Exchange, Boot, At
  <2>2. Now(c) = agenda[c][1] /\ 1 \in DOMAIN agenda[c]
    BY <2>1, HeadTailProperties, LenProperties, EmptySeq DEF Now
  <2> QED
    BY <2>1, <2>2, NowType DEF Located
<1>1. Stays
  <2>1. CASE Pend(c) \/ DoFlush(c) \/ Notify(c) \/ Reeval(c) \/ Exchange(c)
    BY <2>1 DEF Stays, Pend, DoFlush, Notify, Reeval, Exchange
  <2>2. CASE Wake(c) \/ Sleep(c) \/ Boot(c)
    <3>1. state' = state \/ \E v \in Vcpus, s \in States \ {"off"} : state' = [state EXCEPT ![v] = s]
      BY <1>0, <2>2, VGicAssumption DEF Wake, Sleep, Boot, Seed, States
    <3> QED
      BY <3>1 DEF Stays, TypeOK
  <2> QED
    BY <2>1, <2>2 DEF Execute
<1>2. resident' = resident
  BY DEF Execute, Pend, DoFlush, Wake, Sleep, Notify, Reeval, Exchange, Boot, hard
<1>3. mail' = mail
  BY DEF Execute, Pend, DoFlush, Wake, Sleep, Notify, Reeval, Exchange, Boot, calls
<1>4. ASSUME NEW is \in Seq(Instr), \A k \in DOMAIN is : Rightly(c, is[k]), Then(c, is)
      PROVE  AgendasRightly'
  BY <1>0, <1>1, <1>4, ThenRightly DEF AgendasRightly
<1>5. CASE DoFlush(c) \/ Wake(c) \/ Sleep(c) \/ Boot(c)
  <2>1. Then(c, <<>>) /\ dirty' = dirty
    BY <1>5 DEF DoFlush, Wake, Sleep, Boot, calls
  <2>2. AgendasRightly'
    BY <1>4, <2>1, NoneRightly, EmptySeq
  <2> QED
    BY <1>1, <1>2, <1>3, <2>1, <2>2, LocatedFrom
<1>6. CASE Pend(c)
  <2>1. Then(c, Refresh(Now(c).at)) /\ dirty' = dirty /\ Now(c).do = "pend"
    BY <1>6 DEF Pend, calls, At, Now
  <2>2. Affinity[Now(c).at] = c
    BY <1>0, <2>1 DEF Rightly
  <2>3. AgendasRightly'
    BY <1>0, <1>4, <2>1, <2>2, RefreshType, RefreshRightly
  <2> QED
    BY <1>1, <1>2, <1>3, <2>1, <2>3, LocatedFrom
<1>7. CASE Notify(c)
  <2> DEFINE v == Now(c).at
             e == Each("notify", Now(c).more)
  <2>0. e \in Seq(Instr) /\ \A k \in DOMAIN e : Rightly(c, e[k])
    BY <1>0, EachType, EachRightly DEF Steps
  <2>1. CASE Affinity[v] = c \/ state[v] = "off"
    <3>1. Then(c, Refresh(v) \o e) /\ dirty' = dirty
      BY <1>7, <2>1 DEF Notify
    <3>2. Refresh(v) \in Seq(Instr) /\ \A k \in DOMAIN Refresh(v) : Rightly(c, Refresh(v)[k])
      <4>1. CASE Affinity[v] = c
        BY <1>0, <4>1, RefreshType, RefreshRightly
      <4>2. CASE state[v] = "off"
        <5>1. Refresh(v) = <<>>
          BY <4>2 DEF Refresh
        <5> QED
          BY <5>1, NoneRightly, EmptySeq
      <4> QED
        BY <2>1, <4>1, <4>2
    <3> HIDE DEF e, v
    <3>3. Refresh(v) \o e \in Seq(Instr) /\ \A k \in DOMAIN (Refresh(v) \o e) : Rightly(c, (Refresh(v) \o e)[k])
      BY <2>0, <3>2, BothRightly, ConcatProperties
    <3>4. AgendasRightly'
      BY <1>4, <3>1, <3>3
    <3> QED
      BY <1>1, <1>2, <1>3, <3>1, <3>4, LocatedFrom
  <2>2. CASE ~(Affinity[v] = c \/ state[v] = "off")
    <3>1. Then(c, e) /\ dirty' = [dirty EXCEPT ![Affinity[v]] = @ \cup {v}]
      BY <1>7, <2>2 DEF Notify
    <3>2. AgendasRightly'
      BY <1>4, <2>0, <3>1
    <3>3. Affinity[v] \in Cores
      BY <1>0, AffinityType
    <3>4. \A d \in Cores : \A w \in dirty'[d] : w \in dirty[d] \/ (w = v /\ d = Affinity[v])
      BY <3>1, <3>3 DEF TypeOK
    <3>5. \A d \in Cores : \A w \in dirty'[d] : Affinity[w] = d
      BY <3>4 DEF Located
    <3>6. \A d \in Cores : resident'[d] \in Vcpus => Affinity[resident'[d]] = d /\ state'[resident'[d]] # "off"
      BY <1>1, <1>2 DEF Located, Stays
    <3>7. \A d \in Cores : \A k \in DOMAIN mail'[d] : mail'[d][k].do = "pend" /\ Affinity[mail'[d][k].at] = d
      BY <1>3 DEF Located
    <3> QED
      BY <3>2, <3>5, <3>6, <3>7 DEF Located, AgendasRightly
  <2> QED
    BY <2>1, <2>2
<1>8. CASE Reeval(c)
  <2> DEFINE v == Now(c).at
             e == Each("reeval", Now(c).more)
  <2>1. Then(c, Refresh(v) \o e) /\ dirty' = dirty /\ Now(c).do = "reeval"
    BY <1>8 DEF Reeval, calls, At, Now
  <2>2. Affinity[v] = c /\ \A w \in Now(c).more : Affinity[w] = c
    BY <1>0, <2>1 DEF Rightly
  <2>3. e \in Seq(Instr) /\ \A k \in DOMAIN e : Rightly(c, e[k])
    BY <1>0, <2>2, EachType, EachRightly DEF Steps
  <2>4. Refresh(v) \in Seq(Instr) /\ \A k \in DOMAIN Refresh(v) : Rightly(c, Refresh(v)[k])
    BY <1>0, <2>2, RefreshType, RefreshRightly
  <2> HIDE DEF e, v
  <2>5. Refresh(v) \o e \in Seq(Instr) /\ \A k \in DOMAIN (Refresh(v) \o e) : Rightly(c, (Refresh(v) \o e)[k])
    BY <2>3, <2>4, BothRightly, ConcatProperties
  <2>6. AgendasRightly'
    BY <1>4, <2>1, <2>5
  <2> QED
    BY <1>1, <1>2, <1>3, <2>1, <2>6, LocatedFrom
<1>9. CASE Exchange(c)
  <2> DEFINE e == Each("reeval", dirty[c])
  <2>1. Then(c, <<>>) \/ Then(c, e \o <<Now(c)>>)
    BY <1>9 DEF Exchange
  <2>2. e \in Seq(Instr) /\ \A k \in DOMAIN e : Rightly(c, e[k])
    BY EachType, EachRightly DEF Steps, TypeOK, Located
  <2>3. <<Now(c)>> \in Seq(Instr) /\ \A k \in DOMAIN <<Now(c)>> : Rightly(c, <<Now(c)>>[k])
    BY <1>0
  <2> HIDE DEF e
  <2>4. e \o <<Now(c)>> \in Seq(Instr) /\ \A k \in DOMAIN (e \o <<Now(c)>>) : Rightly(c, (e \o <<Now(c)>>)[k])
    BY <2>2, <2>3, BothRightly, ConcatProperties
  <2>5. AgendasRightly'
    BY <1>4, <2>1, <2>4, NoneRightly, EmptySeq
  <2>6. \A d \in Cores : dirty'[d] \subseteq dirty[d]
    BY <1>9 DEF Exchange, TypeOK
  <2>7. \A d \in Cores : \A w \in dirty'[d] : Affinity[w] = d
    BY <2>6 DEF Located
  <2>8. \A d \in Cores : resident'[d] \in Vcpus => Affinity[resident'[d]] = d /\ state'[resident'[d]] # "off"
    BY <1>1, <1>2 DEF Located, Stays
  <2>9. \A d \in Cores : \A k \in DOMAIN mail'[d] : mail'[d][k].do = "pend" /\ Affinity[mail'[d][k].at] = d
    BY <1>3 DEF Located
  <2> QED
    BY <2>5, <2>7, <2>8, <2>9 DEF Located, AgendasRightly
<1> QED
  BY <1>5, <1>6, <1>7, <1>8, <1>9 DEF Execute

LEMMA LocatedInterrupt ==
  ASSUME TypeOK, Located, NEW c \in Cores, Interrupt(c)
  PROVE  Located'
<1>1. Stays /\ resident' = resident /\ dirty' = dirty
  BY DEF Interrupt, CrossCall, HandleMaintenance, StrayMaintenance, DeviceIrq, PostSpi, PostPrivate, hard, calls,
         Stays
<1>2. ASSUME NEW is \in Seq(Instr), \A k \in DOMAIN is : Rightly(c, is[k]), Enter(c, is) \/ agenda' = agenda
      PROVE  AgendasRightly'
  BY <1>1, <1>2, EnterRightly DEF AgendasRightly
<1>3. ASSUME NEW v \in Vcpus, Enter(c, <<Do("notify", v)>>) \/ agenda' = agenda
      PROVE  AgendasRightly'
  <2> DEFINE i == Do("notify", v)
  <2>1. i \in Instr /\ i.do = "notify"
    BY DoType DEF Steps, Do
  <2> HIDE DEF i
  <2>2. Rightly(c, i)
    BY <2>1 DEF Rightly
  <2>3. <<i>> \in Seq(Instr) /\ \A k \in DOMAIN <<i>> : Rightly(c, <<i>>[k])
    BY <2>1, <2>2
  <2>4. Enter(c, <<i>>) \/ agenda' = agenda
    BY <1>3 DEF i
  <2> QED
    BY <1>2, <2>3, <2>4
<1>4. CASE CrossCall(c)
  <2> DEFINE x == Do("exchange", 0)
  <2>1. Enter(c, mail[c] \o <<x>>) /\ mail' = [mail EXCEPT ![c] = <<>>]
    BY <1>4 DEF CrossCall
  <2>2. x \in Instr /\ x.do = "exchange"
    BY DoType, VGicAssumption DEF Steps, Do
  <2> HIDE DEF x
  <2>3. <<x>> \in Seq(Instr) /\ \A k \in DOMAIN <<x>> : Rightly(c, <<x>>[k])
    BY <2>2 DEF Rightly
  <2>4. mail[c] \in Seq(Instr) /\ \A k \in DOMAIN mail[c] : Rightly(c, mail[c][k])
    BY DEF TypeOK, Located, Rightly
  <2>5. mail[c] \o <<x>> \in Seq(Instr) /\ \A k \in DOMAIN (mail[c] \o <<x>>) : Rightly(c, (mail[c] \o <<x>>)[k])
    BY <2>3, <2>4, BothRightly, ConcatProperties
  <2>6. AgendasRightly'
    BY <1>2, <2>1, <2>5
  <2>7. \A d \in Cores : mail'[d] = mail[d] \/ mail'[d] = <<>>
    BY <2>1 DEF TypeOK
  <2>8. \A d \in Cores : \A k \in DOMAIN mail'[d] : mail'[d][k].do = "pend" /\ Affinity[mail'[d][k].at] = d
    BY <2>7, EmptySeq DEF Located
  <2>9. /\ \A d \in Cores : resident'[d] \in Vcpus => Affinity[resident'[d]] = d /\ state'[resident'[d]] # "off"
        /\ \A d \in Cores : \A v \in dirty'[d] : Affinity[v] = d
    BY <1>1 DEF Located, Stays
  <2> QED
    BY <2>6, <2>8, <2>9 DEF Located, AgendasRightly
<1>5. CASE HandleMaintenance(c)
  <2> DEFINE i == Do("flush", resident[c])
  <2>1. Enter(c, <<i>>) /\ resident[c] \in Vcpus /\ mail' = mail
    BY <1>5 DEF HandleMaintenance, calls
  <2>2. i \in Instr /\ i.do = "flush" /\ i.at = resident[c]
    BY <2>1, DoType DEF Steps, Do
  <2>3. Rightly(c, i)
    BY <2>1, <2>2 DEF Rightly, Located
  <2> HIDE DEF i
  <2>4. <<i>> \in Seq(Instr) /\ \A k \in DOMAIN <<i>> : Rightly(c, <<i>>[k])
    BY <2>2, <2>3
  <2>5. AgendasRightly'
    BY <1>2, <2>1, <2>4
  <2> QED
    BY <1>1, <2>1, <2>5, LocatedFrom
<1>6. CASE StrayMaintenance(c)
  <2>1. agenda' = agenda /\ mail' = mail
    BY <1>6 DEF StrayMaintenance, calls
  <2>2. AgendasRightly'
    BY <1>2, <2>1, NoneRightly, EmptySeq
  <2> QED
    BY <1>1, <2>1, <2>2, LocatedFrom
<1>7. ASSUME NEW s \in Spis, DeviceIrq(c, s) \/ PostSpi(c, s) PROVE Located'
  <2>1. (Enter(c, <<Do("notify", dist.route[s])>>) \/ agenda' = agenda) /\ mail' = mail
    BY <1>7 DEF DeviceIrq, PostSpi, calls
  <2>2. dist.route[s] \in Vcpus
    BY DEF TypeOK
  <2>3. AgendasRightly'
    BY <1>3, <2>1, <2>2
  <2> QED
    BY <1>1, <2>1, <2>3, LocatedFrom
<1>8. ASSUME NEW v \in Vcpus, NEW p \in Priv, PostPrivate(c, v, p) PROVE Located'
  <2>1. Enter(c, Refresh(v)) /\ Affinity[v] = c /\ mail' = mail
    BY <1>8 DEF PostPrivate, calls
  <2>2. AgendasRightly'
    BY <1>2, <2>1, RefreshType, RefreshRightly
  <2> QED
    BY <1>1, <2>1, <2>2, LocatedFrom
<1> QED
  BY <1>4, <1>5, <1>6, <1>7, <1>8, VGicAssumption DEF Interrupt

LEMMA LocatedGuest ==
  ASSUME TypeOK, Located, NEW c \in Cores, Guest(c)
  PROVE  Located'
<1>1. Stays /\ resident' = resident /\ dirty' = dirty
  BY DEF Guest, GuestAck, GuestEoi, GuestWfi, DistMmio, RedistMmio, GuestSgi, hard, calls, Stays
<1>2. ASSUME NEW is \in Seq(Instr), \A k \in DOMAIN is : Rightly(c, is[k]), Enter(c, is) \/ agenda' = agenda
      PROVE  AgendasRightly'
  BY <1>1, <1>2, EnterRightly DEF AgendasRightly
<1>3. CASE GuestAck(c) \/ GuestEoi(c)
  <2>1. agenda' = agenda /\ mail' = mail
    BY <1>3 DEF GuestAck, GuestEoi, calls
  <2>2. AgendasRightly'
    BY <1>2, <2>1, NoneRightly, EmptySeq
  <2> QED
    BY <1>1, <2>1, <2>2, LocatedFrom
<1>4. CASE GuestWfi(c)
  <2> DEFINE f == Do("flush", resident[c])
             s == Do("sleep", resident[c])
  <2>1. Enter(c, <<f, s>>) /\ resident[c] \in Vcpus /\ mail' = mail
    BY <1>4 DEF GuestWfi, Guested, calls
  <2>2. f \in Instr /\ f.do = "flush" /\ f.at = resident[c] /\ s \in Instr /\ s.do = "sleep" /\ s.at = resident[c]
    BY <2>1, DoType DEF Steps, Do
  <2>3. Rightly(c, f) /\ Rightly(c, s)
    BY <2>1, <2>2 DEF Rightly, Located
  <2> HIDE DEF f, s
  <2>4. <<f, s>> \in Seq(Instr) /\ \A k \in DOMAIN <<f, s>> : Rightly(c, <<f, s>>[k])
    <3>1. \A k \in DOMAIN <<f, s>> : <<f, s>>[k] \in {f, s}
      OBVIOUS
    <3> QED
      BY <2>2, <2>3, <3>1
  <2>5. AgendasRightly'
    BY <1>2, <2>1, <2>4
  <2> QED
    BY <1>1, <2>1, <2>5, LocatedFrom
<1>5. CASE DistMmio(c)
  <2>1. Enter(c, Each("notify", Vcpus)) /\ mail' = mail
    BY <1>5 DEF DistMmio, calls
  <2>2. /\ Each("notify", Vcpus) \in Seq(Instr)
        /\ \A k \in DOMAIN Each("notify", Vcpus) : Rightly(c, Each("notify", Vcpus)[k])
    BY EachType, EachRightly DEF Steps
  <2>3. AgendasRightly'
    BY <1>2, <2>1, <2>2
  <2> QED
    BY <1>1, <2>1, <2>3, LocatedFrom
<1>6. ASSUME NEW v \in Vcpus, RedistMmio(c, v) PROVE Located'
  <2> DEFINE i == Do("notify", v)
  <2>1. Enter(c, <<i>>) /\ mail' = mail
    BY <1>6 DEF RedistMmio, calls
  <2>2. i \in Instr /\ i.do = "notify"
    BY DoType DEF Steps, Do
  <2> HIDE DEF i
  <2>3. <<i>> \in Seq(Instr) /\ \A k \in DOMAIN <<i>> : Rightly(c, <<i>>[k])
    BY <2>2 DEF Rightly
  <2>4. AgendasRightly'
    BY <1>2, <2>1, <2>3
  <2> QED
    BY <1>1, <2>1, <2>4, LocatedFrom
<1>7. ASSUME NEW v \in Vcpus, NEW p \in Sgis, GuestSgi(c, v, p) PROVE Located'
  <2>1. CASE Affinity[v] = c
    <3>1. Enter(c, Refresh(v)) /\ mail' = mail
      BY <1>7, <2>1 DEF GuestSgi
    <3>2. AgendasRightly'
      BY <1>2, <2>1, <3>1, RefreshType, RefreshRightly
    <3> QED
      BY <1>1, <3>1, <3>2, LocatedFrom
  <2>2. CASE Affinity[v] # c
    <3> DEFINE i == [Do("pend", v) EXCEPT !.id = p]
               o == Affinity[v]
    <3>1. mail' = [mail EXCEPT ![o] = Append(@, i)] /\ agenda' = agenda
      BY <1>7, <2>2 DEF GuestSgi
    <3>2. i.do = "pend" /\ i.at = v /\ i \in Instr
      BY DEF Do, Instr, Steps, Priv
    <3> HIDE DEF i
    <3>3. mail[o] \in Seq(Instr) /\ o \in Cores
      BY AffinityType DEF TypeOK
    <3>4. \A k \in DOMAIN Append(mail[o], i) :
            \/ k \in DOMAIN mail[o] /\ Append(mail[o], i)[k] = mail[o][k]
            \/ Append(mail[o], i)[k] = i
      BY <3>2, <3>3, AppendProperties, LenProperties
    <3>5. \A k \in DOMAIN Append(mail[o], i) :
            Append(mail[o], i)[k].do = "pend" /\ Affinity[Append(mail[o], i)[k].at] = o
      BY <3>2, <3>3, <3>4 DEF Located
    <3>6. \A d \in Cores : mail'[d] = mail[d] \/ (d = o /\ mail'[d] = Append(mail[o], i))
      BY <3>1, <3>3 DEF TypeOK
    <3>7. \A d \in Cores : \A k \in DOMAIN mail'[d] : mail'[d][k].do = "pend" /\ Affinity[mail'[d][k].at] = d
      BY <3>5, <3>6 DEF Located
    <3>8. AgendasRightly'
      BY <1>2, <3>1, NoneRightly, EmptySeq
    <3>9. /\ \A d \in Cores : resident'[d] \in Vcpus => Affinity[resident'[d]] = d /\ state'[resident'[d]] # "off"
          /\ \A d \in Cores : \A w \in dirty'[d] : Affinity[w] = d
      BY <1>1 DEF Located, Stays
    <3> QED
      BY <3>7, <3>8, <3>9 DEF Located, AgendasRightly
  <2> QED
    BY <2>1, <2>2
<1> QED
  BY <1>3, <1>4, <1>5, <1>6, <1>7 DEF Guest

LEMMA LocatedPower ==
  ASSUME TypeOK, Located, NEW c \in Cores, Power(c)
  PROVE  Located'
<1>1. dirty' = dirty /\ mail' = mail
  BY DEF Power, SwitchOut, Resume, VmReset, SwitchIn, Retire, Start, calls
<1>2. ASSUME NEW is \in Seq(Instr), \A k \in DOMAIN is : Rightly(c, is[k]), Enter(c, is) \/ agenda' = agenda, Stays
      PROVE  AgendasRightly'
  BY <1>2, EnterRightly DEF AgendasRightly
<1>3. /\ \A d \in Cores : \A v \in dirty'[d] : Affinity[v] = d
      /\ \A d \in Cores : \A k \in DOMAIN mail'[d] : mail'[d][k].do = "pend" /\ Affinity[mail'[d][k].at] = d
  BY <1>1 DEF Located
<1>4. ASSUME AgendasRightly', NEW v \in Vcpus \cup {None, Other}, resident' = [resident EXCEPT ![c] = v],
             v \in Vcpus => Affinity[v] = c /\ state'[v] # "off",
             \A d \in Cores \ {c} : resident[d] \in Vcpus => state'[resident[d]] # "off"
      PROVE  Located'
  <2>1. \A d \in Cores : resident'[d] \in Vcpus => Affinity[resident'[d]] = d /\ state'[resident'[d]] # "off"
    BY <1>4 DEF Located, TypeOK
  <2> QED
    BY <1>3, <1>4, <2>1 DEF Located, AgendasRightly
<1>5. CASE SwitchOut(c) \/ Resume(c)
  <2>1. /\ agenda' = agenda
        /\ state' = state \/ \E v \in Vcpus, s \in States \ {"off"} : state' = [state EXCEPT ![v] = s]
    BY <1>5 DEF SwitchOut, Resume, Parked, States
  <2>2. Stays
    BY <2>1 DEF Stays, TypeOK
  <2>3. AgendasRightly'
    BY <1>2, <2>1, <2>2, NoneRightly, EmptySeq
  <2>4. CASE Resume(c)
    <3>1. resident' = resident
      BY <2>4 DEF Resume, hard
    <3> QED
      BY <1>1, <2>2, <2>3, <3>1, LocatedFrom
  <2>5. CASE SwitchOut(c)
    <3>1. resident' = [resident EXCEPT ![c] = Other] /\ Other \notin Vcpus
      BY <2>5, VGicAssumption DEF SwitchOut, Other
    <3>2. \A d \in Cores \ {c} : resident[d] \in Vcpus => state'[resident[d]] # "off"
      BY <2>2 DEF Located, Stays
    <3> QED
      BY <1>4, <2>3, <3>1, <3>2
  <2> QED
    BY <1>5, <2>4, <2>5
<1>6. CASE VmReset(c)
  <2> DEFINE i == Do("boot", 0)
  <2>1. Enter(c, <<i>>) /\ Stays /\ resident' = resident
    BY <1>6 DEF VmReset, Stays, hard
  <2>2. i \in Instr /\ i.do = "boot"
    BY DoType, VGicAssumption DEF Steps, Do
  <2> HIDE DEF i
  <2>3. <<i>> \in Seq(Instr) /\ \A k \in DOMAIN <<i>> : Rightly(c, <<i>>[k])
    BY <2>2 DEF Rightly
  <2>4. AgendasRightly'
    BY <1>2, <2>1, <2>3
  <2> QED
    BY <1>1, <2>1, <2>4, LocatedFrom
<1>7. ASSUME NEW v \in Vcpus, SwitchIn(c, v) PROVE Located'
  <2>1. /\ agenda' = agenda /\ state' = [state EXCEPT ![v] = "running"] /\ resident' = [resident EXCEPT ![c] = v]
        /\ Affinity[v] = c
    BY <1>7 DEF SwitchIn
  <2>2. Stays
    BY <2>1 DEF Stays, TypeOK
  <2>3. AgendasRightly'
    BY <1>2, <2>1, <2>2, NoneRightly, EmptySeq
  <2>4. \A d \in Cores \ {c} : resident[d] \in Vcpus => state'[resident[d]] # "off"
    BY <2>2 DEF Located, Stays
  <2>5. state'[v] # "off"
    BY <2>1 DEF TypeOK
  <2> QED
    BY <1>4, <2>1, <2>3, <2>4, <2>5
<1>8. ASSUME NEW v \in Vcpus, Start(c, v) PROVE Located'
  <2>1. agenda' = agenda /\ state' = [state EXCEPT ![v] = "ready"] /\ resident' = resident
    BY <1>8 DEF Start, Seed, hard
  <2>2. Stays
    BY <2>1 DEF Stays, TypeOK
  <2>3. AgendasRightly'
    BY <1>2, <2>1, <2>2, NoneRightly, EmptySeq
  <2> QED
    BY <1>1, <2>1, <2>2, <2>3, LocatedFrom
<1>9. ASSUME NEW v \in Vcpus, Retire(c, v) PROVE Located'
  <2>1. /\ agenda' = agenda /\ agenda[c] = <<>> /\ state' = [state EXCEPT ![v] = "off"] /\ Affinity[v] = c
        /\ resident' = [resident EXCEPT ![c] = IF @ = v THEN None ELSE @]
    BY <1>9 DEF Retire, Resting
  <2>2. ASSUME NEW d \in Cores, NEW k \in DOMAIN agenda[d] PROVE Rightly(d, agenda[d][k])'
    <3>1. d # c
      BY <2>1, <2>2, EmptySeq
    <3>2. Rightly(d, agenda[d][k])
      BY <2>2 DEF Located
    <3>3. agenda[d][k].at = v => agenda[d][k].do \notin {"flush", "wake", "sleep"}
      BY <2>1, <3>1, <3>2 DEF Rightly
    <3>4. agenda[d][k].at # v => state'[agenda[d][k].at] = state[agenda[d][k].at]
      BY <2>1 DEF TypeOK
    <3> QED
      BY <2>1, <3>2, <3>3, <3>4 DEF Rightly
  <2>3. AgendasRightly'
    BY <2>1, <2>2 DEF AgendasRightly
  <2>4. \A d \in Cores \ {c} : resident[d] \in Vcpus => state'[resident[d]] # "off"
    BY <2>1 DEF Located, TypeOK
  <2>5. PICK u \in Vcpus \cup {None, Other} : u = IF resident[c] = v THEN None ELSE resident[c]
    BY DEF TypeOK
  <2>6. resident' = [resident EXCEPT ![c] = u]
    BY <2>1, <2>5
  <2>7. u \in Vcpus => Affinity[u] = c /\ state'[u] # "off"
    BY <2>1, <2>5, VGicAssumption DEF Located, TypeOK, None
  <2> QED
    BY <1>4, <2>3, <2>4, <2>6, <2>7
<1> QED
  BY <1>5, <1>6, <1>7, <1>8, <1>9 DEF Power

-----------------------------------------------------------------------------
(* Who carries a token.                                                    *)

LEMMA ExclusiveShrinks ==
  ASSUME Exclusive,
         \A v \in Vcpus, i \in Lrs, s \in Tracked : Holds(v, i, s)' => Holds(v, i, s),
         \A s \in Tracked : owed'[s] # 0 => owed[s] # 0,
         \A s \in Tracked : armed'[s] =>
           armed[s] \/ (owed'[s] = 0 /\ \A v \in Vcpus, i \in Lrs : ~Holds(v, i, s)')
  PROVE  Exclusive'
<1>1. ASSUME NEW s \in Tracked
      PROVE  armed'[s] \/ owed'[s] # 0 => \A v \in Vcpus, i \in Lrs : ~Holds(v, i, s)'
  BY <1>1 DEF Exclusive
<1>2. ASSUME NEW s \in Tracked PROVE ~(armed'[s] /\ owed'[s] # 0)
  BY <1>2 DEF Exclusive
<1>3. ASSUME NEW s \in Tracked, NEW v \in Vcpus, NEW w \in Vcpus, NEW i \in Lrs, NEW j \in Lrs,
             Holds(v, i, s)', Holds(w, j, s)'
      PROVE  v = w /\ i = j
  BY <1>3 DEF Exclusive
<1> QED
  BY <1>1, <1>2, <1>3 DEF Exclusive

\* A step that moves no token, turns nobody on and renames no interrupt in a
\* register of a vCPU that is on.
LEMMA Unmoved ==
  ASSUME Present, Exclusive, UNCHANGED <<owed, token, armed, gen>>,
         \A v \in Vcpus : state'[v] # "off" =>
           state[v] # "off" /\ \A i \in Lrs : Truth(v)'[i].id = Truth(v)[i].id
  PROVE  Present' /\ Exclusive'
<1>1. Present'
  BY DEF Present
<1>2. \A v \in Vcpus, i \in Lrs, s \in Tracked : Holds(v, i, s)' => Holds(v, i, s)
  BY DEF Holds
<1>3. Exclusive'
  BY <1>2, ExclusiveShrinks
<1> QED
  BY <1>1, <1>3

LEMMA SameTruth ==
  ASSUME UNCHANGED <<lr, hard>>
  PROVE  \A v \in Vcpus : Truth(v)' = Truth(v)
BY DEF Truth, hard

LEMMA SyncTruth ==
  ASSUME TypeOK, NEW v \in Vcpus, Sync(v), UNCHANGED hard
  PROVE  \A w \in Vcpus : Truth(w)' = Truth(w)
<1>1. \A w \in Vcpus : lr'[w] = IF w = v THEN Truth(v) ELSE lr[w]
  BY DEF Sync, TypeOK
<1>2. CASE resident[Affinity[v]] = v
  BY <1>1, <1>2 DEF Truth, hard
<1>3. CASE resident[Affinity[v]] # v
  BY <1>1, <1>3 DEF Truth, hard
<1> QED
  BY <1>2, <1>3

\* A vCPU is started: its registers carry nothing.
LEMMA Seeded ==
  ASSUME TypeOK, Located, Present, Exclusive, NEW v \in Vcpus, Seed(v), UNCHANGED <<owed, armed, gen, hard>>
  PROVE  Present' /\ Exclusive'
<1>1. /\ \A w \in Vcpus : token'[w] = IF w = v THEN NoTokens ELSE token[w]
      /\ \A w \in Vcpus : state'[w] = IF w = v THEN "ready" ELSE state[w]
      /\ \A w \in Vcpus : lr'[w] = IF w = v THEN EmptyLrs ELSE lr[w]
  BY DEF Seed, TypeOK
<1>2. \A i \in Lrs : NoTokens[i] = 0
  BY DEF NoTokens
<1>3. \A w \in Vcpus : w # v => Truth(w)' = Truth(w)
  BY <1>1 DEF Truth, hard
<1>4. Present'
  BY <1>1, <1>2 DEF Present
<1>5. \A w \in Vcpus, i \in Lrs, s \in Tracked : Holds(w, i, s)' => Holds(w, i, s)
  BY <1>1, <1>2, <1>3 DEF Holds, Present
<1> QED
  BY <1>4, <1>5, ExclusiveShrinks

\* The ended registers of a core are drained: each token that counts rearms
\* its line, and its register carries it no longer.
LEMMA Drained ==
  ASSUME TypeOK, Located, Present, Exclusive, NEW c \in Cores, NEW v \in Vcpus, resident[c] = v,
         UNCHANGED <<owed, gen>>, \A w \in Vcpus : state'[w] = "off" <=> state[w] = "off",
         token' = [token EXCEPT ![v] = [i \in Lrs |-> IF i \in Eisr(c) THEN 0 ELSE @[i]]],
         \A i \in Lrs \ Eisr(c) : Truth(v)'[i].id = Truth(v)[i].id,
         \A w \in Vcpus : w # v => Truth(w)' = Truth(w),
         \A s \in Tracked : armed'[s] =>
           armed[s] \/ \E i \in Eisr(c) : hw[c][i].id = s /\ token[v][i] = gen
  PROVE  Present' /\ Exclusive'
<1>1. /\ \A w \in Vcpus : w # v => token'[w] = token[w]
      /\ \A i \in Lrs : token'[v][i] = IF i \in Eisr(c) THEN 0 ELSE token[v][i]
  BY DEF TypeOK
<1>2. Truth(v) = hw[c] /\ state[v] # "off" /\ Eisr(c) \subseteq Lrs
  BY DEF Located, Truth, Eisr
<1>3. \A w \in Vcpus, i \in Lrs, s \in Tracked :
        Holds(w, i, s)' => Holds(w, i, s) /\ (w = v => i \notin Eisr(c))
  BY <1>1, <1>2 DEF Holds, Present
<1>4. Present'
  BY <1>1 DEF Present
<1>5. ASSUME NEW s \in Tracked, armed'[s], ~armed[s]
      PROVE  owed'[s] = 0 /\ \A w \in Vcpus, i \in Lrs : ~Holds(w, i, s)'
  <2>1. PICK k \in Eisr(c) : hw[c][k].id = s /\ token[v][k] = gen
    BY <1>5
  <2>2. Holds(v, k, s)
    BY <1>2, <2>1 DEF Holds
  <2>3. owed[s] = 0 /\ \A w \in Vcpus, i \in Lrs : Holds(w, i, s) => w = v /\ i = k
    BY <1>2, <2>1, <2>2 DEF Exclusive
  <2> QED
    BY <1>3, <2>1, <2>3
<1>6. Exclusive'
  BY <1>3, <1>5, ExclusiveShrinks
<1> QED
  BY <1>4, <1>6

LEMMA BoundExecute ==
  ASSUME TypeOK, Located, Present, Exclusive, NEW c \in Cores, Execute(c)
  PROVE  Present' /\ Exclusive'
<1>0. /\ agenda \in [Cores -> Seq(Instr)] /\ agenda[c] # <<>>
      /\ Now(c).at \in Vcpus /\ Rightly(c, Now(c))
  <2>1. agenda \in [Cores -> Seq(Instr)] /\ agenda[c] # <<>>
    BY DEF TypeOK, Execute, Pend, DoFlush, Wake, Sleep, Notify, Reeval, Exchange, Boot, At
  <2>2. Now(c) = agenda[c][1] /\ 1 \in DOMAIN agenda[c]
    BY <2>1, HeadTailProperties, LenProperties, EmptySeq DEF Now
  <2> QED
    BY <2>1, <2>2, NowType DEF Located
<1>1. CASE Pend(c) \/ Notify(c) \/ Reeval(c) \/ Exchange(c)
  <2>1. UNCHANGED <<owed, token, armed, gen, state, lr, hard>>
    BY <1>1 DEF Pend, Notify, Reeval, Exchange, banks, shadow, device
  <2> QED
    BY <2>1, SameTruth, Unmoved
<1>2. CASE Wake(c) \/ Sleep(c)
  <2> DEFINE v == Now(c).at
  <2>1. /\ Sync(v) /\ UNCHANGED <<owed, token, armed, gen, hard>> /\ Now(c).do \in {"wake", "sleep"}
        /\ state' = state \/ \E s \in States : state' = [state EXCEPT ![v] = s]
    BY <1>2 DEF Wake, Sleep, banks, device, At, Now, States
  <2>2. state[v] # "off"
    BY <1>0, <2>1 DEF Rightly
  <2> HIDE DEF v
  <2>3. v \in Vcpus
    BY <1>0 DEF v
  <2>4. \A w \in Vcpus : Truth(w)' = Truth(w)
    BY <2>1, <2>3, SyncTruth
  <2>5. \A w \in Vcpus : state'[w] # "off" => state[w] # "off"
    BY <2>1, <2>2, <2>3 DEF TypeOK
  <2> QED
    BY <2>1, <2>4, <2>5, Unmoved
<1>3. CASE Boot(c)
  <2>1. Seed(0) /\ UNCHANGED <<owed, armed, gen, hard>>
    BY <1>3 DEF Boot, device
  <2> QED
    BY <2>1, Seeded, VGicAssumption
<1>4. CASE DoFlush(c)
  <2>0. PICK v \in Vcpus : v = Now(c).at
    BY <1>0
  <2> DEFINE r == Refill(Truth(v), v)
  <2>1. Flush(v) /\ UNCHANGED <<resident, state, armed, gen>> /\ Now(c).do = "flush"
    BY <1>4, <2>0 DEF DoFlush, At, Now, device
  <2>2. v \in Vcpus /\ state[v] # "off"
    BY <1>0, <2>0, <2>1 DEF Rightly
  <2>3. Take(v, r.placed) /\ lr' = [lr EXCEPT ![v] = r.regs] /\ token' = [token EXCEPT ![v] = r.tokens]
    BY <2>1 DEF Flush
  <2>4. IF resident[Affinity[v]] = v THEN hw' = [hw EXCEPT ![Affinity[v]] = r.regs] ELSE hw' = hw
    BY <2>1 DEF Flush
  <2>5. Affinity[v] \in Cores
    BY <2>2, AffinityType
  <2> HIDE DEF r
  <2>6. \A w \in Vcpus : state'[w] = "off" <=> state[w] = "off"
    BY <2>1
  <2>7. Truth(v)' = r.regs
    <3>1. lr'[v] = r.regs
      BY <2>2, <2>3 DEF TypeOK
    <3>2. CASE resident[Affinity[v]] = v
      <4>1. hw'[Affinity[v]] = r.regs
        BY <2>4, <2>5, <3>2 DEF TypeOK
      <4> QED
        BY <2>1, <3>2, <4>1 DEF Truth
    <3>3. CASE resident[Affinity[v]] # v
      BY <2>1, <3>1, <3>3 DEF Truth
    <3> QED
      BY <3>2, <3>3
  <2>8. \A w \in Vcpus : w # v => Truth(w)' = Truth(w)
    <3>1. \A w \in Vcpus : w # v => lr'[w] = lr[w]
      BY <2>3 DEF TypeOK
    <3>2. \A w \in Vcpus : w # v /\ resident[Affinity[w]] = w => hw'[Affinity[w]] = hw[Affinity[w]]
      BY <2>2, <2>4, <2>5, AffinityType DEF TypeOK
    <3> QED
      BY <2>1, <3>1, <3>2 DEF Truth
  <2>9. r = Refill(Truth(v), v)
    BY DEF r
  <2> QED
    BY <2>1, <2>2, <2>3, <2>6, <2>7, <2>8, <2>9, RefillExclusive
<1> QED
  BY <1>1, <1>2, <1>3, <1>4 DEF Execute

LEMMA BoundInterrupt ==
  ASSUME TypeOK, Located, Present, Exclusive, NEW c \in Cores, Interrupt(c)
  PROVE  Present' /\ Exclusive'
<1>1. CASE CrossCall(c) \/ StrayMaintenance(c)
  <2>1. UNCHANGED <<owed, token, armed, gen, state, lr, hard>>
    BY <1>1 DEF CrossCall, StrayMaintenance, banks, shadow, device
  <2> QED
    BY <2>1, SameTruth, Unmoved
<1>2. ASSUME NEW s \in Spis, PostSpi(c, s) PROVE Present' /\ Exclusive'
  <2>1. UNCHANGED <<owed, token, armed, gen, state, lr, hard>>
    BY <1>2 DEF PostSpi, shadow, device
  <2> QED
    BY <2>1, SameTruth, Unmoved
<1>3. ASSUME NEW v \in Vcpus, NEW p \in Priv, PostPrivate(c, v, p) PROVE Present' /\ Exclusive'
  <2>1. UNCHANGED <<owed, token, armed, gen, state, lr, hard>>
    BY <1>3 DEF PostPrivate, shadow, device
  <2> QED
    BY <2>1, SameTruth, Unmoved
<1>4. ASSUME NEW s \in Tracked, DeviceIrq(c, s) PROVE Present' /\ Exclusive'
  <2>1. /\ armed[s] /\ armed' = [armed EXCEPT ![s] = FALSE] /\ UNCHANGED <<token, gen, state, lr, hard>>
        /\ owed' = owed \/ owed' = [owed EXCEPT ![s] = gen]
    BY <1>4 DEF DeviceIrq, shadow
  <2>2. s \in Spis /\ \A x \in Tracked : x \in Spis
    BY VGicAssumption
  <2>3. \A v \in Vcpus : Truth(v)' = Truth(v)
    BY <2>1, SameTruth
  <2>4. \A v \in Vcpus, i \in Lrs, x \in Tracked : Holds(v, i, x)' = Holds(v, i, x)
    BY <2>1, <2>3 DEF Holds
  <2>5. /\ \A x \in Tracked : armed'[x] = IF x = s THEN FALSE ELSE armed[x]
        /\ \A x \in Spis : x # s => owed'[x] = owed[x]
        /\ owed'[s] = owed[s] \/ owed'[s] = gen
    BY <2>1, <2>2 DEF TypeOK
  <2>6. Present'
    BY <2>1, <2>2, <2>5 DEF Present
  <2>7. \A v \in Vcpus, i \in Lrs : ~Holds(v, i, s)
    BY <2>1 DEF Exclusive
  <2>8. ASSUME NEW x \in Tracked PROVE
          /\ armed'[x] \/ owed'[x] # 0 => \A v \in Vcpus, i \in Lrs : ~Holds(v, i, x)'
          /\ ~(armed'[x] /\ owed'[x] # 0)
          /\ \A v, w \in Vcpus, i, j \in Lrs : Holds(v, i, x)' /\ Holds(w, j, x)' => v = w /\ i = j
    <3>1. CASE x = s
      BY <2>4, <2>5, <2>7, <3>1
    <3>2. CASE x # s
      <4>1. armed'[x] = armed[x] /\ owed'[x] = owed[x]
        BY <2>2, <2>5, <3>2
      <4>2. \A v \in Vcpus, i \in Lrs : Holds(v, i, x)' = Holds(v, i, x)
        BY <2>4
      <4>3. /\ armed[x] \/ owed[x] # 0 => \A v \in Vcpus, i \in Lrs : ~Holds(v, i, x)
            /\ ~(armed[x] /\ owed[x] # 0)
            /\ \A v, w \in Vcpus, i, j \in Lrs : Holds(v, i, x) /\ Holds(w, j, x) => v = w /\ i = j
        BY DEF Exclusive
      <4> QED
        BY <4>1, <4>2, <4>3
    <3> QED
      BY <3>1, <3>2
  <2> QED
    BY <2>6, <2>8 DEF Exclusive
<1>5. CASE HandleMaintenance(c)
  <2> DEFINE v == resident[c]
  <2>1. v \in Vcpus /\ DrainEois(c, v) /\ UNCHANGED <<owed, gen, state, resident>>
    BY <1>5 DEF HandleMaintenance, banks
  <2>2. /\ Eisr(c) \subseteq Lrs /\ Affinity[v] = c
        /\ lr' = [lr EXCEPT ![v] = [i \in Lrs |-> IF i \in Eisr(c) THEN FreeLr ELSE @[i]]]
        /\ token' = [token EXCEPT ![v] = [i \in Lrs |-> IF i \in Eisr(c) THEN 0 ELSE @[i]]]
        /\ hw' = [hw EXCEPT ![c] = [i \in Lrs |-> IF i \in Eisr(c) THEN FreeLr ELSE @[i]]]
    BY <2>1 DEF DrainEois, Eisr, Located
  <2>3. \A s \in Tracked : armed'[s] => armed[s] \/ \E i \in Eisr(c) : hw[c][i].id = s /\ token[v][i] = gen
    BY <2>1 DEF DrainEois
  <2>4. \A i \in Lrs \ Eisr(c) : Truth(v)'[i].id = Truth(v)[i].id
    BY <2>1, <2>2 DEF Truth, TypeOK
  <2>5. \A w \in Vcpus : w # v => Truth(w)' = Truth(w)
    <3>1. \A w \in Vcpus : w # v => lr'[w] = lr[w]
      BY <2>2 DEF TypeOK
    <3>2. \A w \in Vcpus : w # v /\ resident[Affinity[w]] = w => Affinity[w] # c
      BY DEF Located
    <3>3. \A d \in Cores : d # c => hw'[d] = hw[d]
      BY <2>2 DEF TypeOK
    <3> QED
      BY <2>1, <3>1, <3>2, <3>3, AffinityType DEF Truth
  <2> QED
    BY <2>1, <2>2, <2>3, <2>4, <2>5, Drained
<1> QED
  BY <1>1, <1>2, <1>3, <1>4, <1>5 DEF Interrupt

LEMMA BoundGuest ==
  ASSUME TypeOK, Located, Present, Exclusive, NEW c \in Cores, Guest(c)
  PROVE  Present' /\ Exclusive'
<1>1. UNCHANGED <<owed, token, armed, gen, state, lr, resident>>
  BY DEF Guest, GuestAck, GuestEoi, GuestWfi, DistMmio, RedistMmio, GuestSgi, banks, shadow, hard, device
<1>2. CASE GuestAck(c) \/ GuestEoi(c)
  <2>1. PICK i \in Lrs : \E st \in {"active", "free"} : SetLr(c, i, [hw[c][i] EXCEPT !.st = st])
    BY <1>2 DEF GuestAck, GuestEoi
  <2>2. PICK st \in {"active", "free"} : hw' = [hw EXCEPT ![c] = [hw[c] EXCEPT ![i] = [hw[c][i] EXCEPT !.st = st]]]
    BY <2>1 DEF SetLr
  <2>3. \A d \in Cores : hw[d] \in [Lrs -> ListReg]
    BY DEF TypeOK
  <2>4. \A j \in Lrs : hw[c][j] \in ListReg
    BY <2>3
  <2>5. \A d \in Cores, j \in Lrs : hw'[d][j].id = hw[d][j].id
    BY <2>2, <2>3, <2>4 DEF TypeOK, ListReg
  <2>6. \A v \in Vcpus, j \in Lrs : Truth(v)'[j].id = Truth(v)[j].id
    BY <1>1, <2>5, AffinityType DEF Truth
  <2> QED
    BY <1>1, <2>6, Unmoved
<1>3. ASSUME hw' = hw PROVE Present' /\ Exclusive'
  <2>1. \A v \in Vcpus : Truth(v)' = Truth(v)
    BY <1>1, <1>3 DEF Truth
  <2> QED
    BY <1>1, <2>1, Unmoved
<1> QED
  BY <1>2, <1>3 DEF Guest, GuestWfi, DistMmio, RedistMmio, GuestSgi, hard

LEMMA BoundPower ==
  ASSUME TypeOK, Located, Present, Exclusive, NEW c \in Cores, Power(c)
  PROVE  Present' /\ Exclusive'
<1>1. CASE Resume(c)
  <2>1. UNCHANGED <<owed, token, armed, gen, lr, hard>> /\ resident[c] \in Vcpus
    BY <1>1 DEF Resume, banks, shadow, device
  <2>2. \A v \in Vcpus : state'[v] # "off" => state[v] # "off"
    BY <1>1 DEF Resume, TypeOK
  <2> QED
    BY <2>1, <2>2, SameTruth, Unmoved
<1>2. ASSUME NEW v \in Vcpus, Retire(c, v) PROVE Present' /\ Exclusive'
  <2>1. /\ UNCHANGED <<owed, token, armed, gen, lr, hw>> /\ state' = [state EXCEPT ![v] = "off"]
        /\ resident' = [resident EXCEPT ![c] = IF @ = v THEN None ELSE @]
    BY <1>2 DEF Retire, banks, shadow, device
  <2>2. \A w \in Vcpus : state'[w] # "off" => w # v /\ state[w] # "off"
    BY <2>1 DEF TypeOK
  <2>3. \A w \in Vcpus : w # v => (resident'[Affinity[w]] = w <=> resident[Affinity[w]] = w)
    BY <2>1, AffinityType, VGicAssumption DEF TypeOK, None
  <2>4. \A w \in Vcpus : w # v => Truth(w)' = Truth(w)
    BY <2>1, <2>3 DEF Truth
  <2> QED
    BY <2>1, <2>2, <2>4, Unmoved
<1>3. ASSUME NEW v \in Vcpus, Start(c, v) PROVE Present' /\ Exclusive'
  <2>1. Seed(v) /\ UNCHANGED <<owed, armed, gen, hard>>
    BY <1>3 DEF Start, device
  <2> QED
    BY <2>1, Seeded
<1>4. CASE VmReset(c)
  <2>1. /\ owed' = [s \in Spis |-> 0] /\ gen' = gen + 1
        /\ \A v \in Vcpus : state'[v] = "off"
    BY <1>4 DEF VmReset
  <2>2. gen \in Nat /\ \A s \in Tracked : s \in Spis
    BY VGicAssumption DEF TypeOK
  <2>3. Present'
    BY <2>1, <2>2 DEF Present
  <2>4. \A v \in Vcpus, i \in Lrs, s \in Tracked : ~Holds(v, i, s)'
    BY <2>1 DEF Holds
  <2>5. \A s \in Tracked : owed'[s] = 0
    BY <2>1, <2>2
  <2>6. Exclusive'
    BY <2>4, <2>5 DEF Exclusive
  <2> QED
    BY <2>3, <2>6
<1>5. ASSUME NEW v \in Vcpus, SwitchIn(c, v) PROVE Present' /\ Exclusive'
  <2> DEFINE r == Refill(lr[v], v)
  <2>1. /\ Take(v, r.placed) /\ lr' = [lr EXCEPT ![v] = r.regs] /\ token' = [token EXCEPT ![v] = r.tokens]
        /\ hw' = [hw EXCEPT ![c] = r.regs]
        /\ resident' = [resident EXCEPT ![c] = v] /\ state' = [state EXCEPT ![v] = "running"]
        /\ resident[c] \notin Vcpus /\ Affinity[v] = c /\ state[v] = "ready" /\ UNCHANGED <<armed, gen>>
    BY <1>5 DEF SwitchIn, device
  <2>2. Truth(v) = lr[v]
    BY <2>1 DEF Truth
  <2>3. r = Refill(Truth(v), v)
    BY <2>2
  <2> HIDE DEF r
  <2>4. Truth(v)' = r.regs
    BY <2>1 DEF Truth, TypeOK
  <2>5. \A w \in Vcpus : w # v => Truth(w)' = Truth(w)
    <3>1. \A w \in Vcpus : w # v => lr'[w] = lr[w]
      BY <2>1 DEF TypeOK
    <3>2. \A w \in Vcpus : w # v => (resident'[Affinity[w]] = w <=> resident[Affinity[w]] = w)
      BY <2>1, AffinityType DEF TypeOK
    <3>3. \A w \in Vcpus : w # v /\ resident[Affinity[w]] = w => hw'[Affinity[w]] = hw[Affinity[w]]
      BY <2>1, AffinityType DEF TypeOK
    <3> QED
      BY <3>1, <3>2, <3>3 DEF Truth
  <2>6. \A w \in Vcpus : state'[w] = "off" <=> state[w] = "off"
    BY <2>1 DEF TypeOK
  <2> QED
    BY <2>1, <2>3, <2>4, <2>5, <2>6, RefillExclusive
<1>6. CASE SwitchOut(c)
  <2>1. /\ Saved(c) /\ hw' = [hw EXCEPT ![c] = EmptyLrs] /\ resident' = [resident EXCEPT ![c] = Other]
        /\ UNCHANGED <<owed, gen>> /\ state' = Parked(c)
    BY <1>6 DEF SwitchOut, banks
  <2>2. \A w \in Vcpus : state'[w] = "off" <=> state[w] = "off"
    BY <2>1 DEF Parked, TypeOK
  <2>3. Other \notin Vcpus
    BY VGicAssumption DEF Other
  <2>4. \A d \in Cores : d # c => hw'[d] = hw[d] /\ resident'[d] = resident[d]
    BY <2>1 DEF TypeOK
  <2>5. resident'[c] \notin Vcpus
    BY <2>1, <2>3 DEF TypeOK
  <2>6. CASE resident[c] \notin Vcpus
    <3>1. UNCHANGED <<lr, token, armed>>
      BY <2>1, <2>6 DEF Saved
    <3>2. \A w \in Vcpus : Truth(w)' = Truth(w)
      BY <2>4, <2>5, <2>6, <3>1, AffinityType DEF Truth
    <3> QED
      BY <2>1, <2>2, <3>1, <3>2, Unmoved
  <2>7. CASE resident[c] \in Vcpus
    <3>0. PICK v \in Vcpus : v = resident[c]
      BY <2>7
    <3>1. /\ lr' = [lr EXCEPT ![v] = [i \in Lrs |-> IF i \in Eisr(c) THEN FreeLr ELSE hw[c][i]]]
          /\ token' = [token EXCEPT ![v] = [i \in Lrs |-> IF i \in Eisr(c) THEN 0 ELSE @[i]]]
          /\ \A s \in Tracked : armed'[s] => armed[s] \/ \E i \in Eisr(c) : hw[c][i].id = s /\ token[v][i] = gen
      BY <2>1, <2>7, <3>0 DEF Saved
    <3>2. Affinity[v] = c
      BY <3>0 DEF Located
    <3>5. \A i \in Lrs : lr'[v][i] = IF i \in Eisr(c) THEN FreeLr ELSE hw[c][i]
      BY <3>1 DEF TypeOK
    <3>6. Truth(v) = hw[c] /\ Truth(v)' = lr'[v]
      BY <2>5, <3>0, <3>2 DEF Truth
    <3>3. \A i \in Lrs \ Eisr(c) : Truth(v)'[i].id = Truth(v)[i].id
      BY <3>5, <3>6
    <3>4. \A w \in Vcpus : w # v => Truth(w)' = Truth(w)
      <4>1. \A w \in Vcpus : w # v => lr'[w] = lr[w]
        BY <3>1 DEF TypeOK
      <4>2. \A w \in Vcpus : w # v => (resident'[Affinity[w]] = w <=> resident[Affinity[w]] = w)
        BY <2>4, <2>5, <3>0, AffinityType
      <4>3. \A w \in Vcpus : w # v /\ resident[Affinity[w]] = w => hw'[Affinity[w]] = hw[Affinity[w]]
        BY <2>4, <3>0, <3>2, AffinityType
      <4> QED
        BY <4>1, <4>2, <4>3 DEF Truth
    <3> QED
      BY <2>1, <2>2, <3>0, <3>1, <3>3, <3>4, Drained
  <2> QED
    BY <2>6, <2>7
<1> QED
  BY <1>1, <1>2, <1>3, <1>4, <1>5, <1>6 DEF Power

LEMMA BoundHolds == Spec => []Bound
<1>1. Init => Bound
  <2> SUFFICES ASSUME Init PROVE Bound
    OBVIOUS
  <2>1. /\ \A c \in Cores : resident[c] \notin Vcpus /\ dirty[c] = {} /\ mail[c] = <<>> /\ agenda[c] = <<>>
        /\ gen = 1 /\ \A s \in Spis : owed[s] = 0
        /\ \A v \in Vcpus, i \in Lrs : token[v][i] = 0
    BY VGicAssumption DEF Init, None, NoTokens
  <2>2. Located
    BY <2>1, EmptySeq DEF Located
  <2>3. Present
    BY <2>1 DEF Present
  <2>4. Exclusive
    BY <2>1, VGicAssumption DEF Exclusive, Holds
  <2> QED
    BY <2>2, <2>3, <2>4 DEF Bound
<1>2. TypeOK /\ Bound /\ [Next]_vars => Bound'
  <2> SUFFICES ASSUME TypeOK, Located, Present, Exclusive, [Next]_vars PROVE Bound'
    BY DEF Bound
  <2>1. CASE UNCHANGED vars
    <3>1. /\ UNCHANGED <<owed, token, armed, gen, state, lr, hard, resident>>
          /\ UNCHANGED <<dirty, mail, agenda>>
      BY <2>1 DEF vars, banks, shadow, hard, calls, device
    <3>2. Present' /\ Exclusive'
      BY <3>1, SameTruth, Unmoved
    <3>3. Located'
      BY <3>1 DEF Located, Rightly
    <3> QED
      BY <3>2, <3>3 DEF Bound
  <2>2. ASSUME NEW c \in Cores, Execute(c) \/ Interrupt(c) \/ Guest(c) \/ Power(c) PROVE Bound'
    <3>1. Located'
      BY <2>2, LocatedExecute, LocatedInterrupt, LocatedGuest, LocatedPower
    <3>2. Present' /\ Exclusive'
      BY <2>2, BoundExecute, BoundInterrupt, BoundGuest, BoundPower
    <3> QED
      BY <3>1, <3>2 DEF Bound
  <2> QED
    BY <2>1, <2>2 DEF Next
<1> QED
  BY <1>1, <1>2, TypeCorrect, PTL DEF Spec

\* The token of a device interrupt is bound to the distributor or moved to one
\* list register of one vCPU, never both, never in two, and never while the
\* line is unmasked: no EOI rearms a device twice.
THEOREM TokenInOnePlace == Spec => []OneToken
<1>1. Bound => OneToken
  <2> SUFFICES ASSUME Bound, NEW s \in Tracked
               PROVE  /\ Cardinality(Holders(s)) + (IF owed[s] # 0 THEN 1 ELSE 0) <= 1
                      /\ armed[s] => Holders(s) = {} /\ owed[s] = 0
    BY DEF OneToken
  <2>1. Exclusive /\ s \in Spis
    BY VGicAssumption DEF Bound
  <2>2. \A v \in Holders(s) : v \in Vcpus /\ \E i \in Lrs : Holds(v, i, s)
    BY DEF Holders, Holds
  <2>3. armed[s] \/ owed[s] # 0 => Holders(s) = {}
    BY <2>1, <2>2 DEF Exclusive
  <2>4. Holders(s) = {} \/ \E v : Holders(s) = {v}
    <3>1. \A v, w \in Holders(s) : v = w
      BY <2>1, <2>2 DEF Exclusive
    <3> QED
      BY <3>1
  <2>5. Cardinality(Holders(s)) \in {0, 1} /\ (Holders(s) = {} => Cardinality(Holders(s)) = 0)
    BY <2>4, FS_EmptySet, FS_Singleton
  <2>6. armed[s] => owed[s] = 0
    BY <2>1 DEF Exclusive
  <2> QED
    BY <2>3, <2>5, <2>6
<1> QED
  BY <1>1, BoundHolds, PTL

-----------------------------------------------------------------------------
(* Nothing deliverable is forgotten.                                       *)

\* What is left of the EL2 code of a core, in any order.
Work(c) == {agenda[c][k] : k \in DOMAIN agenda[c]}
Covers(i, v) == v \in {i.at} \cup i.more

\* Somebody is still to look at the vCPU again: its own core, or a core that
\* has its name in a loop.
Called(v) ==
  \/ v \in dirty[Affinity[v]]
  \/ \E c \in Cores : \E i \in Work(c) : i.do = "notify" /\ Covers(i, v)
  \/ \E i \in Work(Affinity[v]) : i.do = "reeval" /\ Covers(i, v)
Queued(v, what) == \E i \in Work(Affinity[v]) : i.do = what /\ i.at = v

\* What a resident vCPU would take is in its registers, or an end of
\* interrupt to come brings the core back.
Brought(c, v) ==
  Maintenance(c) \/ hwUie[c]
    \/ \A x \in Wanted(v) : \E i \in Lrs : InFlight(hw[c][i]) /\ hw[c][i].id = x /\ hw[c][i].eoi

\* A mark has raised its SGI, which is taken or will be.
Marked == \A c \in Cores : dirty[c] # {} => sgi[c] \/ \E i \in Work(c) : i.do = "exchange"

\* A vCPU nobody is to look at again has what it needs: resident, what it
\* wants was brought to it; blocked, there is nothing to wake it for.
Fetched(v) ==
  resident[Affinity[v]] = v /\ ~Called(v) /\ ~Queued(v, "flush") => Brought(Affinity[v], v)
Awake(v) == state[v] = "blocked" /\ ~Called(v) /\ ~Queued(v, "wake") => ~HasDeliverable(v)

Heard == Marked /\ \A v \in Vcpus : Fetched(v) /\ Awake(v)

\* A refill leaves nothing behind unseen: either it could not take all, and
\* says so, or what is still wanted is in flight with its maintenance armed.
LEMMA RefillSees ==
  ASSUME TypeOK, NEW v \in Vcpus, NEW regs \in [Lrs -> ListReg], NEW r, r = Refill(regs, v),
         ~r.overflow, NEW x \in Wanted(v), x \notin r.placed
  PROVE  \E i \in Lrs : InFlight(r.regs[i]) /\ r.regs[i].id = x /\ r.regs[i].eoi
<1> DEFINE cand    == Candidates(regs, v)
           free    == {i \in Lrs : ~InFlight(regs[i])}
           turn(i) == Cardinality({j \in free : j <= i})
           best(i) == {y \in cand : Rank(y, cand) = turn(i)}
           used    == {i \in free : best(i) # {}}
           pick(i) == CHOOSE y \in best(i) : TRUE
           owes(y) == IF y \in Spis THEN owed[y] ELSE 0
           new(i)  == [st |-> "pending", id |-> pick(i), eoi |-> owes(pick(i)) # 0]
           full    == [i \in Lrs |-> IF i \in used THEN new(i) ELSE ArmEoi(regs[i], v)]
           placed  == {pick(i) : i \in used}
<1>1. r.regs = full /\ r.placed = placed /\ r.overflow = (placed # cand)
  BY DEF Refill
<1>2. x \notin cand
  BY <1>1
<1>3. PICK j \in Lrs : InFlight(regs[j]) /\ regs[j].id = x
  BY <1>2 DEF Candidates, FlightIds
<1>4. full[j] = ArmEoi(regs[j], v)
  BY <1>3
<1>5. ArmEoi(regs[j], v) = [regs[j] EXCEPT !.eoi = TRUE]
  BY <1>3 DEF ArmEoi
<1>6. regs[j] \in ListReg
  OBVIOUS
<1> HIDE DEF full, placed, used
<1>7. r.regs[j] = [regs[j] EXCEPT !.eoi = TRUE]
  BY <1>1, <1>4, <1>5
<1>8. r.regs[j].id = x /\ r.regs[j].eoi /\ r.regs[j].st = regs[j].st
  BY <1>3, <1>6, <1>7 DEF ListReg
<1> QED
  BY <1>3, <1>8 DEF InFlight

\* With nothing wanted, a refill injects nothing.
LEMMA RefillIdle ==
  ASSUME TypeOK, NEW v \in Vcpus, NEW regs \in [Lrs -> ListReg], Wanted(v) = {}
  PROVE  \A i \in Lrs : Refill(regs, v).regs[i].st = regs[i].st
<1> DEFINE cand    == Candidates(regs, v)
           free    == {i \in Lrs : ~InFlight(regs[i])}
           turn(i) == Cardinality({j \in free : j <= i})
           best(i) == {y \in cand : Rank(y, cand) = turn(i)}
           used    == {i \in free : best(i) # {}}
           pick(i) == CHOOSE y \in best(i) : TRUE
           owes(y) == IF y \in Spis THEN owed[y] ELSE 0
           new(i)  == [st |-> "pending", id |-> pick(i), eoi |-> owes(pick(i)) # 0]
           full    == [i \in Lrs |-> IF i \in used THEN new(i) ELSE ArmEoi(regs[i], v)]
<1>1. Refill(regs, v).regs = full
  BY DEF Refill
<1>2. cand = {}
  BY DEF Candidates
<1>3. used = {}
  BY <1>2
<1>4. \A i \in Lrs : full[i] = regs[i]
  BY <1>3 DEF ArmEoi
<1> QED
  BY <1>1, <1>4

\* A refill takes what it placed out of what the vCPU wants, and gives nobody
\* anything to want.
LEMMA TakeWanted ==
  ASSUME TypeOK, NEW v \in Vcpus, NEW placed, Take(v, placed)
  PROVE  /\ \A w \in Vcpus : Wanted(w)' \subseteq Wanted(w)
         /\ Wanted(v)' \subseteq Wanted(v) \ placed
<1>1. /\ \A w \in Vcpus : redist'[w].enabled = redist[w].enabled /\ redist'[w].pending \subseteq redist[w].pending
      /\ redist'[v].pending = redist[v].pending \ placed
  BY DEF Take, TypeOK
<1>2. dist'.pending = dist.pending \ placed /\ dist'.enabled = dist.enabled /\ dist'.route = dist.route
  BY DEF Take, TypeOK
<1>3. \A w \in Vcpus : Wanted(w)' \subseteq Wanted(w)
  BY <1>1, <1>2 DEF Wanted
<1>4. Wanted(v)' \subseteq Wanted(v) \ placed
  BY <1>1, <1>2 DEF Wanted
<1> QED
  BY <1>3, <1>4

\* The registers of a core after a refill of them.
LEMMA RefillBrings ==
  ASSUME TypeOK, NEW c \in Cores, NEW v \in Vcpus, NEW regs \in [Lrs -> ListReg],
         NEW r, r = Refill(regs, v), Take(v, r.placed), hw'[c] = r.regs, hwUie'[c] = r.overflow
  PROVE  Brought(c, v)'
<1>1. CASE r.overflow
  BY <1>1 DEF Brought
<1>2. CASE ~r.overflow
  <2>1. \A x \in Wanted(v)' : x \in Wanted(v) /\ x \notin r.placed
    BY TakeWanted
  <2>2. \A x \in Wanted(v)' : \E i \in Lrs : InFlight(r.regs[i]) /\ r.regs[i].id = x /\ r.regs[i].eoi
    BY <1>2, <2>1, RefillSees
  <2> QED
    BY <2>2 DEF Brought
<1> QED
  BY <1>1, <1>2

-----------------------------------------------------------------------------
(* What a step leaves to do.                                               *)

\* All that was to be done still is, but for the instruction core c executes.
Kept(c) == \A d \in Cores : \A i \in Work(d) : i \in Work(d)' \/ (d = c /\ i = Now(c))
KeptAll == \A d \in Cores : \A i \in Work(d) : i \in Work(d)'

LEMMA WorkThen ==
  ASSUME TypeOK, NEW c \in Cores, agenda[c] # <<>>, NEW is \in Seq(Instr), Then(c, is)
  PROVE  Kept(c) /\ \A k \in DOMAIN is : is[k] \in Work(c)'
<1>1. agenda \in [Cores -> Seq(Instr)]
  BY DEF TypeOK
<1>2. \A d \in Cores : agenda'[d] = IF d = c THEN is \o Tail(agenda[c]) ELSE agenda[d]
  BY <1>1 DEF Then
<1> DEFINE t == Tail(agenda[c])
<1>3. /\ t \in Seq(Instr) /\ Len(t) \in Nat /\ DOMAIN t = 1..Len(t) /\ Len(t) = Len(agenda[c]) - 1
      /\ Now(c) = agenda[c][1] /\ \A k \in 1..Len(t) : t[k] = agenda[c][k + 1]
      /\ Len(agenda[c]) \in Nat /\ DOMAIN agenda[c] = 1..Len(agenda[c])
  BY <1>1, HeadTailProperties, LenProperties DEF Now
<1> HIDE DEF t
<1>4. t \in Seq(Instr)
  BY <1>3
<1>5. is \o t \in Seq(Instr) /\ Len(is \o t) = Len(is) + Len(t) /\ Len(is) \in Nat /\ DOMAIN is = 1..Len(is)
  BY <1>4, LenProperties, ConcatProperties
<1>6. \A k \in 1..(Len(is) + Len(t)) : (is \o t)[k] = IF k <= Len(is) THEN is[k] ELSE t[k - Len(is)]
  BY <1>4, ConcatProperties
<1>7. DOMAIN (is \o t) = 1..Len(is \o t)
  BY <1>5, LenProperties
<1>8. /\ Len(is) \in Nat /\ DOMAIN is = 1..Len(is) /\ DOMAIN (is \o t) = 1..(Len(is) + Len(t))
      /\ \A k \in 1..(Len(is) + Len(t)) : (is \o t)[k] = IF k <= Len(is) THEN is[k] ELSE t[k - Len(is)]
  BY <1>5, <1>6, <1>7
<1>9. \A k \in DOMAIN is : k \in DOMAIN (is \o t) /\ (is \o t)[k] = is[k]
  BY <1>3, <1>8
<1>10. \A k \in DOMAIN t : Len(is) + k \in DOMAIN (is \o t) /\ (is \o t)[Len(is) + k] = t[k]
  BY <1>3, <1>8
<1>11. agenda'[c] = is \o t
  BY <1>2 DEF t
<1>12. \A k \in DOMAIN is : is[k] \in Work(c)'
  BY <1>9, <1>11 DEF Work
<1>13. ASSUME NEW k \in DOMAIN agenda[c] PROVE agenda[c][k] \in Work(c)' \/ agenda[c][k] = Now(c)
  <2>1. CASE k = 1
    BY <1>3, <2>1
  <2>2. CASE k # 1
    <3>1. k - 1 \in DOMAIN t /\ t[k - 1] = agenda[c][k]
      BY <1>3, <1>13, <2>2
    <3>2. agenda'[c][Len(is) + (k - 1)] = agenda[c][k] /\ Len(is) + (k - 1) \in DOMAIN agenda'[c]
      BY <1>10, <1>11, <3>1
    <3> QED
      BY <3>2 DEF Work
  <2> QED
    BY <2>1, <2>2
<1>14. \A d \in Cores : d # c => Work(d)' = Work(d)
  BY <1>2 DEF Work
<1>15. \A i \in Work(c) : i \in Work(c)' \/ i = Now(c)
  <2>1. \A i \in Work(c) : \E k \in DOMAIN agenda[c] : i = agenda[c][k]
    BY DEF Work
  <2> QED
    BY <1>13, <2>1
<1>16. Kept(c)
  BY <1>14, <1>15 DEF Kept
<1> QED
  BY <1>12, <1>16

LEMMA WorkEnter ==
  ASSUME TypeOK, NEW c \in Cores, NEW is \in Seq(Instr), Enter(c, is)
  PROVE  KeptAll /\ \A k \in DOMAIN is : is[k] \in Work(c)'
<1>1. \A d \in Cores : agenda'[d] = IF d = c THEN is ELSE agenda[d]
  BY DEF Enter, TypeOK
<1>2. agenda[c] = <<>>
  BY DEF Enter
<1>3. Work(c) = {}
  BY <1>2, EmptySeq DEF Work
<1> QED
  BY <1>1, <1>3 DEF Work, KeptAll

LEMMA WorkSame == ASSUME agenda' = agenda PROVE KeptAll
BY DEF KeptAll, Work

\* A loop names all its vCPUs.
LEMMA EachCovers ==
  ASSUME NEW c \in Cores, NEW what \in Steps, NEW S \in SUBSET Vcpus, NEW v \in S,
         \A k \in DOMAIN Each(what, S) : Each(what, S)[k] \in Work(c)'
  PROVE  \E i \in Work(c)' : i.do = what /\ Covers(i, v)
<1> DEFINE i == [Do(what, Least(S)) EXCEPT !.more = S \ {Least(S)}]
<1>1. Least(S) \in S
  BY LeastIn
<1>2. i.do = what /\ i.at = Least(S) /\ i.more = S \ {Least(S)}
  BY DEF Do
<1>3. Each(what, S) = <<i>>
  BY DEF Each
<1> HIDE DEF i
<1>4. i \in Work(c)'
  BY <1>3
<1> QED
  BY <1>2, <1>4 DEF Covers

\* A refresh queues the refill, and a look at a vCPU that blocked.
LEMMA RefreshQueues ==
  ASSUME NEW v \in Vcpus, \A k \in DOMAIN Refresh(v) : Refresh(v)[k] \in Work(Affinity[v])'
  PROVE  /\ state[v] # "off" => Queued(v, "flush")'
         /\ state[v] = "blocked" => Queued(v, "wake")'
<1> DEFINE f == Do("flush", v)
           w == Do("wake", v)
<1>1. f.do = "flush" /\ f.at = v /\ w.do = "wake" /\ w.at = v
  BY DEF Do
<1>2. Refresh(v) = IF state[v] = "off" THEN <<>> ELSE IF state[v] = "blocked" THEN <<f, w>> ELSE <<f>>
  BY DEF Refresh
<1> HIDE DEF f, w
<1>3. CASE state[v] = "blocked"
  <2>1. f \in Work(Affinity[v])' /\ w \in Work(Affinity[v])'
    BY <1>2, <1>3
  <2> QED
    BY <1>1, <2>1 DEF Queued
<1>4. CASE state[v] # "blocked" /\ state[v] # "off"
  <2>1. f \in Work(Affinity[v])'
    BY <1>2, <1>4
  <2> QED
    BY <1>1, <1>4, <2>1 DEF Queued
<1> QED
  BY <1>3, <1>4

\* What precedes and what follows in a concatenation.
LEMMA BothWork ==
  ASSUME NEW W, NEW a \in Seq(Instr), NEW b \in Seq(Instr), \A k \in DOMAIN (a \o b) : (a \o b)[k] \in W
  PROVE  (\A k \in DOMAIN a : a[k] \in W) /\ (\A k \in DOMAIN b : b[k] \in W)
<1>1. /\ Len(a) \in Nat /\ Len(b) \in Nat /\ DOMAIN a = 1..Len(a) /\ DOMAIN b = 1..Len(b)
      /\ DOMAIN (a \o b) = 1..(Len(a) + Len(b))
      /\ \A k \in 1..(Len(a) + Len(b)) : (a \o b)[k] = IF k <= Len(a) THEN a[k] ELSE b[k - Len(a)]
  BY LenProperties, ConcatProperties
<1>2. \A k \in DOMAIN a : k \in DOMAIN (a \o b) /\ (a \o b)[k] = a[k]
  BY <1>1
<1>3. \A k \in DOMAIN b : Len(a) + k \in DOMAIN (a \o b) /\ (a \o b)[Len(a) + k] = b[k]
  BY <1>1
<1> QED
  BY <1>2, <1>3

\* A vCPU the step is not about: what called it still does, unless that is
\* the instruction executed.
LEMMA Calm ==
  ASSUME NEW v \in Vcpus, Fetched(v), Awake(v), Called(v) => Called(v)',
         Queued(v, "flush") => Queued(v, "flush")', Queued(v, "wake") => Queued(v, "wake")',
         Wanted(v)' \subseteq Wanted(v),
         resident'[Affinity[v]] = v =>
           /\ resident[Affinity[v]] = v
           /\ hw'[Affinity[v]] = hw[Affinity[v]] /\ hwUie'[Affinity[v]] = hwUie[Affinity[v]],
         state'[v] = "blocked" =>
           state[v] = "blocked" /\ \A i \in Lrs : Truth(v)'[i].st = "pending" => Truth(v)[i].st = "pending"
  PROVE  Fetched(v)' /\ Awake(v)'
<1>1. Fetched(v)'
  <2> SUFFICES ASSUME resident'[Affinity[v]] = v, ~Called(v)', ~Queued(v, "flush")'
               PROVE  Brought(Affinity[v], v)'
    BY DEF Fetched
  <2>1. Brought(Affinity[v], v)
    BY DEF Fetched
  <2>2. Maintenance(Affinity[v])' = Maintenance(Affinity[v])
    BY DEF Maintenance, Eisr
  <2> QED
    BY <2>1, <2>2 DEF Brought
<1>2. Awake(v)'
  <2> SUFFICES ASSUME state'[v] = "blocked", ~Called(v)', ~Queued(v, "wake")'
               PROVE  ~HasDeliverable(v)'
    BY DEF Awake
  <2>1. ~HasDeliverable(v)
    BY DEF Awake
  <2> QED
    BY <2>1 DEF HasDeliverable
<1> QED
  BY <1>1, <1>2

LEMMA CallsKept ==
  ASSUME TypeOK, NEW v \in Vcpus, NEW c \in Cores, Kept(c), dirty[Affinity[v]] \subseteq dirty'[Affinity[v]],
         Now(c).do \in {"notify", "reeval"} => ~Covers(Now(c), v)
  PROVE  Called(v) => Called(v)'
<1>1. Affinity[v] \in Cores
  BY AffinityType
<1>2. CASE v \in dirty[Affinity[v]]
  BY <1>2 DEF Called
<1>3. ASSUME NEW d \in Cores, NEW i \in Work(d), i.do = "notify", Covers(i, v) PROVE Called(v)'
  <2>1. i \in Work(d)'
    BY <1>3 DEF Kept
  <2> QED
    BY <1>3, <2>1 DEF Called, Covers
<1>4. ASSUME NEW i \in Work(Affinity[v]), i.do = "reeval", Covers(i, v) PROVE Called(v)'
  <2>1. i \in Work(Affinity[v])'
    BY <1>1, <1>4 DEF Kept
  <2> QED
    BY <1>4, <2>1 DEF Called, Covers
<1> QED
  BY <1>2, <1>3, <1>4 DEF Called

LEMMA QueueKept ==
  ASSUME NEW v \in Vcpus, NEW c \in Cores, Kept(c), NEW what, ~(Now(c).do = what /\ Now(c).at = v)
  PROVE  Queued(v, what) => Queued(v, what)'
<1>1. Affinity[v] \in Cores
  BY AffinityType
<1> QED
  BY <1>1 DEF Queued, Kept

LEMMA AllKept ==
  ASSUME NEW v \in Vcpus, KeptAll, dirty[Affinity[v]] \subseteq dirty'[Affinity[v]]
  PROVE  /\ Called(v) => Called(v)'
         /\ \A what \in Steps : Queued(v, what) => Queued(v, what)'
<1>1. Affinity[v] \in Cores
  BY AffinityType
<1>2. Called(v) => Called(v)'
  <2>1. CASE v \in dirty[Affinity[v]]
    BY <2>1 DEF Called
  <2>2. ASSUME NEW d \in Cores, NEW i \in Work(d), i.do = "notify", Covers(i, v) PROVE Called(v)'
    BY <2>2 DEF Called, Covers, KeptAll
  <2>3. ASSUME NEW i \in Work(Affinity[v]), i.do = "reeval", Covers(i, v) PROVE Called(v)'
    BY <1>1, <2>3 DEF Called, Covers, KeptAll
  <2> QED
    BY <2>1, <2>2, <2>3 DEF Called
<1>3. \A what \in Steps : Queued(v, what) => Queued(v, what)'
  BY <1>1 DEF Queued, KeptAll
<1> QED
  BY <1>2, <1>3

-----------------------------------------------------------------------------
(* Every step leaves each vCPU called, or with what it needs.              *)

LEMMA Informed ==
  ASSUME NEW v \in Vcpus, Called(v)'
  PROVE  Fetched(v)' /\ Awake(v)'
BY DEF Fetched, Awake

LEMMA Refreshed ==
  ASSUME Located, NEW v \in Vcpus, \A k \in DOMAIN Refresh(v) : Refresh(v)[k] \in Work(Affinity[v])',
         resident' = resident, state' = state
  PROVE  Fetched(v)' /\ Awake(v)'
<1>1. /\ state[v] # "off" => Queued(v, "flush")'
      /\ state[v] = "blocked" => Queued(v, "wake")'
  BY RefreshQueues
<1>2. resident[Affinity[v]] = v => state[v] # "off"
  BY AffinityType DEF Located
<1> QED
  BY <1>1, <1>2 DEF Fetched, Awake

\* An instruction that marks nobody and is not the exchange.
LEMMA MarkedKept ==
  ASSUME Marked, NEW c \in Cores, Kept(c), Now(c).do # "exchange", dirty' = dirty,
         \A d \in Cores : sgi[d] => sgi'[d]
  PROVE  Marked'
BY DEF Marked, Kept

LEMMA MarkedAll ==
  ASSUME Marked, KeptAll, dirty' = dirty, \A d \in Cores : sgi[d] => sgi'[d]
  PROVE  Marked'
BY DEF Marked, KeptAll

LEMMA SameWanted ==
  ASSUME NEW v \in Vcpus, redist'[v] = redist[v], dist' = dist
  PROVE  Wanted(v)' = Wanted(v)
BY DEF Wanted

LEMMA PendedWanted ==
  ASSUME TypeOK, NEW v \in Vcpus, NEW p \in Priv, Pended(v, p), dist' = dist
  PROVE  \A w \in Vcpus : w # v => Wanted(w)' = Wanted(w)
<1>1. \A w \in Vcpus : w # v => redist'[w] = redist[w]
  BY DEF Pended, TypeOK
<1> QED
  BY <1>1, SameWanted

\* A vCPU whose registers, bank and state the step leaves alone.
LEMMA Alone ==
  ASSUME NEW v \in Vcpus, Fetched(v), Awake(v), Called(v) => Called(v)',
         Queued(v, "flush") => Queued(v, "flush")', Queued(v, "wake") => Queued(v, "wake")',
         Wanted(v)' \subseteq Wanted(v), UNCHANGED <<lr, hard, state>>
  PROVE  Fetched(v)' /\ Awake(v)'
<1>1. Truth(v)' = Truth(v)
  BY SameTruth
<1>2. resident' = resident /\ hw' = hw /\ hwUie' = hwUie
  BY DEF hard
<1> QED
  BY <1>1, <1>2, Calm

\* A step that enters EL2 code or none, marks nobody and leaves registers and
\* states alone: who may want more is called or refreshed.
LEMMA Entered ==
  ASSUME TypeOK, Heard, KeptAll, UNCHANGED <<lr, hard, state>>, dirty' = dirty,
         \A d \in Cores : sgi[d] => sgi'[d],
         \A v \in Vcpus : Wanted(v)' \subseteq Wanted(v) \/ (Fetched(v)' /\ Awake(v)')
  PROVE  Heard'
<1>1. Marked'
  BY MarkedAll DEF Heard
<1>2. ASSUME NEW v \in Vcpus PROVE Fetched(v)' /\ Awake(v)'
  <2>1. CASE Wanted(v)' \subseteq Wanted(v)
    <3>1. "flush" \in Steps /\ "wake" \in Steps
      BY DEF Steps
    <3>2. /\ Called(v) => Called(v)'
          /\ Queued(v, "flush") => Queued(v, "flush")'
          /\ Queued(v, "wake") => Queued(v, "wake")'
      BY <3>1, AllKept
    <3> QED
      BY <2>1, <3>2, Alone DEF Heard
  <2> QED
    BY <2>1
<1> QED
  BY <1>1, <1>2 DEF Heard

LEMMA NowWork ==
  ASSUME TypeOK, Located, NEW c \in Cores, Execute(c)
  PROVE  /\ agenda[c] # <<>> /\ Now(c) \in Instr /\ Now(c).at \in Vcpus /\ Now(c).more \in SUBSET Vcpus
         /\ Rightly(c, Now(c)) /\ Now(c) \in Work(c)
<1>1. agenda \in [Cores -> Seq(Instr)] /\ agenda[c] # <<>>
  BY DEF TypeOK, Execute, Pend, DoFlush, Wake, Sleep, Notify, Reeval, Exchange, Boot, At
<1>2. Now(c) = agenda[c][1] /\ 1 \in DOMAIN agenda[c]
  BY <1>1, HeadTailProperties, LenProperties, EmptySeq DEF Now
<1> QED
  BY <1>1, <1>2, NowType DEF Located, Work

LEMMA HeardPend ==
  ASSUME TypeOK, Located, Heard, NEW c \in Cores, Execute(c), Pend(c)
  PROVE  Heard'
<1>0. PICK u \in Vcpus : u = Now(c).at
  BY NowWork
<1>1. /\ agenda[c] # <<>> /\ Now(c).do = "pend" /\ Affinity[u] = c /\ Now(c).id \in Priv
  BY <1>0, NowWork DEF Pend, At, Now, Rightly, Instr
<1>2. /\ Pended(u, Now(c).id) /\ Then(c, Refresh(u)) /\ UNCHANGED <<dist, lr, hard, state, dirty, sgi>>
  BY <1>0 DEF Pend, shadow, calls
<1>3. Kept(c) /\ \A k \in DOMAIN Refresh(u) : Refresh(u)[k] \in Work(c)'
  BY <1>1, <1>2, RefreshType, WorkThen
<1>4. Marked'
  BY <1>1, <1>2, <1>3, MarkedKept DEF Heard
<1>5. Fetched(u)' /\ Awake(u)'
  BY <1>1, <1>2, <1>3, Refreshed DEF hard
<1>6. ASSUME NEW v \in Vcpus, v # u PROVE Fetched(v)' /\ Awake(v)'
  <2>1. Wanted(v)' = Wanted(v)
    BY <1>1, <1>2, <1>6, PendedWanted
  <2>2. Called(v) => Called(v)'
    BY <1>1, <1>2, <1>3, CallsKept
  <2>3. /\ Queued(v, "flush") => Queued(v, "flush")'
        /\ Queued(v, "wake") => Queued(v, "wake")'
    BY <1>1, <1>3, QueueKept
  <2> QED
    BY <1>2, <2>1, <2>2, <2>3, Alone DEF Heard
<1> QED
  BY <1>4, <1>5, <1>6 DEF Heard

\* A flush: the vCPU's registers are refilled, the others keep theirs.
LEMMA HeardFlush ==
  ASSUME TypeOK, Located, Heard, NEW c \in Cores, Execute(c), DoFlush(c)
  PROVE  Heard'
<1>0. PICK u \in Vcpus : u = Now(c).at
  BY NowWork
<1> DEFINE r == Refill(Truth(u), u)
<1>1. /\ agenda[c] # <<>> /\ Now(c).do = "flush" /\ Affinity[u] = c
  BY <1>0, NowWork DEF DoFlush, At, Now, Rightly
<1>2. /\ Flush(u) /\ Then(c, <<>>) /\ UNCHANGED <<resident, state, dirty, sgi>>
  BY <1>0 DEF DoFlush, calls
<1>3. Kept(c)
  BY <1>1, <1>2, EmptySeq, WorkThen
<1>4. Marked'
  BY <1>1, <1>2, <1>3, MarkedKept DEF Heard
<1>5. /\ Take(u, r.placed) /\ lr' = [lr EXCEPT ![u] = r.regs]
      /\ IF resident[c] = u
         THEN hw' = [hw EXCEPT ![c] = r.regs] /\ hwUie' = [hwUie EXCEPT ![c] = r.overflow]
         ELSE hw' = hw /\ hwUie' = hwUie
  BY <1>1, <1>2 DEF Flush
<1>6. Truth(u) \in [Lrs -> ListReg] /\ r = Refill(Truth(u), u)
  BY TruthType
<1>7. Wanted(u) = {} => \A i \in Lrs : r.regs[i].st = Truth(u)[i].st
  BY <1>6, RefillIdle
<1> HIDE DEF r
<1>8. \A v \in Vcpus : Wanted(v)' \subseteq Wanted(v)
  BY <1>5, TakeWanted
<1>9. ASSUME NEW v \in Vcpus
      PROVE  /\ Called(v) => Called(v)'
             /\ Queued(v, "wake") => Queued(v, "wake")'
             /\ v # u => (Queued(v, "flush") => Queued(v, "flush")')
  BY <1>0, <1>1, <1>2, <1>3, CallsKept, QueueKept
<1>10. Truth(u)' = r.regs
  <2>1. lr'[u] = r.regs
    BY <1>5 DEF TypeOK
  <2>2. resident[c] = u => hw'[c] = r.regs
    BY <1>5 DEF TypeOK
  <2> QED
    BY <1>1, <1>2, <2>1, <2>2 DEF Truth
<1>11. Fetched(u)'
  <2>1. CASE resident[c] = u
    <3>1. hw'[c] = r.regs /\ hwUie'[c] = r.overflow
      BY <1>5, <2>1 DEF TypeOK
    <3>2. Brought(c, u)'
      BY <1>5, <1>6, <3>1, RefillBrings
    <3> QED
      BY <1>1, <3>2 DEF Fetched
  <2>2. CASE resident[c] # u
    BY <1>1, <1>2, <2>2 DEF Fetched
  <2> QED
    BY <2>1, <2>2
<1>12. Awake(u)'
  <2> SUFFICES ASSUME state[u] = "blocked", ~Called(u)', ~Queued(u, "wake")'
               PROVE  ~HasDeliverable(u)'
    BY <1>2 DEF Awake
  <2>1. ~HasDeliverable(u)
    BY <1>9 DEF Heard, Awake
  <2>2. Wanted(u) = {} /\ \A i \in Lrs : Truth(u)[i].st # "pending"
    BY <2>1 DEF HasDeliverable
  <2>3. Wanted(u)' = {} /\ \A i \in Lrs : Truth(u)'[i].st # "pending"
    BY <1>7, <1>8, <1>10, <2>2
  <2> QED
    BY <2>3 DEF HasDeliverable
<1>13. ASSUME NEW v \in Vcpus, v # u PROVE Fetched(v)' /\ Awake(v)'
  <2>1. lr'[v] = lr[v]
    BY <1>5, <1>13 DEF TypeOK
  <2>2. resident[Affinity[v]] = v => hw'[Affinity[v]] = hw[Affinity[v]] /\ hwUie'[Affinity[v]] = hwUie[Affinity[v]]
    BY <1>5, <1>13, AffinityType DEF TypeOK
  <2>3. Truth(v)' = Truth(v)
    BY <1>2, <2>1, <2>2 DEF Truth
  <2> QED
    BY <1>2, <1>8, <1>9, <1>13, <2>2, <2>3, Calm DEF Heard
<1> QED
  BY <1>4, <1>11, <1>12, <1>13 DEF Heard

\* A look at a vCPU that blocked, and a vCPU about to block: the decision is
\* made on what the vCPU would be signalled.
LEMMA HeardDecide ==
  ASSUME TypeOK, Located, Heard, NEW c \in Cores, Execute(c), Wake(c) \/ Sleep(c)
  PROVE  Heard'
<1>0. PICK u \in Vcpus : u = Now(c).at
  BY NowWork
<1>1. agenda[c] # <<>> /\ Now(c).do \in {"wake", "sleep"}
  BY DEF Wake, Sleep, At, Now
<1>2. Sync(u) /\ Then(c, <<>>) /\ UNCHANGED <<redist, dist, hard, dirty, sgi>>
  BY <1>0 DEF Wake, Sleep, banks, calls
<1>3. Kept(c)
  BY <1>1, <1>2, EmptySeq, WorkThen
<1>4. Marked'
  BY <1>1, <1>2, <1>3, MarkedKept DEF Heard
<1>5. \A v \in Vcpus : Truth(v)' = Truth(v) /\ Wanted(v)' = Wanted(v)
  BY <1>2, SyncTruth DEF Wanted
<1>6. \A v \in Vcpus : Called(v) => Called(v)'
  BY <1>1, <1>2, <1>3, CallsKept
<1>7. \A v \in Vcpus : Queued(v, "flush") => Queued(v, "flush")'
  BY <1>1, <1>3, QueueKept
<1>8. \A v \in Vcpus : v # u \/ Now(c).do # "wake" => (Queued(v, "wake") => Queued(v, "wake")')
  BY <1>0, <1>3, QueueKept
<1>9. ASSUME NEW v \in Vcpus, v # u \/ state'[v] # "blocked" \/ (state' = state /\ Now(c).do # "wake")
      PROVE  Fetched(v)' /\ Awake(v)'
  <2>1. CASE v # u
    <3>1. state'[v] = state[v]
      BY <1>0, <2>1 DEF Wake, Sleep, TypeOK
    <3> QED
      BY <1>2, <1>5, <1>6, <1>7, <1>8, <2>1, <3>1, Calm DEF Heard, hard
  <2>2. Fetched(v)'
    <3>1. Brought(Affinity[v], v)' = Brought(Affinity[v], v)
      BY <1>2, <1>5 DEF Brought, Maintenance, Eisr, hard
    <3> QED
      BY <1>2, <1>6, <1>7, <3>1 DEF Heard, Fetched, hard
  <2>3. CASE state'[v] # "blocked"
    BY <2>2, <2>3 DEF Awake
  <2>4. CASE state' = state /\ Now(c).do # "wake"
    BY <1>2, <1>5, <1>6, <1>7, <1>8, <2>4, Calm DEF Heard, hard
  <2> QED
    BY <1>9, <2>1, <2>3, <2>4
<1>10. HasDeliverable(u)' = HasDeliverable(u)
  BY <1>5 DEF HasDeliverable
<1>11. Fetched(u)'
  <2>1. Brought(Affinity[u], u)' = Brought(Affinity[u], u)
    BY <1>2, <1>5 DEF Brought, Maintenance, Eisr, hard
  <2> QED
    BY <1>2, <1>6, <1>7, <2>1 DEF Heard, Fetched, hard
<1>12. Awake(u)'
  <2>1. CASE ~HasDeliverable(u)
    BY <1>10, <2>1 DEF Awake
  <2>2. CASE HasDeliverable(u)
    <3>1. CASE Wake(c)
      <4>1. state'[u] = "ready"
        BY <1>0, <2>2, <3>1 DEF Wake, TypeOK
      <4> QED
        BY <4>1 DEF Awake
    <3>2. CASE Sleep(c)
      <4>1. state' = state /\ Now(c).do # "wake"
        BY <1>0, <2>2, <3>2 DEF Sleep, At, Now
      <4> QED
        BY <1>9, <4>1
    <3> QED
      BY <3>1, <3>2
  <2> QED
    BY <2>1, <2>2
<1> QED
  BY <1>4, <1>9, <1>11, <1>12 DEF Heard

\* The head of a loop is refreshed or marked, the rest of the loop called.
LEMMA HeardNotify ==
  ASSUME TypeOK, Located, Heard, NEW c \in Cores, Execute(c), Notify(c)
  PROVE  Heard'
<1>0. PICK u \in Vcpus : u = Now(c).at
  BY NowWork
<1>1. agenda[c] # <<>> /\ Now(c).do = "notify" /\ Now(c).more \in SUBSET Vcpus
  BY NowWork DEF Notify, At, Now
<1>2. UNCHANGED <<redist, dist, lr, hard, state>>
  BY DEF Notify, banks, shadow
<1> DEFINE e == Each("notify", Now(c).more)
           o == Affinity[u]
<1>3. e \in Seq(Instr) /\ Refresh(u) \in Seq(Instr) /\ o \in Cores
  BY <1>1, EachType, RefreshType, AffinityType DEF Steps
<1>4. \A v \in Vcpus : Wanted(v)' = Wanted(v)
  BY <1>2 DEF Wanted
<1>5. Kept(c) /\ \A k \in DOMAIN e : e[k] \in Work(c)'
  <2>1. CASE o = c \/ state[u] = "off"
    <3>1. Then(c, Refresh(u) \o e)
      BY <1>0, <2>1 DEF Notify
    <3> HIDE DEF e
    <3>2. Kept(c) /\ \A k \in DOMAIN (Refresh(u) \o e) : (Refresh(u) \o e)[k] \in Work(c)'
      BY <1>1, <1>3, <3>1, WorkThen, ConcatProperties
    <3> QED
      BY <1>3, <3>2, BothWork
  <2>2. CASE ~(o = c \/ state[u] = "off")
    <3>1. Then(c, e)
      BY <1>0, <2>2 DEF Notify
    <3> QED
      BY <1>1, <1>3, <3>1, WorkThen
  <2> QED
    BY <2>1, <2>2
<1>6. \A d \in Cores : dirty[d] \subseteq dirty'[d] /\ (sgi[d] => sgi'[d])
  <2>1. CASE o = c \/ state[u] = "off"
    BY <1>0, <2>1 DEF Notify
  <2>2. CASE ~(o = c \/ state[u] = "off")
    <3>1. dirty' = [dirty EXCEPT ![o] = @ \cup {u}] /\ sgi' = [sgi EXCEPT ![o] = @ \/ dirty[o] = {}]
      BY <1>0, <2>2 DEF Notify
    <3>2. \A d \in Cores : dirty[d] \subseteq dirty'[d]
      BY <1>3, <3>1 DEF TypeOK
    <3>3. \A d \in Cores : sgi[d] => sgi'[d]
      BY <1>3, <3>1 DEF TypeOK
    <3> QED
      BY <3>2, <3>3
  <2> QED
    BY <2>1, <2>2
<1>7. ASSUME NEW v \in Now(c).more PROVE Called(v)'
  <2>1. \E i \in Work(c)' : i.do = "notify" /\ Covers(i, v)
    BY <1>1, <1>5, EachCovers DEF Steps
  <2> QED
    BY <2>1 DEF Called, Covers
<1>8. ASSUME NEW v \in Vcpus, v # u, v \notin Now(c).more PROVE Fetched(v)' /\ Awake(v)'
  <2>1. ~Covers(Now(c), v)
    BY <1>0, <1>8 DEF Covers
  <2>2. Affinity[v] \in Cores
    BY AffinityType
  <2>3. Called(v) => Called(v)'
    BY <1>5, <1>6, <2>1, <2>2, CallsKept
  <2>4. /\ Queued(v, "flush") => Queued(v, "flush")'
        /\ Queued(v, "wake") => Queued(v, "wake")'
    BY <1>1, <1>5, QueueKept
  <2> QED
    BY <1>2, <1>4, <2>3, <2>4, Alone DEF Heard
<1>9. CASE o = c \/ state[u] = "off"
  <2>1. Then(c, Refresh(u) \o e) /\ dirty' = dirty
    BY <1>0, <1>9 DEF Notify
  <2>2. Marked'
    BY <1>1, <1>5, <1>6, <2>1, MarkedKept DEF Heard
  <2>3. \A k \in DOMAIN Refresh(u) : Refresh(u)[k] \in Work(o)'
    <3>1. CASE o = c
      <4> HIDE DEF e
      <4>1. \A k \in DOMAIN (Refresh(u) \o e) : (Refresh(u) \o e)[k] \in Work(c)'
        BY <1>1, <1>3, <2>1, WorkThen, ConcatProperties
      <4> QED
        BY <1>3, <3>1, <4>1, BothWork
    <3>2. CASE state[u] = "off"
      <4>1. Refresh(u) = <<>>
        BY <3>2 DEF Refresh
      <4> QED
        BY <4>1, EmptySeq
    <3> QED
      BY <1>9, <3>1, <3>2
  <2>4. Fetched(u)' /\ Awake(u)'
    BY <1>2, <2>3, Refreshed DEF hard
  <2> QED
    BY <1>1, <1>7, <1>8, <2>2, <2>4, Informed DEF Heard
<1>10. CASE ~(o = c \/ state[u] = "off")
  <2>1. dirty' = [dirty EXCEPT ![o] = @ \cup {u}] /\ sgi' = [sgi EXCEPT ![o] = @ \/ dirty[o] = {}]
    BY <1>0, <1>10 DEF Notify
  <2>2. Called(u)'
    <3>1. u \in dirty'[o]
      BY <1>3, <2>1 DEF TypeOK
    <3> QED
      BY <3>1 DEF Called
  <2>3. ASSUME NEW d \in Cores, dirty'[d] # {} PROVE sgi'[d] \/ \E i \in Work(d)' : i.do = "exchange"
    <3>1. CASE dirty[d] # {}
      <4>1. sgi[d] \/ \E i \in Work(d) : i.do = "exchange"
        BY <3>1 DEF Heard, Marked
      <4> QED
        BY <1>1, <1>5, <1>6, <4>1 DEF Kept
    <3>2. CASE dirty[d] = {}
      <4>1. d = o
        BY <2>1, <2>3, <3>2 DEF TypeOK
      <4> QED
        BY <1>3, <2>1, <3>2, <4>1 DEF TypeOK
    <3> QED
      BY <3>1, <3>2
  <2>4. Marked'
    BY <2>3 DEF Marked
  <2> QED
    BY <1>1, <1>7, <1>8, <2>2, <2>4, Informed DEF Heard
<1> QED
  BY <1>9, <1>10

LEMMA HeardReeval ==
  ASSUME TypeOK, Located, Heard, NEW c \in Cores, Execute(c), Reeval(c)
  PROVE  Heard'
<1>0. PICK u \in Vcpus : u = Now(c).at
  BY NowWork
<1>1. /\ agenda[c] # <<>> /\ Now(c).do = "reeval" /\ Now(c).more \in SUBSET Vcpus
      /\ Affinity[u] = c /\ \A v \in Now(c).more : Affinity[v] = c
  BY <1>0, NowWork DEF Reeval, At, Now, Rightly
<1> DEFINE e == Each("reeval", Now(c).more)
<1>2. UNCHANGED <<redist, dist, lr, hard, state, dirty, sgi>> /\ Then(c, Refresh(u) \o e)
  BY <1>0 DEF Reeval, banks, shadow, calls
<1>3. e \in Seq(Instr) /\ Refresh(u) \in Seq(Instr)
  BY <1>1, EachType, RefreshType DEF Steps
<1>4. \A v \in Vcpus : Wanted(v)' = Wanted(v)
  BY <1>2 DEF Wanted
<1> HIDE DEF e
<1>5. Kept(c) /\ \A k \in DOMAIN (Refresh(u) \o e) : (Refresh(u) \o e)[k] \in Work(c)'
  BY <1>1, <1>2, <1>3, WorkThen, ConcatProperties
<1>6. (\A k \in DOMAIN Refresh(u) : Refresh(u)[k] \in Work(c)') /\ (\A k \in DOMAIN e : e[k] \in Work(c)')
  BY <1>3, <1>5, BothWork
<1>7. Marked'
  BY <1>1, <1>2, <1>5, MarkedKept DEF Heard
<1>8. Fetched(u)' /\ Awake(u)'
  BY <1>1, <1>2, <1>6, Refreshed DEF hard
<1>9. ASSUME NEW v \in Now(c).more PROVE Called(v)'
  <2>1. \E i \in Work(c)' : i.do = "reeval" /\ Covers(i, v)
    BY <1>1, <1>6, EachCovers DEF Steps, e
  <2> QED
    BY <1>1, <2>1 DEF Called, Covers
<1>10. ASSUME NEW v \in Vcpus, v # u, v \notin Now(c).more PROVE Fetched(v)' /\ Awake(v)'
  <2>1. ~Covers(Now(c), v)
    BY <1>0, <1>10 DEF Covers
  <2>2. Called(v) => Called(v)'
    BY <1>2, <1>5, <2>1, CallsKept
  <2>3. /\ Queued(v, "flush") => Queued(v, "flush")'
        /\ Queued(v, "wake") => Queued(v, "wake")'
    BY <1>1, <1>5, QueueKept
  <2> QED
    BY <1>2, <1>4, <2>2, <2>3, Alone DEF Heard
<1> QED
  BY <1>1, <1>7, <1>8, <1>9, <1>10, Informed DEF Heard

\* The bitmap becomes a loop, and is looked at again after it.
LEMMA HeardExchange ==
  ASSUME TypeOK, Located, Heard, NEW c \in Cores, Execute(c), Exchange(c)
  PROVE  Heard'
<1>1. agenda[c] # <<>> /\ Now(c).do = "exchange" /\ Now(c) \in Instr
  BY NowWork DEF Exchange, At, Now
<1> DEFINE e == Each("reeval", dirty[c])
<1>2. /\ UNCHANGED <<redist, dist, lr, hard, state, sgi>> /\ dirty' = [dirty EXCEPT ![c] = {}]
      /\ IF dirty[c] = {} THEN Then(c, <<>>) ELSE Then(c, e \o <<Now(c)>>)
  BY DEF Exchange, banks, shadow
<1>3. e \in Seq(Instr) /\ <<Now(c)>> \in Seq(Instr)
  BY <1>1, EachType DEF Steps, TypeOK
<1>4. \A v \in Vcpus : Wanted(v)' = Wanted(v)
  BY <1>2 DEF Wanted
<1> HIDE DEF e
<1>5. Kept(c) /\ (dirty[c] # {} => \A k \in DOMAIN e : e[k] \in Work(c)')
  <2>1. CASE dirty[c] = {}
    BY <1>1, <1>2, <2>1, EmptySeq, WorkThen
  <2>2. CASE dirty[c] # {}
    <3>1. Kept(c) /\ \A k \in DOMAIN (e \o <<Now(c)>>) : (e \o <<Now(c)>>)[k] \in Work(c)'
      BY <1>1, <1>2, <1>3, <2>2, WorkThen, ConcatProperties
    <3> QED
      BY <1>3, <3>1, BothWork
  <2> QED
    BY <2>1, <2>2
<1>6. dirty'[c] = {} /\ \A d \in Cores : d # c => dirty'[d] = dirty[d]
  BY <1>2 DEF TypeOK
<1>7. Marked'
  BY <1>2, <1>5, <1>6 DEF Heard, Marked, Kept
<1>8. ASSUME NEW v \in Vcpus, v \in dirty[Affinity[v]] PROVE Called(v)'
  <2>1. CASE Affinity[v] = c
    <3>1. v \in dirty[c] /\ dirty[c] \in SUBSET Vcpus
      BY <1>8, <2>1 DEF TypeOK
    <3>2. \E i \in Work(c)' : i.do = "reeval" /\ Covers(i, v)
      BY <1>5, <3>1, EachCovers DEF Steps, e
    <3> QED
      BY <2>1, <3>2 DEF Called, Covers
  <2>2. CASE Affinity[v] # c
    BY <1>6, <1>8, <2>2, AffinityType DEF Called
  <2> QED
    BY <2>1, <2>2
<1>9. ASSUME NEW v \in Vcpus PROVE Fetched(v)' /\ Awake(v)'
  <2>1. CASE v \in dirty[Affinity[v]]
    BY <1>8, <2>1, Informed
  <2>2. CASE v \notin dirty[Affinity[v]]
    <3>1. Called(v) => Called(v)'
      <4>1. ASSUME NEW d \in Cores, NEW i \in Work(d), i.do = "notify", Covers(i, v) PROVE Called(v)'
        <5>1. i \in Work(d)'
          BY <1>1, <1>5, <4>1 DEF Kept
        <5> QED
          BY <4>1, <5>1 DEF Called, Covers
      <4>2. ASSUME NEW i \in Work(Affinity[v]), i.do = "reeval", Covers(i, v) PROVE Called(v)'
        <5>1. i \in Work(Affinity[v])'
          BY <1>1, <1>5, <4>2, AffinityType DEF Kept
        <5> QED
          BY <4>2, <5>1 DEF Called, Covers
      <4> QED
        BY <2>2, <4>1, <4>2 DEF Called
    <3>2. /\ Queued(v, "flush") => Queued(v, "flush")'
          /\ Queued(v, "wake") => Queued(v, "wake")'
      BY <1>1, <1>5, QueueKept
    <3> QED
      BY <1>2, <1>4, <3>1, <3>2, Alone DEF Heard
  <2> QED
    BY <2>1, <2>2
<1> QED
  BY <1>7, <1>9 DEF Heard

\* A vCPU is started with nothing pending and nothing in its registers.
LEMMA SeedCalm ==
  ASSUME TypeOK, Heard, NEW u \in Vcpus, Seed(u), UNCHANGED <<dist, hard, dirty>>,
         \A v \in Vcpus : Called(v) => Called(v)',
         \A v \in Vcpus : Queued(v, "flush") => Queued(v, "flush")',
         \A v \in Vcpus : Queued(v, "wake") => Queued(v, "wake")'
  PROVE  \A v \in Vcpus : Fetched(v)' /\ Awake(v)'
<1>1. /\ \A v \in Vcpus : redist'[v] = IF v = u THEN ResetRedist ELSE redist[v]
      /\ \A v \in Vcpus : state'[v] = IF v = u THEN "ready" ELSE state[v]
      /\ \A v \in Vcpus : lr'[v] = IF v = u THEN EmptyLrs ELSE lr[v]
  BY DEF Seed, TypeOK
<1>2. \A v \in Vcpus : Wanted(v)' \subseteq Wanted(v)
  BY <1>1 DEF Wanted, ResetRedist
<1>3. \A v \in Vcpus : v # u => Truth(v)' = Truth(v)
  BY <1>1 DEF Truth, hard
<1>4. resident' = resident /\ hw' = hw /\ hwUie' = hwUie
  BY DEF hard
<1>5. ASSUME NEW v \in Vcpus PROVE Fetched(v)' /\ Awake(v)'
  <2>1. state'[v] = "blocked" => state[v] = "blocked" /\ Truth(v)' = Truth(v)
    BY <1>1, <1>3
  <2>2. Fetched(v) /\ Awake(v)
    BY DEF Heard
  <2> QED
    BY <1>2, <1>4, <2>1, <2>2, Calm
<1> QED
  BY <1>5

LEMMA HeardBoot ==
  ASSUME TypeOK, Located, Heard, NEW c \in Cores, Execute(c), Boot(c)
  PROVE  Heard'
<1>1. agenda[c] # <<>> /\ Now(c).do = "boot" /\ 0 \in Vcpus
  BY VGicAssumption DEF Boot, At, Now
<1>2. Seed(0) /\ Then(c, <<>>) /\ UNCHANGED <<dist, hard, dirty, sgi>>
  BY DEF Boot, calls
<1>3. Kept(c)
  BY <1>1, <1>2, EmptySeq, WorkThen
<1>4. Marked'
  BY <1>1, <1>2, <1>3, MarkedKept DEF Heard
<1>5. ASSUME NEW v \in Vcpus
      PROVE  /\ Called(v) => Called(v)'
             /\ Queued(v, "flush") => Queued(v, "flush")'
             /\ Queued(v, "wake") => Queued(v, "wake")'
  BY <1>1, <1>2, <1>3, CallsKept, QueueKept
<1> QED
  BY <1>1, <1>2, <1>4, <1>5, SeedCalm DEF Heard

-----------------------------------------------------------------------------

\* A request enters with a loop that names the vCPU it is about.
LEMMA Asked ==
  ASSUME TypeOK, NEW c \in Cores, NEW v \in Vcpus, Enter(c, <<Do("notify", v)>>)
  PROVE  KeptAll /\ Called(v)'
<1> DEFINE i == Do("notify", v)
<1>1. i \in Instr /\ i.do = "notify" /\ i.at = v /\ <<i>> \in Seq(Instr)
  BY DoType DEF Steps, Do
<1>2. Enter(c, <<i>>)
  OBVIOUS
<1> HIDE DEF i
<1>3. KeptAll /\ \A k \in DOMAIN <<i>> : <<i>>[k] \in Work(c)'
  BY <1>1, <1>2, WorkEnter
<1>4. i \in Work(c)'
  BY <1>3
<1> QED
  BY <1>1, <1>3, <1>4 DEF Called, Covers

\* A private interrupt is posted by the core of its vCPU.
LEMMA PostHeard ==
  ASSUME TypeOK, Located, Heard, NEW c \in Cores, NEW v \in Vcpus, NEW p \in Priv, Affinity[v] = c,
         Pended(v, p), Enter(c, Refresh(v)), UNCHANGED <<dist, lr, hard, state, dirty, sgi>>
  PROVE  Heard'
<1>1. KeptAll /\ \A k \in DOMAIN Refresh(v) : Refresh(v)[k] \in Work(c)'
  BY RefreshType, WorkEnter
<1>2. Fetched(v)' /\ Awake(v)'
  BY <1>1, Refreshed DEF hard
<1>3. \A w \in Vcpus : w # v => Wanted(w)' \subseteq Wanted(w)
  BY PendedWanted
<1> QED
  BY <1>1, <1>2, <1>3, Entered

\* A pending shared interrupt is wanted by the vCPU it is routed to.
LEMMA SharedWanted ==
  ASSUME TypeOK, NEW s \in Spis, dist' = [dist EXCEPT !.pending = @ \cup {s}], redist' = redist,
         NEW v \in Vcpus, v # dist.route[s]
  PROVE  Wanted(v)' \subseteq Wanted(v)
<1>1. dist'.pending = dist.pending \cup {s} /\ dist'.enabled = dist.enabled /\ dist'.route = dist.route
  BY DEF TypeOK
<1> QED
  BY <1>1 DEF Wanted

LEMMA HeardCross ==
  ASSUME TypeOK, Located, Heard, NEW c \in Cores, CrossCall(c)
  PROVE  Heard'
<1> DEFINE x == Do("exchange", 0)
<1>1. /\ Enter(c, mail[c] \o <<x>>) /\ UNCHANGED <<redist, dist, lr, hard, state, dirty>>
      /\ sgi' = [sgi EXCEPT ![c] = FALSE]
  BY DEF CrossCall, banks, shadow
<1>2. x \in Instr /\ x.do = "exchange" /\ <<x>> \in Seq(Instr) /\ mail[c] \in Seq(Instr)
  BY DoType, VGicAssumption DEF Steps, Do, TypeOK
<1> HIDE DEF x
<1>3. KeptAll /\ \A k \in DOMAIN (mail[c] \o <<x>>) : (mail[c] \o <<x>>)[k] \in Work(c)'
  BY <1>1, <1>2, WorkEnter, ConcatProperties
<1>4. \A k \in DOMAIN <<x>> : <<x>>[k] \in Work(c)'
  BY <1>2, <1>3, BothWork
<1>5. x \in Work(c)'
  BY <1>4
<1>6. ASSUME NEW d \in Cores, dirty'[d] # {} PROVE sgi'[d] \/ \E i \in Work(d)' : i.do = "exchange"
  <2>1. CASE d = c
    BY <1>2, <1>5, <2>1
  <2>2. CASE d # c
    <3>1. sgi[d] \/ \E i \in Work(d) : i.do = "exchange"
      BY <1>1, <1>6 DEF Heard, Marked
    <3>2. sgi'[d] = sgi[d]
      BY <1>1, <2>2 DEF TypeOK
    <3> QED
      BY <1>3, <3>1, <3>2 DEF KeptAll
  <2> QED
    BY <2>1, <2>2
<1>7. ASSUME NEW v \in Vcpus PROVE Fetched(v)' /\ Awake(v)'
  <2>1. "flush" \in Steps /\ "wake" \in Steps
    BY DEF Steps
  <2>2. /\ Called(v) => Called(v)'
        /\ Queued(v, "flush") => Queued(v, "flush")'
        /\ Queued(v, "wake") => Queued(v, "wake")'
    BY <1>1, <1>3, <2>1, AllKept
  <2>3. Wanted(v)' = Wanted(v)
    BY <1>1 DEF Wanted
  <2> QED
    BY <1>1, <2>2, <2>3, Alone DEF Heard
<1> QED
  BY <1>6, <1>7 DEF Heard, Marked

\* The maintenance interrupt drains what ended and queues a refill.
LEMMA HeardMaintenance ==
  ASSUME TypeOK, Located, Heard, NEW c \in Cores, HandleMaintenance(c)
  PROVE  Heard'
<1>0. PICK u \in Vcpus : u = resident[c]
  BY DEF HandleMaintenance
<1> DEFINE f == Do("flush", u)
<1>1. /\ DrainEois(c, u) /\ Enter(c, <<f>>) /\ Affinity[u] = c
      /\ UNCHANGED <<redist, dist, hwUie, resident, state, dirty, sgi>>
  BY <1>0 DEF HandleMaintenance, banks, calls, Located
<1>2. f \in Instr /\ f.do = "flush" /\ f.at = u /\ <<f>> \in Seq(Instr)
  BY DoType DEF Steps, Do
<1> HIDE DEF f
<1>3. KeptAll /\ \A k \in DOMAIN <<f>> : <<f>>[k] \in Work(c)'
  BY <1>1, <1>2, WorkEnter
<1>4. Queued(u, "flush")'
  <2>1. f \in Work(c)'
    BY <1>3
  <2> QED
    BY <1>1, <1>2, <2>1 DEF Queued
<1>5. Marked'
  BY <1>1, <1>3, MarkedAll DEF Heard
<1>6. /\ lr' = [lr EXCEPT ![u] = [i \in Lrs |-> IF i \in Eisr(c) THEN FreeLr ELSE @[i]]]
      /\ hw' = [hw EXCEPT ![c] = [i \in Lrs |-> IF i \in Eisr(c) THEN FreeLr ELSE @[i]]]
  BY <1>1 DEF DrainEois
<1>7. \A v \in Vcpus : Wanted(v)' = Wanted(v)
  BY <1>1 DEF Wanted
<1>8. ASSUME NEW v \in Vcpus
      PROVE  /\ Called(v) => Called(v)'
             /\ Queued(v, "flush") => Queued(v, "flush")'
             /\ Queued(v, "wake") => Queued(v, "wake")'
  <2>1. "flush" \in Steps /\ "wake" \in Steps
    BY DEF Steps
  <2> QED
    BY <1>1, <1>3, <2>1, AllKept
<1>9. Fetched(u)'
  BY <1>4 DEF Fetched
<1>10. Awake(u)'
  <2>1. \A i \in Lrs : hw'[c][i] = IF i \in Eisr(c) THEN FreeLr ELSE hw[c][i]
    BY <1>6 DEF TypeOK
  <2>2. \A i \in Lrs : Truth(u)'[i].st = "pending" => Truth(u)[i].st = "pending"
    BY <1>0, <1>1, <2>1 DEF Truth, FreeLr
  <2> SUFFICES ASSUME state[u] = "blocked", ~Called(u)', ~Queued(u, "wake")'
               PROVE  ~HasDeliverable(u)'
    BY <1>1 DEF Awake
  <2>3. ~HasDeliverable(u)
    BY <1>8 DEF Heard, Awake
  <2> QED
    BY <1>7, <2>2, <2>3 DEF HasDeliverable
<1>11. ASSUME NEW v \in Vcpus, v # u PROVE Fetched(v)' /\ Awake(v)'
  <2>1. lr'[v] = lr[v]
    BY <1>6, <1>11 DEF TypeOK
  <2>2. resident[Affinity[v]] = v => Affinity[v] # c
    BY <1>0, <1>11
  <2>3. resident[Affinity[v]] = v => hw'[Affinity[v]] = hw[Affinity[v]]
    BY <1>6, <2>2, AffinityType DEF TypeOK
  <2>4. Truth(v)' = Truth(v)
    BY <1>1, <2>1, <2>3 DEF Truth
  <2>5. Fetched(v) /\ Awake(v)
    BY DEF Heard
  <2> QED
    BY <1>1, <1>7, <1>8, <2>3, <2>4, <2>5, Calm
<1> QED
  BY <1>5, <1>9, <1>10, <1>11 DEF Heard

LEMMA HeardInterrupt ==
  ASSUME TypeOK, Located, Heard, NEW c \in Cores, Interrupt(c)
  PROVE  Heard'
<1>1. CASE StrayMaintenance(c)
  <2>1. UNCHANGED <<redist, dist, lr, hard, state, dirty, sgi, agenda>>
    BY <1>1 DEF StrayMaintenance, banks, shadow, calls
  <2>2. \A v \in Vcpus : Wanted(v)' = Wanted(v)
    BY <2>1 DEF Wanted
  <2> QED
    BY <2>1, <2>2, WorkSame, Entered
<1>2. ASSUME NEW s \in Tracked, DeviceIrq(c, s) PROVE Heard'
  <2>0. s \in Spis
    BY VGicAssumption
  <2>1. UNCHANGED <<redist, lr, hard, state, dirty, sgi>>
    BY <1>2 DEF DeviceIrq, shadow, calls
  <2>2. CASE owed[s] # 0
    <3>1. UNCHANGED <<dist, agenda>>
      BY <1>2, <2>2 DEF DeviceIrq
    <3>2. \A v \in Vcpus : Wanted(v)' = Wanted(v)
      BY <2>1, <3>1 DEF Wanted
    <3> QED
      BY <2>1, <3>1, <3>2, WorkSame, Entered
  <2>3. CASE owed[s] = 0
    <3>0. PICK u \in Vcpus : u = dist.route[s]
      BY <2>0 DEF TypeOK
    <3>1. dist' = [dist EXCEPT !.pending = @ \cup {s}] /\ Enter(c, <<Do("notify", u)>>)
      BY <1>2, <2>3, <3>0 DEF DeviceIrq
    <3>2. KeptAll /\ Called(u)'
      BY <3>1, Asked
    <3>3. \A v \in Vcpus : v # u => Wanted(v)' \subseteq Wanted(v)
      BY <2>0, <2>1, <3>0, <3>1, SharedWanted
    <3>4. Fetched(u)' /\ Awake(u)'
      BY <3>2, Informed
    <3> QED
      BY <2>1, <3>2, <3>3, <3>4, Entered
  <2> QED
    BY <2>2, <2>3
<1>3. ASSUME NEW s \in Spis, PostSpi(c, s) PROVE Heard'
  <2>0. PICK u \in Vcpus : u = dist.route[s]
    BY DEF TypeOK
  <2>1. /\ UNCHANGED <<redist, lr, hard, state, dirty, sgi>>
        /\ dist' = [dist EXCEPT !.pending = @ \cup {s}] /\ Enter(c, <<Do("notify", u)>>)
    BY <1>3, <2>0 DEF PostSpi, shadow, calls
  <2>2. KeptAll /\ Called(u)'
    BY <2>1, Asked
  <2>3. \A v \in Vcpus : v # u => Wanted(v)' \subseteq Wanted(v)
    BY <2>0, <2>1, SharedWanted
  <2>4. Fetched(u)' /\ Awake(u)'
    BY <2>2, Informed
  <2> QED
    BY <2>1, <2>2, <2>3, <2>4, Entered
<1>4. ASSUME NEW v \in Vcpus, NEW p \in Priv, PostPrivate(c, v, p) PROVE Heard'
  BY <1>4, PostHeard DEF PostPrivate, shadow, calls
<1> QED
  BY <1>1, <1>2, <1>3, <1>4, HeardCross, HeardMaintenance DEF Interrupt

\* The guest acknowledges or ends an interrupt: either nothing is waiting for
\* that end, or it brings the core back.
LEMMA EndBrings ==
  ASSUME TypeOK, NEW c \in Cores, NEW v \in Vcpus, NEW i \in Lrs, InFlight(hw[c][i]),
         NEW st \in {"active", "free"}, hw' = [hw EXCEPT ![c] = [hw[c] EXCEPT ![i] = [hw[c][i] EXCEPT !.st = st]]],
         hwUie' = hwUie, Wanted(v)' = Wanted(v), Brought(c, v)
  PROVE  Brought(c, v)'
<1>1. hw[c] \in [Lrs -> ListReg] /\ hw[c][i] \in ListReg
  BY DEF TypeOK
<1>2. hw'[c] = [hw[c] EXCEPT ![i] = [hw[c][i] EXCEPT !.st = st]]
  BY DEF TypeOK
<1>3. \A j \in Lrs : hw'[c][j].eoi = hw[c][j].eoi /\ hw'[c][j].id = hw[c][j].id
  BY <1>1, <1>2 DEF ListReg
<1>4. \A j \in Lrs : j # i => hw'[c][j] = hw[c][j]
  BY <1>1, <1>2
<1>5. hw'[c][i].st = st
  BY <1>1, <1>2 DEF ListReg
<1>6. \A j \in Lrs : InFlight(hw'[c][j]) => InFlight(hw[c][j])
  BY <1>4
<1>7. CASE Maintenance(c)
  <2>1. CASE Eisr(c) # {}
    <3>1. \A j \in Eisr(c) : j \in Eisr(c)'
      BY <1>3, <1>6 DEF Eisr
    <3> QED
      BY <2>1, <3>1 DEF Brought, Maintenance
  <2>2. CASE hwUie[c] /\ Cardinality({j \in Lrs : InFlight(hw[c][j])}) <= 1
    BY <2>2 DEF Brought
  <2> QED
    BY <1>7, <2>1, <2>2 DEF Maintenance
<1>8. CASE hwUie[c]
  BY <1>8 DEF Brought
<1>9. CASE \A x \in Wanted(v) : \E j \in Lrs : InFlight(hw[c][j]) /\ hw[c][j].id = x /\ hw[c][j].eoi
  <2>1. CASE st = "free" /\ hw[c][i].eoi
    <3>1. i \in Eisr(c)'
      BY <1>3, <1>5, <2>1 DEF Eisr, InFlight
    <3> QED
      BY <3>1 DEF Brought, Maintenance
  <2>2. CASE ~(st = "free" /\ hw[c][i].eoi)
    <3>1. ASSUME NEW x \in Wanted(v)
          PROVE  \E j \in Lrs : InFlight(hw'[c][j]) /\ hw'[c][j].id = x /\ hw'[c][j].eoi
      <4>1. PICK j \in Lrs : InFlight(hw[c][j]) /\ hw[c][j].id = x /\ hw[c][j].eoi
        BY <1>9
      <4>2. InFlight(hw'[c][j])
        <5>1. CASE j = i
          BY <1>5, <2>2, <4>1, <5>1 DEF InFlight
        <5>2. CASE j # i
          BY <1>4, <4>1, <5>2
        <5> QED
          BY <5>1, <5>2
      <4> QED
        BY <1>3, <4>1, <4>2
    <3> QED
      BY <3>1 DEF Brought
  <2> QED
    BY <2>1, <2>2
<1> QED
  BY <1>7, <1>8, <1>9 DEF Brought

LEMMA HeardGuest ==
  ASSUME TypeOK, Located, Heard, NEW c \in Cores, Guest(c)
  PROVE  Heard'
<1>1. CASE GuestAck(c) \/ GuestEoi(c)
  <2>0. PICK u \in Vcpus : u = resident[c]
    BY <1>1 DEF GuestAck, GuestEoi, Guested
  <2>1. PICK i \in Lrs : \E st \in {"active", "free"} :
               InFlight(hw[c][i]) /\ SetLr(c, i, [hw[c][i] EXCEPT !.st = st])
    BY <1>1 DEF GuestAck, GuestEoi, InFlight
  <2>2. PICK st \in {"active", "free"} :
               /\ InFlight(hw[c][i])
               /\ hw' = [hw EXCEPT ![c] = [hw[c] EXCEPT ![i] = [hw[c][i] EXCEPT !.st = st]]]
    BY <2>1 DEF SetLr
  <2>3. /\ UNCHANGED <<redist, dist, lr, hwUie, resident, state, dirty, sgi, agenda>>
        /\ state[u] = "running" /\ Affinity[u] = c
    BY <1>1, <2>0 DEF GuestAck, GuestEoi, Guested, banks, shadow, calls, Located
  <2>4. \A v \in Vcpus : Wanted(v)' = Wanted(v)
    BY <2>3 DEF Wanted
  <2>5. KeptAll
    BY <2>3, WorkSame
  <2>6. Marked'
    BY <2>3, <2>5, MarkedAll DEF Heard
  <2>7. ASSUME NEW v \in Vcpus
        PROVE  /\ Called(v) => Called(v)'
               /\ Queued(v, "flush") => Queued(v, "flush")'
               /\ Queued(v, "wake") => Queued(v, "wake")'
    <3>1. "flush" \in Steps /\ "wake" \in Steps
      BY DEF Steps
    <3> QED
      BY <2>3, <2>5, <3>1, AllKept
  <2>8. Fetched(u)'
    <3> SUFFICES ASSUME ~Called(u)', ~Queued(u, "flush")' PROVE Brought(c, u)'
      BY <2>3 DEF Fetched
    <3>1. Brought(c, u)
      BY <2>0, <2>3, <2>7 DEF Heard, Fetched
    <3> QED
      BY <2>2, <2>3, <2>4, <3>1, EndBrings
  <2>9. Awake(u)'
    BY <2>3 DEF Awake
  <2>10. ASSUME NEW v \in Vcpus, v # u PROVE Fetched(v)' /\ Awake(v)'
    <3>1. resident[Affinity[v]] = v => hw'[Affinity[v]] = hw[Affinity[v]]
      BY <2>0, <2>2, <2>10, AffinityType DEF TypeOK
    <3>2. Truth(v)' = Truth(v)
      BY <2>3, <3>1 DEF Truth
    <3>3. Fetched(v) /\ Awake(v)
      BY DEF Heard
    <3> QED
      BY <2>3, <2>4, <2>7, <3>1, <3>2, <3>3, Calm
  <2> QED
    BY <2>6, <2>8, <2>9, <2>10 DEF Heard
<1>2. CASE GuestWfi(c)
  <2> DEFINE is == <<Do("flush", resident[c]), Do("sleep", resident[c])>>
  <2>1. Enter(c, is) /\ UNCHANGED <<redist, dist, lr, hard, state, dirty, sgi>>
    BY <1>2 DEF GuestWfi, banks, shadow, calls
  <2>2. Do("flush", resident[c]) \in Instr /\ Do("sleep", resident[c]) \in Instr
    BY <1>2, DoType DEF GuestWfi, Guested, Steps
  <2>3. is \in Seq(Instr)
    BY <2>2
  <2> HIDE DEF is
  <2>4. KeptAll
    BY <2>1, <2>3, WorkEnter
  <2>5. \A v \in Vcpus : Wanted(v)' = Wanted(v)
    BY <2>1 DEF Wanted
  <2> QED
    BY <2>1, <2>4, <2>5, Entered
<1>3. CASE DistMmio(c)
  <2>1. Enter(c, Each("notify", Vcpus)) /\ UNCHANGED <<lr, hard, state, dirty, sgi>>
    BY <1>3 DEF DistMmio, shadow, calls
  <2>2. Each("notify", Vcpus) \in Seq(Instr)
    BY EachType DEF Steps
  <2>3. KeptAll /\ \A k \in DOMAIN Each("notify", Vcpus) : Each("notify", Vcpus)[k] \in Work(c)'
    BY <2>1, <2>2, WorkEnter
  <2>4. ASSUME NEW v \in Vcpus PROVE Fetched(v)' /\ Awake(v)'
    <3>1. \E i \in Work(c)' : i.do = "notify" /\ Covers(i, v)
      BY <2>3, EachCovers DEF Steps
    <3>2. Called(v)'
      BY <3>1 DEF Called, Covers
    <3> QED
      BY <3>2, Informed
  <2> QED
    BY <2>1, <2>3, <2>4, Entered
<1>4. ASSUME NEW v \in Vcpus, RedistMmio(c, v) PROVE Heard'
  <2>1. Enter(c, <<Do("notify", v)>>) /\ UNCHANGED <<dist, lr, hard, state, dirty, sgi>>
    BY <1>4 DEF RedistMmio, shadow, calls
  <2>2. \A w \in Vcpus : w # v => redist'[w] = redist[w]
    BY <1>4 DEF RedistMmio, TypeOK
  <2>3. KeptAll /\ Called(v)'
    BY <2>1, Asked
  <2>4. \A w \in Vcpus : w # v => Wanted(w)' = Wanted(w)
    BY <2>1, <2>2, SameWanted
  <2>5. Fetched(v)' /\ Awake(v)'
    BY <2>3, Informed
  <2> QED
    BY <2>1, <2>3, <2>4, <2>5, Entered
<1>5. ASSUME NEW v \in Vcpus, NEW p \in Sgis, GuestSgi(c, v, p) PROVE Heard'
  <2>1. UNCHANGED <<dist, lr, hard, state, dirty>> /\ p \in Priv
    BY <1>5 DEF GuestSgi, shadow, Priv
  <2>2. CASE Affinity[v] = c
    <3>1. Pended(v, p) /\ Enter(c, Refresh(v)) /\ sgi' = sgi
      BY <1>5, <2>2 DEF GuestSgi
    <3> QED
      BY <2>1, <2>2, <3>1, PostHeard
  <2>3. CASE Affinity[v] # c
    <3>1. sgi' = [sgi EXCEPT ![Affinity[v]] = TRUE] /\ redist' = redist /\ agenda' = agenda
      BY <1>5, <2>3 DEF GuestSgi
    <3>2. \A d \in Cores : sgi[d] => sgi'[d]
      BY <3>1, AffinityType DEF TypeOK
    <3>3. \A w \in Vcpus : Wanted(w)' = Wanted(w)
      BY <2>1, <3>1 DEF Wanted
    <3> QED
      BY <2>1, <3>1, <3>2, <3>3, WorkSame, Entered
  <2> QED
    BY <2>2, <2>3
<1> QED
  BY <1>1, <1>2, <1>3, <1>4, <1>5 DEF Guest

LEMMA HeardPower ==
  ASSUME TypeOK, Located, Heard, NEW c \in Cores, Power(c)
  PROVE  Heard'
<1>1. UNCHANGED <<dirty, sgi>>
  BY DEF Power, SwitchOut, Resume, VmReset, SwitchIn, Retire, Start, calls
<1>2. KeptAll
  <2>1. CASE VmReset(c)
    <3>1. <<Do("boot", 0)>> \in Seq(Instr)
      BY DoType, VGicAssumption DEF Steps
    <3> QED
      BY <2>1, <3>1, WorkEnter DEF VmReset
  <2>2. CASE ~VmReset(c)
    <3>1. agenda' = agenda
      BY <2>2 DEF Power, SwitchOut, Resume, SwitchIn, Retire, Start
    <3> QED
      BY <3>1, WorkSame
  <2> QED
    BY <2>1, <2>2
<1>3. Marked'
  BY <1>1, <1>2, MarkedAll DEF Heard
<1>4. ASSUME NEW v \in Vcpus
      PROVE  /\ Called(v) => Called(v)'
             /\ Queued(v, "flush") => Queued(v, "flush")'
             /\ Queued(v, "wake") => Queued(v, "wake")'
  <2>1. "flush" \in Steps /\ "wake" \in Steps
    BY DEF Steps
  <2> QED
    BY <1>1, <1>2, <2>1, AllKept
<1>5. \A v \in Vcpus : Fetched(v) /\ Awake(v)
  BY DEF Heard
<1>6. ASSUME NEW v \in Vcpus, Wanted(v)' \subseteq Wanted(v),
             resident'[Affinity[v]] = v =>
               /\ resident[Affinity[v]] = v
               /\ hw'[Affinity[v]] = hw[Affinity[v]] /\ hwUie'[Affinity[v]] = hwUie[Affinity[v]],
             state'[v] = "blocked" =>
               state[v] = "blocked" /\ \A i \in Lrs : Truth(v)'[i].st = "pending" => Truth(v)[i].st = "pending"
      PROVE  Fetched(v)' /\ Awake(v)'
  BY <1>4, <1>5, <1>6, Calm
<1>7. CASE Resume(c)
  <2>1. /\ UNCHANGED <<redist, dist, lr, hard>> /\ resident[c] \in Vcpus
        /\ state' = [state EXCEPT ![resident[c]] = "running"]
    BY <1>7 DEF Resume, banks, shadow
  <2>2. ASSUME NEW v \in Vcpus PROVE Fetched(v)' /\ Awake(v)'
    <3>1. Wanted(v)' = Wanted(v) /\ Truth(v)' = Truth(v)
      BY <2>1, SameTruth DEF Wanted
    <3>2. state'[v] = "blocked" => state[v] = "blocked"
      BY <2>1 DEF TypeOK
    <3> QED
      BY <1>6, <2>1, <3>1, <3>2 DEF hard
  <2> QED
    BY <1>3, <2>2 DEF Heard
<1>8. ASSUME NEW u \in Vcpus, Retire(c, u) PROVE Heard'
  <2>1. /\ UNCHANGED <<redist, dist, lr, hw, hwUie>> /\ state' = [state EXCEPT ![u] = "off"] /\ Affinity[u] = c
        /\ resident' = [resident EXCEPT ![c] = IF @ = u THEN None ELSE @]
    BY <1>8 DEF Retire, banks, shadow
  <2>2. \A d \in Cores : resident'[d] \in Vcpus => resident'[d] = resident[d]
    BY <2>1, VGicAssumption DEF TypeOK, None
  <2>3. \A v \in Vcpus : v # u => (resident'[Affinity[v]] = v <=> resident[Affinity[v]] = v)
    BY <2>1, AffinityType, VGicAssumption DEF TypeOK, None
  <2>4. ASSUME NEW v \in Vcpus PROVE Fetched(v)' /\ Awake(v)'
    <3>1. Wanted(v)' = Wanted(v)
      BY <2>1 DEF Wanted
    <3>2. v # u => Truth(v)' = Truth(v)
      BY <2>1, <2>3 DEF Truth
    <3>3. state'[v] = "blocked" => v # u /\ state[v] = "blocked"
      BY <2>1 DEF TypeOK
    <3>4. resident'[Affinity[v]] = v => resident[Affinity[v]] = v
      BY <2>2, AffinityType
    <3> QED
      BY <1>6, <2>1, <3>1, <3>2, <3>3, <3>4
  <2> QED
    BY <1>3, <2>4 DEF Heard
<1>9. ASSUME NEW u \in Vcpus, Start(c, u) PROVE Heard'
  <2>1. Seed(u) /\ UNCHANGED <<dist, hard>>
    BY <1>9 DEF Start
  <2>2. \A v \in Vcpus : Fetched(v)' /\ Awake(v)'
    BY <1>1, <1>4, <2>1, SeedCalm
  <2> QED
    BY <1>3, <2>2 DEF Heard
<1>10. CASE VmReset(c)
  <2>1. UNCHANGED <<hard, state>> /\ \A v \in Vcpus : state[v] = "off"
    BY <1>10 DEF VmReset
  <2>2. \A v \in Vcpus : resident'[Affinity[v]] # v /\ state'[v] # "blocked"
    BY <2>1, AffinityType DEF Located, hard
  <2>3. \A v \in Vcpus : Fetched(v)' /\ Awake(v)'
    BY <2>2 DEF Fetched, Awake
  <2> QED
    BY <1>3, <2>3 DEF Heard
<1>11. CASE SwitchOut(c)
  <2>1. /\ Saved(c) /\ state' = Parked(c) /\ UNCHANGED <<redist, dist>>
        /\ hw' = [hw EXCEPT ![c] = EmptyLrs] /\ hwUie' = [hwUie EXCEPT ![c] = FALSE]
        /\ resident' = [resident EXCEPT ![c] = Other] /\ Other \notin Vcpus
    BY <1>11, VGicAssumption DEF SwitchOut, banks, Other
  <2>2. /\ \A d \in Cores : d # c => resident'[d] = resident[d] /\ hw'[d] = hw[d] /\ hwUie'[d] = hwUie[d]
        /\ resident'[c] \notin Vcpus
    BY <2>1 DEF TypeOK
  <2>3. ASSUME NEW v \in Vcpus PROVE Fetched(v)' /\ Awake(v)'
    <3>1. Wanted(v)' = Wanted(v)
      BY <2>1 DEF Wanted
    <3>2. resident'[Affinity[v]] = v =>
            /\ resident[Affinity[v]] = v
            /\ hw'[Affinity[v]] = hw[Affinity[v]] /\ hwUie'[Affinity[v]] = hwUie[Affinity[v]]
      BY <2>2, AffinityType
    <3>3. state'[v] = "blocked" => state[v] = "blocked"
      BY <2>1 DEF Parked, TypeOK
    <3>4. \A i \in Lrs : Truth(v)'[i].st = "pending" => Truth(v)[i].st = "pending"
      <4>1. CASE resident[c] = v
        <5>1. lr' = [lr EXCEPT ![v] = [i \in Lrs |-> IF i \in Eisr(c) THEN FreeLr ELSE hw[c][i]]]
          BY <2>1, <4>1 DEF Saved
        <5>2. Affinity[v] = c
          BY <4>1 DEF Located
        <5>3. \A i \in Lrs : lr'[v][i] = IF i \in Eisr(c) THEN FreeLr ELSE hw[c][i]
          BY <5>1 DEF TypeOK
        <5>4. Truth(v)' = lr'[v] /\ Truth(v) = hw[c]
          BY <2>2, <4>1, <5>2 DEF Truth
        <5> QED
          BY <5>3, <5>4 DEF FreeLr
      <4>2. CASE resident[c] # v
        <5>1. lr'[v] = lr[v]
          BY <2>1, <4>2 DEF Saved, TypeOK
        <5>2. Truth(v)' = Truth(v)
          BY <2>2, <4>2, <5>1, AffinityType DEF Truth
        <5> QED
          BY <5>2
      <4> QED
        BY <4>1, <4>2
    <3> QED
      BY <1>6, <3>1, <3>2, <3>3, <3>4
  <2> QED
    BY <1>3, <2>3 DEF Heard
<1>12. ASSUME NEW u \in Vcpus, SwitchIn(c, u) PROVE Heard'
  <2> DEFINE r == Refill(lr[u], u)
  <2>1. /\ Take(u, r.placed) /\ lr' = [lr EXCEPT ![u] = r.regs]
        /\ hw' = [hw EXCEPT ![c] = r.regs] /\ hwUie' = [hwUie EXCEPT ![c] = r.overflow]
        /\ resident' = [resident EXCEPT ![c] = u] /\ state' = [state EXCEPT ![u] = "running"]
        /\ resident[c] \notin Vcpus /\ Affinity[u] = c
    BY <1>12 DEF SwitchIn
  <2>2. lr[u] \in [Lrs -> ListReg] /\ r = Refill(lr[u], u)
    BY DEF TypeOK
  <2> HIDE DEF r
  <2>3. \A v \in Vcpus : Wanted(v)' \subseteq Wanted(v)
    BY <2>1, TakeWanted
  <2>4. Fetched(u)'
    <3>1. hw'[c] = r.regs /\ hwUie'[c] = r.overflow
      BY <2>1 DEF TypeOK
    <3>2. Brought(c, u)'
      BY <2>1, <2>2, <3>1, RefillBrings
    <3> QED
      BY <2>1, <3>2 DEF Fetched
  <2>5. Awake(u)'
    BY <2>1 DEF Awake, TypeOK
  <2>6. ASSUME NEW v \in Vcpus, v # u PROVE Fetched(v)' /\ Awake(v)'
    <3>1. lr'[v] = lr[v] /\ state'[v] = state[v]
      BY <2>1, <2>6 DEF TypeOK
    <3>2. resident'[Affinity[v]] = v =>
            /\ resident[Affinity[v]] = v
            /\ hw'[Affinity[v]] = hw[Affinity[v]] /\ hwUie'[Affinity[v]] = hwUie[Affinity[v]]
      BY <2>1, <2>6, AffinityType DEF TypeOK
    <3>3. resident[Affinity[v]] = v => resident'[Affinity[v]] = v
      BY <2>1, AffinityType DEF TypeOK
    <3>4. Truth(v)' = Truth(v)
      BY <3>1, <3>2, <3>3 DEF Truth
    <3> QED
      BY <1>6, <2>3, <3>1, <3>2, <3>4
  <2> QED
    BY <1>3, <2>4, <2>5, <2>6 DEF Heard
<1> QED
  BY <1>7, <1>8, <1>9, <1>10, <1>11, <1>12 DEF Power

LEMMA HeardHolds == Spec => []Heard
<1>1. Init => Heard
  <2> SUFFICES ASSUME Init PROVE Heard
    OBVIOUS
  <2>1. /\ \A c \in Cores : resident[c] \notin Vcpus /\ dirty[c] = {}
        /\ \A v \in Vcpus : state[v] # "blocked"
    BY VGicAssumption DEF Init, None
  <2>2. Marked
    BY <2>1 DEF Marked
  <2>3. \A v \in Vcpus : Fetched(v) /\ Awake(v)
    BY <2>1, AffinityType DEF Fetched, Awake
  <2> QED
    BY <2>2, <2>3 DEF Heard
<1>2. TypeOK /\ Located /\ Heard /\ [Next]_vars => Heard'
  <2> SUFFICES ASSUME TypeOK, Located, Heard, [Next]_vars PROVE Heard'
    OBVIOUS
  <2>1. CASE UNCHANGED vars
    <3>1. UNCHANGED <<redist, dist, lr, hard, state, dirty, sgi, agenda>>
      BY <2>1 DEF vars, banks, shadow, calls
    <3>2. \A v \in Vcpus : Wanted(v)' = Wanted(v)
      BY <3>1 DEF Wanted
    <3> QED
      BY <3>1, <3>2, WorkSame, Entered
  <2>2. ASSUME NEW c \in Cores, Execute(c) \/ Interrupt(c) \/ Guest(c) \/ Power(c) PROVE Heard'
    <3>1. CASE Execute(c)
      BY <3>1, HeardPend, HeardFlush, HeardDecide, HeardNotify, HeardReeval, HeardExchange, HeardBoot DEF Execute
    <3> QED
      BY <2>2, <3>1, HeardInterrupt, HeardGuest, HeardPower
  <2> QED
    BY <2>1, <2>2 DEF Next
<1>3. Spec => []Located
  BY BoundHolds, PTL DEF Bound
<1> QED
  BY <1>1, <1>2, <1>3, TypeCorrect, PTL DEF Spec

\* A blocked vCPU never sleeps through an interrupt it would take, and a
\* running one misses none: whoever is neither called nor queued for a refill
\* has what it wants in its registers, or an end of interrupt to come brings
\* the core back.
THEOREM WakeupsNotLost == Spec => []NoLostWakeup
<1>1. TypeOK /\ Located /\ Heard => NoLostWakeup
  <2> SUFFICES ASSUME TypeOK, Located, Heard PROVE NoLostWakeup
    OBVIOUS
  <2>1. ASSUME NEW v \in Vcpus, Called(v) PROVE Notified(v)
    <3>1. Affinity[v] \in Cores
      BY AffinityType
    <3>2. ASSUME NEW i \in Work(Affinity[v]) PROVE Notified(v)
      <4>1. agenda[Affinity[v]] # <<>>
        BY <3>2, EmptySeq DEF Work
      <4> QED
        BY <4>1 DEF Notified
    <3>3. CASE v \in dirty[Affinity[v]]
      <4>1. sgi[Affinity[v]] \/ \E i \in Work(Affinity[v]) : i.do = "exchange"
        BY <3>1, <3>3 DEF Heard, Marked
      <4> QED
        BY <3>2, <4>1 DEF Notified
    <3>4. ASSUME NEW d \in Cores, NEW i \in Work(d), i.do = "notify", Covers(i, v) PROVE Notified(v)
      <4>1. PICK k \in DOMAIN agenda[d] : agenda[d][k] = i
        BY DEF Work
      <4> QED
        BY <3>4, <4>1 DEF Notified, Covers
    <3> QED
      BY <2>1, <3>2, <3>3, <3>4 DEF Called
  <2>2. ASSUME NEW v \in Vcpus, NEW what, Queued(v, what) PROVE Notified(v)
    <3>1. agenda[Affinity[v]] # <<>>
      BY <2>2, EmptySeq DEF Queued, Work
    <3> QED
      BY <3>1 DEF Notified
  <2>3. ASSUME NEW v \in Vcpus, state[v] = "blocked", HasDeliverable(v) PROVE Notified(v)
    BY <2>1, <2>2, <2>3 DEF Heard, Awake
  <2>4. ASSUME NEW c \in Cores, resident[c] \in Vcpus, ~Notified(resident[c]), ~Maintenance(c)
        PROVE  \A x \in Wanted(resident[c]) :
                 hwUie[c] \/ \E i \in Lrs : InFlight(hw[c][i]) /\ hw[c][i].id = x /\ hw[c][i].eoi
    <3>1. Affinity[resident[c]] = c
      BY <2>4 DEF Located
    <3>2. Brought(c, resident[c])
      BY <2>1, <2>2, <2>4, <3>1 DEF Heard, Fetched
    <3> QED
      BY <2>4, <3>2 DEF Brought
  <2>5. NothingStranded
    BY <2>4 DEF NothingStranded
  <2> QED
    BY <2>3, <2>5 DEF NoLostWakeup
<1>2. Spec => []Located
  BY BoundHolds, PTL DEF Bound
<1> QED
  BY <1>1, <1>2, HeardHolds, TypeCorrect, PTL
=============================================================================
