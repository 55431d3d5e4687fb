-------------------------- MODULE VmLifecycleSafety --------------------------
(***************************************************************************)
(* What the lifecycle protocol keeps true between its steps, and the       *)
(* safety theorems that follow, for every number of cores, VMs and vCPUs,  *)
(* every placement, mailbox size, retry count and restart budget.          *)
(*                                                                         *)
(* The invariant speaks of instructions: where one may lie, and what holds *)
(* of the coordinator, the vCPUs and the device while it lies there.       *)
(***************************************************************************)
EXTENDS VmLifecycleProofs

-----------------------------------------------------------------------------
(* Classes of instructions.                                                *)

\* The coordinator's steps, which only the owner of the boot vCPU takes.
OwnerSteps == {"begin_lifecycle", "send_quiesce", "quiesce_local", "acknowledge",
               "finish_lifecycle", "restore_on", "restore", "resume_reset", "republish_on",
               "republish", "finish", "retry", "rearm", "isolate", "isolated"}

\* The last stretch of a lifecycle, from the answer "all quiet" to the
\* release of the token; memory is written during the first part of it.
RestoreSteps == {"restore_on", "restore", "resume_reset", "republish_on", "republish"}
FinishSteps  == RestoreSteps \cup {"finish"}

\* A start past its last look at the token.
ColdSteps  == {"prepare_start", "prepare_rest", "resume_start", "publish_start", "publish_alone"}
StartSteps == ColdSteps \cup {"start_vcpu", "join_vm", "publish_on"}

\* Steps only the owner of the vCPU they name takes.
SlotSteps == StartSteps \cup {"queued_start", "quiesce_vcpu", "send_ack", "republish"}

\* Steps that name a boot vCPU when they belong to a cold start.
ReserveSteps == {"can_start", "cpu_on", "begin_reserve", "reserve_start", "recheck", "send_start",
                 "queued_start"}

CarrySteps  == {"claimed", "send_begin", "begin_lifecycle", "release"}
AnswerSteps == {"send_ack", "acknowledge"}
EpochSteps  == AnswerSteps \cup {"send_quiesce", "quiesce_local", "quiesce_vcpu", "retry"}

\* Everything else: the instruction says nothing of the protocol's state.
PlainSteps == Steps \ (OwnerSteps \cup SlotSteps \cup ReserveSteps \cup CarrySteps \cup EpochSteps \cup {"claim"})

\* What a mailbox may hold, and what may wait behind the head of an agenda.
MailSteps == {"queued_start", "begin_lifecycle", "quiesce_vcpu", "acknowledge", "post_virq",
              "recover_dma_fault"}
TailSteps == MailSteps \cup
  {"cancel_start", "dma_begin", "stop_vm", "end_transition", "quiesce_local", "finish_lifecycle",
   "send_ack", "cpu_off_on", "retry", "rearm", "isolate", "isolated", "finish"}

-----------------------------------------------------------------------------
(* The inductive invariant.                                                *)

Placed(c, i) ==
  /\ i.do \in OwnerSteps => Owner(i.s[1]) = c
  /\ i.do \in SlotSteps => SlotCpu[i.s] = c
  /\ i.do \in ColdSteps => i.s[2] = 0
  /\ i.do \in ReserveSteps /\ i.op \in {"StartVm", "QueuedStart"} => i.s[2] = 0
  /\ i.do \in {"claim", "claimed", "send_begin", "begin_lifecycle", "finish_lifecycle"} => i.s[2] = 0

\* Every instruction is on a core that may execute it, and only some may
\* wait behind another.
AgendaPlaced(c) ==
  \A k \in DOMAIN agenda[c] :
    /\ Placed(c, agenda[c][k])
    /\ k > 1 => agenda[c][k].do \in TailSteps
    /\ k > 1 /\ agenda[c][k].do = "finish" => k = 2 /\ agenda[c][1].do \in {"alive_up", "dma_begin"}
MailPlaced(c) == \A k \in DOMAIN mail[c] : Placed(c, mail[c][k]) /\ mail[c][k].do \in MailSteps
Placement == \A c \in Cores : AgendaPlaced(c) /\ MailPlaced(c)

\* A token that is neither free nor reserved names the tracker's epoch, and
\* an open tracker always holds it.
EpochsAgree ==
  \A vm \in Vms :
    /\ token[vm] \notin {Inactive, Reserved} => token[vm] = life[vm].epoch
    /\ life[vm].active => token[vm] = life[vm].epoch /\ token[vm] # Inactive

\* No instruction is from an epoch that has not begun.
EpochsBegun ==
  \A c \in Cores :
    /\ \A k \in DOMAIN agenda[c] :
         agenda[c][k].do \in EpochSteps => agenda[c][k].e <= life[agenda[c][k].s[1]].epoch
    /\ \A k \in DOMAIN mail[c] :
         mail[c][k].do \in EpochSteps => mail[c][k].e <= life[mail[c][k].s[1]].epoch

\* The tracker stays open until the last stretch of its lifecycle is over,
\* and memory is written only after the last answer.
FinishingOpen ==
  \A c \in Cores : \A k \in DOMAIN agenda[c] :
    /\ agenda[c][k].do \in FinishSteps => life[agenda[c][k].s[1]].active
    /\ agenda[c][k].do \in RestoreSteps => life[agenda[c][k].s[1]].pending = {}

\* A start under way on the boot owner keeps the coordinator from beginning.
StartsAlone ==
  \A c \in Cores : agenda[c] # <<>> /\ Now(c).do \in StartSteps =>
    /\ Owner(Now(c).s[1]) = c =>
         ~life[Now(c).s[1]].active /\ token[Now(c).s[1]] \in {Inactive, Reserved}
    /\ Now(c).do = "prepare_rest" => ~live[Now(c).s]

\* Off, and no start of it under way.
Starting(c, s) == agenda[c] # <<>> /\ Now(c).do \in StartSteps /\ Now(c).s = s
Quiet(s) == ~live[s] /\ ~Starting(SlotCpu[s], s)

\* An answer that still counts is about a vCPU that is quiet, or waits
\* right behind the instruction that retires it.
Counts(i) ==
  /\ i.do \in AnswerSteps
  /\ life[i.s[1]].active /\ i.e = life[i.s[1]].epoch /\ i.s \in life[i.s[1]].pending
AnswersTrue ==
  \A c \in Cores :
    /\ \A k \in DOMAIN agenda[c] : Counts(agenda[c][k]) =>
         \/ Quiet(agenda[c][k].s)
         \/ /\ k = 2 /\ SlotCpu[agenda[c][2].s] = c
            /\ agenda[c][1].do = "retire_vcpu" /\ agenda[c][1].s = agenda[c][2].s
    /\ \A k \in DOMAIN mail[c] : Counts(mail[c][k]) => Quiet(mail[c][k].s)

\* The device of a VM under a lifecycle is drained unless the lifecycle
\* knows better, or is already past its restore.
Finishing(vm) ==
  \E k \in DOMAIN agenda[Owner(vm)] :
    agenda[Owner(vm)][k].do \in FinishSteps /\ agenda[Owner(vm)][k].s[1] = vm
DeviceDrained ==
  /\ \A vm \in Vms :
       /\ life[vm].active => life[vm].dmaPending \/ life[vm].dmaFailed \/ inst[vm].dma = "quiesced" \/ Finishing(vm)
       /\ inst[vm].dma = "quiesced" => ~inst[vm].stream
  /\ \A c \in Cores : \A k \in DOMAIN agenda[c] :
       agenda[c][k].do \in {"restore_on", "restore"} => inst[agenda[c][k].s[1]].dma = "quiesced"

\* Every vCPU of a VM on the core of its boot vCPU.
OneCorePerVm == \A s \in Slots : SlotCpu[s] = Owner(s[1])

\* What the scan before a restore has seen stays off.
ScannedOff ==
  \A c \in Cores : \A k \in DOMAIN agenda[c] :
    /\ agenda[c][k].do = "restore_on" => \A o \in SlotsOf(agenda[c][k].s[1]) : o[2] < agenda[c][k].s[2] => ~live[o]
    /\ agenda[c][k].do = "restore" => \A o \in SlotsOf(agenda[c][k].s[1]) : ~live[o]

-----------------------------------------------------------------------------
(* What a step of a core inside a function leaves behind.                  *)

\* Instruction i may be left at place k, behind f at the first place, by the
\* step of core c that executes Now(c).
LeftPlaced(c, f, k, i) ==
  /\ i \in Instr /\ i.s[1] = Now(c).s[1] /\ Placed(c, i)
  /\ k > 1 => i.do \in TailSteps
  /\ k > 1 /\ i.do = "finish" => k = 2 /\ f.do \in {"alive_up", "dma_begin"}
LeftCarrier(c, k, i) ==
  i.do \in CarrySteps =>
    /\ k = 1
    /\ Now(c).do \in {"claim", "claimed", "send_begin"}
    /\ Now(c).do = "claim" => token[Now(c).s[1]] = Inactive
LeftEpoch(c, i) ==
  i.do \in EpochSteps =>
    \/ Now(c).do \in EpochSteps /\ i.e = Now(c).e
    \/ /\ Now(c).do = "begin_lifecycle" /\ token[Now(c).s[1]] = Reserved
       /\ i.e = life[Now(c).s[1]].epoch + 1
LeftAnswer(c, f, k, i) ==
  i.do \in AnswerSteps => k = 2 /\ f.do = "retire_vcpu" /\ f.s = i.s /\ SlotCpu[i.s] = c
LeftFinish(c, i) ==
  LET vm == Now(c).s[1] IN
  /\ i.do \in FinishSteps =>
       \/ Now(c).do \in RestoreSteps
       \/ Now(c).do = "begin_lifecycle" /\ token[vm] = Reserved /\ i.do = "finish"
       \/ Now(c).do = "finish_lifecycle" /\ Ready(vm) /\ ~life[vm].dmaPending /\ ~life[vm].dmaFailed
  /\ i.do \in RestoreSteps => Now(c).do \in RestoreSteps \cup {"finish_lifecycle"}
  /\ i.do \in {"restore_on", "restore"} => Now(c).do \in {"restore_on", "finish_lifecycle"}
LeftStart(c, k, i) ==
  /\ i.do \in StartSteps =>
       /\ k = 1 /\ i.s = Now(c).s
       /\ \/ Now(c).do \in StartSteps \ {"publish_on"}
          \/ Now(c).do \in {"recheck", "queued_start"} /\ token[Now(c).s[1]] = Inactive
  /\ i.do = "prepare_rest" => ~live[i.s]
Left(c, f, k, i) ==
  /\ LeftPlaced(c, f, k, i) /\ LeftCarrier(c, k, i) /\ LeftEpoch(c, i)
  /\ LeftAnswer(c, f, k, i) /\ LeftFinish(c, i) /\ LeftStart(c, k, i)
Fits(c, is) == is \in Seq(Instr) /\ \A k \in 1..Len(is) : Left(c, is[1], k, is[k])

\* A message a step of core c may put into the mailbox of core d.
Sent(c, d, m) ==
  LET n == Now(c)
  IN /\ m \in Instr /\ m.s[1] = n.s[1] /\ Placed(d, m) /\ m.do \in MailSteps
     /\ m.do \in CarrySteps => n.do = "send_begin"
     /\ m.do \in EpochSteps => n.do \in EpochSteps /\ m.e = n.e
     /\ m.do \in AnswerSteps => n.do = "send_ack" /\ m.s = n.s

\* The instruction at the head of an agenda, where the placement has it.
LEMMA HeadFacts ==
  ASSUME TypeOK, Placement, NEW c \in Cores, agenda[c] # <<>>
  PROVE  /\ Now(c) \in Instr /\ Now(c) = agenda[c][1] /\ 1 \in DOMAIN agenda[c] /\ Placed(c, Now(c))
         /\ Now(c).s \in Slots /\ Now(c).s[1] \in Vms /\ Now(c).op \in Ops /\ Now(c).e \in Token
         /\ Boot(Now(c).s[1]) \in Slots /\ Boot(Now(c).s[1])[1] = Now(c).s[1]
         /\ Boot(Now(c).s[1])[2] = 0 /\ SlotCpu[Boot(Now(c).s[1])] = Owner(Now(c).s[1])
         /\ Tail(agenda[c]) \in Seq(Instr) /\ agenda[c] \in Seq(Instr)
<1>1. agenda \in [Cores -> Seq(Instr)]
  BY DEF TypeOK
<1>2. Now(c) = agenda[c][1] /\ 1 \in DOMAIN agenda[c]
  BY <1>1, HeadTailProperties, LenProperties, EmptySeq DEF Now
<1>3. Placed(c, agenda[c][1])
  BY <1>2 DEF Placement, AgendaPlaced
<1> QED
  BY <1>1, <1>2, <1>3, NowType DEF Boot, Owner

LEMMA TurnFields ==
  ASSUME NEW i \in Instr, NEW what \in Steps
  PROVE  /\ [i EXCEPT !.do = what] \in Instr /\ [i EXCEPT !.do = what].do = what
         /\ [i EXCEPT !.do = what].s = i.s /\ [i EXCEPT !.do = what].op = i.op
         /\ [i EXCEPT !.do = what].e = i.e
BY DEF Instr

LEMMA NextFields ==
  ASSUME NEW i \in Instr, NextSlot(i.s) \in Slots
  PROVE  /\ [i EXCEPT !.s = NextSlot(i.s)] \in Instr /\ [i EXCEPT !.s = NextSlot(i.s)].do = i.do
         /\ [i EXCEPT !.s = NextSlot(i.s)].s = NextSlot(i.s)
         /\ [i EXCEPT !.s = NextSlot(i.s)].op = i.op /\ [i EXCEPT !.s = NextSlot(i.s)].e = i.e
         /\ NextSlot(i.s)[1] = i.s[1]
BY DEF Instr, NextSlot

LEMMA DoFields ==
  ASSUME NEW what \in Steps, NEW s \in Slots, NEW op \in Ops, NEW e \in Token
  PROVE  /\ Do(what, s, op, e) \in Instr /\ Do(what, s, op, e).do = what /\ Do(what, s, op, e).s = s
         /\ Do(what, s, op, e).op = op /\ Do(what, s, op, e).e = e
BY DEF Do, Instr

LEMMA DoNone ==
  ASSUME NEW what \in Steps, NEW s \in Slots
  PROVE  /\ Do(what, s, "None", 0) \in Instr /\ Do(what, s, "None", 0).do = what
         /\ Do(what, s, "None", 0).s = s /\ Do(what, s, "None", 0).op = "None"
<1>1. "None" \in Ops /\ 0 \in Token
  BY TokenTypes DEF Ops
<1> QED
  BY <1>1, DoFields

\* An instruction that says nothing of the protocol fits anywhere it may wait.
LEMMA PlainLeft ==
  ASSUME NEW c, NEW f, NEW k \in Nat, NEW i \in Instr, i.s[1] = Now(c).s[1],
         i.do \in PlainSteps, k > 1 => i.do \in TailSteps
  PROVE  Left(c, f, k, i)
BY DEF Left, LeftPlaced, LeftCarrier, LeftEpoch, LeftAnswer, LeftFinish, LeftStart,
       Placed, PlainSteps, OwnerSteps, SlotSteps, ReserveSteps, CarrySteps, EpochSteps, AnswerSteps,
       FinishSteps, RestoreSteps, StartSteps, ColdSteps

LEMMA FitsNone ==
  ASSUME NEW c
  PROVE  Fits(c, <<>>)
BY EmptySeq DEF Fits

LEMMA FitsOne ==
  ASSUME NEW c, NEW a, Left(c, a, 1, a)
  PROVE  Fits(c, <<a>>)
<1>1. a \in Instr
  BY DEF Left, LeftPlaced
<1> QED
  BY <1>1 DEF Fits

LEMMA FitsTwo ==
  ASSUME NEW c, NEW a, NEW b, Left(c, a, 1, a), Left(c, a, 2, b)
  PROVE  Fits(c, <<a, b>>)
<1>1. a \in Instr /\ b \in Instr
  BY DEF Left, LeftPlaced
<1> QED
  BY <1>1 DEF Fits

LEMMA FitsThree ==
  ASSUME NEW c, NEW a, NEW b, NEW d, Left(c, a, 1, a), Left(c, a, 2, b), Left(c, a, 3, d)
  PROVE  Fits(c, <<a, b, d>>)
<1>1. a \in Instr /\ b \in Instr /\ d \in Instr
  BY DEF Left, LeftPlaced
<1> QED
  BY <1>1 DEF Fits

\* More may follow what fits, if it fits at any later place.
LEMMA FitsMore ==
  ASSUME NEW c, NEW s, Fits(c, s), s # <<>>, NEW t \in Seq(Instr),
         \A k \in 1..Len(t) : \A j \in Nat : j > 1 => Left(c, s[1], j, t[k])
  PROVE  Fits(c, s \o t)
<1>1. s \in Seq(Instr) /\ Len(s) \in Nat /\ Len(s) > 0 /\ Len(t) \in Nat
  BY LenProperties, EmptySeq DEF Fits
<1>2. /\ s \o t \in Seq(Instr) /\ Len(s \o t) = Len(s) + Len(t)
      /\ \A k \in 1..(Len(s) + Len(t)) : (s \o t)[k] = IF k <= Len(s) THEN s[k] ELSE t[k - Len(s)]
  BY <1>1, ConcatProperties
<1>3. ASSUME NEW k \in 1..Len(s \o t) PROVE Left(c, (s \o t)[1], k, (s \o t)[k])
  <2>1. (s \o t)[1] = s[1]
    BY <1>1, <1>2
  <2>2. CASE k <= Len(s)
    BY <1>1, <1>2, <2>1, <2>2 DEF Fits
  <2>3. CASE k > Len(s)
    <3>1. (s \o t)[k] = t[k - Len(s)] /\ k - Len(s) \in 1..Len(t) /\ k \in Nat /\ k > 1
      BY <1>1, <1>2, <1>3, <2>3
    <3> QED
      BY <2>1, <3>1
  <2> QED
    BY <2>2, <2>3
<1> QED
  BY <1>2, <1>3 DEF Fits

\* The caller's answer to a refusal is one plain instruction or none.
LEMMA RefusedPlain ==
  ASSUME TypeOK, Placement, NEW c \in Cores, agenda[c] # <<>>
  PROVE  /\ Refused(Now(c)) \in Seq(Instr)
         /\ \A k \in 1..Len(Refused(Now(c))) : \A f : \A j \in Nat : Left(c, f, j, Refused(Now(c))[k])
<1>1. Now(c) \in Instr /\ Now(c).s \in Slots /\ Boot(Now(c).s[1]) \in Slots /\ Boot(Now(c).s[1])[1] = Now(c).s[1]
  BY HeadFacts
<1>2. {"cancel_start", "stop_vm"} \subseteq PlainSteps \cap TailSteps
  BY DEF PlainSteps, TailSteps, Steps, OwnerSteps, SlotSteps, ReserveSteps, CarrySteps, EpochSteps, AnswerSteps,
         StartSteps, ColdSteps
<1> DEFINE cancel == Do("cancel_start", Now(c).s, "None", 0)
           stop == Do("stop_vm", Boot(Now(c).s[1]), "None", 0)
<1>3. "cancel_start" \in Steps /\ "stop_vm" \in Steps
  BY <1>2 DEF PlainSteps
<1>4. /\ cancel \in Instr /\ cancel.do = "cancel_start" /\ cancel.s = Now(c).s
      /\ stop \in Instr /\ stop.do = "stop_vm" /\ stop.s[1] = Now(c).s[1]
  BY <1>1, <1>3, DoNone
<1>5. Refused(Now(c)) \in {<<>>, <<cancel>>, <<stop>>}
  BY DEF Refused
<1> HIDE DEF cancel, stop
<1>6. \A f : \A j \in Nat : Left(c, f, j, cancel) /\ Left(c, f, j, stop)
  BY <1>2, <1>4, PlainLeft
<1>7. /\ <<>> \in Seq(Instr) /\ <<cancel>> \in Seq(Instr) /\ <<stop>> \in Seq(Instr)
      /\ Len(<<>>) = 0
      /\ \A i : \A k \in 1..Len(<<i>>) : <<i>>[k] = i
  BY <1>4, EmptySeq
<1>8. CASE Refused(Now(c)) = <<>>
  BY <1>7, <1>8
<1>9. CASE Refused(Now(c)) = <<cancel>>
  BY <1>6, <1>7, <1>9
<1>10. CASE Refused(Now(c)) = <<stop>>
  BY <1>6, <1>7, <1>10
<1> QED
  BY <1>5, <1>8, <1>9, <1>10

LEMMA RefusedFits ==
  ASSUME TypeOK, Placement, NEW c \in Cores, agenda[c] # <<>>
  PROVE  /\ Fits(c, Refused(Now(c)))
         /\ \A a : Left(c, a, 1, a) => Fits(c, <<a>> \o Refused(Now(c)))
<1>1. /\ Refused(Now(c)) \in Seq(Instr)
      /\ \A k \in 1..Len(Refused(Now(c))) : \A f : \A j \in Nat : Left(c, f, j, Refused(Now(c))[k])
  BY RefusedPlain
<1>2. Fits(c, Refused(Now(c)))
  BY <1>1, LenProperties DEF Fits
<1>3. ASSUME NEW a, Left(c, a, 1, a) PROVE Fits(c, <<a>> \o Refused(Now(c)))
  BY <1>1, <1>3, FitsOne, FitsMore
<1> QED
  BY <1>2, <1>3

\* A failed start leaves only plain instructions.
LEMMA FailFits ==
  ASSUME TypeOK, Placement, NEW c \in Cores, agenda[c] # <<>>
  PROVE  /\ FailStart(c, <<>>) => \E is : Then(c, is) /\ Fits(c, is)
         /\ FailStart(c, BeginDma(c)) => \E is : Then(c, is) /\ Fits(c, is)
<1> DEFINE cancel == Do("cancel_start", Now(c).s, "None", 0)
           drain == Do("dma_begin", Boot(Now(c).s[1]), "None", 0)
<1>1. {"cancel_start", "dma_begin"} \subseteq PlainSteps \cap TailSteps
  BY DEF PlainSteps, TailSteps, Steps, OwnerSteps, SlotSteps, ReserveSteps, CarrySteps, EpochSteps, AnswerSteps,
         StartSteps, ColdSteps
<1>2. "cancel_start" \in Steps /\ "dma_begin" \in Steps
  BY <1>1 DEF PlainSteps
<1>3. /\ cancel \in Instr /\ cancel.s[1] = Now(c).s[1] /\ cancel.do = "cancel_start"
      /\ drain \in Instr /\ drain.s[1] = Now(c).s[1] /\ drain.do = "dma_begin"
  BY <1>2, HeadFacts, DoNone
<1>4. BeginDma(c) = <<drain>> /\ \A is : FailStart(c, is) => Then(c, <<cancel>> \o is \o Refused(Now(c)))
  BY DEF BeginDma, FailStart
<1> HIDE DEF cancel, drain
<1>5. \A f : \A j \in Nat : Left(c, f, j, cancel) /\ Left(c, f, j, drain)
  BY <1>1, <1>3, PlainLeft
<1>6. <<>> \in Seq(Instr) /\ <<drain>> \in Seq(Instr)
  BY <1>3, EmptySeq
<1>7. Fits(c, <<cancel>>) /\ <<cancel>> # <<>>
  BY <1>5, FitsOne
<1>8. Fits(c, <<cancel>> \o <<>>) /\ Fits(c, <<cancel>> \o <<drain>>)
  <2>1. Len(<<>>) = 0 /\ \A k \in 1..Len(<<drain>>) : <<drain>>[k] = drain
    OBVIOUS
  <2>2. Fits(c, <<cancel>> \o <<>>)
    BY <1>6, <1>7, <2>1, FitsMore
  <2>3. \A k \in 1..Len(<<drain>>) : \A j \in Nat : j > 1 => Left(c, <<cancel>>[1], j, <<drain>>[k])
    BY <1>5, <2>1
  <2>4. Fits(c, <<cancel>> \o <<drain>>)
    BY <1>6, <1>7, <2>3, FitsMore
  <2> QED
    BY <2>2, <2>4
<1>9. ASSUME NEW s, Fits(c, s), s # <<>> PROVE Fits(c, s \o Refused(Now(c)))
  BY <1>9, RefusedPlain, FitsMore
<1>10. <<cancel>> \o <<>> # <<>> /\ <<cancel>> \o <<drain>> # <<>>
  BY <1>3, <1>6
<1> QED
  BY <1>4, <1>8, <1>9, <1>10

\* The instruction at hand turned into another, moved to the next vCPU of
\* its VM, or followed by one about the boot vCPU.
Turned(c, what) == [Now(c) EXCEPT !.do = what]
Moved(c) == [Now(c) EXCEPT !.s = NextSlot(Now(c).s)]
OnBoot(c, what, op) == Do(what, Boot(Now(c).s[1]), op, 0)

LEMMA Names ==
  /\ "acknowledge" \in Steps /\ "alive_down" \in Steps /\ "alive_up" \in Steps
  /\ "begin_lifecycle" \in Steps /\ "begin_reserve" \in Steps /\ "can_start" \in Steps
  /\ "cancel_start" \in Steps /\ "claim" \in Steps /\ "claimed" \in Steps /\ "cpu_off_on" \in Steps
  /\ "cpu_on" \in Steps /\ "dma_begin" \in Steps /\ "end_transition" \in Steps
  /\ "finish" \in Steps /\ "finish_lifecycle" \in Steps /\ "halt_transitions" \in Steps
  /\ "isolate" \in Steps /\ "isolated" \in Steps /\ "join_vm" \in Steps /\ "post_virq" \in Steps
  /\ "prepare_rest" \in Steps /\ "prepare_start" \in Steps /\ "publish_alone" \in Steps
  /\ "publish_on" \in Steps /\ "publish_start" \in Steps /\ "queued_start" \in Steps
  /\ "quiesce_local" \in Steps /\ "quiesce_vcpu" \in Steps /\ "rearm" \in Steps
  /\ "recheck" \in Steps /\ "recover_dma_fault" \in Steps /\ "release" \in Steps
  /\ "republish" \in Steps /\ "republish_on" \in Steps /\ "reserve_start" \in Steps
  /\ "reset_vm" \in Steps /\ "restore" \in Steps /\ "restore_on" \in Steps
  /\ "resume_reset" \in Steps /\ "resume_start" \in Steps /\ "retire_vcpu" \in Steps
  /\ "retry" \in Steps /\ "send_ack" \in Steps /\ "send_begin" \in Steps
  /\ "send_quiesce" \in Steps /\ "send_start" \in Steps /\ "start_vcpu" \in Steps
  /\ "start_vm" \in Steps /\ "start_vm_on" \in Steps /\ "stop_vm" \in Steps /\ "None" \in Ops
  /\ "StartVm" \in Ops /\ "Stop" \in Ops
BY DEF Steps, Ops

LEMMA TurnedFacts ==
  ASSUME TypeOK, Placement, NEW c \in Cores, agenda[c] # <<>>, NEW what \in Steps
  PROVE  /\ Turned(c, what) \in Instr /\ Turned(c, what).do = what /\ Turned(c, what).s = Now(c).s
         /\ Turned(c, what).op = Now(c).op /\ Turned(c, what).e = Now(c).e
BY HeadFacts, TurnFields DEF Turned

LEMMA MovedFacts ==
  ASSUME TypeOK, Placement, NEW c \in Cores, agenda[c] # <<>>, NextSlot(Now(c).s) \in Slots
  PROVE  /\ Moved(c) \in Instr /\ Moved(c).do = Now(c).do /\ Moved(c).s = NextSlot(Now(c).s)
         /\ Moved(c).op = Now(c).op /\ Moved(c).e = Now(c).e /\ NextSlot(Now(c).s)[1] = Now(c).s[1]
BY HeadFacts, NextFields DEF Moved

LEMMA OnBootFacts ==
  ASSUME TypeOK, Placement, NEW c \in Cores, agenda[c] # <<>>, NEW what \in Steps, NEW op \in Ops
  PROVE  /\ OnBoot(c, what, op) \in Instr /\ OnBoot(c, what, op).do = what
         /\ OnBoot(c, what, op).s = Boot(Now(c).s[1]) /\ OnBoot(c, what, op).op = op
BY HeadFacts, DoFields, TokenTypes DEF OnBoot

\* Every step inside a function replaces the instruction it executes by
\* instructions that fit.
LEMMA Emission ==
  ASSUME TypeOK, Placement, NEW c \in Cores, Execute(c)
  PROVE  \E is : Then(c, is) /\ Fits(c, is)
<1> USE DEF OwnerSteps, SlotSteps, ReserveSteps, CarrySteps, EpochSteps, AnswerSteps,
            FinishSteps, RestoreSteps, StartSteps, ColdSteps, MailSteps, TailSteps,
            LeftPlaced, LeftCarrier, LeftEpoch, LeftAnswer, LeftFinish, LeftStart
<1>1. CASE StartVm(c)
  <2>1. agenda[c] # <<>> /\ Now(c).do = "start_vm"
    BY <1>1 DEF StartVm, At, Now
  <2>2. /\ Placed(c, Now(c)) /\ Now(c).s[1] \in Vms
        /\ Turned(c, "start_vm_on") \in Instr /\ Turned(c, "start_vm_on").do = "start_vm_on" /\ Turned(c, "start_vm_on").s = Now(c).s /\ Turned(c, "start_vm_on").op = Now(c).op /\ Turned(c, "start_vm_on").e = Now(c).e
    BY <2>1, HeadFacts, TurnedFacts, Names
  <2>4. Left(c, Turned(c, "start_vm_on"), 1, Turned(c, "start_vm_on"))
    BY <2>1, <2>2 DEF Left, Placed
  <2>3. \/ Then(c, <<>>)
        \/ Then(c, <<Turned(c, "start_vm_on")>>)
    BY <1>1 DEF StartVm, Goto, Turned
  <2> QED
    BY <2>4, <2>3, FitsNone, FitsOne
<1>2. CASE StartVmOn(c)
  <2>1. agenda[c] # <<>> /\ Now(c).do = "start_vm_on"
    BY <1>2 DEF StartVmOn, At, Now
  <2>2. /\ Placed(c, Now(c)) /\ Now(c).s[1] \in Vms
        /\ Boot(Now(c).s[1])[1] = Now(c).s[1] /\ Boot(Now(c).s[1])[2] = 0 /\ SlotCpu[Boot(Now(c).s[1])] = Owner(Now(c).s[1])
        /\ NextSlot(Now(c).s) \in Slots => Moved(c) \in Instr /\ Moved(c).do = "start_vm_on" /\ Moved(c).s[1] = Now(c).s[1] /\ Moved(c).e = Now(c).e
        /\ OnBoot(c, "can_start", "StartVm") \in Instr /\ OnBoot(c, "can_start", "StartVm").do = "can_start" /\ OnBoot(c, "can_start", "StartVm").s = Boot(Now(c).s[1])
    BY <2>1, HeadFacts, MovedFacts, OnBootFacts, Names
  <2>4. NextSlot(Now(c).s) \in Slots => Left(c, Moved(c), 1, Moved(c))
    BY <2>1, <2>2 DEF Left, Placed
  <2>5. Left(c, OnBoot(c, "can_start", "StartVm"), 1, OnBoot(c, "can_start", "StartVm"))
    BY <2>1, <2>2 DEF Left, Placed
  <2>3. \/ Then(c, <<>>)
        \/ NextSlot(Now(c).s) \in Slots /\ Then(c, <<Moved(c)>>)
        \/ Then(c, <<OnBoot(c, "can_start", "StartVm")>>)
    BY <1>2 DEF StartVmOn, Scan, Moved, OnBoot
  <2> QED
    BY <2>4, <2>5, <2>3, FitsNone, FitsOne
<1>3. CASE CanStart(c)
  <2>1. agenda[c] # <<>> /\ Now(c).do = "can_start"
    BY <1>3 DEF CanStart, At, Now
  <2>2. /\ Placed(c, Now(c)) /\ Now(c).s[1] \in Vms
        /\ Turned(c, "begin_reserve") \in Instr /\ Turned(c, "begin_reserve").do = "begin_reserve" /\ Turned(c, "begin_reserve").s = Now(c).s /\ Turned(c, "begin_reserve").op = Now(c).op /\ Turned(c, "begin_reserve").e = Now(c).e
    BY <2>1, HeadFacts, TurnedFacts, Names
  <2>4. Left(c, Turned(c, "begin_reserve"), 1, Turned(c, "begin_reserve"))
    BY <2>1, <2>2 DEF Left, Placed
  <2>3. \/ Then(c, <<>>)
        \/ Then(c, <<Turned(c, "begin_reserve")>>)
    BY <1>3 DEF CanStart, Goto, Turned
  <2> QED
    BY <2>4, <2>3, FitsNone, FitsOne
<1>4. CASE CpuOn(c)
  <2>1. agenda[c] # <<>> /\ Now(c).do = "cpu_on"
    BY <1>4 DEF CpuOn, At, Now
  <2>2. /\ Placed(c, Now(c)) /\ Now(c).s[1] \in Vms
        /\ Turned(c, "begin_reserve") \in Instr /\ Turned(c, "begin_reserve").do = "begin_reserve" /\ Turned(c, "begin_reserve").s = Now(c).s /\ Turned(c, "begin_reserve").op = Now(c).op /\ Turned(c, "begin_reserve").e = Now(c).e
    BY <2>1, HeadFacts, TurnedFacts, Names
  <2>4. Left(c, Turned(c, "begin_reserve"), 1, Turned(c, "begin_reserve"))
    BY <2>1, <2>2 DEF Left, Placed
  <2>3. \/ Then(c, <<>>)
        \/ Then(c, <<Turned(c, "begin_reserve")>>)
    BY <1>4 DEF CpuOn, Goto, Turned
  <2> QED
    BY <2>4, <2>3, FitsNone, FitsOne
<1>5. CASE BeginReserve(c)
  <2>1. agenda[c] # <<>> /\ Now(c).do = "begin_reserve"
    BY <1>5 DEF BeginReserve, At, Now
  <2>2. /\ Placed(c, Now(c)) /\ Now(c).s[1] \in Vms
        /\ Turned(c, "reserve_start") \in Instr /\ Turned(c, "reserve_start").do = "reserve_start" /\ Turned(c, "reserve_start").s = Now(c).s /\ Turned(c, "reserve_start").op = Now(c).op /\ Turned(c, "reserve_start").e = Now(c).e
    BY <2>1, HeadFacts, TurnedFacts, Names
  <2>4. Left(c, Turned(c, "reserve_start"), 1, Turned(c, "reserve_start"))
    BY <2>1, <2>2 DEF Left, Placed
  <2>3. Then(c, <<Turned(c, "reserve_start")>>)
    BY <1>5 DEF BeginReserve, Goto, Turned
  <2> QED
    BY <2>4, <2>3, FitsOne
<1>6. CASE ReserveStart(c)
  <2>1. agenda[c] # <<>> /\ Now(c).do = "reserve_start"
    BY <1>6 DEF ReserveStart, At, Now
  <2>2. /\ Placed(c, Now(c)) /\ Now(c).s[1] \in Vms
        /\ Turned(c, "recheck") \in Instr /\ Turned(c, "recheck").do = "recheck" /\ Turned(c, "recheck").s = Now(c).s /\ Turned(c, "recheck").op = Now(c).op /\ Turned(c, "recheck").e = Now(c).e
        /\ Turned(c, "end_transition") \in Instr /\ Turned(c, "end_transition").do = "end_transition" /\ Turned(c, "end_transition").s = Now(c).s /\ Turned(c, "end_transition").op = Now(c).op /\ Turned(c, "end_transition").e = Now(c).e
    BY <2>1, HeadFacts, TurnedFacts, Names
  <2>4. Left(c, Turned(c, "recheck"), 1, Turned(c, "recheck"))
    BY <2>1, <2>2 DEF Left, Placed
  <2>5. Left(c, Turned(c, "end_transition"), 1, Turned(c, "end_transition"))
    BY <2>1, <2>2 DEF Left, Placed
  <2>3. \/ Then(c, <<Turned(c, "recheck")>>)
        \/ Then(c, <<Turned(c, "end_transition")>>)
    BY <1>6 DEF ReserveStart, Goto, Turned
  <2> QED
    BY <2>4, <2>5, <2>3, FitsOne
<1>7. CASE Recheck(c)
  <2>1. agenda[c] # <<>> /\ Now(c).do = "recheck"
    BY <1>7 DEF Recheck, At, Now
  <2>2. /\ Placed(c, Now(c)) /\ Now(c).s[1] \in Vms
        /\ Turned(c, "cancel_start") \in Instr /\ Turned(c, "cancel_start").do = "cancel_start" /\ Turned(c, "cancel_start").s = Now(c).s /\ Turned(c, "cancel_start").op = Now(c).op /\ Turned(c, "cancel_start").e = Now(c).e
        /\ Turned(c, "send_start") \in Instr /\ Turned(c, "send_start").do = "send_start" /\ Turned(c, "send_start").s = Now(c).s /\ Turned(c, "send_start").op = Now(c).op /\ Turned(c, "send_start").e = Now(c).e
        /\ Turned(c, "prepare_start") \in Instr /\ Turned(c, "prepare_start").do = "prepare_start" /\ Turned(c, "prepare_start").s = Now(c).s /\ Turned(c, "prepare_start").op = Now(c).op /\ Turned(c, "prepare_start").e = Now(c).e
        /\ Turned(c, "start_vcpu") \in Instr /\ Turned(c, "start_vcpu").do = "start_vcpu" /\ Turned(c, "start_vcpu").s = Now(c).s /\ Turned(c, "start_vcpu").op = Now(c).op /\ Turned(c, "start_vcpu").e = Now(c).e
    BY <2>1, HeadFacts, TurnedFacts, Names
  <2>4. Left(c, Turned(c, "cancel_start"), 1, Turned(c, "cancel_start"))
    BY <2>1, <2>2 DEF Left, Placed
  <2>5. Left(c, Turned(c, "send_start"), 1, Turned(c, "send_start"))
    BY <2>1, <2>2 DEF Left, Placed
  <2>6. token[Now(c).s[1]] = Inactive /\ SlotCpu[Now(c).s] = c /\ Now(c).op = "StartVm" => Left(c, Turned(c, "prepare_start"), 1, Turned(c, "prepare_start"))
    BY <2>1, <2>2 DEF Left, Placed
  <2>7. token[Now(c).s[1]] = Inactive /\ SlotCpu[Now(c).s] = c => Left(c, Turned(c, "start_vcpu"), 1, Turned(c, "start_vcpu"))
    BY <2>1, <2>2 DEF Left, Placed
  <2>3. \/ Then(c, <<Turned(c, "cancel_start")>>)
        \/ Then(c, <<Turned(c, "send_start")>>)
        \/ token[Now(c).s[1]] = Inactive /\ SlotCpu[Now(c).s] = c /\ Now(c).op = "StartVm" /\ Then(c, <<Turned(c, "prepare_start")>>)
        \/ token[Now(c).s[1]] = Inactive /\ SlotCpu[Now(c).s] = c /\ Then(c, <<Turned(c, "start_vcpu")>>)
    BY <1>7 DEF Recheck, Goto, Turned
  <2> QED
    BY <2>4, <2>5, <2>6, <2>7, <2>3, FitsOne
<1>8. CASE SendStart(c)
  <2>1. agenda[c] # <<>> /\ Now(c).do = "send_start"
    BY <1>8 DEF SendStart, At, Now
  <2>2. /\ Placed(c, Now(c)) /\ Now(c).s[1] \in Vms
        /\ Turned(c, "cancel_start") \in Instr /\ Turned(c, "cancel_start").do = "cancel_start" /\ Turned(c, "cancel_start").s = Now(c).s /\ Turned(c, "cancel_start").op = Now(c).op /\ Turned(c, "cancel_start").e = Now(c).e
    BY <2>1, HeadFacts, TurnedFacts, Names
  <2>4. Left(c, Turned(c, "cancel_start"), 1, Turned(c, "cancel_start"))
    BY <2>1, <2>2 DEF Left, Placed
  <2>3. \/ Then(c, <<>>)
        \/ Then(c, <<Turned(c, "cancel_start")>>)
    BY <1>8 DEF SendStart, Goto, Turned
  <2> QED
    BY <2>4, <2>3, FitsNone, FitsOne
<1>9. CASE CancelStart(c)
  <2>1. agenda[c] # <<>> /\ Now(c).do = "cancel_start"
    BY <1>9 DEF CancelStart, At, Now
  <2>2. /\ Placed(c, Now(c)) /\ Now(c).s[1] \in Vms
        /\ Turned(c, "end_transition") \in Instr /\ Turned(c, "end_transition").do = "end_transition" /\ Turned(c, "end_transition").s = Now(c).s /\ Turned(c, "end_transition").op = Now(c).op /\ Turned(c, "end_transition").e = Now(c).e
    BY <2>1, HeadFacts, TurnedFacts, Names
  <2>4. Left(c, Turned(c, "end_transition"), 1, Turned(c, "end_transition"))
    BY <2>1, <2>2 DEF Left, Placed
  <2>3. \/ Then(c, <<>>)
        \/ Then(c, <<Turned(c, "end_transition")>>)
    BY <1>9 DEF CancelStart, Goto, Turned
  <2> QED
    BY <2>4, <2>3, FitsNone, FitsOne
<1>10. CASE EndTransition(c)
  <2>1. Then(c, <<>>)
    BY <1>10 DEF EndTransition
  <2> QED
    BY <2>1, FitsNone
<1>11. CASE QueuedStart(c)
  <2>1. agenda[c] # <<>> /\ Now(c).do = "queued_start"
    BY <1>11 DEF QueuedStart, At, Now
  <2>2. /\ Placed(c, Now(c)) /\ Now(c).s[1] \in Vms
        /\ Turned(c, "cancel_start") \in Instr /\ Turned(c, "cancel_start").do = "cancel_start" /\ Turned(c, "cancel_start").s = Now(c).s /\ Turned(c, "cancel_start").op = Now(c).op /\ Turned(c, "cancel_start").e = Now(c).e
        /\ Turned(c, "prepare_start") \in Instr /\ Turned(c, "prepare_start").do = "prepare_start" /\ Turned(c, "prepare_start").s = Now(c).s /\ Turned(c, "prepare_start").op = Now(c).op /\ Turned(c, "prepare_start").e = Now(c).e
        /\ Turned(c, "start_vcpu") \in Instr /\ Turned(c, "start_vcpu").do = "start_vcpu" /\ Turned(c, "start_vcpu").s = Now(c).s /\ Turned(c, "start_vcpu").op = Now(c).op /\ Turned(c, "start_vcpu").e = Now(c).e
    BY <2>1, HeadFacts, TurnedFacts, Names
  <2>4. Left(c, Turned(c, "cancel_start"), 1, Turned(c, "cancel_start"))
    BY <2>1, <2>2 DEF Left, Placed
  <2>5. token[Now(c).s[1]] = Inactive /\ Now(c).op = "QueuedStart" => Left(c, Turned(c, "prepare_start"), 1, Turned(c, "prepare_start"))
    BY <2>1, <2>2 DEF Left, Placed
  <2>6. token[Now(c).s[1]] = Inactive => Left(c, Turned(c, "start_vcpu"), 1, Turned(c, "start_vcpu"))
    BY <2>1, <2>2 DEF Left, Placed
  <2>3. \/ Then(c, <<Turned(c, "cancel_start")>>)
        \/ token[Now(c).s[1]] = Inactive /\ Now(c).op = "QueuedStart" /\ Then(c, <<Turned(c, "prepare_start")>>)
        \/ token[Now(c).s[1]] = Inactive /\ Then(c, <<Turned(c, "start_vcpu")>>)
    BY <1>11 DEF QueuedStart, Goto, Turned
  <2> QED
    BY <2>4, <2>5, <2>6, <2>3, FitsOne
<1>12. CASE CheckReserved(c)
  <2>1. agenda[c] # <<>> /\ Now(c).do \in {"prepare_start", "start_vcpu", "publish_start"}
    BY <1>12 DEF CheckReserved, At, Now
  <2>20. /\ Placed(c, Now(c)) /\ Now(c).s[1] \in Vms
         /\ Turned(c, "prepare_rest") \in Instr /\ Turned(c, "prepare_rest").do = "prepare_rest" /\ Turned(c, "prepare_rest").s = Now(c).s /\ Turned(c, "prepare_rest").e = Now(c).e
         /\ Turned(c, "join_vm") \in Instr /\ Turned(c, "join_vm").do = "join_vm" /\ Turned(c, "join_vm").s = Now(c).s /\ Turned(c, "join_vm").e = Now(c).e
         /\ Turned(c, "publish_alone") \in Instr /\ Turned(c, "publish_alone").do = "publish_alone" /\ Turned(c, "publish_alone").s = Now(c).s /\ Turned(c, "publish_alone").e = Now(c).e
    BY <2>1, HeadFacts, TurnedFacts, Names
  <2>2. /\ Now(c).do = "prepare_start" /\ Startable(c) => Left(c, Turned(c, "prepare_rest"), 1, Turned(c, "prepare_rest"))
        /\ Now(c).do = "start_vcpu" => Left(c, Turned(c, "join_vm"), 1, Turned(c, "join_vm"))
        /\ Now(c).do = "publish_start" => Left(c, Turned(c, "publish_alone"), 1, Turned(c, "publish_alone"))
    BY <2>1, <2>20 DEF Left, Placed, Startable
  <2>3. \/ Now(c).do = "prepare_start" /\ Startable(c) /\ Then(c, <<Turned(c, "prepare_rest")>>)
        \/ Now(c).do = "start_vcpu" /\ Then(c, <<Turned(c, "join_vm")>>)
        \/ Now(c).do = "publish_start" /\ Then(c, <<Turned(c, "publish_alone")>>)
        \/ FailStart(c, <<>>) \/ FailStart(c, BeginDma(c))
    BY <1>12 DEF CheckReserved, At, Now, Goto, Turned
  <2> QED
    BY <2>1, <2>2, <2>3, FitsOne, FailFits
<1>13. CASE PrepareRest(c)
  <2>1. agenda[c] # <<>> /\ Now(c).do = "prepare_rest"
    BY <1>13 DEF PrepareRest, At, Now
  <2>20. /\ Placed(c, Now(c)) /\ Now(c).s[1] \in Vms
         /\ Turned(c, "resume_start") \in Instr /\ Turned(c, "resume_start").do = "resume_start" /\ Turned(c, "resume_start").s = Now(c).s /\ Turned(c, "resume_start").e = Now(c).e
    BY <2>1, HeadFacts, TurnedFacts, Names
  <2>2. Left(c, Turned(c, "resume_start"), 1, Turned(c, "resume_start"))
    BY <2>1, <2>20 DEF Left, Placed
  <2>3. Then(c, <<Turned(c, "resume_start")>>) \/ FailStart(c, <<>>) \/ FailStart(c, BeginDma(c))
    BY <1>13 DEF PrepareRest, Goto, Turned
  <2> QED
    BY <2>1, <2>2, <2>3, FitsOne, FailFits
<1>14. CASE ResumeStart(c)
  <2>1. agenda[c] # <<>> /\ Now(c).do = "resume_start"
    BY <1>14 DEF ResumeStart, At, Now
  <2>20. /\ Placed(c, Now(c)) /\ Now(c).s[1] \in Vms
         /\ Turned(c, "publish_start") \in Instr /\ Turned(c, "publish_start").do = "publish_start" /\ Turned(c, "publish_start").s = Now(c).s /\ Turned(c, "publish_start").e = Now(c).e
    BY <2>1, HeadFacts, TurnedFacts, Names
  <2>2. Left(c, Turned(c, "publish_start"), 1, Turned(c, "publish_start"))
    BY <2>1, <2>20 DEF Left, Placed
  <2>3. Then(c, <<Turned(c, "publish_start")>>) \/ FailStart(c, <<>>) \/ FailStart(c, BeginDma(c))
    BY <1>14 DEF ResumeStart, Goto, Turned
  <2> QED
    BY <2>1, <2>2, <2>3, FitsOne, FailFits
<1>15. CASE PublishAlone(c)
  <2>1. agenda[c] # <<>> /\ Now(c).do = "publish_alone"
    BY <1>15 DEF PublishAlone, At, Now
  <2>20. /\ Placed(c, Now(c)) /\ Now(c).s[1] \in Vms
         /\ Turned(c, "publish_on") \in Instr /\ Turned(c, "publish_on").do = "publish_on" /\ Turned(c, "publish_on").s = Now(c).s /\ Turned(c, "publish_on").e = Now(c).e
    BY <2>1, HeadFacts, TurnedFacts, Names
  <2>2. Left(c, Turned(c, "publish_on"), 1, Turned(c, "publish_on"))
    BY <2>1, <2>20 DEF Left, Placed
  <2>3. Then(c, <<Turned(c, "publish_on")>>) \/ FailStart(c, <<>>) \/ FailStart(c, BeginDma(c))
    BY <1>15 DEF PublishAlone, Goto, Turned
  <2> QED
    BY <2>1, <2>2, <2>3, FitsOne, FailFits
<1>16. CASE JoinVm(c)
  <2>1. agenda[c] # <<>> /\ Now(c).do = "join_vm"
    BY <1>16 DEF JoinVm, At, Now
  <2>20. /\ Placed(c, Now(c)) /\ Now(c).s[1] \in Vms
         /\ Turned(c, "publish_on") \in Instr /\ Turned(c, "publish_on").do = "publish_on" /\ Turned(c, "publish_on").s = Now(c).s /\ Turned(c, "publish_on").e = Now(c).e
    BY <2>1, HeadFacts, TurnedFacts, Names
  <2>2. Left(c, Turned(c, "publish_on"), 1, Turned(c, "publish_on"))
    BY <2>1, <2>20 DEF Left, Placed
  <2>3. Then(c, <<Turned(c, "publish_on")>>) \/ FailStart(c, <<>>) \/ FailStart(c, BeginDma(c))
    BY <1>16 DEF JoinVm, Goto, Turned
  <2> QED
    BY <2>1, <2>2, <2>3, FitsOne, FailFits
<1>17. CASE PublishOn(c)
  <2>1. agenda[c] # <<>> /\ Now(c).do = "publish_on"
    BY <1>17 DEF PublishOn, At, Now
  <2>2. /\ Placed(c, Now(c)) /\ Now(c).s[1] \in Vms
        /\ Turned(c, "alive_up") \in Instr /\ Turned(c, "alive_up").do = "alive_up" /\ Turned(c, "alive_up").s = Now(c).s /\ Turned(c, "alive_up").op = Now(c).op /\ Turned(c, "alive_up").e = Now(c).e
        /\ Turned(c, "end_transition") \in Instr /\ Turned(c, "end_transition").do = "end_transition" /\ Turned(c, "end_transition").s = Now(c).s /\ Turned(c, "end_transition").op = Now(c).op /\ Turned(c, "end_transition").e = Now(c).e
    BY <2>1, HeadFacts, TurnedFacts, Names
  <2>4. Left(c, Turned(c, "alive_up"), 1, Turned(c, "alive_up"))
    BY <2>1, <2>2 DEF Left, Placed
  <2>5. Left(c, Turned(c, "alive_up"), 2, Turned(c, "end_transition"))
    BY <2>1, <2>2 DEF Left, Placed
  <2>3. Then(c, <<Turned(c, "alive_up"), Turned(c, "end_transition")>>)
    BY <1>17 DEF PublishOn, Goto, Turned
  <2> QED
    BY <2>4, <2>5, <2>3, FitsTwo
<1>18. CASE AliveUp(c)
  <2>1. Then(c, <<>>)
    BY <1>18 DEF AliveUp
  <2> QED
    BY <2>1, FitsNone
<1>19. CASE AliveDown(c)
  <2>1. Then(c, <<>>)
    BY <1>19 DEF AliveDown
  <2> QED
    BY <2>1, FitsNone
<1>20. CASE RetireVcpu(c)
  <2>1. agenda[c] # <<>> /\ Now(c).do = "retire_vcpu"
    BY <1>20 DEF RetireVcpu, At, Now
  <2>2. /\ Placed(c, Now(c)) /\ Now(c).s[1] \in Vms
        /\ Turned(c, "cancel_start") \in Instr /\ Turned(c, "cancel_start").do = "cancel_start" /\ Turned(c, "cancel_start").s = Now(c).s /\ Turned(c, "cancel_start").op = Now(c).op /\ Turned(c, "cancel_start").e = Now(c).e
        /\ Turned(c, "alive_down") \in Instr /\ Turned(c, "alive_down").do = "alive_down" /\ Turned(c, "alive_down").s = Now(c).s /\ Turned(c, "alive_down").op = Now(c).op /\ Turned(c, "alive_down").e = Now(c).e
    BY <2>1, HeadFacts, TurnedFacts, Names
  <2>4. Left(c, Turned(c, "cancel_start"), 1, Turned(c, "cancel_start"))
    BY <2>1, <2>2 DEF Left, Placed
  <2>5. Left(c, Turned(c, "alive_down"), 1, Turned(c, "alive_down"))
    BY <2>1, <2>2 DEF Left, Placed
  <2>3. \/ Then(c, <<>>)
        \/ Then(c, <<Turned(c, "cancel_start")>>)
        \/ Then(c, <<Turned(c, "alive_down")>>)
    BY <1>20 DEF RetireVcpu, Goto, Turned
  <2> QED
    BY <2>4, <2>5, <2>3, FitsNone, FitsOne
<1>21. CASE CpuOffOn(c)
  <2>1. agenda[c] # <<>> /\ Now(c).do = "cpu_off_on"
    BY <1>21 DEF CpuOffOn, At, Now
  <2>2. /\ Placed(c, Now(c)) /\ Now(c).s[1] \in Vms
        /\ Boot(Now(c).s[1])[1] = Now(c).s[1] /\ Boot(Now(c).s[1])[2] = 0 /\ SlotCpu[Boot(Now(c).s[1])] = Owner(Now(c).s[1])
        /\ NextSlot(Now(c).s) \in Slots => Moved(c) \in Instr /\ Moved(c).do = "cpu_off_on" /\ Moved(c).s[1] = Now(c).s[1] /\ Moved(c).e = Now(c).e
        /\ OnBoot(c, "claim", "Stop") \in Instr /\ OnBoot(c, "claim", "Stop").do = "claim" /\ OnBoot(c, "claim", "Stop").s = Boot(Now(c).s[1])
    BY <2>1, HeadFacts, MovedFacts, OnBootFacts, Names
  <2>4. NextSlot(Now(c).s) \in Slots => Left(c, Moved(c), 1, Moved(c))
    BY <2>1, <2>2 DEF Left, Placed
  <2>5. Left(c, OnBoot(c, "claim", "Stop"), 1, OnBoot(c, "claim", "Stop"))
    BY <2>1, <2>2 DEF Left, Placed
  <2>3. \/ Then(c, <<>>)
        \/ NextSlot(Now(c).s) \in Slots /\ Then(c, <<Moved(c)>>)
        \/ Then(c, <<OnBoot(c, "claim", "Stop")>>)
    BY <1>21 DEF CpuOffOn, Scan, Moved, OnBoot
  <2> QED
    BY <2>4, <2>5, <2>3, FitsNone, FitsOne
<1>22. CASE ResetVm(c)
  <2>1. agenda[c] # <<>> /\ Now(c).do = "reset_vm"
    BY <1>22 DEF ResetVm, At, Now
  <2>2. /\ Placed(c, Now(c)) /\ Now(c).s[1] \in Vms
        /\ Boot(Now(c).s[1])[1] = Now(c).s[1] /\ Boot(Now(c).s[1])[2] = 0 /\ SlotCpu[Boot(Now(c).s[1])] = Owner(Now(c).s[1])
        /\ OnBoot(c, "claim", Now(c).op) \in Instr /\ OnBoot(c, "claim", Now(c).op).do = "claim" /\ OnBoot(c, "claim", Now(c).op).s = Boot(Now(c).s[1])
        /\ NextSlot(Now(c).s) \in Slots => Moved(c) \in Instr /\ Moved(c).do = "reset_vm" /\ Moved(c).s[1] = Now(c).s[1] /\ Moved(c).e = Now(c).e
    BY <2>1, HeadFacts, MovedFacts, OnBootFacts, Names
  <2>4. Left(c, OnBoot(c, "claim", Now(c).op), 1, OnBoot(c, "claim", Now(c).op))
    BY <2>1, <2>2 DEF Left, Placed
  <2>5. NextSlot(Now(c).s) \in Slots => Left(c, Moved(c), 1, Moved(c))
    BY <2>1, <2>2 DEF Left, Placed
  <2>3. \/ Then(c, <<OnBoot(c, "claim", Now(c).op)>>)
        \/ NextSlot(Now(c).s) \in Slots /\ Then(c, <<Moved(c)>>)
        \/ Then(c, Refused(Now(c)))
    BY <1>22 DEF ResetVm, Scan, Moved, OnBoot
  <2> QED
    BY <2>4, <2>5, <2>3, <2>1, FitsOne, RefusedFits
<1>23. CASE StopVm(c)
  <2>1. agenda[c] # <<>> /\ Now(c).do = "stop_vm"
    BY <1>23 DEF StopVm, At, Now
  <2>2. /\ Placed(c, Now(c)) /\ Now(c).s[1] \in Vms
        /\ Boot(Now(c).s[1])[1] = Now(c).s[1] /\ Boot(Now(c).s[1])[2] = 0 /\ SlotCpu[Boot(Now(c).s[1])] = Owner(Now(c).s[1])
        /\ OnBoot(c, "claim", "Stop") \in Instr /\ OnBoot(c, "claim", "Stop").do = "claim" /\ OnBoot(c, "claim", "Stop").s = Boot(Now(c).s[1])
        /\ NextSlot(Now(c).s) \in Slots => Moved(c) \in Instr /\ Moved(c).do = "stop_vm" /\ Moved(c).s[1] = Now(c).s[1] /\ Moved(c).e = Now(c).e
    BY <2>1, HeadFacts, MovedFacts, OnBootFacts, Names
  <2>4. Left(c, OnBoot(c, "claim", "Stop"), 1, OnBoot(c, "claim", "Stop"))
    BY <2>1, <2>2 DEF Left, Placed
  <2>5. NextSlot(Now(c).s) \in Slots => Left(c, Moved(c), 1, Moved(c))
    BY <2>1, <2>2 DEF Left, Placed
  <2>3. \/ Then(c, <<OnBoot(c, "claim", "Stop")>>)
        \/ NextSlot(Now(c).s) \in Slots /\ Then(c, <<Moved(c)>>)
        \/ Then(c, <<>>)
    BY <1>23 DEF StopVm, Scan, Moved, OnBoot
  <2> QED
    BY <2>4, <2>5, <2>3, FitsNone, FitsOne
<1>24. CASE Claim(c)
  <2>1. agenda[c] # <<>> /\ Now(c).do = "claim"
    BY <1>24 DEF Claim, At, Now
  <2>2. /\ Placed(c, Now(c)) /\ Now(c).s[1] \in Vms
        /\ Turned(c, "claimed") \in Instr /\ Turned(c, "claimed").do = "claimed" /\ Turned(c, "claimed").s = Now(c).s /\ Turned(c, "claimed").op = Now(c).op /\ Turned(c, "claimed").e = Now(c).e
    BY <2>1, HeadFacts, TurnedFacts, Names
  <2>4. token[Now(c).s[1]] = Inactive => Left(c, Turned(c, "claimed"), 1, Turned(c, "claimed"))
    BY <2>1, <2>2 DEF Left, Placed
  <2>3. \/ token[Now(c).s[1]] = Inactive /\ Then(c, <<Turned(c, "claimed")>>)
        \/ Then(c, Refused(Now(c)))
    BY <1>24 DEF Claim, Goto, Turned
  <2> QED
    BY <2>4, <2>3, <2>1, FitsOne, RefusedFits
<1>25. CASE Claimed(c)
  <2>1. agenda[c] # <<>> /\ Now(c).do = "claimed"
    BY <1>25 DEF Claimed, At, Now
  <2>2. /\ Placed(c, Now(c)) /\ Now(c).s[1] \in Vms
        /\ Turned(c, "begin_lifecycle") \in Instr /\ Turned(c, "begin_lifecycle").do = "begin_lifecycle" /\ Turned(c, "begin_lifecycle").s = Now(c).s /\ Turned(c, "begin_lifecycle").op = Now(c).op /\ Turned(c, "begin_lifecycle").e = Now(c).e
        /\ Turned(c, "send_begin") \in Instr /\ Turned(c, "send_begin").do = "send_begin" /\ Turned(c, "send_begin").s = Now(c).s /\ Turned(c, "send_begin").op = Now(c).op /\ Turned(c, "send_begin").e = Now(c).e
    BY <2>1, HeadFacts, TurnedFacts, Names
  <2>4. Owner(Now(c).s[1]) = c => Left(c, Turned(c, "begin_lifecycle"), 1, Turned(c, "begin_lifecycle"))
    BY <2>1, <2>2 DEF Left, Placed
  <2>5. Left(c, Turned(c, "send_begin"), 1, Turned(c, "send_begin"))
    BY <2>1, <2>2 DEF Left, Placed
  <2>3. \/ Owner(Now(c).s[1]) = c /\ Then(c, <<Turned(c, "begin_lifecycle")>>)
        \/ Then(c, <<Turned(c, "send_begin")>>)
    BY <1>25 DEF Claimed, Goto, Turned
  <2> QED
    BY <2>4, <2>5, <2>3, FitsOne
<1>26. CASE SendBegin(c)
  <2>1. agenda[c] # <<>> /\ Now(c).do = "send_begin"
    BY <1>26 DEF SendBegin, At, Now
  <2>20. /\ Placed(c, Now(c)) /\ Now(c).s[1] \in Vms
         /\ Turned(c, "release") \in Instr /\ Turned(c, "release").do = "release" /\ Turned(c, "release").s = Now(c).s /\ Turned(c, "release").e = Now(c).e
    BY <2>1, HeadFacts, TurnedFacts, Names
  <2>2. Left(c, Turned(c, "release"), 1, Turned(c, "release"))
    BY <2>1, <2>20 DEF Left, Placed
  <2>3. ASSUME current[c] # None, current[c][1] = Now(c).s[1]
        PROVE  Fits(c, <<Do("retire_vcpu", current[c], "None", 0)>>)
    <3>1. current[c] \in Slots /\ "retire_vcpu" \in PlainSteps \cap Steps
      BY <2>3 DEF TypeOK, PlainSteps, Steps
    <3>2. /\ Do("retire_vcpu", current[c], "None", 0) \in Instr
          /\ Do("retire_vcpu", current[c], "None", 0).do = "retire_vcpu"
          /\ Do("retire_vcpu", current[c], "None", 0).s = current[c]
      BY <3>1, DoNone
    <3> QED
      BY <2>3, <3>1, <3>2, PlainLeft, FitsOne
  <2>4. \/ Then(c, <<Turned(c, "release")>> \o Refused(Now(c))) \/ Then(c, <<>>)
        \/ /\ current[c] # None /\ current[c][1] = Now(c).s[1]
           /\ Then(c, <<Do("retire_vcpu", current[c], "None", 0)>>)
    BY <1>26 DEF SendBegin, Turned
  <2> QED
    BY <2>1, <2>2, <2>3, <2>4, FitsNone, RefusedFits
<1>27. CASE Release(c)
  <2>1. agenda[c] # <<>> /\ Now(c).do = "release"
    BY <1>27 DEF Release, At, Now
  <2>2. /\ Placed(c, Now(c)) /\ Now(c).s[1] \in Vms
        /\ Turned(c, "end_transition") \in Instr /\ Turned(c, "end_transition").do = "end_transition" /\ Turned(c, "end_transition").s = Now(c).s /\ Turned(c, "end_transition").op = Now(c).op /\ Turned(c, "end_transition").e = Now(c).e
    BY <2>1, HeadFacts, TurnedFacts, Names
  <2>4. Left(c, Turned(c, "end_transition"), 1, Turned(c, "end_transition"))
    BY <2>1, <2>2 DEF Left, Placed
  <2>3. Then(c, <<Turned(c, "end_transition")>>)
    BY <1>27 DEF Release, Goto, Turned
  <2> QED
    BY <2>4, <2>3, FitsOne
<1>28. CASE BeginLifecycle(c)
  <2>1. agenda[c] # <<>> /\ Now(c).do = "begin_lifecycle"
    BY <1>28 DEF BeginLifecycle, At, Now
  <2> DEFINE epoch == life[Now(c).s[1]].epoch + 1
             end == Do("finish", Now(c).s, "None", 0)
             send == Do("send_quiesce", Now(c).s, "None", epoch)
             quiesce == Do("quiesce_local", Now(c).s, "None", epoch)
             last == Do("finish_lifecycle", Now(c).s, "None", 0)
  <2>2. epoch \in Token /\ "None" \in Ops
    BY <2>1, HeadFacts, LifeFields DEF TypeOK, Ops
  <2>3. /\ end \in Instr /\ end.do = "finish" /\ end.s = Now(c).s
        /\ last \in Instr /\ last.do = "finish_lifecycle" /\ last.s = Now(c).s
    BY <2>1, HeadFacts, DoNone, Names
  <2>8. Now(c).s \in Slots
    BY <2>1, HeadFacts
  <2> HIDE DEF epoch
  <2>4. /\ send \in Instr /\ send.do = "send_quiesce" /\ send.s = Now(c).s /\ send.e = epoch
        /\ quiesce \in Instr /\ quiesce.do = "quiesce_local" /\ quiesce.s = Now(c).s /\ quiesce.e = epoch
    BY <2>2, <2>8, DoFields, Names
  <2>5. \/ Then(c, Refused(Now(c)))
        \/ token[Now(c).s[1]] = Reserved /\ Then(c, <<end>> \o Refused(Now(c)))
        \/ token[Now(c).s[1]] = Reserved /\ Then(c, <<send, quiesce, last>>)
    BY <1>28 DEF BeginLifecycle, epoch
  <2> HIDE DEF end, send, quiesce, last
  <2>7. Placed(c, Now(c)) /\ Now(c).s[1] \in Vms
    BY <2>1, HeadFacts
  <2>6. token[Now(c).s[1]] = Reserved =>
          /\ Left(c, end, 1, end)
          /\ Left(c, send, 1, send) /\ Left(c, send, 2, quiesce) /\ Left(c, send, 3, last)
    BY <2>1, <2>3, <2>4, <2>7 DEF epoch, Left, Placed
  <2> QED
    BY <2>1, <2>5, <2>6, FitsThree, RefusedFits
<1>29. CASE SendQuiesce(c)
  <2>1. agenda[c] # <<>> /\ Now(c).do = "send_quiesce"
    BY <1>29 DEF SendQuiesce, At, Now
  <2>2. /\ Placed(c, Now(c)) /\ Now(c).s[1] \in Vms
        /\ NextSlot(Now(c).s) \in Slots => Moved(c) \in Instr /\ Moved(c).do = "send_quiesce" /\ Moved(c).s[1] = Now(c).s[1] /\ Moved(c).e = Now(c).e
    BY <2>1, HeadFacts, MovedFacts, Names
  <2>4. NextSlot(Now(c).s) \in Slots => Left(c, Moved(c), 1, Moved(c))
    BY <2>1, <2>2 DEF Left, Placed
  <2>3. \/ Then(c, <<>>)
        \/ NextSlot(Now(c).s) \in Slots /\ Then(c, <<Moved(c)>>)
    BY <1>29 DEF SendQuiesce, Moved
  <2> QED
    BY <2>4, <2>3, FitsNone, FitsOne
<1>30. CASE QuiesceLocal(c)
  <2>1. agenda[c] # <<>> /\ Now(c).do = "quiesce_local"
    BY <1>30 DEF QuiesceLocal, At, Now
  <2> DEFINE more == IF NextSlot(Now(c).s) \in Slots THEN <<Moved(c)>> ELSE <<>>
  <2>20. /\ Placed(c, Now(c)) /\ Now(c).s[1] \in Vms
         /\ Turned(c, "retire_vcpu") \in Instr /\ Turned(c, "retire_vcpu").do = "retire_vcpu" /\ Turned(c, "retire_vcpu").s = Now(c).s /\ Turned(c, "retire_vcpu").e = Now(c).e
         /\ Turned(c, "acknowledge") \in Instr /\ Turned(c, "acknowledge").do = "acknowledge" /\ Turned(c, "acknowledge").s = Now(c).s /\ Turned(c, "acknowledge").e = Now(c).e
         /\ NextSlot(Now(c).s) \in Slots =>
             Moved(c) \in Instr /\ Moved(c).do = "quiesce_local" /\ Moved(c).s[1] = Now(c).s[1] /\ Moved(c).e = Now(c).e
    BY <2>1, HeadFacts, TurnedFacts, MovedFacts, Names
  <2>2. /\ Left(c, Turned(c, "retire_vcpu"), 1, Turned(c, "retire_vcpu"))
        /\ SlotCpu[Now(c).s] = c => Left(c, Turned(c, "retire_vcpu"), 2, Turned(c, "acknowledge"))
    BY <2>1, <2>20 DEF Left, Placed
  <2>3. NextSlot(Now(c).s) \in Slots => \A f : \A j \in Nat : Left(c, f, j, Moved(c))
    BY <2>1, <2>20 DEF Left, Placed
  <2>4. more \in Seq(Instr) /\ \A f : \A k \in 1..Len(more) : \A j \in Nat : Left(c, f, j, more[k])
    <3>1. CASE NextSlot(Now(c).s) \in Slots
      <4>1. Moved(c) \in Instr
        BY <2>1, <3>1, MovedFacts
      <4>2. <<Moved(c)>> \in Seq(Instr) /\ \A k \in 1..Len(<<Moved(c)>>) : <<Moved(c)>>[k] = Moved(c)
        BY <4>1
      <4> QED
        BY <2>3, <3>1, <4>2
    <3>2. CASE NextSlot(Now(c).s) \notin Slots
      BY <3>2, EmptySeq
    <3> QED
      BY <3>1, <3>2
  <2>5. \/ Then(c, more)
        \/ SlotCpu[Now(c).s] = c /\ Then(c, <<Turned(c, "retire_vcpu"), Turned(c, "acknowledge")>> \o more)
    BY <1>30 DEF QuiesceLocal, Turned, Moved
  <2> HIDE DEF more
  <2>6. Fits(c, more)
    <3>1. 1..Len(more) \subseteq Nat
      BY <2>4, LenProperties
    <3> QED
      BY <2>4, <3>1 DEF Fits
  <2>7. SlotCpu[Now(c).s] = c => Fits(c, <<Turned(c, "retire_vcpu"), Turned(c, "acknowledge")>> \o more)
    BY <2>2, <2>4, FitsTwo, FitsMore
  <2> QED
    BY <2>5, <2>6, <2>7
<1>31. CASE QuiesceVcpu(c)
  <2>1. agenda[c] # <<>> /\ Now(c).do = "quiesce_vcpu"
    BY <1>31 DEF QuiesceVcpu, At, Now
  <2>2. /\ Placed(c, Now(c)) /\ Now(c).s[1] \in Vms
        /\ Turned(c, "retire_vcpu") \in Instr /\ Turned(c, "retire_vcpu").do = "retire_vcpu" /\ Turned(c, "retire_vcpu").s = Now(c).s /\ Turned(c, "retire_vcpu").op = Now(c).op /\ Turned(c, "retire_vcpu").e = Now(c).e
        /\ Turned(c, "send_ack") \in Instr /\ Turned(c, "send_ack").do = "send_ack" /\ Turned(c, "send_ack").s = Now(c).s /\ Turned(c, "send_ack").op = Now(c).op /\ Turned(c, "send_ack").e = Now(c).e
    BY <2>1, HeadFacts, TurnedFacts, Names
  <2>4. Left(c, Turned(c, "retire_vcpu"), 1, Turned(c, "retire_vcpu"))
    BY <2>1, <2>2 DEF Left, Placed
  <2>5. Left(c, Turned(c, "retire_vcpu"), 2, Turned(c, "send_ack"))
    BY <2>1, <2>2 DEF Left, Placed
  <2>3. \/ Then(c, <<>>)
        \/ Then(c, <<Turned(c, "retire_vcpu"), Turned(c, "send_ack")>>)
    BY <1>31 DEF QuiesceVcpu, Goto, Turned
  <2> QED
    BY <2>4, <2>5, <2>3, FitsNone, FitsTwo
<1>32. CASE SendAck(c)
  <2>1. Then(c, <<>>)
    BY <1>32 DEF SendAck
  <2> QED
    BY <2>1, FitsNone
<1>33. CASE Acknowledge(c)
  <2>1. agenda[c] # <<>> /\ Now(c).do = "acknowledge"
    BY <1>33 DEF Acknowledge, At, Now
  <2>2. /\ Placed(c, Now(c)) /\ Now(c).s[1] \in Vms
        /\ Boot(Now(c).s[1])[1] = Now(c).s[1] /\ Boot(Now(c).s[1])[2] = 0 /\ SlotCpu[Boot(Now(c).s[1])] = Owner(Now(c).s[1])
        /\ OnBoot(c, "finish_lifecycle", "None") \in Instr /\ OnBoot(c, "finish_lifecycle", "None").do = "finish_lifecycle" /\ OnBoot(c, "finish_lifecycle", "None").s = Boot(Now(c).s[1])
    BY <2>1, HeadFacts, OnBootFacts, Names
  <2>4. Left(c, OnBoot(c, "finish_lifecycle", "None"), 1, OnBoot(c, "finish_lifecycle", "None"))
    BY <2>1, <2>2 DEF Left, Placed
  <2>3. \/ Then(c, <<>>)
        \/ Then(c, <<OnBoot(c, "finish_lifecycle", "None")>>)
    BY <1>33 DEF Acknowledge, OnBoot
  <2> QED
    BY <2>4, <2>3, FitsNone, FitsOne
<1>34. CASE FinishLifecycle(c)
  <2>1. agenda[c] # <<>> /\ Now(c).do = "finish_lifecycle"
    BY <1>34 DEF FinishLifecycle, At, Now
  <2>2. /\ Placed(c, Now(c)) /\ Now(c).s[1] \in Vms
        /\ Turned(c, "end_transition") \in Instr /\ Turned(c, "end_transition").do = "end_transition" /\ Turned(c, "end_transition").s = Now(c).s /\ Turned(c, "end_transition").op = Now(c).op /\ Turned(c, "end_transition").e = Now(c).e
        /\ Turned(c, "finish") \in Instr /\ Turned(c, "finish").do = "finish" /\ Turned(c, "finish").s = Now(c).s /\ Turned(c, "finish").op = Now(c).op /\ Turned(c, "finish").e = Now(c).e
        /\ Turned(c, "restore_on") \in Instr /\ Turned(c, "restore_on").do = "restore_on" /\ Turned(c, "restore_on").s = Now(c).s /\ Turned(c, "restore_on").op = Now(c).op /\ Turned(c, "restore_on").e = Now(c).e
    BY <2>1, HeadFacts, TurnedFacts, Names
  <2>4. Left(c, Turned(c, "end_transition"), 1, Turned(c, "end_transition"))
    BY <2>1, <2>2 DEF Left, Placed
  <2>5. Ready(Now(c).s[1]) /\ ~life[Now(c).s[1]].dmaPending /\ ~life[Now(c).s[1]].dmaFailed => Left(c, Turned(c, "finish"), 1, Turned(c, "finish"))
    BY <2>1, <2>2 DEF Left, Placed
  <2>6. Ready(Now(c).s[1]) /\ ~life[Now(c).s[1]].dmaPending /\ ~life[Now(c).s[1]].dmaFailed => Left(c, Turned(c, "restore_on"), 1, Turned(c, "restore_on"))
    BY <2>1, <2>2 DEF Left, Placed
  <2>3. \/ Then(c, <<>>)
        \/ Then(c, <<Turned(c, "end_transition")>>)
        \/ Ready(Now(c).s[1]) /\ ~life[Now(c).s[1]].dmaPending /\ ~life[Now(c).s[1]].dmaFailed /\ Then(c, <<Turned(c, "finish")>>)
        \/ Ready(Now(c).s[1]) /\ ~life[Now(c).s[1]].dmaPending /\ ~life[Now(c).s[1]].dmaFailed /\ Then(c, <<Turned(c, "restore_on")>>)
    BY <1>34 DEF FinishLifecycle, Goto, Turned
  <2> QED
    BY <2>4, <2>5, <2>6, <2>3, FitsNone, FitsOne
<1>35. CASE RestoreOn(c)
  <2>1. agenda[c] # <<>> /\ Now(c).do = "restore_on"
    BY <1>35 DEF RestoreOn, At, Now
  <2>2. /\ Placed(c, Now(c)) /\ Now(c).s[1] \in Vms
        /\ Boot(Now(c).s[1])[1] = Now(c).s[1] /\ Boot(Now(c).s[1])[2] = 0 /\ SlotCpu[Boot(Now(c).s[1])] = Owner(Now(c).s[1])
        /\ OnBoot(c, "finish", "None") \in Instr /\ OnBoot(c, "finish", "None").do = "finish" /\ OnBoot(c, "finish", "None").s = Boot(Now(c).s[1])
        /\ NextSlot(Now(c).s) \in Slots => Moved(c) \in Instr /\ Moved(c).do = "restore_on" /\ Moved(c).s[1] = Now(c).s[1] /\ Moved(c).e = Now(c).e
        /\ OnBoot(c, "restore", "None") \in Instr /\ OnBoot(c, "restore", "None").do = "restore" /\ OnBoot(c, "restore", "None").s = Boot(Now(c).s[1])
    BY <2>1, HeadFacts, MovedFacts, OnBootFacts, Names
  <2>4. Left(c, OnBoot(c, "finish", "None"), 1, OnBoot(c, "finish", "None"))
    BY <2>1, <2>2 DEF Left, Placed
  <2>5. NextSlot(Now(c).s) \in Slots => Left(c, Moved(c), 1, Moved(c))
    BY <2>1, <2>2 DEF Left, Placed
  <2>6. Left(c, OnBoot(c, "restore", "None"), 1, OnBoot(c, "restore", "None"))
    BY <2>1, <2>2 DEF Left, Placed
  <2>3. \/ Then(c, <<OnBoot(c, "finish", "None")>>)
        \/ NextSlot(Now(c).s) \in Slots /\ Then(c, <<Moved(c)>>)
        \/ Then(c, <<OnBoot(c, "restore", "None")>>)
    BY <1>35 DEF RestoreOn, Scan, Moved, OnBoot
  <2> QED
    BY <2>4, <2>5, <2>6, <2>3, FitsOne
<1>36. CASE Restore(c)
  <2>1. agenda[c] # <<>> /\ Now(c).do = "restore"
    BY <1>36 DEF Restore, At, Now
  <2>2. /\ Placed(c, Now(c)) /\ Now(c).s[1] \in Vms
        /\ Turned(c, "finish") \in Instr /\ Turned(c, "finish").do = "finish" /\ Turned(c, "finish").s = Now(c).s /\ Turned(c, "finish").op = Now(c).op /\ Turned(c, "finish").e = Now(c).e
        /\ Turned(c, "resume_reset") \in Instr /\ Turned(c, "resume_reset").do = "resume_reset" /\ Turned(c, "resume_reset").s = Now(c).s /\ Turned(c, "resume_reset").op = Now(c).op /\ Turned(c, "resume_reset").e = Now(c).e
    BY <2>1, HeadFacts, TurnedFacts, Names
  <2>4. Left(c, Turned(c, "finish"), 1, Turned(c, "finish"))
    BY <2>1, <2>2 DEF Left, Placed
  <2>5. Left(c, Turned(c, "resume_reset"), 1, Turned(c, "resume_reset"))
    BY <2>1, <2>2 DEF Left, Placed
  <2>3. \/ Then(c, <<Turned(c, "finish")>>)
        \/ Then(c, <<Turned(c, "resume_reset")>>)
    BY <1>36 DEF Restore, Goto, Turned
  <2> QED
    BY <2>4, <2>5, <2>3, FitsOne
<1>37. CASE ResumeReset(c)
  <2>1. agenda[c] # <<>> /\ Now(c).do = "resume_reset"
    BY <1>37 DEF ResumeReset, At, Now
  <2>2. /\ Placed(c, Now(c)) /\ Now(c).s[1] \in Vms
        /\ Turned(c, "republish_on") \in Instr /\ Turned(c, "republish_on").do = "republish_on" /\ Turned(c, "republish_on").s = Now(c).s /\ Turned(c, "republish_on").op = Now(c).op /\ Turned(c, "republish_on").e = Now(c).e
        /\ Turned(c, "finish") \in Instr /\ Turned(c, "finish").do = "finish" /\ Turned(c, "finish").s = Now(c).s /\ Turned(c, "finish").op = Now(c).op /\ Turned(c, "finish").e = Now(c).e
    BY <2>1, HeadFacts, TurnedFacts, Names
  <2>4. Left(c, Turned(c, "republish_on"), 1, Turned(c, "republish_on"))
    BY <2>1, <2>2 DEF Left, Placed
  <2>5. Left(c, Turned(c, "finish"), 1, Turned(c, "finish"))
    BY <2>1, <2>2 DEF Left, Placed
  <2>3. \/ Then(c, <<Turned(c, "republish_on")>>)
        \/ Then(c, <<Turned(c, "finish")>>)
    BY <1>37 DEF ResumeReset, Goto, Turned
  <2> QED
    BY <2>4, <2>5, <2>3, FitsOne
<1>38. CASE RepublishOn(c)
  <2>1. agenda[c] # <<>> /\ Now(c).do = "republish_on"
    BY <1>38 DEF RepublishOn, At, Now
  <2>2. /\ Placed(c, Now(c)) /\ Now(c).s[1] \in Vms
        /\ Boot(Now(c).s[1])[1] = Now(c).s[1] /\ Boot(Now(c).s[1])[2] = 0 /\ SlotCpu[Boot(Now(c).s[1])] = Owner(Now(c).s[1])
        /\ OnBoot(c, "dma_begin", "None") \in Instr /\ OnBoot(c, "dma_begin", "None").do = "dma_begin" /\ OnBoot(c, "dma_begin", "None").s = Boot(Now(c).s[1])
        /\ OnBoot(c, "finish", "None") \in Instr /\ OnBoot(c, "finish", "None").do = "finish" /\ OnBoot(c, "finish", "None").s = Boot(Now(c).s[1])
        /\ NextSlot(Now(c).s) \in Slots => Moved(c) \in Instr /\ Moved(c).do = "republish_on" /\ Moved(c).s[1] = Now(c).s[1] /\ Moved(c).e = Now(c).e
        /\ OnBoot(c, "republish", "None") \in Instr /\ OnBoot(c, "republish", "None").do = "republish" /\ OnBoot(c, "republish", "None").s = Boot(Now(c).s[1])
    BY <2>1, HeadFacts, MovedFacts, OnBootFacts, Names
  <2>4. Left(c, OnBoot(c, "dma_begin", "None"), 1, OnBoot(c, "dma_begin", "None"))
    BY <2>1, <2>2 DEF Left, Placed
  <2>5. Left(c, OnBoot(c, "dma_begin", "None"), 2, OnBoot(c, "finish", "None"))
    BY <2>1, <2>2 DEF Left, Placed
  <2>6. NextSlot(Now(c).s) \in Slots => Left(c, Moved(c), 1, Moved(c))
    BY <2>1, <2>2 DEF Left, Placed
  <2>7. Left(c, OnBoot(c, "republish", "None"), 1, OnBoot(c, "republish", "None"))
    BY <2>1, <2>2 DEF Left, Placed
  <2>3. \/ Then(c, <<OnBoot(c, "dma_begin", "None"), OnBoot(c, "finish", "None")>>)
        \/ NextSlot(Now(c).s) \in Slots /\ Then(c, <<Moved(c)>>)
        \/ Then(c, <<OnBoot(c, "republish", "None")>>)
    BY <1>38 DEF RepublishOn, Scan, Moved, OnBoot
  <2> QED
    BY <2>4, <2>5, <2>6, <2>7, <2>3, FitsOne, FitsTwo
<1>39. CASE Republish(c)
  <2>1. agenda[c] # <<>> /\ Now(c).do = "republish"
    BY <1>39 DEF Republish, At, Now
  <2>2. /\ Placed(c, Now(c)) /\ Now(c).s[1] \in Vms
        /\ Turned(c, "alive_up") \in Instr /\ Turned(c, "alive_up").do = "alive_up" /\ Turned(c, "alive_up").s = Now(c).s /\ Turned(c, "alive_up").op = Now(c).op /\ Turned(c, "alive_up").e = Now(c).e
        /\ Turned(c, "finish") \in Instr /\ Turned(c, "finish").do = "finish" /\ Turned(c, "finish").s = Now(c).s /\ Turned(c, "finish").op = Now(c).op /\ Turned(c, "finish").e = Now(c).e
    BY <2>1, HeadFacts, TurnedFacts, Names
  <2>4. Left(c, Turned(c, "alive_up"), 1, Turned(c, "alive_up"))
    BY <2>1, <2>2 DEF Left, Placed
  <2>5. Left(c, Turned(c, "alive_up"), 2, Turned(c, "finish"))
    BY <2>1, <2>2 DEF Left, Placed
  <2>3. Then(c, <<Turned(c, "alive_up"), Turned(c, "finish")>>)
    BY <1>39 DEF Republish, Goto, Turned
  <2> QED
    BY <2>4, <2>5, <2>3, FitsTwo
<1>40. CASE Finish(c)
  <2>1. agenda[c] # <<>> /\ Now(c).do = "finish"
    BY <1>40 DEF Finish, At, Now
  <2>2. /\ Placed(c, Now(c)) /\ Now(c).s[1] \in Vms
        /\ Turned(c, "end_transition") \in Instr /\ Turned(c, "end_transition").do = "end_transition" /\ Turned(c, "end_transition").s = Now(c).s /\ Turned(c, "end_transition").op = Now(c).op /\ Turned(c, "end_transition").e = Now(c).e
    BY <2>1, HeadFacts, TurnedFacts, Names
  <2>4. Left(c, Turned(c, "end_transition"), 1, Turned(c, "end_transition"))
    BY <2>1, <2>2 DEF Left, Placed
  <2>3. Then(c, <<Turned(c, "end_transition")>>)
    BY <1>40 DEF Finish, Goto, Turned
  <2> QED
    BY <2>4, <2>3, FitsOne
<1>41. CASE DmaBegin(c)
  <2>1. Then(c, <<>>)
    BY <1>41 DEF DmaBegin
  <2> QED
    BY <2>1, FitsNone
<1>42. CASE Retry(c)
  <2>1. agenda[c] # <<>> /\ Now(c).do = "retry"
    BY <1>42 DEF Retry, At, Now
  <2> DEFINE more == IF NextSlot(Now(c).s) \in Slots THEN <<Moved(c)>> ELSE <<Turned(c, "rearm")>>
  <2>20. /\ Placed(c, Now(c)) /\ Now(c).s[1] \in Vms
         /\ Turned(c, "retire_vcpu") \in Instr /\ Turned(c, "retire_vcpu").do = "retire_vcpu" /\ Turned(c, "retire_vcpu").s = Now(c).s /\ Turned(c, "retire_vcpu").e = Now(c).e
         /\ Turned(c, "acknowledge") \in Instr /\ Turned(c, "acknowledge").do = "acknowledge" /\ Turned(c, "acknowledge").s = Now(c).s /\ Turned(c, "acknowledge").e = Now(c).e
         /\ Turned(c, "rearm") \in Instr /\ Turned(c, "rearm").do = "rearm" /\ Turned(c, "rearm").s = Now(c).s /\ Turned(c, "rearm").e = Now(c).e
         /\ NextSlot(Now(c).s) \in Slots =>
             Moved(c) \in Instr /\ Moved(c).do = "retry" /\ Moved(c).s[1] = Now(c).s[1] /\ Moved(c).e = Now(c).e
    BY <2>1, HeadFacts, TurnedFacts, MovedFacts, Names
  <2>2. /\ Left(c, Turned(c, "retire_vcpu"), 1, Turned(c, "retire_vcpu"))
        /\ SlotCpu[Now(c).s] = c => Left(c, Turned(c, "retire_vcpu"), 2, Turned(c, "acknowledge"))
    BY <2>1, <2>20 DEF Left, Placed
  <2>3. NextSlot(Now(c).s) \in Slots => \A f : \A j \in Nat : Left(c, f, j, Moved(c))
    BY <2>1, <2>20 DEF Left, Placed
  <2>4. more \in Seq(Instr) /\ \A f : \A k \in 1..Len(more) : \A j \in Nat : Left(c, f, j, more[k])
    <3>1. CASE NextSlot(Now(c).s) \in Slots
      <4>1. Moved(c) \in Instr
        BY <2>1, <3>1, MovedFacts
      <4>2. <<Moved(c)>> \in Seq(Instr) /\ \A k \in 1..Len(<<Moved(c)>>) : <<Moved(c)>>[k] = Moved(c)
        BY <4>1
      <4> QED
        BY <2>3, <3>1, <4>2
    <3>2. CASE NextSlot(Now(c).s) \notin Slots
      <4>1. Turned(c, "rearm") \in Instr /\ \A f : \A j \in Nat : Left(c, f, j, Turned(c, "rearm"))
        BY <2>1, <2>20 DEF Left, Placed
      <4>2. /\ <<Turned(c, "rearm")>> \in Seq(Instr)
            /\ \A k \in 1..Len(<<Turned(c, "rearm")>>) : <<Turned(c, "rearm")>>[k] = Turned(c, "rearm")
        BY <4>1
      <4> QED
        BY <3>2, <4>1, <4>2
    <3> QED
      BY <3>1, <3>2
  <2>5. \/ Then(c, more)
        \/ SlotCpu[Now(c).s] = c /\ Then(c, <<Turned(c, "retire_vcpu"), Turned(c, "acknowledge")>> \o more)
    BY <1>42 DEF Retry, Turned, Moved
  <2> HIDE DEF more
  <2>6. Fits(c, more)
    <3>1. 1..Len(more) \subseteq Nat
      BY <2>4, LenProperties
    <3> QED
      BY <2>4, <3>1 DEF Fits
  <2>7. SlotCpu[Now(c).s] = c => Fits(c, <<Turned(c, "retire_vcpu"), Turned(c, "acknowledge")>> \o more)
    BY <2>2, <2>4, FitsTwo, FitsMore
  <2> QED
    BY <2>5, <2>6, <2>7
<1>43. CASE Rearm(c)
  <2>1. Then(c, <<>>)
    BY <1>43 DEF Rearm
  <2> QED
    BY <2>1, FitsNone
<1>44. CASE Isolate(c)
  <2>1. agenda[c] # <<>> /\ Now(c).do = "isolate"
    BY <1>44 DEF Isolate, At, Now
  <2> DEFINE cancel == IF Now(c).s \in life[Now(c).s[1]].pending THEN <<Turned(c, "cancel_start")>> ELSE <<>>
             next == IF NextSlot(Now(c).s) \in Slots THEN Moved(c) ELSE Turned(c, "isolated")
  <2>20. /\ Placed(c, Now(c)) /\ Now(c).s[1] \in Vms
         /\ Turned(c, "cancel_start") \in Instr /\ Turned(c, "cancel_start").do = "cancel_start" /\ Turned(c, "cancel_start").s = Now(c).s /\ Turned(c, "cancel_start").e = Now(c).e
         /\ Turned(c, "isolated") \in Instr /\ Turned(c, "isolated").do = "isolated" /\ Turned(c, "isolated").s = Now(c).s /\ Turned(c, "isolated").e = Now(c).e
         /\ NextSlot(Now(c).s) \in Slots =>
             Moved(c) \in Instr /\ Moved(c).do = "isolate" /\ Moved(c).s[1] = Now(c).s[1] /\ Moved(c).e = Now(c).e
    BY <2>1, HeadFacts, TurnedFacts, MovedFacts, Names
  <2>2. \A f : \A j \in Nat : Left(c, f, j, next)
    BY <2>1, <2>20 DEF Left, Placed
  <2>3. Left(c, Turned(c, "cancel_start"), 1, Turned(c, "cancel_start"))
    BY <2>1, <2>20 DEF Left, Placed
  <2>4. Then(c, cancel \o <<next>>) /\ (cancel = <<>> \/ cancel = <<Turned(c, "cancel_start")>>)
    BY <1>44 DEF Isolate, Turned, Moved
  <2> HIDE DEF cancel, next
  <2>5. next \in Instr /\ Turned(c, "cancel_start") \in Instr
    BY <2>2, <2>3 DEF Left
  <2>6. <<>> \o <<next>> = <<next>> /\ Fits(c, <<next>>)
    BY <2>2, <2>5, FitsOne
  <2>7. Fits(c, <<Turned(c, "cancel_start")>> \o <<next>>)
    <3>1. <<next>> \in Seq(Instr) /\ \A k \in 1..Len(<<next>>) : <<next>>[k] = next
      BY <2>5
    <3>2. Fits(c, <<Turned(c, "cancel_start")>>) /\ <<Turned(c, "cancel_start")>> # <<>>
      BY <2>3, FitsOne
    <3> QED
      BY <2>2, <3>1, <3>2, FitsMore
  <2> QED
    BY <2>4, <2>6, <2>7
<1>45. CASE Isolated(c)
  <2>1. agenda[c] # <<>> /\ Now(c).do = "isolated"
    BY <1>45 DEF Isolated, At, Now
  <2>2. /\ Placed(c, Now(c)) /\ Now(c).s[1] \in Vms
        /\ Turned(c, "end_transition") \in Instr /\ Turned(c, "end_transition").do = "end_transition" /\ Turned(c, "end_transition").s = Now(c).s /\ Turned(c, "end_transition").op = Now(c).op /\ Turned(c, "end_transition").e = Now(c).e
    BY <2>1, HeadFacts, TurnedFacts, Names
  <2>4. Left(c, Turned(c, "end_transition"), 1, Turned(c, "end_transition"))
    BY <2>1, <2>2 DEF Left, Placed
  <2>3. Then(c, <<Turned(c, "end_transition")>>)
    BY <1>45 DEF Isolated, Goto, Turned
  <2> QED
    BY <2>4, <2>3, FitsOne
<1>46. CASE PostVirq(c)
  <2>1. Then(c, <<>>)
    BY <1>46 DEF PostVirq
  <2> QED
    BY <2>1, FitsNone
<1>47. CASE RecoverDmaFault(c)
  <2>1. agenda[c] # <<>> /\ Now(c).do = "recover_dma_fault"
    BY <1>47 DEF RecoverDmaFault, At, Now
  <2>2. /\ Placed(c, Now(c)) /\ Now(c).s[1] \in Vms
        /\ Turned(c, "reset_vm") \in Instr /\ Turned(c, "reset_vm").do = "reset_vm" /\ Turned(c, "reset_vm").s = Now(c).s /\ Turned(c, "reset_vm").op = Now(c).op /\ Turned(c, "reset_vm").e = Now(c).e
    BY <2>1, HeadFacts, TurnedFacts, Names
  <2>4. Left(c, Turned(c, "reset_vm"), 1, Turned(c, "reset_vm"))
    BY <2>1, <2>2 DEF Left, Placed
  <2>3. \/ Then(c, <<>>)
        \/ Then(c, <<Turned(c, "reset_vm")>>)
    BY <1>47 DEF RecoverDmaFault, Goto, Turned
  <2> QED
    BY <2>4, <2>3, FitsNone, FitsOne
<1>48. CASE HaltTransitions(c)
  <2>1. Then(c, <<>>)
    BY <1>48 DEF HaltTransitions
  <2> QED
    BY <2>1, FitsNone
<1> QED
  BY <1>1, <1>2, <1>3, <1>4, <1>5, <1>6, <1>7, <1>8, <1>9, <1>10, <1>11, <1>12, <1>13, <1>14,
     <1>15, <1>16, <1>17, <1>18, <1>19, <1>20, <1>21, <1>22, <1>23, <1>24, <1>25, <1>26, <1>27,
     <1>28, <1>29, <1>30, <1>31, <1>32, <1>33, <1>34, <1>35, <1>36, <1>37, <1>38, <1>39, <1>40,
     <1>41, <1>42, <1>43, <1>44, <1>45, <1>46, <1>47, <1>48
  DEF Execute

\* Every step of a core inside a function executes the instruction at hand.
LEMMA Heads ==
  ASSUME NEW c
  PROVE
    /\ StartVm(c) => agenda[c] # <<>> /\ Now(c).do = "start_vm"
    /\ StartVmOn(c) => agenda[c] # <<>> /\ Now(c).do = "start_vm_on"
    /\ CanStart(c) => agenda[c] # <<>> /\ Now(c).do = "can_start"
    /\ CpuOn(c) => agenda[c] # <<>> /\ Now(c).do = "cpu_on"
    /\ BeginReserve(c) => agenda[c] # <<>> /\ Now(c).do = "begin_reserve"
    /\ ReserveStart(c) => agenda[c] # <<>> /\ Now(c).do = "reserve_start"
    /\ Recheck(c) => agenda[c] # <<>> /\ Now(c).do = "recheck"
    /\ SendStart(c) => agenda[c] # <<>> /\ Now(c).do = "send_start"
    /\ CancelStart(c) => agenda[c] # <<>> /\ Now(c).do = "cancel_start"
    /\ EndTransition(c) => agenda[c] # <<>> /\ Now(c).do = "end_transition"
    /\ QueuedStart(c) => agenda[c] # <<>> /\ Now(c).do = "queued_start"
    /\ CheckReserved(c) => agenda[c] # <<>> /\ Now(c).do \in {"prepare_start", "start_vcpu", "publish_start"}
    /\ PrepareRest(c) => agenda[c] # <<>> /\ Now(c).do = "prepare_rest"
    /\ ResumeStart(c) => agenda[c] # <<>> /\ Now(c).do = "resume_start"
    /\ PublishAlone(c) => agenda[c] # <<>> /\ Now(c).do = "publish_alone"
    /\ JoinVm(c) => agenda[c] # <<>> /\ Now(c).do = "join_vm"
    /\ PublishOn(c) => agenda[c] # <<>> /\ Now(c).do = "publish_on"
    /\ AliveUp(c) => agenda[c] # <<>> /\ Now(c).do = "alive_up"
    /\ AliveDown(c) => agenda[c] # <<>> /\ Now(c).do = "alive_down"
    /\ RetireVcpu(c) => agenda[c] # <<>> /\ Now(c).do = "retire_vcpu"
    /\ CpuOffOn(c) => agenda[c] # <<>> /\ Now(c).do = "cpu_off_on"
    /\ ResetVm(c) => agenda[c] # <<>> /\ Now(c).do = "reset_vm"
    /\ StopVm(c) => agenda[c] # <<>> /\ Now(c).do = "stop_vm"
    /\ Claim(c) => agenda[c] # <<>> /\ Now(c).do = "claim"
    /\ Claimed(c) => agenda[c] # <<>> /\ Now(c).do = "claimed"
    /\ SendBegin(c) => agenda[c] # <<>> /\ Now(c).do = "send_begin"
    /\ Release(c) => agenda[c] # <<>> /\ Now(c).do = "release"
    /\ BeginLifecycle(c) => agenda[c] # <<>> /\ Now(c).do = "begin_lifecycle"
    /\ SendQuiesce(c) => agenda[c] # <<>> /\ Now(c).do = "send_quiesce"
    /\ QuiesceLocal(c) => agenda[c] # <<>> /\ Now(c).do = "quiesce_local"
    /\ QuiesceVcpu(c) => agenda[c] # <<>> /\ Now(c).do = "quiesce_vcpu"
    /\ SendAck(c) => agenda[c] # <<>> /\ Now(c).do = "send_ack"
    /\ Acknowledge(c) => agenda[c] # <<>> /\ Now(c).do = "acknowledge"
    /\ FinishLifecycle(c) => agenda[c] # <<>> /\ Now(c).do = "finish_lifecycle"
    /\ RestoreOn(c) => agenda[c] # <<>> /\ Now(c).do = "restore_on"
    /\ Restore(c) => agenda[c] # <<>> /\ Now(c).do = "restore"
    /\ ResumeReset(c) => agenda[c] # <<>> /\ Now(c).do = "resume_reset"
    /\ RepublishOn(c) => agenda[c] # <<>> /\ Now(c).do = "republish_on"
    /\ Republish(c) => agenda[c] # <<>> /\ Now(c).do = "republish"
    /\ Finish(c) => agenda[c] # <<>> /\ Now(c).do = "finish"
    /\ DmaBegin(c) => agenda[c] # <<>> /\ Now(c).do = "dma_begin"
    /\ Retry(c) => agenda[c] # <<>> /\ Now(c).do = "retry"
    /\ Rearm(c) => agenda[c] # <<>> /\ Now(c).do = "rearm"
    /\ Isolate(c) => agenda[c] # <<>> /\ Now(c).do = "isolate"
    /\ Isolated(c) => agenda[c] # <<>> /\ Now(c).do = "isolated"
    /\ PostVirq(c) => agenda[c] # <<>> /\ Now(c).do = "post_virq"
    /\ RecoverDmaFault(c) => agenda[c] # <<>> /\ Now(c).do = "recover_dma_fault"
    /\ HaltTransitions(c) => agenda[c] # <<>> /\ Now(c).do = "halt_transitions"
<1>1. StartVm(c) => agenda[c] # <<>> /\ Now(c).do = "start_vm"
  BY DEF StartVm, At, Now
<1>2. StartVmOn(c) => agenda[c] # <<>> /\ Now(c).do = "start_vm_on"
  BY DEF StartVmOn, At, Now
<1>3. CanStart(c) => agenda[c] # <<>> /\ Now(c).do = "can_start"
  BY DEF CanStart, At, Now
<1>4. CpuOn(c) => agenda[c] # <<>> /\ Now(c).do = "cpu_on"
  BY DEF CpuOn, At, Now
<1>5. BeginReserve(c) => agenda[c] # <<>> /\ Now(c).do = "begin_reserve"
  BY DEF BeginReserve, At, Now
<1>6. ReserveStart(c) => agenda[c] # <<>> /\ Now(c).do = "reserve_start"
  BY DEF ReserveStart, At, Now
<1>7. Recheck(c) => agenda[c] # <<>> /\ Now(c).do = "recheck"
  BY DEF Recheck, At, Now
<1>8. SendStart(c) => agenda[c] # <<>> /\ Now(c).do = "send_start"
  BY DEF SendStart, At, Now
<1>9. CancelStart(c) => agenda[c] # <<>> /\ Now(c).do = "cancel_start"
  BY DEF CancelStart, At, Now
<1>10. EndTransition(c) => agenda[c] # <<>> /\ Now(c).do = "end_transition"
  BY DEF EndTransition, At, Now
<1>11. QueuedStart(c) => agenda[c] # <<>> /\ Now(c).do = "queued_start"
  BY DEF QueuedStart, At, Now
<1>12. CheckReserved(c) => agenda[c] # <<>> /\ Now(c).do \in {"prepare_start", "start_vcpu", "publish_start"}
  BY DEF CheckReserved, At, Now
<1>13. PrepareRest(c) => agenda[c] # <<>> /\ Now(c).do = "prepare_rest"
  BY DEF PrepareRest, At, Now
<1>14. ResumeStart(c) => agenda[c] # <<>> /\ Now(c).do = "resume_start"
  BY DEF ResumeStart, At, Now
<1>15. PublishAlone(c) => agenda[c] # <<>> /\ Now(c).do = "publish_alone"
  BY DEF PublishAlone, At, Now
<1>16. JoinVm(c) => agenda[c] # <<>> /\ Now(c).do = "join_vm"
  BY DEF JoinVm, At, Now
<1>17. PublishOn(c) => agenda[c] # <<>> /\ Now(c).do = "publish_on"
  BY DEF PublishOn, At, Now
<1>18. AliveUp(c) => agenda[c] # <<>> /\ Now(c).do = "alive_up"
  BY DEF AliveUp, At, Now
<1>19. AliveDown(c) => agenda[c] # <<>> /\ Now(c).do = "alive_down"
  BY DEF AliveDown, At, Now
<1>20. RetireVcpu(c) => agenda[c] # <<>> /\ Now(c).do = "retire_vcpu"
  BY DEF RetireVcpu, At, Now
<1>21. CpuOffOn(c) => agenda[c] # <<>> /\ Now(c).do = "cpu_off_on"
  BY DEF CpuOffOn, At, Now
<1>22. ResetVm(c) => agenda[c] # <<>> /\ Now(c).do = "reset_vm"
  BY DEF ResetVm, At, Now
<1>23. StopVm(c) => agenda[c] # <<>> /\ Now(c).do = "stop_vm"
  BY DEF StopVm, At, Now
<1>24. Claim(c) => agenda[c] # <<>> /\ Now(c).do = "claim"
  BY DEF Claim, At, Now
<1>25. Claimed(c) => agenda[c] # <<>> /\ Now(c).do = "claimed"
  BY DEF Claimed, At, Now
<1>26. SendBegin(c) => agenda[c] # <<>> /\ Now(c).do = "send_begin"
  BY DEF SendBegin, At, Now
<1>27. Release(c) => agenda[c] # <<>> /\ Now(c).do = "release"
  BY DEF Release, At, Now
<1>28. BeginLifecycle(c) => agenda[c] # <<>> /\ Now(c).do = "begin_lifecycle"
  BY DEF BeginLifecycle, At, Now
<1>29. SendQuiesce(c) => agenda[c] # <<>> /\ Now(c).do = "send_quiesce"
  BY DEF SendQuiesce, At, Now
<1>30. QuiesceLocal(c) => agenda[c] # <<>> /\ Now(c).do = "quiesce_local"
  BY DEF QuiesceLocal, At, Now
<1>31. QuiesceVcpu(c) => agenda[c] # <<>> /\ Now(c).do = "quiesce_vcpu"
  BY DEF QuiesceVcpu, At, Now
<1>32. SendAck(c) => agenda[c] # <<>> /\ Now(c).do = "send_ack"
  BY DEF SendAck, At, Now
<1>33. Acknowledge(c) => agenda[c] # <<>> /\ Now(c).do = "acknowledge"
  BY DEF Acknowledge, At, Now
<1>34. FinishLifecycle(c) => agenda[c] # <<>> /\ Now(c).do = "finish_lifecycle"
  BY DEF FinishLifecycle, At, Now
<1>35. RestoreOn(c) => agenda[c] # <<>> /\ Now(c).do = "restore_on"
  BY DEF RestoreOn, At, Now
<1>36. Restore(c) => agenda[c] # <<>> /\ Now(c).do = "restore"
  BY DEF Restore, At, Now
<1>37. ResumeReset(c) => agenda[c] # <<>> /\ Now(c).do = "resume_reset"
  BY DEF ResumeReset, At, Now
<1>38. RepublishOn(c) => agenda[c] # <<>> /\ Now(c).do = "republish_on"
  BY DEF RepublishOn, At, Now
<1>39. Republish(c) => agenda[c] # <<>> /\ Now(c).do = "republish"
  BY DEF Republish, At, Now
<1>40. Finish(c) => agenda[c] # <<>> /\ Now(c).do = "finish"
  BY DEF Finish, At, Now
<1>41. DmaBegin(c) => agenda[c] # <<>> /\ Now(c).do = "dma_begin"
  BY DEF DmaBegin, At, Now
<1>42. Retry(c) => agenda[c] # <<>> /\ Now(c).do = "retry"
  BY DEF Retry, At, Now
<1>43. Rearm(c) => agenda[c] # <<>> /\ Now(c).do = "rearm"
  BY DEF Rearm, At, Now
<1>44. Isolate(c) => agenda[c] # <<>> /\ Now(c).do = "isolate"
  BY DEF Isolate, At, Now
<1>45. Isolated(c) => agenda[c] # <<>> /\ Now(c).do = "isolated"
  BY DEF Isolated, At, Now
<1>46. PostVirq(c) => agenda[c] # <<>> /\ Now(c).do = "post_virq"
  BY DEF PostVirq, At, Now
<1>47. RecoverDmaFault(c) => agenda[c] # <<>> /\ Now(c).do = "recover_dma_fault"
  BY DEF RecoverDmaFault, At, Now
<1>48. HaltTransitions(c) => agenda[c] # <<>> /\ Now(c).do = "halt_transitions"
  BY DEF HaltTransitions, At, Now
<1> QED
  BY <1>1, <1>2, <1>3, <1>4, <1>5, <1>6, <1>7, <1>8, <1>9, <1>10, <1>11, <1>12, <1>13, <1>14,
     <1>15, <1>16, <1>17, <1>18, <1>19, <1>20, <1>21, <1>22, <1>23, <1>24, <1>25, <1>26, <1>27,
     <1>28, <1>29, <1>30, <1>31, <1>32, <1>33, <1>34, <1>35, <1>36, <1>37, <1>38, <1>39, <1>40,
     <1>41, <1>42, <1>43, <1>44, <1>45, <1>46, <1>47, <1>48

\* Which of them write which part of the state.
TokenWrites == {"claim", "release", "begin_lifecycle", "finish"}
LifeWrites  == {"begin_lifecycle", "acknowledge", "finish_lifecycle", "finish", "rearm", "isolated"}
InstWrites  == {"prepare_rest", "resume_start", "join_vm", "begin_lifecycle", "restore", "resume_reset", "dma_begin"}
LiveWrites  == {"publish_on", "republish", "retire_vcpu"}
MailWrites  == {"send_start", "send_begin", "send_quiesce", "send_ack", "retry"}

LEMMA Frames ==
  ASSUME NEW c \in Cores, Execute(c)
  PROVE  /\ agenda[c] # <<>>
         /\ Now(c).do \notin TokenWrites => token' = token
         /\ Now(c).do \notin LifeWrites => life' = life
         /\ Now(c).do \notin InstWrites => inst' = inst
         /\ Now(c).do \notin LiveWrites => live' = live
         /\ Now(c).do \notin MailWrites => mail' = mail
<1> USE DEF TokenWrites, LifeWrites, InstWrites, LiveWrites, MailWrites
<1>1. CASE StartVm(c)
  <2>1. agenda[c] # <<>> /\ Now(c).do = "start_vm"
    BY <1>1, Heads
  <2>2. UNCHANGED <<token, life, inst, live, mail>>
    BY <1>1 DEF StartVm
  <2> QED
    BY <2>1, <2>2
<1>2. CASE StartVmOn(c)
  <2>1. agenda[c] # <<>> /\ Now(c).do = "start_vm_on"
    BY <1>2, Heads
  <2>2. UNCHANGED <<token, life, inst, live, mail>>
    BY <1>2 DEF StartVmOn
  <2> QED
    BY <2>1, <2>2
<1>3. CASE CanStart(c)
  <2>1. agenda[c] # <<>> /\ Now(c).do = "can_start"
    BY <1>3, Heads
  <2>2. UNCHANGED <<token, life, inst, live, mail>>
    BY <1>3 DEF CanStart
  <2> QED
    BY <2>1, <2>2
<1>4. CASE CpuOn(c)
  <2>1. agenda[c] # <<>> /\ Now(c).do = "cpu_on"
    BY <1>4, Heads
  <2>2. UNCHANGED <<token, life, inst, live, mail>>
    BY <1>4 DEF CpuOn
  <2> QED
    BY <2>1, <2>2
<1>5. CASE BeginReserve(c)
  <2>1. agenda[c] # <<>> /\ Now(c).do = "begin_reserve"
    BY <1>5, Heads
  <2>2. UNCHANGED <<token, life, inst, live, mail>>
    BY <1>5 DEF BeginReserve
  <2> QED
    BY <2>1, <2>2
<1>6. CASE ReserveStart(c)
  <2>1. agenda[c] # <<>> /\ Now(c).do = "reserve_start"
    BY <1>6, Heads
  <2>2. UNCHANGED <<token, life, inst, live, mail>>
    BY <1>6 DEF ReserveStart
  <2> QED
    BY <2>1, <2>2
<1>7. CASE Recheck(c)
  <2>1. agenda[c] # <<>> /\ Now(c).do = "recheck"
    BY <1>7, Heads
  <2>2. UNCHANGED <<token, life, inst, live, mail>>
    BY <1>7 DEF Recheck
  <2> QED
    BY <2>1, <2>2
<1>8. CASE SendStart(c)
  <2>1. agenda[c] # <<>> /\ Now(c).do = "send_start"
    BY <1>8, Heads
  <2>2. UNCHANGED <<token, life, inst, live>>
    BY <1>8 DEF SendStart
  <2> QED
    BY <2>1, <2>2
<1>9. CASE CancelStart(c)
  <2>1. agenda[c] # <<>> /\ Now(c).do = "cancel_start"
    BY <1>9, Heads
  <2>2. UNCHANGED <<token, life, inst, live, mail>>
    BY <1>9 DEF CancelStart
  <2> QED
    BY <2>1, <2>2
<1>10. CASE EndTransition(c)
  <2>1. agenda[c] # <<>> /\ Now(c).do = "end_transition"
    BY <1>10, Heads
  <2>2. UNCHANGED <<token, life, inst, live, mail>>
    BY <1>10 DEF EndTransition
  <2> QED
    BY <2>1, <2>2
<1>11. CASE QueuedStart(c)
  <2>1. agenda[c] # <<>> /\ Now(c).do = "queued_start"
    BY <1>11, Heads
  <2>2. UNCHANGED <<token, life, inst, live, mail>>
    BY <1>11 DEF QueuedStart
  <2> QED
    BY <2>1, <2>2
<1>12. CASE CheckReserved(c)
  <2>1. agenda[c] # <<>> /\ Now(c).do \in {"prepare_start", "start_vcpu", "publish_start"}
    BY <1>12, Heads
  <2>2. UNCHANGED <<token, life, inst, live, mail>>
    BY <1>12 DEF CheckReserved
  <2> QED
    BY <2>1, <2>2
<1>13. CASE PrepareRest(c)
  <2>1. agenda[c] # <<>> /\ Now(c).do = "prepare_rest"
    BY <1>13, Heads
  <2>2. UNCHANGED <<token, life, live, mail>>
    BY <1>13 DEF PrepareRest
  <2> QED
    BY <2>1, <2>2
<1>14. CASE ResumeStart(c)
  <2>1. agenda[c] # <<>> /\ Now(c).do = "resume_start"
    BY <1>14, Heads
  <2>2. UNCHANGED <<token, life, live, mail>>
    BY <1>14 DEF ResumeStart
  <2> QED
    BY <2>1, <2>2
<1>15. CASE PublishAlone(c)
  <2>1. agenda[c] # <<>> /\ Now(c).do = "publish_alone"
    BY <1>15, Heads
  <2>2. UNCHANGED <<token, life, inst, live, mail>>
    BY <1>15 DEF PublishAlone
  <2> QED
    BY <2>1, <2>2
<1>16. CASE JoinVm(c)
  <2>1. agenda[c] # <<>> /\ Now(c).do = "join_vm"
    BY <1>16, Heads
  <2>2. UNCHANGED <<token, life, live, mail>>
    BY <1>16 DEF JoinVm
  <2> QED
    BY <2>1, <2>2
<1>17. CASE PublishOn(c)
  <2>1. agenda[c] # <<>> /\ Now(c).do = "publish_on"
    BY <1>17, Heads
  <2>2. UNCHANGED <<token, life, inst, mail>>
    BY <1>17 DEF PublishOn
  <2> QED
    BY <2>1, <2>2
<1>18. CASE AliveUp(c)
  <2>1. agenda[c] # <<>> /\ Now(c).do = "alive_up"
    BY <1>18, Heads
  <2>2. UNCHANGED <<token, life, inst, live, mail>>
    BY <1>18 DEF AliveUp
  <2> QED
    BY <2>1, <2>2
<1>19. CASE AliveDown(c)
  <2>1. agenda[c] # <<>> /\ Now(c).do = "alive_down"
    BY <1>19, Heads
  <2>2. UNCHANGED <<token, life, inst, live, mail>>
    BY <1>19 DEF AliveDown
  <2> QED
    BY <2>1, <2>2
<1>20. CASE RetireVcpu(c)
  <2>1. agenda[c] # <<>> /\ Now(c).do = "retire_vcpu"
    BY <1>20, Heads
  <2>2. UNCHANGED <<token, life, inst, mail>>
    BY <1>20 DEF RetireVcpu
  <2> QED
    BY <2>1, <2>2
<1>21. CASE CpuOffOn(c)
  <2>1. agenda[c] # <<>> /\ Now(c).do = "cpu_off_on"
    BY <1>21, Heads
  <2>2. UNCHANGED <<token, life, inst, live, mail>>
    BY <1>21 DEF CpuOffOn
  <2> QED
    BY <2>1, <2>2
<1>22. CASE ResetVm(c)
  <2>1. agenda[c] # <<>> /\ Now(c).do = "reset_vm"
    BY <1>22, Heads
  <2>2. UNCHANGED <<token, life, inst, live, mail>>
    BY <1>22 DEF ResetVm
  <2> QED
    BY <2>1, <2>2
<1>23. CASE StopVm(c)
  <2>1. agenda[c] # <<>> /\ Now(c).do = "stop_vm"
    BY <1>23, Heads
  <2>2. UNCHANGED <<token, life, inst, live, mail>>
    BY <1>23 DEF StopVm
  <2> QED
    BY <2>1, <2>2
<1>24. CASE Claim(c)
  <2>1. agenda[c] # <<>> /\ Now(c).do = "claim"
    BY <1>24, Heads
  <2>2. UNCHANGED <<life, inst, live, mail>>
    BY <1>24 DEF Claim
  <2> QED
    BY <2>1, <2>2
<1>25. CASE Claimed(c)
  <2>1. agenda[c] # <<>> /\ Now(c).do = "claimed"
    BY <1>25, Heads
  <2>2. UNCHANGED <<token, life, inst, live, mail>>
    BY <1>25 DEF Claimed
  <2> QED
    BY <2>1, <2>2
<1>26. CASE SendBegin(c)
  <2>1. agenda[c] # <<>> /\ Now(c).do = "send_begin"
    BY <1>26, Heads
  <2>2. UNCHANGED <<token, life, inst, live>>
    BY <1>26 DEF SendBegin
  <2> QED
    BY <2>1, <2>2
<1>27. CASE Release(c)
  <2>1. agenda[c] # <<>> /\ Now(c).do = "release"
    BY <1>27, Heads
  <2>2. UNCHANGED <<life, inst, live, mail>>
    BY <1>27 DEF Release
  <2> QED
    BY <2>1, <2>2
<1>28. CASE BeginLifecycle(c)
  <2>1. agenda[c] # <<>> /\ Now(c).do = "begin_lifecycle"
    BY <1>28, Heads
  <2>2. UNCHANGED <<live, mail>>
    BY <1>28 DEF BeginLifecycle
  <2> QED
    BY <2>1, <2>2
<1>29. CASE SendQuiesce(c)
  <2>1. agenda[c] # <<>> /\ Now(c).do = "send_quiesce"
    BY <1>29, Heads
  <2>2. UNCHANGED <<token, life, inst, live>>
    BY <1>29 DEF SendQuiesce
  <2> QED
    BY <2>1, <2>2
<1>30. CASE QuiesceLocal(c)
  <2>1. agenda[c] # <<>> /\ Now(c).do = "quiesce_local"
    BY <1>30, Heads
  <2>2. UNCHANGED <<token, life, inst, live, mail>>
    BY <1>30 DEF QuiesceLocal
  <2> QED
    BY <2>1, <2>2
<1>31. CASE QuiesceVcpu(c)
  <2>1. agenda[c] # <<>> /\ Now(c).do = "quiesce_vcpu"
    BY <1>31, Heads
  <2>2. UNCHANGED <<token, life, inst, live, mail>>
    BY <1>31 DEF QuiesceVcpu
  <2> QED
    BY <2>1, <2>2
<1>32. CASE SendAck(c)
  <2>1. agenda[c] # <<>> /\ Now(c).do = "send_ack"
    BY <1>32, Heads
  <2>2. UNCHANGED <<token, life, inst, live>>
    BY <1>32 DEF SendAck
  <2> QED
    BY <2>1, <2>2
<1>33. CASE Acknowledge(c)
  <2>1. agenda[c] # <<>> /\ Now(c).do = "acknowledge"
    BY <1>33, Heads
  <2>2. UNCHANGED <<token, inst, live, mail>>
    BY <1>33 DEF Acknowledge
  <2> QED
    BY <2>1, <2>2
<1>34. CASE FinishLifecycle(c)
  <2>1. agenda[c] # <<>> /\ Now(c).do = "finish_lifecycle"
    BY <1>34, Heads
  <2>2. UNCHANGED <<token, inst, live, mail>>
    BY <1>34 DEF FinishLifecycle
  <2> QED
    BY <2>1, <2>2
<1>35. CASE RestoreOn(c)
  <2>1. agenda[c] # <<>> /\ Now(c).do = "restore_on"
    BY <1>35, Heads
  <2>2. UNCHANGED <<token, life, inst, live, mail>>
    BY <1>35 DEF RestoreOn
  <2> QED
    BY <2>1, <2>2
<1>36. CASE Restore(c)
  <2>1. agenda[c] # <<>> /\ Now(c).do = "restore"
    BY <1>36, Heads
  <2>2. UNCHANGED <<token, life, live, mail>>
    BY <1>36 DEF Restore
  <2> QED
    BY <2>1, <2>2
<1>37. CASE ResumeReset(c)
  <2>1. agenda[c] # <<>> /\ Now(c).do = "resume_reset"
    BY <1>37, Heads
  <2>2. UNCHANGED <<token, life, live, mail>>
    BY <1>37 DEF ResumeReset
  <2> QED
    BY <2>1, <2>2
<1>38. CASE RepublishOn(c)
  <2>1. agenda[c] # <<>> /\ Now(c).do = "republish_on"
    BY <1>38, Heads
  <2>2. UNCHANGED <<token, life, inst, live, mail>>
    BY <1>38 DEF RepublishOn
  <2> QED
    BY <2>1, <2>2
<1>39. CASE Republish(c)
  <2>1. agenda[c] # <<>> /\ Now(c).do = "republish"
    BY <1>39, Heads
  <2>2. UNCHANGED <<token, life, inst, mail>>
    BY <1>39 DEF Republish
  <2> QED
    BY <2>1, <2>2
<1>40. CASE Finish(c)
  <2>1. agenda[c] # <<>> /\ Now(c).do = "finish"
    BY <1>40, Heads
  <2>2. UNCHANGED <<inst, live, mail>>
    BY <1>40 DEF Finish
  <2> QED
    BY <2>1, <2>2
<1>41. CASE DmaBegin(c)
  <2>1. agenda[c] # <<>> /\ Now(c).do = "dma_begin"
    BY <1>41, Heads
  <2>2. UNCHANGED <<token, life, live, mail>>
    BY <1>41 DEF DmaBegin
  <2> QED
    BY <2>1, <2>2
<1>42. CASE Retry(c)
  <2>1. agenda[c] # <<>> /\ Now(c).do = "retry"
    BY <1>42, Heads
  <2>2. UNCHANGED <<token, life, inst, live>>
    BY <1>42 DEF Retry
  <2> QED
    BY <2>1, <2>2
<1>43. CASE Rearm(c)
  <2>1. agenda[c] # <<>> /\ Now(c).do = "rearm"
    BY <1>43, Heads
  <2>2. UNCHANGED <<token, inst, live, mail>>
    BY <1>43 DEF Rearm
  <2> QED
    BY <2>1, <2>2
<1>44. CASE Isolate(c)
  <2>1. agenda[c] # <<>> /\ Now(c).do = "isolate"
    BY <1>44, Heads
  <2>2. UNCHANGED <<token, life, inst, live, mail>>
    BY <1>44 DEF Isolate
  <2> QED
    BY <2>1, <2>2
<1>45. CASE Isolated(c)
  <2>1. agenda[c] # <<>> /\ Now(c).do = "isolated"
    BY <1>45, Heads
  <2>2. UNCHANGED <<token, inst, live, mail>>
    BY <1>45 DEF Isolated
  <2> QED
    BY <2>1, <2>2
<1>46. CASE PostVirq(c)
  <2>1. agenda[c] # <<>> /\ Now(c).do = "post_virq"
    BY <1>46, Heads
  <2>2. UNCHANGED <<token, life, inst, live, mail>>
    BY <1>46 DEF PostVirq
  <2> QED
    BY <2>1, <2>2
<1>47. CASE RecoverDmaFault(c)
  <2>1. agenda[c] # <<>> /\ Now(c).do = "recover_dma_fault"
    BY <1>47, Heads
  <2>2. UNCHANGED <<token, life, inst, live, mail>>
    BY <1>47 DEF RecoverDmaFault
  <2> QED
    BY <2>1, <2>2
<1>48. CASE HaltTransitions(c)
  <2>1. agenda[c] # <<>> /\ Now(c).do = "halt_transitions"
    BY <1>48, Heads
  <2>2. UNCHANGED <<token, life, inst, live, mail>>
    BY <1>48 DEF HaltTransitions
  <2> QED
    BY <2>1, <2>2
<1> QED
  BY <1>1, <1>2, <1>3, <1>4, <1>5, <1>6, <1>7, <1>8, <1>9, <1>10, <1>11, <1>12, <1>13, <1>14,
     <1>15, <1>16, <1>17, <1>18, <1>19, <1>20, <1>21, <1>22, <1>23, <1>24, <1>25, <1>26, <1>27,
     <1>28, <1>29, <1>30, <1>31, <1>32, <1>33, <1>34, <1>35, <1>36, <1>37, <1>38, <1>39, <1>40,
     <1>41, <1>42, <1>43, <1>44, <1>45, <1>46, <1>47, <1>48
  DEF Execute


\* What a step that replaces the head of an agenda makes of its entries.
LEMMA ThenEntries ==
  ASSUME TypeOK, NEW c \in Cores, agenda[c] # <<>>, NEW is \in Seq(Instr), Then(c, is)
  PROVE  /\ \A d \in Cores \ {c} : agenda'[d] = agenda[d]
         /\ Len(is) \in Nat /\ Len(agenda[c]) \in Nat /\ Len(agenda'[c]) = Len(is) + Len(agenda[c]) - 1
         /\ \A k \in 1..Len(is) : k \in DOMAIN agenda'[c] /\ agenda'[c][k] = is[k]
         /\ \A k \in DOMAIN agenda'[c] : k > Len(is) =>
              k + 1 - Len(is) \in DOMAIN agenda[c] /\ agenda'[c][k] = agenda[c][k + 1 - Len(is)]
         /\ \A j \in DOMAIN agenda[c] : j > 1 =>
              j + Len(is) - 1 \in DOMAIN agenda'[c] /\ agenda'[c][j + Len(is) - 1] = agenda[c][j]
<1> DEFINE rest == Tail(agenda[c])
<1>1. agenda \in [Cores -> Seq(Instr)] /\ agenda[c] \in Seq(Instr)
  BY DEF TypeOK
<1>2. agenda'[c] = is \o rest /\ \A d \in Cores \ {c} : agenda'[d] = agenda[d]
  BY <1>1 DEF Then
<1>3. /\ rest \in Seq(Instr) /\ Len(agenda[c]) \in Nat /\ Len(agenda[c]) > 0 /\ Len(rest) = Len(agenda[c]) - 1
      /\ DOMAIN agenda[c] = 1..Len(agenda[c]) /\ \A j \in 1..Len(rest) : rest[j] = agenda[c][j + 1]
  BY <1>1, HeadTailProperties, LenProperties, EmptySeq
<1> HIDE DEF rest
<1>7. /\ is \o rest \in Seq(Instr) /\ Len(is \o rest) = Len(is) + Len(rest)
      /\ \A k \in 1..(Len(is) + Len(rest)) : (is \o rest)[k] = IF k <= Len(is) THEN is[k] ELSE rest[k - Len(is)]
  BY <1>3, ConcatProperties
<1>8. Len(is) \in Nat /\ DOMAIN (is \o rest) = 1..Len(is \o rest)
  BY <1>7, LenProperties
<1>4. /\ is \o rest \in Seq(Instr) /\ Len(is) \in Nat /\ Len(is \o rest) = Len(is) + Len(rest)
      /\ DOMAIN (is \o rest) = 1..(Len(is) + Len(rest))
      /\ \A k \in 1..(Len(is) + Len(rest)) : (is \o rest)[k] = IF k <= Len(is) THEN is[k] ELSE rest[k - Len(is)]
  BY <1>7, <1>8
<1>5. ASSUME NEW k \in DOMAIN agenda'[c], k > Len(is)
      PROVE  k + 1 - Len(is) \in DOMAIN agenda[c] /\ agenda'[c][k] = agenda[c][k + 1 - Len(is)]
  <2>0. k \in Nat /\ k \in 1..(Len(is) + Len(rest)) /\ Len(rest) \in Nat
    BY <1>2, <1>3, <1>4, <1>5
  <2>1. k - Len(is) \in 1..Len(rest) /\ agenda'[c][k] = rest[k - Len(is)]
    BY <1>2, <1>3, <1>4, <1>5, <2>0
  <2>2. k - Len(is) + 1 = k + 1 - Len(is) /\ k + 1 - Len(is) \in 1..Len(agenda[c])
    BY <1>3, <1>4, <1>5, <2>0
  <2> QED
    BY <1>3, <2>1, <2>2
<1>6. ASSUME NEW j \in DOMAIN agenda[c], j > 1
      PROVE  j + Len(is) - 1 \in DOMAIN agenda'[c] /\ agenda'[c][j + Len(is) - 1] = agenda[c][j]
  <2>1. j - 1 \in 1..Len(rest) /\ rest[j - 1] = agenda[c][j - 1 + 1] /\ j - 1 + 1 = j
    BY <1>3, <1>6
  <2>2. /\ j + Len(is) - 1 \in 1..(Len(is) + Len(rest)) /\ ~(j + Len(is) - 1 <= Len(is))
        /\ (j + Len(is) - 1) - Len(is) = j - 1
    BY <1>3, <1>4, <1>6
  <2>3. (is \o rest)[j + Len(is) - 1] = rest[j - 1]
    BY <1>4, <2>2
  <2> QED
    BY <1>2, <1>4, <2>1, <2>2, <2>3
<1>9. /\ Len(agenda[c]) \in Nat /\ Len(agenda'[c]) = Len(is) + Len(agenda[c]) - 1
      /\ Len(rest) = Len(agenda[c]) - 1 /\ Len(rest) \in Nat
  <2>1. Len(agenda'[c]) = Len(is) + Len(rest)
    BY <1>2, <1>4
  <2> QED
    BY <1>3, <1>8, <2>1
<1>10. ASSUME NEW k \in 1..Len(is)
       PROVE  k \in DOMAIN agenda'[c] /\ agenda'[c][k] = is[k]
  <2>1. k \in 1..(Len(is) + Len(rest)) /\ k <= Len(is)
    BY <1>8, <1>9, <1>10
  <2> QED
    BY <1>2, <1>4, <2>1
<1> QED
  BY <1>2, <1>5, <1>6, <1>8, <1>9, <1>10

LEMMA OnSlotFacts ==
  ASSUME TypeOK, Placement, NEW c \in Cores, agenda[c] # <<>>, NEW what \in Steps, NEW op \in Ops
  PROVE  LET m == Do(what, Now(c).s, op, 0)
         IN m \in Instr /\ m.do = what /\ m.s = Now(c).s /\ m.op = op
BY HeadFacts, DoFields, TokenTypes

\* What the messages a core sends are.
LEMMA Sending ==
  ASSUME TypeOK, Placement, NEW c \in Cores, Execute(c), mail' # mail
  PROVE  \E d \in Cores : \E m : Post(d, m) /\ Sent(c, d, m)
<1>1. Now(c).do \in MailWrites
  BY Frames
<1>2. CASE SendStart(c)
  <2>1. agenda[c] # <<>> /\ Now(c).do = "send_start"
    BY <1>2, Heads
  <2> DEFINE d == SlotCpu[Now(c).s]
             op == IF Now(c).op = "StartVm" THEN "QueuedStart" ELSE "QueuedCpuOn"
             m == Do("queued_start", Now(c).s, op, 0)
  <2>2. op \in Ops /\ op # "StartVm" /\ (op = "QueuedStart" => Now(c).op = "StartVm")
    BY DEF Ops
  <2>3. Placed(c, Now(c)) /\ Now(c).s \in Slots
    BY <2>1, HeadFacts
  <2>5. Post(d, m)
    BY <1>2 DEF SendStart
  <2>4. m \in Instr /\ m.do = "queued_start" /\ m.s = Now(c).s /\ m.op = op
    BY <2>1, <2>2, OnSlotFacts, Names
  <2>6. d \in Cores
    BY <2>3, SlotTypes
  <2> HIDE DEF m, op
  <2>7. Sent(c, d, m)
    BY <2>1, <2>2, <2>3, <2>4 DEF Sent, Placed, OwnerSteps, SlotSteps, ReserveSteps, CarrySteps, EpochSteps, AnswerSteps,
        RestoreSteps, StartSteps, ColdSteps, MailSteps
  <2> QED
    BY <2>5, <2>6, <2>7
<1>3. CASE SendBegin(c)
  <2>1. agenda[c] # <<>> /\ Now(c).do = "send_begin"
    BY <1>3, Heads
  <2> DEFINE d == Owner(Now(c).s[1])
             op == IF Now(c).op = "Stop" THEN "Stop" ELSE "Reset"
             m == Do("begin_lifecycle", Now(c).s, op, 0)
  <2>2. op \in Ops /\ op \in {"Stop", "Reset"}
    BY DEF Ops
  <2>3. Placed(c, Now(c)) /\ Now(c).s \in Slots
    BY <2>1, HeadFacts
  <2>5. Post(d, m)
    BY <1>3 DEF SendBegin
  <2>4. m \in Instr /\ m.do = "begin_lifecycle" /\ m.s = Now(c).s /\ m.op = op
    BY <2>1, <2>2, OnSlotFacts, Names
  <2>6. d \in Cores
    BY <2>3, SlotTypes, OwnerType
  <2> HIDE DEF m, op
  <2>7. Sent(c, d, m)
    BY <2>1, <2>2, <2>3, <2>4 DEF Sent, Placed, OwnerSteps, SlotSteps, ReserveSteps, CarrySteps, EpochSteps, AnswerSteps,
        RestoreSteps, StartSteps, ColdSteps, MailSteps
  <2> QED
    BY <2>5, <2>6, <2>7
<1>4. CASE SendQuiesce(c)
  <2>1. agenda[c] # <<>> /\ Now(c).do = "send_quiesce"
    BY <1>4, Heads
  <2> DEFINE d == SlotCpu[Now(c).s]
             m == Turned(c, "quiesce_vcpu")
  <2>3. Placed(c, Now(c)) /\ Now(c).s \in Slots
    BY <2>1, HeadFacts
  <2>4. m \in Instr /\ m.do = "quiesce_vcpu" /\ m.s = Now(c).s /\ m.e = Now(c).e
    BY <2>1, TurnedFacts, Names
  <2>5. Post(d, m)
    BY <1>4 DEF SendQuiesce, Turned
  <2>6. d \in Cores
    BY <2>3, SlotTypes
  <2> HIDE DEF m
  <2>7. Sent(c, d, m)
    BY <2>1, <2>3, <2>4 DEF Sent, Placed, OwnerSteps, SlotSteps, ReserveSteps, CarrySteps, EpochSteps, AnswerSteps,
        RestoreSteps, StartSteps, ColdSteps, MailSteps
  <2> QED
    BY <2>5, <2>6, <2>7
<1>5. CASE SendAck(c)
  <2>1. agenda[c] # <<>> /\ Now(c).do = "send_ack"
    BY <1>5, Heads
  <2> DEFINE d == Owner(Now(c).s[1])
             m == Turned(c, "acknowledge")
  <2>3. Placed(c, Now(c)) /\ Now(c).s \in Slots
    BY <2>1, HeadFacts
  <2>4. m \in Instr /\ m.do = "acknowledge" /\ m.s = Now(c).s /\ m.e = Now(c).e
    BY <2>1, TurnedFacts, Names
  <2>5. Post(d, m)
    BY <1>5 DEF SendAck, Turned
  <2>6. d \in Cores
    BY <2>3, SlotTypes, OwnerType
  <2> HIDE DEF m
  <2>7. Sent(c, d, m)
    BY <2>1, <2>3, <2>4 DEF Sent, Placed, OwnerSteps, SlotSteps, ReserveSteps, CarrySteps, EpochSteps, AnswerSteps,
        RestoreSteps, StartSteps, ColdSteps, MailSteps
  <2> QED
    BY <2>5, <2>6, <2>7
<1>6. CASE Retry(c)
  <2>1. agenda[c] # <<>> /\ Now(c).do = "retry"
    BY <1>6, Heads
  <2> DEFINE d == SlotCpu[Now(c).s]
             m == Turned(c, "quiesce_vcpu")
  <2>3. Placed(c, Now(c)) /\ Now(c).s \in Slots
    BY <2>1, HeadFacts
  <2>4. m \in Instr /\ m.do = "quiesce_vcpu" /\ m.s = Now(c).s /\ m.e = Now(c).e
    BY <2>1, TurnedFacts, Names
  <2>5. Post(d, m)
    BY <1>6 DEF Retry, Turned
  <2>6. d \in Cores
    BY <2>3, SlotTypes
  <2> HIDE DEF m
  <2>7. Sent(c, d, m)
    BY <2>1, <2>3, <2>4 DEF Sent, Placed, OwnerSteps, SlotSteps, ReserveSteps, CarrySteps, EpochSteps, AnswerSteps,
        RestoreSteps, StartSteps, ColdSteps, MailSteps
  <2> QED
    BY <2>5, <2>6, <2>7
<1> QED
  BY <1>1, <1>2, <1>3, <1>4, <1>5, <1>6, Heads DEF Execute, MailWrites

\* What a core that is inside no function may begin with.
BegunSteps == {"start_vm", "cpu_on", "retire_vcpu", "cpu_off_on", "reset_vm", "stop_vm", "isolate",
               "retry", "finish_lifecycle", "recover_dma_fault", "halt_transitions"}
Begins(c, k, i) ==
  /\ i \in Instr /\ i.do \in BegunSteps /\ Placed(c, i)
  /\ k > 1 => i.do \in TailSteps
  /\ i.do = "retry" => i.e = life[i.s[1]].epoch
Taken(c, is) == is \in Seq(Instr) /\ \A k \in 1..Len(is) : Begins(c, k, is[k])

LEMMA TakenOne ==
  ASSUME NEW c, NEW i \in Instr, i.do \in BegunSteps, Placed(c, i),
         i.do = "retry" => i.e = life[i.s[1]].epoch
  PROVE  Taken(c, <<i>>)
BY DEF Taken, Begins

\* A request needs no more than a place that suits it.
LEMMA BeginFacts ==
  ASSUME NEW c, NEW what \in BegunSteps, NEW s \in Slots, NEW op \in Ops \ {"StartVm", "QueuedStart"},
         NEW e \in Token, what \in OwnerSteps => Owner(s[1]) = c, what = "finish_lifecycle" => s[2] = 0
  PROVE  /\ Do(what, s, op, e) \in Instr /\ Do(what, s, op, e).do = what /\ Do(what, s, op, e).s = s
         /\ Do(what, s, op, e).e = e /\ Placed(c, Do(what, s, op, e))
<1>1. BegunSteps \subseteq Steps
  BY DEF BegunSteps, Steps
<1>2. /\ Do(what, s, op, e) \in Instr /\ Do(what, s, op, e).do = what /\ Do(what, s, op, e).s = s
      /\ Do(what, s, op, e).op = op /\ Do(what, s, op, e).e = e
  BY <1>1, DoFields
<1>3. /\ what \notin SlotSteps /\ what \notin ColdSteps
      /\ what \in {"claim", "claimed", "send_begin", "begin_lifecycle", "finish_lifecycle"} => what = "finish_lifecycle"
  BY DEF BegunSteps, SlotSteps, StartSteps, ColdSteps
<1> QED
  BY <1>2, <1>3 DEF Placed

LEMMA BeginOne ==
  ASSUME NEW c, NEW what \in BegunSteps, NEW s \in Slots, NEW op \in Ops \ {"StartVm", "QueuedStart"},
         NEW e \in Token, what \in OwnerSteps => Owner(s[1]) = c, what = "finish_lifecycle" => s[2] = 0,
         what = "retry" => e = life[s[1]].epoch
  PROVE  Taken(c, <<Do(what, s, op, e)>>)
<1>1. /\ Do(what, s, op, e) \in Instr /\ Do(what, s, op, e).do = what /\ Do(what, s, op, e).s = s
      /\ Do(what, s, op, e).e = e /\ Placed(c, Do(what, s, op, e))
  BY BeginFacts
<1> QED
  BY <1>1, TakenOne

LEMMA OpNames ==
  /\ "None" \in Ops \ {"StartVm", "QueuedStart"} /\ "CpuOn" \in Ops \ {"StartVm", "QueuedStart"}
  /\ "Stop" \in Ops \ {"StartVm", "QueuedStart"} /\ "Reset" \in Ops \ {"StartVm", "QueuedStart"}
  /\ "Fault" \in Ops \ {"StartVm", "QueuedStart"} /\ "StartVm" \in Ops
BY DEF Ops

LEMMA Outside ==
  ASSUME TypeOK, EpochsAgree, NEW c \in Cores, Interrupt(c) \/ Request(c)
  PROVE  /\ agenda[c] = <<>>
         /\ \/ agenda' = agenda
            \/ \E is : Enter(c, is) /\ Taken(c, is)
            \/ DrainMail(c)
         /\ \/ mail' = mail
            \/ DrainMail(c)
            \/ \E d \in Cores : \E m : Post(d, m) /\ m \in Instr /\ m.do \in {"post_virq", "recover_dma_fault"}
         /\ token' = token /\ live' = live
         /\ life' = life \/ (\E vm \in Vms : LifecycleTimeout(c, vm) \/ DmaDrain(c, vm))
         /\ inst' = inst \/ (\E vm \in Vms : DmaDrain(c, vm) \/ DmaFault(c, vm))
<1> DEFINE quiet == token' = token /\ live' = live
           posted == \E d \in Cores : \E m : Post(d, m) /\ m \in Instr /\ m.do \in {"post_virq", "recover_dma_fault"}
           entered == agenda[c] = <<>> /\ \E is : Enter(c, is) /\ Taken(c, is)
<1>0. 0 \in Token /\ Nat \subseteq Token
  BY TokenTypes
<1>18. agenda[c] = <<>>
  BY DEF Interrupt, Request, DrainMail, LifecycleTimeout, DmaDrain, CallStartVm, CallReset, CallStop, DmaFault,
         CallCpuOn, CallPostVirq, Dispatch, CallCpuOff, IdleCheck, Resting
<1>1. CASE DrainMail(c)
  BY <1>1, <1>18 DEF DrainMail
<1>2. ASSUME NEW vm \in Vms, LifecycleTimeout(c, vm)
      PROVE  quiet /\ inst' = inst /\ mail' = mail /\ (agenda' = agenda \/ entered)
  <2>1. quiet /\ inst' = inst /\ mail' = mail /\ Owner(vm) = c /\ agenda[c] = <<>>
    BY <1>2 DEF LifecycleTimeout, Resting
  <2>2. CASE UNCHANGED agenda
    BY <2>1, <2>2
  <2>3. CASE Enter(c, <<Do("isolate", Boot(vm), "None", 0)>>)
    <3>1. Taken(c, <<Do("isolate", Boot(vm), "None", 0)>>)
      <4>1. "isolate" \in BegunSteps /\ "isolate" # "retry"
        BY DEF BegunSteps
      <4> QED
        BY <1>0, <2>1, <4>1, OwnerType, BeginOne, OpNames
    <3> QED
      BY <2>1, <2>3, <3>1
  <2>4. CASE token[vm] = life[vm].epoch /\ Enter(c, <<Do("retry", Boot(vm), "None", token[vm])>>)
    <3>1. Taken(c, <<Do("retry", Boot(vm), "None", token[vm])>>)
      <4>1. "retry" \in BegunSteps /\ token[vm] \in Token
        BY DEF BegunSteps, TypeOK
      <4> QED
        BY <2>1, <2>4, <4>1, OwnerType, BeginOne, OpNames
    <3> QED
      BY <2>1, <2>4, <3>1
  <2> QED
    BY <1>2, <2>2, <2>3, <2>4 DEF LifecycleTimeout
<1>3. ASSUME NEW vm \in Vms, DmaDrain(c, vm)
      PROVE  quiet /\ mail' = mail /\ (agenda' = agenda \/ entered)
  <2>1. quiet /\ mail' = mail /\ Owner(vm) = c /\ agenda[c] = <<>>
    BY <1>3 DEF DmaDrain, Resting
  <2>2. CASE UNCHANGED agenda
    BY <2>1, <2>2
  <2>3. CASE Enter(c, <<Do("finish_lifecycle", Boot(vm), "None", 0)>>)
    <3>1. Taken(c, <<Do("finish_lifecycle", Boot(vm), "None", 0)>>)
      <4>1. "finish_lifecycle" \in BegunSteps /\ "finish_lifecycle" # "retry" /\ Boot(vm)[2] = 0
        BY DEF BegunSteps, Boot
      <4> QED
        BY <1>0, <2>1, <4>1, OwnerType, BeginOne, OpNames
    <3> QED
      BY <2>1, <2>3, <3>1
  <2> QED
    BY <1>3, <2>2, <2>3 DEF DmaDrain
<1>4. ASSUME NEW vm \in Vms, CallStartVm(c, vm) \/ CallReset(c, vm) \/ CallStop(c, vm)
      PROVE  quiet /\ inst' = inst /\ life' = life /\ mail' = mail /\ entered
  <2>1. quiet /\ inst' = inst /\ life' = life /\ mail' = mail /\ agenda[c] = <<>>
    BY <1>4 DEF CallStartVm, CallReset, CallStop, Resting
  <2>2. \E what \in {"start_vm", "reset_vm", "stop_vm"}, op \in {"StartVm", "Reset", "Fault", "Stop"} :
          Enter(c, <<Do(what, Boot(vm), op, 0)>>)
    BY <1>4 DEF CallStartVm, CallReset, CallStop
  <2>3. PICK what \in {"start_vm", "reset_vm", "stop_vm"}, op \in {"StartVm", "Reset", "Fault", "Stop"} :
          Enter(c, <<Do(what, Boot(vm), op, 0)>>)
    BY <2>2
  <2>4. what \in BegunSteps /\ what \in Steps /\ what # "retry" /\ op \in Ops
    BY OpNames DEF BegunSteps, Steps
  <2>5. Boot(vm) \in Slots
    BY OwnerType
  <2>6. Do(what, Boot(vm), op, 0) \in Instr /\ Do(what, Boot(vm), op, 0).do = what
    BY <1>0, <2>4, <2>5, DoFields
  <2>7. Placed(c, Do(what, Boot(vm), op, 0))
    <3>1. what \notin OwnerSteps /\ what \notin SlotSteps /\ what \notin ColdSteps /\ what \notin ReserveSteps
      BY DEF OwnerSteps, SlotSteps, StartSteps, ColdSteps, ReserveSteps
    <3> QED
      BY <2>6, <3>1 DEF Placed
  <2> QED
    BY <2>1, <2>3, <2>4, <2>6, <2>7, TakenOne
<1>5. ASSUME NEW vm \in Vms, DmaFault(c, vm)
      PROVE  quiet /\ life' = life /\ ((agenda' = agenda /\ (mail' = mail \/ posted)) \/ (entered /\ mail' = mail))
  <2> DEFINE m == Do("recover_dma_fault", Boot(vm), "Reset", inst[vm].dmaGen)
  <2>1. /\ quiet /\ life' = life /\ agenda[c] = <<>>
        /\ \/ Enter(c, <<m>>) /\ mail' = mail
           \/ agenda' = agenda /\ (mail' = mail \/ Post(Owner(vm), m))
    BY <1>5 DEF DmaFault, Resting
  <2>2. inst[vm].dmaGen \in Token /\ "recover_dma_fault" \in BegunSteps /\ "recover_dma_fault" # "retry"
        /\ "recover_dma_fault" \notin OwnerSteps
    BY <1>0, InstanceFields DEF TypeOK, BegunSteps, OwnerSteps
  <2>7. Boot(vm) \in Slots /\ "recover_dma_fault" \in Steps /\ "Reset" \in Ops
    BY OwnerType, OpNames DEF Steps
  <2>8. m \in Instr /\ m.do = "recover_dma_fault"
    BY <2>2, <2>7, DoFields
  <2>9. /\ "recover_dma_fault" \notin SlotSteps /\ "recover_dma_fault" \notin ColdSteps
        /\ "recover_dma_fault" \notin ReserveSteps
    BY DEF SlotSteps, StartSteps, ColdSteps, ReserveSteps
  <2>3. m \in Instr /\ m.do = "recover_dma_fault" /\ Placed(c, m)
    BY <2>2, <2>8, <2>9 DEF Placed
  <2> HIDE DEF m
  <2>4. Taken(c, <<m>>)
    BY <2>2, <2>3, TakenOne
  <2>5. Post(Owner(vm), m) => posted
    BY <2>3, OwnerType
  <2> QED
    BY <2>1, <2>4, <2>5
<1>6. ASSUME NEW s \in Slots, CallCpuOn(c, s)
      PROVE  quiet /\ inst' = inst /\ life' = life /\ mail' = mail /\ entered
  <2>1. quiet /\ inst' = inst /\ life' = life /\ mail' = mail /\ agenda[c] = <<>>
        /\ Enter(c, <<Do("cpu_on", s, "CpuOn", 0)>>)
    BY <1>6 DEF CallCpuOn, Resting
  <2>2. "cpu_on" \in BegunSteps /\ "cpu_on" # "retry" /\ "cpu_on" \notin OwnerSteps
    BY DEF BegunSteps, OwnerSteps
  <2>3. Taken(c, <<Do("cpu_on", s, "CpuOn", 0)>>)
    BY <1>0, <2>2, BeginOne, OpNames
  <2> QED
    BY <2>1, <2>3
<1>7. ASSUME NEW s \in Slots, CallPostVirq(c, s)
      PROVE  quiet /\ inst' = inst /\ life' = life /\ agenda' = agenda /\ posted
  <2>1. quiet /\ inst' = inst /\ life' = life /\ agenda' = agenda /\ Post(SlotCpu[s], Do("post_virq", s, "None", 0))
    BY <1>7 DEF CallPostVirq
  <2>2. Do("post_virq", s, "None", 0) \in Instr /\ Do("post_virq", s, "None", 0).do = "post_virq"
    BY DoNone, Names
  <2> QED
    BY <2>1, <2>2, SlotTypes
<1>8. ASSUME NEW s \in Slots, Dispatch(c, s)
      PROVE  quiet /\ UNCHANGED <<life, inst, mail, agenda>>
  BY <1>8 DEF Dispatch
<1>9. CASE CallCpuOff(c)
  <2> DEFINE a == Do("retire_vcpu", current[c], "None", 0)
             b == Do("cpu_off_on", Boot(current[c][1]), "Stop", 0)
  <2>1. quiet /\ UNCHANGED <<life, inst, mail>> /\ agenda[c] = <<>> /\ current[c] # None /\ Enter(c, <<a, b>>)
    BY <1>9 DEF CallCpuOff, Resting
  <2>2. current[c] \in Slots /\ Boot(current[c][1]) \in Slots
    BY <2>1, SlotTypes DEF TypeOK
  <2>3. /\ "retire_vcpu" \in BegunSteps /\ "cpu_off_on" \in BegunSteps \cap TailSteps
        /\ "retire_vcpu" \notin OwnerSteps /\ "cpu_off_on" \notin OwnerSteps
        /\ "retire_vcpu" # "retry" /\ "cpu_off_on" # "retry"
        /\ "retire_vcpu" # "finish_lifecycle" /\ "cpu_off_on" # "finish_lifecycle"
    BY DEF BegunSteps, TailSteps, OwnerSteps
  <2>4. a \in Instr /\ a.do = "retire_vcpu" /\ Placed(c, a)
    BY <1>0, <2>2, <2>3, BeginFacts, OpNames
  <2>5. b \in Instr /\ b.do = "cpu_off_on" /\ Placed(c, b)
    <3>1. ASSUME NEW s \in Slots
          PROVE  LET i == Do("cpu_off_on", s, "Stop", 0) IN i \in Instr /\ i.do = "cpu_off_on" /\ Placed(c, i)
      <4>1. 0 \in Token /\ "Stop" \in Ops \ {"StartVm", "QueuedStart"}
        BY <1>0, OpNames
      <4>2. "cpu_off_on" \in BegunSteps /\ "cpu_off_on" \notin OwnerSteps /\ "cpu_off_on" # "finish_lifecycle"
        BY <2>3
      <4> QED
        BY <4>1, <4>2, BeginFacts
    <3> QED
      BY <2>2, <3>1
  <2> HIDE DEF a, b
  <2>6. Taken(c, <<a, b>>)
    BY <2>3, <2>4, <2>5 DEF Taken, Begins
  <2> QED
    BY <2>1, <2>6
<1>10. CASE IdleCheck(c)
  <2>1. quiet /\ UNCHANGED <<life, inst, mail>> /\ agenda[c] = <<>>
        /\ Enter(c, <<Do("halt_transitions", Boot(BootVm), "None", 0)>>)
    BY <1>10 DEF IdleCheck, Resting
  <2>2. Boot(BootVm) \in Slots
    BY OwnerType, ConfigAssumption
  <2>3. "halt_transitions" \in BegunSteps /\ "halt_transitions" \notin OwnerSteps /\ "halt_transitions" # "retry"
    BY DEF BegunSteps, OwnerSteps
  <2>4. Taken(c, <<Do("halt_transitions", Boot(BootVm), "None", 0)>>)
    BY <1>0, <2>2, <2>3, BeginOne, OpNames
  <2> QED
    BY <2>1, <2>4
<1> HIDE DEF quiet, posted, entered
<1>11. quiet => token' = token /\ live' = live
  BY DEF quiet
<1>12. /\ (entered => agenda[c] = <<>> /\ \E is : Enter(c, is) /\ Taken(c, is))
       /\ (posted => \E d \in Cores : \E m : Post(d, m) /\ m \in Instr /\ m.do \in {"post_virq", "recover_dma_fault"})
  BY DEF posted, entered
<1> USE <1>18
<1>13. CASE \E vm \in Vms : LifecycleTimeout(c, vm)
  BY <1>2, <1>11, <1>12, <1>13 DEF LifecycleTimeout
<1>14. CASE \E vm \in Vms : DmaDrain(c, vm)
  BY <1>3, <1>11, <1>12, <1>14
<1>15. CASE \E vm \in Vms : CallStartVm(c, vm) \/ CallReset(c, vm) \/ CallStop(c, vm)
  BY <1>4, <1>11, <1>12, <1>15
<1>16. CASE \E vm \in Vms : DmaFault(c, vm)
  BY <1>5, <1>11, <1>12, <1>16
<1>17. CASE \E s \in Slots : CallCpuOn(c, s) \/ CallPostVirq(c, s) \/ Dispatch(c, s)
  BY <1>6, <1>7, <1>8, <1>11, <1>12, <1>17
<1> QED
  BY <1>1, <1>9, <1>10, <1>11, <1>12, <1>13, <1>14, <1>15, <1>16, <1>17, <1>18 DEF Interrupt, Request

\* A step of one core.
Acts(c) == Execute(c) \/ Interrupt(c) \/ Request(c)

\* The entry at place k was further back, behind the instruction executed.
Advanced(c, k) ==
  \E j \in DOMAIN agenda[c] :
    /\ j > 1 /\ k >= j - 1 /\ agenda'[c][k] = agenda[c][j]
    /\ Now(c).do \in {"alive_up", "dma_begin"} => k = j - 1

\* Where every entry of every agenda comes from.
LEMMA Origins ==
  ASSUME TypeOK, Placement, EpochsAgree, NEW c \in Cores, Acts(c)
  PROVE  \A d \in Cores : \A k \in DOMAIN agenda'[d] :
           \/ d # c /\ agenda'[d] = agenda[d]
           \/ d = c /\ Execute(c) /\ (Advanced(c, k) \/ Left(c, agenda'[c][1], k, agenda'[c][k]))
           \/ /\ d = c /\ agenda[c] = <<>>
              /\ \/ Begins(c, k, agenda'[c][k])
                 \/ k \in DOMAIN mail[c] /\ agenda'[c][k] = mail[c][k]
<1>0. agenda \in [Cores -> Seq(Instr)] /\ mail \in [Cores -> Seq(Instr)]
  BY DEF TypeOK
<1>1. CASE Execute(c)
  <2>1. agenda[c] # <<>>
    BY <1>1, Frames
  <2>2. PICK is : Then(c, is) /\ Fits(c, is)
    BY <1>1, Emission
  <2>3. is \in Seq(Instr) /\ \A k \in 1..Len(is) : Left(c, is[1], k, is[k])
    BY <2>2 DEF Fits
  <2>4. /\ \A d \in Cores \ {c} : agenda'[d] = agenda[d]
        /\ Len(is) \in Nat /\ Len(agenda[c]) \in Nat /\ Len(agenda'[c]) = Len(is) + Len(agenda[c]) - 1
        /\ \A k \in 1..Len(is) : k \in DOMAIN agenda'[c] /\ agenda'[c][k] = is[k]
        /\ \A k \in DOMAIN agenda'[c] : k > Len(is) =>
             k + 1 - Len(is) \in DOMAIN agenda[c] /\ agenda'[c][k] = agenda[c][k + 1 - Len(is)]
    BY <2>1, <2>2, <2>3, ThenEntries
  <2>5. ASSUME Now(c).do \in {"alive_up", "dma_begin"} PROVE Len(is) = 0
    <3>1. Then(c, <<>>)
      BY <1>1, <2>5, Heads DEF Execute, AliveUp, DmaBegin
    <3>2. <<>> \in Seq(Instr) /\ Len(<<>>) = 0
      BY EmptySeq
    <3>3. Len(agenda'[c]) = Len(agenda[c]) - 1
      <4>1. \A e \in Seq(Instr) : Then(c, e) => Len(agenda'[c]) = Len(e) + Len(agenda[c]) - 1
        BY <2>1, ThenEntries
      <4>2. \E e \in Seq(Instr) : Then(c, e) /\ Len(e) = 0
        BY <3>1, <3>2, Zenon
      <4>3. PICK e \in Seq(Instr) : Then(c, e) /\ Len(e) = 0
        BY <4>2
      <4>4. Len(agenda'[c]) = 0 + Len(agenda[c]) - 1
        BY <4>1, <4>3
      <4> QED
        BY <2>4, <4>4
    <3> QED
      BY <2>4, <3>3
  <2>6. agenda'[c] \in Seq(Instr)
    BY <1>1, ExecuteType DEF TypeOK
  <2>7. ASSUME NEW k \in DOMAIN agenda'[c]
        PROVE  Advanced(c, k) \/ Left(c, agenda'[c][1], k, agenda'[c][k])
    <3>1. k \in Nat /\ k >= 1
      BY <2>6, <2>7, LenProperties
    <3>2. CASE k > Len(is)
      <4>1. /\ k + 1 - Len(is) \in DOMAIN agenda[c] /\ agenda'[c][k] = agenda[c][k + 1 - Len(is)]
            /\ k + 1 - Len(is) > 1 /\ k >= (k + 1 - Len(is)) - 1
        BY <2>4, <2>7, <3>1, <3>2
      <4>2. Now(c).do \in {"alive_up", "dma_begin"} => k = (k + 1 - Len(is)) - 1
        BY <2>5, <3>1
      <4> QED
        BY <4>1, <4>2 DEF Advanced
    <3>3. CASE k <= Len(is)
      <4>1. k \in 1..Len(is) /\ 1 \in 1..Len(is)
        BY <2>4, <3>1, <3>3
      <4> QED
        BY <2>3, <2>4, <4>1
    <3> QED
      BY <2>4, <3>1, <3>2, <3>3
  <2> QED
    BY <1>1, <2>4, <2>7
<1>2. CASE Interrupt(c) \/ Request(c)
  <2>1. /\ agenda[c] = <<>>
        /\ \/ agenda' = agenda
           \/ \E is : Enter(c, is) /\ Taken(c, is)
           \/ DrainMail(c)
    BY <1>2, Outside
  <2>2. CASE agenda' = agenda
    BY <2>1, <2>2, EmptySeq
  <2>3. CASE \E is : Enter(c, is) /\ Taken(c, is)
    <3>1. PICK is : Enter(c, is) /\ Taken(c, is)
      BY <2>3
    <3>2. agenda'[c] = is /\ \A d \in Cores \ {c} : agenda'[d] = agenda[d]
      BY <1>0, <3>1 DEF Enter
    <3>3. \A k \in DOMAIN agenda'[c] : Begins(c, k, agenda'[c][k])
      BY <3>1, <3>2, LenProperties DEF Taken
    <3> QED
      BY <2>1, <3>2, <3>3
  <2>4. CASE DrainMail(c)
    <3>1. agenda'[c] = mail[c] /\ \A d \in Cores \ {c} : agenda'[d] = agenda[d]
      BY <1>0, <2>4 DEF DrainMail, Enter
    <3> QED
      BY <2>1, <3>1
  <2> QED
    BY <2>1, <2>2, <2>3, <2>4
<1> QED
  BY <1>1, <1>2 DEF Acts

\* And every message.
LEMMA MailOrigins ==
  ASSUME TypeOK, Placement, EpochsAgree, NEW c \in Cores, Acts(c)
  PROVE  \A d \in Cores : \A k \in DOMAIN mail'[d] :
           \/ k \in DOMAIN mail[d] /\ mail'[d][k] = mail[d][k]
           \/ Execute(c) /\ Sent(c, d, mail'[d][k])
           \/ mail'[d][k] \in Instr /\ mail'[d][k].do \in {"post_virq", "recover_dma_fault"}
<1>0. mail \in [Cores -> Seq(Instr)]
  BY DEF TypeOK
<1>1. ASSUME NEW d \in Cores, NEW m \in Instr, Post(d, m), NEW b \in Cores, NEW k \in DOMAIN mail'[b]
      PROVE  (k \in DOMAIN mail[b] /\ mail'[b][k] = mail[b][k]) \/ (b = d /\ mail'[b][k] = m)
  <2>1. mail' = [mail EXCEPT ![d] = Append(@, m)] /\ mail[d] \in Seq(Instr)
    BY <1>0, <1>1 DEF Post
  <2>2. CASE b # d
    BY <1>0, <1>1, <2>1, <2>2
  <2>3. CASE b = d
    <3>1. mail'[b] = Append(mail[b], m)
      BY <1>0, <1>1, <2>1, <2>3
    <3>2. /\ Len(mail[b]) \in Nat /\ DOMAIN mail[b] = 1..Len(mail[b])
          /\ DOMAIN Append(mail[b], m) = 1..(Len(mail[b]) + 1)
          /\ Append(mail[b], m)[Len(mail[b]) + 1] = m
          /\ \A j \in 1..Len(mail[b]) : Append(mail[b], m)[j] = mail[b][j]
      BY <2>1, <2>3, LenProperties, AppendProperties
    <3> QED
      BY <1>1, <2>3, <3>1, <3>2
  <2> QED
    BY <2>2, <2>3
<1>2. CASE mail' = mail
  BY <1>2
<1>3. CASE Execute(c) /\ mail' # mail
  <2>0. PICK d \in Cores : \E m : Post(d, m) /\ Sent(c, d, m)
    BY <1>3, Sending
  <2>1. PICK m : Post(d, m) /\ Sent(c, d, m)
    BY <2>0
  <2>2. m \in Instr
    BY <2>1 DEF Sent
  <2> QED
    BY <1>1, <1>3, <2>1, <2>2
<1>4. CASE (Interrupt(c) \/ Request(c)) /\ mail' # mail
  <2>1. \/ DrainMail(c)
        \/ \E d \in Cores : \E m : Post(d, m) /\ m \in Instr /\ m.do \in {"post_virq", "recover_dma_fault"}
    BY <1>4, Outside
  <2>2. CASE DrainMail(c)
    <3>1. mail' = [mail EXCEPT ![c] = <<>>]
      BY <2>2 DEF DrainMail
    <3>2. ASSUME NEW d \in Cores, NEW k \in DOMAIN mail'[d] PROVE k \in DOMAIN mail[d] /\ mail'[d][k] = mail[d][k]
      <4>1. CASE d = c
        BY <1>0, <3>1, <3>2, <4>1, EmptySeq
      <4>2. CASE d # c
        BY <1>0, <3>1, <3>2, <4>2
      <4> QED
        BY <4>1, <4>2
    <3> QED
      BY <3>2
  <2>3. CASE \E d \in Cores : \E m : Post(d, m) /\ m \in Instr /\ m.do \in {"post_virq", "recover_dma_fault"}
    <3>1. PICK d \in Cores, m \in Instr : Post(d, m) /\ m.do \in {"post_virq", "recover_dma_fault"}
      BY <2>3
    <3> QED
      BY <1>1, <3>1
  <2> QED
    BY <2>1, <2>2, <2>3
<1> QED
  BY <1>2, <1>3, <1>4 DEF Acts

\* The step with which an owner begins a reserved lifecycle.
Opens(c, vm) == BeginLifecycle(c) /\ Now(c).s[1] = vm /\ token[vm] = Reserved

LEMMA Opening ==
  ASSUME TypeOK, Placement, NEW c \in Cores, NEW vm \in Vms, Opens(c, vm)
  PROVE  /\ Execute(c) /\ Owner(vm) = c /\ Now(c).do = "begin_lifecycle" /\ agenda[c] # <<>>
         /\ token'[vm] = life'[vm].epoch /\ life'[vm].epoch = life[vm].epoch + 1
         /\ life'[vm].active /\ life'[vm].pending = {s \in SlotsOf(vm) : power[s] # "Off"}
<1>1. agenda[c] # <<>> /\ Now(c).do = "begin_lifecycle" /\ Execute(c)
  BY Heads DEF Opens, Execute
<1>2. Owner(vm) = c
  BY <1>1, HeadFacts DEF Opens, Placed, OwnerSteps
<1>3. life[vm] \in Life /\ life \in [Vms -> Life] /\ token \in [Vms -> Token]
  BY DEF TypeOK
<1> DEFINE own == Now(c).s[1]
           begun == [life[own] EXCEPT !.epoch = life[own].epoch + 1,
                       !.pending = {s \in SlotsOf(own) : power[s] # "Off"}, !.retries = 0,
                       !.active = TRUE, !.dmaPending = FALSE, !.dmaFailed = FALSE,
                       !.mode = IF Now(c).op = "Stop" THEN "Stop" ELSE "Reset"]
           asked(d) == [begun EXCEPT !.dmaPending = (d = "quiescing"), !.dmaFailed = (d = "failed"),
                                     !.timer = TRUE, !.drain = @ \/ d = "quiescing"]
<1>4. /\ own = vm /\ token' = [token EXCEPT ![own] = life[own].epoch + 1]
      /\ life' = [life EXCEPT ![own] = begun] \/ \E d : life' = [life EXCEPT ![own] = asked(d)]
  BY DEF Opens, BeginLifecycle
<1>5. /\ begun.epoch = life[own].epoch + 1 /\ begun.active = TRUE
      /\ begun.pending = {s \in SlotsOf(own) : power[s] # "Off"}
  BY <1>3, <1>4 DEF Life
<1>6. begun \in Life
  <2>1. life[own].epoch + 1 \in Nat /\ life[own] \in Life
    BY <1>3, <1>4, LifeFields
  <2>2. {s \in SlotsOf(own) : power[s] # "Off"} \subseteq Slots
    BY DEF SlotsOf
  <2> QED
    BY <2>1, <2>2 DEF Life
<1> HIDE DEF begun
<1>7. \A d : asked(d).epoch = begun.epoch /\ asked(d).active = begun.active /\ asked(d).pending = begun.pending
  BY <1>6 DEF Life
<1> HIDE DEF own, asked
<1>8. life'[vm].epoch = begun.epoch /\ life'[vm].active = begun.active /\ life'[vm].pending = begun.pending
  BY <1>3, <1>4, <1>7
<1> QED
  BY <1>1, <1>2, <1>3, <1>4, <1>5, <1>8

\* What any other step does to the tracker of a VM and to its token.
Steady(c, vm) ==
  /\ life'[vm].epoch = life[vm].epoch
  /\ life'[vm].active => life[vm].active
  /\ life'[vm].pending \subseteq life[vm].pending
  /\ life[vm].active /\ ~life'[vm].active =>
       /\ Execute(c) /\ Owner(vm) = c /\ Now(c).s[1] = vm
       /\ Now(c).do \in {"finish_lifecycle", "finish", "isolated"}
  /\ life'[vm].pending # life[vm].pending /\ life'[vm].active =>
       /\ Execute(c) /\ Now(c).do = "acknowledge" /\ Counts(Now(c)) /\ Now(c).s[1] = vm
       /\ life'[vm].pending = life[vm].pending \ {Now(c).s}
TokenMove(c, vm) ==
  \/ token'[vm] = token[vm]
  \/ Claim(c) /\ Now(c).s[1] = vm /\ token[vm] = Inactive /\ token'[vm] = Reserved
  \/ Release(c) /\ Now(c).s[1] = vm /\ token'[vm] = Inactive
  \/ Finish(c) /\ Now(c).s[1] = vm /\ token'[vm] = Inactive /\ ~life'[vm].active

LEMMA Moves ==
  ASSUME TypeOK, Placement, EpochsAgree, NEW c \in Cores, Acts(c), NEW vm \in Vms, ~Opens(c, vm)
  PROVE  Steady(c, vm) /\ TokenMove(c, vm)
<1>0. life[vm] \in Life /\ life \in [Vms -> Life] /\ token \in [Vms -> Token]
  BY DEF TypeOK
<1>1. CASE life' = life /\ token' = token
  BY <1>1 DEF Steady, TokenMove
<1>2. CASE Claim(c) \/ Release(c)
  <2>1. life' = life
    BY <1>2 DEF Claim, Release
  <2>2. Steady(c, vm)
    BY <2>1 DEF Steady
  <2>3. TokenMove(c, vm)
    BY <1>0, <1>2 DEF TokenMove, Claim, Release
  <2> QED
    BY <2>2, <2>3
<1>3. CASE BeginLifecycle(c)
  <2>1. token'[vm] = token[vm] /\ life'[vm] = life[vm]
    <3>1. CASE Now(c).s[1] # vm
      BY <1>0, <1>3, <3>1 DEF BeginLifecycle
    <3>2. CASE Now(c).s[1] = vm
      BY <1>3, <3>2 DEF BeginLifecycle, Opens
    <3> QED
      BY <3>1, <3>2
  <2> QED
    BY <2>1 DEF Steady, TokenMove
<1>4. CASE Acknowledge(c)
  <2>1. agenda[c] # <<>> /\ Now(c).do = "acknowledge" /\ token' = token /\ Execute(c)
    BY <1>4, Heads DEF Acknowledge, Execute
  <2>2. CASE life' = life
    BY <2>1, <2>2 DEF Steady, TokenMove
  <2>3. CASE life' # life
    <3>1. /\ life' = [life EXCEPT ![Now(c).s[1]].pending = @ \ {Now(c).s}]
          /\ Counts(Now(c))
      BY <1>4, <2>1, <2>3 DEF Acknowledge, Counts, AnswerSteps
    <3>2. CASE Now(c).s[1] # vm
      <4>1. life'[vm] = life[vm]
        BY <1>0, <3>1, <3>2
      <4> QED
        BY <2>1, <4>1 DEF Steady, TokenMove
    <3>3. CASE Now(c).s[1] = vm
      <4>1. /\ life'[vm].epoch = life[vm].epoch /\ life'[vm].active = life[vm].active
            /\ life'[vm].pending = life[vm].pending \ {Now(c).s}
        BY <1>0, <3>1, <3>3 DEF Life
      <4> QED
        BY <2>1, <3>1, <3>3, <4>1 DEF Steady, TokenMove
    <3> QED
      BY <3>2, <3>3
  <2> QED
    BY <2>2, <2>3
<1>5. CASE FinishLifecycle(c)
  <2>1. agenda[c] # <<>> /\ Now(c).do = "finish_lifecycle" /\ token' = token /\ Execute(c)
    BY <1>5, Heads DEF FinishLifecycle, Execute
  <2>2. CASE life' = life
    BY <2>1, <2>2 DEF Steady, TokenMove
  <2>3. CASE life' # life
    <3> DEFINE own == Now(c).s[1]
               disarmed == [life[own] EXCEPT !.timer = FALSE, !.drain = FALSE]
    <3>1. /\ Ready(own)
          /\ \/ life' = [life EXCEPT ![own] = Finished(disarmed)]
             \/ life' = [life EXCEPT ![own] = disarmed]
      BY <1>5, <2>3 DEF FinishLifecycle
    <3>2. CASE own # vm
      <4>1. life'[vm] = life[vm]
        BY <1>0, <3>1, <3>2
      <4> QED
        BY <2>1, <4>1 DEF Steady, TokenMove
    <3>3. CASE own = vm
      <4>1. disarmed.epoch = life[vm].epoch /\ disarmed.active = life[vm].active /\ disarmed.pending = life[vm].pending
        BY <1>0, <3>3 DEF Life
      <4>2. Finished(disarmed).epoch = life[vm].epoch /\ ~Finished(disarmed).active /\ Finished(disarmed).pending = {}
        BY <1>0, <3>3 DEF Finished, Life
      <4>3. life'[vm] = disarmed \/ life'[vm] = Finished(disarmed)
        BY <1>0, <3>1, <3>3
      <4>4. Owner(vm) = c
        BY <2>1, <3>3, HeadFacts DEF Placed, OwnerSteps
      <4> HIDE DEF disarmed
      <4> QED
        BY <2>1, <3>3, <4>1, <4>2, <4>3, <4>4 DEF Steady, TokenMove
    <3> QED
      BY <3>2, <3>3
  <2> QED
    BY <2>2, <2>3
<1>6. CASE Finish(c)
  <2>1. agenda[c] # <<>> /\ Now(c).do = "finish" /\ Execute(c)
    BY <1>6, Heads DEF Execute
  <2> DEFINE own == Now(c).s[1]
  <2>2. life' = [life EXCEPT ![own] = Finished(@)] /\ token' = [token EXCEPT ![own] = Inactive]
    BY <1>6 DEF Finish
  <2>3. CASE own # vm
    <3>1. life'[vm] = life[vm] /\ token'[vm] = token[vm]
      BY <1>0, <2>2, <2>3
    <3> QED
      BY <3>1 DEF Steady, TokenMove
  <2>4. CASE own = vm
    <3>1. life'[vm] = Finished(life[vm]) /\ token'[vm] = Inactive
      BY <1>0, <2>2, <2>4
    <3>2. Finished(life[vm]).epoch = life[vm].epoch /\ ~Finished(life[vm]).active /\ Finished(life[vm]).pending = {}
      BY <1>0 DEF Finished, Life
    <3>3. Owner(vm) = c
      BY <2>1, <2>4, HeadFacts DEF Placed, OwnerSteps
    <3> QED
      BY <1>6, <2>1, <2>4, <3>1, <3>2, <3>3 DEF Steady, TokenMove
  <2> QED
    BY <2>3, <2>4
<1>7. CASE Isolated(c)
  <2>1. agenda[c] # <<>> /\ Now(c).do = "isolated" /\ Execute(c) /\ token' = token
    BY <1>7, Heads DEF Execute, Isolated
  <2> DEFINE own == Now(c).s[1]
  <2>2. life' = [life EXCEPT ![own].active = FALSE, ![own].pending = {}, ![own].retries = 0]
    BY <1>7 DEF Isolated
  <2>3. CASE own # vm
    <3>1. life'[vm] = life[vm]
      BY <1>0, <2>2, <2>3
    <3> QED
      BY <2>1, <3>1 DEF Steady, TokenMove
  <2>4. CASE own = vm
    <3>1. life'[vm].epoch = life[vm].epoch /\ ~life'[vm].active /\ life'[vm].pending = {}
      BY <1>0, <2>2, <2>4 DEF Life
    <3>3. Owner(vm) = c
      BY <2>1, <2>4, HeadFacts DEF Placed, OwnerSteps
    <3> QED
      BY <2>1, <2>4, <3>1, <3>3 DEF Steady, TokenMove
  <2> QED
    BY <2>3, <2>4
<1>8. CASE \/ Rearm(c)
           \/ \E own \in Vms : LifecycleTimeout(c, own) \/ DmaDrain(c, own)
  <2>1. token' = token
    BY <1>8 DEF Rearm, LifecycleTimeout, DmaDrain
  <2>2. life'[vm].epoch = life[vm].epoch /\ life'[vm].active = life[vm].active /\ life'[vm].pending = life[vm].pending
    <3>1. CASE Rearm(c)
      BY <1>0, <3>1 DEF Rearm, Life
    <3>2. ASSUME NEW own \in Vms, LifecycleTimeout(c, own)
          PROVE  life'[vm].epoch = life[vm].epoch /\ life'[vm].active = life[vm].active
                 /\ life'[vm].pending = life[vm].pending
      <4>1. \/ life' = [life EXCEPT ![own].timer = FALSE]
            \/ life' = [life EXCEPT ![own].timer = FALSE, ![own].retries = @ + 1]
        BY <3>2 DEF LifecycleTimeout
      <4>2. CASE life' = [life EXCEPT ![own].timer = FALSE]
        BY <1>0, <4>2 DEF Life
      <4>3. CASE life' = [life EXCEPT ![own].timer = FALSE, ![own].retries = @ + 1]
        <5>1. \A n \in Nat : n + 1 \in Nat
          OBVIOUS
        <5> QED
          BY <1>0, <4>3, <5>1 DEF Life
      <4> QED
        BY <4>1, <4>2, <4>3
    <3>3. ASSUME NEW own \in Vms, DmaDrain(c, own)
          PROVE  life'[vm].epoch = life[vm].epoch /\ life'[vm].active = life[vm].active
                 /\ life'[vm].pending = life[vm].pending
      <4>1. \/ life' = [life EXCEPT ![own].drain = FALSE]
            \/ \E d : life' = [life EXCEPT ![own].drain = (d = "quiescing"),
                                    ![own].dmaPending = (d = "quiescing"),
                                    ![own].dmaFailed = @ \/ d = "failed"]
        BY <3>3 DEF DmaDrain
      <4>2. CASE life' = [life EXCEPT ![own].drain = FALSE]
        BY <1>0, <4>2 DEF Life
      <4>3. ASSUME NEW d, life' = [life EXCEPT ![own].drain = (d = "quiescing"),
                                    ![own].dmaPending = (d = "quiescing"),
                                    ![own].dmaFailed = @ \/ d = "failed"]
            PROVE  life'[vm].epoch = life[vm].epoch /\ life'[vm].active = life[vm].active
                   /\ life'[vm].pending = life[vm].pending
        <5>1. CASE own # vm
          BY <1>0, <4>3, <5>1
        <5>2. CASE own = vm
          <6>1. life'[vm] = [life[vm] EXCEPT !.drain = (d = "quiescing"), !.dmaPending = (d = "quiescing"),
                                             !.dmaFailed = @ \/ d = "failed"]
            BY <1>0, <4>3, <5>2
          <6> QED
            BY <1>0, <6>1 DEF Life
        <5> QED
          BY <5>1, <5>2
      <4> QED
        BY <4>1, <4>2, <4>3
    <3> QED
      BY <1>8, <3>1, <3>2, <3>3
  <2> QED
    BY <2>1, <2>2 DEF Steady, TokenMove
<1>9. CASE Execute(c)
  <2>1. Now(c).do \notin TokenWrites \cup LifeWrites => life' = life /\ token' = token
    BY <1>9, Frames
  <2> QED
    BY <1>1, <1>2, <1>3, <1>4, <1>5, <1>6, <1>7, <1>8, <1>9, <2>1, Heads DEF Execute, TokenWrites, LifeWrites
<1>10. CASE Interrupt(c) \/ Request(c)
  <2>1. token' = token /\ (life' = life \/ \E own \in Vms : LifecycleTimeout(c, own) \/ DmaDrain(c, own))
    BY <1>10, Outside
  <2> QED
    BY <1>1, <1>8, <2>1
<1> QED
  BY <1>9, <1>10 DEF Acts

-----------------------------------------------------------------------------
(* Every step keeps every part of the invariant.                           *)

\* How the classes of instructions lie to each other.
LEMMA Classes ==
  /\ \A x \in BegunSteps : /\ x \notin CarrySteps /\ x \notin AnswerSteps /\ x \notin FinishSteps
                           /\ x \notin StartSteps /\ (x \in EpochSteps => x = "retry")
                           /\ x # "finish"
  /\ \A x \in MailSteps : x \notin StartSteps /\ x \notin FinishSteps /\ x \in TailSteps /\ x # "finish"
  /\ \A x \in TailSteps : x \notin StartSteps /\ x \notin RestoreSteps /\ (x \in FinishSteps => x = "finish")
  /\ \A x \in {"post_virq", "recover_dma_fault"} :
       /\ x \in MailSteps /\ x \notin OwnerSteps /\ x \notin SlotSteps /\ x \notin ColdSteps /\ x \notin ReserveSteps
       /\ x \notin CarrySteps /\ x \notin EpochSteps /\ x \notin AnswerSteps
  /\ \A x \in FinishSteps : x \in OwnerSteps /\ x \in RestoreSteps \cup {"finish"}
  /\ \A x \in StartSteps : x \in SlotSteps
  /\ \A x \in AnswerSteps : x \in EpochSteps
BY DEF BegunSteps, MailSteps, TailSteps, CarrySteps, AnswerSteps, FinishSteps, RestoreSteps, StartSteps,
       ColdSteps, EpochSteps, OwnerSteps, SlotSteps, ReserveSteps

LEMMA PlacementStep ==
  ASSUME TypeOK, Placement, EpochsAgree, NEW c \in Cores, Acts(c)
  PROVE  Placement'
<1>1. ASSUME NEW d \in Cores, NEW k \in DOMAIN agenda'[d]
      PROVE  LET i == agenda'[d][k]
             IN /\ Placed(d, i)
                /\ k > 1 => i.do \in TailSteps
                /\ k > 1 /\ i.do = "finish" => k = 2 /\ agenda'[d][1].do \in {"alive_up", "dma_begin"}
  <2>0. /\ agenda' \in [Cores -> Seq(Instr)] /\ agenda \in [Cores -> Seq(Instr)] /\ mail \in [Cores -> Seq(Instr)]
        /\ k \in Nat
    <3>1. TypeOK'
      BY ExecuteType, InterruptType, RequestType DEF Acts
    <3> QED
      BY <1>1, <3>1, LenProperties DEF TypeOK
  <2>1. CASE d # c /\ agenda'[d] = agenda[d]
    BY <1>1, <2>1 DEF Placement, AgendaPlaced
  <2>2. CASE d = c /\ Execute(c) /\ Advanced(c, k)
    <3>1. PICK j \in DOMAIN agenda[c] :
            /\ j > 1 /\ k >= j - 1 /\ agenda'[c][k] = agenda[c][j]
            /\ Now(c).do \in {"alive_up", "dma_begin"} => k = j - 1
      BY <2>2 DEF Advanced
    <3>2. Now(c) = agenda[c][1]
      BY <2>2, Frames, HeadFacts
    <3>3. /\ Placed(c, agenda[c][j]) /\ agenda[c][j].do \in TailSteps
          /\ agenda[c][j].do = "finish" => j = 2 /\ Now(c).do \in {"alive_up", "dma_begin"}
      BY <3>1, <3>2 DEF Placement, AgendaPlaced
    <3> QED
      BY <2>0, <2>2, <3>1, <3>3
  <2>3. CASE d = c /\ Execute(c) /\ Left(c, agenda'[c][1], k, agenda'[c][k])
    BY <2>3 DEF Left, LeftPlaced
  <2>4. CASE d = c /\ Begins(c, k, agenda'[c][k])
    BY <2>4, Classes DEF Begins
  <2>5. CASE d = c /\ k \in DOMAIN mail[c] /\ agenda'[c][k] = mail[c][k]
    BY <2>5, Classes DEF Placement, MailPlaced
  <2> QED
    BY <1>1, <2>1, <2>2, <2>3, <2>4, <2>5, Origins
<1>2. ASSUME NEW d \in Cores, NEW k \in DOMAIN mail'[d]
      PROVE  Placed(d, mail'[d][k]) /\ mail'[d][k].do \in MailSteps
  <2>1. CASE k \in DOMAIN mail[d] /\ mail'[d][k] = mail[d][k]
    BY <2>1 DEF Placement, MailPlaced
  <2>2. CASE Sent(c, d, mail'[d][k])
    BY <2>2 DEF Sent
  <2>3. CASE mail'[d][k].do \in {"post_virq", "recover_dma_fault"}
    BY <2>3, Classes DEF Placed
  <2> QED
    BY <1>2, <2>1, <2>2, <2>3, MailOrigins
<1>3. \A d \in Cores : AgendaPlaced(d)'
  BY <1>1 DEF AgendaPlaced, Placed
<1>4. \A d \in Cores : MailPlaced(d)'
  BY <1>2 DEF MailPlaced, Placed
<1> QED
  BY <1>3, <1>4 DEF Placement

\* Who carries a claimed lifecycle, by agenda and by mailbox.
InHand(vm, c, k) == k \in DOMAIN agenda[c] /\ Carrying(vm, agenda[c][k])
InBox(vm, c, k)  == k \in DOMAIN mail[c] /\ Carrying(vm, mail[c][k])
CarriageOf(vm) ==
  /\ token[vm] = Reserved =>
       \E c \in Cores, k \in Nat : InHand(vm, c, k) \/ InBox(vm, c, k)
  /\ \A c \in Cores, k \in Nat : InHand(vm, c, k) \/ InBox(vm, c, k) => token[vm] = Reserved
  /\ \A c \in Cores, d \in Cores, k \in Nat, j \in Nat :
       /\ InHand(vm, c, k) /\ InHand(vm, d, j) => c = d /\ k = j
       /\ InBox(vm, c, k) /\ InBox(vm, d, j) => c = d /\ k = j
       /\ ~(InHand(vm, c, k) /\ InBox(vm, d, j))
Carriage == \A vm \in Vms : CarriageOf(vm)

LEMMA HeadCarrier ==
  ASSUME TypeOK, Placement, Carriage, NEW c \in Cores, agenda[c] # <<>>, Now(c).do \in CarrySteps
  PROVE  InHand(Now(c).s[1], c, 1) /\ token[Now(c).s[1]] = Reserved
<1>1. /\ Now(c) = agenda[c][1] /\ 1 \in DOMAIN agenda[c] /\ Now(c).s[1] \in Vms
  BY HeadFacts
<1>2. InHand(Now(c).s[1], c, 1)
  BY <1>1 DEF InHand, Carrying, CarrySteps
<1> QED
  BY <1>1, <1>2 DEF Carriage, CarriageOf

LEMMA EpochsAgreeStep ==
  ASSUME TypeOK, Placement, EpochsAgree, Carriage, NEW c \in Cores, Acts(c)
  PROVE  EpochsAgree'
<1> SUFFICES ASSUME NEW vm \in Vms
             PROVE  /\ token'[vm] \notin {Inactive, Reserved} => token'[vm] = life'[vm].epoch
                    /\ life'[vm].active => token'[vm] = life'[vm].epoch /\ token'[vm] # Inactive
  BY DEF EpochsAgree
<1>1. life[vm].epoch \in Nat /\ Inactive = 0 /\ Reserved = -1
  BY LifeFields DEF TypeOK, Inactive, Reserved
<1>2. CASE Opens(c, vm)
  BY <1>1, <1>2, Opening
<1>3. CASE ~Opens(c, vm)
  <2>1. Steady(c, vm) /\ TokenMove(c, vm)
    BY <1>3, Moves
  <2>2. ~(Release(c) /\ Now(c).s[1] = vm /\ life[vm].active)
    <3> SUFFICES ASSUME Release(c), Now(c).s[1] = vm, life[vm].active PROVE FALSE
      OBVIOUS
    <3>1. token[vm] = Reserved
      BY Heads, HeadCarrier DEF CarrySteps
    <3> QED
      BY <1>1, <3>1 DEF EpochsAgree
  <2> QED
    BY <2>1, <2>2 DEF Steady, TokenMove, EpochsAgree
<1> QED
  BY <1>2, <1>3

LEMMA EpochsBegunStep ==
  ASSUME TypeOK, Placement, EpochsAgree, EpochsBegun, NEW c \in Cores, Acts(c)
  PROVE  EpochsBegun'
<1>1. ASSUME NEW vm \in Vms
      PROVE  /\ life[vm].epoch \in Nat /\ life'[vm].epoch \in Nat /\ life'[vm].epoch >= life[vm].epoch
             /\ Opens(c, vm) => life'[vm].epoch = life[vm].epoch + 1
  <2>1. life[vm].epoch \in Nat
    BY LifeFields DEF TypeOK
  <2> QED
    BY <2>1, Opening, Moves DEF Steady
<1>2. \A i \in Instr : i.s[1] \in Vms /\ i.e \in Int
  BY SlotTypes DEF Instr, Token, Reserved
<1>3. ASSUME NEW i \in Instr, i.e <= life[i.s[1]].epoch
      PROVE  i.e <= life'[i.s[1]].epoch
  BY <1>1, <1>2, <1>3
<1>4. ASSUME Execute(c), Now(c).do \in EpochSteps
      PROVE  Now(c).e <= life[Now(c).s[1]].epoch
  BY <1>4, Frames, HeadFacts DEF EpochsBegun
<1>5. ASSUME NEW i \in Instr, i.s[1] = Now(c).s[1], Execute(c), Now(c).do \in EpochSteps, i.e = Now(c).e
      PROVE  i.e <= life'[i.s[1]].epoch
  BY <1>3, <1>4, <1>5
<1>6. agenda \in [Cores -> Seq(Instr)] /\ mail \in [Cores -> Seq(Instr)]
  BY DEF TypeOK
<1>7. /\ \A d \in Cores : \A k \in DOMAIN agenda[d] : agenda[d][k] \in Instr
      /\ \A d \in Cores : \A k \in DOMAIN mail[d] : mail[d][k] \in Instr
  BY <1>6, ElementOfSeq, LenProperties
<1>8. ASSUME NEW d \in Cores, NEW k \in DOMAIN agenda'[d], agenda'[d][k].do \in EpochSteps
      PROVE  agenda'[d][k].e <= life'[agenda'[d][k].s[1]].epoch
  <2>1. CASE d # c /\ agenda'[d] = agenda[d]
    BY <1>3, <1>7, <1>8, <2>1 DEF EpochsBegun
  <2>2. CASE d = c /\ Execute(c) /\ Advanced(c, k)
    <3>1. PICK j \in DOMAIN agenda[c] : agenda'[c][k] = agenda[c][j]
      BY <2>2 DEF Advanced
    <3> QED
      BY <1>3, <1>7, <1>8, <2>2, <3>1 DEF EpochsBegun
  <2>3. CASE d = c /\ Execute(c) /\ Left(c, agenda'[c][1], k, agenda'[c][k])
    <3>1. /\ agenda'[c][k] \in Instr /\ agenda'[c][k].s[1] = Now(c).s[1]
          /\ \/ Now(c).do \in EpochSteps /\ agenda'[c][k].e = Now(c).e
             \/ /\ Now(c).do = "begin_lifecycle" /\ token[Now(c).s[1]] = Reserved
                /\ agenda'[c][k].e = life[Now(c).s[1]].epoch + 1
      BY <1>8, <2>3 DEF Left, LeftPlaced, LeftEpoch
    <3>2. CASE Now(c).do \in EpochSteps /\ agenda'[c][k].e = Now(c).e
      BY <1>5, <2>3, <3>1, <3>2
    <3>3. CASE /\ Now(c).do = "begin_lifecycle" /\ token[Now(c).s[1]] = Reserved
               /\ agenda'[c][k].e = life[Now(c).s[1]].epoch + 1
      <4>1. BeginLifecycle(c)
        BY <2>3, <3>3, Heads DEF Execute
      <4>2. Opens(c, Now(c).s[1]) /\ Now(c).s[1] \in Vms
        BY <1>2, <3>1, <3>3, <4>1 DEF Opens
      <4> QED
        BY <1>1, <2>3, <3>1, <3>3, <4>2
    <3> QED
      BY <3>1, <3>2, <3>3
  <2>4. CASE d = c /\ Begins(c, k, agenda'[c][k])
    <3>1. agenda'[c][k] \in Instr /\ agenda'[c][k].e = life[agenda'[c][k].s[1]].epoch
      BY <1>8, <2>4, Classes DEF Begins
    <3>2. agenda'[c][k].e <= life[agenda'[c][k].s[1]].epoch
      BY <1>1, <1>2, <3>1
    <3> QED
      BY <1>3, <2>4, <3>1, <3>2
  <2>5. CASE d = c /\ k \in DOMAIN mail[c] /\ agenda'[c][k] = mail[c][k]
    BY <1>3, <1>7, <1>8, <2>5 DEF EpochsBegun
  <2> QED
    BY <1>8, <2>1, <2>2, <2>3, <2>4, <2>5, Origins
<1>9. ASSUME NEW d \in Cores, NEW k \in DOMAIN mail'[d], mail'[d][k].do \in EpochSteps
      PROVE  mail'[d][k].e <= life'[mail'[d][k].s[1]].epoch
  <2>1. CASE k \in DOMAIN mail[d] /\ mail'[d][k] = mail[d][k]
    BY <1>3, <1>7, <1>9, <2>1 DEF EpochsBegun
  <2>2. CASE Execute(c) /\ Sent(c, d, mail'[d][k])
    BY <1>5, <1>9, <2>2 DEF Sent
  <2>3. CASE mail'[d][k].do \in {"post_virq", "recover_dma_fault"}
    BY <1>9, <2>3, Classes
  <2> QED
    BY <1>9, <2>1, <2>2, <2>3, MailOrigins
<1> QED
  BY <1>8, <1>9 DEF EpochsBegun

\* An open tracker is not reserved, and only its owner closes it.
LEMMA OpenFacts ==
  ASSUME TypeOK, EpochsAgree, NEW vm \in Vms, life[vm].active
  PROVE  token[vm] # Reserved /\ token[vm] # Inactive /\ \A c : ~Opens(c, vm)
<1>1. life[vm].epoch \in Nat /\ Reserved = -1
  BY LifeFields DEF TypeOK, Reserved
<1> QED
  BY <1>1 DEF EpochsAgree, Opens

LEMMA FinishingOpenStep ==
  ASSUME TypeOK, Placement, EpochsAgree, FinishingOpen, NEW c \in Cores, Acts(c)
  PROVE  FinishingOpen'
<1> SUFFICES ASSUME NEW d \in Cores, NEW k \in DOMAIN agenda'[d], agenda'[d][k].do \in FinishSteps
             PROVE  /\ life'[agenda'[d][k].s[1]].active
                    /\ agenda'[d][k].do \in RestoreSteps => life'[agenda'[d][k].s[1]].pending = {}
  BY DEF FinishingOpen, FinishSteps
<1> DEFINE i == agenda'[d][k]
           vm == agenda'[d][k].s[1]
<1>0. agenda \in [Cores -> Seq(Instr)] /\ mail \in [Cores -> Seq(Instr)]
  BY DEF TypeOK
\* An entry that stays where it was, or moves up, keeps its tracker open.
<1>1. ASSUME NEW j \in DOMAIN agenda[d], i = agenda[d][j],
             d = c => Execute(c) /\ j > 1
      PROVE  /\ life'[vm].active
             /\ i.do \in RestoreSteps => life'[vm].pending = {}
  <2>1. agenda[d][j] \in Instr /\ vm \in Vms
    <3>1. agenda[d][j] \in Instr
      BY <1>0, <1>1, ElementOfSeq, LenProperties
    <3> QED
      BY <1>1, <3>1, SlotTypes DEF Instr
  <2>2. life[vm].active /\ (i.do \in RestoreSteps => life[vm].pending = {})
    BY <1>1 DEF FinishingOpen
  <2>3. Owner(vm) = d
    BY <1>1, Classes DEF Placement, AgendaPlaced, Placed
  <2>4. ~Opens(c, vm)
    BY <2>1, <2>2, OpenFacts
  <2>5. Steady(c, vm)
    BY <2>1, <2>4, Moves
  <2>6. life'[vm].active
    <3> SUFFICES ASSUME ~life'[vm].active PROVE FALSE
      OBVIOUS
    <3>1. Execute(c) /\ c = d /\ Now(c).do \in {"finish_lifecycle", "finish", "isolated"}
      BY <2>2, <2>3, <2>5 DEF Steady
    <3>2. j > 1 /\ i.do = "finish"
      BY <1>1, <3>1, Classes DEF Placement, AgendaPlaced
    <3>3. Now(c) = agenda[c][1]
      BY <3>1, Frames, HeadFacts
    <3> QED
      BY <1>1, <3>1, <3>2, <3>3 DEF Placement, AgendaPlaced
  <2> QED
    BY <2>2, <2>5, <2>6 DEF Steady
<1>2. CASE d # c /\ agenda'[d] = agenda[d]
  BY <1>1, <1>2
<1>3. CASE d = c /\ Execute(c) /\ Advanced(c, k)
  BY <1>1, <1>3 DEF Advanced
<1>4. CASE d = c /\ Execute(c) /\ Left(c, agenda'[c][1], k, agenda'[c][k])
  <2> DEFINE n == Now(c).s[1]
  <2>1. /\ vm = n
        /\ \/ Now(c).do \in RestoreSteps
           \/ Now(c).do = "begin_lifecycle" /\ token[n] = Reserved /\ i.do = "finish"
           \/ Now(c).do = "finish_lifecycle" /\ Ready(n) /\ ~life[n].dmaPending /\ ~life[n].dmaFailed
    BY <1>4 DEF Left, LeftPlaced, LeftFinish
  <2>2. n \in Vms /\ Now(c) = agenda[c][1] /\ 1 \in DOMAIN agenda[c]
    BY <1>4, Frames, HeadFacts
  <2>3. CASE Now(c).do \in RestoreSteps
    <3>1. life[n].active /\ life[n].pending = {}
      BY <2>2, <2>3 DEF FinishingOpen, FinishSteps
    <3>2. life' = life
      BY <1>4, <2>3, Frames DEF RestoreSteps, LifeWrites
    <3> QED
      BY <2>1, <3>1, <3>2
  <2>4. CASE Now(c).do = "begin_lifecycle" /\ token[n] = Reserved /\ i.do = "finish"
    <3>1. Opens(c, n)
      BY <1>4, <2>4, Heads DEF Execute, Opens
    <3>2. life'[n].active
      BY <2>2, <3>1, Opening
    <3> QED
      BY <2>1, <2>4, <3>2 DEF RestoreSteps
  <2>5. CASE Now(c).do = "finish_lifecycle" /\ Ready(n) /\ ~life[n].dmaPending /\ ~life[n].dmaFailed
    <3>1. FinishLifecycle(c)
      BY <1>4, <2>5, Heads DEF Execute
    <3>2. life' = [life EXCEPT ![n] = [life[n] EXCEPT !.timer = FALSE, !.drain = FALSE]]
      BY <2>5, <3>1 DEF FinishLifecycle
    <3>3. life'[n].active = life[n].active /\ life'[n].pending = life[n].pending
      BY <2>2, <3>2 DEF TypeOK, Life
    <3> QED
      BY <2>1, <2>5, <3>3 DEF Ready
  <2> QED
    BY <2>1, <2>3, <2>4, <2>5
<1>5. CASE d = c /\ Begins(c, k, agenda'[c][k])
  BY <1>5, Classes DEF Begins
<1>6. CASE d = c /\ k \in DOMAIN mail[c] /\ agenda'[c][k] = mail[c][k]
  BY <1>6, Classes DEF Placement, MailPlaced
<1> QED
  BY <1>2, <1>3, <1>4, <1>5, <1>6, Origins

\* Where the instruction at the head of an agenda comes from.
LEMMA HeadOrigin ==
  ASSUME TypeOK, Placement, EpochsAgree, NEW c \in Cores, Acts(c),
         NEW d \in Cores, agenda'[d] # <<>>, Now(d)'.do \in StartSteps
  PROVE  \/ d # c /\ agenda'[d] = agenda[d] /\ Now(d)' = Now(d)
         \/ d = c /\ Execute(c) /\ Left(c, Now(c)', 1, Now(c)')
<1>1. agenda' \in [Cores -> Seq(Instr)]
  <2>1. TypeOK'
    BY ExecuteType, InterruptType, RequestType DEF Acts
  <2> QED
    BY <2>1 DEF TypeOK
<1>2. Now(d)' = agenda'[d][1] /\ 1 \in DOMAIN agenda'[d]
  BY <1>1, HeadTailProperties, LenProperties, EmptySeq DEF Now
<1>3. CASE d # c /\ agenda'[d] = agenda[d]
  BY <1>3 DEF Now
<1>4. CASE d = c /\ Execute(c) /\ Advanced(c, 1)
  BY <1>2, <1>4, Classes DEF Advanced, Placement, AgendaPlaced
<1>5. CASE d = c /\ Execute(c) /\ Left(c, agenda'[c][1], 1, agenda'[c][1])
  BY <1>2, <1>5
<1>6. CASE d = c /\ Begins(c, 1, agenda'[c][1])
  BY <1>2, <1>6, Classes DEF Begins
<1>7. CASE d = c /\ 1 \in DOMAIN mail[c] /\ agenda'[c][1] = mail[c][1]
  BY <1>2, <1>7, Classes DEF Placement, MailPlaced
<1> QED
  BY <1>2, <1>3, <1>4, <1>5, <1>6, <1>7, Origins

\* Who writes the power of a vCPU.
LEMMA LiveMoves ==
  ASSUME TypeOK, Placement, NEW c \in Cores, Acts(c), EpochsAgree, NEW s \in Slots, live'[s] # live[s]
  PROVE  /\ Execute(c) /\ Now(c).s = s /\ SlotCpu[s] = c
         /\ live'[s] => Now(c).do \in {"publish_on", "republish"}
         /\ ~live'[s] => Now(c).do = "retire_vcpu"
<1>1. live \in [Slots -> BOOLEAN]
  BY DEF TypeOK
<1>2. Execute(c) /\ Now(c).do \in LiveWrites
  BY Outside, Frames DEF Acts
<1>3. agenda[c] # <<>>
  BY <1>2, Frames
<1>4. CASE PublishOn(c) \/ Republish(c)
  <2>1. Now(c).s = s /\ live'[s]
    BY <1>1, <1>4 DEF PublishOn, Republish
  <2>2. Now(c).do \in {"publish_on", "republish"}
    BY <1>4, Heads
  <2>3. SlotCpu[s] = c
    BY <1>3, <2>1, <2>2, HeadFacts DEF Placed, SlotSteps, StartSteps
  <2> QED
    BY <1>2, <2>1, <2>2, <2>3
<1>5. CASE RetireVcpu(c)
  <2>1. Now(c).s = s /\ ~live'[s] /\ SlotCpu[s] = c
    BY <1>1, <1>5 DEF RetireVcpu
  <2> QED
    BY <1>2, <1>5, <2>1, Heads
<1> QED
  BY <1>2, <1>4, <1>5, Heads DEF Execute, LiveWrites

LEMMA StartsAloneStep ==
  ASSUME TypeOK, Placement, EpochsAgree, StartsAlone, NEW c \in Cores, Acts(c)
  PROVE  StartsAlone'
<1> SUFFICES ASSUME NEW d \in Cores, agenda'[d] # <<>>, Now(d)'.do \in StartSteps
             PROVE  LET i == Now(d)'
                    IN /\ Owner(i.s[1]) = d => ~life'[i.s[1]].active /\ token'[i.s[1]] \in {Inactive, Reserved}
                       /\ i.do = "prepare_rest" => ~live'[i.s]
  BY DEF StartsAlone, Now
<1>0. CASE d # c /\ agenda'[d] = agenda[d] /\ Now(d)' = Now(d)
  <2>1. agenda[d] # <<>>
    BY <1>0
  <2>2. /\ Now(d).s \in Slots /\ Now(d).s[1] \in Vms /\ Placed(d, Now(d))
        /\ SlotCpu[Now(d).s] = d
    BY <1>0, <2>1, HeadFacts, Classes DEF Placed
  <2> DEFINE vm == Now(d).s[1]
  <2>3. ASSUME Owner(vm) = d PROVE ~life'[vm].active /\ token'[vm] \in {Inactive, Reserved}
    <3>1. ~life[vm].active /\ token[vm] \in {Inactive, Reserved}
      BY <1>0, <2>1, <2>3 DEF StartsAlone
    <3>2. ~Opens(c, vm)
      BY <1>0, <2>2, <2>3, Opening
    <3> QED
      BY <2>2, <3>1, <3>2, Moves DEF Steady, TokenMove
  <2>4. Now(d).do = "prepare_rest" => ~live'[Now(d).s]
    BY <1>0, <2>1, <2>2, LiveMoves DEF StartsAlone, TypeOK
  <2> QED
    BY <1>0, <2>3, <2>4
<1>1. CASE d = c /\ Execute(c) /\ Left(c, Now(c)', 1, Now(c)')
  <2> DEFINE i == Now(c)'
             vm == Now(c).s[1]
  <2>1. /\ i.s = Now(c).s
        /\ \/ Now(c).do \in StartSteps \ {"publish_on"}
           \/ Now(c).do \in {"recheck", "queued_start"} /\ token[vm] = Inactive
        /\ i.do = "prepare_rest" => ~live[i.s]
    BY <1>1 DEF Left, LeftStart
  <2>2. agenda[c] # <<>> /\ vm \in Vms
    BY <1>1, Frames, HeadFacts
  <2>3. life' = life /\ token' = token /\ live' = live
    BY <1>1, <2>1, Frames DEF StartSteps, ColdSteps, TokenWrites, LifeWrites, LiveWrites
  <2>4. Owner(vm) = c => ~life[vm].active /\ token[vm] \in {Inactive, Reserved}
    BY <2>1, <2>2 DEF StartsAlone, EpochsAgree
  <2> QED
    BY <1>1, <2>1, <2>3, <2>4
<1> QED
  BY <1>0, <1>1, HeadOrigin

\* A vCPU that is off and not being started stays so, unless the last
\* stretch of its lifecycle or a fresh start brings it back.
LEMMA StaysQuiet ==
  ASSUME TypeOK, Placement, EpochsAgree, FinishingOpen, NEW c \in Cores, Acts(c),
         NEW s \in Slots, Quiet(s), life[s[1]].active, s \in life[s[1]].pending
  PROVE  Quiet(s)'
<1>1. s[1] \in Vms /\ live \in [Slots -> BOOLEAN] /\ live' \in [Slots -> BOOLEAN]
  <2>1. TypeOK'
    BY ExecuteType, InterruptType, RequestType DEF Acts
  <2> QED
    BY <2>1, SlotTypes DEF TypeOK
<1>2. token[s[1]] # Inactive
  BY <1>1, OpenFacts
<1>3. ~live'[s]
  <2> SUFFICES ASSUME live'[s] PROVE FALSE
    OBVIOUS
  <2>1. Execute(c) /\ Now(c).s = s /\ SlotCpu[s] = c /\ Now(c).do \in {"publish_on", "republish"}
    BY <1>1, LiveMoves DEF Quiet
  <2>2. agenda[c] # <<>> /\ Now(c) = agenda[c][1] /\ 1 \in DOMAIN agenda[c]
    BY <2>1, Frames, HeadFacts
  <2>3. CASE Now(c).do = "publish_on"
    BY <2>1, <2>2, <2>3 DEF Quiet, Starting, StartSteps
  <2>4. CASE Now(c).do = "republish"
    BY <2>1, <2>2, <2>4 DEF FinishingOpen, RestoreSteps
  <2> QED
    BY <2>1, <2>3, <2>4
<1>4. ~Starting(SlotCpu[s], s)'
  <2> SUFFICES ASSUME Starting(SlotCpu[s], s)' PROVE FALSE
    OBVIOUS
  <2> DEFINE d == SlotCpu[s]
  <2>1. d \in Cores /\ agenda'[d] # <<>> /\ Now(d)'.do \in StartSteps /\ Now(d)'.s = s
    BY SlotTypes DEF Starting, Now
  <2>2. CASE d # c /\ agenda'[d] = agenda[d] /\ Now(d)' = Now(d)
    BY <2>1, <2>2 DEF Quiet, Starting
  <2>3. CASE d = c /\ Execute(c) /\ Left(c, Now(c)', 1, Now(c)')
    <3>1. Now(c).s = s /\ agenda[c] # <<>> /\ (Now(c).do \in StartSteps \/ token[s[1]] = Inactive)
      BY <2>1, <2>3, Frames DEF Left, LeftStart
    <3> QED
      BY <1>2, <2>3, <3>1 DEF Quiet, Starting
  <2> QED
    BY <2>1, <2>2, <2>3, HeadOrigin
<1> QED
  BY <1>3, <1>4 DEF Quiet

\* Once retired by its owner, a vCPU is quiet.
LEMMA RetiredQuiet ==
  ASSUME TypeOK, Placement, EpochsAgree, NEW c \in Cores, Execute(c), Now(c).do = "retire_vcpu",
         SlotCpu[Now(c).s] = c
  PROVE  \A s \in Slots : s = Now(c).s => Quiet(s)'
<1>1. agenda[c] # <<>> /\ Now(c).s \in Slots /\ RetireVcpu(c)
  <2>1. agenda[c] # <<>> /\ RetireVcpu(c)
    BY Frames, Heads DEF Execute
  <2> QED
    BY <2>1, HeadFacts
<1>2. ~live'[Now(c).s]
  BY <1>1 DEF RetireVcpu, TypeOK
<1>3. ASSUME NEW s \in Slots, s = Now(c).s, Starting(SlotCpu[s], s)' PROVE FALSE
  <2>1. agenda'[c] # <<>> /\ Now(c)'.do \in StartSteps
    BY <1>3 DEF Starting, Now
  <2>2. Left(c, Now(c)', 1, Now(c)')
    BY <2>1, HeadOrigin DEF Acts
  <2> QED
    BY <2>1, <2>2 DEF Left, LeftStart, StartSteps, ColdSteps
<1>4. ASSUME NEW s \in Slots, s = Now(c).s PROVE Quiet(s)'
  <2>1. ~live'[s] /\ ~Starting(SlotCpu[s], s)'
    BY <1>2, <1>3, <1>4
  <2> QED
    BY <2>1 DEF Quiet
<1> QED
  BY <1>4

\* An answer that counts after a step counted before it.
LEMMA CountedBefore ==
  ASSUME TypeOK, Placement, EpochsAgree, NEW c \in Cores, Acts(c),
         NEW i \in Instr, i.e <= life[i.s[1]].epoch, Counts(i)'
  PROVE  Counts(i)
<1>1. i.s[1] \in Vms /\ life[i.s[1]].epoch \in Nat /\ i.e \in Int
  BY SlotTypes, LifeFields DEF Instr, TypeOK, Token, Reserved
<1>2. ~Opens(c, i.s[1])
  <2> SUFFICES ASSUME Opens(c, i.s[1]) PROVE FALSE
    OBVIOUS
  <2>1. life'[i.s[1]].epoch = life[i.s[1]].epoch + 1
    BY <1>1, Opening
  <2> QED
    BY <1>1, <2>1 DEF Counts
<1>3. Steady(c, i.s[1])
  BY <1>1, <1>2, Moves
<1> QED
  BY <1>3 DEF Counts, Steady

LEMMA AnswersTrueStep ==
  ASSUME TypeOK, Placement, EpochsAgree, EpochsBegun, FinishingOpen, AnswersTrue, NEW c \in Cores, Acts(c)
  PROVE  AnswersTrue'
<1>0. agenda \in [Cores -> Seq(Instr)] /\ mail \in [Cores -> Seq(Instr)]
  BY DEF TypeOK
<1>1. /\ \A d \in Cores : \A k \in DOMAIN agenda[d] : agenda[d][k] \in Instr
      /\ \A d \in Cores : \A k \in DOMAIN mail[d] : mail[d][k] \in Instr
  BY <1>0, ElementOfSeq, LenProperties
<1>2. ASSUME NEW i \in Instr, Counts(i)', i.e <= life[i.s[1]].epoch PROVE Counts(i)
  BY <1>2, CountedBefore
<1>3. ASSUME NEW i \in Instr, Counts(i), Quiet(i.s) PROVE Quiet(i.s)'
  <2>1. i.s \in Slots
    BY DEF Instr
  <2>2. PICK s \in Slots : s = i.s
    BY <2>1
  <2>3. Quiet(s)'
    BY <1>3, <2>2, StaysQuiet DEF Counts
  <2> QED
    BY <2>2, <2>3
<1>4. ASSUME NEW d \in Cores, NEW k \in DOMAIN agenda[d], NEW i, i = agenda[d][k], Counts(i)'
      PROVE  Counts(i) /\ i \in Instr /\ i.s \in Slots
  <2>1. i \in Instr /\ i.s \in Slots
    BY <1>1, <1>4 DEF Instr
  <2>2. i.do \in EpochSteps
    BY <1>4, Classes DEF Counts
  <2> QED
    BY <1>2, <1>4, <2>1, <2>2 DEF EpochsBegun
<1>5. ASSUME NEW d \in Cores, NEW k \in DOMAIN mail[d], NEW i, i = mail[d][k], Counts(i)'
      PROVE  Counts(i) /\ Quiet(i.s)'
  <2>1. i \in Instr
    BY <1>1, <1>5
  <2>2. i.do \in EpochSteps
    BY <1>5, Classes DEF Counts
  <2>3. Counts(i)
    BY <1>2, <1>5, <2>1, <2>2 DEF EpochsBegun
  <2> QED
    BY <1>3, <1>5, <2>1, <2>3 DEF AnswersTrue
\* An answer on an agenda: about a quiet vCPU, or right behind its retirement.
<1>6. ASSUME NEW d \in Cores, NEW k \in DOMAIN agenda[d], NEW i, i = agenda[d][k], Counts(i)', Quiet(i.s)
      PROVE  Quiet(i.s)'
  BY <1>3, <1>4, <1>6
<1>7. ASSUME NEW d \in Cores, NEW k \in DOMAIN agenda'[d], NEW i, i = agenda'[d][k], Counts(i)'
      PROVE  \/ Quiet(i.s)'
             \/ /\ k = 2 /\ SlotCpu[agenda'[d][2].s] = d
                /\ agenda'[d][1].do = "retire_vcpu" /\ agenda'[d][1].s = agenda'[d][2].s
  <2>1. CASE d # c /\ agenda'[d] = agenda[d]
    <3>1. k \in DOMAIN agenda[d] /\ i = agenda[d][k] /\ Counts(i)
      BY <1>4, <1>7, <2>1
    <3>2. CASE Quiet(i.s)
      BY <1>6, <1>7, <3>1, <3>2
    <3>3. CASE k = 2 /\ SlotCpu[agenda[d][2].s] = d /\ agenda[d][1].do = "retire_vcpu" /\ agenda[d][1].s = agenda[d][2].s
      BY <2>1, <3>3
    <3> QED
      BY <3>1, <3>2, <3>3 DEF AnswersTrue
  <2>2. CASE d = c /\ Execute(c) /\ Advanced(c, k)
    <3>1. PICK j \in DOMAIN agenda[c] : j > 1 /\ i = agenda[c][j]
      BY <1>7, <2>2 DEF Advanced
    <3>2. Counts(i) /\ i.s \in Slots
      BY <1>4, <1>7, <3>1
    <3>3. CASE Quiet(i.s)
      BY <1>6, <1>7, <3>1, <3>3
    <3>4. CASE j = 2 /\ SlotCpu[agenda[c][2].s] = c /\ agenda[c][1].do = "retire_vcpu" /\ agenda[c][1].s = agenda[c][2].s
      <4>1. Now(c) = agenda[c][1]
        BY <2>2, Frames, HeadFacts
      <4>2. Now(c).do = "retire_vcpu" /\ Now(c).s = i.s /\ SlotCpu[Now(c).s] = c
        BY <3>1, <3>4, <4>1
      <4> QED
        BY <2>2, <3>2, <4>2, RetiredQuiet
    <3> QED
      BY <3>1, <3>2, <3>3, <3>4 DEF AnswersTrue
  <2>3. CASE d = c /\ Execute(c) /\ Left(c, agenda'[c][1], k, agenda'[c][k])
    BY <1>7, <2>3 DEF Left, LeftAnswer, Counts
  <2>4. CASE d = c /\ Begins(c, k, agenda'[c][k])
    BY <1>7, <2>4, Classes DEF Begins, Counts
  <2>5. CASE d = c /\ k \in DOMAIN mail[c] /\ agenda'[c][k] = mail[c][k]
    BY <1>5, <1>7, <2>5
  <2> QED
    BY <1>7, <2>1, <2>2, <2>3, <2>4, <2>5, Origins
<1>8. ASSUME NEW d \in Cores, NEW k \in DOMAIN mail'[d], NEW i, i = mail'[d][k], Counts(i)'
      PROVE  Quiet(i.s)'
  <2>1. CASE k \in DOMAIN mail[d] /\ mail'[d][k] = mail[d][k]
    BY <1>5, <1>8, <2>1
  <2>2. CASE Execute(c) /\ Sent(c, d, mail'[d][k])
    <3>1. /\ i \in Instr /\ Now(c).do = "send_ack" /\ i.s = Now(c).s /\ i.e = Now(c).e
      BY <1>8, <2>2, Classes DEF Sent, Counts
    <3>2. agenda[c] # <<>> /\ 1 \in DOMAIN agenda[c] /\ Now(c) = agenda[c][1]
      BY <2>2, Frames, HeadFacts
    <3>3. agenda[c][1].do = "send_ack" /\ agenda[c][1].s = i.s /\ agenda[c][1].e = i.e
      BY <3>1, <3>2
    <3>4. i.e <= life[i.s[1]].epoch
      BY <3>2, <3>3 DEF EpochsBegun, EpochSteps, AnswerSteps
    <3>5. Counts(i)
      BY <1>2, <1>8, <3>1, <3>4
    <3>6. Counts(agenda[c][1])
      BY <3>3, <3>5 DEF Counts, AnswerSteps
    <3>7. Quiet(i.s)
      BY <3>2, <3>3, <3>6 DEF AnswersTrue
    <3> QED
      BY <1>3, <3>1, <3>5, <3>7
  <2>3. CASE mail'[d][k].do \in {"post_virq", "recover_dma_fault"}
    BY <1>8, <2>3, Classes DEF Counts
  <2> QED
    BY <1>8, <2>1, <2>2, <2>3, MailOrigins
<1>9. ASSUME NEW d \in Cores, NEW k \in DOMAIN agenda'[d], Counts(agenda[d][k])'
      PROVE  \/ Quiet(agenda[d][k].s)'
             \/ /\ k = 2 /\ SlotCpu[agenda'[d][2].s] = d
                /\ agenda'[d][1].do = "retire_vcpu" /\ agenda'[d][1].s = agenda'[d][2].s
  <2>1. PICK i : i = agenda'[d][k]
    OBVIOUS
  <2>2. Counts(i)'
    BY <1>9, <2>1 DEF Counts
  <2>3. Quiet(i.s)' => Quiet(agenda[d][k].s)'
    BY <2>1 DEF Quiet, Starting, Now
  <2> QED
    BY <1>7, <1>9, <2>1, <2>2, <2>3
<1>10. ASSUME NEW d \in Cores, NEW k \in DOMAIN mail'[d], Counts(mail[d][k])'
       PROVE  Quiet(mail[d][k].s)'
  <2>1. PICK i : i = mail'[d][k]
    OBVIOUS
  <2>2. Counts(i)'
    BY <1>10, <2>1 DEF Counts
  <2>3. Quiet(i.s)' => Quiet(mail[d][k].s)'
    BY <2>1 DEF Quiet, Starting, Now
  <2> QED
    BY <1>8, <1>10, <2>1, <2>2, <2>3
<1> QED
  BY <1>9, <1>10 DEF AnswersTrue

-----------------------------------------------------------------------------
(* A claim has one carrier.                                                *)

LEMMA PostEntries ==
  ASSUME TypeOK, NEW d \in Cores, NEW m \in Instr, Post(d, m)
  PROVE  /\ \A b \in Cores : \A k \in DOMAIN mail[b] : k \in DOMAIN mail'[b] /\ mail'[b][k] = mail[b][k]
         /\ \A b \in Cores : \A k \in DOMAIN mail'[b] :
              k \in DOMAIN mail[b] \/ (b = d /\ k = Len(mail[d]) + 1 /\ mail'[b][k] = m)
         /\ Len(mail[d]) + 1 \in Nat /\ Len(mail[d]) + 1 \in DOMAIN mail'[d]
         /\ mail'[d][Len(mail[d]) + 1] = m
<1>1. mail \in [Cores -> Seq(Instr)] /\ mail[d] \in Seq(Instr)
  BY DEF TypeOK
<1>2. /\ mail'[d] = Append(mail[d], m) /\ \A b \in Cores \ {d} : mail'[b] = mail[b]
  BY <1>1 DEF Post
<1>3. /\ Len(mail[d]) \in Nat /\ DOMAIN mail[d] = 1..Len(mail[d])
      /\ DOMAIN Append(mail[d], m) = 1..(Len(mail[d]) + 1)
      /\ Append(mail[d], m)[Len(mail[d]) + 1] = m
      /\ \A j \in 1..Len(mail[d]) : Append(mail[d], m)[j] = mail[d][j]
  BY <1>1, LenProperties, AppendProperties
<1>4. /\ Len(mail[d]) + 1 \in DOMAIN mail'[d] /\ mail'[d][Len(mail[d]) + 1] = m
      /\ \A k \in DOMAIN mail[d] : k \in DOMAIN mail'[d] /\ mail'[d][k] = mail[d][k]
      /\ \A k \in DOMAIN mail'[d] : k \in DOMAIN mail[d] \/ k = Len(mail[d]) + 1
  BY <1>2, <1>3
<1> QED
  BY <1>2, <1>3, <1>4

\* A place in an agenda or a mailbox is a number.
LEMMA Places ==
  ASSUME TypeOK, NEW c \in Cores
  PROVE  /\ \A k \in DOMAIN agenda[c] : k \in Nat /\ k >= 1
         /\ \A k \in DOMAIN mail[c] : k \in Nat /\ k >= 1
<1>1. agenda[c] \in Seq(Instr) /\ mail[c] \in Seq(Instr)
  BY DEF TypeOK
<1>2. DOMAIN agenda[c] = 1..Len(agenda[c]) /\ DOMAIN mail[c] = 1..Len(mail[c])
      /\ Len(agenda[c]) \in Nat /\ Len(mail[c]) \in Nat
  BY <1>1, LenProperties
<1> QED
  BY <1>2

\* What becomes of carriers in a step that executes an instruction and
\* leaves n others in its place.
Handed(c, n) ==
  \A vm \in Vms :
    /\ \A d \in Cores \ {c} : \A k \in Nat : InHand(vm, d, k)' <=> InHand(vm, d, k)
    /\ \A k \in Nat : InHand(vm, c, k)' =>
         \/ k + 1 - n \in Nat /\ k + 1 - n > 1 /\ InHand(vm, c, k + 1 - n)
         \/ /\ k = 1 /\ n >= 1 /\ Now(c).s[1] = vm
            /\ Now(c).do \in {"claim", "claimed", "send_begin"}
            /\ Now(c).do = "claim" => token[vm] = Inactive
    /\ \A j \in Nat : j > 1 /\ InHand(vm, c, j) => j + n - 1 \in Nat /\ InHand(vm, c, j + n - 1)'
    /\ \A d \in Cores, k \in Nat : InBox(vm, d, k) => InBox(vm, d, k)'
    /\ \A d \in Cores, k \in Nat : InBox(vm, d, k)' /\ ~InBox(vm, d, k) =>
         /\ Now(c).do = "send_begin" /\ Now(c).s[1] = vm /\ mail' # mail
         /\ \A b \in Cores, j \in Nat : InBox(vm, b, j)' /\ ~InBox(vm, b, j) => d = b /\ k = j

LEMMA Handing ==
  ASSUME TypeOK, Placement, NEW c \in Cores, Execute(c)
  PROVE  \E is : /\ Then(c, is) /\ is \in Seq(Instr) /\ Len(is) \in Nat
                 /\ \A k \in 1..Len(is) : Left(c, is[1], k, is[k])
                 /\ Handed(c, Len(is))
<1>1. agenda[c] # <<>>
  BY Frames
<1>2. PICK is : Then(c, is) /\ Fits(c, is)
  BY Emission
<1>3. is \in Seq(Instr) /\ \A k \in 1..Len(is) : Left(c, is[1], k, is[k])
  BY <1>2 DEF Fits
<1> DEFINE n == Len(is)
<1>4. /\ \A d \in Cores \ {c} : agenda'[d] = agenda[d]
      /\ n \in Nat
      /\ \A k \in 1..n : k \in DOMAIN agenda'[c] /\ agenda'[c][k] = is[k]
      /\ \A k \in DOMAIN agenda'[c] : k > n =>
           k + 1 - n \in DOMAIN agenda[c] /\ agenda'[c][k] = agenda[c][k + 1 - n]
      /\ \A j \in DOMAIN agenda[c] : j > 1 =>
           j + n - 1 \in DOMAIN agenda'[c] /\ agenda'[c][j + n - 1] = agenda[c][j]
  BY <1>1, <1>2, <1>3, ThenEntries
<1> HIDE DEF n
<1>5. TypeOK'
  BY ExecuteType
<1>6. \A k \in DOMAIN agenda'[c] : k \in Nat /\ k >= 1
  <2>1. agenda'[c] \in Seq(Instr)
    BY <1>5 DEF TypeOK
  <2> QED
    BY <2>1, LenProperties
<1> SUFFICES ASSUME NEW vm \in Vms
             PROVE
    /\ \A d \in Cores \ {c} : \A k \in Nat : InHand(vm, d, k)' <=> InHand(vm, d, k)
    /\ \A k \in Nat : InHand(vm, c, k)' =>
         \/ k + 1 - n \in Nat /\ k + 1 - n > 1 /\ InHand(vm, c, k + 1 - n)
         \/ /\ k = 1 /\ n >= 1 /\ Now(c).s[1] = vm
            /\ Now(c).do \in {"claim", "claimed", "send_begin"}
            /\ Now(c).do = "claim" => token[vm] = Inactive
    /\ \A j \in Nat : j > 1 /\ InHand(vm, c, j) => j + n - 1 \in Nat /\ InHand(vm, c, j + n - 1)'
    /\ \A d \in Cores, k \in Nat : InBox(vm, d, k) => InBox(vm, d, k)'
    /\ \A d \in Cores, k \in Nat : InBox(vm, d, k)' /\ ~InBox(vm, d, k) =>
         /\ Now(c).do = "send_begin" /\ Now(c).s[1] = vm /\ mail' # mail
         /\ \A b \in Cores, j \in Nat : InBox(vm, b, j)' /\ ~InBox(vm, b, j) => d = b /\ k = j
  BY <1>2, <1>3, <1>4 DEF Handed, n
<1>7. \A d \in Cores \ {c} : \A k \in Nat : InHand(vm, d, k)' <=> InHand(vm, d, k)
  BY <1>4 DEF InHand, Carrying
<1>8. ASSUME NEW k \in Nat, InHand(vm, c, k)'
      PROVE  \/ k + 1 - n \in Nat /\ k + 1 - n > 1 /\ InHand(vm, c, k + 1 - n)
             \/ /\ k = 1 /\ n >= 1 /\ Now(c).s[1] = vm
                /\ Now(c).do \in {"claim", "claimed", "send_begin"}
                /\ Now(c).do = "claim" => token[vm] = Inactive
  <2>1. k \in DOMAIN agenda'[c] /\ Carrying(vm, agenda'[c][k]) /\ k >= 1
    BY <1>6, <1>8 DEF InHand, Carrying
  <2>2. CASE k > n
    BY <1>4, <2>1, <2>2 DEF InHand
  <2>3. CASE k <= n
    <3>1. k \in 1..n /\ agenda'[c][k] = is[k]
      BY <1>4, <2>1, <2>3
    <3>2. Left(c, is[1], k, is[k]) /\ Carrying(vm, is[k])
      BY <1>3, <2>1, <3>1 DEF n
    <3>3. is[k].s[1] = vm /\ is[k].do \in CarrySteps
      BY <3>2 DEF Carrying, CarrySteps
    <3> QED
      BY <2>1, <2>3, <3>2, <3>3 DEF Left, LeftPlaced, LeftCarrier
  <2> QED
    BY <1>4, <2>2, <2>3
<1>9. ASSUME NEW j \in Nat, j > 1, InHand(vm, c, j)
      PROVE  j + n - 1 \in Nat /\ InHand(vm, c, j + n - 1)'
  <2>1. j \in DOMAIN agenda[c] /\ Carrying(vm, agenda[c][j])
    BY <1>9 DEF InHand
  <2>2. j + n - 1 \in DOMAIN agenda'[c] /\ agenda'[c][j + n - 1] = agenda[c][j] /\ j + n - 1 \in Nat
    BY <1>4, <1>9, <2>1
  <2> QED
    BY <2>1, <2>2 DEF InHand, Carrying
<1>10. ASSUME mail' # mail
       PROVE  /\ \A d \in Cores, k \in Nat : InBox(vm, d, k) => InBox(vm, d, k)'
              /\ \A d \in Cores, k \in Nat : InBox(vm, d, k)' /\ ~InBox(vm, d, k) =>
                   /\ Now(c).do = "send_begin" /\ Now(c).s[1] = vm
                   /\ \A b \in Cores, j \in Nat : InBox(vm, b, j)' /\ ~InBox(vm, b, j) => d = b /\ k = j
  <2>0. PICK x \in Cores : \E m : Post(x, m) /\ Sent(c, x, m)
    BY <1>10, Sending
  <2>1. PICK m : Post(x, m) /\ Sent(c, x, m)
    BY <2>0
  <2>2. m \in Instr /\ m.s[1] = Now(c).s[1] /\ (m.do \in CarrySteps => Now(c).do = "send_begin")
    BY <2>1 DEF Sent
  <2>3. /\ \A b \in Cores : \A k \in DOMAIN mail[b] : k \in DOMAIN mail'[b] /\ mail'[b][k] = mail[b][k]
        /\ \A b \in Cores : \A k \in DOMAIN mail'[b] :
             k \in DOMAIN mail[b] \/ (b = x /\ k = Len(mail[x]) + 1 /\ mail'[b][k] = m)
    BY <2>1, <2>2, PostEntries
  <2>4. ASSUME NEW d \in Cores, NEW k \in Nat, InBox(vm, d, k) PROVE InBox(vm, d, k)'
    BY <2>3, <2>4 DEF InBox, Carrying
  <2>5. ASSUME NEW d \in Cores, NEW k \in Nat, InBox(vm, d, k)', ~InBox(vm, d, k)
        PROVE  d = x /\ k = Len(mail[x]) + 1 /\ Now(c).do = "send_begin" /\ Now(c).s[1] = vm
    <3>1. k \in DOMAIN mail'[d] /\ Carrying(vm, mail'[d][k])
      BY <2>5 DEF InBox, Carrying
    <3>2. d = x /\ k = Len(mail[x]) + 1 /\ mail'[d][k] = m
      BY <2>3, <2>5, <3>1 DEF InBox
    <3> QED
      BY <2>2, <3>1, <3>2 DEF Carrying, CarrySteps
  <2> QED
    BY <2>4, <2>5
<1>11. CASE mail' # mail
  BY <1>7, <1>8, <1>9, <1>10, <1>11
<1>12. CASE mail' = mail
  <2>1. \A d \in Cores, k \in Nat : InBox(vm, d, k)' <=> InBox(vm, d, k)
    BY <1>12 DEF InBox
  <2> QED
    BY <1>7, <1>8, <1>9, <2>1
<1> QED
  BY <1>11, <1>12

\* Carriers that the step does not execute stay carriers, one for one.
LEMMA SameCarriers ==
  ASSUME TypeOK, NEW c \in Cores, NEW n \in Nat, Handed(c, n), NEW vm \in Vms, CarriageOf(vm),
         ~InHand(vm, c, 1),
         \/ Now(c).s[1] # vm \/ Now(c).do \notin {"claim", "claimed", "send_begin"}
         \/ Now(c).do = "claim" /\ token[vm] # Inactive,
         token'[vm] = token[vm] \/ (token[vm] # Reserved /\ token'[vm] # Reserved)
  PROVE  CarriageOf(vm)'
<1>1. \A d \in Cores \ {c} : \A k \in Nat : InHand(vm, d, k)' <=> InHand(vm, d, k)
  BY DEF Handed
<1>2. \A k \in Nat : InHand(vm, c, k)' => k + 1 - n \in Nat /\ InHand(vm, c, k + 1 - n)
  BY DEF Handed
<1>3. \A j \in Nat : j > 1 /\ InHand(vm, c, j) => j + n - 1 \in Nat /\ InHand(vm, c, j + n - 1)'
  BY DEF Handed
<1>4. \A d \in Cores, k \in Nat : InBox(vm, d, k)' <=> InBox(vm, d, k)
  BY DEF Handed
<1>5. \A j \in Nat : InHand(vm, c, j) => j > 1
  BY Places DEF InHand
<1>6. ASSUME token'[vm] = Reserved
      PROVE  \E d \in Cores, k \in Nat : InHand(vm, d, k)' \/ InBox(vm, d, k)'
  <2>1. PICK d \in Cores, k \in Nat : InHand(vm, d, k) \/ InBox(vm, d, k)
    BY <1>6 DEF CarriageOf
  <2>2. CASE InBox(vm, d, k)
    BY <1>4, <2>2
  <2>3. CASE InHand(vm, d, k) /\ d # c
    BY <1>1, <2>3
  <2>4. CASE InHand(vm, d, k) /\ d = c
    BY <1>3, <1>5, <2>4
  <2> QED
    BY <2>1, <2>2, <2>3, <2>4
<1>7. ASSUME NEW d \in Cores, NEW k \in Nat, InHand(vm, d, k)'
      PROVE  \E j \in Nat : InHand(vm, d, j) /\ j = IF d = c THEN k + 1 - n ELSE k
  BY <1>1, <1>2, <1>7
<1>8. ASSUME NEW d \in Cores, NEW k \in Nat, InHand(vm, d, k)' \/ InBox(vm, d, k)'
      PROVE  token'[vm] = Reserved
  BY <1>4, <1>7, <1>8 DEF CarriageOf
<1>9. ASSUME NEW d \in Cores, NEW b \in Cores, NEW k \in Nat, NEW j \in Nat
      PROVE  /\ InHand(vm, d, k)' /\ InHand(vm, b, j)' => d = b /\ k = j
             /\ InBox(vm, d, k)' /\ InBox(vm, b, j)' => d = b /\ k = j
             /\ ~(InHand(vm, d, k)' /\ InBox(vm, b, j)')
  <2>1. ASSUME InHand(vm, d, k)', InHand(vm, b, j)' PROVE d = b /\ k = j
    <3>1. PICK x \in Nat : InHand(vm, d, x) /\ x = IF d = c THEN k + 1 - n ELSE k
      BY <1>7, <2>1
    <3>2. PICK y \in Nat : InHand(vm, b, y) /\ y = IF b = c THEN j + 1 - n ELSE j
      BY <1>7, <2>1
    <3>3. d = b /\ x = y
      BY <3>1, <3>2 DEF CarriageOf
    <3> QED
      BY <3>1, <3>2, <3>3
  <2> QED
    BY <1>4, <1>7, <2>1 DEF CarriageOf
<1> QED
  BY <1>6, <1>8, <1>9 DEF CarriageOf

\* Handing a lifecycle to its owner leaves one carrier: the message in the
\* owner's mailbox, or, when the mailbox is full, the release of the token.
LEMMA SendBeginTurn ==
  ASSUME TypeOK, Placement, NEW c \in Cores, SendBegin(c), NEW is \in Seq(Instr), Then(c, is),
         NEW vm \in Vms, Now(c).s[1] = vm
  PROVE  /\ mail' # mail => Len(is) = 0 \/ ~InHand(vm, c, 1)'
         /\ \E d \in Cores, k \in Nat : InHand(vm, d, k)' \/ InBox(vm, d, k)'
<1>1. agenda[c] # <<>> /\ Now(c).do = "send_begin"
  BY Heads
<1>2. Owner(vm) \in Cores /\ Now(c) \in Instr /\ Now(c).s \in Slots
  BY <1>1, HeadFacts, OwnerType
<1>3. \A e \in Seq(Instr) : Then(c, e) =>
        /\ Len(e) = Len(is)
        /\ \A k \in 1..Len(e) : k \in DOMAIN agenda'[c] /\ agenda'[c][k] = e[k]
  <2>1. ASSUME NEW e \in Seq(Instr), Then(c, e)
        PROVE  /\ Len(e) \in Nat /\ Len(agenda[c]) \in Nat /\ Len(agenda'[c]) = Len(e) + Len(agenda[c]) - 1
               /\ \A k \in 1..Len(e) : k \in DOMAIN agenda'[c] /\ agenda'[c][k] = e[k]
    BY <1>1, <2>1, ThenEntries
  <2>2. /\ Len(is) \in Nat /\ Len(agenda[c]) \in Nat /\ Len(agenda'[c]) = Len(is) + Len(agenda[c]) - 1
    BY <2>1
  <2> QED
    BY <2>1, <2>2
<1>4. ASSUME NEW e \in Seq(Instr), Then(c, e), 1 \in 1..Len(e)
      PROVE  InHand(vm, c, 1)' <=> Carrying(vm, e[1])
  <2>1. 1 \in DOMAIN agenda'[c] /\ agenda'[c][1] = e[1]
    BY <1>3, <1>4
  <2> QED
    BY <2>1 DEF InHand, Carrying
<1>5. CASE Accepts(Owner(vm), TRUE)
  <2> DEFINE m == Do("begin_lifecycle", Now(c).s, IF Now(c).op = "Stop" THEN "Stop" ELSE "Reset", 0)
             retire == Do("retire_vcpu", current[c], "None", 0)
  <2>1. /\ Post(Owner(vm), m)
        /\ Then(c, <<>>) \/ (current[c] # None /\ Then(c, <<retire>>))
    BY <1>5 DEF SendBegin
  <2>2. m.do = "begin_lifecycle" /\ m.s[1] = vm /\ m \in Instr
    <3>1. (IF Now(c).op = "Stop" THEN "Stop" ELSE "Reset") \in Ops
      BY DEF Ops
    <3>2. \A o \in Ops : LET x == Do("begin_lifecycle", Now(c).s, o, 0)
                         IN x \in Instr /\ x.do = "begin_lifecycle" /\ x.s = Now(c).s
      BY <1>1, OnSlotFacts, Names
    <3> QED
      BY <3>1, <3>2
  <2> HIDE DEF m
  <2>3. \E d \in Cores, k \in Nat : InBox(vm, d, k)'
    <3>1. PICK o \in Cores : o = Owner(vm)
      BY <1>2
    <3>2. \E k \in Nat : k \in DOMAIN mail'[o] /\ mail'[o][k] = m
      BY <2>1, <2>2, <3>1, PostEntries
    <3>3. PICK k \in Nat : k \in DOMAIN mail'[o] /\ mail'[o][k] = m
      BY <3>2
    <3>4. InBox(vm, o, k)'
      BY <2>2, <3>3 DEF InBox, Carrying
    <3> QED
      BY <3>4
  <2>4. Len(is) = 0 \/ ~InHand(vm, c, 1)'
    <3>1. CASE Then(c, <<>>)
      <4>1. <<>> \in Seq(Instr) /\ Len(<<>>) = 0
        BY EmptySeq
      <4>2. \E e \in Seq(Instr) : Then(c, e) /\ Len(e) = 0
        BY <3>1, <4>1, Zenon
      <4> QED
        BY <1>3, <4>2
    <3>2. CASE current[c] # None /\ Then(c, <<retire>>)
      <4>1. current[c] \in Slots
        BY <3>2 DEF TypeOK
      <4>2. retire \in Instr /\ retire.do = "retire_vcpu"
        BY <4>1, DoNone, Names
      <4> HIDE DEF retire
      <4>3. <<retire>> \in Seq(Instr) /\ 1 \in 1..Len(<<retire>>) /\ <<retire>>[1] = retire
        BY <4>2
      <4>4. PICK e \in Seq(Instr) : Then(c, e) /\ 1 \in 1..Len(e) /\ e[1] = retire
        BY <3>2, <4>3, Zenon
      <4>5. ~Carrying(vm, e[1])
        BY <4>2, <4>4 DEF Carrying
      <4> QED
        BY <1>4, <4>4, <4>5
    <3> QED
      BY <2>1, <3>1, <3>2
  <2> QED
    BY <2>3, <2>4
<1>6. CASE ~Accepts(Owner(vm), TRUE)
  <2> DEFINE release == Turned(c, "release")
  <2>1. mail' = mail /\ Then(c, <<release>> \o Refused(Now(c)))
    BY <1>6 DEF SendBegin, Turned
  <2>2. release \in Instr /\ release.do = "release" /\ release.s[1] = vm
    BY <1>1, TurnedFacts, Names
  <2>3. Refused(Now(c)) \in Seq(Instr)
    BY <1>1, RefusedPlain
  <2> HIDE DEF release
  <2>4. \E e \in Seq(Instr) : Then(c, e) /\ 1 \in 1..Len(e) /\ e[1] = release
    <3>1. ASSUME NEW t \in Seq(Instr)
          PROVE  /\ <<release>> \o t \in Seq(Instr) /\ 1 \in 1..Len(<<release>> \o t)
                 /\ (<<release>> \o t)[1] = release
      BY <2>2
    <3>2. /\ <<release>> \o Refused(Now(c)) \in Seq(Instr) /\ 1 \in 1..Len(<<release>> \o Refused(Now(c)))
          /\ (<<release>> \o Refused(Now(c)))[1] = release
      BY <2>3, <3>1, Zenon
    <3> QED
      BY <2>1, <3>2, Zenon
  <2>5. PICK e \in Seq(Instr) : Then(c, e) /\ 1 \in 1..Len(e) /\ e[1] = release
    BY <2>4
  <2>6. Carrying(vm, e[1])
    BY <2>2, <2>5 DEF Carrying
  <2>7. InHand(vm, c, 1)'
    BY <1>4, <2>5, <2>6
  <2> QED
    BY <2>1, <2>7
<1> QED
  BY <1>5, <1>6

\* A step that executes the only carrier, if there is one, and leaves one.
LEMMA CarrierTurns ==
  ASSUME TypeOK, NEW c \in Cores, NEW n \in Nat, Handed(c, n), NEW vm \in Vms, token'[vm] = Reserved,
         \A d \in Cores, k \in Nat : InHand(vm, d, k) => d = c /\ k = 1,
         \A d \in Cores, k \in Nat : ~InBox(vm, d, k),
         \E d \in Cores, k \in Nat : InHand(vm, d, k)' \/ InBox(vm, d, k)',
         mail' # mail /\ Now(c).do = "send_begin" => n = 0 \/ ~InHand(vm, c, 1)'
  PROVE  CarriageOf(vm)'
<1>1. ASSUME NEW d \in Cores, NEW k \in Nat, InHand(vm, d, k)'
      PROVE  d = c /\ k = 1 /\ n >= 1
  <2>1. CASE d # c
    BY <1>1, <2>1 DEF Handed
  <2>2. CASE d = c
    <3>1. \/ k + 1 - n \in Nat /\ k + 1 - n > 1 /\ InHand(vm, c, k + 1 - n)
          \/ k = 1 /\ n >= 1
      BY <1>1, <2>2 DEF Handed
    <3>2. ~(k + 1 - n \in Nat /\ k + 1 - n > 1 /\ InHand(vm, c, k + 1 - n))
      OBVIOUS
    <3> QED
      BY <2>2, <3>1, <3>2
  <2> QED
    BY <2>1, <2>2
<1>2. ASSUME NEW d \in Cores, NEW k \in Nat, InBox(vm, d, k)'
      PROVE  /\ Now(c).do = "send_begin" /\ mail' # mail
             /\ \A b \in Cores, j \in Nat : InBox(vm, b, j)' => d = b /\ k = j
  BY <1>2 DEF Handed
<1>3. ASSUME NEW d \in Cores, NEW b \in Cores, NEW k \in Nat, NEW j \in Nat, InHand(vm, d, k)', InBox(vm, b, j)'
      PROVE  FALSE
  <2>1. d = c /\ k = 1 /\ n >= 1
    BY <1>1, <1>3
  <2>2. n = 0 \/ ~InHand(vm, c, 1)'
    BY <1>2, <1>3
  <2> QED
    BY <1>3, <2>1, <2>2
<1>4. ASSUME NEW d \in Cores, NEW b \in Cores, NEW k \in Nat, NEW j \in Nat
      PROVE  /\ InHand(vm, d, k)' /\ InHand(vm, b, j)' => d = b /\ k = j
             /\ InBox(vm, d, k)' /\ InBox(vm, b, j)' => d = b /\ k = j
             /\ ~(InHand(vm, d, k)' /\ InBox(vm, b, j)')
  BY <1>1, <1>2, <1>3
<1> QED
  BY <1>4 DEF CarriageOf

\* A step that executes the only carrier and gives the token up.
LEMMA CarrierEnds ==
  ASSUME TypeOK, NEW c \in Cores, NEW n \in Nat, Handed(c, n), NEW vm \in Vms, token'[vm] # Reserved,
         CarriageOf(vm), InHand(vm, c, 1), Now(c).do \notin {"claim", "claimed", "send_begin"}
  PROVE  CarriageOf(vm)'
<1>1. /\ \A d \in Cores, k \in Nat : InHand(vm, d, k) => d = c /\ k = 1
      /\ \A d \in Cores, k \in Nat : ~InBox(vm, d, k)
  BY DEF CarriageOf
<1>2. ASSUME NEW d \in Cores, NEW k \in Nat PROVE ~InHand(vm, d, k)'
  <2>1. CASE d # c
    BY <1>1, <2>1 DEF Handed
  <2>2. CASE d = c
    <3>1. ~(k + 1 - n \in Nat /\ k + 1 - n > 1 /\ InHand(vm, c, k + 1 - n))
      BY <1>1
    <3> QED
      BY <2>2, <3>1 DEF Handed
  <2> QED
    BY <2>1, <2>2
<1>3. ASSUME NEW d \in Cores, NEW k \in Nat PROVE ~InBox(vm, d, k)'
  BY <1>1 DEF Handed
<1> QED
  BY <1>2, <1>3 DEF CarriageOf

\* A winner of the token, and the core that begins or hands over what it
\* won, has the claim in its hands.
LEMMA ClaimInHand ==
  ASSUME TypeOK, Placement, NEW c \in Cores, NEW vm \in Vms, Now(c).s[1] = vm,
         Claimed(c) \/ (Claim(c) /\ token[vm] = Inactive)
  PROVE  InHand(vm, c, 1)'
<1>1. agenda[c] # <<>>
  BY Heads
<1> DEFINE first == {"claimed", "begin_lifecycle", "send_begin"}
<1>2. \E what \in first : Then(c, <<Turned(c, what)>>)
  BY DEF Claimed, Claim, Goto, Turned
<1>3. PICK what \in first : Then(c, <<Turned(c, what)>>)
  BY <1>2
<1>4. Turned(c, what) \in Instr /\ Turned(c, what).do = what /\ Turned(c, what).s[1] = vm
  <2>1. what \in Steps
    BY Names
  <2> QED
    BY <1>1, <2>1, TurnedFacts
<1>5. PICK i \in Instr : Then(c, <<i>>) /\ i.do = what /\ i.s[1] = vm
  BY <1>3, <1>4
<1>6. <<i>> \in Seq(Instr) /\ 1 \in 1..Len(<<i>>) /\ <<i>>[1] = i
  OBVIOUS
<1>7. PICK e \in Seq(Instr) : Then(c, e) /\ 1 \in 1..Len(e) /\ e[1] = i
  BY <1>5, <1>6, Zenon
<1>8. 1 \in DOMAIN agenda'[c] /\ agenda'[c][1] = i
  BY <1>1, <1>7, ThenEntries
<1> QED
  BY <1>5, <1>8 DEF InHand, Carrying

LEMMA CarriageRuns ==
  ASSUME TypeOK, Placement, EpochsAgree, FinishingOpen, Carriage, NEW c \in Cores, Execute(c),
         NEW vm \in Vms
  PROVE  CarriageOf(vm)'
<1>1. PICK is : /\ Then(c, is) /\ is \in Seq(Instr) /\ Len(is) \in Nat
                /\ Handed(c, Len(is))
  BY Handing
<1>2. CarriageOf(vm) /\ agenda[c] # <<>> /\ Now(c) = agenda[c][1] /\ 1 \in DOMAIN agenda[c]
  BY Frames, HeadFacts DEF Carriage
<1>3. Acts(c)
  BY DEF Acts
<1>4. ASSUME Now(c).s[1] = vm, Now(c).do \in CarrySteps
      PROVE  /\ InHand(vm, c, 1) /\ token[vm] = Reserved
             /\ \A d \in Cores, k \in Nat : InHand(vm, d, k) => d = c /\ k = 1
             /\ \A d \in Cores, k \in Nat : ~InBox(vm, d, k)
  <2>1. InHand(vm, c, 1) /\ token[vm] = Reserved
    BY <1>2, <1>4, HeadCarrier
  <2> QED
    BY <1>2, <2>1 DEF CarriageOf
<1>5. /\ life[vm].epoch \in Nat /\ Inactive = 0 /\ Reserved = -1 /\ Inactive # Reserved
  BY LifeFields DEF TypeOK, Inactive, Reserved
<1>6. CASE Opens(c, vm)
  <2>1. Now(c).do = "begin_lifecycle" /\ Now(c).s[1] = vm /\ token'[vm] = life[vm].epoch + 1
    BY <1>6, Opening DEF Opens
  <2>2. token'[vm] # Reserved
    BY <1>5, <2>1
  <2>3. InHand(vm, c, 1)
    BY <1>4, <2>1 DEF CarrySteps
  <2> QED
    BY <1>1, <1>2, <2>1, <2>2, <2>3, CarrierEnds
<1>7. CASE ~Opens(c, vm)
  <2>1. TokenMove(c, vm)
    BY <1>3, <1>7, Moves
  <2>2. CASE Now(c).s[1] # vm
    <3>1. token'[vm] = token[vm]
      BY <2>1, <2>2 DEF TokenMove
    <3>2. ~InHand(vm, c, 1)
      BY <1>2, <2>2 DEF InHand, Carrying
    <3> QED
      BY <1>1, <1>2, <2>2, <3>1, <3>2, SameCarriers
  <2>3. CASE Now(c).s[1] = vm /\ Now(c).do \notin CarrySteps \cup {"claim"}
    <3>1. ~InHand(vm, c, 1)
      BY <1>2, <2>3 DEF InHand, Carrying, CarrySteps
    <3>2. ~Claim(c) /\ ~Release(c)
      BY <2>3, Heads DEF CarrySteps
    <3>3. token'[vm] = token[vm] \/ (token[vm] # Reserved /\ token'[vm] # Reserved)
      <4>1. CASE Finish(c) /\ token'[vm] = Inactive
        <5>1. Now(c).do = "finish"
          BY <4>1, Heads
        <5>2. life[vm].active
          BY <1>2, <2>3, <5>1 DEF FinishingOpen, FinishSteps
        <5> QED
          BY <1>5, <4>1, <5>2, OpenFacts
      <4> QED
        BY <2>1, <3>2, <4>1 DEF TokenMove
    <3>4. Now(c).do \notin {"claim", "claimed", "send_begin"}
      BY <2>3 DEF CarrySteps
    <3> QED
      BY <1>1, <1>2, <3>1, <3>3, <3>4, SameCarriers
  <2>4. CASE Now(c).s[1] = vm /\ Now(c).do = "claim"
    <3>1. Claim(c)
      BY <2>4, Heads DEF Execute
    <3>2. ~InHand(vm, c, 1)
      BY <1>2, <2>4 DEF InHand, Carrying
    <3>3. CASE token[vm] = Inactive
      <4>1. token'[vm] = Reserved
        BY <2>4, <3>1, <3>3 DEF Claim, TypeOK
      <4>2. /\ \A d \in Cores, k \in Nat : ~InHand(vm, d, k)
            /\ \A d \in Cores, k \in Nat : ~InBox(vm, d, k)
        BY <1>2, <1>5, <3>3 DEF CarriageOf
      <4>3. InHand(vm, c, 1)'
        BY <2>4, <3>1, <3>3, ClaimInHand
      <4> QED
        BY <1>1, <2>4, <4>1, <4>2, <4>3, CarrierTurns
    <3>4. CASE token[vm] # Inactive
      <4>1. ~Release(c) /\ ~Finish(c)
        BY <2>4, Heads
      <4>2. token'[vm] = token[vm]
        BY <2>1, <3>4, <4>1 DEF TokenMove
      <4> QED
        BY <1>1, <1>2, <2>4, <3>2, <3>4, <4>2, SameCarriers
    <3> QED
      BY <3>3, <3>4
  <2>5. CASE Now(c).s[1] = vm /\ Now(c).do \in {"claimed", "send_begin"}
    <3>1. /\ InHand(vm, c, 1) /\ token[vm] = Reserved
          /\ \A d \in Cores, k \in Nat : InHand(vm, d, k) => d = c /\ k = 1
          /\ \A d \in Cores, k \in Nat : ~InBox(vm, d, k)
      BY <1>4, <2>5 DEF CarrySteps
    <3>2. ~Claim(c) /\ ~Release(c) /\ ~Finish(c)
      BY <2>5, Heads
    <3>3. token'[vm] = Reserved
      BY <2>1, <3>1, <3>2 DEF TokenMove
    <3>4. /\ \E d \in Cores, k \in Nat : InHand(vm, d, k)' \/ InBox(vm, d, k)'
          /\ mail' # mail /\ Now(c).do = "send_begin" => Len(is) = 0 \/ ~InHand(vm, c, 1)'
      <4>1. CASE Now(c).do = "claimed"
        <5>1. Claimed(c)
          BY <4>1, Heads DEF Execute
        <5>2. InHand(vm, c, 1)'
          BY <2>5, <5>1, ClaimInHand
        <5> QED
          BY <4>1, <5>2
      <4>2. CASE Now(c).do = "send_begin"
        <5>1. SendBegin(c)
          BY <4>2, Heads DEF Execute
        <5> QED
          BY <1>1, <2>5, <5>1, SendBeginTurn
      <4> QED
        BY <2>5, <4>1, <4>2
    <3> QED
      BY <1>1, <3>1, <3>3, <3>4, CarrierTurns
  <2>6. CASE Now(c).s[1] = vm /\ Now(c).do \in {"begin_lifecycle", "release"}
    <3>1. InHand(vm, c, 1) /\ token[vm] = Reserved
      BY <1>4, <2>6 DEF CarrySteps
    <3>2. CASE Now(c).do = "begin_lifecycle"
      <4>1. BeginLifecycle(c)
        BY <3>2, Heads DEF Execute
      <4> QED
        BY <1>7, <2>6, <3>1, <4>1 DEF Opens
    <3>3. CASE Now(c).do = "release"
      <4>1. Release(c)
        BY <3>3, Heads DEF Execute
      <4>2. token'[vm] = Inactive
        BY <2>6, <4>1 DEF Release, TypeOK
      <4> QED
        BY <1>1, <1>2, <1>5, <3>1, <3>3, <4>2, CarrierEnds
    <3> QED
      BY <2>6, <3>2, <3>3
  <2> QED
    BY <2>2, <2>3, <2>4, <2>5, <2>6 DEF CarrySteps
<1> QED
  BY <1>6, <1>7

\* A resting core that empties its mailbox takes the carriers in it, place
\* for place; every other step of a resting core leaves all carriers alone.
LEMMA CarriageRests ==
  ASSUME TypeOK, Placement, EpochsAgree, Carriage, NEW c \in Cores, Interrupt(c) \/ Request(c),
         NEW vm \in Vms
  PROVE  CarriageOf(vm)'
<1>0. agenda \in [Cores -> Seq(Instr)] /\ mail \in [Cores -> Seq(Instr)]
  BY DEF TypeOK
<1>1. CarriageOf(vm) /\ agenda[c] = <<>> /\ token'[vm] = token[vm]
  BY Outside DEF Carriage
<1>2. \A k \in Nat : ~InHand(vm, c, k)
  BY <1>0, <1>1, EmptySeq DEF InHand
<1>3. CASE DrainMail(c)
  <2>1. /\ agenda' = [agenda EXCEPT ![c] = mail[c]] /\ mail' = [mail EXCEPT ![c] = <<>>]
    BY <1>3 DEF DrainMail, Enter
  <2>2. /\ agenda'[c] = mail[c] /\ mail'[c] = <<>>
        /\ \A d \in Cores \ {c} : agenda'[d] = agenda[d] /\ mail'[d] = mail[d]
    BY <1>0, <2>1
  <2>3. \A k \in Nat : (InHand(vm, c, k)' <=> InBox(vm, c, k)) /\ ~InBox(vm, c, k)'
    BY <2>2, EmptySeq DEF InHand, InBox, Carrying
  <2>4. \A d \in Cores \ {c}, k \in Nat :
          (InHand(vm, d, k)' <=> InHand(vm, d, k)) /\ (InBox(vm, d, k)' <=> InBox(vm, d, k))
    BY <2>2 DEF InHand, InBox, Carrying
  <2>5. \A d \in Cores, k \in Nat : InHand(vm, d, k)' \/ InBox(vm, d, k)' <=> InHand(vm, d, k) \/ InBox(vm, d, k)
    BY <1>2, <2>3, <2>4
  <2>6. ASSUME NEW d \in Cores, NEW b \in Cores, NEW k \in Nat, NEW j \in Nat
        PROVE  /\ InHand(vm, d, k)' /\ InHand(vm, b, j)' => d = b /\ k = j
               /\ InBox(vm, d, k)' /\ InBox(vm, b, j)' => d = b /\ k = j
               /\ ~(InHand(vm, d, k)' /\ InBox(vm, b, j)')
    BY <1>1, <2>3, <2>4 DEF CarriageOf
  <2> QED
    BY <1>1, <2>5, <2>6 DEF CarriageOf
<1>4. CASE ~DrainMail(c)
  <2>1. \A d \in Cores, k \in Nat : InHand(vm, d, k)' <=> InHand(vm, d, k)
    <3>1. CASE agenda' = agenda
      BY <3>1 DEF InHand, Carrying
    <3>2. CASE \E is : Enter(c, is) /\ Taken(c, is)
      <4>1. PICK is : Enter(c, is) /\ Taken(c, is)
        BY <3>2
      <4>2. is \in Seq(Instr) /\ DOMAIN is = 1..Len(is)
        BY <4>1, LenProperties DEF Taken
      <4>3. agenda'[c] = is /\ \A d \in Cores \ {c} : agenda'[d] = agenda[d]
        BY <1>0, <4>1 DEF Enter
      <4>4. \A k \in DOMAIN is : is[k].do \notin CarrySteps
        BY <4>1, <4>2, Classes DEF Taken, Begins
      <4>5. \A k \in Nat : ~InHand(vm, c, k)'
        BY <4>3, <4>4 DEF InHand, Carrying, CarrySteps
      <4> QED
        BY <1>2, <4>3, <4>5 DEF InHand, Carrying
    <3> QED
      BY <1>4, <3>1, <3>2, Outside
  <2>2. \A d \in Cores, k \in Nat : InBox(vm, d, k)' <=> InBox(vm, d, k)
    <3>1. CASE mail' = mail
      BY <3>1 DEF InBox, Carrying
    <3>2. CASE \E d \in Cores : \E m : Post(d, m) /\ m \in Instr /\ m.do \in {"post_virq", "recover_dma_fault"}
      <4>1. PICK x \in Cores, m \in Instr : Post(x, m) /\ m.do \in {"post_virq", "recover_dma_fault"}
        BY <3>2
      <4>2. /\ \A b \in Cores : \A k \in DOMAIN mail[b] : k \in DOMAIN mail'[b] /\ mail'[b][k] = mail[b][k]
            /\ \A b \in Cores : \A k \in DOMAIN mail'[b] :
                 k \in DOMAIN mail[b] \/ (b = x /\ k = Len(mail[x]) + 1 /\ mail'[b][k] = m)
        BY <4>1, PostEntries
      <4> QED
        BY <4>1, <4>2 DEF InBox, Carrying
    <3> QED
      BY <1>4, <3>1, <3>2, Outside
  <2> QED
    BY <1>1, <2>1, <2>2 DEF CarriageOf
<1> QED
  BY <1>3, <1>4

LEMMA CarriageStep ==
  ASSUME TypeOK, Placement, EpochsAgree, FinishingOpen, Carriage, NEW c \in Cores, Acts(c)
  PROVE  Carriage'
<1>1. \A vm \in Vms : CarriageOf(vm)'
  BY CarriageRuns, CarriageRests DEF Acts
<1> QED
  BY <1>1 DEF Carriage

\* The backlog of a core lists its agenda, then its mailbox.
LEMMA BacklogPlaces ==
  ASSUME TypeOK, NEW c \in Cores
  PROVE  \E n \in Nat :
           /\ \A k \in DOMAIN Backlog(c) :
                /\ k \in Nat
                /\ \/ k \in DOMAIN agenda[c] /\ Backlog(c)[k] = agenda[c][k]
                   \/ k - n \in Nat /\ k - n \in DOMAIN mail[c] /\ Backlog(c)[k] = mail[c][k - n]
           /\ \A k \in DOMAIN agenda[c] : k \in DOMAIN Backlog(c) /\ Backlog(c)[k] = agenda[c][k]
           /\ \A k \in DOMAIN mail[c] : k + n \in DOMAIN Backlog(c) /\ Backlog(c)[k + n] = mail[c][k]
<1>1. agenda[c] \in Seq(Instr) /\ mail[c] \in Seq(Instr)
  BY DEF TypeOK
<1>2. ASSUME NEW a \in Seq(Instr), NEW b \in Seq(Instr)
      PROVE  \E n \in Nat :
           /\ \A k \in DOMAIN (a \o b) :
                /\ k \in Nat
                /\ \/ k \in DOMAIN a /\ (a \o b)[k] = a[k]
                   \/ k - n \in Nat /\ k - n \in DOMAIN b /\ (a \o b)[k] = b[k - n]
           /\ \A k \in DOMAIN a : k \in DOMAIN (a \o b) /\ (a \o b)[k] = a[k]
           /\ \A k \in DOMAIN b : k + n \in DOMAIN (a \o b) /\ (a \o b)[k + n] = b[k]
  <2>1. /\ Len(a) \in Nat /\ Len(b) \in Nat /\ DOMAIN a = 1..Len(a) /\ DOMAIN b = 1..Len(b)
        /\ DOMAIN (a \o b) = 1..(Len(a) + Len(b))
        /\ \A k \in 1..(Len(a) + Len(b)) : (a \o b)[k] = IF k <= Len(a) THEN a[k] ELSE b[k - Len(a)]
    BY LenProperties, ConcatProperties
  <2> DEFINE n == Len(a)
  <2>2. ASSUME NEW k \in DOMAIN (a \o b)
        PROVE  /\ k \in Nat
               /\ \/ k \in DOMAIN a /\ (a \o b)[k] = a[k]
                  \/ k - n \in Nat /\ k - n \in DOMAIN b /\ (a \o b)[k] = b[k - n]
    BY <2>1
  <2>3. ASSUME NEW k \in DOMAIN a PROVE k \in DOMAIN (a \o b) /\ (a \o b)[k] = a[k]
    BY <2>1
  <2>4. ASSUME NEW k \in DOMAIN b PROVE k + n \in DOMAIN (a \o b) /\ (a \o b)[k + n] = b[k]
    BY <2>1
  <2> QED
    BY <2>1, <2>2, <2>3, <2>4
<1> QED
  BY <1>1, <1>2 DEF Backlog

\* Counting carriers by their places in the backlogs says the same thing.
LEMMA OneCarrierHolds ==
  ASSUME TypeOK, Carriage
  PROVE  OneCarrier
<1> SUFFICES ASSUME NEW vm \in Vms
             PROVE  IF token[vm] = Reserved
                    THEN \E c \in Cores : \E k \in DOMAIN Backlog(c) : Carriers(vm) = {<<c, k>>}
                    ELSE Carriers(vm) = {}
  BY DEF OneCarrier
<1>1. CarriageOf(vm)
  BY DEF Carriage
<1>2. ASSUME NEW p
      PROVE  p \in Carriers(vm) <=>
               \E c \in Cores : \E k \in DOMAIN Backlog(c) : p = <<c, k>> /\ Carrying(vm, Backlog(c)[k])
  BY DEF Carriers
\* A carrier in the backlog is one in hand or one in the mailbox.
<1>3. ASSUME NEW c \in Cores
      PROVE  \E n \in Nat : \A k \in DOMAIN Backlog(c) : Carrying(vm, Backlog(c)[k]) =>
               k \in Nat /\ (InHand(vm, c, k) \/ (k - n \in Nat /\ InBox(vm, c, k - n)))
  BY BacklogPlaces DEF InHand, InBox
<1>4. ASSUME NEW c \in Cores, NEW k \in DOMAIN Backlog(c), NEW j \in DOMAIN Backlog(c),
             Carrying(vm, Backlog(c)[k]), Carrying(vm, Backlog(c)[j])
      PROVE  k = j
  <2>1. PICK n \in Nat : \A x \in DOMAIN Backlog(c) : Carrying(vm, Backlog(c)[x]) =>
               x \in Nat /\ (InHand(vm, c, x) \/ (x - n \in Nat /\ InBox(vm, c, x - n)))
    BY <1>3
  <2>2. /\ k \in Nat /\ (InHand(vm, c, k) \/ (k - n \in Nat /\ InBox(vm, c, k - n)))
        /\ j \in Nat /\ (InHand(vm, c, j) \/ (j - n \in Nat /\ InBox(vm, c, j - n)))
    BY <1>4, <2>1
  <2>3. \/ k = j
        \/ k - n = j - n
    BY <1>1, <2>2 DEF CarriageOf
  <2> QED
    BY <2>2, <2>3
<1>5. ASSUME NEW c \in Cores, NEW k \in DOMAIN Backlog(c), NEW d \in Cores, NEW j \in DOMAIN Backlog(d),
             Carrying(vm, Backlog(c)[k]), Carrying(vm, Backlog(d)[j])
      PROVE  c = d /\ token[vm] = Reserved
  <2>1. \E x \in Nat : InHand(vm, c, x) \/ InBox(vm, c, x)
    BY <1>3, <1>5
  <2>2. \E x \in Nat : InHand(vm, d, x) \/ InBox(vm, d, x)
    BY <1>3, <1>5
  <2> QED
    BY <1>1, <2>1, <2>2 DEF CarriageOf
<1>6. CASE token[vm] = Reserved
  <2>1. PICK c \in Cores, k \in Nat : InHand(vm, c, k) \/ InBox(vm, c, k)
    BY <1>1, <1>6 DEF CarriageOf
  <2>2. \E j \in DOMAIN Backlog(c) : Carrying(vm, Backlog(c)[j])
    BY <2>1, BacklogPlaces DEF InHand, InBox
  <2>3. PICK j \in DOMAIN Backlog(c) : Carrying(vm, Backlog(c)[j])
    BY <2>2
  <2>4. <<c, j>> \in Carriers(vm)
    BY <1>2, <2>3
  <2>5. ASSUME NEW p \in Carriers(vm) PROVE p = <<c, j>>
    <3>1. \E d \in Cores : \E x \in DOMAIN Backlog(d) : p = <<d, x>> /\ Carrying(vm, Backlog(d)[x])
      BY <1>2, <2>5
    <3>2. PICK d \in Cores : \E x \in DOMAIN Backlog(d) : p = <<d, x>> /\ Carrying(vm, Backlog(d)[x])
      BY <3>1
    <3>3. PICK x \in DOMAIN Backlog(d) : p = <<d, x>> /\ Carrying(vm, Backlog(d)[x])
      BY <3>2
    <3>4. c = d
      BY <1>5, <2>3, <3>3
    <3>5. x \in DOMAIN Backlog(c) /\ Carrying(vm, Backlog(c)[x])
      BY <3>3, <3>4
    <3>6. x = j
      BY <1>4, <2>3, <3>5
    <3> QED
      BY <3>3, <3>4, <3>6
  <2>6. Carriers(vm) = {<<c, j>>}
    BY <2>4, <2>5
  <2> QED
    BY <1>6, <2>6
<1>7. CASE token[vm] # Reserved
  <2>1. Carriers(vm) = {}
    BY <1>2, <1>5, <1>7
  <2> QED
    BY <1>7, <2>1
<1> QED
  BY <1>6, <1>7
-----------------------------------------------------------------------------
(* A lifecycle restores memory only over a device that is drained.         *)

\* What a step does to the device of a VM.
Answered(vm) == \E d \in DmaAnswers(vm) : /\ inst'[vm].dma = d
                                          /\ inst'[vm].stream = (inst[vm].stream /\ d = "quiescing")
Resumed(c, vm) ==
  /\ Execute(c) /\ Now(c).do \in {"resume_start", "resume_reset"} /\ Now(c).s[1] = vm
  /\ inst'[vm].dma \in {"active", "failed"}
DeviceMove(c, vm) ==
  \/ inst'[vm].dma = inst[vm].dma /\ (inst'[vm].stream => inst[vm].stream)
  \/ Answered(vm)
  \/ Resumed(c, vm)

LEMMA AnswerMoves ==
  ASSUME TypeOK, NEW own \in Vms, NEW d \in DmaAnswers(own), DmaAnswer(own, d), NEW c \in Cores, NEW vm \in Vms
  PROVE  /\ DeviceMove(c, vm)
         /\ own = vm => inst'[vm].dma = d
<1>0. inst \in [Vms -> Instance]
  BY DEF TypeOK
<1>1. inst' = [inst EXCEPT ![own].dma = d, ![own].stream = @ /\ d = "quiescing"]
  BY DEF DmaAnswer
<1>2. CASE own # vm
  <2>1. inst'[vm] = inst[vm]
    BY <1>0, <1>1, <1>2
  <2> QED
    BY <1>2, <2>1 DEF DeviceMove
<1>3. CASE own = vm
  <2>1. inst'[vm] = [inst[vm] EXCEPT !.dma = d, !.stream = @ /\ d = "quiescing"] /\ inst[vm] \in Instance
    BY <1>0, <1>1, <1>3
  <2>2. inst'[vm].dma = d /\ inst'[vm].stream = (inst[vm].stream /\ d = "quiescing")
    BY <2>1 DEF Instance
  <2> QED
    BY <1>3, <2>2 DEF DeviceMove, Answered
<1> QED
  BY <1>2, <1>3

LEMMA DeviceMoves ==
  ASSUME TypeOK, Placement, EpochsAgree, NEW c \in Cores, Acts(c), NEW vm \in Vms
  PROVE  DeviceMove(c, vm)
<1>0. inst \in [Vms -> Instance] /\ inst[vm] \in Instance
  BY DEF TypeOK
<1>1. CASE inst' = inst
  BY <1>1 DEF DeviceMove
<1>2. CASE \E own \in Vms : \E d \in DmaAnswers(own) : DmaAnswer(own, d)
  BY <1>2, AnswerMoves
<1>3. ASSUME Execute(c), NEW attached \in BOOLEAN, DmaResume(Now(c).s[1], attached),
             Now(c).do \in {"resume_start", "resume_reset"}
      PROVE  DeviceMove(c, vm)
  <2> DEFINE own == Now(c).s[1]
  <2>1. \/ inst' = inst
        \/ inst' = [inst EXCEPT ![own].stream = TRUE, ![own].dma = "active", ![own].dmaGen = inst[own].gen]
        \/ inst' = [inst EXCEPT ![own].stream = FALSE, ![own].dma = "failed"]
    BY <1>3 DEF DmaResume
  <2>2. CASE own # vm
    <3>1. inst'[vm] = inst[vm]
      BY <1>0, <2>1, <2>2
    <3> QED
      BY <3>1 DEF DeviceMove
  <2>3. CASE own = vm /\ inst' # inst
    <3>1. inst'[vm].dma \in {"active", "failed"}
      BY <1>0, <2>1, <2>3 DEF Instance
    <3> QED
      BY <1>3, <2>3, <3>1 DEF DeviceMove, Resumed
  <2> QED
    BY <1>1, <2>2, <2>3
<1>4. CASE PrepareRest(c) \/ JoinVm(c) \/ Restore(c)
  <2> DEFINE own == Now(c).s[1]
  <2>1. \/ inst' = inst
        \/ inst' = [inst EXCEPT ![own].gen = @ + 1, ![own].restarts = 0]
        \/ inst' = [inst EXCEPT ![own].gen = @ + 1]
        \/ inst' = [inst EXCEPT ![own].restarts = @ + 1, ![own].gen = @ + 1]
    BY <1>4 DEF PrepareRest, JoinVm, Restore
  <2>2. CASE own # vm
    <3>1. inst'[vm] = inst[vm]
      BY <1>0, <2>1, <2>2
    <3> QED
      BY <3>1 DEF DeviceMove
  <2>3. CASE own = vm /\ inst' # inst
    <3>1. \/ inst'[vm] = [inst[vm] EXCEPT !.gen = @ + 1, !.restarts = 0]
          \/ inst'[vm] = [inst[vm] EXCEPT !.gen = @ + 1]
          \/ inst'[vm] = [inst[vm] EXCEPT !.restarts = @ + 1, !.gen = @ + 1]
      BY <1>0, <2>1, <2>3
    <3>2. inst'[vm].dma = inst[vm].dma /\ inst'[vm].stream = inst[vm].stream
      BY <1>0, <3>1 DEF Instance
    <3> QED
      BY <3>2 DEF DeviceMove
  <2> QED
    BY <1>1, <2>2, <2>3
<1>5. ASSUME NEW own \in Vms, DmaFault(c, own) PROVE DeviceMove(c, vm)
  <2>1. inst' = [inst EXCEPT ![own].stream = FALSE]
    BY <1>5 DEF DmaFault
  <2>2. inst'[vm].dma = inst[vm].dma /\ (inst'[vm].stream => inst[vm].stream)
    BY <1>0, <2>1 DEF Instance
  <2> QED
    BY <2>2 DEF DeviceMove
<1>6. CASE Execute(c)
  <2>1. agenda[c] # <<>> /\ Now(c).s[1] \in Vms
    BY <1>6, Frames, HeadFacts
  <2>2. Now(c).do \notin InstWrites => inst' = inst
    BY <1>6, Frames
  <2>3. CASE ResumeStart(c)
    BY <1>3, <1>6, <2>3, Heads DEF ResumeStart
  <2>4. CASE ResumeReset(c)
    BY <1>3, <1>6, <2>4, Heads DEF ResumeReset
  <2>5. CASE BeginLifecycle(c)
    <3>1. inst' = inst \/ \E d \in DmaAnswers(Now(c).s[1]) : DmaAnswer(Now(c).s[1], d)
      BY <2>5 DEF BeginLifecycle
    <3> QED
      BY <1>1, <1>2, <2>1, <3>1
  <2>6. CASE DmaBegin(c)
    <3>1. \E d \in DmaAnswers(Now(c).s[1]) : DmaAnswer(Now(c).s[1], d)
      BY <2>6 DEF DmaBegin
    <3> QED
      BY <1>2, <2>1, <3>1
  <2> QED
    BY <1>1, <1>4, <1>6, <2>2, <2>3, <2>4, <2>5, <2>6, Heads DEF Execute, InstWrites
<1>7. CASE Interrupt(c) \/ Request(c)
  <2>1. inst' = inst \/ (\E own \in Vms : DmaDrain(c, own) \/ DmaFault(c, own))
    BY <1>7, Outside
  <2>2. ASSUME NEW own \in Vms, DmaDrain(c, own) PROVE DeviceMove(c, vm)
    <3>1. inst' = inst \/ \E d \in DmaAnswers(own) : DmaAnswer(own, d)
      BY <2>2 DEF DmaDrain
    <3> QED
      BY <1>1, <1>2, <3>1
  <2> QED
    BY <1>1, <1>5, <2>1, <2>2
<1> QED
  BY <1>6, <1>7 DEF Acts

\* A device that is quiesced is attached again by the start or the reset of
\* its own VM only, on the owner of the boot vCPU.
LEMMA QuiescedMoves ==
  ASSUME TypeOK, Placement, EpochsAgree, NEW c \in Cores, Acts(c), NEW vm \in Vms, inst[vm].dma = "quiesced"
  PROVE  \/ inst'[vm].dma = "quiesced"
         \/ /\ Execute(c) /\ Now(c).do \in {"resume_start", "resume_reset"} /\ Now(c).s[1] = vm
            /\ Owner(vm) = c
<1>1. DeviceMove(c, vm)
  BY DeviceMoves
<1>2. CASE Resumed(c, vm)
  <2>1. agenda[c] # <<>> /\ Placed(c, Now(c)) /\ Now(c).s \in Slots /\ Now(c).s[1] = vm
    BY <1>2, Frames, HeadFacts DEF Resumed
  <2>2. Owner(vm) = c
    <3>1. CASE Now(c).do = "resume_reset"
      BY <2>1, <3>1 DEF Placed, OwnerSteps
    <3>2. CASE Now(c).do = "resume_start"
      <4>1. Now(c).s[2] = 0 /\ SlotCpu[Now(c).s] = c
        BY <2>1, <3>2 DEF Placed, ColdSteps, SlotSteps, StartSteps
      <4>2. Now(c).s = Boot(vm)
        BY <2>1, <4>1, SlotTypes DEF Boot
      <4> QED
        BY <4>1, <4>2 DEF Owner
    <3> QED
      BY <1>2, <3>1, <3>2 DEF Resumed
  <2> QED
    BY <1>2, <2>2 DEF Resumed
<1> QED
  BY <1>1, <1>2 DEF DeviceMove, Answered, DmaAnswers

\* The first part of the last stretch is at the head of the owner's agenda;
\* only the verdict "all quiet" leads there.
LEMMA RestoreHead ==
  ASSUME TypeOK, Placement, EpochsAgree, NEW c \in Cores, Acts(c),
         NEW d \in Cores, NEW k \in DOMAIN agenda'[d], agenda'[d][k].do \in {"restore_on", "restore"}
  PROVE  /\ k = 1 /\ agenda'[d][k] \in Instr /\ agenda'[d][k].s[1] \in Vms /\ Owner(agenda'[d][k].s[1]) = d
         /\ \/ d # c /\ agenda'[d] = agenda[d]
            \/ /\ d = c /\ Execute(c) /\ Left(c, agenda'[c][1], k, agenda'[c][k])
               /\ Now(c).s[1] = agenda'[d][k].s[1] /\ Now(c).do \in {"restore_on", "finish_lifecycle"}
<1>0. agenda \in [Cores -> Seq(Instr)] /\ agenda' \in [Cores -> Seq(Instr)]
  <2>1. TypeOK'
    BY ExecuteType, InterruptType, RequestType DEF Acts
  <2> QED
    BY <2>1 DEF TypeOK
<1>1. Placement'
  BY PlacementStep
<1>2. k = 1 /\ agenda'[d][k] \in Instr
  <2>1. k \in Nat /\ k >= 1 /\ agenda'[d][k] \in Instr
    BY <1>0, ElementOfSeq, LenProperties
  <2>2. agenda'[d][k].do \notin TailSteps
    BY Classes DEF RestoreSteps
  <2> QED
    BY <1>1, <2>1, <2>2 DEF Placement, AgendaPlaced
<1>3. PICK vm \in Vms : vm = agenda'[d][k].s[1]
  BY <1>2, SlotTypes DEF Instr
<1>4. Owner(vm) = d
  BY <1>1, <1>3 DEF Placement, AgendaPlaced, Placed, OwnerSteps
<1>5. CASE d # c /\ agenda'[d] = agenda[d]
  BY <1>2, <1>3, <1>4, <1>5
<1>6. CASE d = c /\ Execute(c) /\ Left(c, agenda'[c][1], k, agenda'[c][k])
  <2>1. /\ agenda'[c][k].s[1] = Now(c).s[1]
        /\ Now(c).do \in {"restore_on", "finish_lifecycle"}
    BY <1>6 DEF Left, LeftPlaced, LeftFinish
  <2> QED
    BY <1>2, <1>3, <1>4, <1>6, <2>1
<1>7. CASE d = c /\ Execute(c) /\ Advanced(c, k)
  BY <1>7, Classes DEF Advanced, Placement, AgendaPlaced, RestoreSteps
<1>8. CASE d = c /\ Begins(c, k, agenda'[c][k])
  BY <1>8, Classes DEF Begins, FinishSteps, RestoreSteps
<1>9. CASE d = c /\ k \in DOMAIN mail[c] /\ agenda'[c][k] = mail[c][k]
  BY <1>9, Classes DEF Placement, MailPlaced, FinishSteps, RestoreSteps
<1> QED
  BY <1>5, <1>6, <1>7, <1>8, <1>9, Origins

LEMMA RestoreDrainedStep ==
  ASSUME TypeOK, Placement, EpochsAgree, DeviceDrained, NEW c \in Cores, Acts(c),
         NEW d \in Cores, NEW k \in DOMAIN agenda'[d], agenda'[d][k].do \in {"restore_on", "restore"}
  PROVE  inst'[agenda'[d][k].s[1]].dma = "quiesced"
<1>1. k = 1
  BY RestoreHead
<1>2. PICK vm \in Vms : vm = agenda'[d][k].s[1]
  BY RestoreHead
<1>3. Owner(vm) = d
  BY <1>2, RestoreHead
<1>4. CASE d # c /\ agenda'[d] = agenda[d]
  <2>1. inst[vm].dma = "quiesced"
    BY <1>2, <1>4 DEF DeviceDrained
  <2> QED
    BY <1>2, <1>3, <1>4, <2>1, QuiescedMoves
<1>5. CASE /\ d = c /\ Execute(c) /\ Left(c, agenda'[c][1], k, agenda'[c][k])
           /\ Now(c).s[1] = vm /\ Now(c).do \in {"restore_on", "finish_lifecycle"}
  <2>2. inst' = inst
    BY <1>5, Frames DEF InstWrites
  <2>3. agenda[c] # <<>> /\ Now(c) = agenda[c][1] /\ 1 \in DOMAIN agenda[c]
    BY <1>5, Frames, HeadFacts
  <2>4. CASE Now(c).do = "restore_on"
    <3>1. inst[vm].dma = "quiesced"
      BY <1>5, <2>3, <2>4 DEF DeviceDrained
    <3> QED
      BY <1>2, <2>2, <3>1
  <2>5. CASE Now(c).do = "finish_lifecycle"
    <3>1. Ready(vm) /\ ~life[vm].dmaPending /\ ~life[vm].dmaFailed
      BY <1>5, <2>5 DEF Left, LeftFinish, FinishSteps, RestoreSteps
    <3>2. ~Finishing(vm)
      <4> SUFFICES ASSUME NEW j \in DOMAIN agenda[c], agenda[c][j].do \in FinishSteps PROVE FALSE
        BY <1>3, <1>5 DEF Finishing
      <4>1. j \in Nat /\ j >= 1
        BY Places
      <4>2. CASE j = 1
        BY <2>3, <2>5, <4>2 DEF FinishSteps, RestoreSteps
      <4>3. CASE j > 1
        <5>1. agenda[c][j].do = "finish"
          BY <4>3, Classes DEF Placement, AgendaPlaced
        <5> QED
          BY <2>3, <2>5, <4>3, <5>1 DEF Placement, AgendaPlaced
      <4> QED
        BY <4>1, <4>2, <4>3
    <3>3. inst[vm].dma = "quiesced"
      BY <3>1, <3>2 DEF DeviceDrained, Ready
    <3> QED
      BY <1>2, <2>2, <3>3
  <2> QED
    BY <1>5, <2>4, <2>5
<1> QED
  BY <1>2, <1>4, <1>5, RestoreHead

\* What a step does to what a lifecycle knows of its device.
LEMMA DrainMoves ==
  ASSUME TypeOK, Placement, EpochsAgree, NEW c \in Cores, Acts(c), NEW vm \in Vms, ~Opens(c, vm)
  PROVE  \/ life'[vm].dmaPending = life[vm].dmaPending /\ life'[vm].dmaFailed = life[vm].dmaFailed
         \/ life'[vm].dmaPending \/ life'[vm].dmaFailed \/ inst'[vm].dma = "quiesced"
<1> DEFINE same == life'[vm].dmaPending = life[vm].dmaPending /\ life'[vm].dmaFailed = life[vm].dmaFailed
<1>0. life[vm] \in Life /\ life \in [Vms -> Life]
  BY DEF TypeOK
<1>1. CASE life' = life
  BY <1>1
<1>2. ASSUME NEW own, life'[vm] # life[vm], life' = [life EXCEPT ![own] = life'[own]]
      PROVE  own = vm
  BY <1>0, <1>2
<1>3. CASE BeginLifecycle(c)
  <2>1. CASE Now(c).s[1] # vm
    BY <1>0, <1>3, <2>1 DEF BeginLifecycle
  <2>2. CASE Now(c).s[1] = vm
    BY <1>3, <2>2 DEF BeginLifecycle, Opens
  <2> QED
    BY <2>1, <2>2
<1>4. CASE Acknowledge(c) \/ Rearm(c)
  <2>1. \/ life' = life
        \/ life' = [life EXCEPT ![Now(c).s[1]].pending = @ \ {Now(c).s}]
        \/ \E b : life' = [life EXCEPT ![Now(c).s[1]].timer = b]
    BY <1>4 DEF Acknowledge, Rearm
  <2>2. ASSUME NEW b, life' = [life EXCEPT ![Now(c).s[1]].timer = b] PROVE same
    BY <1>0, <2>2 DEF Life
  <2>3. ASSUME life' = [life EXCEPT ![Now(c).s[1]].pending = @ \ {Now(c).s}] PROVE same
    BY <1>0, <2>3 DEF Life
  <2> QED
    BY <1>1, <2>1, <2>2, <2>3
<1>5. CASE FinishLifecycle(c) \/ Finish(c)
  <2> DEFINE own == Now(c).s[1]
             disarmed == [life[own] EXCEPT !.timer = FALSE, !.drain = FALSE]
  <2>1. \/ life' = life
        \/ life' = [life EXCEPT ![own] = Finished(disarmed)]
        \/ life' = [life EXCEPT ![own] = disarmed]
        \/ life' = [life EXCEPT ![own] = Finished(life[own])]
    BY <1>5 DEF FinishLifecycle, Finish
  <2>2. CASE own # vm
    BY <1>0, <2>1, <2>2
  <2>3. CASE own = vm /\ life' # life
    <3>1. \A l \in Life : Finished(l).dmaPending = l.dmaPending /\ Finished(l).dmaFailed = l.dmaFailed
      BY DEF Finished, Life
    <3>2. disarmed \in Life /\ disarmed.dmaPending = life[vm].dmaPending /\ disarmed.dmaFailed = life[vm].dmaFailed
      BY <1>0, <2>3 DEF Life
    <3> HIDE DEF disarmed
    <3>3. life'[vm] \in {Finished(disarmed), disarmed, Finished(life[vm])}
      BY <1>0, <2>1, <2>3
    <3> QED
      BY <1>0, <3>1, <3>2, <3>3
  <2> QED
    BY <1>1, <2>2, <2>3
<1>6. CASE Isolated(c)
  <2>1. life' = [life EXCEPT ![Now(c).s[1]].active = FALSE, ![Now(c).s[1]].pending = {}, ![Now(c).s[1]].retries = 0]
    BY <1>6 DEF Isolated
  <2> QED
    BY <1>0, <2>1 DEF Life
<1>7. ASSUME NEW own \in Vms, LifecycleTimeout(c, own) PROVE same
  <2>1. \/ life' = life
        \/ life' = [life EXCEPT ![own].timer = FALSE]
        \/ life' = [life EXCEPT ![own].timer = FALSE, ![own].retries = @ + 1]
    BY <1>7 DEF LifecycleTimeout
  <2>2. CASE own # vm
    BY <1>0, <2>1, <2>2
  <2>3. CASE own = vm /\ life' # life
    <3>1. \/ life'[vm] = [life[vm] EXCEPT !.timer = FALSE]
          \/ life'[vm] = [life[vm] EXCEPT !.timer = FALSE, !.retries = @ + 1]
      BY <1>0, <2>1, <2>3
    <3> QED
      BY <1>0, <3>1 DEF Life
  <2> QED
    BY <2>2, <2>3
<1>8. ASSUME NEW own \in Vms, DmaDrain(c, own)
      PROVE  same \/ life'[vm].dmaPending \/ life'[vm].dmaFailed \/ inst'[vm].dma = "quiesced"
  <2>1. CASE life' = [life EXCEPT ![own].drain = FALSE]
    BY <1>0, <2>1 DEF Life
  <2>2. CASE \E d \in DmaAnswers(own) :
               /\ DmaAnswer(own, d)
               /\ life' = [life EXCEPT ![own].drain = (d = "quiescing"),
                                       ![own].dmaPending = (d = "quiescing"),
                                       ![own].dmaFailed = @ \/ d = "failed"]
    <3>1. PICK d \in DmaAnswers(own) :
               /\ DmaAnswer(own, d)
               /\ life' = [life EXCEPT ![own].drain = (d = "quiescing"),
                                       ![own].dmaPending = (d = "quiescing"),
                                       ![own].dmaFailed = @ \/ d = "failed"]
      BY <2>2
    <3>2. CASE own # vm
      BY <1>0, <3>1, <3>2
    <3>3. CASE own = vm
      <4>1. inst'[vm].dma = d
        BY <3>1, <3>3, AnswerMoves
      <4>2. life'[vm] = [life[vm] EXCEPT !.drain = (d = "quiescing"), !.dmaPending = (d = "quiescing"),
                                         !.dmaFailed = @ \/ d = "failed"]
        BY <1>0, <3>1, <3>3
      <4>3. /\ life'[vm].dmaPending = (d = "quiescing")
            /\ life'[vm].dmaFailed = (life[vm].dmaFailed \/ d = "failed")
        BY <1>0, <4>2 DEF Life
      <4>4. d \in {"quiesced", "quiescing", "failed"}
        BY DEF DmaAnswers
      <4> QED
        BY <4>1, <4>3, <4>4
    <3> QED
      BY <3>2, <3>3
  <2> QED
    BY <1>8, <2>1, <2>2 DEF DmaDrain
<1>9. CASE Execute(c)
  <2>1. Now(c).do \notin LifeWrites => life' = life
    BY <1>9, Frames
  <2> QED
    BY <1>1, <1>3, <1>4, <1>5, <1>6, <1>9, <2>1, Heads DEF Execute, LifeWrites
<1>10. CASE Interrupt(c) \/ Request(c)
  <2>1. life' = life \/ \E own \in Vms : LifecycleTimeout(c, own) \/ DmaDrain(c, own)
    BY <1>10, Outside
  <2> QED
    BY <1>1, <1>7, <1>8, <2>1
<1> QED
  BY <1>9, <1>10 DEF Acts

LEMMA LeavesOne ==
  ASSUME TypeOK, NEW c \in Cores, agenda[c] # <<>>, NEW i \in Instr, Then(c, <<i>>)
  PROVE  1 \in DOMAIN agenda'[c] /\ agenda'[c][1] = i
<1>1. <<i>> \in Seq(Instr) /\ 1 \in 1..Len(<<i>>) /\ <<i>>[1] = i
  OBVIOUS
<1>2. PICK e \in Seq(Instr) : Then(c, e) /\ 1 \in 1..Len(e) /\ e[1] = i
  BY <1>1, Zenon
<1> QED
  BY <1>2, ThenEntries

LEMMA LeavesTwo ==
  ASSUME TypeOK, NEW c \in Cores, agenda[c] # <<>>, NEW i \in Instr, NEW j \in Instr, Then(c, <<i, j>>)
  PROVE  2 \in DOMAIN agenda'[c] /\ agenda'[c][2] = j
<1>1. <<i, j>> \in Seq(Instr) /\ 2 \in 1..Len(<<i, j>>) /\ <<i, j>>[2] = j
  OBVIOUS
<1>2. PICK e \in Seq(Instr) : Then(c, e) /\ 2 \in 1..Len(e) /\ e[2] = j
  BY <1>1, Zenon
<1> QED
  BY <1>2, ThenEntries

\* Every step of the last stretch but its end leaves a step of it behind.
Stretch(c, vm) ==
  \E k \in DOMAIN agenda'[c] : agenda'[c][k].do \in FinishSteps /\ agenda'[c][k].s[1] = vm

LEMMA StretchGoesOn ==
  ASSUME TypeOK, Placement, NEW c \in Cores, Execute(c), Now(c).do \in RestoreSteps
  PROVE  Stretch(c, Now(c).s[1])
<1>1. agenda[c] # <<>> /\ Now(c).s[1] \in Vms /\ Now(c).s \in Slots
  BY Frames, HeadFacts
<1>2. ASSUME NEW i \in Instr, Then(c, <<i>>), i.do \in FinishSteps, i.s[1] = Now(c).s[1]
      PROVE  Stretch(c, Now(c).s[1])
  BY <1>1, <1>2, LeavesOne DEF Stretch
<1>3. ASSUME NEW i \in Instr, NEW j \in Instr, Then(c, <<i, j>>), j.do \in FinishSteps, j.s[1] = Now(c).s[1]
      PROVE  Stretch(c, Now(c).s[1])
  BY <1>1, <1>3, LeavesTwo DEF Stretch
<1>4. /\ OnBoot(c, "finish", "None") \in Instr /\ OnBoot(c, "finish", "None").do = "finish"
      /\ OnBoot(c, "finish", "None").s[1] = Now(c).s[1]
      /\ OnBoot(c, "restore", "None") \in Instr /\ OnBoot(c, "restore", "None").do = "restore"
      /\ OnBoot(c, "restore", "None").s[1] = Now(c).s[1]
      /\ OnBoot(c, "republish", "None") \in Instr /\ OnBoot(c, "republish", "None").do = "republish"
      /\ OnBoot(c, "republish", "None").s[1] = Now(c).s[1]
      /\ OnBoot(c, "dma_begin", "None") \in Instr
  BY <1>1, OnBootFacts, HeadFacts, Names
<1>5. \A what \in {"finish", "resume_reset", "republish_on", "alive_up"} :
        Turned(c, what) \in Instr /\ Turned(c, what).do = what /\ Turned(c, what).s[1] = Now(c).s[1]
  BY <1>1, TurnedFacts, Names
<1>6. NextSlot(Now(c).s) \in Slots =>
        Moved(c) \in Instr /\ Moved(c).do = Now(c).do /\ Moved(c).s[1] = Now(c).s[1]
  BY <1>1, MovedFacts
<1>7. \A what \in {"finish", "restore", "republish", "resume_reset", "republish_on", "restore_on"} : what \in FinishSteps
  BY DEF FinishSteps, RestoreSteps
<1>8. CASE RestoreOn(c)
  <2>1. \/ Then(c, <<OnBoot(c, "finish", "None")>>)
        \/ NextSlot(Now(c).s) \in Slots /\ Then(c, <<Moved(c)>>)
        \/ Then(c, <<OnBoot(c, "restore", "None")>>)
    BY <1>8 DEF RestoreOn, Scan, Moved, OnBoot
  <2>2. Now(c).do = "restore_on"
    BY <1>8, Heads
  <2> QED
    BY <1>2, <1>4, <1>6, <1>7, <2>1, <2>2
<1>9. CASE Restore(c) \/ ResumeReset(c)
  <2>1. \E what \in {"finish", "resume_reset", "republish_on"} : Then(c, <<Turned(c, what)>>)
    BY <1>9 DEF Restore, ResumeReset, Goto, Turned
  <2> QED
    BY <1>2, <1>5, <1>7, <2>1
<1>10. CASE RepublishOn(c)
  <2>1. \/ Then(c, <<OnBoot(c, "dma_begin", "None"), OnBoot(c, "finish", "None")>>)
        \/ NextSlot(Now(c).s) \in Slots /\ Then(c, <<Moved(c)>>)
        \/ Then(c, <<OnBoot(c, "republish", "None")>>)
    BY <1>10 DEF RepublishOn, Scan, Moved, OnBoot
  <2>2. Now(c).do = "republish_on"
    BY <1>10, Heads
  <2> QED
    BY <1>2, <1>3, <1>4, <1>6, <1>7, <2>1, <2>2
<1>11. CASE Republish(c)
  <2>1. Then(c, <<Turned(c, "alive_up"), Turned(c, "finish")>>)
    BY <1>11 DEF Republish, Turned
  <2> QED
    BY <1>3, <1>5, <1>7, <2>1
<1> QED
  BY <1>8, <1>9, <1>10, <1>11, Heads DEF Execute, RestoreSteps

LEMMA FinishingStep ==
  ASSUME TypeOK, Placement, EpochsAgree, NEW c \in Cores, Acts(c), NEW vm \in Vms, Finishing(vm),
         life'[vm].active, ~Opens(c, vm)
  PROVE  Finishing(vm)'
<1>0. agenda \in [Cores -> Seq(Instr)] /\ life \in [Vms -> Life]
  BY DEF TypeOK
<1>1. PICK o \in Cores : o = Owner(vm)
  BY OwnerType
<1>2. PICK k \in DOMAIN agenda[o] : agenda[o][k].do \in FinishSteps /\ agenda[o][k].s[1] = vm
  BY <1>1 DEF Finishing
<1>3. k \in Nat /\ k >= 1
  BY Places
<1>4. CASE Execute(c)
  <2>1. PICK is : Then(c, is) /\ is \in Seq(Instr)
    BY <1>4, Handing
  <2>2. agenda[c] # <<>> /\ Now(c) = agenda[c][1]
    BY <1>4, Frames, HeadFacts
  <2>3. /\ \A d \in Cores \ {c} : agenda'[d] = agenda[d]
        /\ \A j \in DOMAIN agenda[c] : j > 1 => \E x \in DOMAIN agenda'[c] : agenda'[c][x] = agenda[c][j]
    BY <2>1, <2>2, ThenEntries
  <2>4. CASE o # c
    BY <1>1, <1>2, <2>3, <2>4 DEF Finishing
  <2>5. CASE o = c /\ k > 1
    BY <1>1, <1>2, <2>3, <2>5 DEF Finishing
  <2>6. CASE o = c /\ k = 1 /\ Now(c).do = "finish"
    <3>1. Finish(c) /\ Now(c).s[1] = vm
      BY <1>2, <1>4, <2>2, <2>6, Heads DEF Execute
    <3>2. life' = [life EXCEPT ![vm] = Finished(@)]
      BY <3>1 DEF Finish
    <3>3. ~life'[vm].active
      BY <1>0, <3>2 DEF Finished, Life
    <3> QED
      BY <3>3
  <2>7. CASE o = c /\ k = 1 /\ Now(c).do # "finish"
    <3>1. Now(c).do \in RestoreSteps /\ Now(c).s[1] = vm
      BY <1>2, <2>2, <2>7 DEF FinishSteps
    <3>2. Stretch(c, Now(c).s[1])
      BY <1>4, <3>1, StretchGoesOn
    <3> QED
      BY <1>1, <2>7, <3>1, <3>2 DEF Stretch, Finishing
  <2> QED
    BY <1>3, <2>4, <2>5, <2>6, <2>7
<1>5. CASE Interrupt(c) \/ Request(c)
  <2>1. agenda[c] = <<>>
    BY <1>5, Outside
  <2>2. o # c
    BY <1>0, <2>1, EmptySeq
  <2>3. agenda'[o] = agenda[o]
    BY <1>0, <1>5, <2>2, Outside DEF Enter, DrainMail
  <2> QED
    BY <1>1, <1>2, <2>3 DEF Finishing
<1> QED
  BY <1>4, <1>5 DEF Acts

\* The beginning of a lifecycle asks its device, or skips to the end.
LEMMA OpeningAsks ==
  ASSUME TypeOK, Placement, NEW c \in Cores, NEW vm \in Vms, Opens(c, vm)
  PROVE  life'[vm].dmaPending \/ life'[vm].dmaFailed \/ inst'[vm].dma = "quiesced" \/ Finishing(vm)'
<1>0. life \in [Vms -> Life] /\ life[vm] \in Life
  BY DEF TypeOK
<1>1. agenda[c] # <<>> /\ Owner(vm) = c /\ Now(c).s[1] = vm /\ BeginLifecycle(c) /\ token[vm] = Reserved
  BY Opening DEF Opens
<1> DEFINE own == Now(c).s[1]
           begun == [life[own] EXCEPT !.epoch = life[own].epoch + 1,
                       !.pending = {s \in SlotsOf(own) : power[s] # "Off"}, !.retries = 0,
                       !.active = TRUE, !.dmaPending = FALSE, !.dmaFailed = FALSE,
                       !.mode = IF Now(c).op = "Stop" THEN "Stop" ELSE "Reset"]
           asked(d) == [begun EXCEPT !.dmaPending = (d = "quiescing"), !.dmaFailed = (d = "failed"),
                                     !.timer = TRUE, !.drain = @ \/ d = "quiescing"]
<1>2. \/ Then(c, <<Do("finish", Now(c).s, "None", 0)>> \o Refused(Now(c)))
      \/ \E d \in DmaAnswers(own) : DmaAnswer(own, d) /\ life' = [life EXCEPT ![own] = asked(d)]
  BY <1>1 DEF BeginLifecycle
<1>3. CASE Then(c, <<Do("finish", Now(c).s, "None", 0)>> \o Refused(Now(c)))
  <2> DEFINE finish == Do("finish", Now(c).s, "None", 0)
  <2>1. finish \in Instr /\ finish.do = "finish" /\ finish.s[1] = vm
    BY <1>1, HeadFacts, DoNone, Names
  <2>2. Refused(Now(c)) \in Seq(Instr)
    BY <1>1, RefusedPlain
  <2> HIDE DEF finish
  <2>3. \E e \in Seq(Instr) : Then(c, e) /\ 1 \in 1..Len(e) /\ e[1] = finish
    <3>1. ASSUME NEW t \in Seq(Instr)
          PROVE  /\ <<finish>> \o t \in Seq(Instr) /\ 1 \in 1..Len(<<finish>> \o t)
                 /\ (<<finish>> \o t)[1] = finish
      BY <2>1
    <3>2. /\ <<finish>> \o Refused(Now(c)) \in Seq(Instr) /\ 1 \in 1..Len(<<finish>> \o Refused(Now(c)))
          /\ (<<finish>> \o Refused(Now(c)))[1] = finish
      BY <2>2, <3>1, Zenon
    <3>3. Then(c, <<finish>> \o Refused(Now(c)))
      BY <1>3 DEF finish
    <3> QED
      BY <3>2, <3>3, Zenon
  <2>4. PICK e \in Seq(Instr) : Then(c, e) /\ 1 \in 1..Len(e) /\ e[1] = finish
    BY <2>3
  <2>5. 1 \in DOMAIN agenda'[c] /\ agenda'[c][1] = finish
    BY <1>1, <2>4, ThenEntries
  <2> QED
    BY <1>1, <2>1, <2>5 DEF Finishing, FinishSteps
<1>4. ASSUME NEW d \in DmaAnswers(own), DmaAnswer(own, d), life' = [life EXCEPT ![own] = asked(d)]
      PROVE  life'[vm].dmaPending \/ life'[vm].dmaFailed \/ inst'[vm].dma = "quiesced"
  <2>1. inst'[vm].dma = d
    BY <1>1, <1>4, AnswerMoves
  <2>2. begun \in Life
    <3>1. life[own].epoch + 1 \in Nat /\ life[own] \in Life
      BY <1>0, <1>1, LifeFields
    <3>2. {s \in SlotsOf(own) : power[s] # "Off"} \subseteq Slots
      BY DEF SlotsOf
    <3> QED
      BY <3>1, <3>2 DEF Life
  <2> HIDE DEF begun
  <2>3. asked(d).dmaPending = (d = "quiescing") /\ asked(d).dmaFailed = (d = "failed")
    BY <2>2 DEF Life
  <2> HIDE DEF asked
  <2>4. life'[vm] = asked(d)
    BY <1>0, <1>1, <1>4
  <2>5. d \in {"quiesced", "quiescing", "failed"}
    BY DEF DmaAnswers
  <2> QED
    BY <2>1, <2>3, <2>4, <2>5
<1> QED
  BY <1>2, <1>3, <1>4

LEMMA DeviceDrainedStep ==
  ASSUME TypeOK, Placement, EpochsAgree, StartsAlone, DeviceDrained, NEW c \in Cores, Acts(c)
  PROVE  DeviceDrained'
<1>1. ASSUME NEW vm \in Vms, life'[vm].active
      PROVE  life'[vm].dmaPending \/ life'[vm].dmaFailed \/ inst'[vm].dma = "quiesced" \/ Finishing(vm)'
  <2>1. CASE Opens(c, vm)
    BY <2>1, OpeningAsks
  <2>2. CASE ~Opens(c, vm)
    <3>1. life[vm].active
      BY <1>1, <2>2, Moves DEF Steady
    <3>2. CASE life[vm].dmaPending \/ life[vm].dmaFailed
      BY <2>2, <3>2, DrainMoves
    <3>3. CASE inst[vm].dma = "quiesced"
      <4>1. CASE /\ Execute(c) /\ Now(c).do \in {"resume_start", "resume_reset"} /\ Now(c).s[1] = vm
                 /\ Owner(vm) = c
        <5>1. agenda[c] # <<>>
          BY <4>1, Frames
        <5>2. Now(c).do = "resume_reset"
          BY <3>1, <4>1, <5>1 DEF StartsAlone, StartSteps, ColdSteps
        <5>3. Stretch(c, vm)
          BY <4>1, <5>2, StretchGoesOn DEF RestoreSteps
        <5> QED
          BY <4>1, <5>3 DEF Stretch, Finishing
      <4> QED
        BY <3>3, <4>1, QuiescedMoves
    <3>4. CASE Finishing(vm)
      BY <1>1, <2>2, <3>4, FinishingStep
    <3> QED
      BY <3>1, <3>2, <3>3, <3>4 DEF DeviceDrained
  <2> QED
    BY <2>1, <2>2
<1>2. ASSUME NEW vm \in Vms, inst'[vm].dma = "quiesced" PROVE ~inst'[vm].stream
  <2>1. DeviceMove(c, vm)
    BY DeviceMoves
  <2> QED
    BY <1>2, <2>1 DEF DeviceMove, Answered, Resumed, DeviceDrained
<1>3. \A d \in Cores : \A k \in DOMAIN agenda'[d] :
        agenda'[d][k].do \in {"restore_on", "restore"} => inst'[agenda'[d][k].s[1]].dma = "quiesced"
  BY RestoreDrainedStep
<1> QED
  BY <1>1, <1>2, <1>3 DEF DeviceDrained
-----------------------------------------------------------------------------
(* The invariant holds.                                                    *)

Safe ==
  /\ TypeOK /\ PowerMatchesLive
  /\ Placement /\ EpochsAgree /\ EpochsBegun /\ FinishingOpen /\ StartsAlone /\ AnswersTrue
  /\ Carriage /\ DeviceDrained

LEMMA SafeInit == Init => Safe
<1> SUFFICES ASSUME Init PROVE Safe
  OBVIOUS
<1>1. \A c \in Cores : agenda[c] = <<>> /\ mail[c] = <<>>
  BY DEF Init
<1>2. \A c \in Cores : \A k : k \notin DOMAIN agenda[c] /\ k \notin DOMAIN mail[c]
  BY <1>1, EmptySeq
<1>3. \A vm \in Vms : life[vm].epoch = 0 /\ ~life[vm].active /\ token[vm] = Inactive
  BY DEF Init
<1>4. TypeOK
  BY InitType
<1>5. PowerMatchesLive
  BY OwnerType, ConfigAssumption DEF Init, PowerMatchesLive
<1>6. Placement
  BY <1>2 DEF Placement, AgendaPlaced, MailPlaced
<1>7. EpochsAgree
  BY <1>3 DEF EpochsAgree
<1>8. EpochsBegun /\ FinishingOpen /\ AnswersTrue
  BY <1>2 DEF EpochsBegun, FinishingOpen, AnswersTrue
<1>9. StartsAlone
  BY <1>1 DEF StartsAlone
<1>10. Carriage
  <2>1. Inactive # Reserved
    BY DEF Inactive, Reserved
  <2> QED
    BY <1>2, <1>3, <2>1 DEF Carriage, CarriageOf, InHand, InBox
<1>11. DeviceDrained
  <2>1. \A vm \in Vms : inst[vm].dma = "quiesced" => ~inst[vm].stream
    BY DEF Init
  <2> QED
    BY <1>2, <1>3, <2>1 DEF DeviceDrained
<1> QED
  BY <1>4, <1>5, <1>6, <1>7, <1>8, <1>9, <1>10, <1>11 DEF Safe

LEMMA SafeStep ==
  ASSUME Safe, PowerMatchesLive', NEW c \in Cores, Acts(c)
  PROVE  Safe'
<1>1. TypeOK'
  BY ExecuteType, InterruptType, RequestType DEF Safe, Acts
<1>2. Placement' /\ EpochsAgree' /\ EpochsBegun' /\ FinishingOpen'
  BY PlacementStep, EpochsAgreeStep, EpochsBegunStep, FinishingOpenStep DEF Safe
<1>3. StartsAlone' /\ AnswersTrue'
  BY StartsAloneStep, AnswersTrueStep DEF Safe
<1>4. Carriage' /\ DeviceDrained'
  BY CarriageStep, DeviceDrainedStep DEF Safe
<1> QED
  BY <1>1, <1>2, <1>3, <1>4 DEF Safe

LEMMA SafeStutter == Safe /\ UNCHANGED vars => Safe'
<1> SUFFICES ASSUME Safe, UNCHANGED vars PROVE Safe'
  OBVIOUS
<1>1. UNCHANGED <<power, live, current, token, life, inst, mail, agenda, ran, halted, spoken, alive, transitions>>
  BY DEF vars, sched, counters
<1>2. TypeOK' /\ PowerMatchesLive'
  BY <1>1 DEF Safe, TypeOK, PowerMatchesLive
<1>3. Placement' /\ EpochsAgree' /\ EpochsBegun' /\ FinishingOpen'
  BY <1>1 DEF Safe, Placement, AgendaPlaced, MailPlaced, EpochsAgree, EpochsBegun, FinishingOpen
<1>4. StartsAlone' /\ AnswersTrue'
  <2>1. \A c : Now(c)' = Now(c)
    BY <1>1 DEF Now
  <2>2. \A s : Quiet(s)' <=> Quiet(s)
    BY <1>1, <2>1 DEF Quiet, Starting
  <2>3. \A i : Counts(i)' <=> Counts(i)
    BY <1>1 DEF Counts
  <2> QED
    BY <1>1, <2>1, <2>2, <2>3 DEF Safe, StartsAlone, AnswersTrue
<1>5. Carriage' /\ DeviceDrained'
  <2>1. \A vm \in Vms : CarriageOf(vm)' <=> CarriageOf(vm)
    BY <1>1 DEF CarriageOf, InHand, InBox
  <2> QED
    BY <1>1, <2>1 DEF Safe, Carriage, DeviceDrained, Finishing
<1> QED
  BY <1>2, <1>3, <1>4, <1>5 DEF Safe

LEMMA SafeHolds == Spec => []Safe
<1>1. Safe /\ PowerMatchesLive' /\ [Next]_vars => Safe'
  BY SafeStep, SafeStutter DEF Next, Acts
<1> QED
  BY <1>1, SafeInit, PowerViewCorrect, PTL DEF Spec

-----------------------------------------------------------------------------
(* What the invariant is for.                                              *)

\* A claimed lifecycle is in exactly one place between the compare-exchange
\* that won the token and the boot owner that begins it or gives it back,
\* whatever mailboxes are full and however the cores interleave.
THEOREM ClaimHasOneCarrier == Spec => []OneCarrier
<1>1. Safe => OneCarrier
  BY OneCarrierHolds DEF Safe
<1> QED
  BY <1>1, SafeHolds, PTL

\* A reset writes the image of a VM only over a device that is drained and
\* whose stream is detached.
THEOREM RestoresDetached == Spec => []DetachedAtRestore
<1>1. Safe => DetachedAtRestore
  <2> SUFFICES ASSUME Safe, NEW c \in Cores, At(c, "restore")
               PROVE  LET vm == Now(c).s[1] IN inst[vm].dma = "quiesced" /\ ~inst[vm].stream
    BY DEF DetachedAtRestore
  <2>1. agenda[c] # <<>> /\ Now(c).do = "restore"
    BY DEF At, Now
  <2>2. Now(c) = agenda[c][1] /\ 1 \in DOMAIN agenda[c] /\ Now(c).s[1] \in Vms
    BY <2>1, HeadFacts DEF Safe
  <2> QED
    BY <2>1, <2>2 DEF Safe, DeviceDrained
<1> QED
  BY <1>1, SafeHolds, PTL

\* The tracker takes a vCPU off its mask only when that vCPU is off: no
\* late, repeated or foreign acknowledgement counts.
LEMMA AcksStep ==
  ASSUME Safe, [Next]_vars, NEW s \in Slots,
         s \in life[s[1]].pending, s \notin life'[s[1]].pending, life'[s[1]].active
  PROVE  ~live[s]
<1>0. s[1] \in Vms
  BY SlotTypes
<1>1. PICK c \in Cores : Acts(c)
  <2>1. CASE UNCHANGED vars
    BY <2>1 DEF vars
  <2> QED
    BY <2>1 DEF Next, Acts
<1>2. CASE Opens(c, s[1])
  <2>1. s \in SlotsOf(s[1]) /\ life'[s[1]].pending = {o \in SlotsOf(s[1]) : power[o] # "Off"}
    BY <1>0, <1>2, Opening DEF Safe, SlotsOf
  <2> QED
    BY <2>1 DEF Safe, PowerMatchesLive
<1>3. CASE ~Opens(c, s[1])
  <2>1. Steady(c, s[1])
    BY <1>0, <1>1, <1>3, Moves DEF Safe
  <2>2. Execute(c) /\ Now(c).do = "acknowledge" /\ Counts(Now(c)) /\ s = Now(c).s
    BY <2>1 DEF Steady
  <2>3. agenda[c] # <<>> /\ Now(c) = agenda[c][1] /\ 1 \in DOMAIN agenda[c]
    BY <2>2, Frames, HeadFacts DEF Safe
  <2>4. Quiet(s)
    BY <2>2, <2>3 DEF Safe, AnswersTrue
  <2> QED
    BY <2>4 DEF Quiet
<1> QED
  BY <1>2, <1>3

THEOREM AcksAreTrue == Spec => AckMeansOff
<1>1. Safe /\ [Next]_vars =>
        [\A s \in Slots :
           s \in life[s[1]].pending /\ s \notin life'[s[1]].pending /\ life'[s[1]].active => ~live[s]]_vars
  BY AcksStep
<1> QED
  BY <1>1, SafeHolds, PTL DEF Spec, AckMeansOff

\* Only a warm reset spends the budget of a VM, while it lasts, and only a
\* cold start of a VM that is off gives it back.
LEMMA BudgetMoves ==
  ASSUME TypeOK, Placement, EpochsAgree, NEW c \in Cores, Acts(c), NEW vm \in Vms
  PROVE  \/ inst'[vm].restarts = inst[vm].restarts
         \/ /\ Execute(c) /\ Now(c).do = "restore" /\ Now(c).s[1] = vm
            /\ inst[vm].restarts < MaxRestarts /\ inst'[vm].restarts = inst[vm].restarts + 1
         \/ /\ Execute(c) /\ Now(c).do = "prepare_rest" /\ Now(c).s[1] = vm
            /\ ~OthersLive(Now(c).s) /\ inst'[vm].restarts = 0
<1>0. inst \in [Vms -> Instance] /\ inst[vm] \in Instance /\ inst[vm].restarts \in Nat
  BY InstanceFields DEF TypeOK
<1> DEFINE kept == inst'[vm].restarts = inst[vm].restarts
<1>1. ASSUME inst'[vm] = inst[vm] PROVE kept
  BY <1>0, <1>1
<1>2. ASSUME NEW own \in Vms, NEW d, DmaAnswer(own, d) PROVE kept
  BY <1>0, <1>2 DEF DmaAnswer, Instance
<1>3. ASSUME NEW own \in Vms, NEW attached \in BOOLEAN, DmaResume(own, attached) PROVE kept
  <2>1. \/ inst' = inst
        \/ inst' = [inst EXCEPT ![own].stream = TRUE, ![own].dma = "active", ![own].dmaGen = inst[own].gen]
        \/ inst' = [inst EXCEPT ![own].stream = FALSE, ![own].dma = "failed"]
    BY <1>3 DEF DmaResume
  <2> QED
    BY <1>0, <2>1 DEF Instance
<1>4. CASE JoinVm(c)
  <2> DEFINE own == Now(c).s[1]
  <2>1. \/ inst' = inst
        \/ inst' = [inst EXCEPT ![own].gen = @ + 1]
    BY <1>4 DEF JoinVm
  <2>2. CASE own # vm
    <3>1. inst'[vm] = inst[vm]
      BY <1>0, <2>1, <2>2
    <3> QED
      BY <1>1, <3>1
  <2>3. CASE own = vm /\ inst' # inst
    <3>1. inst'[vm] = [inst[vm] EXCEPT !.gen = @ + 1]
      BY <1>0, <2>1, <2>3
    <3> QED
      BY <1>0, <3>1 DEF Instance
  <2> QED
    BY <1>1, <2>2, <2>3
<1>5. CASE PrepareRest(c) \/ Restore(c)
  <2> DEFINE own == Now(c).s[1]
  <2>1. Execute(c) /\ (PrepareRest(c) => Now(c).do = "prepare_rest") /\ (Restore(c) => Now(c).do = "restore")
    BY <1>5, Heads DEF Execute
  <2>2. \/ inst' = inst
        \/ PrepareRest(c) /\ ~OthersLive(Now(c).s) /\ inst' = [inst EXCEPT ![own].gen = @ + 1, ![own].restarts = 0]
        \/ Restore(c) /\ ~(inst[own].restarts >= MaxRestarts)
           /\ inst' = [inst EXCEPT ![own].restarts = @ + 1, ![own].gen = @ + 1]
    BY <1>5 DEF PrepareRest, Restore
  <2>3. CASE own # vm
    <3>1. inst'[vm] = inst[vm]
      BY <1>0, <2>2, <2>3
    <3> QED
      BY <1>1, <3>1
  <2>4. CASE own = vm /\ inst' # inst
    <3>1. CASE PrepareRest(c) /\ inst' = [inst EXCEPT ![own].gen = @ + 1, ![own].restarts = 0]
      <4>1. inst'[vm] = [inst[vm] EXCEPT !.gen = @ + 1, !.restarts = 0]
        BY <1>0, <2>4, <3>1
      <4>2. inst'[vm].restarts = 0
        BY <1>0, <4>1 DEF Instance
      <4>3. ~OthersLive(Now(c).s)
        BY <3>1, <2>4 DEF PrepareRest
      <4> QED
        BY <2>1, <2>4, <3>1, <4>2, <4>3
    <3>2. CASE Restore(c) /\ ~(inst[own].restarts >= MaxRestarts)
               /\ inst' = [inst EXCEPT ![own].restarts = @ + 1, ![own].gen = @ + 1]
      <4>1. inst'[vm] = [inst[vm] EXCEPT !.restarts = @ + 1, !.gen = @ + 1]
        BY <1>0, <2>4, <3>2
      <4>2. inst'[vm].restarts = inst[vm].restarts + 1
        BY <1>0, <4>1 DEF Instance
      <4>3. inst[vm].restarts < MaxRestarts
        BY <1>0, <2>4, <3>2, ConfigAssumption
      <4> QED
        BY <2>1, <2>4, <3>2, <4>2, <4>3
    <3> QED
      BY <2>2, <2>4, <3>1, <3>2
  <2> QED
    BY <1>1, <2>3, <2>4
<1>6. ASSUME NEW own \in Vms, DmaFault(c, own) PROVE kept
  <2>1. inst' = [inst EXCEPT ![own].stream = FALSE]
    BY <1>6 DEF DmaFault
  <2> QED
    BY <1>0, <2>1 DEF Instance
<1>7. CASE Execute(c)
  <2>1. agenda[c] # <<>> /\ Now(c).s[1] \in Vms
    BY <1>7, Frames, HeadFacts
  <2>2. Now(c).do \notin InstWrites => inst' = inst
    BY <1>7, Frames
  <2>3. ResumeStart(c) \/ ResumeReset(c) => kept
    BY <1>3, <2>1 DEF ResumeStart, ResumeReset
  <2>4. BeginLifecycle(c) => kept
    <3> SUFFICES ASSUME BeginLifecycle(c) PROVE kept
      OBVIOUS
    <3>1. inst' = inst \/ \E d \in DmaAnswers(Now(c).s[1]) : DmaAnswer(Now(c).s[1], d)
      BY DEF BeginLifecycle
    <3> QED
      BY <1>1, <1>2, <2>1, <3>1
  <2>5. DmaBegin(c) => kept
    BY <1>2, <2>1 DEF DmaBegin
  <2> QED
    BY <1>1, <1>4, <1>5, <1>7, <2>2, <2>3, <2>4, <2>5, Heads DEF Execute, InstWrites
<1>8. CASE Interrupt(c) \/ Request(c)
  <2>1. inst' = inst \/ (\E own \in Vms : DmaDrain(c, own) \/ DmaFault(c, own))
    BY <1>8, Outside
  <2>2. ASSUME NEW own \in Vms, DmaDrain(c, own) PROVE kept
    <3>1. inst' = inst \/ \E d \in DmaAnswers(own) : DmaAnswer(own, d)
      BY <2>2 DEF DmaDrain
    <3> QED
      BY <1>1, <1>2, <3>1
  <2> QED
    BY <1>1, <1>6, <2>1, <2>2
<1> QED
  BY <1>7, <1>8 DEF Acts

\* Who starts a new generation of a VM: a warm reset, a cold start, or a CPU_ON
\* of its boot vCPU.
LEMMA GenMoves ==
  ASSUME TypeOK, Placement, EpochsAgree, NEW c \in Cores, Acts(c), NEW vm \in Vms, inst'[vm].gen # inst[vm].gen
  PROVE  /\ Execute(c) /\ Now(c).s[1] = vm /\ agenda[c] # <<>>
         /\ \/ Now(c).do \in {"restore", "prepare_rest"}
            \/ Now(c).do = "join_vm" /\ Now(c).s[2] = 0
<1>0. inst \in [Vms -> Instance] /\ inst[vm] \in Instance
  BY DEF TypeOK
<1> DEFINE kept == inst'[vm].gen = inst[vm].gen
<1>1. ASSUME NEW own \in Vms, NEW d, DmaAnswer(own, d) PROVE kept
  BY <1>0, <1>1 DEF DmaAnswer, Instance
<1>2. ASSUME NEW own \in Vms, NEW attached \in BOOLEAN, DmaResume(own, attached) PROVE kept
  <2>1. \/ inst' = inst
        \/ inst' = [inst EXCEPT ![own].stream = TRUE, ![own].dma = "active", ![own].dmaGen = inst[own].gen]
        \/ inst' = [inst EXCEPT ![own].stream = FALSE, ![own].dma = "failed"]
    BY <1>2 DEF DmaResume
  <2> QED
    BY <1>0, <2>1 DEF Instance
<1>3. CASE Execute(c)
  <2>1. agenda[c] # <<>> /\ Now(c).s[1] \in Vms
    BY <1>3, Frames, HeadFacts
  <2>2. Now(c).do \in InstWrites
    BY <1>3, Frames
  <2>3. ~ResumeStart(c) /\ ~ResumeReset(c)
    BY <1>2, <2>1 DEF ResumeStart, ResumeReset
  <2>4. ~DmaBegin(c)
    BY <1>1, <2>1 DEF DmaBegin
  <2>5. ~BeginLifecycle(c)
    <3>1. BeginLifecycle(c) => inst' = inst \/ \E d \in DmaAnswers(Now(c).s[1]) : DmaAnswer(Now(c).s[1], d)
      BY DEF BeginLifecycle
    <3> QED
      BY <1>1, <2>1, <3>1
  <2>6. JoinVm(c) \/ PrepareRest(c) \/ Restore(c)
    BY <1>3, <2>2, <2>3, <2>4, <2>5, Heads DEF Execute, InstWrites
  <2>7. CASE JoinVm(c)
    <3>1. Now(c).s[2] = 0 /\ inst' = [inst EXCEPT ![Now(c).s[1]].gen = @ + 1]
      BY <2>7 DEF JoinVm
    <3>2. Now(c).s[1] = vm
      BY <1>0, <2>1, <3>1
    <3> QED
      BY <1>3, <2>1, <2>7, <3>1, <3>2, Heads
  <2>8. CASE PrepareRest(c) \/ Restore(c)
    <3>1. inst' = [inst EXCEPT ![Now(c).s[1]] = inst'[Now(c).s[1]]]
      BY <1>0, <2>1, <2>8 DEF PrepareRest, Restore
    <3>2. Now(c).s[1] = vm
      BY <1>0, <2>1, <3>1
    <3>3. (PrepareRest(c) => Now(c).do = "prepare_rest") /\ (Restore(c) => Now(c).do = "restore")
      BY Heads
    <3> QED
      BY <1>3, <2>1, <2>8, <3>2, <3>3
  <2> QED
    BY <2>6, <2>7, <2>8
<1>4. CASE Interrupt(c) \/ Request(c)
  <2>1. inst' = inst \/ (\E own \in Vms : DmaDrain(c, own) \/ DmaFault(c, own))
    BY <1>4, Outside
  <2>2. ASSUME NEW own \in Vms, DmaDrain(c, own) PROVE kept
    <3>1. inst' = inst \/ \E d \in DmaAnswers(own) : DmaAnswer(own, d)
      BY <2>2 DEF DmaDrain
    <3> QED
      BY <1>1, <3>1
  <2>3. ASSUME NEW own \in Vms, DmaFault(c, own) PROVE kept
    <3>1. inst' = [inst EXCEPT ![own].stream = FALSE]
      BY <2>3 DEF DmaFault
    <3> QED
      BY <1>0, <3>1 DEF Instance
  <2> QED
    BY <2>1, <2>2, <2>3
<1> QED
  BY <1>3, <1>4 DEF Acts

\* A start of a boot vCPU past its last look at the token is of a VM whose token
\* names no epoch.
LEMMA BootStartFree ==
  ASSUME Safe, NEW c \in Cores, agenda[c] # <<>>, Now(c).do \in StartSteps, Now(c).s[2] = 0
  PROVE  token[Now(c).s[1]] \in {Inactive, Reserved}
<1>1. Now(c).s \in Slots /\ Placed(c, Now(c))
  BY HeadFacts DEF Safe
<1>2. Now(c).s = Boot(Now(c).s[1])
  BY <1>1, ConfigAssumption DEF Boot
<1>3. Owner(Now(c).s[1]) = c
  BY <1>1, <1>2, Classes DEF Placed, Owner
<1> QED
  BY <1>3 DEF Safe, StartsAlone

\* A VM whose retries ran out, or whose device failed, keeps its token: no
\* message, timer, answer or start that comes late reopens its lifecycle, gives
\* it a generation or a budget, or brings its boot vCPU back.
LEMMA LatchedStep ==
  ASSUME Safe, [Next]_vars, NEW vm \in Vms, Latched(vm)
  PROVE  /\ token'[vm] = token[vm] /\ ~life'[vm].active
         /\ inst'[vm].gen = inst[vm].gen /\ inst'[vm].restarts = inst[vm].restarts
         /\ live'[Boot(vm)] => live[Boot(vm)]
<1>1. CASE UNCHANGED vars
  BY <1>1 DEF vars, Latched
<1>2. CASE \E c \in Cores : Acts(c)
  <2>1. PICK c \in Cores : Acts(c)
    BY <1>2
  <2>2. ~Opens(c, vm) /\ token[vm] \notin {Inactive, Reserved} /\ ~life[vm].active
    BY DEF Opens, Latched
  <2>3. Steady(c, vm) /\ TokenMove(c, vm)
    BY <2>1, <2>2, Moves DEF Safe
  <2>4. ~(Release(c) /\ Now(c).s[1] = vm)
    BY <2>2, Heads, HeadCarrier DEF Safe, CarrySteps
  <2>5. ASSUME Execute(c), Now(c).s[1] = vm PROVE Now(c).do \notin FinishSteps
    <3>1. Now(c) = agenda[c][1] /\ 1 \in DOMAIN agenda[c]
      BY <2>5, Frames, HeadFacts DEF Safe
    <3> QED
      BY <2>2, <2>5, <3>1 DEF Safe, FinishingOpen
  <2>6. ~(Finish(c) /\ Now(c).s[1] = vm)
    BY <2>5, Heads DEF Execute, FinishSteps
  <2>7. ASSUME Execute(c), Now(c).s[1] = vm, Now(c).do \in StartSteps PROVE Now(c).s[2] # 0
    <3>1. agenda[c] # <<>>
      BY <2>7, Frames
    <3> QED
      BY <2>2, <2>7, <3>1, BootStartFree
  <2>8. ASSUME Execute(c), Now(c).s[1] = vm PROVE Now(c).do # "prepare_rest"
    <3>1. agenda[c] # <<>> /\ Placed(c, Now(c))
      BY <2>8, Frames, HeadFacts DEF Safe
    <3> QED
      BY <2>7, <2>8, <3>1 DEF Placed, StartSteps, ColdSteps
  <2>9. inst'[vm].restarts = inst[vm].restarts
    BY <2>1, <2>5, <2>8, BudgetMoves DEF Safe, FinishSteps, RestoreSteps
  <2>10. inst'[vm].gen = inst[vm].gen
    BY <2>1, <2>5, <2>7, <2>8, GenMoves DEF Safe, FinishSteps, RestoreSteps, StartSteps
  <2>11. live'[Boot(vm)] => live[Boot(vm)]
    <3>1. Boot(vm) \in Slots /\ Boot(vm)[1] = vm /\ Boot(vm)[2] = 0
      BY ConfigAssumption DEF Boot
    <3> SUFFICES ASSUME live'[Boot(vm)], ~live[Boot(vm)] PROVE FALSE
      OBVIOUS
    <3>2. Execute(c) /\ Now(c).s = Boot(vm) /\ Now(c).do \in {"publish_on", "republish"}
      BY <2>1, <3>1, LiveMoves DEF Safe
    <3> QED
      BY <2>5, <2>7, <3>1, <3>2 DEF FinishSteps, RestoreSteps, StartSteps
  <2> QED
    BY <2>2, <2>3, <2>4, <2>6, <2>9, <2>10, <2>11 DEF Steady, TokenMove
<1> QED
  BY <1>1, <1>2 DEF Next, Acts

\* An isolated VM keeps its token for good: no claim begins a lifecycle of it, its
\* memory is not restored, no cold start adopts it and its boot vCPU does not come
\* back (vm_lifecycle.cpp: the claims and the starts that read the token).
THEOREM LatchHolds == Spec => LatchedForGood
<1>1. Safe /\ [Next]_vars =>
        [\A vm \in Vms : Latched(vm) =>
           /\ token'[vm] = token[vm] /\ ~life'[vm].active
           /\ inst'[vm].gen = inst[vm].gen /\ inst'[vm].restarts = inst[vm].restarts
           /\ live'[Boot(vm)] => live[Boot(vm)]]_vars
  BY LatchedStep
<1> QED
  BY <1>1, SafeHolds, PTL DEF Spec, LatchedForGood

-----------------------------------------------------------------------------
(* An open epoch is never abandoned.                                       *)

\* While the device of an open epoch drains, its poll is armed.
DrainPolled == \A vm \in Vms : life[vm].active /\ life[vm].dmaPending => life[vm].drain

\* Everything but the vCPUs still to answer and the timeout stays.
SameEpoch(vm) ==
  /\ life'[vm].epoch = life[vm].epoch /\ life'[vm].active = life[vm].active
  /\ life'[vm].dmaPending = life[vm].dmaPending /\ life'[vm].drain = life[vm].drain

\* What the steps of a function do to an open tracker that stays open.
Answers(c, vm) ==
  /\ Now(c).do = "acknowledge"
  /\ SameEpoch(vm) /\ life'[vm].timer = life[vm].timer
  /\ life[vm].pending # {} /\ life'[vm].pending = {} => Owed(vm, {"finish_lifecycle"})'
  /\ life[vm].pending = {} => life'[vm].pending = {}
Rearms(c, vm) ==
  /\ Now(c).do = "rearm"
  /\ SameEpoch(vm) /\ life'[vm].pending = life[vm].pending
  /\ life[vm].timer => life'[vm].timer
Decides(c, vm) ==
  /\ Now(c).do = "finish_lifecycle"
  /\ ~life[vm].dmaPending /\ ~life'[vm].dmaPending /\ Owed(vm, Closing)'

LEMMA TrackerWrites ==
  ASSUME TypeOK, Placement, EpochsAgree, NEW c \in Cores, Execute(c), NEW vm \in Vms, ~Opens(c, vm),
         life[vm].active, life'[vm].active
  PROVE  life'[vm] = life[vm] \/ Answers(c, vm) \/ Rearms(c, vm) \/ Decides(c, vm)
<1>0. life[vm] \in Life /\ life \in [Vms -> Life] /\ agenda[c] # <<>>
  BY Frames DEF TypeOK
<1> DEFINE own == Now(c).s[1]
<1>1. CASE life' = life
  BY <1>1
<1>2. CASE BeginLifecycle(c)
  <2>1. CASE own # vm
    BY <1>0, <1>2, <2>1 DEF BeginLifecycle
  <2>2. CASE own = vm
    BY <1>2, <2>2 DEF BeginLifecycle, Opens
  <2> QED
    BY <2>1, <2>2
<1>3. CASE Acknowledge(c) /\ life' # life
  <2>1. /\ life' = [life EXCEPT ![own].pending = @ \ {Now(c).s}]
        /\ life[own].pending = {Now(c).s} => Then(c, <<OnBoot(c, "finish_lifecycle", "None")>>)
    BY <1>3 DEF Acknowledge, OnBoot
  <2>2. CASE own # vm
    BY <1>0, <2>1, <2>2
  <2>3. CASE own = vm
    <3>1. Now(c).do = "acknowledge" /\ Owner(vm) = c
      BY <1>0, <1>3, <2>3, Heads, HeadFacts DEF Placed, OwnerSteps
    <3>2. life'[vm] = [life[vm] EXCEPT !.pending = @ \ {Now(c).s}]
      BY <1>0, <2>1, <2>3
    <3>3. /\ SameEpoch(vm) /\ life'[vm].timer = life[vm].timer
          /\ life'[vm].pending = life[vm].pending \ {Now(c).s}
      BY <1>0, <3>2 DEF Life, SameEpoch
    <3>4. ASSUME life[vm].pending # {}, life'[vm].pending = {} PROVE Owed(vm, {"finish_lifecycle"})'
      <4>1. Then(c, <<OnBoot(c, "finish_lifecycle", "None")>>)
        BY <2>1, <2>3, <3>3, <3>4
      <4>2. /\ OnBoot(c, "finish_lifecycle", "None") \in Instr
            /\ OnBoot(c, "finish_lifecycle", "None").do = "finish_lifecycle"
            /\ OnBoot(c, "finish_lifecycle", "None").s[1] = vm
        BY <1>0, <2>3, OnBootFacts, HeadFacts, Names
      <4>3. 1 \in DOMAIN agenda'[c] /\ agenda'[c][1] = OnBoot(c, "finish_lifecycle", "None")
        BY <1>0, <4>1, <4>2, LeavesOne
      <4> QED
        BY <3>1, <4>2, <4>3 DEF Owed
    <3> QED
      BY <3>1, <3>3, <3>4 DEF Answers
  <2> QED
    BY <2>2, <2>3
<1>4. CASE Rearm(c)
  <2>1. PICK b \in BOOLEAN : life' = [life EXCEPT ![own].timer = @ \/ b]
    BY <1>4 DEF Rearm
  <2>2. CASE own # vm
    BY <1>0, <2>1, <2>2
  <2>3. CASE own = vm
    <3>1. life'[vm] = [life[vm] EXCEPT !.timer = @ \/ b]
      BY <1>0, <2>1, <2>3
    <3>2. /\ SameEpoch(vm) /\ life'[vm].pending = life[vm].pending
          /\ life[vm].timer => life'[vm].timer
      BY <1>0, <3>1 DEF Life, SameEpoch
    <3> QED
      BY <1>4, <3>2, Heads DEF Rearms
  <2> QED
    BY <2>2, <2>3
<1>5. CASE FinishLifecycle(c) /\ life' # life
  <2> DEFINE disarmed == [life[own] EXCEPT !.timer = FALSE, !.drain = FALSE]
  <2>1. /\ Ready(own) /\ ~life[own].dmaPending
        /\ \/ life' = [life EXCEPT ![own] = Finished(disarmed)]
           \/ /\ life' = [life EXCEPT ![own] = disarmed]
              /\ \E what \in {"finish", "restore_on"} : Then(c, <<Turned(c, what)>>)
    BY <1>5 DEF FinishLifecycle, Goto, Turned
  <2>2. CASE own # vm
    BY <1>0, <2>1, <2>2
  <2>3. CASE own = vm
    <3>1. Now(c).do = "finish_lifecycle" /\ Owner(vm) = c
      BY <1>0, <1>5, <2>3, Heads, HeadFacts DEF Placed, OwnerSteps
    <3>2. disarmed \in Life /\ disarmed.dmaPending = life[vm].dmaPending
      BY <1>0, <2>3 DEF Life
    <3>3. \A l \in Life : ~Finished(l).active
      BY DEF Finished, Life
    <3> HIDE DEF disarmed
    <3>4. life'[vm] = disarmed /\ \E what \in {"finish", "restore_on"} : Then(c, <<Turned(c, what)>>)
      BY <1>0, <2>1, <2>3, <3>2, <3>3
    <3>5. PICK what \in {"finish", "restore_on"} : Then(c, <<Turned(c, what)>>)
      BY <3>4
    <3>6. Turned(c, what) \in Instr /\ Turned(c, what).do = what /\ Turned(c, what).s[1] = vm
      BY <1>0, <2>3, TurnedFacts, Names
    <3>7. 1 \in DOMAIN agenda'[c] /\ agenda'[c][1] = Turned(c, what)
      BY <1>0, <3>5, <3>6, LeavesOne
    <3>8. Owed(vm, Closing)'
      BY <3>1, <3>6, <3>7 DEF Owed, Closing
    <3> QED
      BY <2>1, <2>3, <3>1, <3>2, <3>4, <3>8 DEF Decides
  <2> QED
    BY <2>2, <2>3
<1>6. CASE Finish(c) \/ Isolated(c)
  <2>1. \/ life' = [life EXCEPT ![own] = Finished(@)]
        \/ life' = [life EXCEPT ![own].active = FALSE, ![own].pending = {}, ![own].retries = 0]
    BY <1>6 DEF Finish, Isolated
  <2>2. CASE own # vm
    BY <1>0, <2>1, <2>2
  <2>3. CASE own = vm
    <3>1. CASE life' = [life EXCEPT ![own] = Finished(@)]
      <4>1. life'[vm] = Finished(life[vm])
        BY <1>0, <2>3, <3>1
      <4> QED
        BY <1>0, <4>1 DEF Finished, Life
    <3>2. CASE life' = [life EXCEPT ![own].active = FALSE, ![own].pending = {}, ![own].retries = 0]
      BY <1>0, <2>3, <3>2 DEF Life
    <3> QED
      BY <2>1, <3>1, <3>2
  <2> QED
    BY <2>2, <2>3
<1>7. Now(c).do \notin LifeWrites => life' = life
  BY Frames
<1> QED
  BY <1>1, <1>2, <1>3, <1>4, <1>5, <1>6, <1>7, Heads DEF Execute, LifeWrites

\* A core that is not the owner touches neither the tracker nor the owner's agenda.
LEMMA OwnersAlone ==
  ASSUME TypeOK, Placement, EpochsAgree, NEW c \in Cores, Acts(c), NEW vm \in Vms, Owner(vm) # c
  PROVE  life'[vm] = life[vm] /\ agenda'[Owner(vm)] = agenda[Owner(vm)]
<1>0. life \in [Vms -> Life] /\ agenda \in [Cores -> Seq(Instr)] /\ Owner(vm) \in Cores
  BY OwnerType DEF TypeOK
<1>1. CASE Execute(c)
  <2>1. agenda[c] # <<>>
    BY <1>1, Frames
  <2>2. PICK is : Then(c, is) /\ is \in Seq(Instr)
    BY <1>1, Handing
  <2>3. agenda'[Owner(vm)] = agenda[Owner(vm)]
    BY <1>0, <2>1, <2>2, ThenEntries
  <2>4. CASE Now(c).do \in LifeWrites
    <3>1. Now(c).do \in OwnerSteps
      BY <2>4 DEF LifeWrites, OwnerSteps
    <3>2. Now(c).s[1] # vm
      BY <2>1, <3>1, HeadFacts DEF Placed
    <3>3. \/ life' = life \/ \E l : life' = [life EXCEPT ![Now(c).s[1]] = l]
      <4>1. ASSUME BeginLifecycle(c) PROVE \E l : life' = [life EXCEPT ![Now(c).s[1]] = l] \/ life' = life
        BY <4>1 DEF BeginLifecycle
      <4>2. ASSUME Acknowledge(c) \/ Rearm(c) \/ Isolated(c)
            PROVE  \E l : life' = [life EXCEPT ![Now(c).s[1]] = l] \/ life' = life
        BY <1>0, <4>2 DEF Acknowledge, Rearm, Isolated
      <4>3. ASSUME FinishLifecycle(c) \/ Finish(c)
            PROVE  \E l : life' = [life EXCEPT ![Now(c).s[1]] = l] \/ life' = life
        BY <4>3 DEF FinishLifecycle, Finish
      <4> QED
        BY <1>1, <2>4, <4>1, <4>2, <4>3, Heads DEF Execute, LifeWrites
    <3> QED
      BY <1>0, <2>3, <3>2, <3>3
  <2> QED
    BY <1>1, <2>3, <2>4, Frames
<1>2. CASE Interrupt(c) \/ Request(c)
  <2>1. agenda'[Owner(vm)] = agenda[Owner(vm)]
    BY <1>0, <1>2, Outside DEF Enter, DrainMail
  <2>2. life' = life \/ \E own \in Vms : LifecycleTimeout(c, own) \/ DmaDrain(c, own)
    BY <1>2, Outside
  <2>3. ASSUME NEW own \in Vms, LifecycleTimeout(c, own) \/ DmaDrain(c, own)
        PROVE  life'[vm] = life[vm]
    <3>1. own # vm
      BY <2>3 DEF LifecycleTimeout, DmaDrain
    <3>2. CASE LifecycleTimeout(c, own)
      BY <1>0, <3>1, <3>2 DEF LifecycleTimeout
    <3>3. CASE DmaDrain(c, own)
      BY <1>0, <3>1, <3>3 DEF DmaDrain
    <3> QED
      BY <2>3, <3>2, <3>3
  <2> QED
    BY <2>1, <2>2, <2>3
<1> QED
  BY <1>1, <1>2 DEF Acts

\* What stays behind the head of the owner's agenda, and the last of what a
\* step leaves there.
LEMMA OwnersTail ==
  ASSUME TypeOK, Placement, NEW c \in Cores, Execute(c), NEW k \in DOMAIN agenda[c], k # 1
  PROVE  \E x \in DOMAIN agenda'[c] : agenda'[c][x] = agenda[c][k]
<1>1. PICK is : Then(c, is) /\ is \in Seq(Instr)
  BY Handing
<1>2. agenda[c] # <<>> /\ k > 1
  BY Frames, Places
<1> QED
  BY <1>1, <1>2, ThenEntries

LEMMA LeavesLast ==
  ASSUME TypeOK, NEW c \in Cores, agenda[c] # <<>>, NEW is \in Seq(Instr), NEW i \in Instr,
         Then(c, is \o <<i>>)
  PROVE  \E x \in DOMAIN agenda'[c] : agenda'[c][x] = i
<1>1. /\ is \o <<i>> \in Seq(Instr) /\ Len(is) \in Nat /\ Len(is \o <<i>>) = Len(is) + 1
      /\ (is \o <<i>>)[Len(is) + 1] = i
  BY LenProperties, ConcatProperties
<1>2. PICK e \in Seq(Instr) : Then(c, e) /\ Len(e) = Len(is) + 1 /\ e[Len(is) + 1] = i
  BY <1>1
<1>3. Len(is) + 1 \in 1..Len(e)
  BY <1>1, <1>2
<1> QED
  BY <1>2, <1>3, ThenEntries

\* A resend leads to the step that arms the timeout again, and that one does.
LEMMA ResendingStep ==
  ASSUME TypeOK, Placement, EpochsAgree, NEW c \in Cores, Execute(c), NEW vm \in Vms, Owner(vm) = c,
         ~Opens(c, vm), life[vm].active, life'[vm].active, Resending(vm)
  PROVE  life'[vm].timer \/ Resending(vm)'
<1>0. life[vm] \in Life /\ life \in [Vms -> Life] /\ agenda[c] # <<>>
  BY Frames DEF TypeOK
<1>1. life'[vm].epoch = life[vm].epoch
  BY Moves DEF Steady, Acts
<1>2. PICK k \in DOMAIN agenda[c] :
        agenda[c][k].s[1] = vm /\ agenda[c][k].do \in {"retry", "rearm"} /\ agenda[c][k].e = life[vm].epoch
  BY DEF Resending
<1>3. CASE k # 1
  <2>1. PICK x \in DOMAIN agenda'[c] : agenda'[c][x] = agenda[c][k]
    BY <1>3, OwnersTail
  <2> QED
    BY <1>1, <1>2, <2>1 DEF Resending
<1>4. CASE k = 1
  <2>1. Now(c).s[1] = vm /\ Now(c).do \in {"retry", "rearm"} /\ Now(c).e = life[vm].epoch
    BY <1>0, <1>2, <1>4, HeadFacts
  <2>2. CASE Now(c).do = "rearm"
    <3>1. Rearm(c)
      BY <2>2, Heads DEF Execute
    <3>2. life' = [life EXCEPT ![vm].timer = @ \/ (token[vm] = Now(c).e /\ life[vm].active)]
      BY <2>1, <3>1 DEF Rearm
    <3>3. token[vm] = Now(c).e
      BY <2>1 DEF EpochsAgree
    <3>4. life'[vm] = [life[vm] EXCEPT !.timer = @ \/ (token[vm] = Now(c).e /\ life[vm].active)]
      BY <1>0, <3>2
    <3> QED
      BY <1>0, <3>3, <3>4 DEF Life
  <2>3. CASE Now(c).do = "retry"
    <3>1. Retry(c)
      BY <2>3, Heads DEF Execute
    <3> DEFINE next == IF NextSlot(Now(c).s) \in Slots THEN Moved(c) ELSE Turned(c, "rearm")
    <3>2. /\ next \in Instr /\ next.s[1] = vm /\ next.do \in {"retry", "rearm"} /\ next.e = life[vm].epoch
          /\ Turned(c, "retire_vcpu") \in Instr /\ Turned(c, "acknowledge") \in Instr
      BY <1>0, <2>1, <2>3, MovedFacts, TurnedFacts, Names
    <3>3. Then(c, <<Turned(c, "retire_vcpu"), Turned(c, "acknowledge")>> \o <<next>>) \/ Then(c, <<next>>)
      BY <3>1 DEF Retry, Moved, Turned
    <3> HIDE DEF next
    <3>4. \E x \in DOMAIN agenda'[c] : agenda'[c][x] = next
      <4>1. CASE Then(c, <<next>>)
        BY <1>0, <3>2, <4>1, LeavesOne
      <4>2. CASE Then(c, <<Turned(c, "retire_vcpu"), Turned(c, "acknowledge")>> \o <<next>>)
        <5>1. <<Turned(c, "retire_vcpu"), Turned(c, "acknowledge")>> \in Seq(Instr)
          BY <3>2
        <5> QED
          BY <1>0, <3>2, <4>2, <5>1, LeavesLast
      <4> QED
        BY <3>3, <4>1, <4>2
    <3> QED
      BY <1>1, <3>2, <3>4 DEF Resending
  <2> QED
    BY <2>1, <2>2, <2>3
<1> QED
  BY <1>3, <1>4

\* What has been decided is carried out to the end.
LEMMA ClosingStep ==
  ASSUME TypeOK, Placement, EpochsAgree, NEW c \in Cores, Execute(c), NEW vm \in Vms, Owner(vm) = c,
         ~Opens(c, vm), life'[vm].active, Owed(vm, Closing)
  PROVE  Owed(vm, Closing)'
<1>0. life[vm] \in Life /\ life \in [Vms -> Life] /\ agenda[c] # <<>>
  BY Frames DEF TypeOK
<1>1. PICK k \in DOMAIN agenda[c] : agenda[c][k].s[1] = vm /\ agenda[c][k].do \in Closing
  BY DEF Owed
<1>2. CASE agenda[c][k].do \in FinishSteps
  <2>1. Finishing(vm)'
    BY <1>1, <1>2, FinishingStep DEF Finishing, Acts
  <2> QED
    BY <2>1 DEF Finishing, Owed, FinishSteps, RestoreSteps, Closing
<1>3. CASE k # 1
  <2>1. PICK x \in DOMAIN agenda'[c] : agenda'[c][x] = agenda[c][k]
    BY <1>3, OwnersTail
  <2> QED
    BY <1>1, <2>1 DEF Owed
<1>4. CASE k = 1 /\ agenda[c][k].do \notin FinishSteps
  <2>1. Now(c).s[1] = vm /\ Now(c).do \in {"isolate", "isolated"}
    BY <1>0, <1>1, <1>4, HeadFacts DEF Closing, FinishSteps, RestoreSteps
  <2>2. CASE Now(c).do = "isolated"
    <3>1. life' = [life EXCEPT ![vm].active = FALSE, ![vm].pending = {}, ![vm].retries = 0]
      BY <2>1, <2>2, Heads DEF Execute, Isolated
    <3> QED
      BY <1>0, <3>1 DEF Life
  <2>3. CASE Now(c).do = "isolate"
    <3>1. Isolate(c)
      BY <2>3, Heads DEF Execute
    <3> DEFINE next == IF NextSlot(Now(c).s) \in Slots THEN Moved(c) ELSE Turned(c, "isolated")
               cancel == IF Now(c).s \in life[vm].pending THEN <<Turned(c, "cancel_start")>> ELSE <<>>
    <3>2. /\ next \in Instr /\ next.s[1] = vm /\ next.do \in {"isolate", "isolated"}
          /\ Turned(c, "cancel_start") \in Instr
      BY <1>0, <2>1, <2>3, MovedFacts, TurnedFacts, Names
    <3>3. Then(c, cancel \o <<next>>)
      BY <2>1, <3>1 DEF Isolate, Moved, Turned
    <3>4. cancel \in Seq(Instr)
      BY <3>2
    <3> HIDE DEF next, cancel
    <3>5. \E x \in DOMAIN agenda'[c] : agenda'[c][x] = next
      BY <1>0, <3>2, <3>3, <3>4, LeavesLast
    <3> QED
      BY <3>2, <3>5 DEF Owed, Closing
  <2> QED
    BY <2>1, <2>2, <2>3
<1> QED
  BY <1>2, <1>3, <1>4

\* The steps of a function keep an open epoch from being abandoned.
LEMMA AbandonedExecutes ==
  ASSUME TypeOK, Placement, EpochsAgree, DrainPolled, NeverAbandoned, NEW c \in Cores, Execute(c),
         NEW vm \in Vms, Owner(vm) = c, ~Opens(c, vm), life[vm].active, life'[vm].active
  PROVE  /\ life'[vm].dmaPending => life'[vm].drain
         /\ \/ Owed(vm, Closing)'
            \/ life'[vm].pending # {} /\ (life'[vm].timer \/ Resending(vm)')
            \/ /\ life'[vm].pending = {}
               /\ (life'[vm].dmaPending /\ life'[vm].drain) \/ Owed(vm, {"finish_lifecycle"})'
<1>0. agenda[c] # <<>>
  BY Frames
<1>1. life'[vm] = life[vm] \/ Answers(c, vm) \/ Rearms(c, vm) \/ Decides(c, vm)
  BY TrackerWrites
<1>2. life[vm].dmaPending => life[vm].drain
  BY DEF DrainPolled
<1>3. Owed(vm, Closing) => Owed(vm, Closing)'
  BY ClosingStep
<1>4. Resending(vm) => life'[vm].timer \/ Resending(vm)'
  BY ResendingStep
<1>5. CASE Decides(c, vm)
  BY <1>5 DEF Decides
<1>6. CASE ~Decides(c, vm)
  <2>1. /\ life'[vm].dmaPending = life[vm].dmaPending /\ life'[vm].drain = life[vm].drain
        /\ life[vm].timer => life'[vm].timer
        /\ life[vm].pending = {} => life'[vm].pending = {}
        /\ life[vm].pending # {} /\ life'[vm].pending = {} => Owed(vm, {"finish_lifecycle"})'
    BY <1>1, <1>6 DEF Answers, Rearms, SameEpoch
  <2>2. CASE Owed(vm, {"finish_lifecycle"}) /\ life[vm].pending = {}
    <3>1. PICK k \in DOMAIN agenda[c] : agenda[c][k].s[1] = vm /\ agenda[c][k].do = "finish_lifecycle"
      BY <2>2 DEF Owed
    <3>2. CASE k # 1
      <4>1. PICK x \in DOMAIN agenda'[c] : agenda'[c][x] = agenda[c][k]
        BY <3>2, OwnersTail
      <4>2. Owed(vm, {"finish_lifecycle"})'
        BY <3>1, <4>1 DEF Owed
      <4> QED
        BY <1>2, <2>1, <2>2, <4>2
    <3>3. CASE k = 1
      <4>1. Now(c).s[1] = vm /\ Now(c).do = "finish_lifecycle"
        BY <1>0, <3>1, <3>3, HeadFacts
      <4>2. FinishLifecycle(c)
        BY <4>1, Heads DEF Execute
      <4>3. CASE life[vm].dmaPending
        BY <1>2, <2>1, <2>2, <4>3
      <4>4. CASE ~life[vm].dmaPending
        <5>1. Ready(vm)
          BY <2>2 DEF Ready
        <5>2. \/ life' = [life EXCEPT ![vm] = Finished([life[vm] EXCEPT !.timer = FALSE, !.drain = FALSE])]
              \/ Then(c, <<Turned(c, IF life[vm].mode = "Stop" THEN "finish" ELSE "restore_on")>>)
          BY <4>1, <4>2, <4>4, <5>1 DEF FinishLifecycle, Goto, Turned
        <5>3. PICK what \in {"finish", "restore_on"} : Then(c, <<Turned(c, what)>>)
          <6>1. life[vm] \in Life /\ life \in [Vms -> Life]
            BY DEF TypeOK
          <6>2. [life[vm] EXCEPT !.timer = FALSE, !.drain = FALSE] \in Life
            BY <6>1 DEF Life
          <6>3. \A l \in Life : ~Finished(l).active
            BY DEF Finished, Life
          <6>4. life' # [life EXCEPT ![vm] = Finished([life[vm] EXCEPT !.timer = FALSE, !.drain = FALSE])]
            BY <6>1, <6>2, <6>3
          <6> QED
            BY <5>2, <6>4
        <5>4. Turned(c, what) \in Instr /\ Turned(c, what).do = what /\ Turned(c, what).s[1] = vm
          BY <1>0, <4>1, TurnedFacts, Names
        <5>5. 1 \in DOMAIN agenda'[c] /\ agenda'[c][1] = Turned(c, what)
          BY <1>0, <5>3, <5>4, LeavesOne
        <5>6. Owed(vm, Closing)'
          BY <5>4, <5>5 DEF Owed, Closing
        <5> QED
          BY <1>2, <2>1, <5>6
      <4> QED
        BY <4>3, <4>4
    <3> QED
      BY <3>2, <3>3
  <2>3. CASE ~(Owed(vm, {"finish_lifecycle"}) /\ life[vm].pending = {})
    <3>1. \/ Owed(vm, Closing)
          \/ life[vm].pending # {} /\ (life[vm].timer \/ Resending(vm))
          \/ life[vm].pending = {} /\ life[vm].dmaPending /\ life[vm].drain
      BY <2>3 DEF NeverAbandoned
    <3> QED
      BY <1>2, <1>3, <1>4, <2>1, <3>1
  <2> QED
    BY <2>2, <2>3
<1> QED
  BY <1>5, <1>6

\* So do the callbacks of a resting owner, and its requests.
LEMMA AbandonedRests ==
  ASSUME TypeOK, Placement, EpochsAgree, DrainPolled, NeverAbandoned, NEW c \in Cores,
         Interrupt(c) \/ Request(c), NEW vm \in Vms, Owner(vm) = c, life[vm].active
  PROVE  /\ life'[vm].dmaPending => life'[vm].drain
         /\ \/ Owed(vm, Closing)'
            \/ life'[vm].pending # {} /\ (life'[vm].timer \/ Resending(vm)')
            \/ /\ life'[vm].pending = {}
               /\ (life'[vm].dmaPending /\ life'[vm].drain) \/ Owed(vm, {"finish_lifecycle"})'
<1>0. /\ life[vm] \in Life /\ life \in [Vms -> Life] /\ agenda \in [Cores -> Seq(Instr)]
      /\ Boot(vm) \in Slots /\ Boot(vm)[1] = vm /\ 0 \in Token
  BY OwnerType, TokenTypes DEF TypeOK
<1>1. agenda[c] = <<>> /\ (life' = life \/ \E own \in Vms : LifecycleTimeout(c, own) \/ DmaDrain(c, own))
  BY Outside
<1>2. \A k : k \notin DOMAIN agenda[c]
  BY <1>1, EmptySeq
<1>3. /\ life[vm].dmaPending => life[vm].drain
      /\ \/ life[vm].pending # {} /\ life[vm].timer
         \/ life[vm].pending = {} /\ life[vm].dmaPending /\ life[vm].drain
  BY <1>2 DEF NeverAbandoned, DrainPolled, Owed, Resending
<1>4. CASE life'[vm] = life[vm]
  BY <1>3, <1>4
<1>5. ASSUME NEW i \in Instr, Enter(c, <<i>>)
      PROVE  1 \in DOMAIN agenda'[c] /\ agenda'[c][1] = i
  BY <1>0, <1>5 DEF Enter
<1>6. CASE LifecycleTimeout(c, vm)
  <2>1. token[vm] = life[vm].epoch /\ token[vm] \in Token
    BY DEF EpochsAgree, TypeOK
  <2>2. CASE life[vm].pending = {}
    <3>1. life' = [life EXCEPT ![vm].timer = FALSE]
      BY <1>6, <2>2 DEF LifecycleTimeout, Ready
    <3>2. life'[vm] = [life[vm] EXCEPT !.timer = FALSE]
      BY <1>0, <3>1
    <3> QED
      BY <1>0, <1>3, <2>2, <3>2 DEF Life
  <2>3. CASE life[vm].pending # {}
    <3>1. \/ /\ life' = [life EXCEPT ![vm].timer = FALSE]
             /\ Enter(c, <<Do("isolate", Boot(vm), "None", 0)>>)
          \/ /\ life' = [life EXCEPT ![vm].timer = FALSE, ![vm].retries = @ + 1]
             /\ Enter(c, <<Do("retry", Boot(vm), "None", token[vm])>>)
      BY <1>6, <2>1, <2>3 DEF LifecycleTimeout, Ready
    <3>2. life'[vm] = [life[vm] EXCEPT !.timer = FALSE] \/ life'[vm] = [life[vm] EXCEPT !.timer = FALSE, !.retries = @ + 1]
      BY <1>0, <3>1
    <3>3. /\ life'[vm].dmaPending = life[vm].dmaPending /\ life'[vm].drain = life[vm].drain
          /\ life'[vm].pending = life[vm].pending /\ life'[vm].epoch = life[vm].epoch
      <4>1. CASE life'[vm] = [life[vm] EXCEPT !.timer = FALSE]
        BY <1>0, <4>1 DEF Life
      <4>2. CASE life'[vm] = [life[vm] EXCEPT !.timer = FALSE, !.retries = @ + 1]
        BY <1>0, <4>2 DEF Life
      <4> QED
        BY <3>2, <4>1, <4>2
    <3>4. \A e \in Token : \A what \in {"isolate", "retry"} :
            /\ Do(what, Boot(vm), "None", e) \in Instr /\ Do(what, Boot(vm), "None", e).do = what
            /\ Do(what, Boot(vm), "None", e).s = Boot(vm) /\ Do(what, Boot(vm), "None", e).e = e
      BY <1>0, DoFields, Names
    <3>5. CASE Enter(c, <<Do("isolate", Boot(vm), "None", 0)>>)
      <4>1. 1 \in DOMAIN agenda'[c] /\ agenda'[c][1] = Do("isolate", Boot(vm), "None", 0)
        BY <1>0, <1>5, <3>4, <3>5
      <4>2. Owed(vm, Closing)'
        BY <1>0, <3>4, <4>1 DEF Owed, Closing
      <4> QED
        BY <1>3, <3>3, <4>2
    <3>6. CASE Enter(c, <<Do("retry", Boot(vm), "None", token[vm])>>)
      <4>1. 1 \in DOMAIN agenda'[c] /\ agenda'[c][1] = Do("retry", Boot(vm), "None", token[vm])
        BY <1>5, <2>1, <3>4, <3>6
      <4>2. Resending(vm)'
        BY <1>0, <2>1, <3>3, <3>4, <4>1 DEF Resending
      <4> QED
        BY <1>3, <2>3, <3>3, <4>2
    <3> QED
      BY <3>1, <3>5, <3>6
  <2> QED
    BY <2>2, <2>3
<1>7. CASE DmaDrain(c, vm)
  <2>1. token[vm] # Inactive
    BY OpenFacts
  <2>2. CASE ~life[vm].dmaPending
    <3>1. life' = [life EXCEPT ![vm].drain = FALSE]
      BY <1>7, <2>2 DEF DmaDrain
    <3>2. life'[vm] = [life[vm] EXCEPT !.drain = FALSE]
      BY <1>0, <3>1
    <3> QED
      BY <1>0, <1>3, <2>2, <3>2 DEF Life
  <2>3. CASE life[vm].dmaPending
    <3>1. PICK d \in DmaAnswers(vm) :
            /\ life' = [life EXCEPT ![vm].drain = (d = "quiescing"), ![vm].dmaPending = (d = "quiescing"),
                                    ![vm].dmaFailed = @ \/ d = "failed"]
            /\ d # "quiescing" => Enter(c, <<Do("finish_lifecycle", Boot(vm), "None", 0)>>)
      BY <1>7, <2>1, <2>3 DEF DmaDrain
    <3>2. life'[vm] = [life[vm] EXCEPT !.drain = (d = "quiescing"), !.dmaPending = (d = "quiescing"),
                                       !.dmaFailed = @ \/ d = "failed"]
      BY <1>0, <3>1
    <3>3. /\ life'[vm].drain = (d = "quiescing") /\ life'[vm].dmaPending = (d = "quiescing")
          /\ life'[vm].pending = life[vm].pending /\ life'[vm].timer = life[vm].timer
      BY <1>0, <3>2 DEF Life
    <3>4. CASE d = "quiescing"
      BY <1>3, <3>3, <3>4
    <3>5. CASE d # "quiescing"
      <4>1. /\ Do("finish_lifecycle", Boot(vm), "None", 0) \in Instr
            /\ Do("finish_lifecycle", Boot(vm), "None", 0).do = "finish_lifecycle"
            /\ Do("finish_lifecycle", Boot(vm), "None", 0).s = Boot(vm)
        BY <1>0, DoFields, Names
      <4>2. Owed(vm, {"finish_lifecycle"})'
        BY <1>0, <1>5, <3>1, <3>5, <4>1 DEF Owed
      <4> QED
        BY <1>3, <3>3, <3>5, <4>2
    <3> QED
      BY <3>4, <3>5
  <2> QED
    BY <2>2, <2>3
<1>8. ASSUME NEW own \in Vms, own # vm, LifecycleTimeout(c, own) \/ DmaDrain(c, own)
      PROVE  life'[vm] = life[vm]
  <2>1. CASE LifecycleTimeout(c, own)
    BY <1>0, <1>8, <2>1 DEF LifecycleTimeout
  <2>2. CASE DmaDrain(c, own)
    BY <1>0, <1>8, <2>2 DEF DmaDrain
  <2> QED
    BY <1>8, <2>1, <2>2
<1> QED
  BY <1>1, <1>4, <1>6, <1>7, <1>8

\* A lifecycle begins with its timeout armed and its device asked, or with
\* its end when a vCPU of it is on no core that is up.
LEMMA AbandonedOpens ==
  ASSUME TypeOK, Placement, NEW c \in Cores, NEW vm \in Vms, Opens(c, vm)
  PROVE  /\ life'[vm].dmaPending => life'[vm].drain
         /\ \/ Owed(vm, Closing)'
            \/ life'[vm].pending # {} /\ (life'[vm].timer \/ Resending(vm)')
            \/ /\ life'[vm].pending = {}
               /\ (life'[vm].dmaPending /\ life'[vm].drain) \/ Owed(vm, {"finish_lifecycle"})'
<1>0. life \in [Vms -> Life] /\ life[vm] \in Life
  BY DEF TypeOK
<1>1. agenda[c] # <<>> /\ Owner(vm) = c /\ Now(c).s[1] = vm /\ BeginLifecycle(c) /\ token[vm] = Reserved
  BY Opening DEF Opens
<1> DEFINE i == Now(c)
           own == i.s[1]
           epoch == life[own].epoch + 1
           begun == [life[own] EXCEPT !.epoch = epoch,
                       !.pending = {s \in SlotsOf(own) : power[s] # "Off"}, !.retries = 0,
                       !.active = TRUE, !.dmaPending = FALSE, !.dmaFailed = FALSE,
                       !.mode = IF i.op = "Stop" THEN "Stop" ELSE "Reset"]
           asked(d) == [begun EXCEPT !.dmaPending = (d = "quiescing"), !.dmaFailed = (d = "failed"),
                                     !.timer = TRUE, !.drain = @ \/ d = "quiescing"]
           closing == Do("finish", i.s, "None", 0)
           ending == Do("finish_lifecycle", i.s, "None", 0)
<1>2. \/ /\ life' = [life EXCEPT ![own] = begun]
         /\ Then(c, <<closing>> \o Refused(i))
      \/ /\ \E d : life' = [life EXCEPT ![own] = asked(d)]
         /\ Then(c, <<Do("send_quiesce", i.s, "None", epoch), Do("quiesce_local", i.s, "None", epoch), ending>>)
  BY <1>1 DEF BeginLifecycle
<1>3. begun \in Life /\ ~begun.dmaPending
  <2>1. epoch \in Nat
    BY <1>0, <1>1, LifeFields
  <2>2. {s \in SlotsOf(own) : power[s] # "Off"} \subseteq Slots
    BY DEF SlotsOf
  <2>3. life[own] \in Life
    BY <1>0, <1>1
  <2> QED
    BY <2>1, <2>2, <2>3 DEF Life
<1>4. /\ i \in Instr /\ i.s \in Slots /\ own = vm /\ 0 \in Token /\ epoch \in Token
  BY <1>0, <1>1, HeadFacts, LifeFields, TokenTypes
<1> HIDE DEF epoch
<1>5. /\ closing \in Instr /\ closing.do = "finish" /\ closing.s = i.s
      /\ ending \in Instr /\ ending.do = "finish_lifecycle" /\ ending.s = i.s
      /\ Do("send_quiesce", i.s, "None", epoch) \in Instr /\ Do("quiesce_local", i.s, "None", epoch) \in Instr
  <2>1. /\ closing \in Instr /\ closing.do = "finish" /\ closing.s = i.s
        /\ ending \in Instr /\ ending.do = "finish_lifecycle" /\ ending.s = i.s
    BY <1>4, DoFields, Names
  <2>2. Do("send_quiesce", i.s, "None", epoch) \in Instr /\ Do("quiesce_local", i.s, "None", epoch) \in Instr
    BY <1>4, DoFields, Names
  <2> QED
    BY <2>1, <2>2
<1> HIDE DEF begun, closing, ending
<1>6. CASE life' = [life EXCEPT ![own] = begun] /\ Then(c, <<closing>> \o Refused(i))
  <2>1. life'[vm] = begun
    BY <1>0, <1>4, <1>6
  <2>2. Refused(i) \in Seq(Instr)
    BY <1>4, RefusedType
  <2>3. /\ <<closing>> \o Refused(i) \in Seq(Instr) /\ 1 \in 1..Len(<<closing>> \o Refused(i))
        /\ (<<closing>> \o Refused(i))[1] = closing
    BY <1>5, <2>2
  <2>4. \E x \in DOMAIN agenda'[c] : agenda'[c][x] = closing
    BY <1>1, <1>6, <2>3, ThenEntries
  <2>5. Owed(vm, Closing)'
    BY <1>1, <1>4, <1>5, <2>4 DEF Owed, Closing
  <2> QED
    BY <1>3, <2>1, <2>5
<1>7. ASSUME NEW d, life' = [life EXCEPT ![own] = asked(d)],
             Then(c, <<Do("send_quiesce", i.s, "None", epoch), Do("quiesce_local", i.s, "None", epoch), ending>>)
      PROVE  /\ life'[vm].timer /\ (life'[vm].dmaPending => life'[vm].drain)
             /\ Owed(vm, {"finish_lifecycle"})'
  <2>1. life'[vm] = asked(d)
    BY <1>0, <1>4, <1>7
  <2>2. life'[vm].timer /\ (life'[vm].dmaPending => life'[vm].drain)
    BY <1>3, <2>1 DEF Life
  <2>3. \E x \in DOMAIN agenda'[c] : agenda'[c][x] = ending
    <3>1. \A a, b, x \in Instr : /\ <<a, b, x>> \in Seq(Instr) /\ 3 \in 1..Len(<<a, b, x>>)
                                  /\ <<a, b, x>>[3] = x
      OBVIOUS
    <3>2. PICK e \in Seq(Instr) : Then(c, e) /\ 3 \in 1..Len(e) /\ e[3] = ending
      BY <1>5, <1>7, <3>1, Zenon
    <3> QED
      BY <1>1, <3>2, ThenEntries
  <2>4. Owed(vm, {"finish_lifecycle"})'
    BY <1>1, <1>4, <1>5, <2>3 DEF Owed
  <2> QED
    BY <2>2, <2>4
<1> QED
  BY <1>2, <1>6, <1>7

LEMMA AbandonedStep ==
  ASSUME TypeOK, Placement, EpochsAgree, DrainPolled, NeverAbandoned, NEW c \in Cores, Acts(c)
  PROVE  DrainPolled' /\ NeverAbandoned'
<1> SUFFICES ASSUME NEW vm \in Vms, life'[vm].active
             PROVE
         /\ life'[vm].dmaPending => life'[vm].drain
         /\ \/ Owed(vm, Closing)'
            \/ life'[vm].pending # {} /\ (life'[vm].timer \/ Resending(vm)')
            \/ /\ life'[vm].pending = {}
               /\ (life'[vm].dmaPending /\ life'[vm].drain) \/ Owed(vm, {"finish_lifecycle"})'
  BY DEF DrainPolled, NeverAbandoned
<1>1. CASE Opens(c, vm)
  BY <1>1, AbandonedOpens
<1>2. CASE ~Opens(c, vm)
  <2>1. life[vm].active
    BY <1>2, Moves DEF Steady
  <2>2. CASE Owner(vm) # c
    <3>1. life'[vm] = life[vm] /\ agenda'[Owner(vm)] = agenda[Owner(vm)]
      BY <2>2, OwnersAlone
    <3>2. /\ Owed(vm, Closing)' <=> Owed(vm, Closing)
          /\ Owed(vm, {"finish_lifecycle"})' <=> Owed(vm, {"finish_lifecycle"})
          /\ Resending(vm)' <=> Resending(vm)
      BY <3>1 DEF Owed, Resending
    <3> QED
      BY <2>1, <3>1, <3>2 DEF DrainPolled, NeverAbandoned
  <2>3. CASE Owner(vm) = c /\ Execute(c)
    BY <1>2, <2>1, <2>3, AbandonedExecutes
  <2>4. CASE Owner(vm) = c /\ (Interrupt(c) \/ Request(c))
    BY <2>1, <2>4, AbandonedRests
  <2> QED
    BY <2>2, <2>3, <2>4 DEF Acts
<1> QED
  BY <1>1, <1>2

LEMMA AbandonedStutter == DrainPolled /\ NeverAbandoned /\ UNCHANGED vars => (DrainPolled /\ NeverAbandoned)'
BY DEF DrainPolled, NeverAbandoned, Owed, Resending, vars

\* An open epoch always has what will carry it on: the timeout while a vCPU
\* has not answered, the poll of its device, or the owner's next step,
\* whatever the mailboxes refuse and however the cores interleave.
THEOREM EpochsNeverAbandoned == Spec => []NeverAbandoned
<1>1. Init => DrainPolled /\ NeverAbandoned
  BY DEF Init, DrainPolled, NeverAbandoned
<1>2. Safe /\ DrainPolled /\ NeverAbandoned /\ [Next]_vars => (DrainPolled /\ NeverAbandoned)'
  BY AbandonedStep, AbandonedStutter DEF Next, Safe, Acts
<1> QED
  BY <1>1, <1>2, SafeHolds, PTL DEF Spec

-----------------------------------------------------------------------------
(* With every vCPU of a VM on the core of its boot vCPU, the coordinator   *)
(* implements the abstract lifecycle.                                      *)

LEMMA Published ==
  ASSUME TypeOK, Placement, EpochsAgree, NEW c \in Cores, Acts(c), NEW s \in Slots, OneCorePerVm, live'[s] # live[s]
  PROVE  Execute(c) /\ Now(c).s = s /\ Owner(s[1]) = c
BY LiveMoves DEF OneCorePerVm

LEMMA ScannedOffStep ==
  ASSUME OneCorePerVm, Safe, ScannedOff, NEW c \in Cores, Acts(c)
  PROVE  ScannedOff'
<1>0. TypeOK /\ Placement /\ EpochsAgree /\ PowerMatchesLive
  BY DEF Safe
<1> SUFFICES ASSUME NEW d \in Cores, NEW k \in DOMAIN agenda'[d], agenda'[d][k].do \in {"restore_on", "restore"},
                    NEW o \in Slots, o[1] = agenda'[d][k].s[1],
                    agenda'[d][k].do = "restore_on" => o[2] < agenda'[d][k].s[2]
             PROVE  ~live'[o]
  <2>1. \A b \in Cores : \A k \in DOMAIN agenda'[b] : agenda'[b][k].do \in {"restore_on", "restore"} =>
          \A o \in Slots : o[1] = agenda'[b][k].s[1] /\ (agenda'[b][k].do = "restore_on" => o[2] < agenda'[b][k].s[2])
            => ~live'[o]
    OBVIOUS
  <2> QED
    BY <2>1 DEF ScannedOff, SlotsOf
<1>1. PICK vm \in Vms : vm = agenda'[d][k].s[1] /\ Owner(vm) = d /\ k = 1
  BY <1>0, RestoreHead
<1>2. CASE d # c /\ agenda'[d] = agenda[d]
  <2>1. ~live[o]
    BY <1>2 DEF ScannedOff, SlotsOf
  <2> QED
    BY <1>0, <1>1, <1>2, <2>1, Published DEF TypeOK
<1>3. CASE /\ d = c /\ Execute(c)
           /\ Now(c).s[1] = vm /\ Now(c).do \in {"restore_on", "finish_lifecycle"}
  <2>1. /\ agenda[c] # <<>> /\ Now(c) = agenda[c][1] /\ 1 \in DOMAIN agenda[c]
        /\ Now(c) \in Instr /\ Now(c).s \in Slots /\ Placed(c, Now(c))
    BY <1>0, <1>3, Frames, HeadFacts
  <2>2. live' = live
    BY <1>3, Frames DEF LiveWrites
  <2>3. PICK i : i = agenda'[c][1] /\ i.do \in {"restore_on", "restore"} /\ i.s[1] = vm
                 /\ (i.do = "restore_on" => o[2] < i.s[2]) /\ o[1] = vm
    BY <1>1, <1>3
  <2>4. CASE Now(c).do = "finish_lifecycle"
    <3>1. FinishLifecycle(c)
      BY <1>3, <2>4, Heads DEF Execute
    <3>2. CASE \E what \in {"end_transition", "finish", "restore_on"} : Then(c, <<Turned(c, what)>>)
      <4>1. PICK what \in {"end_transition", "finish", "restore_on"} : Then(c, <<Turned(c, what)>>)
        BY <3>2
      <4>2. Turned(c, what) \in Instr /\ Turned(c, what).do = what /\ Turned(c, what).s = Now(c).s
        BY <1>0, <2>1, TurnedFacts, Names
      <4>3. i = Turned(c, what)
        BY <1>0, <2>1, <2>3, <4>1, <4>2, LeavesOne
      <4>4. Now(c).s[2] = 0
        BY <2>1, <2>4 DEF Placed
      <4>5. o[2] \in Nat
        BY ConfigAssumption
      <4> QED
        BY <2>3, <4>2, <4>3, <4>4, <4>5
    <3>3. CASE Then(c, <<>>)
      <4>1. <<>> \in Seq(Instr) /\ Len(<<>>) = 0
        BY EmptySeq
      <4>2. PICK e \in Seq(Instr) : Then(c, e) /\ Len(e) = 0
        BY <3>3, <4>1, Zenon
      <4>3. 1 \in DOMAIN agenda'[c] /\ 1 > Len(e) => agenda'[c][1] = agenda[c][2] /\ 2 \in DOMAIN agenda[c]
        <5>1. \A x \in DOMAIN agenda'[c] : x > Len(e) =>
                x + 1 - Len(e) \in DOMAIN agenda[c] /\ agenda'[c][x] = agenda[c][x + 1 - Len(e)]
          BY <1>0, <2>1, <4>2, ThenEntries
        <5> QED
          BY <4>2, <5>1
      <4>4. i = agenda[c][2] /\ 2 \in DOMAIN agenda[c]
        BY <1>1, <1>3, <2>3, <4>2, <4>3
      <4>5. i.do \in TailSteps
        BY <1>0, <4>4 DEF Placement, AgendaPlaced
      <4> QED
        BY <2>3, <4>5, Classes DEF RestoreSteps
    <3> QED
      BY <3>1, <3>2, <3>3 DEF FinishLifecycle, Goto, Turned
  <2>5. CASE Now(c).do = "restore_on"
    <3>1. RestoreOn(c)
      BY <1>3, <2>5, Heads DEF Execute
    <3>2. \A x \in Slots : x[1] = vm /\ x[2] < Now(c).s[2] => ~live[x]
      BY <1>3, <2>1, <2>5 DEF ScannedOff, SlotsOf
    <3>3. /\ OnBoot(c, "finish", "None") \in Instr /\ OnBoot(c, "finish", "None").do = "finish"
          /\ OnBoot(c, "restore", "None") \in Instr /\ OnBoot(c, "restore", "None").do = "restore"
      BY <1>0, <2>1, OnBootFacts, HeadFacts, Names
    <3>4. /\ Now(c).s = <<vm, Now(c).s[2]>> /\ Now(c).s[2] \in Nat /\ o = <<vm, o[2]>> /\ o[2] \in Nat
          /\ NextSlot(Now(c).s)[2] = Now(c).s[2] + 1
      BY <1>3, <2>1, <2>3, ConfigAssumption DEF NextSlot
    <3>5. ASSUME power[Now(c).s] = "Off", o[2] < Now(c).s[2] + 1 PROVE ~live[o]
      <4>1. CASE o[2] = Now(c).s[2]
        <5>1. o = Now(c).s
          BY <3>4, <4>1
        <5> QED
          BY <1>0, <3>5, <5>1 DEF PowerMatchesLive
      <4>2. CASE o[2] # Now(c).s[2]
        BY <2>3, <3>2, <3>4, <3>5, <4>2
      <4> QED
        BY <4>1, <4>2
    <3>6. CASE Then(c, <<OnBoot(c, "finish", "None")>>)
      BY <1>0, <2>1, <2>3, <3>3, <3>6, LeavesOne
    <3>7. CASE power[Now(c).s] = "Off" /\ NextSlot(Now(c).s) \in Slots /\ Then(c, <<Moved(c)>>)
      <4>1. Moved(c) \in Instr /\ Moved(c).do = "restore_on" /\ Moved(c).s = NextSlot(Now(c).s)
        BY <1>0, <2>1, <2>5, <3>7, MovedFacts
      <4>2. i = Moved(c)
        BY <1>0, <2>1, <2>3, <3>7, <4>1, LeavesOne
      <4> QED
        BY <2>2, <2>3, <3>4, <3>5, <3>7, <4>1, <4>2
    <3>8. CASE power[Now(c).s] = "Off" /\ NextSlot(Now(c).s) \notin Slots /\ Then(c, <<OnBoot(c, "restore", "None")>>)
      <4>1. o[2] < Now(c).s[2] + 1
        <5> SUFFICES ASSUME Now(c).s[2] + 1 \in 0..o[2] PROVE FALSE
          BY <3>4
        <5>1. <<vm, Now(c).s[2] + 1>> \in Slots
          BY <2>3, <3>4, ConfigAssumption
        <5> QED
          BY <1>3, <3>8, <5>1 DEF NextSlot
      <4> QED
        BY <2>2, <3>5, <3>8, <4>1
    <3> QED
      BY <3>1, <3>6, <3>7, <3>8 DEF RestoreOn, Scan, Moved, OnBoot
  <2> QED
    BY <1>3, <2>4, <2>5
<1> QED
  BY <1>0, <1>1, <1>2, <1>3, RestoreHead

LEMMA ScannedOffStutter == ScannedOff /\ UNCHANGED vars => ScannedOff'
BY DEF ScannedOff, SlotsOf, vars

LEMMA ScannedOffHolds ==
  ASSUME OneCorePerVm
  PROVE  Spec => []ScannedOff
<1>1. Init => ScannedOff
  <2>1. Init => \A c \in Cores : \A k : k \notin DOMAIN agenda[c]
    BY EmptySeq DEF Init
  <2> QED
    BY <2>1 DEF ScannedOff
<1>2. Safe /\ ScannedOff /\ [Next]_vars => ScannedOff'
  BY ScannedOffStep, ScannedOffStutter DEF Next, Acts
<1> QED
  BY <1>1, <1>2, SafeHolds, PTL DEF Spec

\* "Every live vCPU is retired and DMA is drained and detached before memory
\* is restored" (vm_lifecycle.cpp, head comment) holds for every machine that
\* keeps the vCPUs of a VM on one core.
THEOREM RestoresQuiesced ==
  ASSUME OneCorePerVm
  PROVE  Spec => []RestoreOnlyQuiesced
<1>1. Safe /\ ScannedOff /\ DetachedAtRestore => RestoreOnlyQuiesced
  <2> SUFFICES ASSUME Safe, ScannedOff, DetachedAtRestore, NEW c \in Cores, At(c, "restore"),
                      NEW s \in SlotsOf(Now(c).s[1])
               PROVE  ~live[s]
    BY DEF RestoreOnlyQuiesced
  <2>1. agenda[c] # <<>> /\ Now(c).do = "restore"
    BY DEF At, Now
  <2>2. Now(c) = agenda[c][1] /\ 1 \in DOMAIN agenda[c]
    BY <2>1, HeadFacts DEF Safe
  <2> QED
    BY <2>1, <2>2 DEF ScannedOff
<1> QED
  BY <1>1, SafeHolds, ScannedOffHolds, RestoresDetached, PTL

-----------------------------------------------------------------------------
(* The refinement of VmPower, step by step.                                *)

\* What the coordinator's state says of a VM, as VmPower sees it.
HoldOf(vm) == IF token[vm] = Inactive THEN "free" ELSE IF Latched(vm) THEN "latched" ELSE "held"
HoldWrites == {"claim", "release", "finish", "finish_lifecycle", "isolated"}

\* A tracker that is open holds the VM, and so does every claim in transit.
LEMMA OpenHolds ==
  ASSUME TypeOK, EpochsAgree, NEW vm \in Vms, life[vm].active
  PROVE  HoldOf(vm) = "held" /\ token[vm] \notin {Inactive, Reserved}
BY OpenFacts DEF HoldOf, Latched

\* Who claims, gives back and latches a lifecycle.
LEMMA HoldMoves ==
  ASSUME Safe, NEW c \in Cores, Acts(c), NEW vm \in Vms
  PROVE  \/ HoldOf(vm)' = HoldOf(vm)
         \/ /\ Execute(c) /\ Now(c).s[1] = vm /\ Now(c).do \in HoldWrites
            /\ \/ HoldOf(vm) = "free" /\ HoldOf(vm)' = "held"
               \/ HoldOf(vm) = "held" /\ HoldOf(vm)' \in {"free", "latched"}
<1>0. TypeOK /\ Placement /\ EpochsAgree /\ FinishingOpen /\ Carriage
  BY DEF Safe
<1>1. Inactive # Reserved
  BY DEF Inactive, Reserved
<1>2. CASE Opens(c, vm)
  <2>1. HoldOf(vm) = "held"
    BY <1>1, <1>2 DEF Opens, HoldOf, Latched
  <2>2. life'[vm].active /\ token'[vm] = life[vm].epoch + 1 /\ life[vm].epoch \in Nat
    BY <1>0, <1>2, Opening, LifeFields DEF TypeOK
  <2>3. token'[vm] # Inactive
    BY <2>2 DEF Inactive
  <2> QED
    BY <2>1, <2>2, <2>3 DEF HoldOf, Latched
<1>3. CASE ~Opens(c, vm)
  <2>1. Steady(c, vm) /\ TokenMove(c, vm)
    BY <1>0, <1>3, Moves
  <2>2. CASE token'[vm] = token[vm]
    <3>1. CASE life'[vm].active = life[vm].active
      BY <2>2, <3>1 DEF HoldOf, Latched
    <3>2. CASE life[vm].active /\ ~life'[vm].active
      <4>1. HoldOf(vm) = "held" /\ token[vm] \notin {Inactive, Reserved}
        BY <1>0, <3>2, OpenHolds
      <4>2. HoldOf(vm)' = "latched"
        BY <2>2, <3>2, <4>1 DEF HoldOf, Latched
      <4> QED
        BY <2>1, <3>2, <4>1, <4>2 DEF Steady, HoldWrites
    <3>3. life[vm].active \in BOOLEAN /\ life'[vm].active \in BOOLEAN
      <4>1. TypeOK'
        BY <1>0, ExecuteType, InterruptType, RequestType DEF Acts
      <4>2. life[vm] \in Life /\ life'[vm] \in Life
        BY <1>0, <4>1 DEF TypeOK
      <4> QED
        BY <4>2 DEF Life
    <3> QED
      BY <2>1, <3>1, <3>2, <3>3 DEF Steady
  <2>3. CASE Claim(c) /\ Now(c).s[1] = vm /\ token[vm] = Inactive /\ token'[vm] = Reserved
    <3>1. Execute(c) /\ Now(c).do = "claim"
      BY <2>3, Heads DEF Execute
    <3>2. HoldOf(vm) = "free" /\ HoldOf(vm)' = "held"
      BY <1>1, <2>3 DEF HoldOf, Latched
    <3> QED
      BY <2>3, <3>1, <3>2 DEF HoldWrites
  <2>4. CASE Release(c) /\ Now(c).s[1] = vm /\ token'[vm] = Inactive
    <3>1. Execute(c) /\ Now(c).do = "release" /\ agenda[c] # <<>>
      BY <2>4, Heads DEF Execute
    <3>2. token[vm] = Reserved
      BY <1>0, <2>4, <3>1, HeadCarrier DEF CarrySteps
    <3>3. HoldOf(vm) = "held" /\ HoldOf(vm)' = "free"
      BY <1>1, <2>4, <3>2 DEF HoldOf, Latched
    <3> QED
      BY <2>4, <3>1, <3>3 DEF HoldWrites
  <2>5. CASE Finish(c) /\ Now(c).s[1] = vm /\ token'[vm] = Inactive
    <3>1. Execute(c) /\ Now(c).do = "finish" /\ agenda[c] # <<>>
      BY <2>5, Heads DEF Execute
    <3>2. Now(c) = agenda[c][1] /\ 1 \in DOMAIN agenda[c]
      BY <1>0, <3>1, HeadFacts
    <3>3. life[vm].active
      BY <1>0, <2>5, <3>1, <3>2 DEF FinishingOpen, FinishSteps
    <3>4. HoldOf(vm) = "held"
      BY <1>0, <3>3, OpenHolds
    <3>5. HoldOf(vm)' = "free"
      BY <2>5 DEF HoldOf
    <3> QED
      BY <2>5, <3>1, <3>4, <3>5 DEF HoldWrites
  <2> QED
    BY <2>1, <2>2, <2>3, <2>4, <2>5 DEF TokenMove
<1> QED
  BY <1>2, <1>3

\* A start past its last look at the token is of a VM that is not isolated.
LEMMA StartNotLatched ==
  ASSUME OneCorePerVm, Safe, NEW c \in Cores, agenda[c] # <<>>, Now(c).do \in StartSteps
  PROVE  HoldOf(Now(c).s[1]) # "latched"
<1>1. Now(c).s \in Slots /\ Placed(c, Now(c))
  BY HeadFacts DEF Safe
<1>2. Owner(Now(c).s[1]) = c
  BY <1>1, Classes DEF Placed, OneCorePerVm
<1>3. token[Now(c).s[1]] \in {Inactive, Reserved}
  BY <1>2 DEF Safe, StartsAlone
<1> QED
  BY <1>3 DEF HoldOf, Latched

\* A step of the last stretch is under a claim.
LEMMA RestoreHeld ==
  ASSUME Safe, NEW c \in Cores, agenda[c] # <<>>, Now(c).do \in FinishSteps
  PROVE  HoldOf(Now(c).s[1]) = "held"
<1>1. Now(c) = agenda[c][1] /\ 1 \in DOMAIN agenda[c] /\ Now(c).s[1] \in Vms
  BY HeadFacts DEF Safe
<1>2. life[Now(c).s[1]].active
  BY <1>1 DEF Safe, FinishingOpen
<1> QED
  BY <1>1, <1>2, OpenHolds DEF Safe

LEMMA StartOrStop ==
  ASSUME OneCorePerVm, Safe, Safe', NEW c \in Cores, Acts(c), NEW s \in Slots, live'[s] # live[s]
  PROVE  Abstract!PowerOn(s) \/ Abstract!PowerOff(s)
<1> DEFINE on == {o \in Slots : live[o]}
<1>0. TypeOK /\ Placement /\ EpochsAgree /\ live \in [Slots -> BOOLEAN] /\ live' \in [Slots -> BOOLEAN]
  BY DEF Safe, TypeOK
<1>1. /\ Execute(c) /\ Now(c).s = s /\ Now(c).do \in LiveWrites
      /\ live'[s] => Now(c).do \in {"publish_on", "republish"}
  BY <1>0, LiveMoves DEF LiveWrites
<1>2. \A o \in Slots \ {s} : live'[o] = live[o]
  BY <1>0, <1>1, LiveMoves
<1>3. \A vm \in Vms : HoldOf(vm)' = HoldOf(vm)
  BY <1>1, HoldMoves DEF HoldWrites, LiveWrites
<1>4. \A vm \in Vms : inst'[vm].restarts = inst[vm].restarts
  BY <1>0, <1>1, BudgetMoves DEF LiveWrites
<1>5. UNCHANGED <<[vm \in Vms |-> HoldOf(vm)], [vm \in Vms |-> inst[vm].restarts]>>
  BY <1>3, <1>4
<1>6. s[1] \in Vms
  BY SlotTypes
<1>7. CASE live'[s]
  <2>1. agenda[c] # <<>>
    BY <1>1, Frames
  <2>2. HoldOf(s[1]) # "latched"
    BY <1>1, <1>7, <2>1, StartNotLatched, RestoreHeld DEF StartSteps, FinishSteps, RestoreSteps
  <2>3. s \notin on /\ on' = on \cup {s}
    BY <1>0, <1>2, <1>7
  <2> QED
    BY <1>5, <1>6, <2>2, <2>3 DEF Abstract!PowerOn, HoldOf
<1>8. CASE ~live'[s]
  <2>1. s \in on /\ on' = on \ {s}
    BY <1>0, <1>2, <1>8
  <2> QED
    BY <1>5, <2>1 DEF Abstract!PowerOff, HoldOf
<1> QED
  BY <1>7, <1>8

LEMMA ClaimOrSettle ==
  ASSUME Safe, Safe', NEW c \in Cores, Acts(c), NEW vm \in Vms, HoldOf(vm)' # HoldOf(vm)
  PROVE  Abstract!Claim(vm) \/ Abstract!Settle(vm)
<1> DEFINE hold == [v \in Vms |-> HoldOf(v)]
<1>0. TypeOK /\ Placement /\ EpochsAgree
  BY DEF Safe
<1>1. /\ Execute(c) /\ Now(c).s[1] = vm /\ Now(c).do \in HoldWrites
      /\ \/ HoldOf(vm) = "free" /\ HoldOf(vm)' = "held"
         \/ HoldOf(vm) = "held" /\ HoldOf(vm)' \in {"free", "latched"}
  BY HoldMoves
<1>2. \A v \in Vms \ {vm} : HoldOf(v)' = HoldOf(v)
  BY <1>1, HoldMoves
<1>3. hold' = [hold EXCEPT ![vm] = HoldOf(vm)']
  <2>1. \A v \in Vms : HoldOf(v)' = IF v = vm THEN HoldOf(vm)' ELSE HoldOf(v)
    BY <1>2
  <2>2. hold' = [v \in Vms |-> IF v = vm THEN HoldOf(vm)' ELSE HoldOf(v)]
    BY <2>1
  <2> QED
    BY <2>2
<1>4. live' = live
  BY <1>1, Frames DEF HoldWrites, LiveWrites
<1>5. \A v \in Vms : inst'[v].restarts = inst[v].restarts
  BY <1>0, <1>1, BudgetMoves DEF HoldWrites
<1>6. UNCHANGED <<{s \in Slots : live[s]}, [v \in Vms |-> inst[v].restarts]>>
  BY <1>4, <1>5
<1>7. CASE HoldOf(vm) = "free" /\ HoldOf(vm)' = "held"
  BY <1>3, <1>6, <1>7 DEF Abstract!Claim, HoldOf
<1>8. CASE HoldOf(vm) = "held" /\ HoldOf(vm)' \in {"free", "latched"}
  BY <1>3, <1>6, <1>8 DEF Abstract!Settle, HoldOf
<1> QED
  BY <1>1, <1>7, <1>8

LEMMA ReloadOrRefill ==
  ASSUME OneCorePerVm, Safe, ScannedOff, Safe', NEW c \in Cores, Acts(c), NEW vm \in Vms,
         inst'[vm].restarts # inst[vm].restarts
  PROVE  Abstract!Reload(vm) \/ Abstract!ColdStart(vm)
<1> DEFINE spent == [v \in Vms |-> inst[v].restarts]
           on == {s \in Slots : live[s]}
<1>0. TypeOK /\ Placement /\ EpochsAgree /\ StartsAlone /\ PowerMatchesLive
  BY DEF Safe
<1>1. /\ Execute(c) /\ Now(c).s[1] = vm
      /\ \/ /\ Now(c).do = "restore"
            /\ inst[vm].restarts < MaxRestarts /\ inst'[vm].restarts = inst[vm].restarts + 1
         \/ /\ Now(c).do = "prepare_rest" /\ ~OthersLive(Now(c).s) /\ inst'[vm].restarts = 0
  BY <1>0, BudgetMoves
<1>2. \A v \in Vms \ {vm} : inst'[v].restarts = inst[v].restarts
  BY <1>0, <1>1, BudgetMoves
<1>3. spent' = [spent EXCEPT ![vm] = inst'[vm].restarts]
  <2>1. \A v \in Vms : inst'[v].restarts = IF v = vm THEN inst'[vm].restarts ELSE inst[v].restarts
    BY <1>2
  <2>2. spent' = [v \in Vms |-> IF v = vm THEN inst'[vm].restarts ELSE inst[v].restarts]
    BY <2>1
  <2> QED
    BY <2>2
<1>4. live' = live
  BY <1>1, Frames DEF LiveWrites
<1>5. \A v \in Vms : HoldOf(v)' = HoldOf(v)
  BY <1>1, HoldMoves DEF HoldWrites
<1>6. UNCHANGED <<on, [v \in Vms |-> HoldOf(v)]>>
  BY <1>4, <1>5
<1>7. agenda[c] # <<>>
  BY <1>1, Frames
<1>8. Now(c) = agenda[c][1] /\ 1 \in DOMAIN agenda[c] /\ Now(c).s \in Slots
  BY <1>0, <1>7, HeadFacts
<1>9. CASE /\ Now(c).do = "restore"
           /\ inst[vm].restarts < MaxRestarts /\ inst'[vm].restarts = inst[vm].restarts + 1
  <2>1. HoldOf(vm) = "held"
    BY <1>1, <1>7, <1>9, RestoreHeld DEF FinishSteps, RestoreSteps
  <2>2. \A s \in on : s[1] # vm
    BY <1>1, <1>8, <1>9 DEF ScannedOff, SlotsOf
  <2>3. spent' = [spent EXCEPT ![vm] = @ + 1]
    BY <1>3, <1>9
  <2> QED
    BY <1>6, <1>9, <2>1, <2>2, <2>3 DEF Abstract!Reload, Abstract!Running, HoldOf
<1>10. CASE Now(c).do = "prepare_rest" /\ ~OthersLive(Now(c).s) /\ inst'[vm].restarts = 0
  <2>1. HoldOf(vm) # "latched"
    BY <1>1, <1>7, <1>10, StartNotLatched DEF StartSteps, ColdSteps
  <2>2. ~live[Now(c).s]
    BY <1>0, <1>7, <1>10 DEF StartsAlone, StartSteps, ColdSteps
  <2>3. \A s \in on : s[1] # vm
    BY <1>0, <1>1, <1>8, <1>10, <2>2 DEF OthersLive, SlotsOf, PowerMatchesLive
  <2>4. spent' = [spent EXCEPT ![vm] = 0]
    BY <1>3, <1>10
  <2> QED
    BY <1>6, <2>1, <2>3, <2>4 DEF Abstract!ColdStart, Abstract!Running, HoldOf
<1> QED
  BY <1>1, <1>9, <1>10

LEMMA AbstractStep ==
  ASSUME OneCorePerVm, Safe, ScannedOff, Safe', [Next]_vars
  PROVE  [Abstract!Next]_(Abstract!vars)
<1>1. CASE UNCHANGED vars
  BY <1>1 DEF vars, Abstract!vars, Latched
<1>2. ASSUME NEW c \in Cores, Acts(c)
      PROVE  [Abstract!Next]_(Abstract!vars)
  <2>1. CASE \E s \in Slots : live'[s] # live[s]
    BY <1>2, <2>1, StartOrStop DEF Abstract!Next
  <2>2. CASE \E vm \in Vms : HoldOf(vm)' # HoldOf(vm)
    BY <1>2, <2>2, ClaimOrSettle DEF Abstract!Next
  <2>3. CASE \E vm \in Vms : inst'[vm].restarts # inst[vm].restarts
    BY <1>2, <2>3, ReloadOrRefill DEF Abstract!Next
  <2>4. CASE /\ \A s \in Slots : live'[s] = live[s]
             /\ \A vm \in Vms : HoldOf(vm)' = HoldOf(vm)
             /\ \A vm \in Vms : inst'[vm].restarts = inst[vm].restarts
    BY <2>4 DEF Abstract!vars, HoldOf
  <2> QED
    BY <2>1, <2>2, <2>3, <2>4
<1> QED
  BY <1>1, <1>2 DEF Next, Acts

\* The coordinator, its mailboxes, epochs and timers implement the lifecycle
\* VmPower describes: claims are exclusive and end or latch, memory is written
\* anew under a claim with the whole VM off, an isolated VM never runs again.
THEOREM CoordinatorImplementsVmPower ==
  ASSUME OneCorePerVm
  PROVE  Spec => ImplementsVmPower
<1>1. Init => Abstract!Init
  <2> SUFFICES ASSUME Init PROVE Abstract!Init
    OBVIOUS
  <2>1. {s \in Slots : live[s]} = {<<BootVm, 0>>}
    BY ConfigAssumption DEF Init, Boot
  <2>2. \A vm \in Vms : token[vm] = Inactive /\ inst[vm].restarts = 0
    BY DEF Init
  <2> QED
    BY <2>1, <2>2 DEF Abstract!Init
<1>2. Safe /\ ScannedOff /\ Safe' /\ [Next]_vars => [Abstract!Next]_(Abstract!vars)
  BY AbstractStep
<1> QED
  BY <1>1, <1>2, SafeHolds, ScannedOffHolds, PTL DEF Spec, ImplementsVmPower, Abstract!Spec
=============================================================================
