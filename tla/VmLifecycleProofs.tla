------------------------- MODULE VmLifecycleProofs -------------------------
(***************************************************************************)
(* Theorems about VmLifecycle, for every number of cores, VMs and vCPUs,   *)
(* every placement, mailbox size, retry count and restart budget.          *)
(***************************************************************************)
EXTENDS VmLifecycle, SequenceTheorems, TLAPS

-----------------------------------------------------------------------------
(* Lemmas about agendas and mailboxes.                                     *)

LEMMA SlotTypes ==
  ASSUME NEW s \in Slots
  PROVE  /\ s[1] \in Vms /\ s[2] \in Nat /\ s = <<s[1], s[2]>>
         /\ Boot(s[1]) \in Slots /\ SlotCpu[s] \in Cores
BY ConfigAssumption DEF Boot

LEMMA OwnerType ==
  ASSUME NEW vm \in Vms
  PROVE  Boot(vm) \in Slots /\ Boot(vm)[1] = vm /\ Owner(vm) \in Cores
BY ConfigAssumption DEF Boot, Owner

LEMMA DoType ==
  ASSUME NEW what \in Steps, NEW s \in Slots, NEW op \in Ops, NEW e \in Token
  PROVE  Do(what, s, op, e) \in Instr
BY DEF Do, Instr

LEMMA TokenTypes == 0 \in Token /\ Inactive \in Token /\ Reserved \in Token /\ Nat \subseteq Token
BY DEF Token, Inactive, Reserved

\* The instruction a core is about to execute is a well-formed one.
LEMMA NowType ==
  ASSUME agenda \in [Cores -> Seq(Instr)], NEW c \in Cores, agenda[c] # <<>>
  PROVE  /\ Now(c) \in Instr /\ Tail(agenda[c]) \in Seq(Instr)
         /\ Now(c).s \in Slots /\ Now(c).s[1] \in Vms /\ Now(c).op \in Ops
         /\ Now(c).e \in Token /\ Boot(Now(c).s[1]) \in Slots
         /\ SlotCpu[Now(c).s] \in Cores /\ Owner(Now(c).s[1]) \in Cores
         /\ \A what \in Steps : [Now(c) EXCEPT !.do = what] \in Instr
<1>1. agenda[c] \in Seq(Instr)
  OBVIOUS
<1>2. Now(c) \in Instr /\ Tail(agenda[c]) \in Seq(Instr)
  BY <1>1, HeadTailProperties DEF Now
<1>3. Now(c).s \in Slots /\ Now(c).op \in Ops /\ Now(c).e \in Token
      /\ \A what \in Steps : [Now(c) EXCEPT !.do = what] \in Instr
  BY <1>2 DEF Instr
<1> QED
  BY <1>2, <1>3, SlotTypes, OwnerType

LEMMA ThenType ==
  ASSUME agenda \in [Cores -> Seq(Instr)], NEW c \in Cores, agenda[c] # <<>>,
         NEW is \in Seq(Instr), Then(c, is)
  PROVE  agenda' \in [Cores -> Seq(Instr)]
BY NowType, ConcatProperties DEF Then

LEMMA EnterType ==
  ASSUME agenda \in [Cores -> Seq(Instr)], NEW c \in Cores, NEW is \in Seq(Instr), Enter(c, is)
  PROVE  agenda' \in [Cores -> Seq(Instr)]
BY DEF Enter

LEMMA GotoType ==
  ASSUME agenda \in [Cores -> Seq(Instr)], NEW c \in Cores, agenda[c] # <<>>,
         NEW what \in Steps, Goto(c, what)
  PROVE  agenda' \in [Cores -> Seq(Instr)]
<1>1. <<[Now(c) EXCEPT !.do = what]>> \in Seq(Instr)
  BY NowType
<1> QED
  BY <1>1, ThenType DEF Goto

LEMMA PostType ==
  ASSUME mail \in [Cores -> Seq(Instr)], NEW d \in Cores, NEW m \in Instr, Post(d, m)
  PROVE  mail' \in [Cores -> Seq(Instr)]
BY AppendProperties DEF Post

LEMMA RefusedType ==
  ASSUME NEW i \in Instr
  PROVE  Refused(i) \in Seq(Instr)
<1>1. i.s \in Slots /\ Boot(i.s[1]) \in Slots /\ 0 \in Token
  BY SlotTypes, TokenTypes DEF Instr
<1>2. Do("cancel_start", i.s, "None", 0) \in Instr
  BY <1>1 DEF Do, Instr, Steps, Ops
<1>3. Do("stop_vm", Boot(i.s[1]), "None", 0) \in Instr
  BY <1>1 DEF Do, Instr, Steps, Ops
<1> QED
  BY <1>2, <1>3 DEF Refused

LEMMA ScanType ==
  ASSUME agenda \in [Cores -> Seq(Instr)], NEW c \in Cores, agenda[c] # <<>>,
         NEW whenLive \in Seq(Instr), NEW whenOff \in Seq(Instr), Scan(c, whenLive, whenOff)
  PROVE  agenda' \in [Cores -> Seq(Instr)]
<1>1. NextSlot(Now(c).s) \in Slots => <<[Now(c) EXCEPT !.s = NextSlot(Now(c).s)]>> \in Seq(Instr)
  <2>1. ASSUME NEW n \in Slots PROVE [Now(c) EXCEPT !.s = n] \in Instr
    BY NowType DEF Instr
  <2> QED
    BY <2>1
<1> QED
  BY <1>1, ThenType DEF Scan

-----------------------------------------------------------------------------
(* Types.                                                                  *)

LEMMA InitType == Init => TypeOK
<1> SUFFICES ASSUME Init PROVE TypeOK
  OBVIOUS
<1>1. Boot(BootVm) \in Slots /\ 0 \in Nat
  BY OwnerType, ConfigAssumption
<1>2. power \in [Slots -> Halves] /\ live \in [Slots -> BOOLEAN]
  BY <1>1 DEF Init, Halves
<1>3. current \in [Cores -> Slots \cup {None}] /\ ran \subseteq Cores /\ halted \subseteq Cores
  BY DEF Init
<1>8. spoken \in BOOLEAN
  BY Zenon DEF Init
<1>9. alive \in Int /\ transitions \in Int
  BY DEF Init
<1>4. token \in [Vms -> Token]
  BY TokenTypes DEF Init
<1>5. life \in [Vms -> Life]
  BY DEF Init, Life
<1>6. inst \in [Vms -> Instance]
  BY DEF Init, Instance
<1>7. mail \in [Cores -> Seq(Instr)] /\ agenda \in [Cores -> Seq(Instr)]
  BY EmptySeq DEF Init
<1> QED
  BY <1>2, <1>3, <1>4, <1>5, <1>6, <1>7, <1>8, <1>9 DEF TypeOK

LEMMA OneDoType ==
  ASSUME NEW s \in Slots, NEW what \in Steps, NEW op \in Ops
  PROVE  <<Do(what, s, op, 0)>> \in Seq(Instr)
<1>1. Do(what, s, op, 0) \in Instr
  BY DoType, TokenTypes
<1> QED
  BY <1>1

LEMMA BootDoType ==
  ASSUME NEW s \in Slots, NEW what \in Steps, NEW op \in Ops
  PROVE  <<Do(what, Boot(s[1]), op, 0)>> \in Seq(Instr)
BY SlotTypes, OneDoType

\* The instruction at hand, turned into one or two that follow it.
LEMMA TurnType ==
  ASSUME agenda \in [Cores -> Seq(Instr)], NEW c \in Cores, agenda[c] # <<>>,
         NEW a \in Steps, NEW b \in Steps
  PROVE  /\ <<[Now(c) EXCEPT !.do = a]>> \in Seq(Instr)
         /\ <<[Now(c) EXCEPT !.do = a], [Now(c) EXCEPT !.do = b]>> \in Seq(Instr)
<1>1. [Now(c) EXCEPT !.do = a] \in Instr /\ [Now(c) EXCEPT !.do = b] \in Instr
  BY NowType
<1> QED
  BY <1>1

LEMMA NextType ==
  ASSUME agenda \in [Cores -> Seq(Instr)], NEW c \in Cores, agenda[c] # <<>>,
         NextSlot(Now(c).s) \in Slots
  PROVE  <<[Now(c) EXCEPT !.s = NextSlot(Now(c).s)]>> \in Seq(Instr)
<1>1. Now(c) \in Instr
  BY NowType
<1>2. [Now(c) EXCEPT !.s = NextSlot(Now(c).s)] \in Instr
  BY <1>1 DEF Instr
<1> QED
  BY <1>2

LEMMA BeginDmaType ==
  ASSUME agenda \in [Cores -> Seq(Instr)], NEW c \in Cores, agenda[c] # <<>>
  PROVE  BeginDma(c) \in Seq(Instr)
BY NowType, BootDoType DEF BeginDma, Steps, Ops

LEMMA FailStartType ==
  ASSUME agenda \in [Cores -> Seq(Instr)], NEW c \in Cores, agenda[c] # <<>>,
         NEW is \in Seq(Instr), FailStart(c, is)
  PROVE  agenda' \in [Cores -> Seq(Instr)]
<1>1. <<Do("cancel_start", Now(c).s, "None", 0)>> \in Seq(Instr)
  BY NowType, OneDoType DEF Steps, Ops
<1>2. <<Do("cancel_start", Now(c).s, "None", 0)>> \o is \o Refused(Now(c)) \in Seq(Instr)
  BY <1>1, NowType, RefusedType, ConcatProperties
<1> QED
  BY <1>2, ThenType DEF FailStart

LEMMA AgendaTypeStep ==
  ASSUME TypeOK, NEW c \in Cores, Execute(c)
  PROVE  agenda' \in [Cores -> Seq(Instr)]
<1>1. CASE StartVm(c)
  BY <1>1, GotoType, ThenType, NowType, EmptySeq, RefusedType DEF StartVm, At, TypeOK, Steps, Ops
<1>2. CASE StartVmOn(c)
  <2>0. agenda[c] # <<>> /\ agenda \in [Cores -> Seq(Instr)]
    BY <1>2 DEF StartVmOn, At, TypeOK
  <2>1. \A what \in Steps, op \in Ops : <<Do(what, Boot(Now(c).s[1]), op, 0)>> \in Seq(Instr)
    BY <2>0, NowType, BootDoType
  <2> QED
    BY <1>2, <2>0, <2>1, ScanType, EmptySeq, NowType DEF StartVmOn, Steps, Ops
<1>48. CASE CanStart(c)
  BY <1>48, GotoType, ThenType, NowType, EmptySeq, RefusedType DEF CanStart, At, TypeOK, Steps, Ops
<1>3. CASE CpuOn(c)
  BY <1>3, GotoType, ThenType, NowType, EmptySeq, RefusedType DEF CpuOn, At, TypeOK, Steps, Ops
<1>4. CASE BeginReserve(c)
  BY <1>4, GotoType, ThenType, NowType, EmptySeq, RefusedType DEF BeginReserve, At, TypeOK, Steps, Ops
<1>5. CASE ReserveStart(c)
  BY <1>5, GotoType, ThenType, NowType, EmptySeq, RefusedType DEF ReserveStart, At, TypeOK, Steps, Ops
<1>6. CASE Recheck(c)
  BY <1>6, GotoType, ThenType, NowType, EmptySeq, RefusedType DEF Recheck, At, TypeOK, Steps, Ops
<1>7. CASE SendStart(c)
  BY <1>7, GotoType, ThenType, NowType, EmptySeq, RefusedType DEF SendStart, At, TypeOK, Steps, Ops
<1>8. CASE CancelStart(c)
  BY <1>8, GotoType, ThenType, NowType, EmptySeq, RefusedType DEF CancelStart, At, TypeOK, Steps, Ops
<1>9. CASE EndTransition(c)
  BY <1>9, GotoType, ThenType, NowType, EmptySeq, RefusedType DEF EndTransition, At, TypeOK, Steps, Ops
<1>10. CASE QueuedStart(c)
  BY <1>10, GotoType, ThenType, NowType, EmptySeq, RefusedType DEF QueuedStart, At, TypeOK, Steps, Ops
<1>11. CASE CheckReserved(c)
  <2>0. agenda[c] # <<>> /\ agenda \in [Cores -> Seq(Instr)]
    BY <1>11 DEF CheckReserved, At, TypeOK
  <2> QED
    BY <1>11, <2>0, FailStartType, BeginDmaType, GotoType, EmptySeq DEF CheckReserved, Steps
<1>12. CASE PrepareRest(c)
  <2>0. agenda[c] # <<>> /\ agenda \in [Cores -> Seq(Instr)]
    BY <1>12 DEF PrepareRest, At, TypeOK
  <2> QED
    BY <1>12, <2>0, FailStartType, BeginDmaType, GotoType, EmptySeq DEF PrepareRest, Steps
<1>13. CASE ResumeStart(c)
  <2>0. agenda[c] # <<>> /\ agenda \in [Cores -> Seq(Instr)]
    BY <1>13 DEF ResumeStart, At, TypeOK
  <2> QED
    BY <1>13, <2>0, FailStartType, BeginDmaType, GotoType, EmptySeq DEF ResumeStart, Steps
<1>14. CASE PublishAlone(c)
  <2>0. agenda[c] # <<>> /\ agenda \in [Cores -> Seq(Instr)]
    BY <1>14 DEF PublishAlone, At, TypeOK
  <2> QED
    BY <1>14, <2>0, FailStartType, BeginDmaType, GotoType, EmptySeq DEF PublishAlone, Steps
<1>15. CASE JoinVm(c)
  <2>0. agenda[c] # <<>> /\ agenda \in [Cores -> Seq(Instr)]
    BY <1>15 DEF JoinVm, At, TypeOK
  <2> QED
    BY <1>15, <2>0, FailStartType, BeginDmaType, GotoType, EmptySeq DEF JoinVm, Steps
<1>16. CASE PublishOn(c)
  <2>0. agenda[c] # <<>> /\ agenda \in [Cores -> Seq(Instr)]
    BY <1>16 DEF PublishOn, At, TypeOK
  <2>1. \A a, b \in Steps : <<[Now(c) EXCEPT !.do = a], [Now(c) EXCEPT !.do = b]>> \in Seq(Instr)
    BY <2>0, TurnType
  <2> QED
    BY <1>16, <2>0, <2>1, ThenType DEF PublishOn, Steps
<1>17. CASE AliveUp(c)
  BY <1>17, GotoType, ThenType, NowType, EmptySeq, RefusedType DEF AliveUp, At, TypeOK, Steps, Ops
<1>18. CASE AliveDown(c)
  BY <1>18, GotoType, ThenType, NowType, EmptySeq, RefusedType DEF AliveDown, At, TypeOK, Steps, Ops
<1>19. CASE RetireVcpu(c)
  BY <1>19, GotoType, ThenType, NowType, EmptySeq, RefusedType DEF RetireVcpu, At, TypeOK, Steps, Ops
<1>20. CASE CpuOffOn(c)
  <2>0. agenda[c] # <<>> /\ agenda \in [Cores -> Seq(Instr)]
    BY <1>20 DEF CpuOffOn, At, TypeOK
  <2>1. \A what \in Steps, op \in Ops : <<Do(what, Boot(Now(c).s[1]), op, 0)>> \in Seq(Instr)
    BY <2>0, NowType, BootDoType
  <2> QED
    BY <1>20, <2>0, <2>1, ScanType, EmptySeq DEF CpuOffOn, Steps, Ops
<1>21. CASE ResetVm(c)
  <2>0. agenda[c] # <<>> /\ agenda \in [Cores -> Seq(Instr)]
    BY <1>21 DEF ResetVm, At, TypeOK
  <2>1. \A what \in Steps, op \in Ops : <<Do(what, Boot(Now(c).s[1]), op, 0)>> \in Seq(Instr)
    BY <2>0, NowType, BootDoType
  <2> QED
    BY <1>21, <2>0, <2>1, ScanType, RefusedType, NowType DEF ResetVm, Steps
<1>22. CASE StopVm(c)
  <2>0. agenda[c] # <<>> /\ agenda \in [Cores -> Seq(Instr)]
    BY <1>22 DEF StopVm, At, TypeOK
  <2>1. \A what \in Steps, op \in Ops : <<Do(what, Boot(Now(c).s[1]), op, 0)>> \in Seq(Instr)
    BY <2>0, NowType, BootDoType
  <2> QED
    BY <1>22, <2>0, <2>1, ScanType, EmptySeq DEF StopVm, Steps, Ops
<1>23. CASE Claim(c)
  BY <1>23, GotoType, ThenType, NowType, EmptySeq, RefusedType DEF Claim, At, TypeOK, Steps, Ops
<1>24. CASE Claimed(c)
  BY <1>24, GotoType, ThenType, NowType, EmptySeq, RefusedType DEF Claimed, At, TypeOK, Steps, Ops
<1>25. CASE SendBegin(c)
  <2>0. agenda[c] # <<>> /\ agenda \in [Cores -> Seq(Instr)]
    BY <1>25 DEF SendBegin, At, TypeOK
  <2>1. <<[Now(c) EXCEPT !.do = "release"]>> \o Refused(Now(c)) \in Seq(Instr)
    BY <2>0, TurnType, NowType, RefusedType, ConcatProperties DEF Steps
  <2>2. current[c] # None => <<Do("retire_vcpu", current[c], "None", 0)>> \in Seq(Instr)
    BY OneDoType DEF TypeOK, Steps, Ops
  <2> QED
    BY <1>25, <2>0, <2>1, <2>2, ThenType, EmptySeq DEF SendBegin
<1>26. CASE Release(c)
  BY <1>26, GotoType, ThenType, NowType, EmptySeq, RefusedType DEF Release, At, TypeOK, Steps, Ops
<1>27. CASE BeginLifecycle(c)
  <2>0. agenda[c] # <<>> /\ agenda \in [Cores -> Seq(Instr)]
    BY <1>27 DEF BeginLifecycle, At, TypeOK
  <2> DEFINE epoch == life[Now(c).s[1]].epoch + 1
  <2>1. epoch \in Token
    BY <2>0, NowType, TokenTypes DEF TypeOK, Life
  <2>2. <<Do("finish", Now(c).s, "None", 0)>> \o Refused(Now(c)) \in Seq(Instr)
    BY <2>0, NowType, RefusedType, ConcatProperties, OneDoType DEF Steps, Ops
  <2>3. /\ Do("send_quiesce", Now(c).s, "None", epoch) \in Instr
           /\ Do("quiesce_local", Now(c).s, "None", epoch) \in Instr
           /\ Do("finish_lifecycle", Now(c).s, "None", 0) \in Instr
    BY <2>0, <2>1, NowType, DoType, TokenTypes DEF Steps, Ops
  <2>4. <<Do("send_quiesce", Now(c).s, "None", epoch), Do("quiesce_local", Now(c).s, "None", epoch),
            Do("finish_lifecycle", Now(c).s, "None", 0)>> \in Seq(Instr)
    BY <2>3
  <2> HIDE DEF epoch
  <2> QED
    BY <1>27, <2>0, <2>2, <2>4, ThenType, NowType, RefusedType DEF BeginLifecycle, epoch
<1>28. CASE SendQuiesce(c)
  <2>0. agenda[c] # <<>> /\ agenda \in [Cores -> Seq(Instr)]
    BY <1>28 DEF SendQuiesce, At, TypeOK
  <2>1. NextSlot(Now(c).s) \in Slots => <<[Now(c) EXCEPT !.s = NextSlot(Now(c).s)]>> \in Seq(Instr)
    BY <2>0, NextType
  <2>2. Then(c, <<>>) \/ (NextSlot(Now(c).s) \in Slots /\ Then(c, <<[Now(c) EXCEPT !.s = NextSlot(Now(c).s)]>>))
    BY <1>28 DEF SendQuiesce
  <2> QED
    BY <2>0, <2>1, <2>2, ThenType, EmptySeq
<1>29. CASE QuiesceLocal(c)
  <2>0. agenda[c] # <<>> /\ agenda \in [Cores -> Seq(Instr)]
    BY <1>29 DEF QuiesceLocal, At, TypeOK
  <2> DEFINE more == IF NextSlot(Now(c).s) \in Slots THEN <<[Now(c) EXCEPT !.s = NextSlot(Now(c).s)]>> ELSE <<>>
  <2>1. more \in Seq(Instr)
    BY <2>0, NextType, EmptySeq
  <2>2. <<[Now(c) EXCEPT !.do = "retire_vcpu"], [Now(c) EXCEPT !.do = "acknowledge"]>> \in Seq(Instr)
    BY <2>0, TurnType DEF Steps
  <2>3. Then(c, more) \/ Then(c, <<[Now(c) EXCEPT !.do = "retire_vcpu"], [Now(c) EXCEPT !.do = "acknowledge"]>> \o more)
    BY <1>29 DEF QuiesceLocal
  <2> HIDE DEF more
  <2> QED
    BY <2>0, <2>1, <2>2, <2>3, ConcatProperties, ThenType
<1>30. CASE QuiesceVcpu(c)
  <2>0. agenda[c] # <<>> /\ agenda \in [Cores -> Seq(Instr)]
    BY <1>30 DEF QuiesceVcpu, At, TypeOK
  <2>1. \A a, b \in Steps : <<[Now(c) EXCEPT !.do = a], [Now(c) EXCEPT !.do = b]>> \in Seq(Instr)
    BY <2>0, TurnType
  <2> QED
    BY <1>30, <2>0, <2>1, ThenType, EmptySeq DEF QuiesceVcpu, Steps
<1>31. CASE SendAck(c)
  BY <1>31, GotoType, ThenType, NowType, EmptySeq, RefusedType DEF SendAck, At, TypeOK, Steps, Ops
<1>32. CASE Acknowledge(c)
  <2>0. agenda[c] # <<>> /\ agenda \in [Cores -> Seq(Instr)]
    BY <1>32 DEF Acknowledge, At, TypeOK
  <2>1. <<Do("finish_lifecycle", Boot(Now(c).s[1]), "None", 0)>> \in Seq(Instr)
    BY <2>0, NowType, BootDoType DEF Steps, Ops
  <2> QED
    BY <1>32, <2>0, <2>1, ThenType, EmptySeq DEF Acknowledge
<1>33. CASE FinishLifecycle(c)
  BY <1>33, GotoType, ThenType, NowType, EmptySeq, RefusedType DEF FinishLifecycle, At, TypeOK, Steps, Ops
<1>34. CASE RestoreOn(c)
  <2>0. agenda[c] # <<>> /\ agenda \in [Cores -> Seq(Instr)]
    BY <1>34 DEF RestoreOn, At, TypeOK
  <2>1. \A what \in Steps, op \in Ops : <<Do(what, Boot(Now(c).s[1]), op, 0)>> \in Seq(Instr)
    BY <2>0, NowType, BootDoType
  <2> QED
    BY <1>34, <2>0, <2>1, ScanType, EmptySeq DEF RestoreOn, Steps, Ops
<1>35. CASE Restore(c)
  BY <1>35, GotoType, ThenType, NowType, EmptySeq, RefusedType DEF Restore, At, TypeOK, Steps, Ops
<1>36. CASE ResumeReset(c)
  BY <1>36, GotoType, ThenType, NowType, EmptySeq, RefusedType DEF ResumeReset, At, TypeOK, Steps, Ops
<1>37. CASE RepublishOn(c)
  <2>0. agenda[c] # <<>> /\ agenda \in [Cores -> Seq(Instr)]
    BY <1>37 DEF RepublishOn, At, TypeOK
  <2>1. \A what \in Steps, op \in Ops : <<Do(what, Boot(Now(c).s[1]), op, 0)>> \in Seq(Instr)
    BY <2>0, NowType, BootDoType
  <2>3. Do("dma_begin", Boot(Now(c).s[1]), "None", 0) \in Instr /\ Do("finish", Boot(Now(c).s[1]), "None", 0) \in Instr
    BY <2>0, NowType, DoType, TokenTypes DEF Steps, Ops
  <2>2. <<Do("dma_begin", Boot(Now(c).s[1]), "None", 0), Do("finish", Boot(Now(c).s[1]), "None", 0)>> \in Seq(Instr)
    BY <2>3
  <2> QED
    BY <1>37, <2>0, <2>1, <2>2, ScanType, ThenType DEF RepublishOn, Steps, Ops
<1>38. CASE Republish(c)
  <2>0. agenda[c] # <<>> /\ agenda \in [Cores -> Seq(Instr)]
    BY <1>38 DEF Republish, At, TypeOK
  <2>1. \A a, b \in Steps : <<[Now(c) EXCEPT !.do = a], [Now(c) EXCEPT !.do = b]>> \in Seq(Instr)
    BY <2>0, TurnType
  <2> QED
    BY <1>38, <2>0, <2>1, ThenType DEF Republish, Steps
<1>39. CASE Finish(c)
  BY <1>39, GotoType, ThenType, NowType, EmptySeq, RefusedType DEF Finish, At, TypeOK, Steps, Ops
<1>40. CASE DmaBegin(c)
  BY <1>40, GotoType, ThenType, NowType, EmptySeq, RefusedType DEF DmaBegin, At, TypeOK, Steps, Ops
<1>41. CASE Retry(c)
  <2>0. agenda[c] # <<>> /\ agenda \in [Cores -> Seq(Instr)]
    BY <1>41 DEF Retry, At, TypeOK
  <2> DEFINE more == IF NextSlot(Now(c).s) \in Slots THEN <<[Now(c) EXCEPT !.s = NextSlot(Now(c).s)]>>
                      ELSE <<[Now(c) EXCEPT !.do = "rearm"]>>
  <2>1. more \in Seq(Instr)
    BY <2>0, NextType, TurnType DEF Steps
  <2>2. <<[Now(c) EXCEPT !.do = "retire_vcpu"], [Now(c) EXCEPT !.do = "acknowledge"]>> \in Seq(Instr)
    BY <2>0, TurnType DEF Steps
  <2>3. Then(c, more) \/ Then(c, <<[Now(c) EXCEPT !.do = "retire_vcpu"], [Now(c) EXCEPT !.do = "acknowledge"]>> \o more)
    BY <1>41 DEF Retry
  <2> HIDE DEF more
  <2> QED
    BY <2>0, <2>1, <2>2, <2>3, ConcatProperties, ThenType
<1>42. CASE Rearm(c)
  BY <1>42, GotoType, ThenType, NowType, EmptySeq, RefusedType DEF Rearm, At, TypeOK, Steps, Ops
<1>43. CASE Isolate(c)
  <2>0. agenda[c] # <<>> /\ agenda \in [Cores -> Seq(Instr)]
    BY <1>43 DEF Isolate, At, TypeOK
  <2> DEFINE cancel == IF Now(c).s \in life[Now(c).s[1]].pending THEN <<[Now(c) EXCEPT !.do = "cancel_start"]>> ELSE <<>>
  <2> DEFINE more == IF NextSlot(Now(c).s) \in Slots THEN <<[Now(c) EXCEPT !.s = NextSlot(Now(c).s)]>>
                      ELSE <<[Now(c) EXCEPT !.do = "isolated"]>>
  <2>1. more \in Seq(Instr)
    BY <2>0, NextType, TurnType DEF Steps
  <2>2. cancel \in Seq(Instr)
    BY <2>0, TurnType, EmptySeq DEF Steps
  <2>3. Then(c, cancel \o more)
    BY <1>43 DEF Isolate
  <2> HIDE DEF more, cancel
  <2> QED
    BY <2>0, <2>1, <2>2, <2>3, ConcatProperties, ThenType
<1>44. CASE Isolated(c)
  BY <1>44, GotoType, ThenType, NowType, EmptySeq, RefusedType DEF Isolated, At, TypeOK, Steps, Ops
<1>45. CASE PostVirq(c)
  BY <1>45, GotoType, ThenType, NowType, EmptySeq, RefusedType DEF PostVirq, At, TypeOK, Steps, Ops
<1>46. CASE RecoverDmaFault(c)
  BY <1>46, GotoType, ThenType, NowType, EmptySeq, RefusedType DEF RecoverDmaFault, At, TypeOK, Steps, Ops
<1>47. CASE HaltTransitions(c)
  BY <1>47, GotoType, ThenType, NowType, EmptySeq, RefusedType DEF HaltTransitions, At, TypeOK, Steps, Ops
<1> QED
  BY <1>1, <1>2, <1>3, <1>4, <1>5, <1>6, <1>7, <1>8, <1>9, <1>10, <1>11, <1>12, <1>13, <1>14,
     <1>15, <1>16, <1>17, <1>18, <1>19, <1>20, <1>21, <1>22, <1>23, <1>24, <1>25, <1>26, <1>27, <1>28,
     <1>29, <1>30, <1>31, <1>32, <1>33, <1>34, <1>35, <1>36, <1>37, <1>38, <1>39, <1>40, <1>41, <1>42,
     <1>43, <1>44, <1>45, <1>46, <1>47, <1>48
  DEF Execute

LEMMA LifeFields ==
  ASSUME NEW l \in Life
  PROVE  /\ l.epoch \in Nat /\ l.epoch + 1 \in Nat /\ l.epoch + 1 \in Token /\ l.retries + 1 \in Nat
         /\ l.pending \subseteq Slots
BY DEF Life, Token

LEMMA InstanceFields ==
  ASSUME NEW l \in Instance
  PROVE  /\ l.gen \in Nat /\ l.gen + 1 \in Nat /\ l.restarts \in Nat /\ l.restarts + 1 \in Nat
         /\ l.dmaGen \in Nat
BY DEF Instance

LEMMA FinishedType ==
  ASSUME NEW l \in Life
  PROVE  Finished(l) \in Life
BY DEF Finished, Life

\* Whatever the device answers, its record keeps its type.
LEMMA DmaTypes ==
  ASSUME inst \in [Vms -> Instance], NEW vm \in Vms
  PROVE  /\ \A d \in {"quiesced", "quiescing", "failed"} :
               DmaAnswer(vm, d) => inst' \in [Vms -> Instance]
         /\ \A attached \in BOOLEAN : DmaResume(vm, attached) => inst' \in [Vms -> Instance]
         /\ DmaAnswers(vm) \subseteq {"quiesced", "quiescing", "failed"}
<1>1. inst[vm] \in Instance /\ inst[vm].gen \in Nat
  BY InstanceFields
<1>2. ASSUME NEW d \in {"quiesced", "quiescing", "failed"}, DmaAnswer(vm, d)
      PROVE  inst' \in [Vms -> Instance]
  <2>1. (inst[vm].stream /\ d = "quiescing") \in BOOLEAN
    OBVIOUS
  <2>2. [inst[vm] EXCEPT !.dma = d, !.stream = @ /\ d = "quiescing"] \in Instance
    BY <1>1, <2>1 DEF Instance
  <2>3. inst' = [inst EXCEPT ![vm] = [inst[vm] EXCEPT !.dma = d, !.stream = @ /\ d = "quiescing"]]
    BY <1>2 DEF DmaAnswer
  <2> QED
    BY <2>2, <2>3
<1>3. ASSUME NEW attached \in BOOLEAN, DmaResume(vm, attached)
      PROVE  inst' \in [Vms -> Instance]
  <2>1. /\ [inst[vm] EXCEPT !.stream = TRUE, !.dma = "active", !.dmaGen = inst[vm].gen] \in Instance
        /\ [inst[vm] EXCEPT !.stream = FALSE, !.dma = "failed"] \in Instance
    BY <1>1 DEF Instance
  <2>2. \/ inst' = inst
        \/ inst' = [inst EXCEPT ![vm] = [inst[vm] EXCEPT !.stream = TRUE, !.dma = "active", !.dmaGen = inst[vm].gen]]
        \/ inst' = [inst EXCEPT ![vm] = [inst[vm] EXCEPT !.stream = FALSE, !.dma = "failed"]]
    BY <1>3 DEF DmaResume
  <2> QED
    BY <2>1, <2>2
<1>4. DmaAnswers(vm) \subseteq {"quiesced", "quiescing", "failed"}
  BY DEF DmaAnswers
<1> QED
  BY <1>2, <1>3, <1>4

\* A step inside a function keeps every other variable in its type.
LEMMA StateTypeStep ==
  ASSUME TypeOK, NEW c \in Cores, Execute(c)
  PROVE  /\ power' \in [Slots -> Halves] /\ live' \in [Slots -> BOOLEAN]
         /\ current' \in [Cores -> Slots \cup {None}]
         /\ token' \in [Vms -> Token] /\ life' \in [Vms -> Life] /\ inst' \in [Vms -> Instance]
         /\ mail' \in [Cores -> Seq(Instr)]
<1>1. CASE StartVm(c)
  BY <1>1 DEF StartVm, TypeOK, counters, sched
<1>2. CASE StartVmOn(c)
  BY <1>2 DEF StartVmOn, TypeOK, counters, sched
<1>48. CASE CanStart(c)
  BY <1>48 DEF CanStart, TypeOK, counters, sched
<1>3. CASE CpuOn(c)
  BY <1>3 DEF CpuOn, TypeOK, counters, sched
<1>4. CASE BeginReserve(c)
  BY <1>4 DEF BeginReserve, TypeOK, counters, sched
<1>5. CASE ReserveStart(c)
  <2>0. /\ Now(c).s \in Slots /\ Now(c).s[1] \in Vms /\ Now(c).e \in Token
        /\ SlotCpu[Now(c).s] \in Cores /\ Owner(Now(c).s[1]) \in Cores
        /\ \A what \in Steps : [Now(c) EXCEPT !.do = what] \in Instr
    BY <1>5, NowType DEF ReserveStart, At, TypeOK
  <2>2. power' \in [Slots -> Halves]
    BY <1>5, <2>0 DEF ReserveStart, TypeOK, Halves
  <2> QED
    BY <1>5, <2>2 DEF ReserveStart, TypeOK, counters, sched
<1>6. CASE Recheck(c)
  BY <1>6 DEF Recheck, TypeOK, counters, sched
<1>7. CASE SendStart(c)
  <2>0. /\ Now(c).s \in Slots /\ Now(c).s[1] \in Vms /\ Now(c).e \in Token
        /\ SlotCpu[Now(c).s] \in Cores /\ Owner(Now(c).s[1]) \in Cores
        /\ \A what \in Steps : [Now(c) EXCEPT !.do = what] \in Instr
    BY <1>7, NowType DEF SendStart, At, TypeOK
  <2>1. \A op \in Ops : Do("queued_start", Now(c).s, op, 0) \in Instr
    BY <2>0, DoType, TokenTypes DEF Steps
  <2>2. mail' \in [Cores -> Seq(Instr)]
    BY <1>7, <2>0, <2>1, PostType DEF SendStart, TypeOK, Ops
  <2> QED
    BY <1>7, <2>2 DEF SendStart, TypeOK, counters, sched
<1>8. CASE CancelStart(c)
  <2>0. /\ Now(c).s \in Slots /\ Now(c).s[1] \in Vms /\ Now(c).e \in Token
        /\ SlotCpu[Now(c).s] \in Cores /\ Owner(Now(c).s[1]) \in Cores
        /\ \A what \in Steps : [Now(c) EXCEPT !.do = what] \in Instr
    BY <1>8, NowType DEF CancelStart, At, TypeOK
  <2>2. power' \in [Slots -> Halves]
    BY <1>8, <2>0 DEF CancelStart, TypeOK, Halves
  <2> QED
    BY <1>8, <2>2 DEF CancelStart, TypeOK, counters, sched
<1>9. CASE EndTransition(c)
  BY <1>9 DEF EndTransition, TypeOK, counters, sched
<1>10. CASE QueuedStart(c)
  BY <1>10 DEF QueuedStart, TypeOK, counters, sched
<1>11. CASE CheckReserved(c)
  BY <1>11 DEF CheckReserved, TypeOK, counters, sched
<1>12. CASE PrepareRest(c)
  <2>0. /\ Now(c).s \in Slots /\ Now(c).s[1] \in Vms /\ Now(c).e \in Token
        /\ SlotCpu[Now(c).s] \in Cores /\ Owner(Now(c).s[1]) \in Cores
        /\ \A what \in Steps : [Now(c) EXCEPT !.do = what] \in Instr
    BY <1>12, NowType DEF PrepareRest, At, TypeOK
  <2>2. inst' \in [Vms -> Instance]
    <3>1. inst[Now(c).s[1]] \in Instance
      BY <2>0 DEF TypeOK
    <3>2. [inst[Now(c).s[1]] EXCEPT !.gen = @ + 1, !.restarts = 0] \in Instance
      BY <2>0, <3>1, InstanceFields DEF Instance
    <3>3. inst' = inst \/ inst' = [inst EXCEPT ![Now(c).s[1]] = [inst[Now(c).s[1]] EXCEPT !.gen = @ + 1, !.restarts = 0]]
      BY <1>12 DEF PrepareRest
    <3> QED
      BY <2>0, <3>2, <3>3 DEF TypeOK
  <2> QED
    BY <1>12, <2>2 DEF PrepareRest, TypeOK, counters, sched
<1>13. CASE ResumeStart(c)
  <2>0. /\ Now(c).s \in Slots /\ Now(c).s[1] \in Vms /\ Now(c).e \in Token
        /\ SlotCpu[Now(c).s] \in Cores /\ Owner(Now(c).s[1]) \in Cores
        /\ \A what \in Steps : [Now(c) EXCEPT !.do = what] \in Instr
    BY <1>13, NowType DEF ResumeStart, At, TypeOK
  <2>2. inst' \in [Vms -> Instance]
    BY <1>13, <2>0, DmaTypes DEF ResumeStart, TypeOK
  <2> QED
    BY <1>13, <2>2 DEF ResumeStart, TypeOK, counters, sched
<1>14. CASE PublishAlone(c)
  BY <1>14 DEF PublishAlone, TypeOK, counters, sched
<1>15. CASE JoinVm(c)
  <2>0. /\ Now(c).s \in Slots /\ Now(c).s[1] \in Vms /\ Now(c).e \in Token
        /\ SlotCpu[Now(c).s] \in Cores /\ Owner(Now(c).s[1]) \in Cores
        /\ \A what \in Steps : [Now(c) EXCEPT !.do = what] \in Instr
    BY <1>15, NowType DEF JoinVm, At, TypeOK
  <2>2. inst' \in [Vms -> Instance]
    <3>1. inst[Now(c).s[1]] \in Instance
      BY <2>0 DEF TypeOK
    <3>2. [inst[Now(c).s[1]] EXCEPT !.gen = @ + 1] \in Instance
      BY <2>0, <3>1, InstanceFields DEF Instance
    <3>3. inst' = inst \/ inst' = [inst EXCEPT ![Now(c).s[1]] = [inst[Now(c).s[1]] EXCEPT !.gen = @ + 1]]
      BY <1>15 DEF JoinVm
    <3> QED
      BY <2>0, <3>2, <3>3 DEF TypeOK
  <2> QED
    BY <1>15, <2>2 DEF JoinVm, TypeOK, counters, sched
<1>16. CASE PublishOn(c)
  <2>0. /\ Now(c).s \in Slots /\ Now(c).s[1] \in Vms /\ Now(c).e \in Token
        /\ SlotCpu[Now(c).s] \in Cores /\ Owner(Now(c).s[1]) \in Cores
        /\ \A what \in Steps : [Now(c) EXCEPT !.do = what] \in Instr
    BY <1>16, NowType DEF PublishOn, At, TypeOK
  <2>2. power' \in [Slots -> Halves]
    BY <1>16, <2>0 DEF PublishOn, TypeOK, Halves
  <2>3. live' \in [Slots -> BOOLEAN]
    BY <1>16, <2>0 DEF PublishOn, TypeOK
  <2> QED
    BY <1>16, <2>2, <2>3 DEF PublishOn, TypeOK, counters, sched
<1>17. CASE AliveUp(c)
  BY <1>17 DEF AliveUp, TypeOK, counters, sched
<1>18. CASE AliveDown(c)
  BY <1>18 DEF AliveDown, TypeOK, counters, sched
<1>19. CASE RetireVcpu(c)
  <2>0. /\ Now(c).s \in Slots /\ Now(c).s[1] \in Vms /\ Now(c).e \in Token
        /\ SlotCpu[Now(c).s] \in Cores /\ Owner(Now(c).s[1]) \in Cores
        /\ \A what \in Steps : [Now(c) EXCEPT !.do = what] \in Instr
    BY <1>19, NowType DEF RetireVcpu, At, TypeOK
  <2>2. power' \in [Slots -> Halves]
    BY <1>19, <2>0 DEF RetireVcpu, TypeOK, Halves
  <2>3. live' \in [Slots -> BOOLEAN]
    BY <1>19, <2>0 DEF RetireVcpu, TypeOK
  <2>4. current' \in [Cores -> Slots \cup {None}]
    BY <1>19, <2>0 DEF RetireVcpu, TypeOK
  <2> QED
    BY <1>19, <2>2, <2>3, <2>4 DEF RetireVcpu, TypeOK, counters, sched
<1>20. CASE CpuOffOn(c)
  BY <1>20 DEF CpuOffOn, TypeOK, counters, sched
<1>21. CASE ResetVm(c)
  BY <1>21 DEF ResetVm, TypeOK, counters, sched
<1>22. CASE StopVm(c)
  BY <1>22 DEF StopVm, TypeOK, counters, sched
<1>23. CASE Claim(c)
  <2>0. /\ Now(c).s \in Slots /\ Now(c).s[1] \in Vms /\ Now(c).e \in Token
        /\ SlotCpu[Now(c).s] \in Cores /\ Owner(Now(c).s[1]) \in Cores
        /\ \A what \in Steps : [Now(c) EXCEPT !.do = what] \in Instr
    BY <1>23, NowType DEF Claim, At, TypeOK
  <2>2. token' \in [Vms -> Token]
    BY <1>23, <2>0, TokenTypes DEF Claim, TypeOK
  <2> QED
    BY <1>23, <2>2 DEF Claim, TypeOK, counters, sched
<1>24. CASE Claimed(c)
  BY <1>24 DEF Claimed, TypeOK, counters, sched
<1>25. CASE SendBegin(c)
  <2>0. /\ Now(c).s \in Slots /\ Now(c).s[1] \in Vms /\ Now(c).e \in Token
        /\ SlotCpu[Now(c).s] \in Cores /\ Owner(Now(c).s[1]) \in Cores
        /\ \A what \in Steps : [Now(c) EXCEPT !.do = what] \in Instr
    BY <1>25, NowType DEF SendBegin, At, TypeOK
  <2>1. \A op \in Ops : Do("begin_lifecycle", Now(c).s, op, 0) \in Instr
    BY <2>0, DoType, TokenTypes DEF Steps
  <2>2. mail' \in [Cores -> Seq(Instr)]
    BY <1>25, <2>0, <2>1, PostType DEF SendBegin, TypeOK, Ops
  <2> QED
    BY <1>25, <2>2 DEF SendBegin, TypeOK, counters, sched
<1>26. CASE Release(c)
  <2>0. /\ Now(c).s \in Slots /\ Now(c).s[1] \in Vms /\ Now(c).e \in Token
        /\ SlotCpu[Now(c).s] \in Cores /\ Owner(Now(c).s[1]) \in Cores
        /\ \A what \in Steps : [Now(c) EXCEPT !.do = what] \in Instr
    BY <1>26, NowType DEF Release, At, TypeOK
  <2>2. token' \in [Vms -> Token]
    BY <1>26, <2>0, TokenTypes DEF Release, TypeOK
  <2> QED
    BY <1>26, <2>2 DEF Release, TypeOK, counters, sched
<1>27. CASE BeginLifecycle(c)
  <2>0. /\ Now(c).s \in Slots /\ Now(c).s[1] \in Vms /\ Now(c).e \in Token
        /\ SlotCpu[Now(c).s] \in Cores /\ Owner(Now(c).s[1]) \in Cores
        /\ \A what \in Steps : [Now(c) EXCEPT !.do = what] \in Instr
    BY <1>27, NowType DEF BeginLifecycle, At, TypeOK
  <2>2. token' \in [Vms -> Token]
    <3>1. life[Now(c).s[1]].epoch + 1 \in Token
      BY <2>0, LifeFields DEF TypeOK
    <3>2. token' = token \/ token' = [token EXCEPT ![Now(c).s[1]] = life[Now(c).s[1]].epoch + 1]
      BY <1>27 DEF BeginLifecycle
    <3> QED
      BY <2>0, <3>1, <3>2 DEF TypeOK
  <2>3. life' \in [Vms -> Life]
    <3> DEFINE vm == Now(c).s[1]
               begun == [life[vm] EXCEPT !.epoch = life[vm].epoch + 1,
                           !.pending = {s \in SlotsOf(vm) : power[s] # "Off"}, !.retries = 0,
                           !.active = TRUE, !.dmaPending = FALSE, !.dmaFailed = FALSE,
                           !.mode = IF Now(c).op = "Stop" THEN "Stop" ELSE "Reset"]
               asked(d) == [begun EXCEPT !.dmaPending = (d = "quiescing"), !.dmaFailed = (d = "failed"),
                                         !.timer = TRUE, !.drain = @ \/ d = "quiescing"]
    <3>1. life[vm] \in Life /\ life[vm].epoch + 1 \in Nat
      BY <2>0, LifeFields DEF TypeOK
    <3>2. {s \in SlotsOf(vm) : power[s] # "Off"} \subseteq Slots
      BY DEF SlotsOf
    <3>3. begun \in Life
      BY <3>1, <3>2 DEF Life
    <3>4. life' = life \/ life' = [life EXCEPT ![vm] = begun]
          \/ \E d \in DmaAnswers(vm) : life' = [life EXCEPT ![vm] = asked(d)]
      BY <1>27 DEF BeginLifecycle
    <3> HIDE DEF begun
    <3>5. \A d : asked(d) \in Life
      BY <3>3 DEF Life
    <3> QED
      BY <2>0, <3>3, <3>4, <3>5 DEF TypeOK
  <2>4. inst' \in [Vms -> Instance]
    <3>1. inst' = inst \/ \E d \in DmaAnswers(Now(c).s[1]) : DmaAnswer(Now(c).s[1], d)
      BY <1>27 DEF BeginLifecycle
    <3> QED
      BY <2>0, <3>1, DmaTypes DEF TypeOK
  <2> QED
    BY <1>27, <2>2, <2>3, <2>4 DEF BeginLifecycle, TypeOK, counters, sched
<1>28. CASE SendQuiesce(c)
  <2>0. /\ Now(c).s \in Slots /\ Now(c).s[1] \in Vms /\ Now(c).e \in Token
        /\ SlotCpu[Now(c).s] \in Cores /\ Owner(Now(c).s[1]) \in Cores
        /\ \A what \in Steps : [Now(c) EXCEPT !.do = what] \in Instr
    BY <1>28, NowType DEF SendQuiesce, At, TypeOK
  <2>1. [Now(c) EXCEPT !.do = "quiesce_vcpu"] \in Instr
    BY <2>0 DEF Steps
  <2>2. mail' \in [Cores -> Seq(Instr)]
    BY <1>28, <2>0, <2>1, PostType DEF SendQuiesce, TypeOK, Ops
  <2> QED
    BY <1>28, <2>2 DEF SendQuiesce, TypeOK, counters, sched
<1>29. CASE QuiesceLocal(c)
  BY <1>29 DEF QuiesceLocal, TypeOK, counters, sched
<1>30. CASE QuiesceVcpu(c)
  BY <1>30 DEF QuiesceVcpu, TypeOK, counters, sched
<1>31. CASE SendAck(c)
  <2>0. /\ Now(c).s \in Slots /\ Now(c).s[1] \in Vms /\ Now(c).e \in Token
        /\ SlotCpu[Now(c).s] \in Cores /\ Owner(Now(c).s[1]) \in Cores
        /\ \A what \in Steps : [Now(c) EXCEPT !.do = what] \in Instr
    BY <1>31, NowType DEF SendAck, At, TypeOK
  <2>1. [Now(c) EXCEPT !.do = "acknowledge"] \in Instr
    BY <2>0 DEF Steps
  <2>2. mail' \in [Cores -> Seq(Instr)]
    BY <1>31, <2>0, <2>1, PostType DEF SendAck, TypeOK, Ops
  <2> QED
    BY <1>31, <2>2 DEF SendAck, TypeOK, counters, sched
<1>32. CASE Acknowledge(c)
  <2>0. /\ Now(c).s \in Slots /\ Now(c).s[1] \in Vms /\ Now(c).e \in Token
        /\ SlotCpu[Now(c).s] \in Cores /\ Owner(Now(c).s[1]) \in Cores
        /\ \A what \in Steps : [Now(c) EXCEPT !.do = what] \in Instr
    BY <1>32, NowType DEF Acknowledge, At, TypeOK
  <2>2. life' \in [Vms -> Life]
    <3>1. life[Now(c).s[1]] \in Life
      BY <2>0 DEF TypeOK
    <3>2. [life[Now(c).s[1]] EXCEPT !.pending = @ \ {Now(c).s}] \in Life
      BY <2>0, <3>1, LifeFields DEF Life
    <3>3. life' = life \/ life' = [life EXCEPT ![Now(c).s[1]] = [life[Now(c).s[1]] EXCEPT !.pending = @ \ {Now(c).s}]]
      BY <1>32 DEF Acknowledge
    <3> QED
      BY <2>0, <3>2, <3>3 DEF TypeOK
  <2> QED
    BY <1>32, <2>2 DEF Acknowledge, TypeOK, counters, sched
<1>33. CASE FinishLifecycle(c)
  <2>0. /\ Now(c).s \in Slots /\ Now(c).s[1] \in Vms /\ Now(c).e \in Token
        /\ SlotCpu[Now(c).s] \in Cores /\ Owner(Now(c).s[1]) \in Cores
        /\ \A what \in Steps : [Now(c) EXCEPT !.do = what] \in Instr
    BY <1>33, NowType DEF FinishLifecycle, At, TypeOK
  <2>2. life' \in [Vms -> Life]
    <3> DEFINE disarmed == [life[Now(c).s[1]] EXCEPT !.timer = FALSE, !.drain = FALSE]
    <3>3. life[Now(c).s[1]] \in Life
      BY <2>0 DEF TypeOK
    <3>1. disarmed \in Life
      BY <3>3 DEF Life
    <3>2. \/ life' = life \/ life' = [life EXCEPT ![Now(c).s[1]] = disarmed]
          \/ life' = [life EXCEPT ![Now(c).s[1]] = Finished(disarmed)]
      BY <1>33 DEF FinishLifecycle
    <3> HIDE DEF disarmed
    <3> QED
      BY <2>0, <3>1, <3>2, FinishedType DEF TypeOK
  <2> QED
    BY <1>33, <2>2 DEF FinishLifecycle, TypeOK, counters, sched
<1>34. CASE RestoreOn(c)
  BY <1>34 DEF RestoreOn, TypeOK, counters, sched
<1>35. CASE Restore(c)
  <2>0. /\ Now(c).s \in Slots /\ Now(c).s[1] \in Vms /\ Now(c).e \in Token
        /\ SlotCpu[Now(c).s] \in Cores /\ Owner(Now(c).s[1]) \in Cores
        /\ \A what \in Steps : [Now(c) EXCEPT !.do = what] \in Instr
    BY <1>35, NowType DEF Restore, At, TypeOK
  <2>2. inst' \in [Vms -> Instance]
    <3>1. inst[Now(c).s[1]] \in Instance
      BY <2>0 DEF TypeOK
    <3>2. [inst[Now(c).s[1]] EXCEPT !.restarts = @ + 1, !.gen = @ + 1] \in Instance
      BY <2>0, <3>1, InstanceFields DEF Instance
    <3>3. inst' = inst \/ inst' = [inst EXCEPT ![Now(c).s[1]] = [inst[Now(c).s[1]] EXCEPT !.restarts = @ + 1, !.gen = @ + 1]]
      BY <1>35 DEF Restore
    <3> QED
      BY <2>0, <3>2, <3>3 DEF TypeOK
  <2> QED
    BY <1>35, <2>2 DEF Restore, TypeOK, counters, sched
<1>36. CASE ResumeReset(c)
  <2>0. /\ Now(c).s \in Slots /\ Now(c).s[1] \in Vms /\ Now(c).e \in Token
        /\ SlotCpu[Now(c).s] \in Cores /\ Owner(Now(c).s[1]) \in Cores
        /\ \A what \in Steps : [Now(c) EXCEPT !.do = what] \in Instr
    BY <1>36, NowType DEF ResumeReset, At, TypeOK
  <2>2. inst' \in [Vms -> Instance]
    BY <1>36, <2>0, DmaTypes DEF ResumeReset, TypeOK
  <2> QED
    BY <1>36, <2>2 DEF ResumeReset, TypeOK, counters, sched
<1>37. CASE RepublishOn(c)
  BY <1>37 DEF RepublishOn, TypeOK, counters, sched
<1>38. CASE Republish(c)
  <2>0. /\ Now(c).s \in Slots /\ Now(c).s[1] \in Vms /\ Now(c).e \in Token
        /\ SlotCpu[Now(c).s] \in Cores /\ Owner(Now(c).s[1]) \in Cores
        /\ \A what \in Steps : [Now(c) EXCEPT !.do = what] \in Instr
    BY <1>38, NowType DEF Republish, At, TypeOK
  <2>2. power' \in [Slots -> Halves]
    BY <1>38, <2>0 DEF Republish, TypeOK, Halves
  <2>3. live' \in [Slots -> BOOLEAN]
    BY <1>38, <2>0 DEF Republish, TypeOK
  <2> QED
    BY <1>38, <2>2, <2>3 DEF Republish, TypeOK, counters, sched
<1>39. CASE Finish(c)
  <2>0. /\ Now(c).s \in Slots /\ Now(c).s[1] \in Vms /\ Now(c).e \in Token
        /\ SlotCpu[Now(c).s] \in Cores /\ Owner(Now(c).s[1]) \in Cores
        /\ \A what \in Steps : [Now(c) EXCEPT !.do = what] \in Instr
    BY <1>39, NowType DEF Finish, At, TypeOK
  <2>2. token' \in [Vms -> Token]
    BY <1>39, <2>0, TokenTypes DEF Finish, TypeOK
  <2>3. life' \in [Vms -> Life]
    BY <1>39, <2>0, FinishedType DEF Finish, TypeOK
  <2> QED
    BY <1>39, <2>2, <2>3 DEF Finish, TypeOK, counters, sched
<1>40. CASE DmaBegin(c)
  <2>0. /\ Now(c).s \in Slots /\ Now(c).s[1] \in Vms /\ Now(c).e \in Token
        /\ SlotCpu[Now(c).s] \in Cores /\ Owner(Now(c).s[1]) \in Cores
        /\ \A what \in Steps : [Now(c) EXCEPT !.do = what] \in Instr
    BY <1>40, NowType DEF DmaBegin, At, TypeOK
  <2>2. inst' \in [Vms -> Instance]
    BY <1>40, <2>0, DmaTypes DEF DmaBegin, TypeOK
  <2> QED
    BY <1>40, <2>2 DEF DmaBegin, TypeOK, counters, sched
<1>41. CASE Retry(c)
  <2>0. /\ Now(c).s \in Slots /\ Now(c).s[1] \in Vms /\ Now(c).e \in Token
        /\ SlotCpu[Now(c).s] \in Cores /\ Owner(Now(c).s[1]) \in Cores
        /\ \A what \in Steps : [Now(c) EXCEPT !.do = what] \in Instr
    BY <1>41, NowType DEF Retry, At, TypeOK
  <2>1. [Now(c) EXCEPT !.do = "quiesce_vcpu"] \in Instr
    BY <2>0 DEF Steps
  <2>2. mail' \in [Cores -> Seq(Instr)]
    BY <1>41, <2>0, <2>1, PostType DEF Retry, TypeOK, Ops
  <2> QED
    BY <1>41, <2>2 DEF Retry, TypeOK, counters, sched
<1>42. CASE Rearm(c)
  <2>0. /\ Now(c).s \in Slots /\ Now(c).s[1] \in Vms /\ Now(c).e \in Token
        /\ SlotCpu[Now(c).s] \in Cores /\ Owner(Now(c).s[1]) \in Cores
        /\ \A what \in Steps : [Now(c) EXCEPT !.do = what] \in Instr
    BY <1>42, NowType DEF Rearm, At, TypeOK
  <2>2. life' \in [Vms -> Life]
    <3>1. life[Now(c).s[1]] \in Life
      BY <2>0 DEF TypeOK
    <3>2. [life[Now(c).s[1]] EXCEPT !.timer = @ \/ (token[Now(c).s[1]] = Now(c).e /\ life[Now(c).s[1]].active)] \in Life
      BY <2>0, <3>1, LifeFields DEF Life
    <3>3. life' = [life EXCEPT ![Now(c).s[1]] = [life[Now(c).s[1]] EXCEPT !.timer = @ \/ (token[Now(c).s[1]] = Now(c).e /\ life[Now(c).s[1]].active)]]
      BY <1>42 DEF Rearm
    <3> QED
      BY <2>0, <3>2, <3>3 DEF TypeOK
  <2> QED
    BY <1>42, <2>2 DEF Rearm, TypeOK, counters, sched
<1>43. CASE Isolate(c)
  BY <1>43 DEF Isolate, TypeOK, counters, sched
<1>44. CASE Isolated(c)
  <2>0. /\ Now(c).s \in Slots /\ Now(c).s[1] \in Vms /\ Now(c).e \in Token
        /\ SlotCpu[Now(c).s] \in Cores /\ Owner(Now(c).s[1]) \in Cores
        /\ \A what \in Steps : [Now(c) EXCEPT !.do = what] \in Instr
    BY <1>44, NowType DEF Isolated, At, TypeOK
  <2>2. life' \in [Vms -> Life]
    <3>1. life[Now(c).s[1]] \in Life
      BY <2>0 DEF TypeOK
    <3>2. [life[Now(c).s[1]] EXCEPT !.active = FALSE, !.pending = {}, !.retries = 0] \in Life
      BY <2>0, <3>1, LifeFields DEF Life
    <3>3. life' = [life EXCEPT ![Now(c).s[1]] = [life[Now(c).s[1]] EXCEPT !.active = FALSE, !.pending = {}, !.retries = 0]]
      BY <1>44 DEF Isolated
    <3> QED
      BY <2>0, <3>2, <3>3 DEF TypeOK
  <2> QED
    BY <1>44, <2>2 DEF Isolated, TypeOK, counters, sched
<1>45. CASE PostVirq(c)
  BY <1>45 DEF PostVirq, TypeOK, counters, sched
<1>46. CASE RecoverDmaFault(c)
  BY <1>46 DEF RecoverDmaFault, TypeOK, counters, sched
<1>47. CASE HaltTransitions(c)
  BY <1>47 DEF HaltTransitions, TypeOK, counters, sched
<1> QED
  BY <1>1, <1>2, <1>3, <1>4, <1>5, <1>6, <1>7, <1>8, <1>9, <1>10, <1>11, <1>12, <1>13, <1>14,
     <1>15, <1>16, <1>17, <1>18, <1>19, <1>20, <1>21, <1>22, <1>23, <1>24, <1>25, <1>26, <1>27, <1>28,
     <1>29, <1>30, <1>31, <1>32, <1>33, <1>34, <1>35, <1>36, <1>37, <1>38, <1>39, <1>40, <1>41, <1>42,
     <1>43, <1>44, <1>45, <1>46, <1>47, <1>48
  DEF Execute

\* The counters and the scheduler's flags keep their types too.
LEMMA ScalarTypeStep ==
  ASSUME TypeOK, NEW c \in Cores, Execute(c)
  PROVE  /\ ran' \subseteq Cores /\ halted' \subseteq Cores /\ spoken' \in BOOLEAN
         /\ alive' \in Int /\ transitions' \in Int
<1> USE DEF TypeOK
<1>1. CASE BeginReserve(c) \/ EndTransition(c) \/ Claimed(c)
  <2>1. transitions' \in Int
    BY <1>1 DEF BeginReserve, EndTransition, Claimed
  <2> QED
    BY <1>1, <2>1 DEF BeginReserve, EndTransition, Claimed, sched
<1>2. CASE AliveUp(c) \/ AliveDown(c)
  <2>1. alive' \in Int
    BY <1>2 DEF AliveUp, AliveDown
  <2> QED
    BY <1>2, <2>1 DEF AliveUp, AliveDown, sched
<1>3. CASE HaltTransitions(c)
  BY <1>3 DEF HaltTransitions, counters
<1>4. CASE StartVm(c) \/ StartVmOn(c) \/ CanStart(c) \/ CpuOn(c) \/ ReserveStart(c) \/ Recheck(c) \/ SendStart(c)
           \/ CancelStart(c) \/ QueuedStart(c) \/ CheckReserved(c) \/ PrepareRest(c) \/ ResumeStart(c)
           \/ PublishAlone(c) \/ JoinVm(c) \/ PublishOn(c)
  BY <1>4 DEF StartVm, StartVmOn, CanStart, CpuOn, ReserveStart, Recheck, SendStart, CancelStart, QueuedStart,
              CheckReserved, PrepareRest, ResumeStart, PublishAlone, JoinVm, PublishOn, counters, sched
<1>5. CASE RetireVcpu(c) \/ CpuOffOn(c) \/ ResetVm(c) \/ StopVm(c) \/ Claim(c) \/ SendBegin(c)
           \/ Release(c) \/ BeginLifecycle(c) \/ SendQuiesce(c) \/ QuiesceLocal(c) \/ QuiesceVcpu(c)
           \/ SendAck(c) \/ Acknowledge(c) \/ FinishLifecycle(c)
  BY <1>5 DEF RetireVcpu, CpuOffOn, ResetVm, StopVm, Claim, SendBegin, Release, BeginLifecycle,
              SendQuiesce, QuiesceLocal, QuiesceVcpu, SendAck, Acknowledge, FinishLifecycle, counters, sched
<1>6. CASE RestoreOn(c) \/ Restore(c) \/ ResumeReset(c) \/ RepublishOn(c) \/ Republish(c) \/ Finish(c)
           \/ DmaBegin(c) \/ Retry(c) \/ Rearm(c) \/ Isolate(c) \/ Isolated(c) \/ PostVirq(c)
           \/ RecoverDmaFault(c)
  BY <1>6 DEF RestoreOn, Restore, ResumeReset, RepublishOn, Republish, Finish, DmaBegin, Retry, Rearm,
              Isolate, Isolated, PostVirq, RecoverDmaFault, counters, sched
<1> QED
  BY <1>1, <1>2, <1>3, <1>4, <1>5, <1>6 DEF Execute

LEMMA ExecuteType ==
  ASSUME TypeOK, NEW c \in Cores, Execute(c)
  PROVE  TypeOK'
BY AgendaTypeStep, StateTypeStep, ScalarTypeStep DEF TypeOK

LEMMA InterruptType ==
  ASSUME TypeOK, NEW c \in Cores, Interrupt(c)
  PROVE  TypeOK'
<1>1. CASE DrainMail(c)
  <2>1. mail[c] \in Seq(Instr)
    BY DEF TypeOK
  <2>2. agenda' \in [Cores -> Seq(Instr)]
    BY <1>1, <2>1, EnterType DEF DrainMail, TypeOK
  <2>3. mail' \in [Cores -> Seq(Instr)]
    BY <1>1, EmptySeq DEF DrainMail, TypeOK
  <2> QED
    BY <1>1, <2>2, <2>3 DEF DrainMail, TypeOK, counters, sched
<1>2. ASSUME NEW vm \in Vms, LifecycleTimeout(c, vm)
      PROVE  TypeOK'
  <2>1. life[vm] \in Life /\ life[vm].retries + 1 \in Nat /\ token[vm] \in Token /\ life \in [Vms -> Life]
    BY LifeFields DEF TypeOK
  <2>2. agenda' \in [Cores -> Seq(Instr)]
    <3>1. Do("isolate", Boot(vm), "None", 0) \in Instr /\ Do("retry", Boot(vm), "None", token[vm]) \in Instr
      BY <2>1, OwnerType, DoType, TokenTypes DEF Steps, Ops
    <3>2. /\ <<Do("isolate", Boot(vm), "None", 0)>> \in Seq(Instr)
          /\ <<Do("retry", Boot(vm), "None", token[vm])>> \in Seq(Instr)
      BY <3>1
    <3>3. \/ agenda' = agenda \/ Enter(c, <<Do("isolate", Boot(vm), "None", 0)>>)
          \/ Enter(c, <<Do("retry", Boot(vm), "None", token[vm])>>)
      BY <1>2 DEF LifecycleTimeout
    <3> QED
      BY <3>2, <3>3, EnterType DEF TypeOK
  <2>3. life' \in [Vms -> Life]
    <3> DEFINE fired == [life[vm] EXCEPT !.timer = FALSE]
               retried == [life[vm] EXCEPT !.timer = FALSE, !.retries = @ + 1]
    <3>1. fired \in Life /\ retried \in Life
      BY <2>1 DEF Life
    <3>2. life' = [life EXCEPT ![vm] = fired] \/ life' = [life EXCEPT ![vm] = retried]
      BY <1>2 DEF LifecycleTimeout
    <3> HIDE DEF fired, retried
    <3> QED
      BY <2>1, <3>1, <3>2
  <2> QED
    BY <1>2, <2>2, <2>3 DEF LifecycleTimeout, TypeOK, counters, sched
<1>3. ASSUME NEW vm \in Vms, DmaDrain(c, vm)
      PROVE  TypeOK'
  <2>1. life[vm] \in Life
    BY DEF TypeOK
  <2>2. agenda' \in [Cores -> Seq(Instr)]
    <3>1. <<Do("finish_lifecycle", Boot(vm), "None", 0)>> \in Seq(Instr)
      BY OwnerType, OneDoType DEF Steps, Ops
    <3>2. agenda' = agenda \/ Enter(c, <<Do("finish_lifecycle", Boot(vm), "None", 0)>>)
      BY <1>3 DEF DmaDrain
    <3> QED
      BY <3>1, <3>2, EnterType DEF TypeOK
  <2>3. life' \in [Vms -> Life]
    <3> DEFINE drained(d) == [life[vm] EXCEPT !.drain = (d = "quiescing"), !.dmaPending = (d = "quiescing"),
                                              !.dmaFailed = @ \/ d = "failed"]
    <3>1. [life[vm] EXCEPT !.drain = FALSE] \in Life
      BY <2>1 DEF Life
    <3>2. \A d : drained(d) \in Life
      BY <2>1 DEF Life
    <3>3. \/ life' = [life EXCEPT ![vm] = [life[vm] EXCEPT !.drain = FALSE]]
          \/ \E d \in DmaAnswers(vm) : life' = [life EXCEPT ![vm] = drained(d)]
      <4>1. CASE ~life[vm].dmaPending \/ token[vm] = Inactive
        BY <1>3, <4>1 DEF DmaDrain
      <4>2. CASE ~(~life[vm].dmaPending \/ token[vm] = Inactive)
        <5>1. PICK d \in DmaAnswers(vm) :
                life' = [life EXCEPT ![vm].drain = (d = "quiescing"), ![vm].dmaPending = (d = "quiescing"),
                                     ![vm].dmaFailed = @ \/ d = "failed"]
          BY <1>3, <4>2 DEF DmaDrain
        <5>2. life' = [life EXCEPT ![vm] = drained(d)]
          BY <2>1, <5>1
        <5> QED
          BY <5>2
      <4> QED
        BY <4>1, <4>2
    <3> QED
      BY <3>1, <3>2, <3>3 DEF TypeOK
  <2>4. inst' \in [Vms -> Instance]
    <3>1. inst' = inst \/ \E d \in DmaAnswers(vm) : DmaAnswer(vm, d)
      BY <1>3 DEF DmaDrain
    <3> QED
      BY <3>1, DmaTypes DEF TypeOK
  <2> QED
    BY <1>3, <2>2, <2>3, <2>4 DEF DmaDrain, TypeOK, counters, sched
<1> QED
  BY <1>1, <1>2, <1>3 DEF Interrupt

LEMMA RequestType ==
  ASSUME TypeOK, NEW c \in Cores, Request(c)
  PROVE  TypeOK'
<1>0. ASSUME NEW s \in Slots, NEW what \in Steps, NEW op \in Ops, Enter(c, <<Do(what, s, op, 0)>>)
      PROVE  agenda' \in [Cores -> Seq(Instr)]
  BY <1>0, OneDoType, EnterType DEF TypeOK
<1>1. ASSUME NEW vm \in Vms, CallStartVm(c, vm)
      PROVE  TypeOK'
  <2>1. agenda' \in [Cores -> Seq(Instr)]
    BY <1>0, <1>1, OwnerType DEF CallStartVm, Steps, Ops
  <2>2. spoken' \in BOOLEAN
    BY <1>1 DEF CallStartVm, Speak, ByHost, TypeOK
  <2> QED
    BY <1>1, <2>1, <2>2 DEF CallStartVm, TypeOK, counters
<1>2. ASSUME NEW vm \in Vms, CallReset(c, vm)
      PROVE  TypeOK'
  <2>1. agenda' \in [Cores -> Seq(Instr)]
    BY <1>0, <1>2, OwnerType DEF CallReset, Steps, Ops
  <2>2. spoken' \in BOOLEAN
    BY <1>2 DEF CallReset, Speak, ByHost, TypeOK
  <2> QED
    BY <1>2, <2>1, <2>2 DEF CallReset, TypeOK, counters
<1>3. ASSUME NEW vm \in Vms, CallStop(c, vm)
      PROVE  TypeOK'
  <2>1. agenda' \in [Cores -> Seq(Instr)]
    BY <1>0, <1>3, OwnerType DEF CallStop, Steps, Ops
  <2>2. spoken' \in BOOLEAN
    BY <1>3 DEF CallStop, Speak, ByHost, TypeOK
  <2> QED
    BY <1>3, <2>1, <2>2 DEF CallStop, TypeOK, counters
<1>4. ASSUME NEW vm \in Vms, DmaFault(c, vm)
      PROVE  TypeOK'
  <2> DEFINE m == Do("recover_dma_fault", Boot(vm), "Reset", inst[vm].dmaGen)
             silenced == [inst[vm] EXCEPT !.stream = FALSE]
  <2>1. inst[vm] \in Instance /\ inst[vm].dmaGen \in Token
    BY InstanceFields, TokenTypes DEF TypeOK
  <2>2. m \in Instr
    BY <2>1, OwnerType, DoType DEF Steps, Ops
  <2>3. silenced \in Instance
    BY <2>1 DEF Instance
  <2>4. /\ inst' = [inst EXCEPT ![vm] = silenced]
        /\ mail' = mail \/ Post(Owner(vm), m)
        /\ agenda' = agenda \/ Enter(c, <<m>>)
    BY <1>4 DEF DmaFault
  <2> HIDE DEF m, silenced
  <2>5. inst' \in [Vms -> Instance]
    BY <2>3, <2>4 DEF TypeOK
  <2>6. mail' \in [Cores -> Seq(Instr)]
    BY <2>2, <2>4, OwnerType, PostType DEF TypeOK
  <2>7. <<m>> \in Seq(Instr)
    BY <2>2
  <2>8. agenda' \in [Cores -> Seq(Instr)]
    BY <2>4, <2>7, EnterType DEF TypeOK
  <2> QED
    BY <1>4, <2>5, <2>6, <2>8 DEF DmaFault, TypeOK, counters, sched
<1>5. ASSUME NEW s \in Slots, CallCpuOn(c, s)
      PROVE  TypeOK'
  <2>1. agenda' \in [Cores -> Seq(Instr)]
    BY <1>0, <1>5 DEF CallCpuOn, Steps, Ops
  <2> QED
    BY <1>5, <2>1 DEF CallCpuOn, TypeOK, counters, sched
<1>6. ASSUME NEW s \in Slots, CallPostVirq(c, s)
      PROVE  TypeOK'
  <2>1. Do("post_virq", s, "None", 0) \in Instr /\ SlotCpu[s] \in Cores
    BY DoType, TokenTypes, SlotTypes DEF Steps, Ops
  <2>2. mail' \in [Cores -> Seq(Instr)]
    BY <1>6, <2>1, PostType DEF CallPostVirq, TypeOK
  <2> QED
    BY <1>6, <2>2 DEF CallPostVirq, TypeOK, counters, sched
<1>7. ASSUME NEW s \in Slots, Dispatch(c, s)
      PROVE  TypeOK'
  <2>1. current' \in [Cores -> Slots \cup {None}] /\ ran' \subseteq Cores
    BY <1>7 DEF Dispatch, TypeOK
  <2> QED
    BY <1>7, <2>1 DEF Dispatch, TypeOK, counters
<1>8. CASE CallCpuOff(c)
  <2> DEFINE retire == Do("retire_vcpu", current[c], "None", 0)
             last == Do("cpu_off_on", Boot(current[c][1]), "Stop", 0)
  <2>1. current[c] \in Slots
    BY <1>8 DEF CallCpuOff, TypeOK
  <2>2. retire \in Instr /\ last \in Instr
    BY <2>1, SlotTypes, DoType, TokenTypes DEF Steps, Ops
  <2>3. Enter(c, <<retire, last>>)
    BY <1>8 DEF CallCpuOff
  <2> HIDE DEF retire, last
  <2>5. <<retire, last>> \in Seq(Instr)
    BY <2>2
  <2>4. agenda' \in [Cores -> Seq(Instr)]
    BY <2>3, <2>5, EnterType DEF TypeOK
  <2> QED
    BY <1>8, <2>4 DEF CallCpuOff, TypeOK, counters, sched
<1>9. CASE IdleCheck(c)
  <2>1. agenda' \in [Cores -> Seq(Instr)]
    BY <1>0, <1>9, OwnerType, ConfigAssumption DEF IdleCheck, Steps, Ops
  <2> QED
    BY <1>9, <2>1 DEF IdleCheck, TypeOK, counters, sched
<1> QED
  BY <1>1, <1>2, <1>3, <1>4, <1>5, <1>6, <1>7, <1>8, <1>9 DEF Request

\* Type correctness, for every configuration.
THEOREM TypeCorrect == Spec => []TypeOK
<1>1. TypeOK /\ [Next]_vars => TypeOK'
  <2> SUFFICES ASSUME TypeOK, [Next]_vars PROVE TypeOK'
    OBVIOUS
  <2>1. CASE Next
    BY <2>1, ExecuteType, InterruptType, RequestType DEF Next
  <2>2. CASE UNCHANGED vars
    BY <2>2 DEF TypeOK, vars, counters, sched
  <2> QED
    BY <2>1, <2>2
<1> QED
  BY <1>1, InitType, PTL DEF Spec

-----------------------------------------------------------------------------
(* The published power view and the owner's own state.                     *)

\* Only these steps touch the power view, the owner's state or the vCPU a
\* core executes.
PowerStep(c) ==
  \/ ReserveStart(c) \/ CancelStart(c) \/ PublishOn(c) \/ Republish(c) \/ RetireVcpu(c)
  \/ \E s \in Slots : Dispatch(c, s)

LEMMA OtherStepsKeepPower ==
  ASSUME NEW c \in Cores, Execute(c) \/ Interrupt(c) \/ Request(c), ~PowerStep(c)
  PROVE  UNCHANGED <<power, live, current>>
<1>1. CASE Execute(c)
  <2>1. CASE StartVm(c) \/ StartVmOn(c) \/ CanStart(c) \/ CpuOn(c) \/ BeginReserve(c) \/ Recheck(c) \/ SendStart(c)
             \/ EndTransition(c) \/ QueuedStart(c) \/ CheckReserved(c) \/ PrepareRest(c) \/ ResumeStart(c)
             \/ PublishAlone(c) \/ JoinVm(c) \/ AliveUp(c) \/ AliveDown(c)
    BY <2>1 DEF StartVm, StartVmOn, CanStart, CpuOn, BeginReserve, Recheck, SendStart, EndTransition, QueuedStart,
                CheckReserved, PrepareRest, ResumeStart, PublishAlone, JoinVm, AliveUp, AliveDown, sched
  <2>2. CASE CpuOffOn(c) \/ ResetVm(c) \/ StopVm(c) \/ Claim(c) \/ Claimed(c) \/ SendBegin(c)
             \/ Release(c) \/ BeginLifecycle(c) \/ SendQuiesce(c) \/ QuiesceLocal(c) \/ QuiesceVcpu(c)
             \/ SendAck(c) \/ Acknowledge(c) \/ FinishLifecycle(c)
    BY <2>2 DEF CpuOffOn, ResetVm, StopVm, Claim, Claimed, SendBegin, Release, BeginLifecycle,
                SendQuiesce, QuiesceLocal, QuiesceVcpu, SendAck, Acknowledge, FinishLifecycle, sched
  <2>3. CASE RestoreOn(c) \/ Restore(c) \/ ResumeReset(c) \/ RepublishOn(c) \/ Finish(c)
             \/ DmaBegin(c) \/ Retry(c) \/ Rearm(c) \/ Isolate(c) \/ Isolated(c) \/ PostVirq(c)
             \/ RecoverDmaFault(c) \/ HaltTransitions(c)
    BY <2>3 DEF RestoreOn, Restore, ResumeReset, RepublishOn, Finish, DmaBegin, Retry, Rearm,
                Isolate, Isolated, PostVirq, RecoverDmaFault, HaltTransitions, sched
  <2> QED
    BY <1>1, <2>1, <2>2, <2>3 DEF Execute, PowerStep
<1>2. CASE Interrupt(c)
  BY <1>2 DEF Interrupt, DrainMail, LifecycleTimeout, DmaDrain, sched
<1>3. CASE Request(c)
  BY <1>3 DEF Request, PowerStep, CallStartVm, CallReset, CallStop, DmaFault, CallCpuOn, CallPostVirq,
              CallCpuOff, IdleCheck, sched
<1> QED
  BY <1>1, <1>2, <1>3

\* Agreement is inductive relative to the types: a retirement clears the
\* slot, its published power and the core's frame in one step on the owner
\* core, and a reservation never moves a slot that is On.
Agreement == PowerMatchesLive /\ RunningIsLive

LEMMA AgreementStep ==
  ASSUME TypeOK, Agreement, NEW c \in Cores, PowerStep(c)
  PROVE  Agreement'
<1>0. ASSUME NEW a \in Steps, At(c, a)
      PROVE  Now(c).s \in Slots
  BY <1>0, NowType DEF At, TypeOK
<1>1. CASE ReserveStart(c)
  <2>1. Now(c).s \in Slots
    BY <1>0, <1>1 DEF ReserveStart, Steps
  <2>2. PowerMatchesLive'
    BY <1>1, <2>1 DEF ReserveStart, TypeOK, Agreement, PowerMatchesLive
  <2> QED
    BY <1>1, <2>2 DEF ReserveStart, sched, Agreement, RunningIsLive
<1>2. CASE CancelStart(c)
  <2>1. Now(c).s \in Slots
    BY <1>0, <1>2 DEF CancelStart, Steps
  <2>2. PowerMatchesLive'
    BY <1>2, <2>1 DEF CancelStart, TypeOK, Agreement, PowerMatchesLive
  <2> QED
    BY <1>2, <2>2 DEF CancelStart, sched, Agreement, RunningIsLive
<1>3. CASE PublishOn(c) \/ Republish(c)
  <2>1. Now(c).s \in Slots
    BY <1>0, <1>3 DEF PublishOn, Republish, Steps
  <2>2. live' = [live EXCEPT ![Now(c).s] = TRUE] /\ power' = [power EXCEPT ![Now(c).s] = "On"]
        /\ current' = current
    BY <1>3 DEF PublishOn, Republish, sched
  <2>3. PowerMatchesLive'
    BY <2>1, <2>2 DEF TypeOK, Agreement, PowerMatchesLive
  <2>4. RunningIsLive'
    BY <2>1, <2>2 DEF TypeOK, Agreement, RunningIsLive
  <2> QED
    BY <2>3, <2>4 DEF Agreement
<1>4. CASE RetireVcpu(c)
  <2>1. Now(c).s \in Slots
    BY <1>0, <1>4 DEF RetireVcpu, Steps
  <2>2. CASE UNCHANGED <<power, live, current>>
    BY <2>2 DEF Agreement, PowerMatchesLive, RunningIsLive
  <2>3. CASE /\ SlotCpu[Now(c).s] = c
             /\ live' = [live EXCEPT ![Now(c).s] = FALSE]
             /\ power' = [power EXCEPT ![Now(c).s] = "Off"]
             /\ current' = [current EXCEPT ![c] = IF @ = Now(c).s THEN None ELSE @]
    <3>1. PowerMatchesLive'
      BY <2>1, <2>3 DEF TypeOK, Agreement, PowerMatchesLive
    <3>2. ASSUME NEW d \in Cores, current'[d] # None
          PROVE  live'[current'[d]] /\ SlotCpu[current'[d]] = d
      <4>1. current'[d] = current[d] /\ current[d] \in Slots
        BY <2>3, <3>2 DEF TypeOK
      <4>2. live[current[d]] /\ SlotCpu[current[d]] = d
        BY <3>2, <4>1 DEF Agreement, RunningIsLive
      <4>3. current[d] # Now(c).s
        BY <2>3, <3>2, <4>1, <4>2 DEF TypeOK
      <4> QED
        BY <2>1, <2>3, <4>1, <4>2, <4>3 DEF TypeOK
    <3> QED
      BY <3>1, <3>2 DEF Agreement, RunningIsLive
  <2> QED
    BY <1>4, <2>2, <2>3 DEF RetireVcpu
<1>5. ASSUME NEW s \in Slots, Dispatch(c, s)
      PROVE  Agreement'
  BY <1>5 DEF Dispatch, TypeOK, Agreement, PowerMatchesLive, RunningIsLive
<1> QED
  BY <1>1, <1>2, <1>3, <1>4, <1>5 DEF PowerStep

LEMMA AgreementHolds == Spec => []Agreement
<1>1. Init => Agreement
  <2> SUFFICES ASSUME Init PROVE Agreement
    OBVIOUS
  <2>1. PowerMatchesLive
    BY OwnerType, ConfigAssumption DEF Init, PowerMatchesLive
  <2> QED
    BY <2>1 DEF Init, Agreement, RunningIsLive
<1>2. TypeOK /\ Agreement /\ [Next]_vars => Agreement'
  <2> SUFFICES ASSUME TypeOK, Agreement, [Next]_vars PROVE Agreement'
    OBVIOUS
  <2>1. CASE UNCHANGED <<power, live, current>>
    BY <2>1 DEF Agreement, PowerMatchesLive, RunningIsLive
  <2>2. ASSUME NEW c \in Cores, PowerStep(c) PROVE Agreement'
    BY <2>2, AgreementStep
  <2>3. CASE Next
    BY <2>1, <2>2, <2>3, OtherStepsKeepPower DEF Next
  <2>4. CASE UNCHANGED vars
    BY <2>1, <2>4 DEF vars, sched
  <2> QED
    BY <2>3, <2>4
<1> QED
  BY <1>1, <1>2, TypeCorrect, PTL DEF Spec

\* The view other cores read never disagrees with the owner: a vCPU is
\* published On exactly while publish_start, publish_reset or start_vcpu
\* made it runnable and retire_vcpu has not taken that back, however many
\* cores, VMs, vCPUs and lifecycles there are.
THEOREM PowerViewCorrect == Spec => []PowerMatchesLive
<1>1. Agreement => PowerMatchesLive
  BY DEF Agreement
<1> QED
  BY <1>1, AgreementHolds, PTL

\* No core ever executes the frame of a retired vCPU, or of one that another
\* core owns (retire_vcpu clears CpuSched::current in the same step).
THEOREM OnlyLiveRuns == Spec => []RunningIsLive
<1>1. Agreement => RunningIsLive
  BY DEF Agreement
<1> QED
  BY <1>1, AgreementHolds, PTL


=============================================================================
