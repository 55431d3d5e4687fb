--------------------------- MODULE DmaDeviceProofs ---------------------------
(***************************************************************************)
(* The isolation of passed-through devices, for every table of streams,    *)
(* devices and VMs.                                                        *)
(***************************************************************************)
EXTENDS DmaDeviceMC, NaturalsInduction, SequenceTheorems, WellFoundedInduction, TLAPS

-----------------------------------------------------------------------------
(* The first of a set, and the sections.                                   *)

\* A set of naturals that is not empty has a least element.
LEMMA FirstIsLeast ==
  ASSUME NEW S, S \subseteq Nat, S # {}
  PROVE  First(S) \in S /\ \A x \in S : First(S) <= x
<1> DEFINE lt == OpToRel(<, Nat)
<1>1. IsWellFoundedOn(lt, Nat)
  BY NatLessThanWellFounded
<1>2. \A x, y \in Nat : y < x => <<y, x>> \in lt
  BY DEF OpToRel
<1> HIDE DEF lt
<1>3. PICK x \in S : \A y \in S : ~(<<y, x>> \in lt)
  BY <1>1, WFMin
<1>4. ASSUME NEW y \in S PROVE x <= y
  <2>1. x \in Nat /\ y \in Nat /\ ~(<<y, x>> \in lt)
    BY <1>3
  <2>2. ~(y < x)
    BY <1>2, <2>1
  <2> QED
    BY <2>1, <2>2
<1> QED
  BY <1>4 DEF First

\* Equal elements, equal sequences.
LEMMA PairOf ==
  ASSUME NEW a, NEW b
  PROVE  Append(<<a>>, b) = <<a, b>>
<1> DEFINE S == {a, b}
           s == Append(<<a>>, b)
           t == <<a, b>>
<1>1. a \in S /\ b \in S
  OBVIOUS
<1> HIDE DEF S
<1>2. s \in Seq(S) /\ Len(s) = 2 /\ s[1] = a /\ s[2] = b
  BY <1>1
<1>3. t \in Seq(S) /\ Len(t) = 2 /\ t[1] = a /\ t[2] = b
  BY <1>1
<1>4. \A i \in 1..2 : i = 1 \/ i = 2
  OBVIOUS
<1> HIDE DEF s, t
<1>5. s = t
  BY <1>2, <1>3, <1>4, SeqEqual
<1> QED
  BY <1>5 DEF s, t

LEMMA TripleOf ==
  ASSUME NEW a, NEW b, NEW c
  PROVE  Append(<<a, b>>, c) = <<a, b, c>>
<1> DEFINE S == {a, b, c}
           s == Append(<<a, b>>, c)
           t == <<a, b, c>>
<1>1. a \in S /\ b \in S /\ c \in S
  OBVIOUS
<1> HIDE DEF S
<1>2. s \in Seq(S) /\ Len(s) = 3 /\ s[1] = a /\ s[2] = b /\ s[3] = c
  BY <1>1
<1>3. t \in Seq(S) /\ Len(t) = 3 /\ t[1] = a /\ t[2] = b /\ t[3] = c
  BY <1>1
<1>4. \A i \in 1..3 : i = 1 \/ i = 2 \/ i = 3
  OBVIOUS
<1> HIDE DEF s, t
<1>5. s = t
  BY <1>2, <1>3, <1>4, SeqEqual
<1> QED
  BY <1>5 DEF s, t

\* The steps of an abort, an install and the bring-up, one by one.
LEMMA AbortShape ==
  ASSUME NEW a, NEW b, NEW c, NEW d, NEW e
  PROVE  LET q == Append(<<a>> \o <<b, c, d>>, e)
         IN Len(q) = 5 /\ q[1] = a /\ q[2] = b /\ q[3] = c /\ q[4] = d /\ q[5] = e
OBVIOUS

LEMMA InstallShape ==
  ASSUME NEW a, NEW b, NEW c, NEW d, NEW e, NEW f, NEW g, NEW h, NEW i, NEW j
  PROVE  LET q == Append(<<a>> \o <<b, c, d>> \o <<e, f>> \o <<g, h, i>>, j)
         IN /\ Len(q) = 10 /\ q[1] = a /\ q[2] = b /\ q[3] = c /\ q[4] = d /\ q[5] = e
            /\ q[6] = f /\ q[7] = g /\ q[8] = h /\ q[9] = i /\ q[10] = j
OBVIOUS

LEMMA StartShape ==
  ASSUME NEW a, NEW b, NEW c, NEW d
  PROVE  LET q == <<a, b>> \o <<c, d>>
         IN Len(q) = 4 /\ q[1] = a /\ q[2] = b /\ q[3] = c /\ q[4] = d
OBVIOUS

LEMMA EnableShape ==
  ASSUME NEW a, NEW b, NEW c, NEW d, NEW e
  PROVE  LET q == <<a, b, c>> \o <<d, e>>
         IN Len(q) = 5 /\ q[1] = a /\ q[2] = b /\ q[3] = c /\ q[4] = d /\ q[5] = e
OBVIOUS

EntryCommands(s, vm) == <<MakeCfgiSte(s), MakeTlbiVm(vm), MakeSync>>

LEMMA AbortSteps ==
  ASSUME NEW s, NEW vm, NEW e
  PROVE  LET q == Append(AbortStream(s, vm), e)
         IN /\ Len(q) = 5 /\ q[1] = <<"w0", s, "abort">> /\ q[2] = <<"idle">>
            /\ q[3] = <<"push", EntryCommands(s, vm)>> /\ q[4] = <<"idle">> /\ q[5] = e
<1> DEFINE A == <<"w0", s, "abort">>
           B == <<"idle">>
           C == <<"push", Append(<<MakeCfgiSte(s), MakeTlbiVm(vm)>>, MakeSync)>>
<1>1. AbortStream(s, vm) = <<A>> \o <<B, C, B>>
  BY DEF AbortStream, Submit
<1>2. C = <<"push", EntryCommands(s, vm)>>
  BY TripleOf DEF EntryCommands
<1> HIDE DEF A, B, C
<1>3. LET q == Append(<<A>> \o <<B, C, B>>, e)
      IN Len(q) = 5 /\ q[1] = A /\ q[2] = B /\ q[3] = C /\ q[4] = B /\ q[5] = e
  BY AbortShape
<1> QED
  BY <1>1, <1>2, <1>3 DEF A, B

LEMMA InstallSteps ==
  ASSUME NEW s, NEW vm, NEW gen
  PROVE  LET q == AttachStream(s, vm, gen)
         IN /\ Len(q) = 10 /\ q[1] = <<"w0", s, "invalid">> /\ q[2] = <<"idle">>
            /\ q[3] = <<"push", <<MakeCfgiSte(s), MakeSync>> >> /\ q[4] = <<"idle">>
            /\ q[5] = <<"body", s, vm, gen>> /\ q[6] = <<"w0", s, "stage2">> /\ q[7] = <<"idle">>
            /\ q[8] = <<"push", EntryCommands(s, vm)>> /\ q[9] = <<"idle">>
            /\ q[10] = <<"bind", s, "Attached", gen>>
<1> DEFINE A == <<"w0", s, "invalid">>
           B == <<"idle">>
           C == <<"push", Append(<<MakeCfgiSte(s)>>, MakeSync)>>
           E == <<"body", s, vm, gen>>
           F == <<"w0", s, "stage2">>
           H == <<"push", Append(<<MakeCfgiSte(s), MakeTlbiVm(vm)>>, MakeSync)>>
           J == <<"bind", s, "Attached", gen>>
<1>1. AttachStream(s, vm, gen) = Append(<<A>> \o <<B, C, B>> \o <<E, F>> \o <<B, H, B>>, J)
  BY DEF AttachStream, InstallStream, Submit
<1>2. C = <<"push", <<MakeCfgiSte(s), MakeSync>> >> /\ H = <<"push", EntryCommands(s, vm)>>
  BY PairOf, TripleOf DEF EntryCommands
<1> HIDE DEF A, B, C, E, F, H, J
<1>3. LET q == Append(<<A>> \o <<B, C, B>> \o <<E, F>> \o <<B, H, B>>, J)
      IN /\ Len(q) = 10 /\ q[1] = A /\ q[2] = B /\ q[3] = C /\ q[4] = B /\ q[5] = E
         /\ q[6] = F /\ q[7] = B /\ q[8] = H /\ q[9] = B /\ q[10] = J
  BY InstallShape
<1> QED
  BY <1>1, <1>2, <1>3 DEF A, B, E, F, J

LEMMA StartSteps ==
  LET q == BuildAndStart
  IN Len(q) = 4 /\ q[1] = <<"gbpa">> /\ q[2] = <<"cr0", {}>> /\ q[3] = <<"tables">> /\ q[4] = <<"cr0", {"cmdq"}>>
<1> DEFINE A == <<"gbpa">>
           B == <<"cr0", {}>>
           C == <<"tables">>
           E == <<"cr0", {"cmdq"}>>
<1>1. BuildAndStart = <<A, B>> \o <<C, E>>
  BY DEF BuildAndStart, ShutDown
<1> HIDE DEF A, B, C, E
<1>2. LET q == <<A, B>> \o <<C, E>>
      IN Len(q) = 4 /\ q[1] = A /\ q[2] = B /\ q[3] = C /\ q[4] = E
  BY StartShape
<1> QED
  BY <1>1, <1>2 DEF A, B, C, E

LEMMA EnableSteps ==
  LET q == EnableFaults
  IN /\ Len(q) = 5 /\ q[1] = <<"idle">> /\ q[2] = <<"push", <<MakeTlbiAll, MakeSync>> >>
     /\ q[3] = <<"idle">> /\ q[4] = <<"cr0", {"cmdq", "evtq"}>> /\ q[5] = <<"cr0", Enables>>
<1> DEFINE A == <<"idle">>
           B == <<"push", Append(<<MakeTlbiAll>>, MakeSync)>>
           C == <<"cr0", {"cmdq", "evtq"}>>
           E == <<"cr0", Enables>>
<1>1. EnableFaults = <<A, B, A>> \o <<C, E>>
  BY DEF EnableFaults, Submit
<1>2. B = <<"push", <<MakeTlbiAll, MakeSync>> >>
  BY PairOf
<1> HIDE DEF A, B, C, E
<1>3. LET q == <<A, B, A>> \o <<C, E>>
      IN Len(q) = 5 /\ q[1] = A /\ q[2] = B /\ q[3] = A /\ q[4] = C /\ q[5] = E
  BY EnableShape
<1> QED
  BY <1>1, <1>2, <1>3 DEF A, C, E

LEMMA InvalidateSteps ==
  ASSUME NEW rest
  PROVE  LET q == InvalidateStreams(rest)
         IN /\ Len(q) = 3 /\ q[1] = <<"idle">> /\ q[3] = <<"idle">>
            /\ q[2] = <<"push", Append(CfgiBatch(rest), MakeSync)>>
<1> DEFINE B == <<"push", Append(CfgiBatch(rest), MakeSync)>>
           A == <<"idle">>
<1>1. InvalidateStreams(rest) = <<A, B, A>>
  BY DEF InvalidateStreams, Submit
<1> HIDE DEF A, B
<1>2. Len(<<A, B, A>>) = 3 /\ <<A, B, A>>[1] = A /\ <<A, B, A>>[2] = B /\ <<A, B, A>>[3] = A
  OBVIOUS
<1> QED
  BY <1>1, <1>2 DEF A, B
-----------------------------------------------------------------------------
(* The step the lock's holder takes next, for each operation.              *)

This == First(domain.rest)

\* The first component of a step names its action.
LEMMA StepIsNamed ==
  ASSUME NEW step, NEW next, Execute(step, next)
  PROVE  /\ step[1] = "gbpa" => WriteGbpa(step, next)
         /\ step[1] = "cr0" => WriteCr0(step, next)
         /\ step[1] = "tables" => BuildTables(step, next)
         /\ step[1] = "w0" => WriteWord0(step, next)
         /\ step[1] = "body" => WriteBody(step, next)
         /\ step[1] = "idle" => WaitIdle(step, next)
         /\ step[1] = "push" => Push(step, next)
         /\ step[1] = "bind" => Bind(step, next)
<1>1. /\ WriteGbpa(step, next) => step[1] = "gbpa"
      /\ WriteCr0(step, next) => step[1] = "cr0"
      /\ BuildTables(step, next) => step[1] = "tables"
      /\ WriteWord0(step, next) => step[1] = "w0"
  BY Zenon DEF WriteGbpa, WriteCr0, BuildTables, WriteWord0
<1>2. /\ WriteBody(step, next) => step[1] = "body"
      /\ WaitIdle(step, next) => step[1] = "idle"
      /\ Push(step, next) => step[1] = "push"
      /\ Bind(step, next) => step[1] = "bind"
  BY Zenon DEF WriteBody, WaitIdle, Push, Bind
<1>3. \/ WriteGbpa(step, next) \/ WriteCr0(step, next) \/ BuildTables(step, next)
      \/ WriteWord0(step, next) \/ WriteBody(step, next)
      \/ WaitIdle(step, next) \/ Push(step, next) \/ Bind(step, next)
  BY Zenon DEF Execute
<1> QED
  BY <1>1, <1>2, <1>3

Onward == [domain EXCEPT !.pc = domain.pc + 1]

LEMMA StepTaken ==
  ASSUME DomainStep, NEW section, Section = section
  PROVE  /\ domain.pc = Len(section) => Execute(section[domain.pc], AfterSection)
         /\ domain.pc # Len(section) => Execute(section[domain.pc], Onward)
BY DEF DomainStep, Onward

LEMMA StartMoves ==
  ASSUME DomainStep, domain.op = "start", domain.pc \in 1..4
  PROVE  \/ domain.pc = 1 /\ WriteGbpa(<<"gbpa">>, Onward)
         \/ domain.pc = 2 /\ WriteCr0(<<"cr0", {}>>, Onward)
         \/ domain.pc = 3 /\ BuildTables(<<"tables">>, Onward)
         \/ domain.pc = 4 /\ WriteCr0(<<"cr0", {"cmdq"}>>, AfterSection)
<1> DEFINE q == BuildAndStart
<1>1. Section = q
  BY DEF Section
<1>2. Len(q) = 4 /\ q[1] = <<"gbpa">> /\ q[2] = <<"cr0", {}>> /\ q[3] = <<"tables">> /\ q[4] = <<"cr0", {"cmdq"}>>
  BY StartSteps
<1> HIDE DEF q
<1>3. CASE domain.pc = 1
  <2>1. Execute(<<"gbpa">>, Onward)
    BY <1>1, <1>2, <1>3, StepTaken
  <2> QED
    BY <2>1, <1>3, StepIsNamed
<1>4. CASE domain.pc = 2
  <2>1. Execute(<<"cr0", {}>>, Onward)
    BY <1>1, <1>2, <1>4, StepTaken
  <2> QED
    BY <2>1, <1>4, StepIsNamed
<1>5. CASE domain.pc = 3
  <2>1. Execute(<<"tables">>, Onward)
    BY <1>1, <1>2, <1>5, StepTaken
  <2> QED
    BY <2>1, <1>5, StepIsNamed
<1>6. CASE domain.pc = 4
  <2>1. Execute(<<"cr0", {"cmdq"}>>, AfterSection)
    BY <1>1, <1>2, <1>6, StepTaken
  <2> QED
    BY <2>1, <1>6, StepIsNamed
<1> QED
  BY <1>3, <1>4, <1>5, <1>6

LEMMA InvalidateMoves ==
  ASSUME DomainStep, domain.op = "invalidate", domain.pc \in 1..3
  PROVE  \/ domain.pc = 1 /\ WaitIdle(<<"idle">>, Onward)
         \/ domain.pc = 2 /\ Push(<<"push", Append(CfgiBatch(domain.rest), MakeSync)>>, Onward)
         \/ domain.pc = 3 /\ WaitIdle(<<"idle">>, AfterSection)
<1> DEFINE batch == Append(CfgiBatch(domain.rest), MakeSync)
           q == InvalidateStreams(domain.rest)
<1>1. Section = q
  BY DEF Section
<1>2. Len(q) = 3 /\ q[1] = <<"idle">> /\ q[2] = <<"push", batch>> /\ q[3] = <<"idle">>
  BY InvalidateSteps
<1> HIDE DEF q, batch
<1>3. CASE domain.pc = 1
  <2>1. Execute(<<"idle">>, Onward)
    BY <1>1, <1>2, <1>3, StepTaken
  <2> QED
    BY <2>1, <1>3, StepIsNamed
<1>4. CASE domain.pc = 2
  <2>1. Execute(<<"push", batch>>, Onward)
    BY <1>1, <1>2, <1>4, StepTaken
  <2>2. Push(<<"push", batch>>, Onward)
    BY <2>1, StepIsNamed
  <2> QED
    BY <2>2, <1>4 DEF batch
<1>5. CASE domain.pc = 3
  <2>1. Execute(<<"idle">>, AfterSection)
    BY <1>1, <1>2, <1>5, StepTaken
  <2> QED
    BY <2>1, <1>5, StepIsNamed
<1> QED
  BY <1>3, <1>4, <1>5

LEMMA EnableMoves ==
  ASSUME DomainStep, domain.op = "enable", domain.pc \in 1..5
  PROVE  \/ domain.pc = 1 /\ WaitIdle(<<"idle">>, Onward)
         \/ domain.pc = 2 /\ Push(<<"push", <<MakeTlbiAll, MakeSync>> >>, Onward)
         \/ domain.pc = 3 /\ WaitIdle(<<"idle">>, Onward)
         \/ domain.pc = 4 /\ WriteCr0(<<"cr0", {"cmdq", "evtq"}>>, Onward)
         \/ domain.pc = 5 /\ WriteCr0(<<"cr0", Enables>>, AfterSection)
<1> DEFINE q == EnableFaults
<1>1. Section = q
  BY DEF Section
<1>2. /\ Len(q) = 5 /\ q[1] = <<"idle">> /\ q[2] = <<"push", <<MakeTlbiAll, MakeSync>> >>
      /\ q[3] = <<"idle">> /\ q[4] = <<"cr0", {"cmdq", "evtq"}>> /\ q[5] = <<"cr0", Enables>>
  BY EnableSteps
<1> HIDE DEF q
<1>3. CASE domain.pc = 1
  <2>1. Execute(<<"idle">>, Onward)
    BY <1>1, <1>2, <1>3, StepTaken
  <2> QED
    BY <2>1, <1>3, StepIsNamed
<1>4. CASE domain.pc = 2
  <2>1. Execute(<<"push", <<MakeTlbiAll, MakeSync>> >>, Onward)
    BY <1>1, <1>2, <1>4, StepTaken
  <2> QED
    BY <2>1, <1>4, StepIsNamed
<1>5. CASE domain.pc = 3
  <2>1. Execute(<<"idle">>, Onward)
    BY <1>1, <1>2, <1>5, StepTaken
  <2> QED
    BY <2>1, <1>5, StepIsNamed
<1>6. CASE domain.pc = 4
  <2>1. Execute(<<"cr0", {"cmdq", "evtq"}>>, Onward)
    BY <1>1, <1>2, <1>6, StepTaken
  <2> QED
    BY <2>1, <1>6, StepIsNamed
<1>7. CASE domain.pc = 5
  <2>1. Execute(<<"cr0", Enables>>, AfterSection)
    BY <1>1, <1>2, <1>7, StepTaken
  <2> QED
    BY <2>1, <1>7, StepIsNamed
<1> QED
  BY <1>3, <1>4, <1>5, <1>6, <1>7

LEMMA AttachMoves ==
  ASSUME DomainStep, domain.op = "attach", domain.pc \in 1..10
  PROVE  \/ domain.pc = 1 /\ WriteWord0(<<"w0", This, "invalid">>, Onward)
         \/ domain.pc = 2 /\ WaitIdle(<<"idle">>, Onward)
         \/ domain.pc = 3 /\ Push(<<"push", <<MakeCfgiSte(This), MakeSync>> >>, Onward)
         \/ domain.pc = 4 /\ WaitIdle(<<"idle">>, Onward)
         \/ domain.pc = 5 /\ WriteBody(<<"body", This, domain.vm, domain.gen>>, Onward)
         \/ domain.pc = 6 /\ WriteWord0(<<"w0", This, "stage2">>, Onward)
         \/ domain.pc = 7 /\ WaitIdle(<<"idle">>, Onward)
         \/ domain.pc = 8 /\ Push(<<"push", EntryCommands(This, domain.vm)>>, Onward)
         \/ domain.pc = 9 /\ WaitIdle(<<"idle">>, Onward)
         \/ domain.pc = 10 /\ Bind(<<"bind", This, "Attached", domain.gen>>, AfterSection)
<1> DEFINE q == AttachStream(This, domain.vm, domain.gen)
<1>1. Section = q
  BY DEF Section, This
<1>2. /\ Len(q) = 10 /\ q[1] = <<"w0", This, "invalid">> /\ q[2] = <<"idle">>
      /\ q[3] = <<"push", <<MakeCfgiSte(This), MakeSync>> >> /\ q[4] = <<"idle">>
      /\ q[5] = <<"body", This, domain.vm, domain.gen>> /\ q[6] = <<"w0", This, "stage2">>
      /\ q[7] = <<"idle">> /\ q[8] = <<"push", EntryCommands(This, domain.vm)>> /\ q[9] = <<"idle">>
      /\ q[10] = <<"bind", This, "Attached", domain.gen>>
  BY InstallSteps
<1> HIDE DEF q
<1>3. CASE domain.pc = 1
  <2>1. Execute(<<"w0", This, "invalid">>, Onward)
    BY <1>1, <1>2, <1>3, StepTaken
  <2> QED
    BY <2>1, <1>3, StepIsNamed
<1>4. CASE domain.pc = 2
  <2>1. Execute(<<"idle">>, Onward)
    BY <1>1, <1>2, <1>4, StepTaken
  <2> QED
    BY <2>1, <1>4, StepIsNamed
<1>5. CASE domain.pc = 3
  <2>1. Execute(<<"push", <<MakeCfgiSte(This), MakeSync>> >>, Onward)
    BY <1>1, <1>2, <1>5, StepTaken
  <2> QED
    BY <2>1, <1>5, StepIsNamed
<1>6. CASE domain.pc = 4
  <2>1. Execute(<<"idle">>, Onward)
    BY <1>1, <1>2, <1>6, StepTaken
  <2> QED
    BY <2>1, <1>6, StepIsNamed
<1>7. CASE domain.pc = 5
  <2>1. Execute(<<"body", This, domain.vm, domain.gen>>, Onward)
    BY <1>1, <1>2, <1>7, StepTaken
  <2> QED
    BY <2>1, <1>7, StepIsNamed
<1>8. CASE domain.pc = 6
  <2>1. Execute(<<"w0", This, "stage2">>, Onward)
    BY <1>1, <1>2, <1>8, StepTaken
  <2> QED
    BY <2>1, <1>8, StepIsNamed
<1>9. CASE domain.pc = 7
  <2>1. Execute(<<"idle">>, Onward)
    BY <1>1, <1>2, <1>9, StepTaken
  <2> QED
    BY <2>1, <1>9, StepIsNamed
<1>10. CASE domain.pc = 8
  <2>1. Execute(<<"push", EntryCommands(This, domain.vm)>>, Onward)
    BY <1>1, <1>2, <1>10, StepTaken
  <2> QED
    BY <2>1, <1>10, StepIsNamed
<1>11. CASE domain.pc = 9
  <2>1. Execute(<<"idle">>, Onward)
    BY <1>1, <1>2, <1>11, StepTaken
  <2> QED
    BY <2>1, <1>11, StepIsNamed
<1>12. CASE domain.pc = 10
  <2>1. Execute(<<"bind", This, "Attached", domain.gen>>, AfterSection)
    BY <1>1, <1>2, <1>12, StepTaken
  <2> QED
    BY <2>1, <1>12, StepIsNamed
<1> QED
  BY <1>3, <1>4, <1>5, <1>6, <1>7, <1>8, <1>9, <1>10, <1>11, <1>12

LEMMA DetachMoves ==
  ASSUME DomainStep, domain.op = "detach", domain.pc \in 1..5
  PROVE  \/ domain.pc = 1 /\ WriteWord0(<<"w0", This, "abort">>, Onward)
         \/ domain.pc = 2 /\ WaitIdle(<<"idle">>, Onward)
         \/ domain.pc = 3 /\ Push(<<"push", EntryCommands(This, domain.vm)>>, Onward)
         \/ domain.pc = 4 /\ WaitIdle(<<"idle">>, Onward)
         \/ domain.pc = 5 /\ Bind(<<"bind", This, "Detached", binding[This].generation>>, AfterSection)
<1> DEFINE q == Append(AbortStream(This, domain.vm), <<"bind", This, "Detached", binding[This].generation>>)
<1>1. Section = q
  BY DEF Section, This, DetachStream
<1>2. /\ Len(q) = 5 /\ q[1] = <<"w0", This, "abort">> /\ q[2] = <<"idle">>
      /\ q[3] = <<"push", EntryCommands(This, domain.vm)>> /\ q[4] = <<"idle">>
      /\ q[5] = <<"bind", This, "Detached", binding[This].generation>>
  BY AbortSteps
<1> HIDE DEF q
<1>3. CASE domain.pc = 1
  <2>1. Execute(<<"w0", This, "abort">>, Onward)
    BY <1>1, <1>2, <1>3, StepTaken
  <2> QED
    BY <2>1, <1>3, StepIsNamed
<1>4. CASE domain.pc = 2
  <2>1. Execute(<<"idle">>, Onward)
    BY <1>1, <1>2, <1>4, StepTaken
  <2> QED
    BY <2>1, <1>4, StepIsNamed
<1>5. CASE domain.pc = 3
  <2>1. Execute(<<"push", EntryCommands(This, domain.vm)>>, Onward)
    BY <1>1, <1>2, <1>5, StepTaken
  <2> QED
    BY <2>1, <1>5, StepIsNamed
<1>6. CASE domain.pc = 4
  <2>1. Execute(<<"idle">>, Onward)
    BY <1>1, <1>2, <1>6, StepTaken
  <2> QED
    BY <2>1, <1>6, StepIsNamed
<1>7. CASE domain.pc = 5
  <2>1. Execute(<<"bind", This, "Detached", binding[This].generation>>, AfterSection)
    BY <1>1, <1>2, <1>7, StepTaken
  <2> QED
    BY <2>1, <1>7, StepIsNamed
<1> QED
  BY <1>3, <1>4, <1>5, <1>6, <1>7

LEMMA LeaveMoves ==
  ASSUME DomainStep, domain.op = "quarantine", domain.pc \in 1..5, binding[This].state = "Attached"
  PROVE  \/ domain.pc = 1 /\ WriteWord0(<<"w0", This, "abort">>, Onward)
         \/ domain.pc = 2 /\ WaitIdle(<<"idle">>, Onward)
         \/ domain.pc = 3 /\ Push(<<"push", EntryCommands(This, domain.vm)>>, Onward)
         \/ domain.pc = 4 /\ WaitIdle(<<"idle">>, Onward)
         \/ domain.pc = 5 /\ Bind(<<"bind", This, "Quarantined", binding[This].generation>>, AfterSection)
<1> DEFINE q == Append(AbortStream(This, domain.vm), <<"bind", This, "Quarantined", binding[This].generation>>)
<1>1. Section = q
  BY DEF Section, This, QuarantineStream
<1>2. /\ Len(q) = 5 /\ q[1] = <<"w0", This, "abort">> /\ q[2] = <<"idle">>
      /\ q[3] = <<"push", EntryCommands(This, domain.vm)>> /\ q[4] = <<"idle">>
      /\ q[5] = <<"bind", This, "Quarantined", binding[This].generation>>
  BY AbortSteps
<1> HIDE DEF q
<1>3. CASE domain.pc = 1
  <2>1. Execute(<<"w0", This, "abort">>, Onward)
    BY <1>1, <1>2, <1>3, StepTaken
  <2> QED
    BY <2>1, <1>3, StepIsNamed
<1>4. CASE domain.pc = 2
  <2>1. Execute(<<"idle">>, Onward)
    BY <1>1, <1>2, <1>4, StepTaken
  <2> QED
    BY <2>1, <1>4, StepIsNamed
<1>5. CASE domain.pc = 3
  <2>1. Execute(<<"push", EntryCommands(This, domain.vm)>>, Onward)
    BY <1>1, <1>2, <1>5, StepTaken
  <2> QED
    BY <2>1, <1>5, StepIsNamed
<1>6. CASE domain.pc = 4
  <2>1. Execute(<<"idle">>, Onward)
    BY <1>1, <1>2, <1>6, StepTaken
  <2> QED
    BY <2>1, <1>6, StepIsNamed
<1>7. CASE domain.pc = 5
  <2>1. Execute(<<"bind", This, "Quarantined", binding[This].generation>>, AfterSection)
    BY <1>1, <1>2, <1>7, StepTaken
  <2> QED
    BY <2>1, <1>7, StepIsNamed
<1> QED
  BY <1>3, <1>4, <1>5, <1>6, <1>7

LEMMA MarkMoves ==
  ASSUME DomainStep, domain.op = "quarantine", domain.pc = 1, binding[This].state # "Attached"
  PROVE  Bind(<<"bind", This, "Quarantined", binding[This].generation>>, AfterSection)
<1> DEFINE b == <<"bind", This, "Quarantined", binding[This].generation>>
           q == Append(<<>>, b)
<1>1. Section = q
  BY DEF Section, This, QuarantineStream
<1>2. Len(q) = 1 /\ q[1] = b
  <2> HIDE DEF b
  <2> QED
    OBVIOUS
<1> HIDE DEF q
<1>3. Execute(b, AfterSection)
  BY <1>1, <1>2, StepTaken
<1>4. b[1] = "bind"
  OBVIOUS
<1> HIDE DEF b
<1> QED
  BY <1>3, <1>4, StepIsNamed DEF b
-----------------------------------------------------------------------------
(* Types.                                                                  *)

BootOps   == {"start", "invalidate", "enable"}
StreamOps == {"attach", "detach", "quarantine"}
Owners    == Vms \cup {NoVm}
Commands  == {<<"cfgi", s>> : s \in Streams} \cup {<<"tlbi", v>> : v \in Owners} \cup {MakeTlbiAll, MakeSync}
Bindings  == {"Detached", "Attached", "Quarantined"}
ThreadPcs == {"idle", "done", "fail", "isolate", "quarantine", "block", "complete", "detaching", "detach",
              "poll_events", "dispatch", "quiesced", "attach", "prepare", "unmask"}

Operations == [who : Threads \cup {Unlocked}, op : BootOps \cup StreamOps \cup {"none"}, vm : Owners,
               gen : Nat, rest : SUBSET Streams, pc : Nat]

SmmuTypeOK ==
  /\ cr0 \subseteq Enables
  /\ ste \in [Streams -> Ste]
  /\ cfg \in [Streams -> Ste \cup {NoEntry}]
  /\ cmdq \in Seq(Commands)
  /\ binding \in [Streams -> [state : Bindings, generation : Nat]]
  /\ domain \in Operations

Positions == [pc : ThreadPcs, then : {"idle", "attach", "quiesced"}, todo : SUBSET Devices, gen : Nat]
Answers   == {"Booting", "Complete", "Pending", "Running", "Failed"}
Entries   == [state : States, generation : Nat, expired : BOOLEAN, blocked : BOOLEAN]
DmaTypeOK ==
  /\ entry \in [Devices -> Entries]
  /\ line \in [Devices -> {"masked", "open"}]
  /\ token \in [Devices -> Nat]
  /\ thread \in [Threads -> Positions]
  /\ DOMAIN drained = Threads
  /\ answer \in [Vms -> Answers]
  /\ eoi \in [Vms -> SUBSET Devices]

-----------------------------------------------------------------------------
(* Who holds the domain lock, and for what.                                *)

Attached(s) == binding[s].state = "Attached"

\* An operation is on some streams; the boot core brings translation up.
OperationKnown ==
  /\ domain.op = "none" => domain = Inactive(domain.who)
  /\ domain.op # "none" => domain.rest # {} /\ domain.who # Unlocked
  /\ domain.op \in BootOps <=> domain.who = "boot" /\ domain.op # "none"
  /\ domain.op = "attach" => domain.vm \in Vms

\* What is left to be done.
RestKnown ==
  /\ domain.op \in {"start", "enable"} => domain.rest = Streams
  /\ domain.op = "invalidate" => domain.rest = This..StreamCount
  /\ domain.op \in StreamOps => \A s \in domain.rest : OwnerOf[s] = domain.vm
  /\ domain.op = "attach" => \A s \in domain.rest : ~Attached(s)
  /\ domain.op = "detach" => \A s \in StreamsOf(domain.vm) : s \in domain.rest <=> Attached(s)

\* Where the section is.
PcKnown ==
  /\ domain.op = "start" => domain.pc \in 1..4
  /\ domain.op = "invalidate" => domain.pc \in 1..3
  /\ domain.op = "enable" => domain.pc \in 1..5
  /\ domain.op = "attach" => domain.pc \in 1..10
  /\ domain.op \in {"detach", "quarantine"} => IF Attached(This) THEN domain.pc \in 1..5 ELSE domain.pc = 1

-----------------------------------------------------------------------------
(* The registers, the table, the caches and the command queue.             *)

\* Nothing passes untranslated once the bring-up has begun, and translation is
\* on when it has ended.
RegistersKnown ==
  /\ (domain.op = "start" /\ domain.pc = 1) \/ gbpa = "abort"
  /\ domain.op = "start" /\ domain.pc > 2 => cr0 = {}
  /\ domain.op = "invalidate" => cr0 = {"cmdq"}
  /\ domain.op = "enable" => cr0 = IF domain.pc < 5 THEN {"cmdq"} ELSE {"cmdq", "evtq"}
  /\ domain.op \notin BootOps => cr0 = Enables

\* A stream is in use: attached, or its entry has just become valid.
Route(s) ==
  /\ OwnerOf[s] \in Vms
  /\ Attached(s) \/ (domain.op = "attach" /\ domain.pc >= 7 /\ s = This)

\* A context is the owner's, and is in the table while the stream is in use.
TableKnown ==
  /\ \A s \in Streams : ste[s].w0 = "stage2" => ste[s].root = OwnerOf[s] /\ Route(s)
  /\ domain.op = "start" /\ domain.pc <= 3 => ste = [s \in Streams |-> Zero]

Queued(c) == \E i \in DOMAIN cmdq : cmdq[i] = c
\* What firmware left behind is in the cache until it is invalidated.
Stale(s) ==
  \/ domain.op = "start"
  \/ /\ domain.op = "invalidate" /\ s \in domain.rest
     /\ (s \in Batch(domain.rest) /\ domain.pc = 3 => Queued(MakeCfgiSte(s)))

CacheKnown ==
  \A s \in Streams : cfg[s].w0 = "stage2" => Stale(s) \/ (cfg[s].root = OwnerOf[s] /\ Route(s))

\* The hardware holds no valid entry.
Blank(s) == cfg[s].w0 \in {"uncached", "invalid"}

\* The entry under change is invalid until its body is written.
InstallKnown ==
  domain.op = "attach" =>
    /\ domain.pc \in 2..6 => ste[This].w0 = "invalid"
    /\ domain.pc = 4 => cmdq = <<MakeCfgiSte(This), MakeSync>> \/ (Blank(This) /\ cmdq \in {<<MakeSync>>, <<>>})
    /\ domain.pc = 5 => Blank(This)
    /\ domain.pc >= 6 => ste[This].root = domain.vm
    /\ domain.pc = 9 => cmdq \in {<<MakeCfgiSte(This), MakeTlbiVm(domain.vm), MakeSync>>,
                                   <<MakeTlbiVm(domain.vm), MakeSync>>, <<MakeSync>>, <<>>}

\* The VM's translations are cached for another of its streams only.
OthersOnly == domain.vm \in tlb => \E s \in StreamsOf(domain.vm) \ {This} : Attached(s)

\* The stream under change loses its entry, then its cached copy, then the
\* translations made with it.
AbortKnown ==
  domain.op \in {"detach", "quarantine"} =>
    /\ domain.pc >= 2 => ste[This].w0 # "stage2"
    /\ domain.pc = 4 =>
         \/ cmdq = <<MakeCfgiSte(This), MakeTlbiVm(domain.vm), MakeSync>>
         \/ cfg[This].w0 # "stage2" /\ cmdq = <<MakeTlbiVm(domain.vm), MakeSync>>
         \/ cfg[This].w0 # "stage2" /\ OthersOnly /\ cmdq \in {<<MakeSync>>, <<>>}
    /\ domain.pc = 5 => cfg[This].w0 # "stage2" /\ OthersOnly

Flushing == domain.op = "enable" /\ domain.pc < 4
\* A cached translation is of a VM with a stream in use, or is older than the bring-up.
TlbKnown ==
  /\ \A v \in tlb \cap Vms :
       domain.op \in {"start", "invalidate"} \/ Flushing \/ \E s \in StreamsOf(v) : Route(s)
  /\ domain.op = "enable" /\ domain.pc = 3 =>
       cmdq = <<MakeTlbiAll, MakeSync>> \/ (tlb = {} /\ cmdq \in {<<MakeSync>>, <<>>})
  /\ domain.op = "enable" /\ domain.pc > 3 => tlb = {}

\* Commands are on their way only while the driver waits for them.
Waits == \/ domain.op \in {"invalidate", "enable"} /\ domain.pc = 3
         \/ domain.op \in StreamOps /\ domain.pc = 4
         \/ domain.op = "attach" /\ domain.pc = 9
QueueKnown == ~Waits => cmdq = <<>>

SmmuInv ==
  /\ SmmuTypeOK /\ OperationKnown /\ RestKnown /\ PcKnown
  /\ RegistersKnown /\ TableKnown /\ CacheKnown
  /\ InstallKnown /\ AbortKnown /\ TlbKnown /\ QueueKnown

-----------------------------------------------------------------------------
(* The devices.                                                            *)

\* Until the registry is probed nothing moves.
BootQuiet ==
  domain.who = "boot" =>
    /\ \A v \in Vms : thread[v].pc = "idle" /\ answer[v] = "Booting" /\ eoi[v] = {}
    /\ \A d \in Devices : entry[d].state = "Unavailable" /\ line[d] = "masked" /\ token[d] = 0
    /\ \A s \in Streams : ~Attached(s)

In(v, pc)      == thread[v].pc = pc
NoStream(v)    == \A s \in StreamsOf(v) : ~Attached(s)

\* The lock is held by a thread that is in a domain operation, and the
\* operation is the one the thread asked for.
HolderKnown ==
  /\ domain.who \in Vms \cup {"irq"} /\ In(domain.who, "dispatch") => drained[domain.who] # <<>>
  /\ domain.who = "irq" => In("irq", "dispatch") /\ domain.op \in {"none", "quarantine"}
  /\ domain.who \in Vms =>
       /\ thread[domain.who].pc \in {"attach", "detach", "quarantine", "dispatch"}
       /\ domain.op = "attach" => In(domain.who, "attach") /\ domain.vm = domain.who
       /\ domain.op = "detach" => In(domain.who, "detach") /\ domain.vm = domain.who
       /\ domain.op = "quarantine" => thread[domain.who].pc \in {"quarantine", "dispatch"}
       /\ domain.op = "none" /\ In(domain.who, "detach") => NoStream(domain.who)

Polling(v)     == In(v, "poll_events") \/ In(v, "dispatch")
StartsUp(v)    == In(v, "attach") \/ In(v, "prepare") \/ (Polling(v) /\ thread[v].then = "attach")
HasDetached(v) == In(v, "quiesced") \/ (Polling(v) /\ thread[v].then = "quiesced")
StatesOf(v)    == {entry[d].state : d \in DevicesOf(v)}
VmKnown(v) ==
  /\ thread[v].todo \subseteq DevicesOf(v)
  /\ Polling(v) => thread[v].then \in {"attach", "quiesced"}
  /\ StartsUp(v) => StatesOf(v) \subseteq {"Unavailable", "Resuming"}
  /\ In(v, "detach") \/ HasDetached(v) => StatesOf(v) \subseteq {"Unavailable", "Quiesced", "Detaching"}
  /\ HasDetached(v) \/ "Quiesced" \in StatesOf(v) => NoStream(v)
  /\ In(v, "idle") /\ answer[v] = "Complete" => "Active" \notin StatesOf(v)

Watched(d) == line[d] = "open" \/ token[d] = entry[d].generation \/ d \in eoi[VmOf[d]]
\* The line of a running device is watched, or is still to be opened.
LineKnown(d) ==
  /\ entry[d].state = "Active"
  /\ \/ In(VmOf[d], "idle") /\ answer[VmOf[d]] = "Running"
     \/ In(VmOf[d], "unmask") /\ d \notin thread[VmOf[d]].todo
  => Watched(d)

DevicesKnown == \A v \in Vms : VmKnown(v)
LinesKnown   == \A d \in Lines : LineKnown(d)

DmaInv == DmaTypeOK /\ HolderKnown /\ BootQuiet /\ DevicesKnown /\ LinesKnown
IInv == SmmuInv /\ DmaInv
-----------------------------------------------------------------------------
(* Facts the steps share.                                                  *)

LEMMA ThisIs ==
  ASSUME SmmuTypeOK, domain.rest # {}
  PROVE  /\ This \in domain.rest /\ This \in Streams /\ This \in Nat
         /\ \A x \in domain.rest : This <= x
<1>1. domain.rest \subseteq Streams /\ Streams \subseteq Nat
  BY SmmuAssumption DEF SmmuTypeOK, Operations, Streams
<1> QED
  BY <1>1, FirstIsLeast DEF This

LEMMA OnwardIs ==
  ASSUME SmmuTypeOK, domain' = Onward
  PROVE  /\ domain'.who = domain.who /\ domain'.op = domain.op /\ domain'.vm = domain.vm
         /\ domain'.gen = domain.gen /\ domain'.rest = domain.rest /\ domain'.pc = domain.pc + 1
         /\ domain.pc \in Nat /\ domain' \in Operations
<1>1. domain \in Operations
  BY DEF SmmuTypeOK
<1>2. domain.pc \in Nat /\ domain.pc + 1 \in Nat
  BY <1>1 DEF Operations
<1>3. /\ domain'.who = domain.who /\ domain'.op = domain.op /\ domain'.vm = domain.vm
      /\ domain'.gen = domain.gen /\ domain'.rest = domain.rest /\ domain'.pc = domain.pc + 1
  BY <1>1 DEF Operations, Onward
<1>4. domain' \in Operations
  BY <1>1, <1>2 DEF Operations, Onward
<1> QED
  BY <1>2, <1>3, <1>4

LEMMA NextIs ==
  ASSUME NEW op \in BootOps \cup StreamOps, NEW vm \in Owners, NEW gen \in Nat, NEW streams \in SUBSET Streams,
         NEW t \in Threads \cup {Unlocked}, streams # {}, domain' = Begin(t, op, vm, gen, streams)
  PROVE  /\ domain'.who = t /\ domain'.op = op /\ domain'.vm = vm
         /\ domain'.gen = gen /\ domain'.rest = streams /\ domain'.pc = 1
         /\ domain' \in Operations
BY DEF Begin, Operations

LEMMA InactiveIs ==
  ASSUME NEW t \in Threads \cup {Unlocked}, domain' = Inactive(t)
  PROVE  /\ domain'.who = t /\ domain'.op = "none" /\ domain'.vm = NoVm
         /\ domain'.gen = 0 /\ domain'.rest = {} /\ domain'.pc = 0
         /\ domain' \in Operations
BY DEF Inactive, Owners, Operations

\* Commands are commands.
LEMMA CommandsTyped ==
  ASSUME NEW s \in Streams, NEW vm \in Owners
  PROVE  /\ MakeCfgiSte(s) \in Commands /\ MakeTlbiVm(vm) \in Commands
         /\ MakeTlbiAll \in Commands /\ MakeSync \in Commands
         /\ <<>> \in Seq(Commands)
         /\ <<MakeTlbiAll, MakeSync>> \in Seq(Commands)
         /\ <<MakeCfgiSte(s), MakeSync>> \in Seq(Commands)
         /\ EntryCommands(s, vm) \in Seq(Commands)
<1>1. MakeCfgiSte(s) \in Commands
  BY DEF MakeCfgiSte, Commands
<1>2. MakeTlbiVm(vm) \in Commands
  BY DEF MakeTlbiVm, Commands
<1>3. MakeTlbiAll \in Commands /\ MakeSync \in Commands
  BY DEF Commands
<1> QED
  BY <1>1, <1>2, <1>3 DEF EntryCommands

LEMMA Word0Changed ==
  ASSUME SmmuTypeOK, NEW s \in Streams, NEW w \in Word0
  PROVE  LET new == [ste EXCEPT ![s].w0 = w]
         IN /\ new \in [Streams -> Ste]
            /\ new[s].w0 = w /\ new[s].root = ste[s].root /\ new[s].gen = ste[s].gen
            /\ \A x \in Streams \ {s} : new[x] = ste[x]
<1>1. ste \in [Streams -> Ste] /\ ste[s] \in Ste
  BY DEF SmmuTypeOK
<1>2. [ste[s] EXCEPT !.w0 = w] \in Ste
  BY <1>1 DEF Ste
<1>3. [ste EXCEPT ![s].w0 = w] \in [Streams -> Ste]
  BY <1>1, <1>2
<1> QED
  BY <1>1, <1>3 DEF Ste

LEMMA BodyChanged ==
  ASSUME SmmuTypeOK, NEW s \in Streams, NEW vm \in Owners, NEW gen \in Nat,
         ste' = [ste EXCEPT ![s].root = vm, ![s].gen = gen]
  PROVE  /\ ste' \in [Streams -> Ste]
         /\ ste'[s].w0 = ste[s].w0 /\ ste'[s].root = vm
         /\ \A x \in Streams \ {s} : ste'[x] = ste[x]
<1>1. ste \in [Streams -> Ste] /\ ste[s] \in Ste
  BY DEF SmmuTypeOK
<1>2. [ste[s] EXCEPT !.root = vm, !.gen = gen] \in Ste
  BY <1>1 DEF Ste, Roots, Owners
<1>3. ste' = [ste EXCEPT ![s] = [ste[s] EXCEPT !.root = vm, !.gen = gen]]
  BY <1>1
<1>4. ste'[s] = [ste[s] EXCEPT !.root = vm, !.gen = gen]
  BY <1>1, <1>3
<1> QED
  BY <1>1, <1>2, <1>3, <1>4 DEF Ste

\* The next batch of invalidations.
LEMMA BatchIs ==
  ASSUME NEW f \in Streams
  PROVE  LET rest == f..StreamCount
         IN /\ First(rest) = f /\ f \in rest
            /\ BatchEnd(rest) \in f..StreamCount
            /\ Batch(rest) \subseteq Streams
            /\ rest \ Batch(rest) = (BatchEnd(rest) + 1)..StreamCount
            /\ rest \ Batch(rest) # {} =>
                 BatchEnd(rest) + 1 \in Streams /\ First(rest \ Batch(rest)) = BatchEnd(rest) + 1
            /\ Append(CfgiBatch(rest), MakeSync) \in Seq(Commands)
            /\ \A s \in Batch(rest) :
                 \E i \in DOMAIN Append(CfgiBatch(rest), MakeSync) :
                   Append(CfgiBatch(rest), MakeSync)[i] = MakeCfgiSte(s)
<1> DEFINE rest == f..StreamCount
           e    == BatchEnd(rest)
           b    == CfgiBatch(rest)
<1>1. StreamCount \in Nat /\ f \in 1..StreamCount /\ CmdSlots \in Nat /\ CmdSlots >= 3
  BY SmmuAssumption DEF Streams
<1>2. \A g \in 1..StreamCount : First(g..StreamCount) = g
  <2> SUFFICES ASSUME NEW g \in 1..StreamCount PROVE First(g..StreamCount) = g
    OBVIOUS
  <2> DEFINE S == g..StreamCount
  <2>1. S \subseteq Nat /\ g \in S /\ \A x \in S : g <= x
    BY <1>1
  <2>2. First(S) \in S /\ \A x \in S : First(S) <= x
    BY <2>1, FirstIsLeast
  <2>3. First(S) <= g /\ g <= First(S) /\ First(S) \in Nat
    BY <2>1, <2>2
  <2> QED
    BY <2>3, <1>1
<1>3. First(rest) = f /\ f \in rest
  BY <1>1, <1>2
<1>4. e \in f..StreamCount
  <2>1. e = IF f + CmdSlots - 2 < StreamCount THEN f + CmdSlots - 2 ELSE StreamCount
    BY <1>3 DEF BatchEnd
  <2> HIDE DEF e
  <2> QED
    BY <1>1, <2>1
<1>5. Batch(rest) = f..e
  BY <1>3 DEF Batch
<1> HIDE DEF e
<1>6. Batch(rest) \subseteq Streams
  BY <1>1, <1>4, <1>5 DEF Streams
<1>7. rest \ Batch(rest) = (e + 1)..StreamCount
  BY <1>1, <1>4, <1>5
<1>8. rest \ Batch(rest) # {} => e + 1 \in 1..StreamCount
  BY <1>1, <1>4, <1>7
<1>9. b = [i \in 1..(e - f + 1) |-> MakeCfgiSte(f + i - 1)]
  BY <1>3 DEF CfgiBatch, e
<1> HIDE DEF b
<1>10. b \in Seq(Commands) /\ Len(b) = e - f + 1
  <2>1. e - f + 1 \in Nat
    BY <1>1, <1>4
  <2>2. \A i \in 1..(e - f + 1) : f + i - 1 \in Streams
    BY <1>1, <1>4 DEF Streams
  <2>3. \A s \in Streams : MakeCfgiSte(s) \in Commands
    BY DEF MakeCfgiSte, Commands
  <2>4. \A i \in 1..(e - f + 1) : MakeCfgiSte(f + i - 1) \in Commands
    BY <2>2, <2>3
  <2>5. b \in [1..(e - f + 1) -> Commands]
    BY <1>9, <2>4
  <2> QED
    BY <2>1, <2>5
<1>11. MakeSync \in Commands
  BY DEF Commands
<1>12. Append(b, MakeSync) \in Seq(Commands) /\ Len(Append(b, MakeSync)) = e - f + 2
       /\ \A i \in 1..(e - f + 1) : Append(b, MakeSync)[i] = b[i]
  <2>1. /\ Append(b, MakeSync) \in Seq(Commands)
        /\ Len(Append(b, MakeSync)) = Len(b) + 1
        /\ \A i \in 1..Len(b) : Append(b, MakeSync)[i] = b[i]
    BY <1>10, <1>11, AppendProperties
  <2> QED
    BY <1>1, <1>4, <1>10, <2>1
<1>13. \A s \in Batch(rest) : \E i \in DOMAIN Append(b, MakeSync) : Append(b, MakeSync)[i] = MakeCfgiSte(s)
  <2> SUFFICES ASSUME NEW s \in f..e
               PROVE  \E i \in DOMAIN Append(b, MakeSync) : Append(b, MakeSync)[i] = MakeCfgiSte(s)
    BY <1>5
  <2>1. s - f + 1 \in 1..(e - f + 1) /\ s - f + 1 \in 1..(e - f + 2) /\ f + (s - f + 1) - 1 = s
    BY <1>1, <1>4
  <2>2. Append(b, MakeSync)[s - f + 1] = MakeCfgiSte(s)
    BY <1>9, <1>12, <2>1
  <2>3. DOMAIN Append(b, MakeSync) = 1..(e - f + 2)
    BY <1>12
  <2> QED
    BY <2>1, <2>2, <2>3
<1> QED
  BY <1>1, <1>2, <1>3, <1>4, <1>6, <1>7, <1>8, <1>12, <1>13 DEF e, b, Streams

\* Everything submitted has been consumed.
LEMMA Idled ==
  ASSUME SmmuInv, cmdq = <<>>, domain' = Onward, UNCHANGED <<gbpa, cr0, ste, cfg, tlb, cmdq, binding>>,
         \/ domain.op = "invalidate" /\ domain.pc = 1
         \/ domain.op = "enable" /\ domain.pc \in {1, 3}
         \/ domain.op = "attach" /\ domain.pc \in {2, 4, 7, 9}
         \/ domain.op \in {"detach", "quarantine"} /\ Attached(This) /\ domain.pc \in {2, 4}
  PROVE  SmmuInv'
<1> USE DEF SmmuInv
<1>1. /\ domain'.who = domain.who /\ domain'.op = domain.op /\ domain'.vm = domain.vm
      /\ domain'.gen = domain.gen /\ domain'.rest = domain.rest /\ domain'.pc = domain.pc + 1 /\ domain.pc \in Nat
  BY OnwardIs
<1>2. SmmuTypeOK'
  BY OnwardIs DEF SmmuTypeOK
<1>3. OperationKnown'
  BY <1>1 DEF OperationKnown, Inactive, BootOps, StreamOps
<1>4. RestKnown'
  BY <1>1 DEF RestKnown, This, Attached, BootOps, StreamOps
<1>5. PcKnown'
  BY <1>1 DEF PcKnown, This, Attached, BootOps, StreamOps
<1>6. RegistersKnown'
  BY <1>1 DEF RegistersKnown, BootOps, StreamOps
<1>7. TableKnown'
  BY <1>1 DEF TableKnown, Route, This, Attached, BootOps, StreamOps
<1>8. CacheKnown'
  BY <1>1 DEF CacheKnown, Stale, Route, This, Attached, BootOps, StreamOps
<1>9. InstallKnown'
  BY <1>1 DEF InstallKnown, Blank, This, BootOps, StreamOps
<1>10. AbortKnown'
  BY <1>1 DEF AbortKnown, OthersOnly, This, Attached, StreamsOf, BootOps, StreamOps
<1>11. TlbKnown'
  BY <1>1 DEF TlbKnown, Flushing, Route, This, Attached, StreamsOf, BootOps, StreamOps
<1>12. QueueKnown'
  BY <1>1 DEF QueueKnown, Waits, BootOps, StreamOps
<1> QED
  BY <1>2, <1>3, <1>4, <1>5, <1>6, <1>7, <1>8, <1>9, <1>10, <1>11, <1>12 DEF SmmuInv

\* A batch of invalidations is submitted.
LEMMA BatchPushed ==
  ASSUME SmmuInv, domain.op = "invalidate", domain.pc = 2, domain' = Onward,
         cmdq' = Append(CfgiBatch(domain.rest), MakeSync), UNCHANGED <<gbpa, cr0, ste, cfg, tlb, binding>>
  PROVE  SmmuInv'
<1> USE DEF SmmuInv
<1>1. /\ domain'.who = domain.who /\ domain'.op = domain.op /\ domain'.vm = domain.vm
      /\ domain'.gen = domain.gen /\ domain'.rest = domain.rest /\ domain'.pc = domain.pc + 1 /\ domain.pc \in Nat
  BY OnwardIs
<1>2. /\ This \in Streams /\ domain.rest = This..StreamCount
  BY ThisIs DEF OperationKnown, RestKnown
<1>3. /\ cmdq' \in Seq(Commands)
      /\ \A s \in Batch(domain.rest) : \E i \in DOMAIN cmdq' : cmdq'[i] = MakeCfgiSte(s)
  BY <1>2, BatchIs
<1>4. \A s \in Batch(domain.rest) : Queued(MakeCfgiSte(s))'
  BY <1>3 DEF Queued, MakeCfgiSte
<1>5. Batch(domain.rest)' = Batch(domain.rest)
  BY <1>1 DEF Batch, BatchEnd
<1>6. SmmuTypeOK'
  BY <1>3, OnwardIs DEF SmmuTypeOK
<1>7. OperationKnown'
  BY <1>1 DEF OperationKnown, Inactive, BootOps, StreamOps
<1>8. RestKnown'
  BY <1>1 DEF RestKnown, This, Attached, BootOps, StreamOps
<1>9. PcKnown'
  BY <1>1 DEF PcKnown, This, Attached, BootOps, StreamOps
<1>10. RegistersKnown'
  BY <1>1 DEF RegistersKnown, BootOps, StreamOps
<1>11. TableKnown'
  BY <1>1 DEF TableKnown, Route, This, Attached, BootOps, StreamOps
<1>12. CacheKnown'
  BY <1>1, <1>4, <1>5 DEF CacheKnown, Stale, Route, This, Attached
<1>13. InstallKnown'
  BY <1>1 DEF InstallKnown, Blank, This, BootOps, StreamOps
<1>14. AbortKnown'
  BY <1>1 DEF AbortKnown, OthersOnly, This, Attached, StreamsOf, BootOps, StreamOps
<1>15. TlbKnown'
  BY <1>1 DEF TlbKnown, Flushing, Route, This, Attached, StreamsOf, BootOps, StreamOps
<1>16. QueueKnown'
  BY <1>1 DEF QueueKnown, Waits, BootOps, StreamOps
<1> QED
  BY <1>6, <1>7, <1>8, <1>9, <1>10, <1>11, <1>12, <1>13, <1>14, <1>15, <1>16 DEF SmmuInv

\* The flush of every translation is submitted.
LEMMA FlushPushed ==
  ASSUME SmmuInv, domain.op = "enable", domain.pc = 2, domain' = Onward,
         cmdq' = <<MakeTlbiAll, MakeSync>>, UNCHANGED <<gbpa, cr0, ste, cfg, tlb, binding>>
  PROVE  SmmuInv'
<1> USE DEF SmmuInv
<1>1. /\ domain'.who = domain.who /\ domain'.op = domain.op /\ domain'.vm = domain.vm
      /\ domain'.gen = domain.gen /\ domain'.rest = domain.rest /\ domain'.pc = domain.pc + 1 /\ domain.pc \in Nat
  BY OnwardIs
<1>2. /\ This \in domain.rest /\ This \in Streams /\ This' = This
      /\ domain.op \in StreamOps => OwnerOf[This] = domain.vm
  BY <1>1, ThisIs DEF OperationKnown, RestKnown, This, StreamOps
<1>3. domain.vm \in Owners /\ domain.gen \in Nat
  BY DEF SmmuTypeOK, Operations
<1>4. cmdq' \in Seq(Commands)
  BY <1>2, <1>3, CommandsTyped
<1>5. SmmuTypeOK'
  BY <1>4, OnwardIs DEF SmmuTypeOK
<1>6. OperationKnown'
  BY <1>1 DEF OperationKnown, Inactive, BootOps, StreamOps
<1>7. RestKnown'
  BY <1>1 DEF RestKnown, This, Attached, BootOps, StreamOps
<1>8. PcKnown'
  BY <1>1 DEF PcKnown, This, Attached, BootOps, StreamOps
<1>9. RegistersKnown'
  BY <1>1 DEF RegistersKnown, BootOps, StreamOps
<1>10. TableKnown'
  BY <1>1 DEF TableKnown, Route, This, Attached, BootOps, StreamOps
<1>11. CacheKnown'
  BY <1>1 DEF CacheKnown, Stale, Route, This, Attached, BootOps, StreamOps
<1>12. InstallKnown'
  BY <1>1 DEF InstallKnown, Blank, This, BootOps, StreamOps
<1>13. AbortKnown'
  BY <1>1 DEF AbortKnown, OthersOnly, This, Attached, StreamsOf, BootOps, StreamOps
<1>14. TlbKnown'
  BY <1>1 DEF TlbKnown, Flushing, Route, This, Attached, StreamsOf, BootOps, StreamOps
<1>15. QueueKnown'
  BY <1>1 DEF QueueKnown, Waits, BootOps, StreamOps
<1> QED
  BY <1>5, <1>6, <1>7, <1>8, <1>9, <1>10, <1>11, <1>12, <1>13, <1>14, <1>15 DEF SmmuInv

\* The invalidation of the entry being installed is submitted.
LEMMA EntryPushed ==
  ASSUME SmmuInv, domain.op = "attach", domain.pc = 3, domain' = Onward,
         cmdq' = <<MakeCfgiSte(This), MakeSync>>, UNCHANGED <<gbpa, cr0, ste, cfg, tlb, binding>>
  PROVE  SmmuInv'
<1> USE DEF SmmuInv
<1>1. /\ domain'.who = domain.who /\ domain'.op = domain.op /\ domain'.vm = domain.vm
      /\ domain'.gen = domain.gen /\ domain'.rest = domain.rest /\ domain'.pc = domain.pc + 1 /\ domain.pc \in Nat
  BY OnwardIs
<1>2. /\ This \in domain.rest /\ This \in Streams /\ This' = This
      /\ domain.op \in StreamOps => OwnerOf[This] = domain.vm
  BY <1>1, ThisIs DEF OperationKnown, RestKnown, This, StreamOps
<1>3. domain.vm \in Owners /\ domain.gen \in Nat
  BY DEF SmmuTypeOK, Operations
<1>4. cmdq' \in Seq(Commands)
  BY <1>2, <1>3, CommandsTyped
<1>5. SmmuTypeOK'
  BY <1>4, OnwardIs DEF SmmuTypeOK
<1>6. OperationKnown'
  BY <1>1 DEF OperationKnown, Inactive, BootOps, StreamOps
<1>7. RestKnown'
  BY <1>1 DEF RestKnown, This, Attached, BootOps, StreamOps
<1>8. PcKnown'
  BY <1>1 DEF PcKnown, This, Attached, BootOps, StreamOps
<1>9. RegistersKnown'
  BY <1>1 DEF RegistersKnown, BootOps, StreamOps
<1>10. TableKnown'
  BY <1>1 DEF TableKnown, Route, This, Attached, BootOps, StreamOps
<1>11. CacheKnown'
  BY <1>1 DEF CacheKnown, Stale, Route, This, Attached, BootOps, StreamOps
<1>12. InstallKnown'
  BY <1>1 DEF InstallKnown, Blank, This, BootOps, StreamOps
<1>13. AbortKnown'
  BY <1>1 DEF AbortKnown, OthersOnly, This, Attached, StreamsOf, BootOps, StreamOps
<1>14. TlbKnown'
  BY <1>1 DEF TlbKnown, Flushing, Route, This, Attached, StreamsOf, BootOps, StreamOps
<1>15. QueueKnown'
  BY <1>1 DEF QueueKnown, Waits, BootOps, StreamOps
<1> QED
  BY <1>5, <1>6, <1>7, <1>8, <1>9, <1>10, <1>11, <1>12, <1>13, <1>14, <1>15 DEF SmmuInv

\* The invalidation of an entry and of the translations of its VM is submitted.
LEMMA ContextPushed ==
  ASSUME SmmuInv, domain' = Onward, cmdq' = EntryCommands(This, domain.vm),
         \/ domain.op = "attach" /\ domain.pc = 8
         \/ domain.op \in {"detach", "quarantine"} /\ Attached(This) /\ domain.pc = 3,
         UNCHANGED <<gbpa, cr0, ste, cfg, tlb, binding>>
  PROVE  SmmuInv'
<1> USE DEF SmmuInv
<1>1. /\ domain'.who = domain.who /\ domain'.op = domain.op /\ domain'.vm = domain.vm
      /\ domain'.gen = domain.gen /\ domain'.rest = domain.rest /\ domain'.pc = domain.pc + 1 /\ domain.pc \in Nat
  BY OnwardIs
<1>2. /\ This \in domain.rest /\ This \in Streams /\ This' = This
      /\ domain.op \in StreamOps => OwnerOf[This] = domain.vm
  BY <1>1, ThisIs DEF OperationKnown, RestKnown, This, StreamOps
<1>3. domain.vm \in Owners /\ domain.gen \in Nat
  BY DEF SmmuTypeOK, Operations
<1>4. cmdq' \in Seq(Commands)
  BY <1>2, <1>3, CommandsTyped
<1>5. SmmuTypeOK'
  BY <1>4, OnwardIs DEF SmmuTypeOK
<1>6. OperationKnown'
  BY <1>1 DEF OperationKnown, Inactive, BootOps, StreamOps, EntryCommands
<1>7. RestKnown'
  BY <1>1 DEF RestKnown, This, Attached, BootOps, StreamOps, EntryCommands
<1>8. PcKnown'
  BY <1>1 DEF PcKnown, This, Attached, BootOps, StreamOps, EntryCommands
<1>9. RegistersKnown'
  BY <1>1 DEF RegistersKnown, BootOps, StreamOps, EntryCommands
<1>10. TableKnown'
  BY <1>1 DEF TableKnown, Route, This, Attached, BootOps, StreamOps, EntryCommands
<1>11. CacheKnown'
  BY <1>1 DEF CacheKnown, Stale, Route, This, Attached, BootOps, StreamOps, EntryCommands
<1>12. InstallKnown'
  BY <1>1 DEF InstallKnown, Blank, This, BootOps, StreamOps, EntryCommands
<1>13. AbortKnown'
  BY <1>1 DEF AbortKnown, OthersOnly, This, Attached, StreamsOf, BootOps, StreamOps, EntryCommands
<1>14. TlbKnown'
  BY <1>1 DEF TlbKnown, Flushing, Route, This, Attached, StreamsOf, BootOps, StreamOps, EntryCommands
<1>15. QueueKnown'
  BY <1>1 DEF QueueKnown, Waits, BootOps, StreamOps, EntryCommands
<1> QED
  BY <1>5, <1>6, <1>7, <1>8, <1>9, <1>10, <1>11, <1>12, <1>13, <1>14, <1>15 DEF SmmuInv

\* Untranslated streams are aborted.
LEMMA Closed ==
  ASSUME SmmuInv, domain.op = "start", domain.pc = 1, domain' = Onward,
         gbpa' = "abort", UNCHANGED <<cr0, ste, cfg, tlb, cmdq, binding>>
  PROVE  SmmuInv'
<1> USE DEF SmmuInv
<1>1. /\ domain'.who = domain.who /\ domain'.op = domain.op /\ domain'.vm = domain.vm
      /\ domain'.gen = domain.gen /\ domain'.rest = domain.rest /\ domain'.pc = domain.pc + 1 /\ domain.pc \in Nat
  BY OnwardIs
<1>2. SmmuTypeOK'
  BY OnwardIs DEF SmmuTypeOK
<1>3. OperationKnown'
  BY <1>1 DEF OperationKnown, Inactive, BootOps, StreamOps
<1>4. RestKnown'
  BY <1>1 DEF RestKnown, This, Attached, BootOps, StreamOps
<1>5. PcKnown'
  BY <1>1 DEF PcKnown, This, Attached, BootOps, StreamOps
<1>6. RegistersKnown'
  BY <1>1 DEF RegistersKnown, BootOps, StreamOps
<1>7. TableKnown'
  BY <1>1 DEF TableKnown, Route, This, Attached, BootOps, StreamOps
<1>8. CacheKnown'
  BY <1>1 DEF CacheKnown, Stale, Route, This, Attached, BootOps, StreamOps
<1>9. InstallKnown'
  BY <1>1 DEF InstallKnown, Blank, This, BootOps, StreamOps
<1>10. AbortKnown'
  BY <1>1 DEF AbortKnown, OthersOnly, This, Attached, StreamsOf, BootOps, StreamOps
<1>11. TlbKnown'
  BY <1>1 DEF TlbKnown, Flushing, Route, This, Attached, StreamsOf, BootOps, StreamOps
<1>12. QueueKnown'
  BY <1>1 DEF QueueKnown, Waits, BootOps, StreamOps
<1> QED
  BY <1>2, <1>3, <1>4, <1>5, <1>6, <1>7, <1>8, <1>9, <1>10, <1>11, <1>12 DEF SmmuInv

\* What firmware left running stops.
LEMMA TurnedOff ==
  ASSUME SmmuInv, domain.op = "start", domain.pc = 2, domain' = Onward,
         cr0' = {}, UNCHANGED <<gbpa, ste, cfg, tlb, cmdq, binding>>
  PROVE  SmmuInv'
<1> USE DEF SmmuInv
<1>1. /\ domain'.who = domain.who /\ domain'.op = domain.op /\ domain'.vm = domain.vm
      /\ domain'.gen = domain.gen /\ domain'.rest = domain.rest /\ domain'.pc = domain.pc + 1 /\ domain.pc \in Nat
  BY OnwardIs
<1>2. SmmuTypeOK'
  BY OnwardIs DEF SmmuTypeOK
<1>3. OperationKnown'
  BY <1>1 DEF OperationKnown, Inactive, BootOps, StreamOps
<1>4. RestKnown'
  BY <1>1 DEF RestKnown, This, Attached, BootOps, StreamOps
<1>5. PcKnown'
  BY <1>1 DEF PcKnown, This, Attached, BootOps, StreamOps
<1>6. RegistersKnown'
  BY <1>1 DEF RegistersKnown, BootOps, StreamOps
<1>7. TableKnown'
  BY <1>1 DEF TableKnown, Route, This, Attached, BootOps, StreamOps
<1>8. CacheKnown'
  BY <1>1 DEF CacheKnown, Stale, Route, This, Attached, BootOps, StreamOps
<1>9. InstallKnown'
  BY <1>1 DEF InstallKnown, Blank, This, BootOps, StreamOps
<1>10. AbortKnown'
  BY <1>1 DEF AbortKnown, OthersOnly, This, Attached, StreamsOf, BootOps, StreamOps
<1>11. TlbKnown'
  BY <1>1 DEF TlbKnown, Flushing, Route, This, Attached, StreamsOf, BootOps, StreamOps
<1>12. QueueKnown'
  BY <1>1 DEF QueueKnown, Waits, BootOps, StreamOps
<1> QED
  BY <1>2, <1>3, <1>4, <1>5, <1>6, <1>7, <1>8, <1>9, <1>10, <1>11, <1>12 DEF SmmuInv

\* The tables are built.
LEMMA Built ==
  ASSUME SmmuInv, domain.op = "start", domain.pc = 3, domain' = Onward,
         ste' = [x \in Streams |-> IF Configured(x) THEN MakeAbortSte ELSE Zero],
         binding' = [x \in Streams |-> [state |-> "Detached", generation |-> 0]],
         cmdq' = <<>>, UNCHANGED <<gbpa, cr0, cfg, tlb>>
  PROVE  SmmuInv'
<1> USE DEF SmmuInv
<1>1. /\ domain'.who = domain.who /\ domain'.op = domain.op /\ domain'.vm = domain.vm
      /\ domain'.gen = domain.gen /\ domain'.rest = domain.rest /\ domain'.pc = domain.pc + 1 /\ domain.pc \in Nat
  BY OnwardIs
<1>2. Zero \in Ste /\ MakeAbortSte \in Ste /\ MakeAbortSte.w0 = "abort" /\ Zero.w0 = "invalid"
  BY DEF Zero, MakeAbortSte, Ste, Word0, Roots
<1>3. ste' \in [Streams -> Ste] /\ \A s \in Streams : ste'[s].w0 # "stage2"
  BY <1>2
<1>4. binding' \in [Streams -> [state : Bindings, generation : Nat]]
  BY DEF Bindings
<1>5. cmdq' \in Seq(Commands)
  OBVIOUS
<1>6. SmmuTypeOK'
  BY <1>3, <1>4, <1>5, OnwardIs DEF SmmuTypeOK
<1>7. OperationKnown'
  BY <1>1 DEF OperationKnown, Inactive, BootOps, StreamOps
<1>8. RestKnown'
  BY <1>1 DEF RestKnown, This, Attached, BootOps, StreamOps
<1>9. PcKnown'
  BY <1>1 DEF PcKnown, This, Attached, BootOps, StreamOps
<1>10. RegistersKnown'
  BY <1>1 DEF RegistersKnown, BootOps, StreamOps
<1>11. TableKnown'
  BY <1>1, <1>3 DEF TableKnown
<1>12. CacheKnown'
  BY <1>1 DEF CacheKnown, Stale, Route, This, Attached, BootOps, StreamOps
<1>13. InstallKnown'
  BY <1>1 DEF InstallKnown, Blank, This, BootOps, StreamOps
<1>14. AbortKnown'
  BY <1>1 DEF AbortKnown, OthersOnly, This, Attached, StreamsOf, BootOps, StreamOps
<1>15. TlbKnown'
  BY <1>1 DEF TlbKnown, Flushing, Route, This, Attached, StreamsOf, BootOps, StreamOps
<1>16. QueueKnown'
  BY <1>1 DEF QueueKnown, Waits, BootOps, StreamOps
<1> QED
  BY <1>6, <1>7, <1>8, <1>9, <1>10, <1>11, <1>12, <1>13, <1>14, <1>15, <1>16 DEF SmmuInv

\* The event queue goes on.
LEMMA EventsOn ==
  ASSUME SmmuInv, domain.op = "enable", domain.pc = 4, domain' = Onward,
         cr0' = {"cmdq", "evtq"}, UNCHANGED <<gbpa, ste, cfg, tlb, cmdq, binding>>
  PROVE  SmmuInv'
<1> USE DEF SmmuInv
<1>1. /\ domain'.who = domain.who /\ domain'.op = domain.op /\ domain'.vm = domain.vm
      /\ domain'.gen = domain.gen /\ domain'.rest = domain.rest /\ domain'.pc = domain.pc + 1 /\ domain.pc \in Nat
  BY OnwardIs
<1>2. SmmuTypeOK'
  BY OnwardIs DEF SmmuTypeOK, Enables
<1>3. OperationKnown'
  BY <1>1 DEF OperationKnown, Inactive, BootOps, StreamOps
<1>4. RestKnown'
  BY <1>1 DEF RestKnown, This, Attached, BootOps, StreamOps
<1>5. PcKnown'
  BY <1>1 DEF PcKnown, This, Attached, BootOps, StreamOps
<1>6. RegistersKnown'
  BY <1>1 DEF RegistersKnown, BootOps, StreamOps
<1>7. TableKnown'
  BY <1>1 DEF TableKnown, Route, This, Attached, BootOps, StreamOps
<1>8. CacheKnown'
  BY <1>1 DEF CacheKnown, Stale, Route, This, Attached, BootOps, StreamOps
<1>9. InstallKnown'
  BY <1>1 DEF InstallKnown, Blank, This, BootOps, StreamOps
<1>10. AbortKnown'
  BY <1>1 DEF AbortKnown, OthersOnly, This, Attached, StreamsOf, BootOps, StreamOps
<1>11. TlbKnown'
  BY <1>1 DEF TlbKnown, Flushing, Route, This, Attached, StreamsOf, BootOps, StreamOps
<1>12. QueueKnown'
  BY <1>1 DEF QueueKnown, Waits, BootOps, StreamOps
<1> QED
  BY <1>2, <1>3, <1>4, <1>5, <1>6, <1>7, <1>8, <1>9, <1>10, <1>11, <1>12 DEF SmmuInv

\* The entry to install goes invalid.
LEMMA EntryInvalid ==
  ASSUME SmmuInv, domain.op = "attach", domain.pc = 1, domain' = Onward,
         ste' = [ste EXCEPT ![This].w0 = "invalid"], UNCHANGED <<gbpa, cr0, cfg, tlb, cmdq, binding>>
  PROVE  SmmuInv'
<1> USE DEF SmmuInv
<1>1. /\ domain'.who = domain.who /\ domain'.op = domain.op /\ domain'.vm = domain.vm
      /\ domain'.gen = domain.gen /\ domain'.rest = domain.rest /\ domain'.pc = domain.pc + 1 /\ domain.pc \in Nat
  BY OnwardIs
<1>2. /\ This \in domain.rest /\ This \in Streams /\ This' = This
      /\ domain.op \in StreamOps => OwnerOf[This] = domain.vm
  BY <1>1, ThisIs DEF OperationKnown, RestKnown, This, StreamOps
<1>3. domain.vm \in Owners /\ domain.gen \in Nat
  BY DEF SmmuTypeOK, Operations
<1>4. /\ ste' \in [Streams -> Ste] /\ ste'[This].w0 = "invalid" /\ ste'[This].root = ste[This].root
      /\ \A s \in Streams \ {This} : ste'[s] = ste[s]
  BY <1>2, Word0Changed DEF Word0
<1>5. SmmuTypeOK'
  BY <1>4, OnwardIs DEF SmmuTypeOK
<1>6. OperationKnown'
  BY <1>1 DEF OperationKnown, Inactive, BootOps, StreamOps
<1>7. RestKnown'
  BY <1>1 DEF RestKnown, This, Attached, BootOps, StreamOps
<1>8. PcKnown'
  BY <1>1 DEF PcKnown, This, Attached, BootOps, StreamOps
<1>9. RegistersKnown'
  BY <1>1 DEF RegistersKnown, BootOps, StreamOps
<1>10. TableKnown'
  BY <1>1, <1>2, <1>4 DEF TableKnown, Route, This, Attached, BootOps, StreamOps
<1>11. CacheKnown'
  BY <1>1 DEF CacheKnown, Stale, Route, This, Attached, BootOps, StreamOps
<1>12. InstallKnown'
  BY <1>1, <1>2, <1>4 DEF InstallKnown, BootOps, StreamOps
<1>13. AbortKnown'
  BY <1>1 DEF AbortKnown, OthersOnly, This, Attached, StreamsOf, BootOps, StreamOps
<1>14. TlbKnown'
  BY <1>1 DEF TlbKnown, Flushing, Route, This, Attached, StreamsOf, BootOps, StreamOps
<1>15. QueueKnown'
  BY <1>1 DEF QueueKnown, Waits, BootOps, StreamOps
<1> QED
  BY <1>5, <1>6, <1>7, <1>8, <1>9, <1>10, <1>11, <1>12, <1>13, <1>14, <1>15 DEF SmmuInv

\* Its body is written.
LEMMA BodyWritten ==
  ASSUME SmmuInv, domain.op = "attach", domain.pc = 5, domain' = Onward,
         ste' = [ste EXCEPT ![This].root = domain.vm, ![This].gen = domain.gen],
         UNCHANGED <<gbpa, cr0, cfg, tlb, cmdq, binding>>
  PROVE  SmmuInv'
<1> USE DEF SmmuInv
<1>1. /\ domain'.who = domain.who /\ domain'.op = domain.op /\ domain'.vm = domain.vm
      /\ domain'.gen = domain.gen /\ domain'.rest = domain.rest /\ domain'.pc = domain.pc + 1 /\ domain.pc \in Nat
  BY OnwardIs
<1>2. /\ This \in domain.rest /\ This \in Streams /\ This' = This
      /\ domain.op \in StreamOps => OwnerOf[This] = domain.vm
  BY <1>1, ThisIs DEF OperationKnown, RestKnown, This, StreamOps
<1>3. domain.vm \in Owners /\ domain.gen \in Nat
  BY DEF SmmuTypeOK, Operations
<1>4. /\ ste' \in [Streams -> Ste] /\ ste'[This].w0 = ste[This].w0 /\ ste'[This].root = domain.vm
      /\ \A s \in Streams \ {This} : ste'[s] = ste[s]
  BY <1>2, <1>3, BodyChanged
<1>5. ste[This].w0 = "invalid"
  BY DEF InstallKnown
<1>6. SmmuTypeOK'
  BY <1>4, OnwardIs DEF SmmuTypeOK
<1>7. OperationKnown'
  BY <1>1 DEF OperationKnown, Inactive, BootOps, StreamOps
<1>8. RestKnown'
  BY <1>1 DEF RestKnown, This, Attached, BootOps, StreamOps
<1>9. PcKnown'
  BY <1>1 DEF PcKnown, This, Attached, BootOps, StreamOps
<1>10. RegistersKnown'
  BY <1>1 DEF RegistersKnown, BootOps, StreamOps
<1>11. TableKnown'
  BY <1>1, <1>2, <1>4, <1>5 DEF TableKnown, Route, This, Attached, BootOps, StreamOps
<1>12. CacheKnown'
  BY <1>1 DEF CacheKnown, Stale, Route, This, Attached, BootOps, StreamOps
<1>13. InstallKnown'
  BY <1>1, <1>2, <1>4 DEF InstallKnown, Blank, BootOps, StreamOps
<1>14. AbortKnown'
  BY <1>1 DEF AbortKnown, OthersOnly, This, Attached, StreamsOf, BootOps, StreamOps
<1>15. TlbKnown'
  BY <1>1 DEF TlbKnown, Flushing, Route, This, Attached, StreamsOf, BootOps, StreamOps
<1>16. QueueKnown'
  BY <1>1 DEF QueueKnown, Waits, BootOps, StreamOps
<1> QED
  BY <1>6, <1>7, <1>8, <1>9, <1>10, <1>11, <1>12, <1>13, <1>14, <1>15, <1>16 DEF SmmuInv

\* The installed entry goes valid.
LEMMA EntryValid ==
  ASSUME SmmuInv, domain.op = "attach", domain.pc = 6, domain' = Onward,
         ste' = [ste EXCEPT ![This].w0 = "stage2"], UNCHANGED <<gbpa, cr0, cfg, tlb, cmdq, binding>>
  PROVE  SmmuInv'
<1> USE DEF SmmuInv
<1>1. /\ domain'.who = domain.who /\ domain'.op = domain.op /\ domain'.vm = domain.vm
      /\ domain'.gen = domain.gen /\ domain'.rest = domain.rest /\ domain'.pc = domain.pc + 1 /\ domain.pc \in Nat
  BY OnwardIs
<1>2. /\ This \in domain.rest /\ This \in Streams /\ This' = This
      /\ domain.op \in StreamOps => OwnerOf[This] = domain.vm
  BY <1>1, ThisIs DEF OperationKnown, RestKnown, This, StreamOps
<1>3. domain.vm \in Owners /\ domain.gen \in Nat
  BY DEF SmmuTypeOK, Operations
<1>4. /\ ste' \in [Streams -> Ste] /\ ste'[This].w0 = "stage2" /\ ste'[This].root = ste[This].root
      /\ \A s \in Streams \ {This} : ste'[s] = ste[s]
  BY <1>2, Word0Changed DEF Word0
<1>5. domain.vm \in Vms /\ ste[This].root = domain.vm
  BY DEF InstallKnown, OperationKnown
<1>6. SmmuTypeOK'
  BY <1>4, OnwardIs DEF SmmuTypeOK
<1>7. OperationKnown'
  BY <1>1 DEF OperationKnown, Inactive, BootOps, StreamOps
<1>8. RestKnown'
  BY <1>1 DEF RestKnown, This, Attached, BootOps, StreamOps
<1>9. PcKnown'
  BY <1>1 DEF PcKnown, This, Attached, BootOps, StreamOps
<1>10. RegistersKnown'
  BY <1>1 DEF RegistersKnown, BootOps, StreamOps
<1>11. TableKnown'
  BY <1>1, <1>2, <1>4, <1>5 DEF TableKnown, Route, This, Attached, BootOps, StreamOps
<1>12. CacheKnown'
  BY <1>1 DEF CacheKnown, Stale, Route, This, Attached, BootOps, StreamOps
<1>13. InstallKnown'
  BY <1>1, <1>2, <1>4 DEF InstallKnown, BootOps, StreamOps
<1>14. AbortKnown'
  BY <1>1 DEF AbortKnown, OthersOnly, This, Attached, StreamsOf, BootOps, StreamOps
<1>15. TlbKnown'
  BY <1>1 DEF TlbKnown, Flushing, Route, This, Attached, StreamsOf, BootOps, StreamOps
<1>16. QueueKnown'
  BY <1>1 DEF QueueKnown, Waits, BootOps, StreamOps
<1> QED
  BY <1>6, <1>7, <1>8, <1>9, <1>10, <1>11, <1>12, <1>13, <1>14, <1>15, <1>16 DEF SmmuInv

\* The entry to withdraw aborts.
LEMMA EntryAborts ==
  ASSUME SmmuInv, domain.op \in {"detach", "quarantine"}, Attached(This), domain.pc = 1, domain' = Onward,
         ste' = [ste EXCEPT ![This].w0 = "abort"], UNCHANGED <<gbpa, cr0, cfg, tlb, cmdq, binding>>
  PROVE  SmmuInv'
<1> USE DEF SmmuInv
<1>1. /\ domain'.who = domain.who /\ domain'.op = domain.op /\ domain'.vm = domain.vm
      /\ domain'.gen = domain.gen /\ domain'.rest = domain.rest /\ domain'.pc = domain.pc + 1 /\ domain.pc \in Nat
  BY OnwardIs
<1>2. /\ This \in domain.rest /\ This \in Streams /\ This' = This
      /\ domain.op \in StreamOps => OwnerOf[This] = domain.vm
  BY <1>1, ThisIs DEF OperationKnown, RestKnown, This, StreamOps
<1>3. domain.vm \in Owners /\ domain.gen \in Nat
  BY DEF SmmuTypeOK, Operations
<1>4. /\ ste' \in [Streams -> Ste] /\ ste'[This].w0 = "abort" /\ ste'[This].root = ste[This].root
      /\ \A s \in Streams \ {This} : ste'[s] = ste[s]
  BY <1>2, Word0Changed DEF Word0
<1>5. SmmuTypeOK'
  BY <1>4, OnwardIs DEF SmmuTypeOK
<1>6. OperationKnown'
  BY <1>1 DEF OperationKnown, Inactive, BootOps, StreamOps
<1>7. RestKnown'
  BY <1>1 DEF RestKnown, This, Attached, BootOps, StreamOps
<1>8. PcKnown'
  BY <1>1 DEF PcKnown, This, Attached, BootOps, StreamOps
<1>9. RegistersKnown'
  BY <1>1 DEF RegistersKnown, BootOps, StreamOps
<1>10. TableKnown'
  BY <1>1, <1>2, <1>4 DEF TableKnown, Route, This, Attached, BootOps, StreamOps
<1>11. CacheKnown'
  BY <1>1 DEF CacheKnown, Stale, Route, This, Attached, BootOps, StreamOps
<1>12. InstallKnown'
  BY <1>1 DEF InstallKnown, Blank, This, BootOps, StreamOps
<1>13. AbortKnown'
  BY <1>1, <1>2, <1>4 DEF AbortKnown, Attached, BootOps, StreamOps
<1>14. TlbKnown'
  BY <1>1 DEF TlbKnown, Flushing, Route, This, Attached, StreamsOf, BootOps, StreamOps
<1>15. QueueKnown'
  BY <1>1 DEF QueueKnown, Waits, BootOps, StreamOps
<1> QED
  BY <1>5, <1>6, <1>7, <1>8, <1>9, <1>10, <1>11, <1>12, <1>13, <1>14, <1>15 DEF SmmuInv

\* What follows a section.
LEMMA AfterStream ==
  ASSUME SmmuTypeOK, domain.op \in StreamOps, domain' = AfterSection
  PROVE  /\ domain' \in Operations
         /\ domain'.who = domain.who /\ domain'.rest = domain.rest \ {This}
         /\ \/ domain.rest \ {This} = {} /\ domain'.op = "none" /\ domain' = Inactive(domain.who)
            \/ /\ domain.rest \ {This} # {}
               /\ domain'.op = domain.op /\ domain'.vm = domain.vm /\ domain'.gen = domain.gen /\ domain'.pc = 1
<1>1. domain' = Begin(domain.who, domain.op, domain.vm, domain.gen, domain.rest \ {This})
  BY DEF AfterSection, This, StreamOps
<1>2. /\ domain.op \in BootOps \cup StreamOps /\ domain.vm \in Owners /\ domain.gen \in Nat
      /\ domain.rest \ {This} \in SUBSET Streams /\ domain.who \in Threads \cup {Unlocked}
  BY DEF SmmuTypeOK, Operations
<1>3. CASE domain.rest \ {This} = {}
  <2>1. domain' = Inactive(domain.who)
    BY <1>1, <1>3 DEF Begin
  <2> QED
    BY <1>2, <1>3, <2>1, InactiveIs
<1>4. CASE domain.rest \ {This} # {}
  <2> DEFINE left == domain.rest \ {This}
             op   == domain.op
  <2>1. /\ domain' = Begin(domain.who, op, domain.vm, domain.gen, left) /\ left # {} /\ left \in SUBSET Streams
        /\ op \in BootOps \cup StreamOps
    BY <1>1, <1>2, <1>4
  <2> HIDE DEF left, op
  <2>2. /\ domain'.who = domain.who /\ domain'.op = op /\ domain'.vm = domain.vm
        /\ domain'.gen = domain.gen /\ domain'.rest = left /\ domain'.pc = 1
        /\ domain' \in Operations
    BY <2>1, <1>2, NextIs
  <2> QED
    BY <1>4, <2>2 DEF left, op
<1> QED
  BY <1>3, <1>4

LEMMA AfterBoot ==
  ASSUME SmmuTypeOK, OperationKnown, RestKnown, domain.op \in BootOps, domain' = AfterSection
  PROVE  /\ domain' \in Operations /\ domain'.who = domain.who /\ domain.who = "boot"
         /\ domain.op = "start" => domain'.op = "invalidate" /\ domain'.rest = Streams /\ domain'.pc = 1
         /\ domain.op = "invalidate" =>
              \/ /\ domain'.op = "invalidate" /\ domain'.pc = 1
                 /\ domain'.rest = domain.rest \ Batch(domain.rest) /\ domain'.rest # {}
              \/ /\ domain'.op = "enable" /\ domain'.rest = Streams /\ domain'.pc = 1
                 /\ domain.rest \subseteq Batch(domain.rest)
         /\ domain.op = "enable" => domain'.op = "none" /\ domain' = Inactive("boot")
<1>1. domain.who = "boot" /\ "boot" \in Threads \cup {Unlocked} /\ NoVm \in Owners /\ Streams # {}
  BY SmmuAssumption DEF OperationKnown, Threads, Owners, Streams
<1>2. domain.rest \in SUBSET Streams
  BY DEF SmmuTypeOK, Operations
<1>3. CASE domain.op = "start"
  <2>1. domain' = Begin("boot", "invalidate", NoVm, 0, Streams)
    BY <1>1, <1>3 DEF AfterSection
  <2> QED
    BY <1>1, <1>3, <2>1, NextIs DEF BootOps
<1>4. CASE domain.op = "invalidate"
  <2>1. CASE domain.rest \ Batch(domain.rest) # {}
    <3> DEFINE left == domain.rest \ Batch(domain.rest)
    <3>1. domain' = Begin("boot", "invalidate", NoVm, 0, left)
      BY <1>1, <1>4, <2>1 DEF AfterSection
    <3>2. left \in SUBSET Streams /\ left # {}
      BY <1>2, <2>1
    <3> HIDE DEF left
    <3>3. domain'.who = "boot" /\ domain'.op = "invalidate" /\ domain'.rest = left /\ domain'.pc = 1
          /\ domain' \in Operations
      BY <1>1, <3>1, <3>2, NextIs DEF BootOps
    <3> QED
      BY <1>1, <1>4, <2>1, <3>3 DEF left
  <2>2. CASE domain.rest \ Batch(domain.rest) = {}
    <3>1. domain' = Begin("boot", "enable", NoVm, 0, Streams)
      BY <1>1, <1>4, <2>2 DEF AfterSection
    <3> QED
      BY <1>1, <1>4, <2>2, <3>1, NextIs DEF BootOps
  <2> QED
    BY <2>1, <2>2
<1>5. CASE domain.op = "enable"
  <2>1. domain' = Inactive("boot")
    BY <1>1, <1>5 DEF AfterSection
  <2> QED
    BY <1>1, <1>5, <2>1, InactiveIs
<1> QED
  BY <1>3, <1>4, <1>5 DEF BootOps

\* The command queue goes on, and the caches are to be invalidated.
LEMMA CommandsOn ==
  ASSUME SmmuInv, domain.op = "start", domain.pc = 4, domain' = AfterSection,
         cr0' = {"cmdq"}, UNCHANGED <<gbpa, ste, cfg, tlb, cmdq, binding>>
  PROVE  SmmuInv'
<1> USE DEF SmmuInv
<1>1. /\ domain' \in Operations /\ domain'.who = "boot" /\ domain.who = "boot"
      /\ domain'.op = "invalidate" /\ domain'.rest = Streams /\ domain'.pc = 1
  BY AfterBoot DEF BootOps
<1>2. Streams = 1..StreamCount /\ 1 \in Streams /\ First(Streams) = 1 /\ Streams # {}
  <2>1. Streams = 1..StreamCount /\ 1 \in Streams
    BY SmmuAssumption DEF Streams
  <2> QED
    BY <2>1, BatchIs
<1>3. SmmuTypeOK'
  BY <1>1 DEF SmmuTypeOK, Enables
<1>4. OperationKnown'
  BY <1>1, <1>2, DmaAssumption DEF OperationKnown, BootOps, StreamOps
<1>5. RestKnown'
  BY <1>1, <1>2 DEF RestKnown, This, BootOps, StreamOps
<1>6. PcKnown'
  BY <1>1 DEF PcKnown, This, Attached, BootOps, StreamOps
<1>7. RegistersKnown'
  BY <1>1 DEF RegistersKnown, BootOps, StreamOps
<1>8. TableKnown'
  BY <1>1 DEF TableKnown, Route, This, Attached, BootOps, StreamOps
<1>9. CacheKnown'
  BY <1>1 DEF CacheKnown, Stale
<1>10. InstallKnown'
  BY <1>1 DEF InstallKnown, Blank, This, BootOps, StreamOps
<1>11. AbortKnown'
  BY <1>1 DEF AbortKnown, OthersOnly, This, Attached, StreamsOf, BootOps, StreamOps
<1>12. TlbKnown'
  BY <1>1 DEF TlbKnown, Flushing, Route, This, Attached, StreamsOf, BootOps, StreamOps
<1>13. QueueKnown'
  BY <1>1 DEF QueueKnown, Waits, BootOps, StreamOps
<1> QED
  BY <1>3, <1>4, <1>5, <1>6, <1>7, <1>8, <1>9, <1>10, <1>11, <1>12, <1>13 DEF SmmuInv

\* A batch of invalidations has been consumed.
LEMMA BatchConsumed ==
  ASSUME SmmuInv, domain.op = "invalidate", domain.pc = 3, cmdq = <<>>, domain' = AfterSection,
         UNCHANGED <<gbpa, cr0, ste, cfg, tlb, cmdq, binding>>
  PROVE  SmmuInv'
<1> USE DEF SmmuInv
<1>1. /\ domain' \in Operations /\ domain'.who = "boot" /\ domain.who = "boot"
      /\ \/ /\ domain'.op = "invalidate" /\ domain'.pc = 1
            /\ domain'.rest = domain.rest \ Batch(domain.rest) /\ domain'.rest # {}
         \/ /\ domain'.op = "enable" /\ domain'.rest = Streams /\ domain'.pc = 1
            /\ domain.rest \subseteq Batch(domain.rest)
  BY AfterBoot DEF BootOps
<1>2. This \in Streams /\ domain.rest = This..StreamCount /\ Streams # {}
  BY ThisIs DEF OperationKnown, RestKnown
<1>3. /\ domain.rest \ Batch(domain.rest) = (BatchEnd(domain.rest) + 1)..StreamCount
      /\ domain.rest \ Batch(domain.rest) # {} => First(domain.rest \ Batch(domain.rest)) = BatchEnd(domain.rest) + 1
  BY <1>2, BatchIs
<1>4. \A s \in Batch(domain.rest) : ~Queued(MakeCfgiSte(s))
  BY DEF Queued
<1>5. \A s \in Streams : Stale(s) => s \in domain.rest \ Batch(domain.rest)
  BY <1>4 DEF Stale
<1>6. SmmuTypeOK'
  BY <1>1 DEF SmmuTypeOK
<1>7. OperationKnown'
  BY <1>1, <1>2, DmaAssumption DEF OperationKnown, BootOps, StreamOps
<1>8. RestKnown'
  BY <1>1, <1>2, <1>3 DEF RestKnown, This, BootOps, StreamOps
<1>9. PcKnown'
  BY <1>1 DEF PcKnown, This, Attached, BootOps, StreamOps
<1>10. RegistersKnown'
  BY <1>1 DEF RegistersKnown, BootOps, StreamOps
<1>11. TableKnown'
  BY <1>1 DEF TableKnown, Route, Attached
<1>12. CacheKnown'
  BY <1>1, <1>5 DEF CacheKnown, Stale, Route, Attached
<1>13. InstallKnown'
  BY <1>1 DEF InstallKnown, Blank, This, BootOps, StreamOps
<1>14. AbortKnown'
  BY <1>1 DEF AbortKnown, OthersOnly, This, Attached, StreamsOf, BootOps, StreamOps
<1>15. TlbKnown'
  BY <1>1 DEF TlbKnown, Flushing, Route, This, Attached, StreamsOf, BootOps, StreamOps
<1>16. QueueKnown'
  BY <1>1 DEF QueueKnown, Waits, BootOps, StreamOps
<1> QED
  BY <1>6, <1>7, <1>8, <1>9, <1>10, <1>11, <1>12, <1>13, <1>14, <1>15, <1>16 DEF SmmuInv

\* Translation goes on, and the bring-up ends.
LEMMA TranslationOn ==
  ASSUME SmmuInv, domain.op = "enable", domain.pc = 5, domain' = AfterSection,
         cr0' = Enables, UNCHANGED <<gbpa, ste, cfg, tlb, cmdq, binding>>
  PROVE  SmmuInv'
<1> USE DEF SmmuInv
<1>1. /\ domain' \in Operations /\ domain'.who = "boot" /\ domain' = Inactive(domain'.who)
      /\ domain'.op = "none" /\ domain'.rest = {} /\ domain'.pc = 0
  <2>1. domain' \in Operations /\ domain'.who = "boot" /\ domain' = Inactive("boot")
    BY AfterBoot DEF BootOps
  <2> QED
    BY <2>1 DEF Inactive
<1>2. SmmuTypeOK'
  BY <1>1 DEF SmmuTypeOK, Enables
<1>3. OperationKnown'
  BY <1>1 DEF OperationKnown, Inactive, BootOps, StreamOps
<1>4. RestKnown'
  BY <1>1 DEF RestKnown, This, Attached, BootOps, StreamOps
<1>5. PcKnown'
  BY <1>1 DEF PcKnown, This, Attached, BootOps, StreamOps
<1>6. RegistersKnown'
  BY <1>1 DEF RegistersKnown, BootOps, StreamOps
<1>7. TableKnown'
  BY <1>1 DEF TableKnown, Route, This, Attached, BootOps, StreamOps
<1>8. CacheKnown'
  BY <1>1 DEF CacheKnown, Stale, Route, This, Attached, BootOps, StreamOps
<1>9. InstallKnown'
  BY <1>1 DEF InstallKnown, Blank, This, BootOps, StreamOps
<1>10. AbortKnown'
  BY <1>1 DEF AbortKnown, OthersOnly, This, Attached, StreamsOf, BootOps, StreamOps
<1>11. TlbKnown'
  BY <1>1 DEF TlbKnown, Flushing, Route, This, Attached, StreamsOf, BootOps, StreamOps
<1>12. QueueKnown'
  BY <1>1 DEF QueueKnown, Waits, BootOps, StreamOps
<1> QED
  BY <1>2, <1>3, <1>4, <1>5, <1>6, <1>7, <1>8, <1>9, <1>10, <1>11, <1>12 DEF SmmuInv

\* The stream is attached.
LEMMA Bound ==
  ASSUME SmmuInv, domain.op = "attach", domain.pc = 10, domain' = AfterSection,
         binding' = [binding EXCEPT ![This] = [state |-> "Attached", generation |-> domain.gen]],
         UNCHANGED <<gbpa, cr0, ste, cfg, tlb, cmdq>>
  PROVE  SmmuInv'
<1> USE DEF SmmuInv
<1>1. /\ domain' \in Operations
      /\ domain'.who = domain.who /\ domain'.rest = domain.rest \ {This}
      /\ \/ domain.rest \ {This} = {} /\ domain'.op = "none" /\ domain' = Inactive(domain.who)
         \/ /\ domain.rest \ {This} # {}
            /\ domain'.op = domain.op /\ domain'.vm = domain.vm /\ domain'.gen = domain.gen /\ domain'.pc = 1
  BY AfterStream DEF StreamOps
<1>2. This \in domain.rest /\ This \in Streams /\ domain.vm = OwnerOf[This] /\ domain.gen \in Nat
  BY ThisIs DEF OperationKnown, RestKnown, SmmuTypeOK, Operations, StreamOps
<1>3. /\ binding' \in [Streams -> [state : Bindings, generation : Nat]]
      /\ \A s \in Streams \ {This} : binding'[s] = binding[s]
      /\ binding'[This].state = "Attached"
  BY <1>2 DEF SmmuTypeOK, Bindings
<1>4. SmmuTypeOK'
  BY <1>1, <1>3 DEF SmmuTypeOK
<1>5. OperationKnown'
  BY <1>1 DEF OperationKnown, BootOps, StreamOps
<1>6. RestKnown'
  BY <1>1, <1>2, <1>3 DEF RestKnown, Attached, StreamsOf, BootOps, StreamOps
<1>7. PcKnown'
  BY <1>1 DEF PcKnown, BootOps, StreamOps
<1>8. RegistersKnown'
  BY <1>1 DEF RegistersKnown, BootOps, StreamOps
<1>9. TableKnown'
  BY <1>1, <1>2, <1>3 DEF TableKnown, Route, Attached, BootOps, StreamOps
<1>10. CacheKnown'
  BY <1>1, <1>2, <1>3 DEF CacheKnown, Stale, Route, Attached, BootOps, StreamOps
<1>11. InstallKnown'
  BY <1>1 DEF InstallKnown, BootOps, StreamOps
<1>12. AbortKnown'
  BY <1>1 DEF AbortKnown, BootOps, StreamOps
<1>13. TlbKnown'
  BY <1>1, <1>2, <1>3 DEF TlbKnown, Flushing, Route, Attached, StreamsOf, BootOps, StreamOps
<1>14. QueueKnown'
  BY <1>1 DEF QueueKnown, Waits, BootOps, StreamOps
<1> QED
  BY <1>4, <1>5, <1>6, <1>7, <1>8, <1>9, <1>10, <1>11, <1>12, <1>13, <1>14 DEF SmmuInv

\* The stream is detached or quarantined.
LEMMA Dropped ==
  ASSUME SmmuInv, NEW state \in {"Detached", "Quarantined"}, domain.op \in {"detach", "quarantine"},
         Attached(This) => domain.pc = 5, domain' = AfterSection,
         binding' = [binding EXCEPT ![This] = [state |-> state, generation |-> binding[This].generation]],
         UNCHANGED <<gbpa, cr0, ste, cfg, tlb, cmdq>>
  PROVE  SmmuInv'
<1> USE DEF SmmuInv
<1>1. /\ domain' \in Operations
      /\ domain'.who = domain.who /\ domain'.rest = domain.rest \ {This}
      /\ \/ domain.rest \ {This} = {} /\ domain'.op = "none" /\ domain' = Inactive(domain.who)
         \/ /\ domain.rest \ {This} # {}
            /\ domain'.op = domain.op /\ domain'.vm = domain.vm /\ domain'.gen = domain.gen /\ domain'.pc = 1
  BY AfterStream DEF StreamOps
<1>2. This \in domain.rest /\ This \in Streams /\ domain.vm = OwnerOf[This] /\ domain.gen \in Nat
  BY ThisIs DEF OperationKnown, RestKnown, SmmuTypeOK, Operations, StreamOps
<1>3. binding[This] \in [state : Bindings, generation : Nat]
  BY <1>2 DEF SmmuTypeOK
<1>4. /\ binding' \in [Streams -> [state : Bindings, generation : Nat]]
      /\ \A s \in Streams \ {This} : binding'[s] = binding[s]
      /\ binding'[This].state # "Attached"
  BY <1>2, <1>3 DEF SmmuTypeOK, Bindings
<1>5. ste[This].w0 # "stage2" /\ cfg[This].w0 # "stage2" /\ cmdq = <<>>
  BY <1>2 DEF AbortKnown, TableKnown, CacheKnown, Stale, Route, PcKnown, QueueKnown, Waits, StreamOps, Attached
<1>6. \A v \in tlb \cap Vms : \E s \in StreamsOf(v) \ {This} : binding[s].state = "Attached" /\ OwnerOf[s] \in Vms
  <2> SUFFICES ASSUME NEW v \in tlb \cap Vms
               PROVE  \E s \in StreamsOf(v) \ {This} : binding[s].state = "Attached" /\ OwnerOf[s] \in Vms
    OBVIOUS
  <2>1. PICK s \in StreamsOf(v) : Attached(s) /\ OwnerOf[s] \in Vms
    BY DEF TlbKnown, Flushing, Route
  <2>2. CASE s # This
    BY <2>1, <2>2 DEF Attached
  <2>3. CASE s = This
    <3>1. Attached(This) /\ domain.vm = v
      BY <1>2, <2>1, <2>3 DEF StreamsOf
    <3>2. OthersOnly
      BY <3>1 DEF AbortKnown
    <3> QED
      BY <3>1, <3>2 DEF OthersOnly, StreamsOf, Attached
  <2> QED
    BY <2>2, <2>3
<1>7. SmmuTypeOK'
  BY <1>1, <1>4 DEF SmmuTypeOK
<1>8. OperationKnown'
  BY <1>1 DEF OperationKnown, BootOps, StreamOps
<1>9. RestKnown'
  BY <1>1, <1>2, <1>4 DEF RestKnown, Attached, StreamsOf, BootOps, StreamOps
<1>10. PcKnown'
  BY <1>1 DEF PcKnown, BootOps, StreamOps
<1>11. RegistersKnown'
  BY <1>1 DEF RegistersKnown, BootOps, StreamOps
<1>12. TableKnown'
  BY <1>1, <1>2, <1>4, <1>5 DEF TableKnown, Route, Attached, BootOps, StreamOps
<1>13. CacheKnown'
  BY <1>1, <1>2, <1>4, <1>5 DEF CacheKnown, Stale, Route, Attached, BootOps, StreamOps
<1>14. InstallKnown'
  BY <1>1 DEF InstallKnown, BootOps, StreamOps
<1>15. AbortKnown'
  BY <1>1 DEF AbortKnown, BootOps, StreamOps
<1>16. TlbKnown'
  BY <1>1, <1>4, <1>6 DEF TlbKnown, Flushing, Route, Attached, StreamsOf, BootOps, StreamOps
<1>17. QueueKnown'
  BY <1>1, <1>5 DEF QueueKnown, Waits, BootOps, StreamOps
<1> QED
  BY <1>7, <1>8, <1>9, <1>10, <1>11, <1>12, <1>13, <1>14, <1>15, <1>16, <1>17 DEF SmmuInv

-----------------------------------------------------------------------------
(* The driver's steps preserve the invariant of the SMMU.                  *)

Stays == UNCHANGED <<gbpa, cr0, ste, cfg, tlb, cmdq, binding, domain>>

LEMMA StaysKnown == ASSUME SmmuInv, Stays PROVE SmmuInv'
<1>1. SmmuTypeOK' /\ OperationKnown' /\ RestKnown' /\ PcKnown' /\ RegistersKnown'
  BY DEF Stays, SmmuInv, SmmuTypeOK, OperationKnown, RestKnown, PcKnown, RegistersKnown, This, Attached
<1>2. TableKnown' /\ CacheKnown' /\ InstallKnown' /\ AbortKnown'
  <2>1. \A s \in Streams : Stale(s)' <=> Stale(s)
    BY DEF Stays, Stale, Queued, Batch, BatchEnd
  <2>2. \A s \in Streams : Route(s)' <=> Route(s)
    BY DEF Stays, Route, Attached, This
  <2>3. TableKnown' /\ CacheKnown'
    BY <2>1, <2>2 DEF Stays, SmmuInv, TableKnown, CacheKnown
  <2> QED
    BY <2>3 DEF Stays, SmmuInv, InstallKnown, AbortKnown, OthersOnly, Blank, Attached, This
<1>3. TlbKnown' /\ QueueKnown'
  BY DEF Stays, SmmuInv, TlbKnown, Flushing, Route, Attached, This, QueueKnown, Waits
<1> QED
  BY <1>1, <1>2, <1>3 DEF SmmuInv

LEMMA HaltStays == ASSUME Halt PROVE Stays
BY DEF Halt, Stays, device

LEMMA IdleEffect ==
  ASSUME NEW next, WaitIdle(<<"idle">>, next)
  PROVE  Stays \/ (cmdq = <<>> /\ domain' = next /\ UNCHANGED <<gbpa, cr0, ste, cfg, tlb, cmdq, binding>>)
BY HaltStays DEF WaitIdle, device

LEMMA PushEffect ==
  ASSUME NEW next, NEW cmds \in Seq(Commands), cmdq = <<>>, Push(<<"push", cmds>>, next)
  PROVE  Stays \/ (cmdq' = cmds /\ domain' = next /\ UNCHANGED <<gbpa, cr0, ste, cfg, tlb, binding>>)
<1>1. <<>> \o cmds = cmds
  BY ConcatEmptySeq
<1> QED
  BY <1>1, HaltStays DEF Push, device

LEMMA GbpaEffect ==
  ASSUME NEW next, WriteGbpa(<<"gbpa">>, next)
  PROVE  Stays \/ (gbpa' = "abort" /\ domain' = next /\ UNCHANGED <<cr0, ste, cfg, tlb, cmdq, binding>>)
BY HaltStays DEF WriteGbpa

LEMMA Cr0Effect ==
  ASSUME NEW next, NEW on, WriteCr0(<<"cr0", on>>, next)
  PROVE  Stays \/ (cr0' = on /\ domain' = next /\ UNCHANGED <<gbpa, ste, cfg, tlb, cmdq, binding>>)
BY HaltStays DEF WriteCr0

LEMMA Word0Effect ==
  ASSUME NEW next, NEW s, NEW w, WriteWord0(<<"w0", s, w>>, next)
  PROVE  ste' = [ste EXCEPT ![s].w0 = w] /\ domain' = next /\ UNCHANGED <<gbpa, cr0, cfg, tlb, cmdq, binding>>
BY DEF WriteWord0, device

LEMMA BindEffect ==
  ASSUME NEW next, NEW s, NEW state, NEW gen, Bind(<<"bind", s, state, gen>>, next)
  PROVE  /\ binding' = [binding EXCEPT ![s] = [state |-> state, generation |-> gen]] /\ domain' = next
         /\ UNCHANGED <<gbpa, cr0, ste, cfg, tlb, cmdq>>
BY DEF Bind, device

LEMMA DomainStepKnown ==
  ASSUME SmmuInv, DomainStep
  PROVE  SmmuInv'
<1>1. SmmuTypeOK /\ OperationKnown /\ RestKnown /\ PcKnown /\ QueueKnown
  BY DEF SmmuInv
<1>2. /\ domain.op \in BootOps \cup StreamOps
      /\ domain.rest # {} /\ domain.vm \in Owners
  BY <1>1 DEF DomainStep, OperationKnown, SmmuTypeOK, Operations
<1>3. This \in Streams /\ Streams # {}
  BY <1>1, <1>2, ThisIs
<1>4. ASSUME domain.op = "start" PROVE SmmuInv'
  <2>1. domain.pc \in 1..4
    BY <1>1, <1>4 DEF PcKnown
  <2>2. CASE domain.pc = 1 /\ WriteGbpa(<<"gbpa">>, Onward)
    BY <1>4, <2>2, GbpaEffect, Closed, StaysKnown
  <2>3. CASE domain.pc = 2 /\ WriteCr0(<<"cr0", {}>>, Onward)
    BY <1>4, <2>3, Cr0Effect, TurnedOff, StaysKnown
  <2>4. CASE domain.pc = 3 /\ BuildTables(<<"tables">>, Onward)
    <3>1. /\ ste' = [x \in Streams |-> IF Configured(x) THEN MakeAbortSte ELSE Zero]
          /\ binding' = [x \in Streams |-> [state |-> "Detached", generation |-> 0]]
          /\ cmdq' = <<>> /\ domain' = Onward /\ UNCHANGED <<gbpa, cr0, cfg, tlb>>
      BY <2>4 DEF BuildTables, device
    <3> QED
      BY <1>4, <2>4, <3>1, Built
  <2>5. CASE domain.pc = 4 /\ WriteCr0(<<"cr0", {"cmdq"}>>, AfterSection)
    BY <1>4, <2>5, Cr0Effect, CommandsOn, StaysKnown
  <2> QED
    BY <1>4, <2>1, <2>2, <2>3, <2>4, <2>5, StartMoves
<1>5. ASSUME domain.op = "invalidate" PROVE SmmuInv'
  <2>1. domain.pc \in 1..3
    BY <1>1, <1>5 DEF PcKnown
  <2>2. CASE domain.pc = 1 /\ WaitIdle(<<"idle">>, Onward)
    BY <1>5, <2>2, IdleEffect, Idled, StaysKnown
  <2>3. CASE domain.pc = 2 /\ Push(<<"push", Append(CfgiBatch(domain.rest), MakeSync)>>, Onward)
    <3> DEFINE batch == Append(CfgiBatch(domain.rest), MakeSync)
    <3>1. batch \in Seq(Commands)
      BY <1>1, <1>3, <1>5, BatchIs DEF RestKnown
    <3>2. cmdq = <<>>
      BY <1>1, <1>5, <2>3 DEF QueueKnown, Waits, StreamOps
    <3>3. Push(<<"push", batch>>, Onward)
      BY <2>3
    <3>4. cmdq' = batch => cmdq' = Append(CfgiBatch(domain.rest), MakeSync)
      OBVIOUS
    <3> HIDE DEF batch
    <3>5. Stays \/ (cmdq' = batch /\ domain' = Onward /\ UNCHANGED <<gbpa, cr0, ste, cfg, tlb, binding>>)
      BY <3>1, <3>2, <3>3, PushEffect
    <3> QED
      BY <1>5, <2>3, <3>4, <3>5, BatchPushed, StaysKnown
  <2>4. CASE domain.pc = 3 /\ WaitIdle(<<"idle">>, AfterSection)
    BY <1>5, <2>4, IdleEffect, BatchConsumed, StaysKnown
  <2> QED
    BY <1>5, <2>1, <2>2, <2>3, <2>4, InvalidateMoves
<1>6. ASSUME domain.op = "enable" PROVE SmmuInv'
  <2>1. domain.pc \in 1..5
    BY <1>1, <1>6 DEF PcKnown
  <2>2. CASE domain.pc \in {1, 3} /\ WaitIdle(<<"idle">>, Onward)
    BY <1>6, <2>2, IdleEffect, Idled, StaysKnown
  <2>3. CASE domain.pc = 2 /\ Push(<<"push", <<MakeTlbiAll, MakeSync>> >>, Onward)
    <3>1. cmdq = <<>>
      BY <1>1, <1>6, <2>3 DEF QueueKnown, Waits, StreamOps
    <3>2. <<MakeTlbiAll, MakeSync>> \in Seq(Commands)
      BY <1>2, <1>3, CommandsTyped
    <3> QED
      BY <1>6, <2>3, <3>1, <3>2, PushEffect, FlushPushed, StaysKnown
  <2>4. CASE domain.pc = 4 /\ WriteCr0(<<"cr0", {"cmdq", "evtq"}>>, Onward)
    BY <1>6, <2>4, Cr0Effect, EventsOn, StaysKnown
  <2>5. CASE domain.pc = 5 /\ WriteCr0(<<"cr0", Enables>>, AfterSection)
    BY <1>6, <2>5, Cr0Effect, TranslationOn, StaysKnown
  <2> QED
    BY <1>6, <2>1, <2>2, <2>3, <2>4, <2>5, EnableMoves
<1>7. ASSUME domain.op = "attach" PROVE SmmuInv'
  <2>1. domain.pc \in 1..10
    BY <1>1, <1>7 DEF PcKnown
  <2>2. CASE domain.pc = 1 /\ WriteWord0(<<"w0", This, "invalid">>, Onward)
    BY <1>7, <2>2, Word0Effect, EntryInvalid
  <2>3. CASE domain.pc \in {2, 4, 7, 9} /\ WaitIdle(<<"idle">>, Onward)
    BY <1>7, <2>3, IdleEffect, Idled, StaysKnown
  <2>4. CASE domain.pc = 3 /\ Push(<<"push", <<MakeCfgiSte(This), MakeSync>> >>, Onward)
    <3>1. cmdq = <<>>
      BY <1>1, <1>7, <2>4 DEF QueueKnown, Waits, StreamOps
    <3>2. <<MakeCfgiSte(This), MakeSync>> \in Seq(Commands)
      BY <1>2, <1>3, CommandsTyped
    <3> QED
      BY <1>7, <2>4, <3>1, <3>2, PushEffect, EntryPushed, StaysKnown
  <2>5. CASE domain.pc = 5 /\ WriteBody(<<"body", This, domain.vm, domain.gen>>, Onward)
    <3>1. /\ ste' = [ste EXCEPT ![This].root = domain.vm, ![This].gen = domain.gen] /\ domain' = Onward
          /\ UNCHANGED <<gbpa, cr0, cfg, tlb, cmdq, binding>>
      BY <2>5 DEF WriteBody, device
    <3> QED
      BY <1>7, <2>5, <3>1, BodyWritten
  <2>6. CASE domain.pc = 6 /\ WriteWord0(<<"w0", This, "stage2">>, Onward)
    BY <1>7, <2>6, Word0Effect, EntryValid
  <2>7. CASE domain.pc = 8 /\ Push(<<"push", EntryCommands(This, domain.vm)>>, Onward)
    <3>1. cmdq = <<>>
      BY <1>1, <1>7, <2>7 DEF QueueKnown, Waits, StreamOps
    <3>2. EntryCommands(This, domain.vm) \in Seq(Commands)
      BY <1>2, <1>3, CommandsTyped
    <3> QED
      BY <1>7, <2>7, <3>1, <3>2, PushEffect, ContextPushed, StaysKnown
  <2>8. CASE domain.pc = 10 /\ Bind(<<"bind", This, "Attached", domain.gen>>, AfterSection)
    BY <1>7, <2>8, BindEffect, Bound
  <2> QED
    BY <1>7, <2>1, <2>2, <2>3, <2>4, <2>5, <2>6, <2>7, <2>8, AttachMoves
<1>8. ASSUME NEW state \in {"Detached", "Quarantined"}, domain.op \in {"detach", "quarantine"}, domain.pc \in 1..5,
             Attached(This),
             \/ domain.pc = 1 /\ WriteWord0(<<"w0", This, "abort">>, Onward)
             \/ domain.pc = 2 /\ WaitIdle(<<"idle">>, Onward)
             \/ domain.pc = 3 /\ Push(<<"push", EntryCommands(This, domain.vm)>>, Onward)
             \/ domain.pc = 4 /\ WaitIdle(<<"idle">>, Onward)
             \/ domain.pc = 5 /\ Bind(<<"bind", This, state, binding[This].generation>>, AfterSection)
      PROVE  SmmuInv'
  <2>1. CASE domain.pc = 1 /\ WriteWord0(<<"w0", This, "abort">>, Onward)
    BY <1>8, <2>1, Word0Effect, EntryAborts
  <2>2. CASE domain.pc \in {2, 4} /\ WaitIdle(<<"idle">>, Onward)
    BY <1>8, <2>2, IdleEffect, Idled, StaysKnown
  <2>3. CASE domain.pc = 3 /\ Push(<<"push", EntryCommands(This, domain.vm)>>, Onward)
    <3>1. cmdq = <<>>
      BY <1>1, <1>8, <2>3 DEF QueueKnown, Waits, StreamOps
    <3>2. EntryCommands(This, domain.vm) \in Seq(Commands)
      BY <1>2, <1>3, CommandsTyped
    <3> QED
      BY <1>8, <2>3, <3>1, <3>2, PushEffect, ContextPushed, StaysKnown
  <2>4. CASE domain.pc = 5 /\ Bind(<<"bind", This, state, binding[This].generation>>, AfterSection)
    BY <1>8, <2>4, BindEffect, Dropped
  <2> QED
    BY <1>8, <2>1, <2>2, <2>3, <2>4
<1>9. ASSUME domain.op = "detach" PROVE SmmuInv'
  <2>1. Attached(This) /\ domain.pc \in 1..5
    BY <1>1, <1>2, <1>9, ThisIs DEF PcKnown, RestKnown, StreamOps, StreamsOf
  <2> QED
    BY <1>8, <1>9, <2>1, DetachMoves
<1>10. ASSUME domain.op = "quarantine" PROVE SmmuInv'
  <2>1. CASE Attached(This)
    <3>1. domain.pc \in 1..5
      BY <1>1, <1>10, <2>1 DEF PcKnown
    <3> QED
      BY <1>8, <1>10, <2>1, <3>1, LeaveMoves DEF Attached
  <2>2. CASE ~Attached(This)
    <3>1. domain.pc = 1
      BY <1>1, <1>10, <2>2 DEF PcKnown
    <3>2. Bind(<<"bind", This, "Quarantined", binding[This].generation>>, AfterSection)
      BY <1>10, <2>2, <3>1, MarkMoves DEF Attached
    <3>3. /\ binding' = [binding EXCEPT ![This] = [state |-> "Quarantined", generation |-> binding[This].generation]]
          /\ domain' = AfterSection /\ UNCHANGED <<gbpa, cr0, ste, cfg, tlb, cmdq>>
      BY <3>2, BindEffect
    <3> QED
      BY <1>10, <2>2, <3>3, Dropped
  <2> QED
    BY <2>1, <2>2
<1> QED
  BY <1>2, <1>4, <1>5, <1>6, <1>7, <1>9, <1>10 DEF BootOps, StreamOps

-----------------------------------------------------------------------------
(* The hardware preserves it.                                              *)

LEMMA TailOf ==
  ASSUME NEW a, NEW b, NEW c
  PROVE  /\ Head(<<a>>) = a /\ Tail(<<a>>) = <<>>
         /\ Head(<<a, b>>) = a /\ Tail(<<a, b>>) = <<b>>
         /\ Head(<<a, b, c>>) = a /\ Tail(<<a, b, c>>) = <<b, c>>
<1> DEFINE S == {a, b, c}
<1>1. a \in S /\ b \in S /\ c \in S
  OBVIOUS
<1> HIDE DEF S
<1>2. Tail(<<a>>) = <<>>
  <2> DEFINE t == Tail(<<a>>)
  <2>1. t \in Seq(S) /\ Len(t) = 0
    BY <1>1
  <2> HIDE DEF t
  <2>2. t = <<>>
    BY <2>1, EmptySeq
  <2> QED
    BY <2>2 DEF t
<1>3. Tail(<<a, b>>) = <<b>>
  <2> DEFINE t == Tail(<<a, b>>)
             u == <<b>>
  <2>1. t \in Seq(S) /\ Len(t) = 1 /\ t[1] = b
    BY <1>1
  <2>2. u \in Seq(S) /\ Len(u) = 1 /\ u[1] = b
    BY <1>1
  <2>3. \A i \in 1..1 : i = 1
    OBVIOUS
  <2> HIDE DEF t, u
  <2>4. t = u
    BY <2>1, <2>2, <2>3, SeqEqual
  <2> QED
    BY <2>4 DEF t, u
<1>4. Tail(<<a, b, c>>) = <<b, c>>
  <2> DEFINE t == Tail(<<a, b, c>>)
             u == <<b, c>>
  <2>1. t \in Seq(S) /\ Len(t) = 2 /\ t[1] = b /\ t[2] = c
    BY <1>1
  <2>2. u \in Seq(S) /\ Len(u) = 2 /\ u[1] = b /\ u[2] = c
    BY <1>1
  <2>3. \A i \in 1..2 : i = 1 \/ i = 2
    OBVIOUS
  <2> HIDE DEF t, u
  <2>4. t = u
    BY <2>1, <2>2, <2>3, SeqEqual
  <2> QED
    BY <2>4 DEF t, u
<1>5. Head(<<a>>) = a /\ Head(<<a, b>>) = a /\ Head(<<a, b, c>>) = a
  OBVIOUS
<1> QED
  BY <1>2, <1>3, <1>4, <1>5

\* What a consumed command did.
LEMMA Consumed ==
  ASSUME SmmuTypeOK, HwConsume, NEW c, c = Head(cmdq)
  PROVE  \/ Stays
         \/ /\ cmdq # <<>> /\ cmdq' = Tail(cmdq) /\ c \in Commands
            /\ cfg' \in [Streams -> Ste \cup {NoEntry}]
            /\ tlb' \subseteq tlb
            /\ \A s \in Streams : cfg'[s] = IF c = MakeCfgiSte(s) THEN NoEntry ELSE cfg[s]
            /\ \A v : c = MakeTlbiVm(v) => v \notin tlb'
            /\ c = MakeTlbiAll => tlb' = {}
            /\ UNCHANGED <<gbpa, cr0, ste, binding, domain>>
<1>1. CASE cerr' = TRUE /\ UNCHANGED <<cfg, tlb, cmdq>>
  BY <1>1 DEF HwConsume, Stays
<1>2. CASE /\ cfg' = IF c[1] = "cfgi" THEN [cfg EXCEPT ![c[2]] = NoEntry] ELSE cfg
           /\ tlb' = CASE c[1] = "tlbi" -> tlb \ {c[2]}
                       [] c[1] = "tlbi_all" -> {}
                       [] OTHER -> tlb
           /\ cmdq' = Tail(cmdq)
  <2>1. cmdq # <<>> /\ cmdq \in Seq(Commands)
    BY DEF HwConsume, SmmuTypeOK
  <2>2. c \in Commands
    BY <2>1
  <2>3. UNCHANGED <<gbpa, cr0, ste, binding, domain>>
    BY DEF HwConsume
  <2>4. cfg \in [Streams -> Ste \cup {NoEntry}]
    BY DEF SmmuTypeOK
  <2>5. PICK kind \in 1..4 :
          \/ kind = 1 /\ \E s \in Streams : c = <<"cfgi", s>>
          \/ kind = 2 /\ \E v \in Owners : c = <<"tlbi", v>>
          \/ kind = 3 /\ c = <<"tlbi_all">>
          \/ kind = 4 /\ c = <<"sync">>
    BY <2>2 DEF Commands, MakeTlbiAll, MakeSync
  <2>6. CASE kind = 1
    <3>1. PICK s \in Streams : c = <<"cfgi", s>>
      BY <2>5, <2>6
    <3>2. cfg' = [cfg EXCEPT ![s] = NoEntry] /\ tlb' = tlb
      <4>1. c[1] = "cfgi" /\ c[2] = s
        BY <3>1
      <4>2. cfg' = [cfg EXCEPT ![c[2]] = NoEntry] /\ tlb' = tlb
        BY <1>2, <4>1
      <4> QED
        BY <4>1, <4>2
    <3>3. \A x \in Streams : c = MakeCfgiSte(x) <=> x = s
      BY <3>1 DEF MakeCfgiSte
    <3>4. c # MakeTlbiAll /\ \A v : c # MakeTlbiVm(v)
      BY <3>1 DEF MakeTlbiAll, MakeTlbiVm
    <3> QED
      BY <1>2, <2>1, <2>2, <2>3, <2>4, <3>2, <3>3, <3>4
  <2>7. CASE kind = 2
    <3>1. PICK v \in Owners : c = <<"tlbi", v>>
      BY <2>5, <2>7
    <3>2. cfg' = cfg /\ tlb' = tlb \ {v}
      BY <1>2, <3>1
    <3>3. \A x : c = MakeTlbiVm(x) <=> x = v
      BY <3>1 DEF MakeTlbiVm
    <3>4. c # MakeTlbiAll /\ \A s : c # MakeCfgiSte(s)
      BY <3>1 DEF MakeTlbiAll, MakeCfgiSte
    <3> QED
      BY <1>2, <2>1, <2>2, <2>3, <2>4, <3>2, <3>3, <3>4
  <2>8. CASE kind = 3
    <3>1. c = <<"tlbi_all">>
      BY <2>5, <2>8
    <3>2. cfg' = cfg /\ tlb' = {}
      BY <1>2, <3>1
    <3>3. \A x : c # MakeTlbiVm(x) /\ c # MakeCfgiSte(x)
      BY <3>1 DEF MakeTlbiVm, MakeCfgiSte
    <3> QED
      BY <1>2, <2>1, <2>2, <2>3, <2>4, <3>2, <3>3
  <2>9. CASE kind = 4
    <3>1. c = <<"sync">>
      BY <2>5, <2>9
    <3>2. cfg' = cfg /\ tlb' = tlb
      BY <1>2, <3>1
    <3>3. c # MakeTlbiAll /\ \A x : c # MakeTlbiVm(x) /\ c # MakeCfgiSte(x)
      BY <3>1 DEF MakeTlbiAll, MakeTlbiVm, MakeCfgiSte
    <3> QED
      BY <1>2, <2>1, <2>2, <2>3, <2>4, <3>2, <3>3
  <2> QED
    BY <2>5, <2>6, <2>7, <2>8, <2>9
<1> QED
  BY <1>1, <1>2 DEF HwConsume

LEMMA HwConsumeKnown ==
  ASSUME SmmuInv, HwConsume
  PROVE  SmmuInv'
<1>1. CASE Stays
  BY <1>1, StaysKnown
<1> DEFINE c == Head(cmdq)
<1>2. ASSUME /\ cmdq # <<>> /\ cmdq' = Tail(cmdq) /\ c \in Commands
             /\ cfg' \in [Streams -> Ste \cup {NoEntry}]
             /\ tlb' \subseteq tlb
             /\ \A s \in Streams : cfg'[s] = IF c = MakeCfgiSte(s) THEN NoEntry ELSE cfg[s]
             /\ \A v : c = MakeTlbiVm(v) => v \notin tlb'
             /\ c = MakeTlbiAll => tlb' = {}
             /\ UNCHANGED <<gbpa, cr0, ste, binding, domain>>
      PROVE  SmmuInv'
  <2> USE DEF SmmuInv
  <2>1. cmdq \in Seq(Commands) /\ cmdq' \in Seq(Commands) /\ Len(cmdq') = Len(cmdq) - 1
        /\ Len(cmdq) \in Nat /\ c = cmdq[1] /\ \A i \in 1..(Len(cmdq) - 1) : cmdq'[i] = cmdq[i + 1]
    BY <1>2 DEF SmmuTypeOK
  <2>2. NoEntry.w0 = "uncached" /\ This' = This
    BY <1>2 DEF NoEntry, This
  <2>3. Waits /\ Waits' 
    BY <1>2 DEF QueueKnown, Waits
  <2> HIDE DEF c
  <2>4. SmmuTypeOK'
    BY <1>2, <2>1 DEF SmmuTypeOK
  <2>5. OperationKnown' /\ RestKnown' /\ PcKnown' /\ RegistersKnown' /\ TableKnown'
    BY <1>2, <2>2 DEF OperationKnown, RestKnown, PcKnown, RegistersKnown, TableKnown, Route, Attached
  <2>6. CacheKnown'
    <3> SUFFICES ASSUME NEW s \in Streams, cfg'[s].w0 = "stage2"
                 PROVE  Stale(s)' \/ (cfg'[s].root = OwnerOf[s] /\ Route(s)')
      BY DEF CacheKnown
    <3>1. c # MakeCfgiSte(s) /\ cfg'[s] = cfg[s]
      BY <1>2, <2>2
    <3>2. Route(s)' <=> Route(s)
      BY <1>2, <2>2 DEF Route, Attached
    <3>3. Queued(MakeCfgiSte(s)) => Queued(MakeCfgiSte(s))'
      <4> SUFFICES ASSUME NEW i \in DOMAIN cmdq, cmdq[i] = MakeCfgiSte(s) PROVE Queued(MakeCfgiSte(s))'
        BY DEF Queued
      <4>1. i \in 1..Len(cmdq) /\ i # 1
        BY <2>1, <3>1
      <4>2. i - 1 \in 1..(Len(cmdq) - 1) /\ (i - 1) + 1 = i
        BY <2>1, <4>1
      <4>3. i - 1 \in DOMAIN cmdq' /\ cmdq'[i - 1] = MakeCfgiSte(s)
        BY <2>1, <4>2
      <4> QED
        BY <4>3 DEF Queued, MakeCfgiSte
    <3>4. Stale(s) => Stale(s)'
      BY <1>2, <3>3 DEF Stale, Batch, BatchEnd
    <3>5. Stale(s) \/ (cfg[s].root = OwnerOf[s] /\ Route(s))
      BY <3>1 DEF CacheKnown
    <3> QED
      BY <3>1, <3>2, <3>4, <3>5
  <2>7. InstallKnown'
    <3> SUFFICES ASSUME domain.op = "attach" PROVE InstallKnown'
      BY <1>2 DEF InstallKnown
    <3>1. This \in Streams
      BY ThisIs DEF OperationKnown
    <3>2. domain.pc \in {4, 9}
      BY <2>3 DEF Waits, StreamOps
    <3>3. CASE domain.pc = 4
      <4>1. Blank(This) => Blank(This)'
        BY <1>2, <2>2, <3>1 DEF Blank
      <4>2. CASE cmdq = <<MakeCfgiSte(This), MakeSync>>
        <5>1. c = MakeCfgiSte(This) /\ cmdq' = <<MakeSync>>
          BY <1>2, <4>2, TailOf DEF c
        <5>2. Blank(This)'
          BY <1>2, <2>2, <3>1, <5>1 DEF Blank
        <5> QED
          BY <1>2, <2>2, <3>3, <5>1, <5>2 DEF InstallKnown
      <4>3. CASE Blank(This) /\ cmdq = <<MakeSync>>
        <5>1. cmdq' = <<>>
          BY <1>2, <4>3, TailOf
        <5> QED
          BY <1>2, <2>2, <3>3, <4>1, <4>3, <5>1 DEF InstallKnown
      <4> QED
        BY <1>2, <3>3, <4>2, <4>3 DEF InstallKnown
    <3>4. CASE domain.pc = 9
      <4>1. cmdq' \in {<<MakeTlbiVm(domain.vm), MakeSync>>, <<MakeSync>>, <<>>}
        <5>1. CASE cmdq = <<MakeCfgiSte(This), MakeTlbiVm(domain.vm), MakeSync>>
          BY <1>2, <5>1, TailOf
        <5>2. CASE cmdq = <<MakeTlbiVm(domain.vm), MakeSync>>
          BY <1>2, <5>2, TailOf
        <5>3. CASE cmdq = <<MakeSync>>
          BY <1>2, <5>3, TailOf
        <5> QED
          BY <1>2, <3>4, <5>1, <5>2, <5>3 DEF InstallKnown
      <4> QED
        BY <1>2, <2>2, <3>4, <4>1 DEF InstallKnown
    <3> QED
      BY <3>2, <3>3, <3>4
  <2>8. AbortKnown'
    <3> SUFFICES ASSUME domain.op \in {"detach", "quarantine"} PROVE AbortKnown'
      BY <1>2 DEF AbortKnown
    <3>1. This \in Streams /\ domain.pc = 4
      BY <2>3, ThisIs DEF OperationKnown, Waits, StreamOps
    <3>2. cfg[This].w0 # "stage2" => cfg'[This].w0 # "stage2"
      BY <1>2, <2>2, <3>1
    <3>3. OthersOnly => OthersOnly'
      BY <1>2, <2>2 DEF OthersOnly, Attached
    <3>4. domain'.pc = 4 /\ This' = This /\ domain'.vm = domain.vm /\ ste'[This].w0 # "stage2"
      BY <1>2, <2>2, <3>1 DEF AbortKnown
    <3>5. CASE cmdq = <<MakeCfgiSte(This), MakeTlbiVm(domain.vm), MakeSync>>
      <4>1. c = MakeCfgiSte(This) /\ cmdq' = <<MakeTlbiVm(domain.vm), MakeSync>>
        BY <1>2, <3>5, TailOf DEF c
      <4>2. cfg'[This].w0 # "stage2"
        BY <1>2, <2>2, <3>1, <4>1
      <4> QED
        BY <3>4, <4>1, <4>2 DEF AbortKnown
    <3>6. CASE cfg[This].w0 # "stage2" /\ cmdq = <<MakeTlbiVm(domain.vm), MakeSync>>
      <4>1. c = MakeTlbiVm(domain.vm) /\ cmdq' = <<MakeSync>>
        BY <1>2, <3>6, TailOf DEF c
      <4>2. OthersOnly'
        BY <1>2, <4>1 DEF OthersOnly
      <4> QED
        BY <1>2, <2>2, <3>1, <3>2, <3>6, <4>1, <4>2 DEF AbortKnown
    <3>7. CASE cfg[This].w0 # "stage2" /\ OthersOnly /\ cmdq = <<MakeSync>>
      <4>1. cmdq' = <<>>
        BY <1>2, <3>7, TailOf
      <4> QED
        BY <1>2, <2>2, <3>1, <3>2, <3>3, <3>7, <4>1 DEF AbortKnown
    <3> QED
      BY <1>2, <3>1, <3>5, <3>6, <3>7 DEF AbortKnown
  <2>9. TlbKnown'
    <3>1. \A v \in tlb' \cap Vms :
            domain'.op \in {"start", "invalidate"} \/ Flushing' \/ \E s \in StreamsOf(v) : Route(s)'
      BY <1>2, <2>2 DEF TlbKnown, Flushing, Route, Attached
    <3>2. domain.op = "enable" /\ domain.pc = 3 =>
            tlb' = {} /\ cmdq' \in {<<MakeSync>>, <<>>}
      <4> SUFFICES ASSUME domain.op = "enable", domain.pc = 3
                   PROVE  tlb' = {} /\ cmdq' \in {<<MakeSync>>, <<>>}
        OBVIOUS
      <4>1. CASE cmdq = <<MakeTlbiAll, MakeSync>>
        BY <1>2, <4>1, TailOf DEF c
      <4>2. CASE tlb = {} /\ cmdq = <<MakeSync>>
        BY <1>2, <4>2, TailOf
      <4> QED
        BY <1>2, <4>1, <4>2 DEF TlbKnown
    <3>3. domain.op = "enable" => domain.pc = 3
      BY <2>3 DEF Waits, StreamOps
    <3> QED
      BY <1>2, <3>1, <3>2, <3>3 DEF TlbKnown
  <2>10. QueueKnown'
    BY <2>3 DEF QueueKnown
  <2> QED
    BY <2>4, <2>5, <2>6, <2>7, <2>8, <2>9, <2>10
<1>3. SmmuTypeOK
  BY DEF SmmuInv
<1> QED
  BY <1>1, <1>2, <1>3, Consumed

\* Translation is on only before the bring-up has shut it down, and after it.
LEMMA TranslationIsOn ==
  ASSUME SmmuInv, "smmu" \in cr0
  PROVE  domain.op \in {"start", "none"} \cup StreamOps /\ (domain.op = "start" => domain.pc \in {1, 2})
<1>1. domain.op \in BootOps \cup StreamOps \cup {"none"}
  BY DEF SmmuInv, SmmuTypeOK, Operations
<1>2. domain.op # "invalidate" /\ domain.op # "enable"
  BY DEF SmmuInv, RegistersKnown
<1>3. domain.op = "start" => domain.pc \in {1, 2}
  BY DEF SmmuInv, RegistersKnown, PcKnown
<1> QED
  BY <1>1, <1>2, <1>3 DEF BootOps

LEMMA HwFetchKnown ==
  ASSUME SmmuInv, NEW s \in Streams, HwFetch(s)
  PROVE  SmmuInv'
<1> USE DEF SmmuInv
<1>1. /\ cfg' = [cfg EXCEPT ![s] = ste[s]] /\ UNCHANGED <<gbpa, cr0, ste, tlb, cmdq, binding, domain>> /\ This' = This
  BY DEF HwFetch, This
<1>2. domain.op \in {"start", "none"} \cup StreamOps /\ (domain.op = "start" => domain.pc \in {1, 2})
  BY TranslationIsOn DEF HwFetch
<1>3. /\ cfg' \in [Streams -> Ste \cup {NoEntry}]
      /\ cfg'[s] = ste[s] /\ \A x \in Streams \ {s} : cfg'[x] = cfg[x]
  BY <1>1 DEF SmmuTypeOK
<1>4. SmmuTypeOK'
  BY <1>1, <1>3 DEF SmmuTypeOK
<1>5. OperationKnown' /\ RestKnown' /\ PcKnown' /\ RegistersKnown' /\ TableKnown' /\ QueueKnown'
  BY <1>1 DEF OperationKnown, RestKnown, PcKnown, RegistersKnown, TableKnown, Route, Attached, QueueKnown, Waits
<1>6. CacheKnown'
  BY <1>1, <1>2, <1>3 DEF CacheKnown, TableKnown, Stale, Route, Attached, StreamOps
<1>7. InstallKnown'
  <2> SUFFICES ASSUME domain.op = "attach" PROVE InstallKnown'
    BY <1>1 DEF InstallKnown
  <2>1. This \in Streams
    BY ThisIs DEF OperationKnown
  <2>2. domain.pc \in 2..6 /\ Blank(This) => Blank(This)'
    BY <1>1, <1>3, <2>1 DEF Blank, InstallKnown
  <2> QED
    BY <1>1, <2>2 DEF InstallKnown
<1>8. AbortKnown'
  <2> SUFFICES ASSUME domain.op \in {"detach", "quarantine"} PROVE AbortKnown'
    BY <1>1 DEF AbortKnown
  <2>1. This \in Streams
    BY ThisIs DEF OperationKnown
  <2>2. domain.pc \in Nat
    BY DEF SmmuTypeOK, Operations
  <2>3. domain.pc >= 2 /\ cfg[This].w0 # "stage2" => cfg'[This].w0 # "stage2"
    BY <1>1, <1>3, <2>1 DEF AbortKnown
  <2> QED
    BY <1>1, <2>2, <2>3 DEF AbortKnown, OthersOnly, Attached
<1>9. TlbKnown'
  BY <1>1 DEF TlbKnown, Flushing, Route, Attached
<1> QED
  BY <1>4, <1>5, <1>6, <1>7, <1>8, <1>9

LEMMA HwTranslateKnown ==
  ASSUME SmmuInv, NEW s \in Streams, HwTranslate(s)
  PROVE  SmmuInv'
<1> USE DEF SmmuInv
<1>1. UNCHANGED <<gbpa, cr0, ste, cfg, cmdq, binding, domain>> /\ This' = This
  BY DEF HwTranslate, This
<1>2. domain.op \in {"start", "none"} \cup StreamOps /\ (domain.op = "start" => domain.pc \in {1, 2})
  BY TranslationIsOn DEF HwTranslate
<1>3. CASE tlb' = tlb
  <2>1. Stays
    BY <1>1, <1>3 DEF Stays
  <2> QED
    BY <2>1, StaysKnown
<1>4. CASE cfg[s].w0 = "stage2" /\ tlb' = tlb \cup {cfg[s].root}
  <2>1. domain.op = "start" \/ (cfg[s].root = OwnerOf[s] /\ Route(s))
    BY <1>2, <1>4 DEF CacheKnown, Stale, StreamOps
  <2>2. SmmuTypeOK' /\ OperationKnown' /\ RestKnown' /\ PcKnown' /\ RegistersKnown' /\ TableKnown' /\ QueueKnown'
    BY <1>1 DEF SmmuTypeOK, OperationKnown, RestKnown, PcKnown, RegistersKnown, TableKnown, Route, Attached,
                     QueueKnown, Waits
  <2>3. CacheKnown'
    <3>1. \A x \in Streams : (Stale(x)' <=> Stale(x)) /\ (Route(x)' <=> Route(x))
      BY <1>1 DEF Stale, Route, Attached, Queued, Batch, BatchEnd
    <3> QED
      BY <1>1, <3>1 DEF CacheKnown
  <2>4. InstallKnown'
    BY <1>1 DEF InstallKnown, Blank
  <2>5. AbortKnown'
    <3> SUFFICES ASSUME domain.op \in {"detach", "quarantine"} PROVE AbortKnown'
      BY <1>1 DEF AbortKnown
    <3>1. OthersOnly /\ cfg[This].w0 # "stage2" => OthersOnly'
      <4> SUFFICES ASSUME OthersOnly, cfg[This].w0 # "stage2", domain.vm = cfg[s].root
                   PROVE  \E x \in StreamsOf(domain.vm) \ {This} : Attached(x)
        BY <1>1, <1>4 DEF OthersOnly, Attached
      <4>1. s # This /\ s \in StreamsOf(domain.vm) /\ Attached(s)
        BY <1>4, <2>1 DEF Route, StreamsOf
      <4> QED
        BY <4>1
    <3>2. /\ domain'.op = domain.op /\ domain'.pc = domain.pc /\ domain'.vm = domain.vm
          /\ ste' = ste /\ cfg' = cfg /\ cmdq' = cmdq
      BY <1>1
    <3> QED
      BY <1>1, <3>1, <3>2 DEF AbortKnown
  <2>6. TlbKnown'
    <3>1. \A v \in tlb' \cap Vms :
            domain'.op \in {"start", "invalidate"} \/ Flushing' \/ \E x \in StreamsOf(v) : Route(x)'
      <4> SUFFICES ASSUME NEW v \in tlb' \cap Vms, domain.op \notin {"start", "invalidate"}, ~Flushing
                   PROVE  \E x \in StreamsOf(v) : Route(x)'
        BY <1>1 DEF Flushing
      <4>1. CASE v \in tlb
        BY <1>1, <4>1 DEF TlbKnown, Route, Attached
      <4>2. CASE v = cfg[s].root
        BY <1>1, <2>1, <4>2 DEF StreamsOf, Route, Attached
      <4> QED
        BY <1>4, <4>1, <4>2
    <3> QED
      BY <1>1, <1>2, <3>1 DEF TlbKnown, StreamOps
  <2> QED
    BY <2>2, <2>3, <2>4, <2>5, <2>6
<1> QED
  BY <1>3, <1>4 DEF HwTranslate

-----------------------------------------------------------------------------
(* What a step of the driver does to the lock, the bindings and the table. *)

LEMMA DomainStepFrame ==
  ASSUME SmmuInv, DomainStep
  PROVE  /\ domain' = domain \/ domain' = Onward \/ domain' = AfterSection
         /\ \/ binding' = binding
            \/ domain.op = "start" /\ binding' = [x \in Streams |-> [state |-> "Detached", generation |-> 0]]
            \/ /\ domain.op \in StreamOps /\ domain' = AfterSection
               /\ \E state \in Bindings : \E gen :
                    /\ binding' = [binding EXCEPT ![This] = [state |-> state, generation |-> gen]]
                    /\ state = "Attached" => domain.op = "attach"
                    /\ domain.op = "detach" => state = "Detached"
         /\ domain' = AfterSection /\ domain.op = "detach" =>
              \E gen : binding' = [binding EXCEPT ![This] = [state |-> "Detached", generation |-> gen]]
<1>1. SmmuTypeOK /\ OperationKnown /\ RestKnown /\ PcKnown
  BY DEF SmmuInv
<1>2. domain.op \in BootOps \cup StreamOps
  BY <1>1 DEF DomainStep, SmmuTypeOK, Operations
<1>3. \A step, next : WaitIdle(step, next) => (domain' = domain \/ domain' = next) /\ binding' = binding
  BY DEF WaitIdle, Halt
<1>4. \A step, next : Push(step, next) => (domain' = domain \/ domain' = next) /\ binding' = binding
  BY DEF Push, Halt
<1>5. \A step, next : WriteGbpa(step, next) => (domain' = domain \/ domain' = next) /\ binding' = binding
  BY DEF WriteGbpa, Halt
<1>6. \A step, next : WriteCr0(step, next) => (domain' = domain \/ domain' = next) /\ binding' = binding
  BY DEF WriteCr0, Halt
<1>7. \A step, next : WriteWord0(step, next) \/ WriteBody(step, next) => domain' = next /\ binding' = binding
  BY DEF WriteWord0, WriteBody
<1>8. CASE domain.op = "start"
  <2>1. BuildTables(<<"tables">>, Onward) =>
          domain' = Onward /\ binding' = [x \in Streams |-> [state |-> "Detached", generation |-> 0]]
    BY DEF BuildTables
  <2> QED
    BY <1>1, <1>5, <1>6, <1>8, <2>1, StartMoves DEF PcKnown
<1>9. CASE domain.op = "invalidate"
  BY <1>1, <1>3, <1>4, <1>9, InvalidateMoves DEF PcKnown
<1>10. CASE domain.op = "enable"
  BY <1>1, <1>3, <1>4, <1>6, <1>10, EnableMoves DEF PcKnown
<1>11. CASE domain.op = "attach"
  <2>1. CASE Bind(<<"bind", This, "Attached", domain.gen>>, AfterSection)
    <3>1. binding' = [binding EXCEPT ![This] = [state |-> "Attached", generation |-> domain.gen]] /\ domain' = AfterSection
      BY <2>1, BindEffect
    <3> QED
      BY <1>11, <3>1 DEF Bindings, StreamOps
  <2>2. CASE (domain' = domain \/ domain' = Onward) /\ binding' = binding
    BY <1>11, <2>2
  <2> QED
    BY <1>1, <1>3, <1>4, <1>7, <1>11, <2>1, <2>2, AttachMoves DEF PcKnown
<1>12. ASSUME SmmuTypeOK, domain.op \in {"detach", "quarantine"} PROVE domain # AfterSection /\ Onward # AfterSection
  <2>1. This \in domain.rest /\ domain.pc \in Nat /\ domain.rest \in SUBSET Streams
    BY <1>1, <1>12, ThisIs DEF OperationKnown, SmmuTypeOK, Operations
  <2>2. Onward.rest = domain.rest
    BY <1>1 DEF SmmuTypeOK, Operations, Onward
  <2>3. AfterSection = Begin(domain.who, domain.op, domain.vm, domain.gen, domain.rest \ {This})
    BY <1>12 DEF AfterSection, This
  <2>4. AfterSection.rest = domain.rest \ {This}
    BY <2>3 DEF Begin, Inactive
  <2>5. domain.rest \ {This} # domain.rest
    BY <2>1
  <2> QED
    BY <2>2, <2>4, <2>5
<1>13. CASE domain.op = "detach"
  <2>1. Attached(This) /\ domain.pc \in 1..5
    BY <1>1, <1>2, <1>13, ThisIs DEF PcKnown, RestKnown, OperationKnown, StreamOps, StreamsOf
  <2>2. CASE Bind(<<"bind", This, "Detached", binding[This].generation>>, AfterSection)
    <3>1. /\ binding' = [binding EXCEPT ![This] = [state |-> "Detached", generation |-> binding[This].generation]]
          /\ domain' = AfterSection
      BY <2>2, BindEffect
    <3> QED
      BY <1>13, <3>1 DEF Bindings, StreamOps
  <2>3. CASE (domain' = domain \/ domain' = Onward) /\ binding' = binding
    BY <1>1, <1>12, <1>13, <2>3
  <2> QED
    BY <1>3, <1>4, <1>7, <1>13, <2>1, <2>2, <2>3, DetachMoves
<1>14. CASE domain.op = "quarantine"
  <2>1. CASE Bind(<<"bind", This, "Quarantined", binding[This].generation>>, AfterSection)
    <3>1. /\ binding' = [binding EXCEPT ![This] = [state |-> "Quarantined", generation |-> binding[This].generation]]
          /\ domain' = AfterSection
      BY <2>1, BindEffect
    <3> QED
      BY <1>14, <3>1 DEF Bindings, StreamOps
  <2>2. CASE (domain' = domain \/ domain' = Onward) /\ binding' = binding
    BY <1>14, <2>2
  <2>3. CASE Attached(This)
    BY <1>1, <1>3, <1>4, <1>7, <1>14, <2>1, <2>2, <2>3, LeaveMoves DEF PcKnown, Attached
  <2>4. CASE ~Attached(This)
    BY <1>1, <1>14, <2>1, <2>4, MarkMoves DEF PcKnown, Attached
  <2> QED
    BY <2>3, <2>4
<1> QED
  BY <1>2, <1>8, <1>9, <1>10, <1>11, <1>13, <1>14 DEF BootOps, StreamOps

-----------------------------------------------------------------------------
(* Taking and leaving the domain lock preserves it.                        *)

LEMMA LockMoves ==
  ASSUME SmmuInv, domain.op = "none", UNCHANGED <<gbpa, cr0, ste, cfg, tlb, cmdq, binding>>,
         domain' \in Operations, domain'.op \in StreamOps \cup {"none"}, domain'.op # "none" => domain'.pc = 1,
         OperationKnown', RestKnown'
  PROVE  SmmuInv'
<1> USE DEF SmmuInv
<1>1. domain.op \notin BootOps /\ domain'.op \notin BootOps
  BY DEF BootOps, StreamOps
<1>2. SmmuTypeOK' /\ PcKnown' /\ RegistersKnown' /\ InstallKnown' /\ AbortKnown'
  BY <1>1 DEF SmmuTypeOK, PcKnown, RegistersKnown, InstallKnown, AbortKnown, BootOps, StreamOps
<1>3. \A s \in Streams : (Route(s)' <=> Route(s)) /\ ~Stale(s) /\ ~Stale(s)'
  BY <1>1 DEF Route, Stale, Attached, BootOps, StreamOps
<1>4. TableKnown' /\ CacheKnown'
  BY <1>1, <1>3 DEF TableKnown, CacheKnown, BootOps
<1>5. TlbKnown'
  BY <1>1, <1>3 DEF TlbKnown, Flushing, BootOps, StreamsOf
<1>6. QueueKnown'
  BY DEF QueueKnown, Waits, BootOps, StreamOps
<1> QED
  BY <1>2, <1>4, <1>5, <1>6

LEMMA UnlockKnown ==
  ASSUME SmmuInv, domain.op = "none", Unlock, UNCHANGED <<gbpa, cr0, ste, cfg, tlb, cmdq, binding>>
  PROVE  SmmuInv'
<1>1. domain' \in Operations /\ domain' = Inactive(domain'.who) /\ domain'.op = "none" /\ domain'.who = Unlocked
  BY InactiveIs DEF Unlock
<1>2. OperationKnown' /\ RestKnown'
  BY <1>1, DmaAssumption DEF OperationKnown, RestKnown, BootOps, StreamOps
<1> QED
  BY <1>1, <1>2, LockMoves

\* Nothing is under way while the lock is free.
LEMMA FreeIsIdle ==
  ASSUME SmmuInv, Free PROVE domain.op = "none"
BY DEF SmmuInv, OperationKnown, Free

\* The operation of a thread that locks: none, or one on the streams it names.
LEMMA LockKnown ==
  ASSUME SmmuInv, Free, NEW t \in Vms \cup {"irq"}, NEW op \in StreamOps, NEW vm, NEW gen \in Nat,
         NEW streams \in SUBSET StreamsOf(vm),
         op = "attach" => t \in Vms /\ vm \in Vms /\ \A s \in streams : ~Attached(s),
         op = "detach" => \A s \in StreamsOf(vm) : s \in streams <=> Attached(s),
         domain' = Begin(t, op, vm, gen, streams), UNCHANGED <<gbpa, cr0, ste, cfg, tlb, cmdq, binding>>
  PROVE  /\ SmmuInv'
         /\ domain'.who = t
         /\ \/ streams = {} /\ domain'.op = "none" /\ domain' = Inactive(t)
            \/ streams # {} /\ domain'.op = op /\ domain'.vm = vm /\ vm \in Owners
<1>1. domain.op = "none" /\ t \in Threads \cup {Unlocked} /\ t # "boot" /\ t # Unlocked
  BY FreeIsIdle, DmaAssumption DEF Threads
<1>2. CASE streams = {}
  <2>1. domain' = Inactive(t)
    BY <1>2 DEF Begin
  <2>2. domain' \in Operations /\ domain'.who = t /\ domain'.op = "none"
    BY <1>1, <2>1, InactiveIs
  <2>3. OperationKnown' /\ RestKnown'
    BY <1>1, <2>1, <2>2 DEF OperationKnown, RestKnown, BootOps, StreamOps
  <2> QED
    BY <1>1, <1>2, <2>1, <2>2, <2>3, LockMoves
<1>3. CASE streams # {}
  <2>1. vm \in Owners /\ streams \in SUBSET Streams /\ \A s \in streams : OwnerOf[s] = vm
    BY <1>3, SmmuAssumption DEF StreamsOf, Owners
  <2>2. op \in BootOps \cup StreamOps
    OBVIOUS
  <2>3. /\ domain'.who = t /\ domain'.op = op /\ domain'.vm = vm
        /\ domain'.gen = gen /\ domain'.rest = streams /\ domain'.pc = 1 /\ domain' \in Operations
    BY <1>1, <1>3, <2>1, <2>2, NextIs
  <2>4. OperationKnown'
    BY <1>1, <1>3, <2>3 DEF OperationKnown, BootOps, StreamOps
  <2>5. RestKnown'
    BY <2>1, <2>3 DEF RestKnown, BootOps, StreamOps, Attached, StreamsOf
  <2>6. domain'.op \in StreamOps \cup {"none"}
    BY <2>3
  <2> QED
    BY <1>1, <1>3, <2>1, <2>3, <2>4, <2>5, <2>6, LockMoves
<1> QED
  BY <1>2, <1>3

-----------------------------------------------------------------------------
(* Every step preserves the invariant of the SMMU.                         *)

LEMMA RestStays == ASSUME RestSmmu PROVE Stays
BY DEF RestSmmu, smmuVars, Stays

LEMMA QuarantineVmOfKnown ==
  ASSUME SmmuInv, NEW v \in Vms, QuarantineVmOf(v)
  PROVE  SmmuInv' /\ domain'.who = v /\ domain'.op \in {"none", "quarantine"}
<1> DEFINE streams == {s \in StreamsOf(v) : binding[s].state # "Quarantined"}
<1>1. /\ Free /\ domain' = Begin(v, "quarantine", v, 0, streams)
      /\ UNCHANGED <<gbpa, cr0, ste, cfg, tlb, cmdq, binding>>
  BY DEF QuarantineVmOf, Lock, QuarantineVm, device
<1>2. streams \in SUBSET StreamsOf(v)
  OBVIOUS
<1> HIDE DEF streams
<1> QED
  BY <1>1, <1>2, LockKnown DEF StreamOps

LEMMA DetachVmKnown ==
  ASSUME SmmuInv, NEW v \in Vms, DetachVm(v)
  PROVE  /\ SmmuInv'
         /\ \/ /\ domain'.who = v /\ domain'.op \in {"none", "detach"} /\ (domain'.op = "detach" => domain'.vm = v)
               /\ domain'.op = "none" => NoStream(v)
               /\ Free /\ UNCHANGED thread
            \/ domain'.who = Unlocked /\ Holds(v) /\ Calling(v, "quiesced", {}, 0)
<1>1. UNCHANGED <<gbpa, cr0, ste, cfg, tlb, cmdq, binding>>
  BY DEF DetachVm, device
<1>2. CASE Lock(DetachStreams(v, v)) /\ UNCHANGED thread
  <2> DEFINE streams == {s \in StreamsOf(v) : binding[s].state = "Attached"}
  <2>1. Free /\ domain' = Begin(v, "detach", v, 0, streams)
    BY <1>2 DEF Lock, DetachStreams
  <2>2. streams \in SUBSET StreamsOf(v) /\ \A s \in StreamsOf(v) : s \in streams <=> Attached(s)
    BY DEF Attached
  <2> HIDE DEF streams
  <2>3. /\ SmmuInv' /\ domain'.who = v
        /\ \/ streams = {} /\ domain'.op = "none" /\ domain' = Inactive(v)
           \/ streams # {} /\ domain'.op = "detach" /\ domain'.vm = v
    BY <1>1, <2>1, <2>2, LockKnown DEF StreamOps
  <2> QED
    BY <1>2, <2>1, <2>2, <2>3 DEF NoStream
<1>3. CASE Holds(v) /\ Unlock /\ Calling(v, "quiesced", {}, 0)
  <2>1. domain'.who = Unlocked
    BY <1>3 DEF Unlock, Inactive
  <2> QED
    BY <1>1, <1>3, <2>1, UnlockKnown DEF Holds
<1> QED
  BY <1>2, <1>3 DEF DetachVm

LEMMA AttachVmKnown ==
  ASSUME SmmuInv, NEW v \in Vms, AttachVm(v), thread[v].gen \in Nat
  PROVE  /\ SmmuInv'
         /\ \/ /\ domain'.who = v /\ domain'.op \in {"none", "attach"} /\ (domain'.op = "attach" => domain'.vm = v)
               /\ Free /\ UNCHANGED thread
            \/ Free /\ domain' = domain /\ Goto(v, "fail")
            \/ domain'.who = Unlocked /\ Holds(v) /\ Goto(v, "prepare")
<1>1. UNCHANGED <<gbpa, cr0, ste, cfg, tlb, cmdq, binding>>
  BY DEF AttachVm, device
<1>2. CASE Lock(AttachStreams(v, v, thread[v].gen)) /\ UNCHANGED thread
  <2> DEFINE streams == {s \in StreamsOf(v) : binding[s].state # "Attached"}
  <2>1. Free /\ domain' = Begin(v, "attach", v, thread[v].gen, streams)
    BY <1>2 DEF Lock, AttachStreams
  <2>2. streams \in SUBSET StreamsOf(v) /\ \A s \in streams : ~Attached(s)
    BY DEF Attached
  <2> HIDE DEF streams
  <2>3. /\ SmmuInv' /\ domain'.who = v
        /\ \/ streams = {} /\ domain'.op = "none" /\ domain' = Inactive(v)
           \/ streams # {} /\ domain'.op = "attach" /\ domain'.vm = v
    BY <1>1, <2>1, <2>2, LockKnown DEF StreamOps
  <2> QED
    BY <1>2, <2>1, <2>3
<1>3. CASE Free /\ Goto(v, "fail") /\ UNCHANGED domain
  BY <1>1, <1>3, StaysKnown DEF Stays
<1>4. CASE Holds(v) /\ Unlock /\ Goto(v, "prepare")
  <2>1. domain'.who = Unlocked
    BY <1>4 DEF Unlock, Inactive
  <2> QED
    BY <1>1, <1>4, <2>1, UnlockKnown DEF Holds
<1> QED
  BY <1>2, <1>3, <1>4 DEF AttachVm

LEMMA DispatchFaultKnown ==
  ASSUME SmmuInv, NEW t \in Vms \cup {"irq"}, DispatchFault(t)
  PROVE  /\ SmmuInv'
         /\ \/ Free /\ domain' = domain
            \/ Free /\ domain'.who = t /\ domain'.op \in {"none", "quarantine"} /\ UNCHANGED drained
            \/ domain'.who = Unlocked /\ Holds(t)
<1>1. UNCHANGED <<gbpa, cr0, ste, cfg, tlb, cmdq, binding>>
  BY DEF DispatchFault, device
<1> DEFINE s == Head(drained[t])[1]
<1>2. CASE Free /\ UNCHANGED domain
  BY <1>1, <1>2, StaysKnown DEF Stays
<1>3. CASE Lock(QuarantineVm(t, OwnerOf[s])) /\ UNCHANGED drained
  <2> DEFINE vm == OwnerOf[s]
             streams == {x \in StreamsOf(vm) : binding[x].state # "Quarantined"}
  <2>1. Free /\ domain' = Begin(t, "quarantine", vm, 0, streams)
    BY <1>3 DEF Lock, QuarantineVm
  <2>2. streams \in SUBSET StreamsOf(vm)
    OBVIOUS
  <2> HIDE DEF streams, vm
  <2>3. /\ SmmuInv' /\ domain'.who = t
        /\ \/ streams = {} /\ domain'.op = "none" /\ domain' = Inactive(t)
           \/ streams # {} /\ domain'.op = "quarantine" /\ domain'.vm = vm
    BY <1>1, <2>1, <2>2, LockKnown DEF StreamOps
  <2> QED
    BY <1>3, <2>1, <2>3
<1>4. CASE Holds(t) /\ Unlock
  <2>1. domain'.who = Unlocked
    BY <1>4 DEF Unlock, Inactive
  <2> QED
    BY <1>1, <1>4, <2>1, UnlockKnown DEF Holds
<1> QED
  BY <1>2, <1>3, <1>4 DEF DispatchFault

\* The steps of a device that leave the SMMU alone.
Local(v) ==
  \/ FailOwner(v) \/ Isolate(v) \/ Block(v) \/ CompleteQuiesce(v) \/ EnterDetaching(v) \/ Quiesced(v)
  \/ PrepareDevices(v) \/ Activate(v) \/ UnmaskDevices(v)

LEMMA LocalStays ==
  ASSUME NEW v, Local(v) \/ Call(v) PROVE Stays
<1>1. RestSmmu
  <2>1. FailOwner(v) \/ Isolate(v) \/ Block(v) => RestSmmu
    BY DEF FailOwner, Isolate, Block
  <2>2. CompleteQuiesce(v) \/ EnterDetaching(v) \/ Quiesced(v) => RestSmmu
    BY DEF CompleteQuiesce, EnterDetaching, Quiesced
  <2>3. PrepareDevices(v) \/ Activate(v) \/ UnmaskDevices(v) => RestSmmu
    BY DEF PrepareDevices, Activate, UnmaskDevices
  <2>4. Call(v) => RestSmmu
    BY DEF Call, BeginQuiesce, PollQuiesce, ResumeVm
  <2> QED
    BY <2>1, <2>2, <2>3, <2>4 DEF Local
<1> QED
  BY <1>1, RestStays

LEMMA ElsewhereStays ==
  ASSUME NEW d, Interrupts(d) \/ StartDma(d) \/ EndDma(d) \/ Expire(d)
  PROVE  Stays
<1>1. RestSmmu
  BY DEF Interrupts, HandleIrq, VirtualEoi, Rearm, StartDma, EndDma, Expire
<1> QED
  BY <1>1, RestStays

LEMMA EventsStay ==
  ASSUME NEW t, PollEvents(t) \/ Dispatched(t) PROVE Stays
BY RestStays DEF PollEvents, Dispatched, Drain, Stays

LEMMA SmmuNext ==
  ASSUME SmmuInv, DmaInv, Next
  PROVE  SmmuInv'
<1>1. CASE DomainStep
  BY <1>1, DomainStepKnown
<1>2. CASE ProbeDevices
  <2>1. domain.op = "none" /\ Unlock /\ UNCHANGED <<gbpa, cr0, ste, cfg, tlb, cmdq, binding>>
    BY <1>2 DEF ProbeDevices, Holds, device
  <2> QED
    BY <2>1, UnlockKnown
<1>3. ASSUME NEW v \in Vms, Call(v) \/ Walk(v) PROVE SmmuInv'
  <2>1. thread[v].gen \in Nat
    BY DEF DmaInv, DmaTypeOK, Threads, Positions
  <2>2. Local(v) \/ Call(v) \/ QuarantineVmOf(v) \/ Isolated(v) \/ DetachVm(v) \/ AttachVm(v)
    BY <1>3 DEF Walk, Local
  <2>3. CASE Isolated(v)
    <3>1. domain.op = "none" /\ Unlock /\ UNCHANGED <<gbpa, cr0, ste, cfg, tlb, cmdq, binding>>
      BY <2>3 DEF Isolated, Holds, device
    <3> QED
      BY <3>1, UnlockKnown
  <2>4. CASE Local(v) \/ Call(v)
    BY <2>4, LocalStays, StaysKnown
  <2> QED
    BY <2>1, <2>2, <2>3, <2>4, QuarantineVmOfKnown, DetachVmKnown, AttachVmKnown
<1>4. ASSUME NEW t \in Vms \cup {"irq"}, Events(t) PROVE SmmuInv'
  BY <1>4, EventsStay, StaysKnown, DispatchFaultKnown DEF Events
<1>5. ASSUME NEW d \in Devices, Interrupts(d) \/ StartDma(d) \/ EndDma(d) \/ Expire(d) PROVE SmmuInv'
  BY <1>5, ElsewhereStays, StaysKnown
<1>6. CASE Hardware
  BY <1>6, HwConsumeKnown, HwFetchKnown, HwTranslateKnown DEF Hardware
<1> QED
  BY <1>1, <1>2, <1>3, <1>4, <1>5, <1>6 DEF Next

-----------------------------------------------------------------------------
(* What the steps of a thread do to it.                                    *)

LEMMA GotoIs ==
  ASSUME DmaTypeOK, NEW t \in Threads, NEW pc \in ThreadPcs, Goto(t, pc)
  PROVE  /\ thread' \in [Threads -> Positions] /\ \A u \in Threads \ {t} : thread'[u] = thread[u]
         /\ thread'[t].pc = pc /\ thread'[t].then = thread[t].then
         /\ thread'[t].todo = thread[t].todo /\ thread'[t].gen = thread[t].gen
<1>1. thread \in [Threads -> Positions] /\ thread[t] \in Positions
  BY DEF DmaTypeOK
<1>2. [thread[t] EXCEPT !.pc = pc] \in Positions
  BY <1>1 DEF Positions
<1>3. thread' = [thread EXCEPT ![t] = [thread[t] EXCEPT !.pc = pc]]
  BY DEF Goto
<1> QED
  BY <1>1, <1>2, <1>3 DEF Positions

LEMMA VisitedIs ==
  ASSUME DmaTypeOK, NEW t \in Threads, Visited(t)
  PROVE  /\ thread' \in [Threads -> Positions] /\ \A u \in Threads \ {t} : thread'[u] = thread[u]
         /\ thread'[t].pc = thread[t].pc /\ thread'[t].then = thread[t].then
         /\ thread'[t].todo = thread[t].todo \ {First(thread[t].todo)}
<1> DEFINE todo == thread[t].todo \ {First(thread[t].todo)}
<1>1. thread \in [Threads -> Positions] /\ thread[t] \in Positions
  BY DEF DmaTypeOK
<1>2. thread' = [thread EXCEPT ![t] = [thread[t] EXCEPT !.todo = todo]]
  BY DEF Visited
<1>3. todo \in SUBSET Devices
  BY <1>1 DEF Positions
<1> HIDE DEF todo
<1>4. [thread[t] EXCEPT !.todo = todo] \in Positions
  BY <1>1, <1>3 DEF Positions
<1>5. /\ thread' \in [Threads -> Positions] /\ \A u \in Threads \ {t} : thread'[u] = thread[u]
      /\ thread'[t].pc = thread[t].pc /\ thread'[t].then = thread[t].then /\ thread'[t].todo = todo
  BY <1>1, <1>2, <1>4 DEF Positions
<1> QED
  BY <1>5 DEF todo

LEMMA WalkingIs ==
  ASSUME DmaTypeOK, NEW t \in Threads, NEW pc \in ThreadPcs, NEW ds \in SUBSET Devices, Walking(t, pc, ds)
  PROVE  /\ thread' \in [Threads -> Positions] /\ \A u \in Threads \ {t} : thread'[u] = thread[u]
         /\ thread'[t].pc = pc /\ thread'[t].then = thread[t].then /\ thread'[t].todo = ds
<1>1. thread \in [Threads -> Positions] /\ thread[t] \in Positions
  BY DEF DmaTypeOK
<1>2. [thread[t] EXCEPT !.pc = pc, !.todo = ds] \in Positions
  BY <1>1 DEF Positions
<1>3. thread' = [thread EXCEPT ![t] = [thread[t] EXCEPT !.pc = pc, !.todo = ds]]
  BY <1>1 DEF Walking
<1> QED
  BY <1>1, <1>2, <1>3 DEF Positions

LEMMA CallingIs ==
  ASSUME DmaTypeOK, NEW t \in Threads, NEW then \in {"attach", "quiesced"}, NEW ds \in SUBSET Devices, NEW gen \in Nat,
         Calling(t, then, ds, gen)
  PROVE  /\ thread' \in [Threads -> Positions] /\ \A u \in Threads \ {t} : thread'[u] = thread[u]
         /\ thread'[t].pc = "poll_events" /\ thread'[t].then = then /\ thread'[t].todo = ds
<1>1. thread \in [Threads -> Positions]
  BY DEF DmaTypeOK
<1>2. [pc |-> "poll_events", then |-> then, todo |-> ds, gen |-> gen] \in Positions
  BY DEF Positions, ThreadPcs
<1> QED
  BY <1>1, <1>2 DEF Calling

LEMMA ReturnIs ==
  ASSUME DmaTypeOK, NEW v \in Vms, NEW a \in Answers, Return(v, a)
  PROVE  /\ thread' \in [Threads -> Positions] /\ \A u \in Threads \ {v} : thread'[u] = thread[u]
         /\ thread'[v].pc = "idle" /\ thread'[v].then = "idle" /\ thread'[v].todo = {}
         /\ answer' \in [Vms -> Answers] /\ answer'[v] = a /\ \A u \in Vms \ {v} : answer'[u] = answer[u]
<1>1. thread \in [Threads -> Positions] /\ answer \in [Vms -> Answers] /\ v \in Threads
  BY DEF DmaTypeOK, Threads
<1>2. Resting \in Positions /\ Resting.pc = "idle" /\ Resting.then = "idle" /\ Resting.todo = {}
  BY DEF Positions, ThreadPcs, Resting
<1> QED
  BY <1>1, <1>2 DEF Return

-----------------------------------------------------------------------------
(* A step of one VM concerns that VM alone.                                *)

\* While the boot core holds the lock, nothing of a VM has begun.
LEMMA NotBooting ==
  ASSUME DmaInv, NEW v \in Vms, thread[v].pc # "idle" \/ answer[v] # "Booting"
  PROVE  domain.who # "boot"
BY DEF DmaInv, BootQuiet

\* A thread that is in no domain operation does not hold the lock.
LEMMA NotHolding ==
  ASSUME DmaInv, NEW v \in Vms, thread[v].pc \notin {"attach", "detach", "quarantine", "dispatch"}
  PROVE  domain.who # v
BY DEF DmaInv, HolderKnown

LEMMA VmStep ==
  ASSUME DmaInv, NEW v \in Vms, domain' = domain, binding' = binding, drained' = drained, eoi' = eoi,
         domain.who # v, domain.who # "boot",
         \A u \in Threads \ {v} : thread'[u] = thread[u],
         \A u \in Vms \ {v} : answer'[u] = answer[u],
         \A d \in Devices : VmOf[d] # v => entry'[d] = entry[d] /\ line'[d] = line[d] /\ token'[d] = token[d],
         DmaTypeOK', VmKnown(v)', \A d \in Lines : VmOf[d] = v => LineKnown(d)'
  PROVE  DmaInv'
<1>1. \A u \in Vms \ {v} : u \in Threads /\ thread'[u] = thread[u] /\ answer'[u] = answer[u]
  BY DEF Threads
<1>2. "irq" \in Threads \ {v}
  BY DmaAssumption DEF Threads
<1>3. HolderKnown'
  BY <1>1, <1>2 DEF DmaInv, HolderKnown, In, NoStream, Attached
<1>4. BootQuiet'
  BY DEF BootQuiet
<1>5. DevicesKnown'
  <2> SUFFICES ASSUME NEW u \in Vms, u # v PROVE VmKnown(u)'
    BY DEF DevicesKnown
  <2>1. thread'[u] = thread[u] /\ answer'[u] = answer[u]
    BY <1>1
  <2>2. StatesOf(u)' = StatesOf(u)
    BY DEF StatesOf, DevicesOf
  <2>3. NoStream(u)' <=> NoStream(u)
    BY DEF NoStream, Attached
  <2> QED
    BY <2>1, <2>2, <2>3 DEF DmaInv, DevicesKnown, VmKnown, Polling, StartsUp, HasDetached, In
<1>6. LinesKnown'
  <2> SUFFICES ASSUME NEW d \in Lines, VmOf[d] # v PROVE LineKnown(d)'
    BY DEF LinesKnown
  <2>1. d \in Devices /\ VmOf[d] \in Vms \ {v}
    BY DmaAssumption
  <2>2. thread'[VmOf[d]] = thread[VmOf[d]] /\ answer'[VmOf[d]] = answer[VmOf[d]]
    BY <1>1, <2>1
  <2> QED
    BY <2>1, <2>2 DEF DmaInv, LinesKnown, LineKnown, Watched, In
<1> QED
  BY <1>3, <1>4, <1>5, <1>6 DEF DmaInv

-----------------------------------------------------------------------------
(* The walks.                                                              *)

\* A walk that completes has collected every device it did not skip.
LEMMA ScanIs ==
  ASSUME NEW vm, NEW verdict, NEW stops, "Skip" \notin stops
  PROVE  LET scan == ScanOwned(vm, verdict, stops)
         IN /\ scan.ids \subseteq DevicesOf(vm)
            /\ \A d \in scan.ids : verdict[d] = "Collect"
            /\ Complete(scan) =>
                 /\ \A d \in DevicesOf(vm) : verdict[d] \notin stops
                 /\ scan.ids = {d \in DevicesOf(vm) : verdict[d] = "Collect"}
<1> DEFINE bad == {d \in DevicesOf(vm) : verdict[d] \in stops}
           scan == ScanOwned(vm, verdict, stops)
<1>1. scan = [ids     |-> {d \in DevicesOf(vm) : verdict[d] = "Collect" /\ \A b \in bad : d < b},
              verdict |-> IF bad = {} THEN "Skip" ELSE verdict[First(bad)]]
  BY DEF ScanOwned
<1>2. bad # {} => First(bad) \in bad
  <2>1. bad \subseteq Nat
    BY DmaAssumption DEF DevicesOf
  <2> HIDE DEF bad
  <2> QED
    BY <2>1, FirstIsLeast
<1>3. scan.ids = {d \in DevicesOf(vm) : verdict[d] = "Collect" /\ \A b \in bad : d < b}
      /\ scan.verdict = IF bad = {} THEN "Skip" ELSE verdict[First(bad)]
  BY <1>1
<1> HIDE DEF scan
<1>4. Complete(scan) => bad = {}
  BY <1>2, <1>3 DEF Complete
<1> QED
  BY <1>3, <1>4 DEF scan

\* The device a walk of v visits next is one of its devices.
LEMMA FirstOfTodo ==
  ASSUME DmaInv, NEW v \in Vms, thread[v].todo # {}
  PROVE  /\ First(thread[v].todo) \in thread[v].todo /\ First(thread[v].todo) \in Devices
         /\ VmOf[First(thread[v].todo)] = v
<1>1. thread[v].todo \subseteq DevicesOf(v)
  BY DEF DmaInv, DevicesKnown, VmKnown
<1>2. DevicesOf(v) \subseteq Nat
  BY DmaAssumption DEF DevicesOf
<1>3. First(thread[v].todo) \in thread[v].todo
  BY <1>1, <1>2, FirstIsLeast
<1> QED
  BY <1>1, <1>3 DEF DevicesOf

\* A step that masks one line of v.
LEMMA LineSet ==
  ASSUME DmaTypeOK, NEW x \in Devices, NEW how \in {"masked", "open"}, line' = [line EXCEPT ![x] = how]
  PROVE  /\ line' \in [Devices -> {"masked", "open"}]
         /\ line'[x] = how /\ \A d \in Devices \ {x} : line'[d] = line[d]
BY DEF DmaTypeOK

LEMMA FailOwnerKnown ==
  ASSUME DmaInv, NEW v \in Vms, FailOwner(v) PROVE DmaInv'
<1>1. v \in Threads /\ DmaTypeOK /\ thread[v].pc = "fail"
  BY DEF FailOwner, At, DmaInv, Threads
<1>2. domain.who # v /\ domain.who # "boot"
  BY <1>1, NotBooting, NotHolding
<1>3. /\ domain' = domain /\ binding' = binding
      /\ UNCHANGED <<line, token, drained, answer, eoi>>
  BY DEF FailOwner, RestSmmu, smmuVars
<1>4. Holding(v) \in SUBSET Devices
  BY DEF Holding, DevicesOf
<1>5. /\ thread' \in [Threads -> Positions] /\ \A u \in Threads \ {v} : thread'[u] = thread[u]
      /\ thread'[v].pc = "isolate" /\ thread'[v].todo = Holding(v)
  BY <1>1, <1>4, WalkingIs DEF FailOwner, ThreadPcs
<1>6. /\ entry' \in [Devices -> Entries]
      /\ \A d \in Devices : IF d \in Holding(v) THEN entry'[d].state = "Failed" ELSE entry'[d] = entry[d]
  <2>1. entry' = [d \in Devices |-> IF d \in Holding(v)
                    THEN [entry[d] EXCEPT !.state = "Failed", !.generation = 0, !.blocked = TRUE] ELSE entry[d]]
    BY DEF FailOwner, Set
  <2>2. \A d \in Devices : entry[d] \in Entries
    BY <1>1 DEF DmaTypeOK
  <2> QED
    BY <2>1, <2>2 DEF Entries, States
<1>7. DmaTypeOK'
  BY <1>1, <1>3, <1>5, <1>6 DEF DmaTypeOK
<1>8. VmKnown(v)'
  <2>1. \A d \in DevicesOf(v) : entry'[d].state \in {"Failed", "Unavailable"}
    BY <1>6 DEF Holding, DevicesOf
  <2> QED
    BY <1>5, <2>1 DEF VmKnown, Polling, StartsUp, HasDetached, In, StatesOf, Holding, DevicesOf
<1>9. \A d \in Lines : VmOf[d] = v => LineKnown(d)'
  BY <1>5 DEF LineKnown, In
<1> QED
  BY <1>2, <1>3, <1>5, <1>6, <1>7, <1>8, <1>9, VmStep DEF Holding, DevicesOf

LEMMA IsolateKnown ==
  ASSUME DmaInv, NEW v \in Vms, Isolate(v) PROVE DmaInv'
<1>1. v \in Threads /\ DmaTypeOK /\ thread[v].pc = "isolate" /\ VmKnown(v)
  BY DEF Isolate, At, DmaInv, DevicesKnown, Threads
<1>2. domain.who # v /\ domain.who # "boot"
  BY <1>1, NotBooting, NotHolding
<1>3. /\ domain' = domain /\ binding' = binding
      /\ UNCHANGED <<entry, token, drained, answer, eoi>>
  BY DEF Isolate, RestSmmu, smmuVars
<1>4. /\ thread' \in [Threads -> Positions] /\ \A u \in Threads \ {v} : thread'[u] = thread[u]
      /\ thread'[v].pc = "isolate" /\ thread'[v].todo \subseteq thread[v].todo
  BY <1>1, VisitedIs DEF Isolate
<1>5. line' \in [Devices -> {"masked", "open"}] /\ \A d \in Devices : VmOf[d] # v => line'[d] = line[d]
  BY <1>1, FirstOfTodo, LineSet DEF Isolate
<1>6. DmaTypeOK'
  BY <1>1, <1>3, <1>4, <1>5 DEF DmaTypeOK
<1>7. VmKnown(v)'
  BY <1>1, <1>3, <1>4 DEF VmKnown, Polling, StartsUp, HasDetached, In, StatesOf, DevicesOf, NoStream, Attached
<1>8. \A d \in Lines : VmOf[d] = v => LineKnown(d)'
  BY <1>4 DEF LineKnown, In
<1> QED
  BY <1>2, <1>3, <1>4, <1>5, <1>6, <1>7, <1>8, VmStep

\* A walk that only reads the entries returns, or goes on to another part.
LEMMA ReadsOnly ==
  ASSUME DmaInv, NEW v \in Vms, domain' = domain, binding' = binding,
         UNCHANGED <<entry, dev, line, token, drained, eoi>>,
         thread[v].pc \in {"idle", "complete"}, thread[v].pc # "idle" \/ answer[v] # "Booting",
         \/ \E a \in {"Failed", "Pending"} : Return(v, a)
         \/ \E pc \in {"fail", "complete", "detaching"} : Goto(v, pc) /\ answer' = answer
  PROVE  DmaInv'
<1>1. v \in Threads /\ DmaTypeOK /\ VmKnown(v)
  BY DEF DmaInv, DevicesKnown, Threads
<1>2. domain.who # v /\ domain.who # "boot"
  BY NotBooting, NotHolding
<1>3. /\ thread' \in [Threads -> Positions] /\ answer' \in [Vms -> Answers]
      /\ \A u \in Threads \ {v} : thread'[u] = thread[u]
      /\ \A u \in Vms \ {v} : answer'[u] = answer[u]
      /\ thread'[v].todo \subseteq thread[v].todo
      /\ \/ thread'[v].pc = "idle" /\ answer'[v] \in {"Failed", "Pending"}
         \/ thread'[v].pc \in {"fail", "complete", "detaching"}
  <2>1. CASE \E a \in {"Failed", "Pending"} : Return(v, a)
    <3>1. PICK a \in {"Failed", "Pending"} : Return(v, a)
      BY <2>1
    <3>2. a \in Answers
      BY DEF Answers
    <3> QED
      BY <1>1, <3>1, <3>2, ReturnIs
  <2>2. CASE \E pc \in {"fail", "complete", "detaching"} : Goto(v, pc) /\ answer' = answer
    <3>1. PICK pc \in {"fail", "complete", "detaching"} : Goto(v, pc) /\ answer' = answer
      BY <2>2
    <3>2. pc \in ThreadPcs
      BY DEF ThreadPcs
    <3> QED
      BY <1>1, <3>1, <3>2, GotoIs DEF DmaTypeOK
  <2> QED
    BY <2>1, <2>2
<1>4. DmaTypeOK'
  BY <1>1, <1>3 DEF DmaTypeOK
<1>5. VmKnown(v)'
  BY <1>1, <1>3 DEF VmKnown, Polling, StartsUp, HasDetached, In, StatesOf, DevicesOf, NoStream, Attached
<1>6. \A d \in Lines : VmOf[d] = v => LineKnown(d)'
  BY <1>3 DEF LineKnown, In
<1> QED
  BY <1>2, <1>3, <1>4, <1>5, <1>6, VmStep

LEMMA CompleteQuiesceKnown ==
  ASSUME DmaInv, NEW v \in Vms, CompleteQuiesce(v) PROVE DmaInv'
<1>1. /\ thread[v].pc = "complete" /\ domain' = domain /\ binding' = binding
      /\ UNCHANGED <<entry, dev, line, token, drained, eoi>>
  BY DEF CompleteQuiesce, At, RestSmmu, smmuVars
<1>2. \A verdict : QuiesceResult(verdict) \in {"Failed", "Pending"}
  BY DEF QuiesceResult
<1>3. \/ \E a \in {"Failed", "Pending"} : Return(v, a)
      \/ \E pc \in {"fail", "complete", "detaching"} : Goto(v, pc) /\ answer' = answer
  BY <1>2 DEF CompleteQuiesce
<1> QED
  BY <1>1, <1>3, ReadsOnly

\* What the walks make of the states.
LEMMA Classified ==
  ASSUME NEW e \in Entries
  PROVE  /\ e.state = "Active" => ClassifyBeginQuiesce(e) = "Collect"
         /\ ClassifyBeginQuiesce(e) = "Collect" => e.state = "Active"
         /\ ClassifyQuiescing(e) \notin {"Fail", "Pending"} => e.state \in {"Unavailable", "Quiesced", "Quiescing"}
         /\ ClassifyQuiescing(e) = "Collect" => e.state = "Quiescing"
         /\ ClassifyQuiescing(e) \notin {"Fail", "Pending"} /\ e.state = "Quiescing" => ClassifyQuiescing(e) = "Collect"
         /\ ClassifyResume(e) # "Fail" => e.state \in {"Unavailable", "Quiesced"}
         /\ ClassifyResume(e) = "Collect" => e.state = "Quiesced"
         /\ e.state = "Quiesced" => ClassifyResume(e) = "Collect"
<1>1. e.state \in States /\ e.blocked \in BOOLEAN
  BY DEF Entries
<1>2. e.state = "Active" <=> ClassifyBeginQuiesce(e) = "Collect"
  BY <1>1 DEF ClassifyBeginQuiesce, States
<1>3. /\ ClassifyQuiescing(e) \notin {"Fail", "Pending"} => e.state \in {"Unavailable", "Quiesced", "Quiescing"}
      /\ ClassifyQuiescing(e) = "Collect" => e.state = "Quiescing"
      /\ ClassifyQuiescing(e) \notin {"Fail", "Pending"} /\ e.state = "Quiescing" => ClassifyQuiescing(e) = "Collect"
  BY <1>1 DEF ClassifyQuiescing, States
<1>4. /\ ClassifyResume(e) # "Fail" => e.state \in {"Unavailable", "Quiesced"}
      /\ ClassifyResume(e) = "Collect" <=> e.state = "Quiesced"
  BY <1>1 DEF ClassifyResume, States
<1> QED
  BY <1>2, <1>3, <1>4

LEMMA BeginQuiesceKnown ==
  ASSUME DmaInv, NEW v \in Vms, BeginQuiesce(v), answer[v] # "Booting" PROVE DmaInv'
<1> DEFINE verdict == [d \in Devices |-> ClassifyBeginQuiesce(entry[d])]
           scan    == ScanOwned(v, verdict, {"Fail"})
<1>1. v \in Threads /\ DmaTypeOK /\ thread[v].pc = "idle" /\ VmKnown(v)
  BY DEF BeginQuiesce, At, DmaInv, DevicesKnown, Threads
<1>2. domain.who # v /\ domain.who # "boot"
  BY <1>1, NotBooting, NotHolding
<1>3. domain' = domain /\ binding' = binding /\ UNCHANGED <<dev, token, drained, eoi>>
  BY DEF BeginQuiesce, RestSmmu, smmuVars
<1>4. /\ scan.ids \subseteq DevicesOf(v)
      /\ \A d \in scan.ids : verdict[d] = "Collect"
      /\ Complete(scan) => scan.ids = {d \in DevicesOf(v) : verdict[d] = "Collect"}
  BY ScanIs
<1>5. \A d \in Devices : entry[d] \in Entries /\ verdict[d] = ClassifyBeginQuiesce(entry[d])
  BY <1>1 DEF DmaTypeOK
<1>6. entry' = [d \in Devices |-> IF d \in scan.ids
                  THEN [entry[d] EXCEPT !.state = "Quiescing", !.expired = FALSE, !.blocked = FALSE] ELSE entry[d]]
  BY DEF BeginQuiesce, Set
<1>7. \/ ~Complete(scan) /\ Return(v, "Failed")
      \/ Walking(v, "block", scan.ids) /\ UNCHANGED answer
      \/ Complete(scan) /\ scan.ids = {} /\ Return(v, "Complete")
  BY DEF BeginQuiesce
<1>8. line' = [d \in Devices |-> IF d \in DevicesOf(v) THEN "masked" ELSE line[d]]
  BY DEF BeginQuiesce
<1> HIDE DEF scan, verdict
<1>9. /\ entry' \in [Devices -> Entries]
      /\ \A d \in Devices : d \in scan.ids => entry'[d].state = "Quiescing"
      /\ \A d \in Devices : d \notin scan.ids => entry'[d] = entry[d]
  BY <1>5, <1>6 DEF Entries, States
<1>10. line' \in [Devices -> {"masked", "open"}] /\ \A d \in Devices : VmOf[d] # v => line'[d] = line[d]
  BY <1>1, <1>8 DEF DmaTypeOK, DevicesOf
<1>11. /\ thread' \in [Threads -> Positions] /\ answer' \in [Vms -> Answers]
       /\ \A u \in Threads \ {v} : thread'[u] = thread[u]
       /\ \A u \in Vms \ {v} : answer'[u] = answer[u]
       /\ thread'[v].todo \subseteq DevicesOf(v)
       /\ \/ thread'[v].pc = "block"
          \/ thread'[v].pc = "idle" /\ answer'[v] = "Failed"
          \/ thread'[v].pc = "idle" /\ answer'[v] = "Complete" /\ Complete(scan) /\ scan.ids = {}
  <2>1. CASE Return(v, "Failed")
    BY <1>1, <2>1, ReturnIs DEF Answers
  <2>2. CASE Walking(v, "block", scan.ids) /\ UNCHANGED answer
    <3>1. scan.ids \in SUBSET Devices /\ "block" \in ThreadPcs
      BY <1>4 DEF DevicesOf, ThreadPcs
    <3> QED
      BY <1>1, <1>4, <2>2, <3>1, WalkingIs DEF DmaTypeOK
  <2>3. CASE Complete(scan) /\ scan.ids = {} /\ Return(v, "Complete")
    BY <1>1, <2>3, ReturnIs DEF Answers
  <2> QED
    BY <1>7, <2>1, <2>2, <2>3
<1>12. DmaTypeOK'
  BY <1>1, <1>3, <1>9, <1>10, <1>11 DEF DmaTypeOK
<1>13. VmKnown(v)'
  <2>1. "Quiesced" \in StatesOf(v)' => "Quiesced" \in StatesOf(v)
    BY <1>9 DEF StatesOf, DevicesOf
  <2>2. Complete(scan) /\ scan.ids = {} => "Active" \notin StatesOf(v)'
    BY <1>4, <1>5, <1>9, Classified DEF StatesOf, DevicesOf
  <2> QED
    BY <1>1, <1>3, <1>11, <2>1, <2>2 DEF VmKnown, Polling, StartsUp, HasDetached, In, DevicesOf, NoStream, Attached
<1>14. \A d \in Lines : VmOf[d] = v => LineKnown(d)'
  BY <1>11 DEF LineKnown, In
<1>15. \A d \in Devices : VmOf[d] # v => entry'[d] = entry[d]
  BY <1>4, <1>9 DEF DevicesOf
<1> QED
  BY <1>2, <1>3, <1>10, <1>11, <1>12, <1>13, <1>14, <1>15, VmStep

LEMMA BlockKnown ==
  ASSUME DmaInv, NEW v \in Vms, Block(v) PROVE DmaInv'
<1>1. v \in Threads /\ DmaTypeOK /\ thread[v].pc = "block" /\ VmKnown(v)
  BY DEF Block, At, DmaInv, DevicesKnown, Threads
<1>2. domain.who # v /\ domain.who # "boot"
  BY <1>1, NotBooting, NotHolding
<1>3. domain' = domain /\ binding' = binding /\ UNCHANGED <<token, drained, answer, eoi>>
  BY DEF Block, RestSmmu, smmuVars
<1>4. /\ line' \in [Devices -> {"masked", "open"}]
      /\ \A d \in Devices : VmOf[d] # v => line'[d] = line[d]
  <2>1. CASE UNCHANGED line
    BY <1>1, <2>1 DEF DmaTypeOK
  <2>2. CASE thread[v].todo # {} /\ line' = [line EXCEPT ![First(thread[v].todo)] = "masked"]
    BY <1>1, <2>2, FirstOfTodo, LineSet
  <2> QED
    BY <2>1, <2>2 DEF Block
<1>5. /\ entry' \in [Devices -> Entries]
      /\ \A d \in Devices : entry'[d].state = entry[d].state /\ entry'[d].generation = entry[d].generation
      /\ \A d \in Devices : VmOf[d] # v => entry'[d] = entry[d]
  <2>1. CASE UNCHANGED entry
    BY <1>1, <2>1 DEF DmaTypeOK
  <2> DEFINE ds == {First(thread[v].todo)} \cap {x \in Devices : entry[x].state = "Quiescing"}
  <2>2. CASE thread[v].todo # {} /\ Set(ds, LAMBDA e : [e EXCEPT !.blocked = TRUE])
    <3>1. \A d \in ds : VmOf[d] = v
      BY <2>2, FirstOfTodo
    <3>2. entry' = [d \in Devices |-> IF d \in ds THEN [entry[d] EXCEPT !.blocked = TRUE] ELSE entry[d]]
      BY <2>2 DEF Set
    <3> HIDE DEF ds
    <3>3. \A d \in Devices : entry[d] \in Entries
      BY <1>1 DEF DmaTypeOK
    <3> QED
      BY <3>1, <3>2, <3>3 DEF Entries
  <2> QED
    BY <2>1, <2>2 DEF Block
<1>6. /\ thread' \in [Threads -> Positions]
      /\ \A u \in Threads \ {v} : thread'[u] = thread[u]
      /\ thread'[v].todo \subseteq thread[v].todo /\ thread'[v].pc \in {"block", "complete", "fail"}
  <2>1. CASE Goto(v, "complete")
    BY <1>1, <2>1, GotoIs DEF ThreadPcs
  <2>2. CASE Goto(v, "fail")
    BY <1>1, <2>2, GotoIs DEF ThreadPcs
  <2>3. CASE Visited(v)
    BY <1>1, <2>3, VisitedIs
  <2> QED
    BY <2>1, <2>2, <2>3 DEF Block
<1>7. DmaTypeOK'
  BY <1>1, <1>3, <1>4, <1>5, <1>6 DEF DmaTypeOK
<1>8. VmKnown(v)'
  BY <1>1, <1>3, <1>5, <1>6 DEF VmKnown, Polling, StartsUp, HasDetached, In, StatesOf, DevicesOf, NoStream, Attached
<1>9. \A d \in Lines : VmOf[d] = v => LineKnown(d)'
  BY <1>6 DEF LineKnown, In
<1> QED
  BY <1>2, <1>3, <1>4, <1>5, <1>6, <1>7, <1>8, <1>9, VmStep


\* An operation of v that ends: what it leaves of v's devices.
LEMMA Returned ==
  ASSUME DmaInv, NEW v \in Vms, NEW a \in Answers, Return(v, a),
         domain' = domain, binding' = binding, drained' = drained, eoi' = eoi,
         thread[v].pc # "idle" \/ answer[v] # "Booting",
         thread[v].pc \notin {"attach", "detach", "quarantine", "dispatch"},
         entry' \in [Devices -> Entries], line' \in [Devices -> {"masked", "open"}], token' \in [Devices -> Nat],
         \A d \in Devices : VmOf[d] # v => entry'[d] = entry[d] /\ line'[d] = line[d] /\ token'[d] = token[d],
         "Quiesced" \in StatesOf(v)' => NoStream(v),
         a = "Complete" => "Active" \notin StatesOf(v)',
         a = "Running" => \A d \in Lines : VmOf[d] = v /\ entry'[d].state = "Active" => Watched(d)'
  PROVE  DmaInv'
<1>1. v \in Threads /\ DmaTypeOK
  BY DEF DmaInv, Threads
<1>2. domain.who # v /\ domain.who # "boot"
  BY NotBooting, NotHolding
<1>3. /\ thread' \in [Threads -> Positions] /\ \A u \in Threads \ {v} : thread'[u] = thread[u]
      /\ thread'[v].pc = "idle" /\ thread'[v].todo = {}
      /\ answer' \in [Vms -> Answers] /\ answer'[v] = a /\ \A u \in Vms \ {v} : answer'[u] = answer[u]
  BY <1>1, ReturnIs
<1>4. DmaTypeOK'
  BY <1>1, <1>3 DEF DmaTypeOK
<1>5. VmKnown(v)'
  <2>1. NoStream(v)' <=> NoStream(v)
    BY DEF NoStream, Attached
  <2> QED
    BY <1>3, <2>1 DEF VmKnown, Polling, StartsUp, HasDetached, In
<1>6. \A d \in Lines : VmOf[d] = v => LineKnown(d)'
  BY <1>3 DEF LineKnown, In
<1> QED
  BY <1>2, <1>3, <1>4, <1>5, <1>6, VmStep

\* The completed walk of a quiesce has met no device that may start.
LEMMA QuiescingScanIs ==
  ASSUME DmaTypeOK, NEW v \in Vms
  PROVE  LET scan == QuiescingScan(v)
         IN /\ scan.ids \subseteq DevicesOf(v)
            /\ \A d \in scan.ids : entry[d].state = "Quiescing"
            /\ Complete(scan) => \A d \in DevicesOf(v) :
                 /\ entry[d].state \in {"Unavailable", "Quiesced", "Quiescing"}
                 /\ entry[d].state = "Quiescing" => d \in scan.ids
<1> DEFINE verdict == [d \in Devices |-> ClassifyQuiescing(entry[d])]
           scan    == ScanOwned(v, verdict, {"Fail", "Pending"})
<1>1. QuiescingScan(v) = scan
  BY DEF QuiescingScan
<1>2. /\ scan.ids \subseteq DevicesOf(v)
      /\ \A d \in scan.ids : verdict[d] = "Collect"
      /\ Complete(scan) =>
           /\ \A d \in DevicesOf(v) : verdict[d] \notin {"Fail", "Pending"}
           /\ scan.ids = {d \in DevicesOf(v) : verdict[d] = "Collect"}
  BY ScanIs
<1> HIDE DEF scan
<1>3. \A d \in Devices : entry[d] \in Entries /\ verdict[d] = ClassifyQuiescing(entry[d])
  BY DEF DmaTypeOK
<1> HIDE DEF verdict
<1>4. DevicesOf(v) \subseteq Devices
  BY DEF DevicesOf
<1>5. \A d \in scan.ids : entry[d].state = "Quiescing"
  BY <1>2, <1>3, <1>4, Classified
<1>6. ASSUME Complete(scan), NEW d \in DevicesOf(v)
      PROVE  /\ entry[d].state \in {"Unavailable", "Quiesced", "Quiescing"}
             /\ entry[d].state = "Quiescing" => d \in scan.ids
  <2>1. verdict[d] \notin {"Fail", "Pending"} /\ d \in Devices
    BY <1>2, <1>4, <1>6
  <2>2. ClassifyQuiescing(entry[d]) \notin {"Fail", "Pending"} /\ entry[d] \in Entries
    BY <2>1, <1>3
  <2>3. entry[d].state = "Quiescing" => verdict[d] = "Collect"
    BY <2>1, <2>2, <1>3, Classified
  <2> QED
    BY <1>2, <1>6, <2>2, <2>3, Classified
<1> QED
  BY <1>1, <1>2, <1>5, <1>6

LEMMA PollQuiesceKnown ==
  ASSUME DmaInv, NEW v \in Vms, PollQuiesce(v), token' = token PROVE DmaInv'
<1> DEFINE scan == QuiescingScan(v)
<1>1. /\ v \in Threads /\ DmaTypeOK /\ VmKnown(v)
      /\ thread[v].pc = "idle" /\ answer[v] = "Pending" /\ domain' = domain /\ binding' = binding
      /\ UNCHANGED <<entry, dev, line, token, drained, eoi>>
  BY DEF PollQuiesce, At, RestSmmu, smmuVars, DmaInv, DevicesKnown, Threads
<1>2. \A verdict : QuiesceResult(verdict) \in {"Failed", "Pending"}
  BY DEF QuiesceResult
<1>3. \/ \E a \in {"Failed", "Pending"} : Return(v, a)
      \/ \E pc \in {"fail", "complete", "detaching"} : Goto(v, pc) /\ answer' = answer
      \/ Complete(scan) /\ scan.ids = {} /\ Return(v, "Complete")
  BY <1>2 DEF PollQuiesce
<1>4. CASE Complete(scan) /\ scan.ids = {} /\ Return(v, "Complete")
  <2>1. \A d \in DevicesOf(v) : entry[d].state # "Active"
    BY <1>1, <1>4, QuiescingScanIs
  <2>2. "Active" \notin StatesOf(v)' /\ ("Quiesced" \in StatesOf(v)' => NoStream(v))
    BY <1>1, <2>1 DEF StatesOf, DevicesOf, VmKnown
  <2>3. entry' \in [Devices -> Entries] /\ line' \in [Devices -> {"masked", "open"}] /\ token' \in [Devices -> Nat]
    BY <1>1 DEF DmaTypeOK
  <2>4. "Complete" \in Answers /\ "Complete" # "Running"
    BY DEF Answers
  <2> QED
    BY <1>1, <1>4, <2>2, <2>3, <2>4, Returned
<1> QED
  BY <1>1, <1>3, <1>4, ReadsOnly

LEMMA EnterDetachingKnown ==
  ASSUME DmaInv, NEW v \in Vms, EnterDetaching(v) PROVE DmaInv'
<1> DEFINE scan == QuiescingScan(v)
<1>1. /\ v \in Threads /\ DmaTypeOK /\ VmKnown(v) /\ thread[v].pc = "detaching"
      /\ domain' = domain /\ binding' = binding
      /\ UNCHANGED <<dev, line, token, drained, eoi>>
  BY DEF EnterDetaching, At, RestSmmu, smmuVars, DmaInv, DevicesKnown, Threads
<1>2. /\ scan.ids \subseteq DevicesOf(v)
      /\ \A d \in scan.ids : entry[d].state = "Quiescing"
      /\ Complete(scan) => \A d \in DevicesOf(v) :
           /\ entry[d].state \in {"Unavailable", "Quiesced", "Quiescing"}
           /\ entry[d].state = "Quiescing" => d \in scan.ids
  BY <1>1, QuiescingScanIs
<1>3. entry' = [d \in Devices |-> IF d \in scan.ids THEN [entry[d] EXCEPT !.state = "Detaching"] ELSE entry[d]]
  BY DEF EnterDetaching, Set
<1>4. \/ \E a \in {"Failed", "Pending"} : Return(v, a)
      \/ Complete(scan) /\ scan.ids = {} /\ Return(v, "Complete")
      \/ Complete(scan) /\ Goto(v, "detach") /\ answer' = answer
  <2>1. \A verdict : QuiesceResult(verdict) \in {"Failed", "Pending"}
    BY DEF QuiesceResult
  <2> QED
    BY <2>1 DEF EnterDetaching
<1> HIDE DEF scan
<1>5. /\ entry' \in [Devices -> Entries]
      /\ \A d \in scan.ids : entry'[d].state = "Detaching"
      /\ \A d \in Devices : d \notin scan.ids => entry'[d] = entry[d]
      /\ \A d \in Devices : VmOf[d] # v => entry'[d] = entry[d]
  <2>1. \A d \in Devices : entry[d] \in Entries
    BY <1>1 DEF DmaTypeOK
  <2>2. \A d \in scan.ids : d \in Devices /\ VmOf[d] = v
    BY <1>2 DEF DevicesOf
  <2> QED
    BY <1>3, <2>1, <2>2 DEF Entries, States
<1>6. line' \in [Devices -> {"masked", "open"}] /\ token' \in [Devices -> Nat]
  BY <1>1 DEF DmaTypeOK
<1>7. "Quiesced" \in StatesOf(v)' => NoStream(v)
  <2>1. "Quiesced" \in StatesOf(v)' => "Quiesced" \in StatesOf(v)
    BY <1>2, <1>5 DEF StatesOf, DevicesOf
  <2> QED
    BY <1>1, <2>1 DEF VmKnown
<1>8. thread[v].pc # "idle" /\ thread[v].pc \notin {"attach", "detach", "quarantine", "dispatch"}
  BY <1>1
<1>9. CASE \E a \in {"Failed", "Pending"} : Return(v, a)
  <2>1. PICK a \in {"Failed", "Pending"} : Return(v, a)
    BY <1>9
  <2>2. a \in Answers /\ a # "Complete" /\ a # "Running"
    BY <2>1 DEF Answers
  <2> QED
    BY <1>1, <1>5, <1>6, <1>7, <1>8, <2>1, <2>2, Returned
<1>10. CASE Complete(scan) /\ scan.ids = {} /\ Return(v, "Complete")
  <2>1. "Active" \notin StatesOf(v)'
    BY <1>2, <1>5, <1>10 DEF StatesOf, DevicesOf
  <2>2. "Complete" \in Answers /\ "Complete" # "Running"
    BY DEF Answers
  <2> QED
    BY <1>1, <1>5, <1>6, <1>7, <1>8, <1>10, <2>1, <2>2, Returned
<1>11. CASE Complete(scan) /\ Goto(v, "detach") /\ answer' = answer
  <2>1. /\ thread' \in [Threads -> Positions] /\ \A u \in Threads \ {v} : thread'[u] = thread[u]
        /\ thread'[v].pc = "detach" /\ thread'[v].todo = thread[v].todo
    BY <1>1, <1>11, GotoIs DEF ThreadPcs
  <2>2. DmaTypeOK'
    BY <1>1, <1>5, <1>6, <1>11, <2>1 DEF DmaTypeOK
  <2>3. StatesOf(v)' \subseteq {"Unavailable", "Quiesced", "Detaching"}
    BY <1>2, <1>5, <1>11 DEF StatesOf, DevicesOf
  <2>4. NoStream(v)' <=> NoStream(v)
    BY <1>1 DEF NoStream, Attached
  <2>5. VmKnown(v)'
    BY <1>1, <1>7, <2>1, <2>3, <2>4 DEF VmKnown, Polling, StartsUp, HasDetached, In, DevicesOf
  <2>6. \A d \in Lines : VmOf[d] = v => LineKnown(d)'
    BY <2>1 DEF LineKnown, In
  <2>7. domain.who # v /\ domain.who # "boot"
    BY <1>8, NotBooting, NotHolding
  <2> QED
    BY <1>1, <1>5, <1>11, <2>1, <2>2, <2>5, <2>6, <2>7, VmStep
<1> QED
  BY <1>4, <1>9, <1>10, <1>11

LEMMA QuiescedKnown ==
  ASSUME DmaInv, NEW v \in Vms, Quiesced(v) PROVE DmaInv'
<1>1. /\ v \in Threads /\ DmaTypeOK /\ VmKnown(v) /\ thread[v].pc = "quiesced"
      /\ domain' = domain /\ binding' = binding
      /\ UNCHANGED <<dev, line, token, drained, eoi>> /\ Return(v, "Complete")
  BY DEF Quiesced, At, RestSmmu, smmuVars, DmaInv, DevicesKnown, Threads
<1> DEFINE ds == {d \in DevicesOf(v) : entry[d].state = "Detaching"}
<1>2. entry' = [d \in Devices |-> IF d \in ds THEN [entry[d] EXCEPT !.state = "Quiesced", !.generation = 0] ELSE entry[d]]
  BY DEF Quiesced, Set
<1>3. ds \subseteq DevicesOf(v)
  OBVIOUS
<1> HIDE DEF ds
<1>4. /\ entry' \in [Devices -> Entries]
      /\ \A d \in ds : entry'[d].state = "Quiesced"
      /\ \A d \in Devices : d \notin ds => entry'[d] = entry[d]
      /\ \A d \in Devices : VmOf[d] # v => entry'[d] = entry[d]
  <2>1. \A d \in Devices : entry[d] \in Entries
    BY <1>1 DEF DmaTypeOK
  <2>2. \A d \in ds : d \in Devices /\ VmOf[d] = v
    BY <1>3 DEF DevicesOf
  <2> QED
    BY <1>2, <2>1, <2>2 DEF Entries, States
<1>5. line' \in [Devices -> {"masked", "open"}] /\ token' \in [Devices -> Nat]
  BY <1>1 DEF DmaTypeOK
<1>6. NoStream(v) /\ StatesOf(v) \subseteq {"Unavailable", "Quiesced", "Detaching"}
  BY <1>1 DEF VmKnown, HasDetached, In
<1>7. "Active" \notin StatesOf(v)'
  BY <1>4, <1>6 DEF StatesOf, DevicesOf
<1>8. "Complete" \in Answers /\ "Complete" # "Running"
  BY DEF Answers
<1> QED
  BY <1>1, <1>4, <1>5, <1>6, <1>7, <1>8, Returned

LEMMA PrepareDevicesKnown ==
  ASSUME DmaInv, NEW v \in Vms, PrepareDevices(v) PROVE DmaInv'
<1>1. v \in Threads /\ DmaTypeOK /\ thread[v].pc = "prepare" /\ VmKnown(v)
  BY DEF PrepareDevices, At, DmaInv, DevicesKnown, Threads
<1>2. domain.who # v /\ domain.who # "boot"
  BY <1>1, NotBooting, NotHolding
<1>3. /\ domain' = domain /\ binding' = binding
      /\ UNCHANGED <<entry, token, drained, answer, eoi>>
  BY DEF PrepareDevices, RestSmmu, smmuVars
<1>4. /\ thread' \in [Threads -> Positions] /\ \A u \in Threads \ {v} : thread'[u] = thread[u]
      /\ thread'[v].pc \in {"prepare", "fail"} /\ thread'[v].todo \subseteq thread[v].todo
  <2>1. CASE Visited(v)
    BY <1>1, <2>1, VisitedIs
  <2>2. CASE Goto(v, "fail")
    BY <1>1, <2>2, GotoIs DEF ThreadPcs
  <2> QED
    BY <2>1, <2>2 DEF PrepareDevices
<1>5. line' \in [Devices -> {"masked", "open"}] /\ \A d \in Devices : VmOf[d] # v => line'[d] = line[d]
  BY <1>1, FirstOfTodo, LineSet DEF PrepareDevices
<1>6. DmaTypeOK'
  BY <1>1, <1>3, <1>4, <1>5 DEF DmaTypeOK
<1>7. VmKnown(v)'
  BY <1>1, <1>3, <1>4 DEF VmKnown, Polling, StartsUp, HasDetached, In, StatesOf, DevicesOf, NoStream, Attached
<1>8. \A d \in Lines : VmOf[d] = v => LineKnown(d)'
  BY <1>4 DEF LineKnown, In
<1> QED
  BY <1>2, <1>3, <1>4, <1>5, <1>6, <1>7, <1>8, VmStep

LEMMA ActivateKnown ==
  ASSUME DmaInv, NEW v \in Vms, Activate(v) PROVE DmaInv'
<1> DEFINE up == {d \in DevicesOf(v) : entry[d].state = "Resuming"}
<1>1. /\ v \in Threads /\ DmaTypeOK /\ thread[v].pc = "prepare" /\ VmKnown(v)
      /\ thread[v].gen \in Nat
  BY DEF Activate, At, DmaInv, DmaTypeOK, DevicesKnown, Threads, Positions
<1>2. domain.who # v /\ domain.who # "boot"
  BY <1>1, NotBooting, NotHolding
<1>3. /\ domain' = domain /\ binding' = binding
      /\ UNCHANGED <<line, token, drained, answer, eoi>>
  BY DEF Activate, RestSmmu, smmuVars
<1>4. entry' = [d \in Devices |-> IF d \in up
         THEN [entry[d] EXCEPT !.state = "Active", !.generation = thread[v].gen, !.blocked = FALSE] ELSE entry[d]]
  BY DEF Activate, Set
<1>5. up \in SUBSET Devices /\ up \subseteq DevicesOf(v) /\ Walking(v, "unmask", up)
  BY DEF Activate, DevicesOf
<1>6. \A d \in DevicesOf(v) : d \in up \/ entry[d].state = "Unavailable"
  BY <1>1 DEF VmKnown, StartsUp, In, StatesOf
<1> HIDE DEF up
<1>7. /\ thread' \in [Threads -> Positions] /\ \A u \in Threads \ {v} : thread'[u] = thread[u]
      /\ thread'[v].pc = "unmask" /\ thread'[v].todo = up
  BY <1>1, <1>5, WalkingIs DEF ThreadPcs
<1>8. /\ entry' \in [Devices -> Entries]
      /\ \A d \in up : entry'[d].state = "Active"
      /\ \A d \in Devices : d \notin up => entry'[d] = entry[d]
      /\ \A d \in Devices : VmOf[d] # v => entry'[d] = entry[d]
  <2>1. \A d \in Devices : entry[d] \in Entries
    BY <1>1 DEF DmaTypeOK
  <2>2. \A d \in up : d \in Devices /\ VmOf[d] = v
    BY <1>5 DEF DevicesOf
  <2> QED
    BY <1>1, <1>4, <2>1, <2>2 DEF Entries, States
<1>9. DmaTypeOK'
  BY <1>1, <1>3, <1>7, <1>8 DEF DmaTypeOK
<1>10. VmKnown(v)'
  <2>1. "Quiesced" \notin StatesOf(v)'
    BY <1>5, <1>6, <1>8 DEF StatesOf, DevicesOf
  <2> QED
    BY <1>5, <1>7, <2>1 DEF VmKnown, Polling, StartsUp, HasDetached, In, DevicesOf
<1>11. ASSUME NEW d \in Lines, VmOf[d] = v PROVE LineKnown(d)'
  <2>1. d \in Devices /\ d \in DevicesOf(v)
    BY <1>11, DmaAssumption DEF DevicesOf
  <2>2. d \notin up => entry'[d].state # "Active"
    BY <1>6, <1>8, <2>1
  <2> QED
    BY <1>7, <1>11, <2>2 DEF LineKnown, In
<1> QED
  BY <1>2, <1>3, <1>7, <1>8, <1>9, <1>10, <1>11, VmStep

LEMMA UnmaskDevicesKnown ==
  ASSUME DmaInv, NEW v \in Vms, UnmaskDevices(v) PROVE DmaInv'
<1>1. /\ v \in Threads /\ DmaTypeOK /\ thread[v].pc = "unmask" /\ VmKnown(v) /\ LinesKnown
      /\ domain' = domain /\ binding' = binding
      /\ UNCHANGED <<entry, token, drained, eoi>>
  BY DEF UnmaskDevices, At, RestSmmu, smmuVars, DmaInv, DevicesKnown, Threads
<1>2. entry' \in [Devices -> Entries] /\ token' \in [Devices -> Nat]
  BY <1>1 DEF DmaTypeOK
<1>3. "Quiesced" \in StatesOf(v)' => NoStream(v)
  BY <1>1 DEF VmKnown, StatesOf, DevicesOf
<1>4. \A d \in Lines : VmOf[d] = v /\ entry[d].state = "Active" /\ d \notin thread[v].todo => Watched(d)
  BY <1>1 DEF LinesKnown, LineKnown, In
<1>5. CASE thread[v].todo = {} /\ Return(v, "Running") /\ UNCHANGED line
  <2>1. \A d \in Lines : VmOf[d] = v /\ entry'[d].state = "Active" => Watched(d)'
    BY <1>1, <1>4, <1>5 DEF Watched
  <2>2. line' \in [Devices -> {"masked", "open"}] /\ "Running" \in Answers /\ "Running" # "Complete"
    BY <1>1, <1>5 DEF DmaTypeOK, Answers
  <2> QED
    BY <1>1, <1>2, <1>3, <1>5, <2>1, <2>2, Returned
<1>6. CASE thread[v].todo # {}
  <2> DEFINE x   == First(thread[v].todo)
             how == IF x \in Lines THEN "open" ELSE line[x]
  <2>1. x \in Devices /\ VmOf[x] = v /\ x \in thread[v].todo
    BY <1>6, FirstOfTodo
  <2>2. domain.who # v /\ domain.who # "boot"
    BY <1>1, NotBooting, NotHolding
  <2>3. answer' = answer
    BY <1>6 DEF UnmaskDevices
  <2>4. /\ line' \in [Devices -> {"masked", "open"}] /\ \A d \in Devices \ {x} : line'[d] = line[d]
        /\ Goto(v, "fail") \/ (Visited(v) /\ (x \in Lines => line'[x] = "open"))
    <3>1. CASE Goto(v, "fail") /\ UNCHANGED line
      BY <1>1, <3>1 DEF DmaTypeOK
    <3>2. CASE line' = [line EXCEPT ![x] = how] /\ Visited(v)
      <4>1. how \in {"masked", "open"} /\ (x \in Lines => how = "open")
        BY <1>1, <2>1 DEF DmaTypeOK
      <4> HIDE DEF how, x
      <4> QED
        BY <1>1, <2>1, <3>2, <4>1, LineSet
    <3> QED
      BY <1>6, <3>1, <3>2 DEF UnmaskDevices
  <2> HIDE DEF how
  <2>5. /\ thread' \in [Threads -> Positions] /\ \A u \in Threads \ {v} : thread'[u] = thread[u]
        /\ thread'[v].todo \subseteq thread[v].todo
        /\ \/ thread'[v].pc = "fail"
           \/ /\ thread'[v].pc = "unmask" /\ thread'[v].todo = thread[v].todo \ {x}
              /\ x \in Lines => line'[x] = "open"
    <3>1. CASE Goto(v, "fail")
      BY <1>1, <3>1, GotoIs DEF ThreadPcs
    <3>2. CASE Visited(v) /\ (x \in Lines => line'[x] = "open")
      BY <1>1, <3>2, VisitedIs
    <3> QED
      BY <2>4, <3>1, <3>2
  <2>6. DmaTypeOK'
    BY <1>1, <1>2, <2>3, <2>4, <2>5 DEF DmaTypeOK
  <2>7. VmKnown(v)'
    BY <1>1, <1>3, <2>5 DEF VmKnown, Polling, StartsUp, HasDetached, In, NoStream, Attached, DevicesOf
  <2>8. ASSUME NEW d \in Lines, VmOf[d] = v PROVE LineKnown(d)'
    <3>1. d \in Devices
      BY DmaAssumption
    <3>2. CASE thread'[v].pc = "fail"
      BY <2>8, <3>2 DEF LineKnown, In
    <3>3. CASE thread'[v].pc = "unmask"
      <4>1. thread'[v].todo = thread[v].todo \ {x} /\ (x \in Lines => line'[x] = "open")
        BY <2>5, <3>3
      <4>2. CASE d = x
        BY <4>1, <4>2 DEF LineKnown, Watched
      <4>3. CASE d # x
        <5>1. line'[d] = line[d] /\ (d \notin thread'[v].todo => d \notin thread[v].todo)
          BY <2>4, <3>1, <4>1, <4>3
        <5>2. entry[d].state = "Active" /\ d \notin thread[v].todo => Watched(d)'
          BY <1>1, <1>4, <2>8, <5>1 DEF Watched
        <5> QED
          BY <1>1, <2>8, <3>3, <5>1, <5>2 DEF LineKnown, In
      <4> QED
        BY <4>2, <4>3
    <3> QED
      BY <2>5, <3>2, <3>3
  <2>9. \A d \in Devices : VmOf[d] # v => line'[d] = line[d]
    BY <2>1, <2>4
  <2> QED
    BY <1>1, <2>2, <2>3, <2>5, <2>6, <2>7, <2>8, <2>9, VmStep
<1> QED
  BY <1>5, <1>6 DEF UnmaskDevices

LEMMA ResumeVmKnown ==
  ASSUME DmaInv, NEW v \in Vms, NEW gen \in Nat, ResumeVm(v, gen), answer[v] = "Complete",
         token' = [d \in Devices |-> IF VmOf[d] = v THEN 0 ELSE token[d]]
  PROVE  DmaInv'
<1> DEFINE verdict == [d \in Devices |-> ClassifyResume(entry[d])]
           scan    == ScanOwned(v, verdict, {"Fail"})
<1>1. /\ v \in Threads /\ DmaTypeOK /\ VmKnown(v) /\ thread[v].pc = "idle"
      /\ domain' = domain /\ binding' = binding
      /\ UNCHANGED <<dev, line, drained, eoi>>
  BY DEF ResumeVm, At, RestSmmu, smmuVars, DmaInv, DevicesKnown, Threads
<1>2. "Active" \notin StatesOf(v)
  BY <1>1 DEF VmKnown, In
<1>3. ~OwnerActive(v, gen)
  BY <1>2 DEF OwnerActive, Holding, StatesOf
<1>4. /\ scan.ids \subseteq DevicesOf(v)
      /\ \A d \in scan.ids : verdict[d] = "Collect"
      /\ Complete(scan) =>
           /\ \A d \in DevicesOf(v) : verdict[d] # "Fail"
           /\ scan.ids = {d \in DevicesOf(v) : verdict[d] = "Collect"}
  BY ScanIs
<1>5. \/ UNCHANGED entry /\ Return(v, "Failed")
      \/ /\ entry' = [d \in Devices |-> IF d \in scan.ids THEN [entry[d] EXCEPT !.state = "Resuming"] ELSE entry[d]]
         /\ \/ \E a \in {"Failed", "Running"} : Return(v, a)
            \/ Complete(scan) /\ Calling(v, "attach", scan.ids, gen) /\ answer' = answer
  BY <1>3 DEF ResumeVm, Set
<1> HIDE DEF scan
<1>6. \A d \in Devices : entry[d] \in Entries /\ verdict[d] = ClassifyResume(entry[d])
  BY <1>1 DEF DmaTypeOK
<1> HIDE DEF verdict
<1>7. \A d \in DevicesOf(v) : d \in Devices /\ VmOf[d] = v
  BY DEF DevicesOf
<1>8. line' \in [Devices -> {"masked", "open"}] /\ token' \in [Devices -> Nat]
      /\ \A d \in Devices : VmOf[d] # v => line'[d] = line[d] /\ token'[d] = token[d]
  BY <1>1 DEF DmaTypeOK
<1>9. /\ entry' \in [Devices -> Entries]
      /\ \A d \in Devices : entry'[d] = entry[d] \/ (d \in scan.ids /\ entry'[d].state = "Resuming")
  <2>1. CASE UNCHANGED entry
    BY <1>1, <2>1 DEF DmaTypeOK
  <2>2. CASE entry' = [d \in Devices |-> IF d \in scan.ids THEN [entry[d] EXCEPT !.state = "Resuming"] ELSE entry[d]]
    <3>1. \A d \in Devices : [entry[d] EXCEPT !.state = "Resuming"] \in Entries
      BY <1>6 DEF Entries, States
    <3> QED
      BY <1>6, <2>2, <3>1 DEF Entries
  <2> QED
    BY <1>5, <2>1, <2>2
<1>10. \A d \in Devices : VmOf[d] # v => entry'[d] = entry[d]
  BY <1>4, <1>7, <1>9
<1>11. \A d \in DevicesOf(v) : entry'[d].state # "Active"
  BY <1>2, <1>7, <1>9 DEF StatesOf
<1>12. "Quiesced" \in StatesOf(v)' => NoStream(v)
  <2>1. "Quiesced" \in StatesOf(v)' => "Quiesced" \in StatesOf(v)
    BY <1>7, <1>9 DEF StatesOf, DevicesOf
  <2> QED
    BY <1>1, <2>1 DEF VmKnown
<1>13. thread[v].pc # "idle" \/ answer[v] # "Booting"
  OBVIOUS
<1>14. ASSUME NEW a \in {"Failed", "Running"}, Return(v, a) PROVE DmaInv'
  <2>1. a \in Answers /\ a # "Complete"
    BY DEF Answers
  <2>2. a = "Running" => \A d \in Lines : VmOf[d] = v /\ entry'[d].state = "Active" => Watched(d)'
    BY <1>11, DmaAssumption DEF DevicesOf
  <2> QED
    BY <1>1, <1>8, <1>9, <1>10, <1>12, <1>13, <1>14, <2>1, <2>2, Returned
<1>15. CASE Complete(scan) /\ Calling(v, "attach", scan.ids, gen) /\ answer' = answer
            /\ entry' = [d \in Devices |-> IF d \in scan.ids THEN [entry[d] EXCEPT !.state = "Resuming"] ELSE entry[d]]
  <2>1. scan.ids \in SUBSET Devices
    BY <1>4, <1>7
  <2>2. /\ thread' \in [Threads -> Positions] /\ \A u \in Threads \ {v} : thread'[u] = thread[u]
        /\ thread'[v].pc = "poll_events" /\ thread'[v].then = "attach" /\ thread'[v].todo = scan.ids
    BY <1>1, <1>15, <2>1, CallingIs
  <2>3. ASSUME NEW d \in DevicesOf(v) PROVE entry'[d].state \in {"Unavailable", "Resuming"}
    <3>1. verdict[d] # "Fail" /\ (verdict[d] = "Collect" => d \in scan.ids)
      BY <1>4, <1>15
    <3>2. CASE d \in scan.ids
      <4>1. entry[d] \in Entries /\ entry'[d] = [entry[d] EXCEPT !.state = "Resuming"]
        BY <1>6, <1>7, <1>15, <3>2
      <4> QED
        BY <4>1 DEF Entries
    <3>3. CASE d \notin scan.ids
      <4>1. entry'[d] = entry[d] /\ entry[d] \in Entries /\ verdict[d] = ClassifyResume(entry[d])
        BY <1>6, <1>7, <1>15, <3>3
      <4>2. ClassifyResume(entry[d]) # "Fail" /\ ClassifyResume(entry[d]) # "Collect"
        BY <3>1, <3>3, <4>1
      <4> QED
        BY <4>1, <4>2, Classified
    <3> QED
      BY <3>2, <3>3
  <2>4. StatesOf(v)' \subseteq {"Unavailable", "Resuming"}
    BY <2>3 DEF StatesOf, DevicesOf
  <2>5. VmKnown(v)'
    BY <1>4, <2>2, <2>4 DEF VmKnown, Polling, StartsUp, HasDetached, In, DevicesOf
  <2>6. \A d \in Lines : VmOf[d] = v => LineKnown(d)'
    BY <2>2 DEF LineKnown, In
  <2>7. DmaTypeOK'
    BY <1>1, <1>8, <1>9, <1>15, <2>2 DEF DmaTypeOK
  <2>8. domain.who # v /\ domain.who # "boot"
    BY <1>1, <1>13, NotBooting, NotHolding
  <2> QED
    BY <1>1, <1>8, <1>10, <1>15, <2>2, <2>5, <2>6, <2>7, <2>8, VmStep
<1>16. CASE Return(v, "Failed")
  BY <1>14, <1>16
<1> QED
  BY <1>5, <1>14, <1>15, <1>16

LEMMA CallKnown ==
  ASSUME DmaInv, NEW v \in Vms, Call(v) PROVE DmaInv'
<1>1. CASE answer[v] \in {"Running", "Complete", "Failed"} /\ BeginQuiesce(v)
  BY <1>1, BeginQuiesceKnown
<1>2. CASE PollQuiesce(v)
  <2>1. token' = token
    BY <1>2 DEF PollQuiesce
  <2> QED
    BY <1>2, <2>1, PollQuiesceKnown
<1>3. ASSUME answer[v] = "Complete", NEW gen \in 1..MaxGen, ResumeVm(v, gen),
             token' = [d \in Devices |-> IF VmOf[d] = v THEN 0 ELSE token[d]]
      PROVE  DmaInv'
  <2>1. gen \in Nat
    BY DmaAssumption
  <2> QED
    BY <1>3, <2>1, ResumeVmKnown
<1> QED
  BY <1>1, <1>2, <1>3 DEF Call

-----------------------------------------------------------------------------
(* A step that leaves the devices and the bindings alone.                  *)

LEMMA ThreadStep ==
  ASSUME DmaInv, NEW t \in Vms \cup {"irq"}, binding' = binding, UNCHANGED <<entry, line, token, eoi>>,
         \A u \in Threads \ {t} : thread'[u] = thread[u],
         \A u \in Vms \ {t} : answer'[u] = answer[u],
         DmaTypeOK', HolderKnown', domain'.who = "boot" => domain.who = "boot" /\ t = "irq",
         t \in Vms => VmKnown(t)' /\ \A d \in Lines : VmOf[d] = t => LineKnown(d)'
  PROVE  DmaInv'
<1>1. \A u \in Vms \ {t} : u \in Threads /\ thread'[u] = thread[u] /\ answer'[u] = answer[u]
  BY DEF Threads
<1>2. BootQuiet'
  <2> SUFFICES ASSUME domain'.who = "boot" PROVE BootQuiet'
    BY DEF BootQuiet
  <2>1. \A v \in Vms : v \in Vms \ {t}
    BY DmaAssumption
  <2> QED
    BY <1>1, <2>1 DEF DmaInv, BootQuiet, Attached
<1>3. DevicesKnown'
  <2> SUFFICES ASSUME NEW u \in Vms, u # t PROVE VmKnown(u)'
    BY DEF DevicesKnown
  <2>1. thread'[u] = thread[u] /\ answer'[u] = answer[u]
    BY <1>1
  <2>2. StatesOf(u)' = StatesOf(u)
    BY DEF StatesOf, DevicesOf
  <2>3. NoStream(u)' <=> NoStream(u)
    BY DEF NoStream, Attached
  <2> QED
    BY <2>1, <2>2, <2>3 DEF DmaInv, DevicesKnown, VmKnown, Polling, StartsUp, HasDetached, In
<1>4. LinesKnown'
  <2> SUFFICES ASSUME NEW d \in Lines, VmOf[d] # t PROVE LineKnown(d)'
    <3>1. \A d \in Lines : d \in Devices /\ VmOf[d] \in Vms
      BY DmaAssumption
    <3> QED
      BY <3>1 DEF LinesKnown
  <2>1. VmOf[d] \in Vms \ {t}
    BY DmaAssumption
  <2>2. thread'[VmOf[d]] = thread[VmOf[d]] /\ answer'[VmOf[d]] = answer[VmOf[d]]
    BY <1>1, <2>1
  <2> QED
    BY <2>2 DEF DmaInv, LinesKnown, LineKnown, Watched, In
<1> QED
  BY <1>2, <1>3, <1>4 DEF DmaInv

\* The lock's holder is somebody else.
LEMMA HolderStays ==
  ASSUME DmaInv, NEW t \in Threads, domain' = domain, binding' = binding, domain.who # t,
         \A u \in Threads \ {t} : thread'[u] = thread[u] /\ drained'[u] = drained[u]
  PROVE  HolderKnown'
<1>1. domain.who \in Vms \cup {"irq"} =>
        thread'[domain.who] = thread[domain.who] /\ drained'[domain.who] = drained[domain.who]
  BY DEF Threads
<1>2. domain.who = "irq" => thread'["irq"] = thread["irq"]
  BY <1>1
<1> QED
  BY <1>1, <1>2 DEF DmaInv, HolderKnown, In, NoStream, Attached

\* Nobody holds it.
LEMMA FreedHolder == ASSUME domain'.who = Unlocked PROVE HolderKnown' /\ domain'.who # "boot"
BY DmaAssumption DEF HolderKnown

\* A thread of a VM that stays away from the device's interrupt.
LEMMA LineUnconcerned ==
  ASSUME NEW v \in Vms,
         \/ thread'[v].pc \notin {"idle", "unmask"}
         \/ thread'[v].pc = "idle" /\ answer'[v] # "Running"
  PROVE  \A d \in Lines : VmOf[d] = v => LineKnown(d)'
BY DEF LineKnown, In

LEMMA QuarantineVmOfSafe ==
  ASSUME SmmuInv, DmaInv, NEW v \in Vms, QuarantineVmOf(v) PROVE DmaInv'
<1>1. /\ v \in Threads /\ DmaTypeOK /\ VmKnown(v) /\ binding' = binding /\ Goto(v, "quarantine")
      /\ UNCHANGED <<entry, line, token, drained, answer, eoi>> /\ v # "boot" /\ v # "irq"
  BY DmaAssumption DEF QuarantineVmOf, DmaInv, DevicesKnown, Threads
<1>2. domain'.who = v /\ domain'.op \in {"none", "quarantine"}
  BY QuarantineVmOfKnown
<1>3. /\ thread' \in [Threads -> Positions] /\ \A u \in Threads \ {v} : thread'[u] = thread[u]
      /\ thread'[v].pc = "quarantine" /\ thread'[v].todo = thread[v].todo
  BY <1>1, GotoIs DEF ThreadPcs
<1>4. DmaTypeOK'
  BY <1>1, <1>3 DEF DmaTypeOK
<1>5. HolderKnown'
  BY <1>1, <1>2, <1>3 DEF HolderKnown, In
<1>6. VmKnown(v)'
  BY <1>1, <1>3 DEF VmKnown, Polling, StartsUp, HasDetached, In, StatesOf, DevicesOf, NoStream, Attached
<1> QED
  BY <1>1, <1>2, <1>3, <1>4, <1>5, <1>6, ThreadStep, LineUnconcerned

LEMMA IsolatedSafe ==
  ASSUME DmaInv, NEW v \in Vms, Isolated(v) PROVE DmaInv'
<1>1. /\ v \in Threads /\ DmaTypeOK /\ VmKnown(v) /\ binding' = binding /\ Return(v, "Failed")
      /\ UNCHANGED <<entry, line, token, drained, eoi>> /\ domain'.who = Unlocked
  BY DEF Isolated, DmaInv, DevicesKnown, Threads, Unlock, Inactive
<1>2. /\ thread' \in [Threads -> Positions] /\ \A u \in Threads \ {v} : thread'[u] = thread[u]
      /\ thread'[v].pc = "idle" /\ thread'[v].todo = {}
      /\ answer' \in [Vms -> Answers] /\ answer'[v] = "Failed" /\ \A u \in Vms \ {v} : answer'[u] = answer[u]
  BY <1>1, ReturnIs DEF Answers
<1>3. DmaTypeOK'
  BY <1>1, <1>2 DEF DmaTypeOK
<1>4. VmKnown(v)'
  BY <1>1, <1>2 DEF VmKnown, Polling, StartsUp, HasDetached, In, StatesOf, DevicesOf, NoStream, Attached
<1> QED
  BY <1>1, <1>2, <1>3, <1>4, FreedHolder, ThreadStep, LineUnconcerned

LEMMA DetachVmSafe ==
  ASSUME SmmuInv, DmaInv, NEW v \in Vms, DetachVm(v) PROVE DmaInv'
<1>1. /\ v \in Threads /\ DmaTypeOK /\ VmKnown(v) /\ binding' = binding /\ In(v, "detach")
      /\ UNCHANGED <<entry, line, token, drained, answer, eoi>> /\ v # "boot" /\ v # "irq"
  BY DmaAssumption DEF DetachVm, At, In, DmaInv, DevicesKnown, Threads
<1>2. CASE /\ domain'.who = v /\ domain'.op \in {"none", "detach"} /\ (domain'.op = "detach" => domain'.vm = v)
           /\ domain'.op = "none" => NoStream(v)
           /\ UNCHANGED thread
  <2>1. HolderKnown'
    BY <1>1, <1>2 DEF HolderKnown, In, NoStream, Attached
  <2>2. DmaTypeOK'
    BY <1>1, <1>2 DEF DmaTypeOK
  <2>3. VmKnown(v)'
    BY <1>1, <1>2 DEF VmKnown, Polling, StartsUp, HasDetached, In, StatesOf, DevicesOf, NoStream, Attached
  <2>4. thread'[v].pc \notin {"idle", "unmask"}
    BY <1>1, <1>2 DEF In
  <2> QED
    BY <1>1, <1>2, <2>1, <2>2, <2>3, <2>4, ThreadStep, LineUnconcerned
<1>3. CASE domain'.who = Unlocked /\ Holds(v) /\ Calling(v, "quiesced", {}, 0)
  <2>1. /\ thread' \in [Threads -> Positions] /\ \A u \in Threads \ {v} : thread'[u] = thread[u]
        /\ thread'[v].pc = "poll_events" /\ thread'[v].then = "quiesced" /\ thread'[v].todo = {}
    BY <1>1, <1>3, CallingIs
  <2>2. DmaTypeOK'
    BY <1>1, <2>1 DEF DmaTypeOK
  <2>3. NoStream(v)
    BY <1>1, <1>3 DEF DmaInv, HolderKnown, Holds
  <2>4. VmKnown(v)'
    BY <1>1, <2>1, <2>3 DEF VmKnown, Polling, StartsUp, HasDetached, In, StatesOf, DevicesOf, NoStream, Attached
  <2> QED
    BY <1>1, <1>3, <2>1, <2>2, <2>4, FreedHolder, ThreadStep, LineUnconcerned
<1> QED
  BY <1>2, <1>3, DetachVmKnown

LEMMA AttachVmSafe ==
  ASSUME SmmuInv, DmaInv, NEW v \in Vms, AttachVm(v) PROVE DmaInv'
<1>1. /\ v \in Threads /\ DmaTypeOK /\ VmKnown(v) /\ binding' = binding /\ In(v, "attach")
      /\ UNCHANGED <<entry, line, token, drained, answer, eoi>> /\ v # "boot" /\ v # "irq"
  BY DmaAssumption DEF AttachVm, At, In, DmaInv, DevicesKnown, Threads
<1>2. CASE /\ domain'.who = v /\ domain'.op \in {"none", "attach"} /\ (domain'.op = "attach" => domain'.vm = v)
           /\ UNCHANGED thread
  <2>1. HolderKnown'
    BY <1>1, <1>2 DEF HolderKnown, In
  <2>2. DmaTypeOK'
    BY <1>1, <1>2 DEF DmaTypeOK
  <2>3. VmKnown(v)'
    BY <1>1, <1>2 DEF VmKnown, Polling, StartsUp, HasDetached, In, StatesOf, DevicesOf, NoStream, Attached
  <2>4. thread'[v].pc \notin {"idle", "unmask"}
    BY <1>1, <1>2 DEF In
  <2> QED
    BY <1>1, <1>2, <2>1, <2>2, <2>3, <2>4, ThreadStep, LineUnconcerned
<1>3. ASSUME domain'.who = Unlocked, NEW pc \in {"fail", "prepare"}, Goto(v, pc) PROVE DmaInv'
  <2>1. pc \in ThreadPcs
    BY DEF ThreadPcs
  <2>2. /\ thread' \in [Threads -> Positions] /\ \A u \in Threads \ {v} : thread'[u] = thread[u]
        /\ thread'[v].pc = pc /\ thread'[v].todo = thread[v].todo
    BY <1>1, <1>3, <2>1, GotoIs
  <2>3. DmaTypeOK'
    BY <1>1, <2>2 DEF DmaTypeOK
  <2>4. VmKnown(v)'
    BY <1>1, <2>2 DEF VmKnown, Polling, StartsUp, HasDetached, In, StatesOf, DevicesOf, NoStream, Attached
  <2> QED
    BY <1>1, <1>3, <2>2, <2>3, <2>4, FreedHolder, ThreadStep, LineUnconcerned
<1>4. CASE Free /\ domain' = domain /\ Goto(v, "fail")
  BY <1>3, <1>4 DEF Free
<1>5. thread[v].gen \in Nat
  BY <1>1 DEF DmaTypeOK, Positions
<1> QED
  BY <1>2, <1>3, <1>4, <1>5, AttachVmKnown

LEMMA DispatchFaultSafe ==
  ASSUME SmmuInv, DmaInv, NEW t \in Vms \cup {"irq"}, DispatchFault(t) PROVE DmaInv'
<1>1. /\ t \in Threads /\ DmaTypeOK /\ binding' = binding /\ In(t, "dispatch") /\ drained[t] # <<>>
      /\ UNCHANGED <<entry, line, token, thread, answer, eoi>> /\ t # "boot"
  BY DmaAssumption DEF DispatchFault, At, In, DmaInv, Threads
<1>2. DmaTypeOK'
  BY <1>1 DEF DispatchFault, DmaTypeOK
<1>3. HolderKnown' /\ domain'.who # "boot"
  <2>1. CASE Free /\ domain' = domain
    BY <2>1, FreedHolder DEF Free
  <2>2. CASE domain'.who = t /\ domain'.op \in {"none", "quarantine"} /\ UNCHANGED drained
    BY <1>1, <2>2 DEF HolderKnown, In
  <2> QED
    BY <2>1, <2>2, FreedHolder, DispatchFaultKnown
<1>4. \A v \in Vms : VmKnown(v) => VmKnown(v)'
  BY <1>1 DEF VmKnown, Polling, StartsUp, HasDetached, In, StatesOf, DevicesOf, NoStream, Attached
<1>5. t \in Vms => VmKnown(t)' /\ thread'[t].pc \notin {"idle", "unmask"}
  BY <1>1, <1>4 DEF DmaInv, DevicesKnown, In
<1> QED
  BY <1>1, <1>2, <1>3, <1>5, ThreadStep, LineUnconcerned

LEMMA PollEventsSafe ==
  ASSUME DmaInv, NEW t \in Vms \cup {"irq"}, PollEvents(t) PROVE DmaInv'
<1>1. /\ t \in Threads /\ DmaTypeOK /\ domain' = domain /\ binding' = binding
      /\ thread[t].pc = "poll_events" \/ (t = "irq" /\ thread[t].pc = "idle")
      /\ Goto(t, "dispatch") /\ drained' = [drained EXCEPT ![t] = Faults]
      /\ UNCHANGED <<entry, line, token, answer, eoi>> /\ t # "boot"
  BY DmaAssumption DEF PollEvents, Drain, At, DmaInv, Threads
<1>2. domain.who # t
  BY <1>1, DmaAssumption DEF DmaInv, HolderKnown, In
<1>3. /\ thread' \in [Threads -> Positions] /\ \A u \in Threads \ {t} : thread'[u] = thread[u]
      /\ thread'[t].pc = "dispatch" /\ thread'[t].then = thread[t].then /\ thread'[t].todo = thread[t].todo
  BY <1>1, GotoIs DEF ThreadPcs
<1>4. DOMAIN drained' = Threads /\ \A u \in Threads \ {t} : drained'[u] = drained[u]
  BY <1>1 DEF DmaTypeOK
<1>5. DmaTypeOK'
  BY <1>1, <1>3, <1>4 DEF DmaTypeOK
<1>6. HolderKnown'
  BY <1>1, <1>2, <1>3, <1>4, HolderStays
<1>7. t \in Vms => VmKnown(t)' /\ thread'[t].pc \notin {"idle", "unmask"} /\ domain.who # "boot"
  <2> SUFFICES ASSUME t \in Vms PROVE VmKnown(t)' /\ thread'[t].pc \notin {"idle", "unmask"} /\ domain.who # "boot"
    OBVIOUS
  <2>1. VmKnown(t) /\ thread[t].pc = "poll_events"
    BY <1>1, DmaAssumption DEF DmaInv, DevicesKnown
  <2>2. VmKnown(t)'
    BY <1>1, <1>3, <2>1 DEF VmKnown, Polling, StartsUp, HasDetached, In, StatesOf, DevicesOf, NoStream, Attached
  <2> QED
    BY <1>3, <2>1, <2>2, NotBooting
<1> QED
  BY <1>1, <1>3, <1>5, <1>6, <1>7, ThreadStep, LineUnconcerned

LEMMA DispatchedSafe ==
  ASSUME DmaInv, NEW t \in Vms \cup {"irq"}, Dispatched(t) PROVE DmaInv'
<1> DEFINE then == thread[t].then
<1>1. /\ t \in Threads /\ DmaTypeOK /\ domain' = domain /\ binding' = binding
      /\ thread[t].pc = "dispatch" /\ drained[t] = <<>> /\ Goto(t, then)
      /\ UNCHANGED <<entry, line, token, drained, answer, eoi>> /\ t # "boot"
  BY DmaAssumption DEF Dispatched, RestSmmu, smmuVars, At, DmaInv, Threads
<1>2. domain.who # t
  BY <1>1 DEF DmaInv, HolderKnown, In
<1>3. then \in ThreadPcs
  BY <1>1 DEF DmaTypeOK, Positions, ThreadPcs
<1>4. /\ thread' \in [Threads -> Positions] /\ \A u \in Threads \ {t} : thread'[u] = thread[u]
      /\ thread'[t].pc = then /\ thread'[t].todo = thread[t].todo
  <2> HIDE DEF then
  <2> QED
    BY <1>1, <1>3, GotoIs
<1>5. DmaTypeOK'
  BY <1>1, <1>4 DEF DmaTypeOK
<1>6. HolderKnown'
  BY <1>1, <1>2, <1>4, HolderStays
<1>7. t \in Vms => VmKnown(t)' /\ thread'[t].pc \notin {"idle", "unmask"} /\ domain.who # "boot"
  <2> SUFFICES ASSUME t \in Vms PROVE VmKnown(t)' /\ thread'[t].pc \notin {"idle", "unmask"} /\ domain.who # "boot"
    OBVIOUS
  <2>1. VmKnown(t) /\ thread'[t].pc \in {"attach", "quiesced"} /\ thread'[t].pc = thread[t].then
    BY <1>1, <1>4 DEF DmaInv, DevicesKnown, VmKnown, Polling, In
  <2>2. VmKnown(t)'
    BY <1>1, <1>4, <2>1 DEF VmKnown, Polling, StartsUp, HasDetached, In, StatesOf, DevicesOf, NoStream, Attached
  <2> QED
    BY <1>1, <2>1, <2>2, NotBooting
<1> QED
  BY <1>1, <1>4, <1>5, <1>6, <1>7, ThreadStep, LineUnconcerned

-----------------------------------------------------------------------------
(* Boot, the interrupts and the hardware.                                  *)

LEMMA ProbeDevicesSafe ==
  ASSUME DmaInv, ProbeDevices PROVE DmaInv'
<1>1. /\ DmaTypeOK /\ domain.who = "boot" /\ binding' = binding /\ Goto("boot", "done")
      /\ "boot" \in Threads /\ answer' = [v \in Vms |-> "Complete"]
      /\ UNCHANGED <<line, token, drained, eoi>> /\ domain'.who = Unlocked
  BY DEF ProbeDevices, Holds, Unlock, Inactive, DmaInv, Threads
<1>2. /\ thread' \in [Threads -> Positions] /\ \A u \in Threads \ {"boot"} : thread'[u] = thread[u]
  BY <1>1, GotoIs DEF ThreadPcs
<1>3. PICK probed \in [Devices -> {"Quiesced", "Unavailable", "Failed"}] :
        entry' = [d \in Devices |-> [entry[d] EXCEPT !.state = probed[d], !.blocked = probed[d] = "Quiesced"]]
  BY DEF ProbeDevices
<1>4. entry' \in [Devices -> Entries] /\ \A d \in Devices : entry'[d].state \in {"Quiesced", "Unavailable", "Failed"}
  <2>1. ASSUME NEW d \in Devices, NEW b \in BOOLEAN
        PROVE  /\ [entry[d] EXCEPT !.state = probed[d], !.blocked = b] \in Entries
               /\ [entry[d] EXCEPT !.state = probed[d], !.blocked = b].state = probed[d]
    <3>1. entry[d] \in Entries /\ probed[d] \in States
      BY <1>1, <1>3 DEF DmaTypeOK, States
    <3> QED
      BY <3>1 DEF Entries
  <2>2. \A d \in Devices : entry'[d] \in Entries /\ entry'[d].state = probed[d]
    BY <1>3, <2>1
  <2> QED
    BY <1>3, <2>2
<1>5. DmaTypeOK'
  BY <1>1, <1>2, <1>4 DEF DmaTypeOK, Answers
<1>6. HolderKnown' /\ BootQuiet'
  BY <1>1, FreedHolder DEF BootQuiet
<1>7. ASSUME NEW v \in Vms PROVE VmKnown(v)'
  <2>1. v \in Threads \ {"boot"} /\ thread[v].pc = "idle" /\ NoStream(v)
    BY <1>1, DmaAssumption DEF Threads, DmaInv, BootQuiet, NoStream, StreamsOf
  <2>2. "Active" \notin StatesOf(v)'
    BY <1>4 DEF StatesOf, DevicesOf
  <2>3. NoStream(v)' <=> NoStream(v)
    BY <1>1 DEF NoStream, Attached
  <2> QED
    BY <1>2, <2>1, <2>2, <2>3 DEF DmaInv, DevicesKnown, VmKnown, Polling, StartsUp, HasDetached, In, DevicesOf
<1>8. ASSUME NEW d \in Lines PROVE LineKnown(d)'
  <2>1. d \in Devices
    BY DmaAssumption
  <2> QED
    BY <1>4, <2>1 DEF LineKnown
<1> QED
  BY <1>5, <1>6, <1>7, <1>8 DEF DmaInv, DevicesKnown, LinesKnown

\* A step that changes no device's state and no thread.
LEMMA SameStates ==
  ASSUME DmaInv, domain' = domain, binding' = binding, drained' = drained, thread' = thread, answer' = answer,
         domain.who # "boot", DmaTypeOK', LinesKnown',
         \A d \in Devices : entry'[d].state = entry[d].state
  PROVE  DmaInv'
<1>1. HolderKnown' /\ BootQuiet'
  BY DEF DmaInv, HolderKnown, BootQuiet, In, NoStream, Attached
<1>2. ASSUME NEW v \in Vms PROVE VmKnown(v)'
  <2>1. StatesOf(v)' = StatesOf(v)
    BY DEF StatesOf, DevicesOf
  <2>2. NoStream(v)' <=> NoStream(v)
    BY DEF NoStream, Attached
  <2> QED
    BY <2>1, <2>2 DEF DmaInv, DevicesKnown, VmKnown, Polling, StartsUp, HasDetached, In
<1> QED
  BY <1>1, <1>2 DEF DmaInv, DevicesKnown

LEMMA HandleIrqSafe ==
  ASSUME DmaInv, NEW d \in Devices, HandleIrq(d) PROVE DmaInv'
<1> DEFINE v == VmOf[d]
<1>1. /\ v \in Vms /\ v \in Threads /\ DmaTypeOK /\ VmKnown(v) /\ LinesKnown
      /\ thread[v].pc = "idle" /\ line[d] = "open"
      /\ domain' = domain /\ binding' = binding /\ line' = [line EXCEPT ![d] = "masked"]
      /\ UNCHANGED <<entry, drained, answer, eoi>>
  BY DmaAssumption DEF HandleIrq, At, RestSmmu, smmuVars, DmaInv, DevicesKnown, Threads
<1>2. \/ entry[d].state # "Active" /\ UNCHANGED <<token, thread>>
      \/ token' = [token EXCEPT ![d] = entry[d].generation] /\ UNCHANGED thread
      \/ Goto(v, "fail") /\ UNCHANGED token
  BY DEF HandleIrq
<1>3. domain.who # v /\ domain.who # "boot"
  BY <1>1, NotHolding DEF DmaInv, BootQuiet
<1> HIDE DEF v
<1>4. /\ line' \in [Devices -> {"masked", "open"}] /\ \A x \in Devices \ {d} : line'[x] = line[x]
  BY <1>1, LineSet
<1>5. /\ token' \in [Devices -> Nat] /\ \A x \in Devices \ {d} : token'[x] = token[x]
  BY <1>1, <1>2 DEF DmaTypeOK, Entries
<1>6. /\ thread' \in [Threads -> Positions] /\ \A u \in Threads \ {v} : thread'[u] = thread[u]
      /\ thread'[v].todo = thread[v].todo
      /\ thread' = thread \/ thread'[v].pc = "fail"
  <2>1. CASE thread' = thread
    BY <1>1, <2>1 DEF DmaTypeOK
  <2>2. CASE Goto(v, "fail")
    BY <1>1, <2>2, GotoIs DEF ThreadPcs
  <2> QED
    BY <1>2, <2>1, <2>2
<1>7. DmaTypeOK'
  BY <1>1, <1>4, <1>5, <1>6 DEF DmaTypeOK
<1>8. VmKnown(v)'
  BY <1>1, <1>6 DEF VmKnown, Polling, StartsUp, HasDetached, In, StatesOf, DevicesOf, NoStream, Attached
<1>9. ASSUME NEW x \in Lines, VmOf[x] = v PROVE LineKnown(x)'
  <2>1. x \in Devices /\ LineKnown(x)
    BY <1>1, DmaAssumption DEF LinesKnown
  <2>2. CASE thread'[v].pc = "fail"
    BY <1>9, <2>2 DEF LineKnown, In
  <2>3. CASE thread' = thread /\ x # d
    BY <1>1, <1>4, <1>5, <2>1, <2>3 DEF LineKnown, Watched, In
  <2>4. CASE thread' = thread /\ x = d
    <3>1. entry'[x].state = "Active" => token'[x] = entry'[x].generation \/ thread'[v].pc = "fail"
      <4>1. CASE entry[d].state # "Active"
        BY <1>1, <2>4, <4>1
      <4>2. CASE token' = [token EXCEPT ![d] = entry[d].generation]
        BY <1>1, <2>4, <4>2 DEF DmaTypeOK
      <4>3. CASE Goto(v, "fail")
        BY <1>1, <4>3, GotoIs DEF ThreadPcs
      <4> QED
        BY <1>2, <4>1, <4>2, <4>3
    <3> QED
      BY <2>2, <3>1 DEF LineKnown, Watched
  <2> QED
    BY <1>6, <2>2, <2>3, <2>4
<1>10. \A x \in Devices : VmOf[x] # v => entry'[x] = entry[x] /\ line'[x] = line[x] /\ token'[x] = token[x]
  BY <1>1, <1>4, <1>5 DEF v
<1> QED
  BY <1>1, <1>3, <1>6, <1>7, <1>8, <1>9, <1>10, VmStep

LEMMA VirtualEoiSafe ==
  ASSUME DmaInv, NEW d \in Devices, VirtualEoi(d) PROVE DmaInv'
<1> DEFINE v == VmOf[d]
           current == entry[d].state = "Active" /\ entry[d].generation = token[d]
<1>1. /\ v \in Vms /\ DmaTypeOK /\ LinesKnown /\ token[d] # 0 /\ token' = [token EXCEPT ![d] = 0]
      /\ domain' = domain /\ binding' = binding
      /\ UNCHANGED <<entry, line, thread, drained, answer>>
  BY DmaAssumption DEF VirtualEoi, RestSmmu, smmuVars, DmaInv
<1>2. IF current THEN eoi' = [eoi EXCEPT ![v] = eoi[v] \cup {d}] ELSE eoi' = eoi
  BY DEF VirtualEoi
<1>3. domain.who # "boot"
  BY <1>1 DEF DmaInv, BootQuiet
<1>4. /\ eoi' \in [Vms -> SUBSET Devices]
      /\ \A u \in Vms : eoi[u] \subseteq eoi'[u]
      /\ current => d \in eoi'[v]
  <2>1. eoi \in [Vms -> SUBSET Devices] /\ eoi[v] \cup {d} \in SUBSET Devices
    BY <1>1 DEF DmaTypeOK
  <2> HIDE DEF v, current
  <2> QED
    BY <1>1, <1>2, <2>1
<1> HIDE DEF current
<1>5. token' \in [Devices -> Nat] /\ token'[d] = 0 /\ \A x \in Devices \ {d} : token'[x] = token[x]
  BY <1>1 DEF DmaTypeOK
<1>6. DmaTypeOK'
  BY <1>1, <1>4, <1>5 DEF DmaTypeOK
<1>7. ASSUME NEW x \in Lines PROVE LineKnown(x)'
  <2>1. x \in Devices /\ VmOf[x] \in Vms /\ LineKnown(x)
    BY <1>1, DmaAssumption DEF LinesKnown
  <2>2. Watched(x) /\ entry[x].state = "Active" => Watched(x)'
    <3>1. CASE x = d
      BY <1>1, <1>4, <2>1, <3>1 DEF Watched, current
    <3>2. CASE x # d
      BY <1>1, <1>4, <1>5, <2>1, <3>2 DEF Watched
    <3> QED
      BY <3>1, <3>2
  <2> QED
    BY <1>1, <2>1, <2>2 DEF LineKnown, In
<1> QED
  BY <1>1, <1>3, <1>6, <1>7, SameStates DEF LinesKnown

LEMMA RearmSafe ==
  ASSUME DmaInv, NEW d \in Devices, Rearm(d) PROVE DmaInv'
<1> DEFINE v == VmOf[d]
<1>1. /\ v \in Vms /\ DmaTypeOK /\ LinesKnown /\ d \in eoi[v] /\ eoi' = [eoi EXCEPT ![v] = eoi[v] \ {d}]
      /\ line' = [line EXCEPT ![d] = "open"]
      /\ domain' = domain /\ binding' = binding
      /\ UNCHANGED <<entry, token, thread, drained, answer>>
  BY DmaAssumption DEF Rearm, RestSmmu, smmuVars, DmaInv
<1> HIDE DEF v
<1>2. domain.who # "boot"
  BY <1>1 DEF DmaInv, BootQuiet
<1>3. /\ eoi' \in [Vms -> SUBSET Devices]
      /\ \A u \in Vms, x \in Devices : x # d /\ x \in eoi[u] => x \in eoi'[u]
  <2>1. eoi \in [Vms -> SUBSET Devices] /\ eoi[v] \ {d} \in SUBSET Devices
    BY <1>1 DEF DmaTypeOK
  <2> QED
    BY <1>1, <2>1
<1>4. /\ line' \in [Devices -> {"masked", "open"}] /\ line'[d] = "open"
      /\ \A x \in Devices \ {d} : line'[x] = line[x]
  BY <1>1, LineSet
<1>5. DmaTypeOK'
  BY <1>1, <1>3, <1>4 DEF DmaTypeOK
<1>6. ASSUME NEW x \in Lines PROVE LineKnown(x)'
  <2>1. x \in Devices /\ VmOf[x] \in Vms /\ LineKnown(x)
    BY <1>1, DmaAssumption DEF LinesKnown
  <2>2. Watched(x) => Watched(x)'
    <3>1. CASE x = d
      BY <1>4, <3>1 DEF Watched
    <3>2. CASE x # d
      BY <1>1, <1>3, <1>4, <2>1, <3>2 DEF Watched
    <3> QED
      BY <3>1, <3>2
  <2> QED
    BY <1>1, <2>1, <2>2 DEF LineKnown, In
<1> QED
  BY <1>1, <1>2, <1>5, <1>6, SameStates DEF LinesKnown

LEMMA ExpireSafe ==
  ASSUME DmaInv, NEW d \in Devices, Expire(d) PROVE DmaInv'
<1>1. /\ DmaTypeOK /\ LinesKnown /\ entry[d].state = "Quiescing" /\ entry' = [entry EXCEPT ![d].expired = TRUE]
      /\ domain' = domain /\ binding' = binding
      /\ UNCHANGED <<line, token, thread, drained, answer, eoi>>
  BY DEF Expire, RestSmmu, smmuVars, DmaInv
<1>2. domain.who # "boot"
  BY <1>1 DEF DmaInv, BootQuiet
<1>3. /\ entry' \in [Devices -> Entries]
      /\ \A x \in Devices : entry'[x].state = entry[x].state /\ entry'[x].generation = entry[x].generation
  <2>1. \A x \in Devices : entry[x] \in Entries
    BY <1>1 DEF DmaTypeOK
  <2>2. [entry[d] EXCEPT !.expired = TRUE] \in Entries
    BY <2>1 DEF Entries
  <2>3. entry' = [entry EXCEPT ![d] = [entry[d] EXCEPT !.expired = TRUE]]
    BY <1>1
  <2> QED
    BY <1>1, <2>1, <2>2, <2>3 DEF DmaTypeOK, Entries
<1>4. DmaTypeOK'
  BY <1>1, <1>3 DEF DmaTypeOK
<1>5. LinesKnown'
  BY <1>1, <1>3, DmaAssumption DEF LinesKnown, LineKnown, Watched, In
<1> QED
  BY <1>1, <1>2, <1>3, <1>4, <1>5, SameStates

\* The bus mastering of the devices, the hardware's caches and its queues.
LEMMA DmaStays ==
  ASSUME DmaInv, domain' = domain, binding' = binding,
         UNCHANGED <<entry, line, token, thread, drained, answer, eoi>>
  PROVE  DmaInv'
<1>1. DmaTypeOK' /\ HolderKnown' /\ BootQuiet'
  BY DEF DmaInv, DmaTypeOK, HolderKnown, BootQuiet, In, NoStream, Attached
<1>2. DevicesKnown'
  BY DEF DmaInv, DevicesKnown, VmKnown, Polling, StartsUp, HasDetached, In, StatesOf, DevicesOf, NoStream, Attached
<1>3. LinesKnown'
  BY DEF DmaInv, LinesKnown, LineKnown, Watched, In
<1> QED
  BY <1>1, <1>2, <1>3 DEF DmaInv

LEMMA HardwareSafe ==
  ASSUME DmaInv, Hardware PROVE DmaInv'
<1>1. domain' = domain /\ binding' = binding /\ UNCHANGED dmaVars
  BY DEF Hardware, HwConsume, HwFetch, HwTranslate
<1> QED
  BY <1>1, DmaStays DEF dmaVars

LEMMA DeviceSafe ==
  ASSUME DmaInv, NEW d \in Devices, StartDma(d) \/ EndDma(d) PROVE DmaInv'
<1>1. /\ domain' = domain /\ binding' = binding
      /\ UNCHANGED <<entry, line, token, thread, drained, answer, eoi>>
  BY DEF StartDma, EndDma, RestSmmu, smmuVars
<1> QED
  BY <1>1, DmaStays

LEMMA DomainStepSafe ==
  ASSUME SmmuInv, DmaInv, DomainStep, UNCHANGED dmaVars PROVE DmaInv'
<1>1. /\ SmmuTypeOK /\ OperationKnown /\ RestKnown /\ domain.op # "none"
      /\ UNCHANGED <<entry, line, token, thread, drained, answer, eoi>>
  BY DEF SmmuInv, DomainStep, dmaVars
<1>2. /\ domain.op \in BootOps \cup StreamOps /\ domain.rest # {} /\ domain.who # Unlocked
      /\ domain.who \in Threads
  BY <1>1 DEF SmmuTypeOK, Operations, OperationKnown
<1>3. This \in Streams /\ This \in domain.rest
  BY <1>1, <1>2, ThisIs
<1>4. /\ domain' = domain \/ domain' = Onward \/ domain' = AfterSection
      /\ \/ binding' = binding
         \/ domain.op = "start" /\ binding' = [x \in Streams |-> [state |-> "Detached", generation |-> 0]]
         \/ /\ domain.op \in StreamOps /\ domain' = AfterSection
            /\ \E state \in Bindings : \E gen :
                 /\ binding' = [binding EXCEPT ![This] = [state |-> state, generation |-> gen]]
                 /\ state = "Attached" => domain.op = "attach"
                 /\ domain.op = "detach" => state = "Detached"
      /\ domain' = AfterSection /\ domain.op = "detach" =>
           \E gen : binding' = [binding EXCEPT ![This] = [state |-> "Detached", generation |-> gen]]
  BY DomainStepFrame
<1>5. /\ domain'.who = domain.who
      /\ \/ domain'.op = domain.op /\ domain'.vm = domain.vm
         \/ domain'.op = "none" /\ domain' = AfterSection /\ domain.rest \ {This} = {} /\ domain.op \in StreamOps
         \/ domain.who = "boot"
  <2>1. CASE domain' = domain
    BY <2>1
  <2>2. CASE domain' = Onward
    BY <1>1, <2>2, OnwardIs
  <2>3. CASE domain' = AfterSection /\ domain.op \in StreamOps
    BY <1>1, <2>3, AfterStream
  <2>4. CASE domain' = AfterSection /\ domain.op \in BootOps
    BY <1>1, <2>4, AfterBoot
  <2> QED
    BY <1>2, <1>4, <2>1, <2>2, <2>3, <2>4
<1>6. \A s \in Streams : Attached(s)' => Attached(s) \/ (domain.op = "attach" /\ s = This)
  <2>1. binding \in [Streams -> [state : Bindings, generation : Nat]]
    BY <1>1 DEF SmmuTypeOK
  <2> QED
    BY <1>3, <1>4, <2>1 DEF Attached
<1>7. domain.op = "attach" =>
        /\ domain.who \in Vms /\ In(domain.who, "attach") /\ OwnerOf[This] = domain.who
  <2> SUFFICES ASSUME domain.op = "attach"
               PROVE  domain.who \in Vms /\ In(domain.who, "attach") /\ OwnerOf[This] = domain.who
    OBVIOUS
  <2>1. domain.who # "boot" /\ domain.who # "irq"
    BY <1>1 DEF OperationKnown, BootOps, DmaInv, HolderKnown
  <2>2. domain.who \in Vms /\ In(domain.who, "attach") /\ domain.vm = domain.who
    BY <1>2, <2>1 DEF Threads, DmaInv, HolderKnown
  <2> QED
    BY <1>1, <1>3, <2>2 DEF RestKnown, StreamOps
<1>8. \A v \in Vms : NoStream(v) => NoStream(v)' \/ (domain.op = "attach" /\ v = domain.who)
  BY <1>6, <1>7 DEF NoStream, StreamsOf
<1>9. HolderKnown'
  <2>1. domain.who \in Vms /\ domain'.op = "none" /\ In(domain.who, "detach") => NoStream(domain.who)'
    <3> SUFFICES ASSUME domain.who \in Vms, domain'.op = "none", In(domain.who, "detach") PROVE NoStream(domain.who)'
      OBVIOUS
    <3>1. /\ domain.who # "boot" /\ domain' = AfterSection /\ domain.rest \ {This} = {}
          /\ domain.op \in StreamOps
      BY <1>1, <1>5, DmaAssumption
    <3>2. domain.op = "detach" /\ domain.vm = domain.who
      BY <3>1 DEF DmaInv, HolderKnown, StreamOps, In
    <3>3. \A s \in StreamsOf(domain.who) : Attached(s) => s = This
      BY <1>1, <3>1, <3>2 DEF RestKnown
    <3>4. PICK gen : binding' = [binding EXCEPT ![This] = [state |-> "Detached", generation |-> gen]]
      BY <1>4, <3>1, <3>2
    <3>5. \A s \in Streams : s # This => binding'[s] = binding[s]
      BY <1>1, <3>4 DEF SmmuTypeOK
    <3>6. binding'[This].state = "Detached"
      BY <1>1, <1>3, <3>4 DEF SmmuTypeOK
    <3> QED
      BY <1>5, <3>3, <3>5, <3>6 DEF NoStream, StreamsOf, Attached
  <2>2. domain.who = "boot" => domain.who \notin Vms \cup {"irq"}
    BY DmaAssumption
  <2> QED
    BY <1>1, <1>5, <2>1, <2>2 DEF DmaInv, HolderKnown, In, StreamOps
<1>10. BootQuiet'
  <2> SUFFICES ASSUME domain.who = "boot" PROVE BootQuiet'
    BY <1>5 DEF BootQuiet
  <2>1. domain.op # "attach"
    BY <1>1 DEF OperationKnown, BootOps
  <2> QED
    BY <1>1, <1>6, <2>1 DEF DmaInv, BootQuiet
<1>11. ASSUME NEW v \in Vms PROVE VmKnown(v)'
  <2>1. VmKnown(v) /\ StatesOf(v)' = StatesOf(v)
    BY <1>1 DEF DmaInv, DevicesKnown, StatesOf, DevicesOf
  <2>2. CASE domain.op = "attach" /\ v = domain.who
    <3>1. In(v, "attach")
      BY <1>7, <2>2
    <3> QED
      BY <1>1, <2>1, <3>1 DEF VmKnown, Polling, StartsUp, HasDetached, In, DevicesOf
  <2>3. CASE NoStream(v) => NoStream(v)'
    BY <1>1, <2>1, <2>3 DEF VmKnown, Polling, StartsUp, HasDetached, In, DevicesOf
  <2> QED
    BY <1>8, <2>2, <2>3
<1>12. LinesKnown' /\ DmaTypeOK'
  BY <1>1 DEF DmaInv, DmaTypeOK, LinesKnown, LineKnown, Watched, In
<1> QED
  BY <1>9, <1>10, <1>11, <1>12 DEF DmaInv, DevicesKnown

-----------------------------------------------------------------------------
(* The invariant.                                                          *)

LEMMA DmaNext ==
  ASSUME SmmuInv, DmaInv, Next
  PROVE  DmaInv'
<1>1. CASE DomainStep /\ UNCHANGED dmaVars
  BY <1>1, DomainStepSafe
<1>2. CASE ProbeDevices
  BY <1>2, ProbeDevicesSafe
<1>3. ASSUME NEW v \in Vms, Call(v) \/ Walk(v) PROVE DmaInv'
  <2>1. CASE Call(v)
    BY <2>1, CallKnown
  <2>2. CASE FailOwner(v) \/ Isolate(v) \/ Block(v) \/ CompleteQuiesce(v) \/ EnterDetaching(v) \/ Quiesced(v)
    BY <2>2, FailOwnerKnown, IsolateKnown, BlockKnown, CompleteQuiesceKnown, EnterDetachingKnown, QuiescedKnown
  <2>3. CASE PrepareDevices(v) \/ Activate(v) \/ UnmaskDevices(v)
    BY <2>3, PrepareDevicesKnown, ActivateKnown, UnmaskDevicesKnown
  <2>4. CASE QuarantineVmOf(v) \/ Isolated(v) \/ DetachVm(v) \/ AttachVm(v)
    BY <2>4, QuarantineVmOfSafe, IsolatedSafe, DetachVmSafe, AttachVmSafe
  <2> QED
    BY <1>3, <2>1, <2>2, <2>3, <2>4 DEF Walk
<1>4. ASSUME NEW t \in Vms \cup {"irq"}, Events(t) PROVE DmaInv'
  BY <1>4, PollEventsSafe, DispatchFaultSafe, DispatchedSafe DEF Events
<1>5. ASSUME NEW d \in Devices, Interrupts(d) \/ StartDma(d) \/ EndDma(d) \/ Expire(d) PROVE DmaInv'
  BY <1>5, HandleIrqSafe, VirtualEoiSafe, RearmSafe, DeviceSafe, ExpireSafe DEF Interrupts
<1>6. CASE Hardware
  BY <1>6, HardwareSafe
<1> QED
  BY <1>1, <1>2, <1>3, <1>4, <1>5, <1>6 DEF Next

LEMMA InitSmmu == ASSUME Init PROVE SmmuInv
<1>1. /\ domain.who = "boot" /\ domain.op = "start" /\ domain.vm = NoVm /\ domain.gen = 0
      /\ domain.rest = Streams /\ domain.pc = 1 /\ domain \in Operations /\ Streams # {}
  <2>1. Streams # {}
    BY SmmuAssumption DEF Streams
  <2> QED
    BY <2>1 DEF Init, SmmuInit, Begin, Operations, BootOps, Threads, Owners
<1>2. Zero \in Ste /\ Zero.w0 = "invalid"
  BY DEF Zero, Ste, Word0, Roots
<1>3. /\ ste = [s \in Streams |-> Zero] /\ cmdq = <<>> /\ cr0 \subseteq Enables
      /\ binding = [s \in Streams |-> [state |-> "Detached", generation |-> 0]]
  BY DEF Init, SmmuInit
<1>4. cfg \in [Streams -> Ste \cup {NoEntry}]
  <2>1. [w0 |-> "stage2", root |-> Foreign, gen |-> 0] \in Ste
    BY DEF Ste, Word0, Roots
  <2>2. PICK stale \in SUBSET Streams :
          cfg = [s \in Streams |-> IF s \in stale
                   THEN [w0 |-> "stage2", root |-> Foreign, gen |-> 0] ELSE NoEntry]
    BY DEF Init, SmmuInit
  <2> QED
    BY <2>1, <2>2
<1>5. SmmuTypeOK
  <2>1. binding \in [Streams -> [state : Bindings, generation : Nat]]
    BY <1>3 DEF Bindings
  <2>2. cmdq \in Seq(Commands)
    BY <1>3
  <2> QED
    BY <1>1, <1>2, <1>3, <1>4, <2>1, <2>2 DEF SmmuTypeOK
<1>6. OperationKnown /\ RestKnown /\ PcKnown /\ RegistersKnown
  BY <1>1, DmaAssumption DEF OperationKnown, RestKnown, PcKnown, RegistersKnown, BootOps, StreamOps
<1>7. TableKnown /\ CacheKnown
  BY <1>1, <1>2, <1>3 DEF TableKnown, CacheKnown, Stale
<1>8. InstallKnown /\ AbortKnown /\ TlbKnown /\ QueueKnown
  BY <1>1, <1>3 DEF InstallKnown, AbortKnown, TlbKnown, QueueKnown
<1> QED
  BY <1>5, <1>6, <1>7, <1>8 DEF SmmuInv

LEMMA InitDma == ASSUME Init PROVE DmaInv
<1>1. domain.who = "boot" /\ binding = [s \in Streams |-> [state |-> "Detached", generation |-> 0]]
  BY DEF Init, SmmuInit, Begin, Inactive
<1>2. Resting \in Positions /\ Resting.pc = "idle" /\ Resting.then = "idle" /\ Resting.todo = {}
  BY DEF Resting, Positions, ThreadPcs
<1>3. /\ line = [d \in Devices |-> "masked"] /\ token = [d \in Devices |-> 0]
      /\ drained = [t \in Threads |-> <<>>] /\ thread = [t \in Threads |-> Resting]
      /\ answer = [v \in Vms |-> "Booting"] /\ eoi = [v \in Vms |-> {}]
      /\ entry = [d \in Devices |-> [state |-> "Unavailable", generation |-> 0, expired |-> FALSE, blocked |-> TRUE]]
  BY DEF Init
<1>4. entry \in [Devices -> Entries] /\ \A d \in Devices : entry[d].state = "Unavailable"
  BY <1>3 DEF Entries, States
<1>5. DmaTypeOK
  BY <1>2, <1>3, <1>4 DEF DmaTypeOK, Answers
<1>6. HolderKnown
  BY <1>1, DmaAssumption DEF HolderKnown
<1>7. \A v \in Vms : thread[v].pc = "idle" /\ thread[v].todo = {} /\ answer[v] = "Booting"
  BY <1>2, <1>3 DEF Threads
<1>8. BootQuiet
  BY <1>1, <1>3, <1>4, <1>7 DEF BootQuiet, Attached
<1>9. ASSUME NEW v \in Vms PROVE VmKnown(v)
  <2>1. "Quiesced" \notin StatesOf(v)
    BY <1>4 DEF StatesOf, DevicesOf
  <2> QED
    BY <1>7, <2>1 DEF VmKnown, Polling, StartsUp, HasDetached, In
<1>10. LinesKnown
  BY <1>4, DmaAssumption DEF LinesKnown, LineKnown
<1> QED
  BY <1>5, <1>6, <1>8, <1>9, <1>10 DEF DmaInv, DevicesKnown

LEMMA IInvStutters == ASSUME IInv, UNCHANGED vars PROVE IInv'
<1>1. Stays /\ domain' = domain /\ binding' = binding
      /\ UNCHANGED <<entry, line, token, thread, drained, answer, eoi>>
  BY DEF vars, smmuVars, dmaVars, Stays
<1> QED
  BY <1>1, StaysKnown, DmaStays DEF IInv

\* The invariant of the driver and the devices holds in every state, whatever
\* firmware left behind, whoever holds the domain lock and wherever it stopped.
THEOREM DmaInvariant == Spec => []IInv
<1>1. Init => IInv
  BY InitSmmu, InitDma DEF IInv
<1>2. IInv /\ [Next]_vars => IInv'
  BY SmmuNext, DmaNext, IInvStutters DEF IInv
<1> QED
  BY <1>1, <1>2, PTL DEF Spec

-----------------------------------------------------------------------------
(* What the invariant means for memory and for the guests.                 *)

LEMMA IInvIsolates == ASSUME IInv PROVE IsolatedWhenQuiet
<1>1. SmmuInv /\ DmaInv
  BY DEF IInv
<1>2. ASSUME NEW s \in Streams, Configured(s), entry[Issuer[s]].state = "Quiesced" PROVE Reaches(s) = {}
  <2> DEFINE v == OwnerOf[s]
  <2>1. Issuer[s] \in Devices /\ VmOf[Issuer[s]] = v /\ v \in Vms
    BY <1>2, SmmuAssumption, DmaAssumption DEF Configured
  <2>2. "Quiesced" \in StatesOf(v)
    BY <1>2, <2>1 DEF StatesOf, DevicesOf
  <2>3. VmKnown(v) /\ s \in StreamsOf(v)
    BY <1>1, <2>1 DEF DmaInv, DevicesKnown, StreamsOf
  <2>4. ~Attached(s) /\ ~StartsUp(v)
    BY <2>2, <2>3 DEF VmKnown, NoStream
  <2>5. domain.who # "boot" /\ domain.op \notin BootOps
    BY <1>1, <1>2, <2>1 DEF DmaInv, BootQuiet, SmmuInv, OperationKnown
  <2>6. ~Route(s)
    <3> SUFFICES ASSUME domain.op = "attach", s = This PROVE FALSE
      BY <2>4 DEF Route
    <3>1. This \in domain.rest /\ domain.who \in Threads
      BY <1>1, ThisIs DEF SmmuInv, OperationKnown, SmmuTypeOK, Operations
    <3>2. domain.vm = v
      BY <1>1, <3>1 DEF SmmuInv, RestKnown, StreamOps
    <3>3. domain.who \in Vms /\ In(domain.who, "attach") /\ domain.vm = domain.who
      BY <1>1, <2>5, <3>1 DEF Threads, DmaInv, HolderKnown
    <3> QED
      BY <2>4, <3>2, <3>3 DEF StartsUp
  <2>7. cr0 = Enables /\ ~Stale(s)
    BY <1>1, <2>5 DEF SmmuInv, RegistersKnown, Stale, BootOps
  <2>8. ste[s].w0 # "stage2" /\ cfg[s].w0 # "stage2"
    BY <1>1, <2>6, <2>7 DEF SmmuInv, TableKnown, CacheKnown
  <2> QED
    BY <2>7, <2>8 DEF Reaches, Enables
<1>3. ASSUME NEW v \in Vms, Free, \A s \in StreamsOf(v) : binding[s].state # "Attached" PROVE v \notin tlb
  <2>1. domain.op = "none"
    BY <1>1, <1>3, FreeIsIdle
  <2> QED
    BY <1>1, <1>3, <2>1 DEF SmmuInv, TlbKnown, Flushing, Route, Attached
<1> QED
  BY <1>2, <1>3 DEF IsolatedWhenQuiet

LEMMA IInvReaches == ASSUME IInv PROVE ReachesOwnVm
<1>1. SmmuInv
  BY DEF IInv
<1> SUFFICES ASSUME Protected, NEW s \in Streams PROVE Reaches(s) \subseteq {OwnerOf[s]} \ {NoVm}
  BY DEF ReachesOwnVm
<1>2. Len(ShutDown) = 2
  BY DEF ShutDown
<1>3. domain.op = "start" => domain.pc > 2
  BY <1>2 DEF Protected
<1>4. CASE "smmu" \notin cr0
  <2>1. gbpa = "abort"
    BY <1>1, <1>3 DEF SmmuInv, RegistersKnown
  <2> QED
    BY <1>4, <2>1 DEF Reaches
<1>5. CASE "smmu" \in cr0
  <2>1. domain.op \notin {"start", "invalidate"}
    BY <1>1, <1>3, <1>5, TranslationIsOn DEF StreamOps
  <2>2. ~Stale(s)
    BY <2>1 DEF Stale
  <2>3. /\ ste[s].w0 = "stage2" => ste[s].root = OwnerOf[s] /\ Route(s)
        /\ cfg[s].w0 = "stage2" => cfg[s].root = OwnerOf[s] /\ Route(s)
    BY <1>1, <2>2 DEF SmmuInv, TableKnown, CacheKnown
  <2>4. Route(s) => OwnerOf[s] # NoVm
    BY SmmuAssumption DEF Route
  <2> QED
    BY <1>5, <2>3, <2>4 DEF Reaches
<1> QED
  BY <1>4, <1>5

LEMMA IInvUnmasks == ASSUME IInv PROVE LineComesBack
BY DEF IInv, DmaInv, LinesKnown, LineKnown, Watched, In, LineComesBack

\* The body of an entry is written by an attach alone, between the
\* invalidation of the entry and its new word 0.
LEMMA BodyMoves ==
  ASSUME SmmuInv, DomainStep
  PROVE  \/ \A s \in Streams : ste'[s].root = ste[s].root /\ ste'[s].gen = ste[s].gen
         \/ /\ domain.op = "attach" /\ domain.pc = 5
            /\ \A s \in Streams \ {This} : ste'[s] = ste[s]
<1> DEFINE Same == \A s \in Streams : ste'[s].root = ste[s].root /\ ste'[s].gen = ste[s].gen
<1>1. SmmuTypeOK /\ domain.rest # {} /\ domain.op \in BootOps \cup StreamOps /\ domain.vm \in Owners /\ domain.gen \in Nat
  BY DEF SmmuInv, SmmuTypeOK, Operations, OperationKnown, DomainStep
<1>2. This \in Streams
  BY <1>1, ThisIs
<1>3. ASSUME NEW step, NEW next,
             \/ WriteGbpa(step, next) \/ WriteCr0(step, next) \/ WaitIdle(step, next)
             \/ Push(step, next) \/ Bind(step, next)
      PROVE  Same
  <2>1. ste' = ste
    BY <1>3 DEF WriteGbpa, WriteCr0, WaitIdle, Push, Bind, Halt
  <2> QED
    BY <2>1
<1>4. ASSUME NEW w \in Word0, NEW next, WriteWord0(<<"w0", This, w>>, next) PROVE Same
  <2>1. ste' = [ste EXCEPT ![This].w0 = w]
    BY <1>4, Word0Effect
  <2> QED
    BY <1>1, <1>2, <2>1, Word0Changed
<1>5. CASE domain.op = "start"
  <2>1. domain.pc \in 1..4
    BY <1>5 DEF SmmuInv, PcKnown
  <2>2. CASE domain.pc = 3 /\ BuildTables(<<"tables">>, Onward)
    <3>1. ste = [s \in Streams |-> Zero]
      BY <1>5, <2>2 DEF SmmuInv, TableKnown
    <3>2. ste' = [s \in Streams |-> IF Configured(s) THEN MakeAbortSte ELSE Zero]
      BY <2>2 DEF BuildTables
    <3> QED
      BY <3>1, <3>2 DEF MakeAbortSte, Zero
  <2> HIDE DEF Same
  <2> QED
    BY <1>3, <1>5, <2>1, <2>2, StartMoves DEF Same
<1>6. CASE domain.op = "invalidate"
  <2>1. domain.pc \in 1..3
    BY <1>6 DEF SmmuInv, PcKnown
  <2> HIDE DEF Same
  <2> QED
    BY <1>3, <1>6, <2>1, InvalidateMoves DEF Same
<1>7. CASE domain.op = "enable"
  <2>1. domain.pc \in 1..5
    BY <1>7 DEF SmmuInv, PcKnown
  <2> HIDE DEF Same
  <2> QED
    BY <1>3, <1>7, <2>1, EnableMoves DEF Same
<1>8. CASE domain.op = "attach"
  <2>1. domain.pc \in 1..10
    BY <1>8 DEF SmmuInv, PcKnown
  <2>2. CASE domain.pc = 5 /\ WriteBody(<<"body", This, domain.vm, domain.gen>>, Onward)
    <3>1. ste' = [ste EXCEPT ![This].root = domain.vm, ![This].gen = domain.gen]
      BY <2>2 DEF WriteBody
    <3> QED
      BY <1>1, <1>2, <1>8, <2>2, <3>1, BodyChanged
  <2>3. "invalid" \in Word0 /\ "stage2" \in Word0
    BY DEF Word0
  <2> HIDE DEF Same
  <2> QED
    BY <1>3, <1>4, <1>8, <2>1, <2>2, <2>3, AttachMoves DEF Same
<1>9. CASE domain.op = "detach" \/ (domain.op = "quarantine" /\ Attached(This))
  <2>1. domain.pc \in 1..5
    BY <1>9 DEF SmmuInv, PcKnown, RestKnown, Attached, StreamOps
  <2>2. "abort" \in Word0
    BY DEF Word0
  <2> HIDE DEF Same
  <2>3. CASE domain.op = "detach"
    BY <1>3, <1>4, <2>1, <2>2, <2>3, DetachMoves DEF Same
  <2>4. CASE domain.op = "quarantine" /\ Attached(This)
    BY <1>3, <1>4, <2>1, <2>2, <2>4, LeaveMoves DEF Same, Attached
  <2> QED
    BY <1>9, <2>3, <2>4
<1>10. CASE domain.op = "quarantine" /\ ~Attached(This)
  <2>1. domain.pc = 1
    BY <1>10 DEF SmmuInv, PcKnown
  <2> HIDE DEF Same
  <2> QED
    BY <1>3, <1>10, <2>1, MarkMoves DEF Same, Attached
<1> QED
  BY <1>1, <1>5, <1>6, <1>7, <1>8, <1>9, <1>10 DEF BootOps, StreamOps

LEMMA BodyStep ==
  ASSUME IInv, [Next]_vars, NEW s \in Streams, <<ste[s].root, ste[s].gen>>' # <<ste[s].root, ste[s].gen>>
  PROVE  ste[s].w0 = "invalid" /\ (cfg[s] = NoEntry \/ cfg[s].w0 = "invalid")
<1>1. SmmuInv /\ DmaInv
  BY DEF IInv
<1>2. ste' # ste /\ ~(ste'[s].root = ste[s].root /\ ste'[s].gen = ste[s].gen)
  OBVIOUS
<1>3. DomainStep
  <2>1. Next
    BY <1>2 DEF vars, smmuVars
  <2>2. CASE ProbeDevices
    BY <1>2, <2>2 DEF ProbeDevices
  <2>3. ASSUME NEW v \in Vms, Call(v) \/ Walk(v) PROVE FALSE
    <3>1. Local(v) \/ Call(v) \/ QuarantineVmOf(v) \/ Isolated(v) \/ DetachVm(v) \/ AttachVm(v)
      BY <2>3 DEF Walk, Local
    <3>2. CASE Local(v) \/ Call(v)
      BY <1>2, <3>2, LocalStays DEF Stays
    <3> QED
      BY <1>2, <3>1, <3>2 DEF QuarantineVmOf, Isolated, DetachVm, AttachVm
  <2>4. ASSUME NEW t \in Vms \cup {"irq"}, Events(t) PROVE FALSE
    BY <1>2, <2>4, EventsStay DEF Events, DispatchFault, Stays
  <2>5. ASSUME NEW d \in Devices, Interrupts(d) \/ StartDma(d) \/ EndDma(d) \/ Expire(d) PROVE FALSE
    BY <1>2, <2>5, ElsewhereStays DEF Stays
  <2>6. CASE Hardware
    BY <1>2, <2>6 DEF Hardware, HwConsume, HwFetch, HwTranslate
  <2> QED
    BY <2>1, <2>2, <2>3, <2>4, <2>5, <2>6 DEF Next
<1>4. s = This /\ domain.op = "attach" /\ domain.pc = 5
  BY <1>1, <1>2, <1>3, BodyMoves
<1>5. ste[s].w0 = "invalid" /\ Blank(s)
  BY <1>1, <1>4 DEF SmmuInv, InstallKnown
<1>6. cfg[s] \in Ste \cup {NoEntry}
  BY <1>1 DEF SmmuInv, SmmuTypeOK
<1> QED
  BY <1>5, <1>6 DEF Blank, Ste, Word0

\* complete_quiesce and fail_vm, with abort_stream: a quiesced device reaches no
\* memory, and a VM without an attached stream has no translation cached.
THEOREM QuietIsIsolated == Spec => []IsolatedWhenQuiet
BY DmaInvariant, IInvIsolates, PTL

\* bring_up_translation, attach_vm, detach_vm and quarantine_vm: from the end of
\* shut_down on, a stream reaches the memory of its own VM or nothing.
THEOREM OwnVmOnly == Spec => []ReachesOwnVm
BY DmaInvariant, IInvReaches, PTL

\* install_stream: no step changes the body of an entry that the table or the
\* hardware holds valid.
THEOREM BodyWrittenInvalid == Spec => BodyUnderInvalid
<1> DEFINE Body == \A s \in Streams : <<ste[s].root, ste[s].gen>>' # <<ste[s].root, ste[s].gen>> =>
                     ste[s].w0 = "invalid" /\ (cfg[s] = NoEntry \/ cfg[s].w0 = "invalid")
<1>1. IInv /\ [Next]_vars => [Body]_vars
  BY BodyStep
<1>2. Spec => [][Body]_vars
  BY <1>1, DmaInvariant, PTL DEF Spec
<1> QED
  BY <1>2 DEF BodyUnderInvalid

\* handle_irq, handle_virtual_eoi and the walks: the interrupt of a running
\* device is open, or something in flight opens it.
THEOREM LinesComeBack == Spec => []LineComesBack
BY DmaInvariant, IInvUnmasks, PTL
=============================================================================
