------------------------------ MODULE SchedProofs ------------------------------
(***************************************************************************)
(* Theorems about Sched, for every number of vCPUs on the core, every set  *)
(* of slice lengths and every number of requests from outside: the         *)
(* registers belong to the vCPU that runs, no deadline is lost, and a vCPU *)
(* is left only where a core may leave it.                                 *)
(***************************************************************************)
EXTENDS SchedMC, WellFoundedInduction, TLAPS

-----------------------------------------------------------------------------
(* Least elements: the next deadline and the next vCPU.                    *)

\* A set of naturals that is not empty has a least element.
LEMMA Least ==
  ASSUME NEW S, S \subseteq Nat, S # {}
  PROVE  \E x \in S : \A y \in S : x <= y
<1> DEFINE lt == OpToRel(<, Nat)
<1>1. IsWellFoundedOn(lt, Nat)
  BY NatLessThanWellFounded
<1>2. \A x, y \in Nat : y < x => <<y, x>> \in lt
  BY DEF OpToRel
<1> HIDE DEF lt
<1>3. PICK x \in S : \A y \in S : ~(<<y, x>> \in lt)
  BY <1>1, WFMin
<1>4. ASSUME NEW y \in S PROVE x <= y
  <2>1. x \in Nat /\ y \in Nat /\ ~(<<y, x>> \in lt)
    BY <1>3
  <2>2. ~(y < x)
    BY <1>2, <2>1
  <2> QED
    BY <2>1, <2>2
<1> QED
  BY <1>4

\* One soft timer is not another.
LEMMA TimersApart ==
  /\ Timers = CoreTimers /\ Slice \in Timers /\ OneShot \in Timers /\ Slice # OneShot
  /\ \A s \in Slots : Wake(s) \in Timers /\ Wake(s) # Slice /\ Wake(s) # OneShot /\ Wake(s)[2] = s
  /\ \A s \in Slots, o \in Slots : Wake(s) = Wake(o) => s = o
  /\ \A t \in Timers : t = Slice \/ t = OneShot \/ \E s \in Slots : t = Wake(s)
  BY SchedAssumption DEF SchedAssumption, CoreTimers, Slice, OneShot, Wake

LEMMA Bounds ==
  /\ N \in Nat \ {0} /\ Horizon \in Nat \ {0} /\ Quanta \subseteq 1..Horizon
  /\ \A s \in Slots : s \in Int /\ s # None /\ s # Dead
  BY SchedAssumption, TimerAssumption DEF SchedAssumption, Slots, None, Dead

Queues == [Timers -> Left]

\* A comparator value that fires no later than any armed slot.
NoLater(c, q) == \A t \in Armed(q) : c # Unarmed /\ c <= q[t]

\* The next deadline of a queue is the earliest of its slots.
LEMMA NextDeadlineWatches ==
  ASSUME NEW q \in Queues
  PROVE  NextDeadline(q) \in Left /\ NoLater(NextDeadline(q), q)
<1> DEFINE D == {q[t] : t \in Armed(q)}
<1>1. CASE Armed(q) = {}
  BY <1>1, Bounds DEF NextDeadline, NoLater, Left, Unarmed
<1>2. CASE Armed(q) # {}
  <2>1. \A t \in Armed(q) : q[t] \in 0..Horizon
    BY Bounds DEF Queues, Left, Unarmed, Armed
  <2>2. D \subseteq Nat /\ D # {}
    BY <1>2, <2>1, Bounds
  <2>3. \E x \in D : \A y \in D : x <= y
    BY <2>2, Least
  <2>4. Min(D) \in D /\ \A y \in D : Min(D) <= y
    BY <2>3 DEF Min
  <2>5. NextDeadline(q) = Min(D)
    BY <1>2 DEF NextDeadline
  <2>6. \A t \in Armed(q) : q[t] \in D
    OBVIOUS
  <2> HIDE DEF D
  <2>7. NoLater(NextDeadline(q), q)
    <3> SUFFICES ASSUME NEW t \in Armed(q) PROVE Min(D) # Unarmed /\ Min(D) <= q[t]
      BY <2>5 DEF NoLater
    <3>1. q[t] \in Nat /\ Min(D) \in Nat
      BY <2>2, <2>4, <2>6
    <3>2. Min(D) <= q[t]
      BY <2>4, <2>6
    <3> QED
      BY <3>1, <3>2 DEF Unarmed
  <2>8. D \subseteq Left
    BY <2>1, Bounds DEF D, Left, Unarmed
  <2> QED
    BY <2>4, <2>5, <2>7, <2>8
<1> QED
  BY <1>1, <1>2

\* A mutation of the queue leaves CNTHP at its earliest slot.
LEMMA SetWatches ==
  ASSUME NEW q \in Queues, Set(q)
  PROVE  queue' = q /\ queue' \in Queues /\ cnthp' \in Left /\ NoLater(cnthp', queue')
<1>1. queue' = q /\ cnthp' = NextDeadline(q)
  BY DEF Set, Reprogram
<1> QED
  BY <1>1, NextDeadlineWatches

\* Queues that differ only in who watches the core's own slots.
SameWakes(q, p) == \A s \in Slots : q[Wake(s)] = p[Wake(s)]

\* The slice is armed and cancelled without touching a wake-up.
LEMMA ReslicedKeeps ==
  ASSUME NEW q \in Queues, NEW states, NEW resident, NEW ticks \in 1..Horizon
  PROVE  Resliced(q, states, resident, ticks) \in Queues /\ SameWakes(Resliced(q, states, resident, ticks), q)
<1>1. ticks \in Left /\ Unarmed \in Left
  BY Bounds DEF Left, Unarmed
<1>2. \A left \in Left : [q EXCEPT ![Slice] = left] \in Queues
  BY TimersApart DEF Queues
<1>3. \A left \in Left : SameWakes([q EXCEPT ![Slice] = left], q)
  BY TimersApart DEF Queues, SameWakes
<1>4. \E left \in Left : Resliced(q, states, resident, ticks) = [q EXCEPT ![Slice] = left]
  BY <1>1 DEF Resliced, Arm, Cancel
<1> QED
  BY <1>2, <1>3, <1>4

\* A wake-up is cancelled without touching another.
LEMMA WakeCancelled ==
  ASSUME NEW q \in Queues, NEW s \in Slots
  PROVE  /\ Cancel(q, Wake(s)) \in Queues
         /\ \A o \in Slots \ {s} : Cancel(q, Wake(s))[Wake(o)] = q[Wake(o)]
<1>1. Unarmed \in Left
  BY Bounds DEF Left, Unarmed
<1> QED
  BY <1>1, TimersApart DEF Queues, Cancel

\* pick_next() finds a ready vCPU when there is one.
LEMMA PickNextReady ==
  ASSUME NEW states, NEW from \in Int
  PROVE  IF Ready(states) = {} THEN PickNext(states, from) = None
         ELSE PickNext(states, from) \in Ready(states)
<1>1. CASE Ready(states) = {}
  BY <1>1 DEF PickNext
<1>2. CASE Ready(states) # {}
  <2> DEFINE R == Ready(states)
             D == {Distance(s, from) : s \in R}
  <2>1. R \subseteq Int
    BY DEF Ready, Slots
  <2>2. \A s \in R : Distance(s, from) \in Nat
    BY <2>1, Bounds DEF Distance
  <2>3. D \subseteq Nat /\ D # {}
    BY <1>2, <2>2
  <2>4. \E x \in D : \A y \in D : x <= y
    BY <2>3, Least
  <2>5. \E s \in R : \A o \in R : Distance(s, from) <= Distance(o, from)
    BY <2>4
  <2>6. PickNext(states, from) = CHOOSE s \in R : \A o \in R : Distance(s, from) <= Distance(o, from)
    BY <1>2 DEF PickNext
  <2> HIDE DEF R, D
  <2>7. PickNext(states, from) \in R
    BY <2>5, <2>6
  <2> QED
    BY <1>2, <2>7 DEF R
<1> QED
  BY <1>1, <1>2

-----------------------------------------------------------------------------
(* The invariant.                                                          *)

Handling == {"expire", "calls", "eoi"}
Banks == Slots \cup {None, Dead}

VcpusTypeOK ==
  /\ st \in [Slots -> {"Off", "Ready", "Blocked", "Running"}]
  /\ cur \in Slots \cup {None} /\ live \in Banks
  /\ saved \in [Slots -> Banks]
  /\ owner \in Slots \cup {None} /\ fpTrap \in BOOLEAN
  /\ fpLive \in Banks /\ fpSaved \in [Slots -> Banks]
  /\ cntv \in [Banks -> Unarmed..Far]
  /\ vpend \in [Slots -> BOOLEAN]
  /\ oneshot \in Slots \cup {None}
  /\ quantum \in Quanta
  /\ queue \in Queues /\ cnthp \in Left

StageTypeOK ==
  /\ pc \in Places
  /\ idling \in BOOLEAN /\ outer \in BOOLEAN
  /\ dispatch \in BOOLEAN /\ epilogue \in BOOLEAN
  /\ mail \in Nat /\ call \in BOOLEAN /\ calls \in Nat
  /\ stray \in {"quiet", "pending", "quarantined"}

SchedTypeOK == VcpusTypeOK /\ StageTypeOK

\* The resident is on and its life is in the registers; nobody else runs, and
\* what is left of an earlier resident belongs to nobody who is on.
Resident ==
  /\ cur # None => st[cur] # "Off" /\ live = cur
  /\ \A s \in Slots : st[s] = "Running" => s = cur
  /\ live \in Slots /\ live # cur => st[live] = "Off"

\* A vCPU that is on finds its own registers where they were put, and the FP
\* registers are the owner's, who is the resident when they do not trap.
Banked ==
  /\ \A s \in Slots : st[s] # "Off" /\ s # live => saved[s] = s
  /\ \A s \in Slots : st[s] # "Off" => fpSaved[s] = s
  /\ owner # None => fpLive = owner
  /\ cur # None /\ ~fpTrap => owner = cur

\* A blocked vCPU's timer is mirrored by a slot that is due no later.
Mirrored ==
  \A s \in Slots : st[s] = "Blocked" /\ cntv[s] # Unarmed =>
    queue[Wake(s)] # Unarmed /\ queue[Wake(s)] <= cntv[s]

\* Where the core is, against what it still owes: the dispatch it is inside,
\* the switch that was put off, the idle loop and the drain it was called by.
Stage ==
  /\ dispatch <=> pc \in Handling
  /\ epilogue => pc \in Handling /\ live # None
  /\ idling => pc \in Handling \cup {"idle", "drain"}
  /\ pc = "idle" => idling
  /\ outer => live # None /\ (pc = "pick" \/ idling)
  /\ live = None => pc = "enter" \/ idling
  /\ pc = "enter" => live = None
  /\ pc \in Handling \cup {"guest", "drain"} /\ ~idling => RunningNow \/ epilogue

Vcpus == VcpusTypeOK /\ Resident /\ Banked /\ Mirrored /\ NoLater(cnthp, queue)
SchedInv == Vcpus /\ StageTypeOK /\ Stage

\* The longest slice is one the host may set.
LEMMA LongestSlice == Max(Quanta) \in Quanta
<1> DEFINE D == {Horizon - x : x \in Quanta}
<1>1. Quanta \subseteq 1..Horizon /\ Quanta # {}
  BY SchedAssumption DEF SchedAssumption
<1>2. D \subseteq Nat /\ D # {}
  <2>1. \A x \in 1..Horizon : Horizon - x \in Nat
    BY Bounds
  <2> QED
    BY <1>1, <2>1
<1>3. PICK d \in D : \A e \in D : d <= e
  BY <1>2, Least
<1>4. PICK m \in Quanta : d = Horizon - m
  OBVIOUS
<1>5. ASSUME NEW x \in Quanta PROVE m >= x
  <2>1. Horizon - m <= Horizon - x
    BY <1>3, <1>4
  <2> QED
    BY <1>1, <2>1, Bounds
<1> HIDE DEF D
<1>6. \E x \in Quanta : \A y \in Quanta : x >= y
  BY <1>5
<1> QED
  BY <1>6 DEF Max

LEMMA SchedInit == Init => SchedInv
<1> SUFFICES ASSUME Init PROVE SchedInv
  OBVIOUS
<1>1. SchedTypeOK
  <2>1. quantum \in Quanta
    BY LongestSlice DEF Init
  <2>2. cntv \in [Banks -> Unarmed..Far] /\ queue \in Queues /\ cnthp \in Left
    BY Bounds DEF Init, TimersInit, Banks, Queues, Left, Far, Unarmed
  <2>3. calls \in Nat
    BY SchedAssumption DEF SchedAssumption, Init
  <2>4. /\ saved \in [Slots -> Banks] /\ fpSaved \in [Slots -> Banks]
        /\ live \in Banks /\ fpLive \in Banks
    BY DEF Init, Banks
  <2>5. st \in [Slots -> {"Off", "Ready", "Blocked", "Running"}]
    BY DEF Init
  <2> QED
    BY <2>1, <2>2, <2>3, <2>4, <2>5 DEF Init, SchedTypeOK, VcpusTypeOK, StageTypeOK, Places
<1>2. Resident /\ Banked /\ Mirrored
  BY Bounds DEF Init, Resident, Banked, Mirrored
<1>3. NoLater(cnthp, queue)
  BY DEF Init, TimersInit, NoLater, Armed
<1>4. Stage
  BY DEF Init, Stage, Handling
<1> QED
  BY <1>1, <1>2, <1>3, <1>4 DEF SchedInv, Vcpus, SchedTypeOK

\* The invariant says what the three properties say.
LEMMA SchedInvMeans == SchedInv => RegistersBelong /\ DeadlinesWatched /\ LeftOutsideDispatch /\ SwitchKept
<1> SUFFICES ASSUME SchedInv PROVE RegistersBelong /\ DeadlinesWatched /\ LeftOutsideDispatch /\ SwitchKept
  OBVIOUS
<1> USE DEF SchedInv, Vcpus, SchedTypeOK
<1>1. pc = "guest" => ~epilogue /\ ~idling /\ ~outer /\ RunningNow
  BY DEF Stage, Handling
<1>2. ASSUME pc = "guest"
      PROVE  /\ cur # None /\ live = cur
             /\ {s \in Slots : st[s] = "Running"} = {cur}
             /\ ~fpTrap => fpLive = cur
  <2>1. cur # None /\ cur \in Slots /\ st[cur] = "Running" /\ live = cur
    BY <1>1, <1>2 DEF RunningNow, Resident, VcpusTypeOK
  <2>2. {s \in Slots : st[s] = "Running"} = {cur}
    BY <2>1 DEF Resident
  <2> QED
    BY <2>1, <2>2 DEF Banked
<1>3. RegistersBelong
  BY <1>2 DEF RegistersBelong, Banked
<1>4. DeadlinesWatched
  BY DEF DeadlinesWatched, NoLater, Mirrored
<1>5. LeftOutsideDispatch /\ SwitchKept
  BY <1>1 DEF LeftOutsideDispatch, SwitchKept, Stage, Handling
<1> QED
  BY <1>3, <1>4, <1>5

-----------------------------------------------------------------------------
(* What the operations on vCPUs keep.                                      *)

\* A resident that runs goes on running, and a first one was installed if and
\* only if one had been.
Carries == (RunningNow => RunningNow') /\ (live = None <=> live' = None)

\* A queue whose slots were left alone, but for those of one vCPU.
ButFor(s, q) == q \in Queues /\ NoLater(cnthp, q) /\ \A o \in Slots \ {s} : q[Wake(o)] = queue[Wake(o)]

\* A virtual timer is left alone or masked.
Masks == cntv' \in [Banks -> Unarmed..Far] /\ \A s \in Slots : cntv'[s] # Unarmed => cntv'[s] = cntv[s]

LEMMA WakeKeeps ==
  ASSUME Vcpus, NEW s \in Slots, NEW q, ButFor(s, q), Woken(s, q),
         UNCHANGED <<cur, mine, fp, quantum>>, Masks,
         vpend' \in [Slots -> BOOLEAN], oneshot' \in Slots \cup {None}
  PROVE  Vcpus' /\ Carries
<1> USE DEF Vcpus
<1>1. /\ UNCHANGED <<cur, live, saved, owner, fpTrap, fpLive, fpSaved, quantum>> /\ Masks
      /\ st' \in [Slots -> {"Off", "Ready", "Blocked", "Running"}]
      /\ st'[s] # "Blocked" /\ (st'[s] = "Off" <=> st[s] = "Off") /\ (st'[s] = "Running" <=> st[s] = "Running")
      /\ \A o \in Slots \ {s} : st'[o] = st[o]
  BY DEF mine, fp, Woken, VcpusTypeOK
<1>2. /\ queue' \in Queues /\ cnthp' \in Left /\ NoLater(cnthp', queue')
      /\ \A o \in Slots \ {s} : queue'[Wake(o)] = queue[Wake(o)]
  <2>1. CASE st[s] = "Blocked"
    <3> DEFINE p == Cancel(q, Wake(s))
               r == Resliced(p, st', cur, quantum)
    <3>1. p \in Queues /\ \A o \in Slots \ {s} : p[Wake(o)] = queue[Wake(o)]
      BY WakeCancelled DEF ButFor
    <3>2. quantum \in 1..Horizon
      BY Bounds DEF VcpusTypeOK
    <3> HIDE DEF p
    <3>3. r \in Queues /\ SameWakes(r, p)
      BY <3>1, <3>2, ReslicedKeeps
    <3>4. Set(r)
      BY <2>1 DEF Woken, p
    <3> HIDE DEF r
    <3>5. queue' = r /\ queue' \in Queues /\ cnthp' \in Left /\ NoLater(cnthp', queue')
      BY <3>3, <3>4, SetWatches
    <3> QED
      BY <3>1, <3>3, <3>5 DEF SameWakes
  <2>2. CASE st[s] # "Blocked"
    <3>1. queue' = q /\ cnthp' = cnthp
      BY <2>2 DEF Woken
    <3> QED
      BY <3>1 DEF ButFor, VcpusTypeOK
  <2> QED
    BY <2>1, <2>2
<1>3. VcpusTypeOK'
  BY <1>1, <1>2 DEF VcpusTypeOK, Masks
<1>4. Resident'
  <2>1. \A o \in Slots : (st'[o] = "Off" <=> st[o] = "Off") /\ (st'[o] = "Running" <=> st[o] = "Running")
    BY <1>1
  <2>2. cur \in Slots \cup {None}
    BY DEF VcpusTypeOK
  <2> QED
    BY <1>1, <2>1, <2>2 DEF Resident
<1>7. Banked'
  BY <1>1 DEF Banked
<1>5. Mirrored'
  BY <1>1, <1>2 DEF Mirrored, Masks
<1>6. Carries
  <2>1. cur \in Slots \cup {None}
    BY DEF VcpusTypeOK
  <2> QED
    BY <1>1, <2>1 DEF Carries, RunningNow
<1> QED
  BY <1>2, <1>3, <1>4, <1>5, <1>6, <1>7

\* The same of an interrupt that is posted to the resident, or to nobody.
LEMMA PostKeeps ==
  ASSUME Vcpus, NEW s \in Slots \cup {None}, NEW q, q \in Queues, NoLater(cnthp, q),
         SameWakes(q, queue), Posted(s, q), UNCHANGED <<cur, mine, fp, quantum>>, Masks,
         oneshot' \in Slots \cup {None}
  PROVE  Vcpus' /\ Carries
<1> USE DEF Vcpus
<1>1. CASE s = None \/ st[s] = "Off"
  <2>1. /\ queue' = q /\ UNCHANGED <<st, vpend, cnthp>>
        /\ UNCHANGED <<cur, live, saved, owner, fpTrap, fpLive, fpSaved, quantum>> /\ Masks
    BY <1>1 DEF Posted, mine, fp
  <2>2. VcpusTypeOK'
    BY <2>1 DEF VcpusTypeOK, Masks
  <2>3. Resident'
    BY <2>1 DEF Resident
  <2>6. Banked'
    BY <2>1 DEF Banked
  <2>4. Mirrored' /\ NoLater(cnthp', queue')
    BY <2>1 DEF Mirrored, SameWakes, Masks
  <2>5. Carries
    BY <2>1 DEF Carries, RunningNow
  <2> QED
    BY <2>2, <2>3, <2>4, <2>5, <2>6
<1>2. CASE s # None /\ st[s] # "Off"
  <2>1. s \in Slots
    BY <1>2
  <2>2. ButFor(s, q)
    BY DEF ButFor, SameWakes
  <2>3. vpend' = [vpend EXCEPT ![s] = TRUE] /\ Woken(s, q)
    BY <1>2 DEF Posted
  <2>4. vpend' \in [Slots -> BOOLEAN]
    BY <2>3 DEF VcpusTypeOK
  <2> QED
    BY <2>1, <2>2, <2>3, <2>4, WakeKeeps
<1> QED
  BY <1>1, <1>2

\* switch_to(): what is parked is what was live, and what is loaded is what
\* was parked.
LEMMA SwitchKeeps ==
  ASSUME Vcpus, NEW next \in Ready(st), next # cur, NEW q, q \in Queues, SameWakes(q, queue),
         SwitchTo(next, q)
  PROVE  Vcpus' /\ RunningNow' /\ live' # None /\ cur' = next
<1> USE DEF Vcpus
<1>1. next \in Slots /\ st[next] = "Ready" /\ next # None
  BY Bounds DEF Ready
<1>2. /\ saved' = [s \in Slots |-> IF s = cur THEN live ELSE saved[s]]
      /\ live' = saved[next]
      /\ fpTrap' = (owner # next)
      /\ st' = [Park EXCEPT ![next] = "Running"]
      /\ cur' = next
      /\ UNCHANGED <<owner, fpLive, fpSaved, cntv, vpend, oneshot, quantum>>
  BY DEF SwitchTo, Load, TrapNeeded
<1>3. /\ st' \in [Slots -> {"Off", "Ready", "Blocked", "Running"}]
      /\ st'[next] = "Running"
      /\ \A s \in Slots \ {next} :
           st'[s] = IF s = cur /\ st[s] = "Running" THEN "Ready" ELSE st[s]
  BY <1>1, <1>2 DEF Park, VcpusTypeOK
<1>4. saved[next] = next /\ live # next
  <2>1. live # next
    BY <1>1 DEF Resident
  <2> QED
    BY <1>1, <2>1 DEF Banked
<1>5. live' = next /\ live' # None
  BY <1>1, <1>2, <1>4
<1>6. queue' \in Queues /\ cnthp' \in Left /\ NoLater(cnthp', queue') /\ SameWakes(queue', queue)
  <2> DEFINE r == Resliced(q, st', next, quantum)
  <2>1. quantum \in 1..Horizon
    BY Bounds DEF VcpusTypeOK
  <2>2. r \in Queues /\ SameWakes(r, q)
    BY <2>1, ReslicedKeeps
  <2>3. Set(r)
    BY DEF SwitchTo, Load
  <2> HIDE DEF r
  <2>4. queue' = r /\ queue' \in Queues /\ cnthp' \in Left /\ NoLater(cnthp', queue')
    BY <2>2, <2>3, SetWatches
  <2> QED
    BY <2>2, <2>4 DEF SameWakes
<1>7. VcpusTypeOK'
  <2>1. saved' \in [Slots -> Banks]
    BY <1>2 DEF VcpusTypeOK
  <2>2. live' \in Banks
    BY <1>1, <1>5 DEF Banks
  <2>3. fpTrap' \in BOOLEAN
    BY <1>2
  <2> QED
    BY <1>1, <1>2, <1>3, <1>6, <2>1, <2>2, <2>3 DEF VcpusTypeOK
<1>8. Resident'
  BY <1>1, <1>2, <1>3, <1>5 DEF Resident
<1>9. Banked'
  <2>1. ASSUME NEW s \in Slots, st'[s] # "Off", s # live'
        PROVE  saved'[s] = s
    <3>1. s # next /\ st[s] # "Off"
      BY <1>3, <1>5, <2>1
    <3>2. CASE s = cur
      BY <1>2, <3>1, <3>2, Bounds DEF Resident
    <3>3. CASE s # cur
      <4>1. s # live
        BY <3>1, <3>3 DEF Resident
      <4> QED
        BY <1>2, <3>1, <3>3, <4>1 DEF Banked
    <3> QED
      BY <3>2, <3>3
  <2>2. \A s \in Slots : st'[s] # "Off" => st[s] # "Off"
    BY <1>1, <1>3
  <2>3. \A s \in Slots : st'[s] # "Off" => fpSaved'[s] = s
    BY <1>2, <2>2 DEF Banked
  <2> QED
    BY <1>2, <2>1, <2>3 DEF Banked
<1>10. Mirrored'
  BY <1>2, <1>3, <1>6 DEF Mirrored, SameWakes
<1>11. RunningNow'
  BY <1>1, <1>2, <1>3 DEF RunningNow
<1> QED
  BY <1>2, <1>5, <1>6, <1>7, <1>8, <1>9, <1>10, <1>11

\* retire_vcpu(): the slot is off, and only its own wake-up goes.
LEMMA RetireKeeps ==
  ASSUME Vcpus, NEW s \in Slots, Retired(s)
  PROVE  /\ Vcpus' /\ live' = live
         /\ s # cur /\ RunningNow => RunningNow'
<1> USE DEF Vcpus
<1>1. /\ st' = [st EXCEPT ![s] = "Off"]
      /\ cur' = IF s = cur THEN None ELSE cur
      /\ UNCHANGED <<live, saved, owner, fpTrap, fpLive, fpSaved, cntv, vpend, oneshot, quantum>>
  BY DEF Retired, mine, fp
<1>2. /\ st' \in [Slots -> {"Off", "Ready", "Blocked", "Running"}]
      /\ st'[s] = "Off" /\ \A o \in Slots \ {s} : st'[o] = st[o]
  BY <1>1 DEF VcpusTypeOK
<1>3. /\ queue' \in Queues /\ cnthp' \in Left /\ NoLater(cnthp', queue')
      /\ \A o \in Slots \ {s} : queue'[Wake(o)] = queue[Wake(o)]
  <2> DEFINE p == Cancel(queue, Wake(s))
             r == IF s = cur THEN Resliced(p, st', None, quantum) ELSE p
  <2>1. p \in Queues /\ \A o \in Slots \ {s} : p[Wake(o)] = queue[Wake(o)]
    BY WakeCancelled DEF VcpusTypeOK
  <2>2. quantum \in 1..Horizon
    BY Bounds DEF VcpusTypeOK
  <2>3. Set(r)
    BY DEF Retired
  <2> HIDE DEF p
  <2>4. r \in Queues /\ SameWakes(r, p)
    BY <2>1, <2>2, ReslicedKeeps DEF SameWakes
  <2> HIDE DEF r
  <2>5. queue' = r /\ queue' \in Queues /\ cnthp' \in Left /\ NoLater(cnthp', queue')
    BY <2>3, <2>4, SetWatches
  <2> QED
    BY <2>1, <2>4, <2>5 DEF SameWakes
<1>4. VcpusTypeOK'
  BY <1>1, <1>2, <1>3 DEF VcpusTypeOK
<1>5. Resident'
  BY <1>1, <1>2, Bounds DEF Resident, VcpusTypeOK
<1>6. Banked'
  BY <1>1, <1>2 DEF Banked
<1>7. Mirrored'
  BY <1>1, <1>2, <1>3 DEF Mirrored
<1>8. s # cur /\ RunningNow => RunningNow'
  BY <1>1, <1>2 DEF RunningNow, VcpusTypeOK
<1> QED
  BY <1>1, <1>3, <1>4, <1>5, <1>6, <1>7, <1>8

\* seed() and the start of a new life: what any register file or bank still
\* held of the earlier one is dead, and the slot has banks of its own.
LEMMA StartKeeps ==
  ASSUME Vcpus, NEW s \in Slots, Start(s)
  PROVE  Vcpus' /\ Carries
<1> USE DEF Vcpus
<1>1. /\ st[s] = "Off" /\ st' = [st EXCEPT ![s] = "Ready"]
      /\ saved' = [o \in Slots |-> IF o = s THEN s ELSE Renamed(s, saved[o])]
      /\ fpSaved' = [o \in Slots |-> IF o = s THEN s ELSE Renamed(s, fpSaved[o])]
      /\ live' = Renamed(s, live) /\ fpLive' = Renamed(s, fpLive)
      /\ owner' = IF owner = s THEN None ELSE owner
      /\ cntv' = [cntv EXCEPT ![s] = Unarmed, ![Dead] = IF live = s THEN cntv[s] ELSE @]
      /\ vpend' = [vpend EXCEPT ![s] = FALSE]
      /\ UNCHANGED <<cur, fpTrap, oneshot, quantum>>
  BY DEF Start, Reseeded
<1>2. s # None /\ s # Dead /\ None # Dead /\ s \in Banks /\ Dead \in Banks
  BY Bounds DEF None, Dead, Banks
<1>3. /\ st' \in [Slots -> {"Off", "Ready", "Blocked", "Running"}]
      /\ st'[s] = "Ready" /\ \A o \in Slots \ {s} : st'[o] = st[o]
  BY <1>1 DEF VcpusTypeOK
<1>4. s # cur
  BY <1>1, <1>2 DEF Resident
<1>5. /\ queue' \in Queues /\ cnthp' \in Left /\ NoLater(cnthp', queue')
      /\ \A o \in Slots \ {s} : queue'[Wake(o)] = queue[Wake(o)]
  <2> DEFINE p == Cancel(queue, Wake(s))
             r == Resliced(p, st', cur, quantum)
  <2>1. p \in Queues /\ \A o \in Slots \ {s} : p[Wake(o)] = queue[Wake(o)]
    BY WakeCancelled DEF VcpusTypeOK
  <2>2. quantum \in 1..Horizon
    BY Bounds DEF VcpusTypeOK
  <2>3. Set(r)
    BY DEF Start
  <2> HIDE DEF p
  <2>4. r \in Queues /\ SameWakes(r, p)
    BY <2>1, <2>2, ReslicedKeeps
  <2> HIDE DEF r
  <2>5. queue' = r /\ queue' \in Queues /\ cnthp' \in Left /\ NoLater(cnthp', queue')
    BY <2>3, <2>4, SetWatches
  <2> QED
    BY <2>1, <2>4, <2>5 DEF SameWakes
<1>6. \A x \in Banks : Renamed(s, x) \in Banks /\ (x # s => Renamed(s, x) = x)
  BY <1>2 DEF Renamed
<1>7. VcpusTypeOK'
  <2>1. saved' \in [Slots -> Banks] /\ fpSaved' \in [Slots -> Banks]
    BY <1>1, <1>2, <1>6 DEF VcpusTypeOK
  <2>2. live' \in Banks /\ fpLive' \in Banks
    BY <1>1, <1>6 DEF VcpusTypeOK
  <2>3. cntv' \in [Banks -> Unarmed..Far]
    <3>1. Unarmed \in Unarmed..Far
      BY Bounds DEF Unarmed, Far
    <3> QED
      BY <1>1, <1>2, <3>1 DEF VcpusTypeOK
  <2>4. owner' \in Slots \cup {None}
    BY <1>1 DEF VcpusTypeOK
  <2>5. vpend' \in [Slots -> BOOLEAN]
    BY <1>1 DEF VcpusTypeOK
  <2> QED
    BY <1>1, <1>3, <1>5, <2>1, <2>2, <2>3, <2>4, <2>5 DEF VcpusTypeOK
<1>8. Resident'
  <2>1. live # s => live' = live
    BY <1>1, <1>6 DEF VcpusTypeOK
  <2>2. live = s => live' = Dead
    BY <1>1 DEF Renamed
  <2>3. live' \in Slots => live' = live /\ live # s
    BY <2>1, <2>2, Bounds
  <2> QED
    BY <1>1, <1>3, <1>4, <2>1, <2>2, <2>3, Bounds DEF Resident, VcpusTypeOK
<1>9. Banked'
  <2>1. ASSUME NEW o \in Slots, st'[o] # "Off", o # live'
        PROVE  saved'[o] = o
    <3>1. CASE o = s
      BY <1>1, <3>1
    <3>2. CASE o # s
      <4>1. st[o] # "Off"
        BY <1>3, <2>1, <3>2
      <4>2. o # live
        BY <1>1, <2>1, <3>2 DEF Renamed
      <4> QED
        BY <1>1, <3>2, <4>1, <4>2 DEF Banked, Renamed
    <3> QED
      BY <3>1, <3>2
  <2>2. ASSUME NEW o \in Slots, st'[o] # "Off"
        PROVE  fpSaved'[o] = o
    BY <1>1, <1>3, <2>2 DEF Banked, Renamed
  <2>3. owner' # None => fpLive' = owner'
    BY <1>1 DEF Banked, Renamed
  <2>4. cur' # None /\ ~fpTrap' => owner' = cur'
    BY <1>1, <1>4 DEF Banked
  <2> QED
    BY <2>1, <2>2, <2>3, <2>4 DEF Banked
<1>10. Mirrored'
  <2> SUFFICES ASSUME NEW o \in Slots, st'[o] = "Blocked", cntv'[o] # Unarmed
               PROVE  queue'[Wake(o)] # Unarmed /\ queue'[Wake(o)] <= cntv'[o]
    BY DEF Mirrored
  <2>1. o # s /\ st[o] = "Blocked"
    BY <1>3
  <2>2. cntv'[o] = cntv[o]
    <3>1. o # Dead /\ o \in Banks
      BY Bounds DEF Banks
    <3> QED
      BY <1>1, <2>1, <3>1 DEF VcpusTypeOK
  <2> QED
    BY <1>5, <2>1, <2>2 DEF Mirrored
<1>11. Carries
  <2>1. live = None <=> live' = None
    BY <1>1, <1>2 DEF Renamed
  <2>2. RunningNow => RunningNow'
    BY <1>1, <1>3, <1>4 DEF RunningNow, VcpusTypeOK
  <2> QED
    BY <2>1, <2>2 DEF Carries
<1> QED
  BY <1>5, <1>7, <1>8, <1>9, <1>10, <1>11

\* Slices are set and taken without touching a vCPU.
LEMMA SliceKeeps ==
  ASSUME Vcpus, NEW q, q \in Queues, SameWakes(q, queue), quantum' \in Quanta,
         Set(Resliced(q, st, cur, quantum')),
         UNCHANGED <<st, cur, mine, fp, cntv, vpend, oneshot>>
  PROVE  Vcpus' /\ Carries
<1> USE DEF Vcpus
<1>1. UNCHANGED <<st, cur, live, saved, owner, fpTrap, fpLive, fpSaved, cntv, vpend, oneshot>>
  BY DEF mine, fp
<1>2. queue' \in Queues /\ cnthp' \in Left /\ NoLater(cnthp', queue') /\ SameWakes(queue', queue)
  <2> DEFINE r == Resliced(q, st, cur, quantum')
  <2>1. quantum' \in 1..Horizon
    BY Bounds
  <2>2. r \in Queues /\ SameWakes(r, q)
    BY <2>1, ReslicedKeeps
  <2>3. Set(r)
    OBVIOUS
  <2> HIDE DEF r
  <2>4. queue' = r /\ queue' \in Queues /\ cnthp' \in Left /\ NoLater(cnthp', queue')
    BY <2>2, <2>3, SetWatches
  <2> QED
    BY <2>2, <2>4 DEF SameWakes
<1>3. VcpusTypeOK'
  BY <1>1, <1>2 DEF VcpusTypeOK
<1>4. Resident' /\ Banked'
  BY <1>1 DEF Resident, Banked
<1>5. Mirrored'
  BY <1>1, <1>2 DEF Mirrored, SameWakes
<1>6. Carries
  BY <1>1 DEF Carries, RunningNow
<1> QED
  BY <1>2, <1>3, <1>4, <1>5, <1>6

-----------------------------------------------------------------------------
(* The steps.                                                              *)

\* Nothing of the vCPUs and the timers.
Still == UNCHANGED <<st, cur, mine, fp, cntv, vpend, oneshot, quantum, timerVars>>

LEMMA StillKeeps ==
  ASSUME Vcpus, Still
  PROVE  Vcpus' /\ Carries
<1> USE DEF Vcpus
<1>1. UNCHANGED <<st, cur, live, saved, owner, fpTrap, fpLive, fpSaved, cntv, vpend, oneshot, quantum, queue, cnthp>>
  BY DEF Still, mine, fp, timerVars
<1>2. VcpusTypeOK'
  BY <1>1 DEF VcpusTypeOK
<1>3. Resident' /\ Banked'
  BY <1>1 DEF Resident, Banked
<1>4. Mirrored' /\ NoLater(cnthp', queue')
  BY <1>1 DEF Mirrored
<1>5. Carries
  BY <1>1 DEF Carries, RunningNow
<1> QED
  BY <1>2, <1>3, <1>4, <1>5

\* A guest that runs is the resident, and nothing is owed.
LEMMA InGuest ==
  ASSUME SchedInv, Guest
  PROVE  /\ ~idling /\ ~outer /\ ~epilogue /\ ~dispatch
         /\ cur \in Slots /\ cur # None /\ st[cur] = "Running" /\ live = cur /\ live # None
<1>1. ~idling /\ ~outer /\ ~epilogue /\ ~dispatch /\ RunningNow
  BY DEF SchedInv, Guest, Stage, Handling, StageTypeOK
<1> QED
  BY <1>1 DEF RunningNow, SchedInv, Vcpus, VcpusTypeOK, Resident

\* What a running guest does leaves it, or another, running.
LEMMA GuestGoesOn ==
  ASSUME SchedInv, Guest, Vcpus', RunningNow', live' # None, UNCHANGED <<pc, outer, idling, irqs>>
  PROVE  SchedInv'
<1>1. UNCHANGED <<pc, outer, idling, dispatch, epilogue, mail, call, stray, calls>>
  BY DEF irqs
<1>2. StageTypeOK'
  BY <1>1 DEF SchedInv, StageTypeOK
<1>3. Stage'
  BY <1>1, InGuest DEF SchedInv, Guest, Stage, Handling
<1> QED
  BY <1>2, <1>3 DEF SchedInv

\* A guest that gives the core up leaves it to schedule_out().
LEMMA GuestLeaves ==
  ASSUME SchedInv, Guest, Vcpus', live' # None, pc' = "pick", UNCHANGED <<outer, idling, irqs>>
  PROVE  SchedInv'
<1>1. UNCHANGED <<outer, idling, dispatch, epilogue, mail, call, stray, calls>>
  BY DEF irqs
<1>2. StageTypeOK'
  BY <1>1 DEF SchedInv, StageTypeOK, Places
<1>3. Stage'
  BY <1>1, InGuest DEF SchedInv, Stage, Handling
<1> QED
  BY <1>2, <1>3 DEF SchedInv

LEMMA YieldsReady ==
  ASSUME Vcpus, Yields
  PROVE  PickNext(st, cur) \in Ready(st) /\ PickNext(st, cur) # cur
<1>1. cur \in Int
  BY Bounds DEF Vcpus, VcpusTypeOK, Yields
<1> QED
  BY <1>1, PickNextReady DEF Yields

LEMMA YieldStep == SchedInv /\ Yield => SchedInv'
<1> SUFFICES ASSUME SchedInv, Yield PROVE SchedInv'
  OBVIOUS
<1>1. Guest /\ UNCHANGED <<pc, outer, idling, irqs>>
  BY DEF Yield, Traps, Guest
<1>2. Vcpus
  BY DEF SchedInv
<1>3. Vcpus' /\ RunningNow' /\ live' # None
  <2>1. CASE Yields
    <3>1. SwitchTo(PickNext(st, cur), queue)
      BY <2>1 DEF Yield
    <3>2. queue \in Queues /\ SameWakes(queue, queue)
      BY <1>2 DEF Vcpus, VcpusTypeOK, SameWakes
    <3> QED
      BY <1>2, <2>1, <3>1, <3>2, YieldsReady, SwitchKeeps
  <2>2. CASE ~Yields
    <3>1. Still
      BY <2>2 DEF Yield, Stays, Still
    <3>2. RunningNow /\ live # None
      BY <1>1, InGuest DEF RunningNow
    <3> QED
      BY <1>2, <3>1, <3>2, StillKeeps DEF Carries
  <2> QED
    BY <2>1, <2>2
<1> QED
  BY <1>1, <1>3, GuestGoesOn

\* The mirror of a vCPU that parks is due no later than its timer.
LEMMA WfiStep == SchedInv /\ Wfi => SchedInv'
<1> SUFFICES ASSUME SchedInv, Wfi PROVE SchedInv'
  OBVIOUS
<1>1. Guest /\ pc' = "pick" /\ UNCHANGED <<outer, idling, irqs>>
  BY DEF Wfi, Traps
<1>2. Vcpus /\ cur \in Slots /\ cur # None /\ st[cur] = "Running" /\ live = cur
  BY <1>1, InGuest DEF SchedInv
<1> USE DEF Vcpus
<1>3. /\ st' = [st EXCEPT ![cur] = "Blocked"]
      /\ UNCHANGED <<cur, live, saved, owner, fpTrap, fpLive, fpSaved, cntv, vpend, oneshot, quantum>>
  BY DEF Wfi, mine, fp
<1>4. /\ st' \in [Slots -> {"Off", "Ready", "Blocked", "Running"}]
      /\ st'[cur] = "Blocked" /\ \A o \in Slots \ {cur} : st'[o] = st[o]
  BY <1>2, <1>3 DEF VcpusTypeOK
<1>5. /\ queue' \in Queues /\ cnthp' \in Left /\ NoLater(cnthp', queue')
      /\ \A o \in Slots \ {cur} : queue'[Wake(o)] = queue[Wake(o)]
      /\ cntv[cur] # Unarmed => queue'[Wake(cur)] # Unarmed /\ queue'[Wake(cur)] <= cntv[cur]
  <2>1. cur \in Banks
    BY <1>2 DEF Banks
  <2>2. CASE cntv[cur] = Unarmed
    <3>1. UNCHANGED <<queue, cnthp>>
      BY <1>2, <2>2 DEF Wfi, timerVars
    <3>2. queue \in Queues /\ cnthp \in Left /\ NoLater(cnthp, queue)
      BY <1>2 DEF VcpusTypeOK
    <3> QED
      BY <2>2, <3>1, <3>2
  <2>3. CASE cntv[cur] # Unarmed
    <3> DEFINE left == Rebased(cntv[cur])
               q == Arm(queue, Wake(cur), left)
    <3>7. cntv[cur] \in Unarmed..Far
      BY <1>2, <2>1 DEF VcpusTypeOK
    <3>1. cntv[cur] \in 0..Far
      BY <2>3, <3>7, Bounds DEF Unarmed, Far
    <3>2. left \in 0..Horizon /\ left <= cntv[cur]
      BY <3>1, Bounds DEF Rebased, Far
    <3>3. left \in Left /\ left # Unarmed
      BY <3>2, Bounds DEF Left, Unarmed
    <3>4. Set(q)
      BY <1>2, <2>3 DEF Wfi
    <3> HIDE DEF left
    <3>5. /\ q \in Queues /\ q[Wake(cur)] = left
          /\ \A o \in Slots \ {cur} : q[Wake(o)] = queue[Wake(o)]
      BY <1>2, <3>3, TimersApart DEF Queues, Arm, VcpusTypeOK
    <3> HIDE DEF q
    <3>6. queue' = q /\ queue' \in Queues /\ cnthp' \in Left /\ NoLater(cnthp', queue')
      BY <3>4, <3>5, SetWatches
    <3> QED
      BY <3>2, <3>3, <3>5, <3>6
  <2> QED
    BY <2>2, <2>3
<1>11. queue' \in Queues /\ cnthp' \in Left /\ st' \in [Slots -> {"Off", "Ready", "Blocked", "Running"}]
  BY <1>4, <1>5
<1>6. VcpusTypeOK'
  BY <1>2, <1>3, <1>11 DEF VcpusTypeOK
<1>7. Resident'
  BY <1>2, <1>3, <1>4 DEF Resident
<1>8. Banked'
  BY <1>2, <1>3, <1>4 DEF Banked
<1>9. Mirrored'
  <2> SUFFICES ASSUME NEW o \in Slots, st'[o] = "Blocked", cntv'[o] # Unarmed
               PROVE  queue'[Wake(o)] # Unarmed /\ queue'[Wake(o)] <= cntv'[o]
    BY DEF Mirrored
  <2>1. CASE o = cur
    BY <1>3, <1>5, <2>1
  <2>2. CASE o # cur
    BY <1>2, <1>3, <1>4, <1>5, <2>2 DEF Mirrored
  <2> QED
    BY <2>1, <2>2
<1>10. live' # None
  BY <1>2, <1>3
<1> QED
  BY <1>1, <1>5, <1>6, <1>7, <1>8, <1>9, <1>10, GuestLeaves

\* Steps that touch one or two variables keep what is said of the others.
LEMMA TouchKeeps ==
  ASSUME Vcpus, UNCHANGED <<st, cur, mine, quantum>>,
         queue' \in Queues, cnthp' \in Left, NoLater(cnthp', queue'),
         owner' \in Slots \cup {None}, fpTrap' \in BOOLEAN, fpLive' \in Banks,
         fpSaved' \in [Slots -> Banks], cntv' \in [Banks -> Unarmed..Far],
         vpend' \in [Slots -> BOOLEAN], oneshot' \in Slots \cup {None}, Banked', Mirrored'
  PROVE  Vcpus' /\ Carries
<1>1. UNCHANGED <<st, cur, live, saved, quantum>>
  BY DEF mine
<1>2. VcpusTypeOK'
  BY <1>1 DEF Vcpus, VcpusTypeOK
<1>3. Resident'
  BY <1>1 DEF Vcpus, Resident
<1>4. Carries
  BY <1>1 DEF Carries, RunningNow
<1> QED
  BY <1>2, <1>3, <1>4 DEF Vcpus

\* The first FP instruction claims the register file.
LEMMA HandleFpSimdStep == SchedInv /\ HandleFpSimd => SchedInv'
<1> SUFFICES ASSUME SchedInv, HandleFpSimd PROVE SchedInv'
  OBVIOUS
<1>1. Guest /\ UNCHANGED <<pc, outer, idling, irqs>>
  BY DEF HandleFpSimd, Traps, Guest
<1>2. Vcpus /\ cur \in Slots /\ cur # None /\ st[cur] = "Running" /\ live = cur /\ live # None
  BY <1>1, InGuest DEF SchedInv
<1>3. /\ UNCHANGED <<st, cur, mine, cntv, vpend, oneshot, quantum, queue, cnthp>>
      /\ fpTrap' = FALSE /\ owner' = cur
      /\ fpSaved' = [s \in Slots |-> IF s = owner /\ owner # cur THEN fpLive ELSE fpSaved[s]]
      /\ fpLive' = IF owner = cur THEN fpLive ELSE fpSaved[cur]
  BY DEF HandleFpSimd, Claim, timerVars
<1>4. UNCHANGED <<st, cur, live, saved>>
  BY <1>3 DEF mine
<1>5. Banked /\ VcpusTypeOK /\ Mirrored /\ NoLater(cnthp, queue)
  BY <1>2 DEF Vcpus
<1>6. fpLive' \in Banks /\ fpSaved' \in [Slots -> Banks]
  BY <1>2, <1>3, <1>5 DEF VcpusTypeOK
<1>7. fpLive' = cur
  BY <1>2, <1>3, <1>5 DEF Banked
<1>8. \A s \in Slots : st[s] # "Off" => fpSaved'[s] = s
  <2> SUFFICES ASSUME NEW s \in Slots, st[s] # "Off" PROVE fpSaved'[s] = s
    OBVIOUS
  <2>1. s # None
    BY Bounds
  <2> QED
    BY <1>3, <1>5, <2>1 DEF Banked
<1>9. Banked'
  BY <1>3, <1>4, <1>5, <1>7, <1>8 DEF Banked
<1>10. Mirrored' /\ NoLater(cnthp', queue')
  BY <1>3, <1>4, <1>5 DEF Mirrored
<1>11. /\ queue' \in Queues /\ cnthp' \in Left /\ owner' \in Slots \cup {None} /\ fpTrap' \in BOOLEAN
       /\ cntv' \in [Banks -> Unarmed..Far] /\ vpend' \in [Slots -> BOOLEAN] /\ oneshot' \in Slots \cup {None}
  BY <1>2, <1>3, <1>5 DEF VcpusTypeOK
<1>12. Vcpus' /\ Carries
  BY <1>2, <1>3, <1>6, <1>9, <1>10, <1>11, TouchKeeps
<1>13. RunningNow' /\ live' # None
  BY <1>2, <1>4 DEF RunningNow
<1> QED
  BY <1>1, <1>12, <1>13, GuestGoesOn

\* Nothing of the FP registers.
LEMMA FpKeeps ==
  ASSUME Vcpus, UNCHANGED <<st, cur, mine, fp, quantum>>,
         queue' \in Queues, cnthp' \in Left, NoLater(cnthp', queue'),
         cntv' \in [Banks -> Unarmed..Far], vpend' \in [Slots -> BOOLEAN],
         oneshot' \in Slots \cup {None}, Mirrored'
  PROVE  Vcpus' /\ Carries
<1>1. UNCHANGED <<st, cur, live, saved, owner, fpTrap, fpLive, fpSaved>>
  BY DEF mine, fp
<1>2. Banked'
  BY <1>1 DEF Vcpus, Banked
<1>3. owner' \in Slots \cup {None} /\ fpTrap' \in BOOLEAN /\ fpLive' \in Banks /\ fpSaved' \in [Slots -> Banks]
  BY <1>1 DEF Vcpus, VcpusTypeOK
<1> QED
  BY <1>2, <1>3, TouchKeeps

LEMMA SetCntvStep == SchedInv /\ SetCntv => SchedInv'
<1> SUFFICES ASSUME SchedInv, SetCntv PROVE SchedInv'
  OBVIOUS
<1>1. Guest /\ UNCHANGED <<pc, outer, idling, irqs>> /\ UNCHANGED <<st, cur, mine, fp, vpend, oneshot, quantum>>
      /\ UNCHANGED <<queue, cnthp>>
  BY DEF SetCntv, Guest, timerVars
<1>2. Vcpus /\ cur \in Slots /\ cur # None /\ st[cur] = "Running" /\ live = cur /\ live # None
  BY <1>1, InGuest DEF SchedInv
<1>3. PICK left \in (Left \ {0}) \cup {Far} : cntv' = [cntv EXCEPT ![live] = left]
  BY DEF SetCntv
<1>4. left \in Unarmed..Far
  BY Bounds DEF Left, Unarmed, Far
<1>5. cntv' \in [Banks -> Unarmed..Far] /\ \A s \in Slots \ {cur} : cntv'[s] = cntv[s]
  BY <1>2, <1>3, <1>4 DEF Vcpus, VcpusTypeOK, Banks
<1>6. Mirrored'
  BY <1>1, <1>2, <1>5 DEF Vcpus, Mirrored
<1>7. /\ queue' \in Queues /\ cnthp' \in Left /\ NoLater(cnthp', queue')
      /\ vpend' \in [Slots -> BOOLEAN] /\ oneshot' \in Slots \cup {None}
  BY <1>1, <1>2 DEF Vcpus, VcpusTypeOK
<1>8. Vcpus' /\ Carries
  BY <1>1, <1>2, <1>5, <1>6, <1>7, FpKeeps
<1>9. RunningNow /\ live # None
  BY <1>2 DEF RunningNow
<1> QED
  BY <1>1, <1>8, <1>9, GuestGoesOn DEF Carries

LEMMA TimerSetStep == SchedInv /\ TimerSet => SchedInv'
<1> SUFFICES ASSUME SchedInv, TimerSet PROVE SchedInv'
  OBVIOUS
<1>1. Guest /\ UNCHANGED <<pc, outer, idling, irqs>> /\ UNCHANGED <<st, cur, mine, fp, cntv, vpend, quantum>>
      /\ oneshot' = cur
  BY DEF TimerSet, Traps, Guest
<1>2. Vcpus /\ cur \in Slots /\ cur # None /\ st[cur] = "Running" /\ live = cur /\ live # None
  BY <1>1, InGuest DEF SchedInv
<1>3. PICK left \in 1..Horizon : Set(Arm(queue, OneShot, left))
  BY DEF TimerSet
<1> DEFINE q == Arm(queue, OneShot, left)
<1>4. left \in Left
  BY Bounds DEF Left, Unarmed
<1>5. q \in Queues /\ SameWakes(q, queue)
  BY <1>2, <1>4, TimersApart DEF Arm, Queues, SameWakes, Vcpus, VcpusTypeOK
<1> HIDE DEF q
<1>6. queue' = q /\ queue' \in Queues /\ cnthp' \in Left /\ NoLater(cnthp', queue')
  BY <1>3, <1>5, SetWatches DEF q
<1>7. Mirrored'
  BY <1>1, <1>2, <1>5, <1>6 DEF Vcpus, Mirrored, SameWakes
<1>8. /\ cntv' \in [Banks -> Unarmed..Far] /\ vpend' \in [Slots -> BOOLEAN] /\ oneshot' \in Slots \cup {None}
  BY <1>1, <1>2 DEF Vcpus, VcpusTypeOK
<1>9. Vcpus' /\ Carries
  BY <1>1, <1>2, <1>6, <1>7, <1>8, FpKeeps
<1>10. RunningNow /\ live # None
  BY <1>2 DEF RunningNow
<1> QED
  BY <1>1, <1>9, <1>10, GuestGoesOn DEF Carries

LEMMA TakeVirqStep == SchedInv /\ TakeVirq => SchedInv'
<1> SUFFICES ASSUME SchedInv, TakeVirq PROVE SchedInv'
  OBVIOUS
<1>1. Guest /\ UNCHANGED <<pc, outer, idling, irqs>> /\ UNCHANGED <<st, cur, mine, fp, cntv, oneshot, quantum>>
      /\ UNCHANGED <<queue, cnthp>> /\ vpend' = [vpend EXCEPT ![cur] = FALSE]
  BY DEF TakeVirq, Guest, timerVars
<1>2. Vcpus /\ cur \in Slots /\ cur # None /\ st[cur] = "Running" /\ live = cur /\ live # None
  BY <1>1, InGuest DEF SchedInv
<1>3. Mirrored'
  BY <1>1, <1>2 DEF Vcpus, Mirrored
<1>4. /\ queue' \in Queues /\ cnthp' \in Left /\ NoLater(cnthp', queue')
      /\ cntv' \in [Banks -> Unarmed..Far] /\ vpend' \in [Slots -> BOOLEAN] /\ oneshot' \in Slots \cup {None}
  BY <1>1, <1>2 DEF Vcpus, VcpusTypeOK
<1>5. Vcpus' /\ Carries
  BY <1>1, <1>2, <1>3, <1>4, FpKeeps
<1>6. RunningNow /\ live # None
  BY <1>2 DEF RunningNow
<1> QED
  BY <1>1, <1>5, <1>6, GuestGoesOn DEF Carries

LEMMA CpuOffStep == SchedInv /\ CpuOff => SchedInv'
<1> SUFFICES ASSUME SchedInv, CpuOff PROVE SchedInv'
  OBVIOUS
<1>1. Guest /\ pc' = "pick" /\ UNCHANGED <<outer, idling, irqs>> /\ Retired(cur)
  BY DEF CpuOff, Traps
<1>2. Vcpus /\ cur \in Slots /\ live # None
  BY <1>1, InGuest DEF SchedInv
<1>3. Vcpus' /\ live' # None
  BY <1>1, <1>2, RetireKeeps
<1> QED
  BY <1>1, <1>3, GuestLeaves

LEMMA IrqStep == SchedInv /\ Irq => SchedInv'
<1> SUFFICES ASSUME SchedInv, Irq PROVE SchedInv'
  OBVIOUS
<1>1. Guest /\ pc' = "drain" /\ Still /\ UNCHANGED <<idling, outer, irqs>>
  BY DEF Irq, Still
<1>2. UNCHANGED <<idling, outer, dispatch, epilogue, mail, call, stray, calls>>
  BY <1>1 DEF irqs
<1>3. Vcpus' /\ Carries
  BY <1>1, StillKeeps DEF SchedInv
<1>4. RunningNow /\ live # None
  BY <1>1, InGuest DEF RunningNow
<1>5. StageTypeOK'
  BY <1>1, <1>2 DEF SchedInv, StageTypeOK, Places
<1>6. Stage'
  BY <1>1, <1>2, <1>3, <1>4, InGuest DEF Stage, Handling, Carries
<1> QED
  BY <1>3, <1>5, <1>6 DEF SchedInv

\* The core goes to sleep with nobody running.
LEMMA SleepStep ==
  ASSUME SchedInv, pc \in {"enter", "pick"}, Sleep, UNCHANGED irqs
  PROVE  SchedInv'
<1>1. Still /\ idling' = TRUE /\ pc' = "idle" /\ UNCHANGED <<outer, dispatch, epilogue, mail, call, stray, calls>>
  BY DEF Sleep, Still, irqs
<1>2. Vcpus' /\ Carries
  BY <1>1, StillKeeps DEF SchedInv
<1>3. StageTypeOK'
  BY <1>1 DEF SchedInv, StageTypeOK, Places
<1>4. Stage'
  BY <1>1, <1>2 DEF SchedInv, Stage, Handling, Carries
<1> QED
  BY <1>2, <1>3, <1>4 DEF SchedInv

\* On the first entry there is nobody to park.
LEMMA EnterCpuStep == SchedInv /\ EnterCpu => SchedInv'
<1> SUFFICES ASSUME SchedInv, EnterCpu PROVE SchedInv'
  OBVIOUS
<1>1. pc = "enter" /\ UNCHANGED irqs
  BY DEF EnterCpu
<1>2. CASE Ready(st) = {}
  BY <1>1, <1>2, SleepStep DEF EnterCpu
<1>3. CASE Ready(st) # {}
  <2> DEFINE next == PickNext(st, None)
  <2>1. next \in Ready(st)
    BY <1>3, PickNextReady DEF None
  <2>2. Vcpus /\ live = None /\ cur = None /\ ~idling /\ ~outer /\ ~dispatch /\ ~epilogue
    <3>1. live = None /\ ~idling /\ ~dispatch /\ ~epilogue /\ ~outer
      BY <1>1 DEF SchedInv, Stage, Handling, StageTypeOK
    <3> QED
      BY <3>1 DEF SchedInv, Vcpus, Resident
  <2>3. saved' = [s \in Slots |-> IF s = cur THEN live ELSE saved[s]]
    <3>1. saved' = saved
      BY <1>3 DEF EnterCpu
    <3>2. \A s \in Slots : s # cur
      BY <2>2, Bounds
    <3> QED
      BY <2>2, <3>1, <3>2 DEF Vcpus, VcpusTypeOK
  <2>4. Park = st
    <3>1. \A s \in Slots : s # cur
      BY <2>2, Bounds
    <3> QED
      BY <2>2, <3>1 DEF Park, Vcpus, VcpusTypeOK
  <2>5. Load(next, st, queue) /\ pc' = "guest" /\ UNCHANGED <<idling, outer>>
    BY <1>3 DEF EnterCpu
  <2>6. SwitchTo(next, queue)
    BY <2>3, <2>4, <2>5 DEF SwitchTo
  <2>7. next # cur
    BY <2>1, <2>2, Bounds DEF Ready
  <2>8. queue \in Queues /\ SameWakes(queue, queue)
    BY <2>2 DEF Vcpus, VcpusTypeOK, SameWakes
  <2> HIDE DEF next
  <2>9. Vcpus' /\ RunningNow' /\ live' # None
    BY <2>1, <2>2, <2>6, <2>7, <2>8, SwitchKeeps
  <2>10. UNCHANGED <<idling, outer, dispatch, epilogue, mail, call, stray, calls>>
    BY <1>1, <2>5 DEF irqs
  <2>11. StageTypeOK'
    BY <2>5, <2>10 DEF SchedInv, StageTypeOK, Places
  <2>12. Stage'
    BY <2>2, <2>5, <2>9, <2>10 DEF Stage, Handling
  <2> QED
    BY <2>9, <2>11, <2>12 DEF SchedInv
<1> QED
  BY <1>2, <1>3

\* schedule_out() returns with somebody running.
LEMMA ResumeKeeps ==
  ASSUME SchedInv, pc = "pick", Resume, Vcpus', RunningNow', live' # None, UNCHANGED <<idling, irqs>>
  PROVE  SchedInv'
<1>1. /\ pc' = (IF outer THEN "drain" ELSE "guest") /\ outer' = FALSE
      /\ UNCHANGED <<idling, dispatch, epilogue, mail, call, stray, calls>>
  BY DEF Resume, irqs
<1>2. ~idling /\ ~dispatch /\ ~epilogue
  BY DEF SchedInv, Stage, Handling, StageTypeOK
<1>3. StageTypeOK'
  BY <1>1 DEF SchedInv, StageTypeOK, Places
<1>4. Stage'
  BY <1>1, <1>2 DEF Stage, Handling
<1> QED
  BY <1>3, <1>4 DEF SchedInv

LEMMA ScheduleOutStep == SchedInv /\ ScheduleOut => SchedInv'
<1> SUFFICES ASSUME SchedInv, ScheduleOut PROVE SchedInv'
  OBVIOUS
<1> DEFINE next == PickNext(st, cur)
<1>1. pc = "pick" /\ UNCHANGED irqs
  BY DEF ScheduleOut
<1>2. Vcpus /\ live # None /\ cur \in Slots \cup {None} /\ queue \in Queues /\ SameWakes(queue, queue)
  BY <1>1 DEF SchedInv, Vcpus, VcpusTypeOK, Stage, Handling, SameWakes
<1>3. cur \in Int
  BY <1>2, Bounds DEF None
<1>4. next # None => next \in Ready(st)
  BY <1>3, PickNextReady
<1>5. CASE next = None
  <2>1. Sleep
    BY <1>5 DEF ScheduleOut
  <2> QED
    BY <1>1, <2>1, SleepStep
<1>6. CASE next # None /\ next = cur
  <2>1. /\ st' = [st EXCEPT ![cur] = "Running"]
        /\ Set(Resliced(queue, st', cur, quantum))
        /\ Resume
        /\ UNCHANGED <<cur, mine, fp, cntv, vpend, oneshot, quantum, idling>>
    BY <1>6 DEF ScheduleOut
  <2>2. cur \in Slots /\ st[cur] = "Ready" /\ cur # None /\ live = cur
    BY <1>2, <1>4, <1>6 DEF Ready, Vcpus, Resident
  <2>3. /\ st' \in [Slots -> {"Off", "Ready", "Blocked", "Running"}]
        /\ st'[cur] = "Running" /\ \A o \in Slots \ {cur} : st'[o] = st[o]
    BY <1>2, <2>1, <2>2 DEF Vcpus, VcpusTypeOK
  <2>4. queue' \in Queues /\ cnthp' \in Left /\ NoLater(cnthp', queue') /\ SameWakes(queue', queue)
    <3> DEFINE r == Resliced(queue, st', cur, quantum)
    <3>1. quantum \in 1..Horizon
      BY <1>2, Bounds DEF Vcpus, VcpusTypeOK
    <3>2. r \in Queues /\ SameWakes(r, queue)
      BY <1>2, <3>1, ReslicedKeeps
    <3>3. Set(r)
      BY <2>1
    <3> HIDE DEF r
    <3> QED
      BY <3>2, <3>3, SetWatches
  <2>5. UNCHANGED <<cur, live, saved, owner, fpTrap, fpLive, fpSaved, cntv, vpend, oneshot, quantum>>
    BY <2>1 DEF mine, fp
  <2>6. VcpusTypeOK'
    BY <1>2, <2>3, <2>4, <2>5 DEF Vcpus, VcpusTypeOK
  <2>7. Resident'
    BY <1>2, <2>2, <2>3, <2>5 DEF Vcpus, Resident
  <2>8. Banked'
    BY <1>2, <2>2, <2>3, <2>5 DEF Vcpus, Banked
  <2>9. Mirrored'
    BY <1>2, <2>2, <2>3, <2>4, <2>5 DEF Vcpus, Mirrored, SameWakes
  <2>10. RunningNow' /\ live' # None
    BY <1>2, <2>2, <2>3, <2>5 DEF RunningNow
  <2> QED
    BY <1>1, <2>1, <2>4, <2>6, <2>7, <2>8, <2>9, <2>10, ResumeKeeps DEF Vcpus
<1>7. CASE next # None /\ next # cur
  <2>1. SwitchTo(next, queue) /\ Resume /\ UNCHANGED idling
    BY <1>7 DEF ScheduleOut
  <2>2. next \in Ready(st) /\ next # cur
    BY <1>4, <1>7
  <2> HIDE DEF next
  <2>3. Vcpus' /\ RunningNow' /\ live' # None
    BY <1>2, <2>1, <2>2, SwitchKeeps
  <2> QED
    BY <1>1, <2>1, <2>3, ResumeKeeps
<1> QED
  BY <1>5, <1>6, <1>7

LEMMA IdleWakesStep == SchedInv /\ IdleWakes => SchedInv'
<1> SUFFICES ASSUME SchedInv, IdleWakes PROVE SchedInv'
  OBVIOUS
<1>1. pc = "idle" /\ pc' = "drain" /\ Still /\ UNCHANGED <<idling, outer, dispatch, epilogue, mail, call, stray, calls>>
  BY DEF IdleWakes, Still, irqs
<1>2. Vcpus' /\ Carries
  BY <1>1, StillKeeps DEF SchedInv
<1>3. StageTypeOK'
  BY <1>1 DEF SchedInv, StageTypeOK, Places
<1>4. Stage'
  BY <1>1, <1>2 DEF SchedInv, Stage, Handling, Carries
<1> QED
  BY <1>2, <1>3, <1>4 DEF SchedInv

LEMMA DrainEndsStep == SchedInv /\ DrainEnds => SchedInv'
<1> SUFFICES ASSUME SchedInv, DrainEnds PROVE SchedInv'
  OBVIOUS
<1>1. pc = "drain" /\ idling' = FALSE /\ Still /\ UNCHANGED <<dispatch, epilogue, mail, call, stray, calls>>
  BY DEF DrainEnds, Still, irqs
<1>2. Vcpus' /\ Carries
  BY <1>1, StillKeeps DEF SchedInv
<1>3. ~dispatch /\ ~epilogue /\ (outer => idling /\ live # None) /\ (~idling => RunningNow /\ live # None)
  BY <1>1 DEF SchedInv, Stage, Handling, StageTypeOK
<1>4. \/ ~idling /\ pc' = "guest" /\ outer' = outer
      \/ idling /\ live = None /\ pc' = "enter" /\ outer' = outer
      \/ idling /\ live # None /\ RunningNow /\ pc' = (IF outer THEN "drain" ELSE "guest") /\ outer' = FALSE
      \/ idling /\ live # None /\ pc' = "pick" /\ outer' = outer
  <2>1. CASE ~idling
    BY <2>1 DEF DrainEnds
  <2>2. CASE idling /\ live = None
    BY <2>2 DEF DrainEnds
  <2>3. CASE idling /\ live # None /\ RunningNow
    BY <2>3 DEF DrainEnds, Resume
  <2>4. CASE idling /\ live # None /\ ~RunningNow
    BY <2>4 DEF DrainEnds
  <2> QED
    BY <2>1, <2>2, <2>3, <2>4 DEF SchedInv, StageTypeOK
<1>5. outer' \in BOOLEAN
  BY <1>4 DEF SchedInv, StageTypeOK
<1>6. StageTypeOK'
  BY <1>1, <1>4, <1>5 DEF SchedInv, StageTypeOK, Places
<1>7. Stage'
  BY <1>1, <1>2, <1>3, <1>4 DEF Stage, Handling, Carries
<1> QED
  BY <1>2, <1>6, <1>7 DEF SchedInv

\* An interrupt is acknowledged: only what it changes of the vCPUs matters.
LEMMA AckKeeps ==
  ASSUME SchedInv, NEW to \in Handling, Ack(to), Vcpus', Carries,
         epilogue' = epilogue, call' \in BOOLEAN, stray' \in {"quiet", "pending", "quarantined"}
  PROVE  SchedInv'
<1>1. pc = "drain" /\ dispatch' = TRUE /\ pc' = to /\ UNCHANGED <<idling, outer, mail, calls>>
  BY DEF Ack
<1>2. StageTypeOK'
  BY <1>1 DEF SchedInv, StageTypeOK, Places, Handling
<1>3. Stage'
  BY <1>1 DEF SchedInv, Stage, Handling, Carries
<1> QED
  BY <1>2, <1>3 DEF SchedInv

LEMMA DispatchStep == SchedInv /\ Dispatch => SchedInv'
<1> SUFFICES ASSUME SchedInv, Dispatch PROVE SchedInv'
  OBVIOUS
<1>1. Vcpus /\ call \in BOOLEAN /\ stray \in {"quiet", "pending", "quarantined"}
  BY DEF SchedInv, StageTypeOK
<1>2. CASE AckTimer
  <2>1. Ack("expire") /\ Still /\ UNCHANGED <<epilogue, call, stray>>
    BY <1>2 DEF AckTimer, Still
  <2> QED
    BY <1>1, <2>1, StillKeeps, AckKeeps DEF Handling
<1>3. CASE AckCntv
  <2>1. Ack("eoi") /\ UNCHANGED <<epilogue, call, stray>> /\ UNCHANGED <<cur, mine, fp, oneshot, quantum>>
        /\ Posted(cur, queue) /\ cntv' = [cntv EXCEPT ![live] = Unarmed]
    BY <1>3 DEF AckCntv
  <2>2. cur \in Slots \cup {None} /\ oneshot' \in Slots \cup {None}
        /\ queue \in Queues /\ NoLater(cnthp, queue) /\ SameWakes(queue, queue)
    BY <1>1, <2>1 DEF Vcpus, VcpusTypeOK, SameWakes
  <2>3. Masks
    <3>1. Unarmed \in Unarmed..Far /\ Slots \subseteq Banks
      BY Bounds DEF Unarmed, Far, Banks
    <3> QED
      BY <1>1, <2>1, <3>1 DEF Masks, Vcpus, VcpusTypeOK
  <2>4. Vcpus' /\ Carries
    BY <1>1, <2>1, <2>2, <2>3, PostKeeps
  <2> QED
    BY <1>1, <2>1, <2>4, AckKeeps DEF Handling
<1>4. CASE AckStray
  <2>1. Ack("eoi") /\ Still /\ UNCHANGED <<epilogue, call>> /\ stray' = "quarantined"
    BY <1>4 DEF AckStray, Still
  <2> QED
    BY <1>1, <2>1, StillKeeps, AckKeeps DEF Handling
<1>5. CASE AckCall
  <2>1. Ack("calls") /\ Still /\ UNCHANGED <<epilogue, stray>> /\ call' = FALSE
    BY <1>5 DEF AckCall, Still
  <2> QED
    BY <1>1, <2>1, StillKeeps, AckKeeps DEF Handling
<1> QED
  BY <1>2, <1>3, <1>4, <1>5 DEF Dispatch

\* A handler that runs inside the dispatch.
LEMMA HandlerKeeps ==
  ASSUME SchedInv, pc \in Handling, Vcpus', Carries, pc' \in Handling, mail' \in Nat,
         UNCHANGED <<idling, outer, dispatch, epilogue, call, stray, calls>>
  PROVE  SchedInv'
<1>1. StageTypeOK'
  BY DEF SchedInv, StageTypeOK, Places, Handling
<1>2. Stage'
  BY DEF SchedInv, Stage, Handling, Carries
<1> QED
  BY <1>1, <1>2 DEF SchedInv

\* A slot that expired leaves the queue, and nothing gets later.
LEMMA PopKeeps ==
  ASSUME NEW t \in Timers, queue \in Queues, NoLater(cnthp, queue)
  PROVE  Pop(queue, t) \in Queues /\ NoLater(cnthp, Pop(queue, t))
         /\ \A o \in Timers \ {t} : Pop(queue, t)[o] = queue[o]
<1>1. Unarmed \in Left
  BY Bounds DEF Left, Unarmed
<1>2. Pop(queue, t) \in Queues /\ Pop(queue, t)[t] = Unarmed /\ \A o \in Timers \ {t} : Pop(queue, t)[o] = queue[o]
  BY <1>1 DEF Pop, Queues
<1>3. NoLater(cnthp, Pop(queue, t))
  BY <1>2 DEF NoLater, Armed
<1> QED
  BY <1>2, <1>3

LEMMA ExpireStep == SchedInv /\ Expire => SchedInv'
<1> SUFFICES ASSUME SchedInv, Expire PROVE SchedInv'
  OBVIOUS
<1>1. pc = "expire" /\ UNCHANGED <<pc, idling, outer, dispatch, epilogue, call, mail, stray, calls>>
  BY DEF Expire
<1>2. PICK t \in Expired(queue) :
        CASE t = Slice   -> OnSlice(Pop(queue, t))
          [] t = OneShot -> OnTimerSetExpiry(Pop(queue, t))
          [] OTHER       -> OnCntvWake(Pop(queue, t), t[2])
  BY DEF Expire
<1> DEFINE q == Pop(queue, t)
<1>3. t \in Timers /\ Vcpus /\ quantum \in Quanta /\ oneshot \in Slots \cup {None} /\ vpend \in [Slots -> BOOLEAN]
  BY DEF Expired, SchedInv, Vcpus, VcpusTypeOK
<1>4. q \in Queues /\ NoLater(cnthp, q) /\ \A o \in Timers \ {t} : q[o] = queue[o]
  BY <1>3, PopKeeps DEF Vcpus, VcpusTypeOK
<1>5. t = Slice \/ t = OneShot => SameWakes(q, queue)
  BY <1>4, TimersApart DEF SameWakes
<1>6. CASE t = Slice
  <2>1. OnSlice(q)
    BY <1>2, <1>6, TimersApart
  <2> HIDE DEF q
  <2>2. CASE Yields
    <3>1. SwitchTo(PickNext(st, cur), q)
      BY <2>1, <2>2 DEF OnSlice
    <3>2. Vcpus' /\ RunningNow' /\ live' # None
      BY <1>3, <1>4, <1>5, <1>6, <2>2, <3>1, YieldsReady, SwitchKeeps
    <3>3. live # None
      BY <1>3, <2>2 DEF Yields, Vcpus, VcpusTypeOK, Resident
    <3> QED
      BY <1>1, <3>2, <3>3, HandlerKeeps DEF Carries, Handling, SchedInv, StageTypeOK
  <2>3. CASE ~Yields
    <3>1. Set(Resliced(q, st, cur, quantum)) /\ UNCHANGED <<st, cur, mine, fp, cntv, vpend, oneshot, quantum>>
      BY <2>1, <2>3 DEF OnSlice, Stays
    <3>2. quantum' \in Quanta /\ Set(Resliced(q, st, cur, quantum'))
      BY <1>3, <3>1
    <3>3. Vcpus' /\ Carries
      BY <1>3, <1>4, <1>5, <1>6, <3>1, <3>2, SliceKeeps
    <3> QED
      BY <1>1, <3>3, HandlerKeeps DEF Handling, SchedInv, StageTypeOK
  <2> QED
    BY <2>2, <2>3
<1>7. CASE t = OneShot
  <2>1. OnTimerSetExpiry(q)
    BY <1>2, <1>7, TimersApart
  <2> HIDE DEF q
  <2>2. oneshot' = None /\ Posted(oneshot, q) /\ UNCHANGED <<cur, mine, fp, cntv, quantum>>
    BY <2>1 DEF OnTimerSetExpiry
  <2>3. Masks
    BY <1>3, <2>2 DEF Masks, Vcpus, VcpusTypeOK
  <2>4. oneshot' \in Slots \cup {None}
    BY <2>2
  <2>5. Vcpus' /\ Carries
    BY <1>3, <1>4, <1>5, <1>7, <2>2, <2>3, <2>4, PostKeeps
  <2> QED
    BY <1>1, <2>5, HandlerKeeps DEF Handling, SchedInv, StageTypeOK
<1>8. ASSUME NEW s \in Slots, t = Wake(s) PROVE SchedInv'
  <2>1. OnCntvWake(q, s)
    BY <1>2, <1>8, TimersApart
  <2>2. ButFor(s, q)
    BY <1>4, <1>8, TimersApart DEF ButFor
  <2> HIDE DEF q
  <2>3. Woken(s, q) /\ UNCHANGED <<cur, mine, fp, cntv, vpend, oneshot, quantum>>
    BY <2>1 DEF OnCntvWake
  <2>4. Masks
    BY <1>3, <2>3 DEF Masks, Vcpus, VcpusTypeOK
  <2>5. vpend' \in [Slots -> BOOLEAN] /\ oneshot' \in Slots \cup {None}
    BY <1>3, <2>3
  <2>6. Vcpus' /\ Carries
    BY <1>3, <2>2, <2>3, <2>4, <2>5, WakeKeeps
  <2> QED
    BY <1>1, <2>6, HandlerKeeps DEF Handling, SchedInv, StageTypeOK
<1> QED
  BY <1>3, <1>6, <1>7, <1>8, TimersApart

LEMMA DrainExpiredStep == SchedInv /\ DrainExpired => SchedInv'
<1> SUFFICES ASSUME SchedInv, DrainExpired PROVE SchedInv'
  OBVIOUS
<1>1. pc = "expire" /\ pc' = "eoi" /\ Set(queue) /\ UNCHANGED <<idling, outer, dispatch, epilogue, mail, call, stray, calls>>
      /\ UNCHANGED <<st, cur, mine, fp, cntv, vpend, oneshot, quantum>>
  BY DEF DrainExpired, irqs
<1>2. Vcpus /\ queue \in Queues
  BY DEF SchedInv, Vcpus, VcpusTypeOK
<1>3. queue' = queue /\ cnthp' \in Left /\ NoLater(cnthp', queue')
  BY <1>1, <1>2, SetWatches
<1>4. Mirrored'
  BY <1>1, <1>2, <1>3 DEF Vcpus, Mirrored
<1>5. queue' \in Queues /\ cntv' \in [Banks -> Unarmed..Far] /\ vpend' \in [Slots -> BOOLEAN] /\ oneshot' \in Slots \cup {None}
  BY <1>1, <1>2, <1>3 DEF Vcpus, VcpusTypeOK
<1>6. Vcpus' /\ Carries
  BY <1>1, <1>2, <1>3, <1>4, <1>5, FpKeeps
<1> QED
  BY <1>1, <1>6, HandlerKeeps DEF Handling, SchedInv, StageTypeOK

LEMMA CrossCallStep == SchedInv /\ CrossCall => SchedInv'
<1> SUFFICES ASSUME SchedInv, CrossCall PROVE SchedInv'
  OBVIOUS
<1>1. pc = "calls" /\ UNCHANGED <<pc, idling, outer, dispatch, call, stray, calls>>
  BY DEF CrossCall
<1>2. mail' \in Nat
  BY DEF CrossCall, SchedInv, StageTypeOK
<1>3. Vcpus /\ VcpusTypeOK
  BY DEF SchedInv, Vcpus
<1>4. ASSUME NEW s \in Slots, Start(s) PROVE SchedInv'
  <2>1. Vcpus' /\ Carries /\ epilogue' = epilogue
    BY <1>3, <1>4, StartKeeps DEF Start
  <2> QED
    BY <1>1, <1>2, <2>1, HandlerKeeps DEF Handling
<1>5. ASSUME NEW s \in Slots, Quiesce(s) PROVE SchedInv'
  <2>1. Retired(s) /\ epilogue' = (epilogue \/ (s = cur /\ ~idling))
    BY <1>5 DEF Quiesce
  <2>2. Vcpus' /\ live' = live /\ (s # cur /\ RunningNow => RunningNow')
    BY <1>3, <2>1, RetireKeeps
  <2>3. s = cur => live # None
    BY <1>3, Bounds DEF Vcpus, Resident
  <2>4. StageTypeOK'
    BY <1>1, <1>2, <2>1 DEF SchedInv, StageTypeOK
  <2>5. Stage'
    BY <1>1, <2>1, <2>2, <2>3 DEF SchedInv, Stage, Handling
  <2> QED
    BY <2>2, <2>4, <2>5 DEF SchedInv
<1>6. ASSUME NEW s \in Slots, Posted(s, queue), UNCHANGED <<cur, mine, fp, cntv, oneshot, quantum, epilogue>>
      PROVE  SchedInv'
  <2>1. queue \in Queues /\ NoLater(cnthp, queue) /\ SameWakes(queue, queue) /\ oneshot' \in Slots \cup {None}
    BY <1>3, <1>6 DEF Vcpus, VcpusTypeOK, SameWakes
  <2>2. Masks
    BY <1>3, <1>6 DEF Masks, VcpusTypeOK
  <2>3. Vcpus' /\ Carries
    BY <1>3, <1>6, <2>1, <2>2, PostKeeps
  <2> QED
    BY <1>1, <1>2, <1>6, <2>3, HandlerKeeps DEF Handling
<1>7. ASSUME SetSlice PROVE SchedInv'
  <2>1. quantum' \in Quanta /\ Set(Resliced(queue, st, cur, quantum'))
        /\ UNCHANGED <<st, cur, mine, fp, cntv, vpend, oneshot>> /\ epilogue' = epilogue
    BY <1>7 DEF SetSlice
  <2>2. queue \in Queues /\ SameWakes(queue, queue)
    BY <1>3 DEF VcpusTypeOK, SameWakes
  <2>3. Vcpus' /\ Carries
    BY <1>3, <2>1, <2>2, SliceKeeps
  <2> QED
    BY <1>1, <1>2, <2>1, <2>3, HandlerKeeps DEF Handling
<1> QED
  BY <1>4, <1>5, <1>6, <1>7 DEF CrossCall

LEMMA CallsEndStep == SchedInv /\ CallsEnd => SchedInv'
<1> SUFFICES ASSUME SchedInv, CallsEnd PROVE SchedInv'
  OBVIOUS
<1>1. pc = "calls" /\ pc' = "eoi" /\ Still /\ UNCHANGED <<idling, outer, dispatch, epilogue, mail, call, stray, calls>>
  BY DEF CallsEnd, Still, irqs
<1>2. Vcpus' /\ Carries
  BY <1>1, StillKeeps DEF SchedInv
<1> QED
  BY <1>1, <1>2, HandlerKeeps DEF Handling, SchedInv, StageTypeOK

LEMMA EndOfInterruptStep == SchedInv /\ EndOfInterrupt => SchedInv'
<1> SUFFICES ASSUME SchedInv, EndOfInterrupt PROVE SchedInv'
  OBVIOUS
<1>1. /\ pc = "eoi" /\ Still /\ dispatch' = FALSE /\ epilogue' = FALSE
      /\ UNCHANGED <<idling, call, mail, stray, calls>>
  BY DEF EndOfInterrupt, Still
<1>2. \/ epilogue /\ ~idling /\ pc' = "pick" /\ outer' = TRUE
      \/ ~(epilogue /\ ~idling) /\ pc' = "drain" /\ outer' = outer
  BY DEF EndOfInterrupt
<1>3. Vcpus' /\ Carries
  BY <1>1, StillKeeps DEF SchedInv
<1>4. StageTypeOK'
  BY <1>1, <1>2 DEF SchedInv, StageTypeOK, Places
<1>5. Stage'
  BY <1>1, <1>2, <1>3 DEF SchedInv, Stage, Handling, Carries
<1> QED
  BY <1>3, <1>4, <1>5 DEF SchedInv

\* Time takes a mirror no further than the timer it stands for.
LEMMA TickStep == SchedInv /\ Tick => SchedInv'
<1> SUFFICES ASSUME SchedInv, Tick PROVE SchedInv'
  OBVIOUS
<1>1. /\ queue' = [t \in Timers |-> Nearer(queue[t])] /\ cnthp' = Nearer(cnthp)
      /\ cntv' = [x \in DOMAIN cntv |-> IF cntv[x] = Far THEN Far ELSE Nearer(cntv[x])]
      /\ UNCHANGED <<st, cur, mine, fp, quantum>> /\ UNCHANGED <<vpend, oneshot>>
      /\ UNCHANGED <<pc, idling, outer, dispatch, epilogue, mail, call, stray, calls>>
  BY DEF Tick, TimePasses, irqs
<1>2. Vcpus /\ VcpusTypeOK
  BY DEF SchedInv, Vcpus
<1>3. \A x \in Left : Nearer(x) \in Left /\ (x # Unarmed => Nearer(x) # Unarmed) /\ (x = Unarmed => Nearer(x) = Unarmed)
  BY Bounds DEF Left, Unarmed, Nearer
<1>4. \A x, y \in Left : x # Unarmed /\ x <= y => Nearer(x) <= Nearer(y)
  BY Bounds DEF Left, Unarmed, Nearer
<1>5. queue' \in Queues /\ cnthp' \in Left /\ \A t \in Timers : queue[t] \in Left /\ queue'[t] = Nearer(queue[t])
  BY <1>1, <1>2, <1>3 DEF VcpusTypeOK, Queues
<1>6. NoLater(cnthp', queue')
  <2> SUFFICES ASSUME NEW t \in Timers, queue'[t] # Unarmed
               PROVE  cnthp' # Unarmed /\ cnthp' <= queue'[t]
    BY DEF NoLater, Armed
  <2>1. queue[t] # Unarmed /\ queue[t] \in Left /\ cnthp \in Left
    BY <1>2, <1>3, <1>5 DEF VcpusTypeOK
  <2>2. cnthp # Unarmed /\ cnthp <= queue[t]
    BY <1>2, <2>1 DEF Vcpus, NoLater, Armed
  <2> QED
    BY <1>1, <1>3, <1>4, <1>5, <2>1, <2>2
<1>7. cntv' \in [Banks -> Unarmed..Far]
  <2>1. \A x \in Unarmed..Far : (IF x = Far THEN Far ELSE Nearer(x)) \in Unarmed..Far
    BY Bounds DEF Unarmed, Far, Nearer
  <2> QED
    BY <1>1, <1>2, <2>1 DEF VcpusTypeOK
<1>8. Mirrored'
  <2> SUFFICES ASSUME NEW s \in Slots, st'[s] = "Blocked", cntv'[s] # Unarmed
               PROVE  queue'[Wake(s)] # Unarmed /\ queue'[Wake(s)] <= cntv'[s]
    BY DEF Mirrored
  <2> DEFINE c == cntv[s]
             w == queue[Wake(s)]
  <2>1. c \in Unarmed..Far /\ cntv'[s] = (IF c = Far THEN Far ELSE Nearer(c))
    BY <1>1, <1>2 DEF VcpusTypeOK, Banks
  <2>2. st[s] = "Blocked" /\ w \in Left /\ queue'[Wake(s)] = Nearer(w)
    BY <1>1, <1>5, TimersApart
  <2>3. c # Unarmed => w # Unarmed /\ w <= c
    BY <1>2, <2>2 DEF Vcpus, Mirrored
  <2> HIDE DEF c, w
  <2>4. c # Unarmed
    BY <2>1, Bounds DEF Nearer, Unarmed, Far
  <2>5. Nearer(w) \in Left /\ Nearer(w) # Unarmed
    BY <1>3, <2>2, <2>3, <2>4
  <2>6. CASE c = Far
    BY <2>1, <2>2, <2>5, <2>6, Bounds DEF Left, Unarmed, Far
  <2>7. CASE c # Far
    <3>1. c \in Left
      BY <2>1, <2>7, Bounds DEF Left, Unarmed, Far
    <3> QED
      BY <1>4, <2>1, <2>2, <2>3, <2>4, <2>5, <2>7, <3>1
  <2> QED
    BY <2>6, <2>7
<1>9. vpend' \in [Slots -> BOOLEAN] /\ oneshot' \in Slots \cup {None}
  BY <1>1, <1>2 DEF VcpusTypeOK
<1>10. Vcpus' /\ Carries
  BY <1>1, <1>2, <1>5, <1>6, <1>7, <1>8, <1>9, FpKeeps
<1>11. StageTypeOK'
  BY <1>1 DEF SchedInv, StageTypeOK
<1>12. Stage'
  <2>1. pc = "guest" \/ pc = "idle"
    BY DEF Tick
  <2> QED
    BY <1>1, <1>10, <2>1 DEF SchedInv, Stage, Handling, Carries
<1> QED
  BY <1>10, <1>11, <1>12 DEF SchedInv

\* Requests and interrupts arrive wherever the core is.
LEMMA ArrivalStep == SchedInv /\ (RemoteCall \/ StrayAsserts) => SchedInv'
<1> SUFFICES ASSUME SchedInv, RemoteCall \/ StrayAsserts PROVE SchedInv'
  OBVIOUS
<1>1. Still /\ UNCHANGED <<pc, idling, outer, dispatch, epilogue>>
  BY DEF RemoteCall, StrayAsserts, Still
<1>2. Vcpus' /\ Carries /\ UNCHANGED <<st, cur, live>>
  BY <1>1, StillKeeps DEF SchedInv, Still, mine
<1>3. StageTypeOK'
  <2>1. CASE RemoteCall
    BY <1>1, <2>1 DEF SchedInv, StageTypeOK, RemoteCall
  <2>2. CASE StrayAsserts
    <3>1. /\ UNCHANGED <<pc, idling, outer, dispatch, epilogue, call, mail>>
          /\ stray' = "pending" /\ calls' = calls - 1 /\ calls > 0
      BY <2>2 DEF StrayAsserts
    <3> QED
      BY <3>1 DEF SchedInv, StageTypeOK
  <2> QED
    BY <2>1, <2>2
<1>4. Stage'
  BY <1>1, <1>2 DEF SchedInv, Stage, Handling, Carries
<1> QED
  BY <1>2, <1>3, <1>4 DEF SchedInv

LEMMA SchedNext == SchedInv /\ [Next]_vars => SchedInv'
<1> SUFFICES ASSUME SchedInv, [Next]_vars PROVE SchedInv'
  OBVIOUS
<1>1. CASE UNCHANGED vars
  <2>1. Still /\ UNCHANGED <<pc, idling, outer, dispatch, epilogue, mail, call, stray, calls>>
    BY <1>1 DEF vars, Still, irqs
  <2>2. Vcpus' /\ Carries
    BY <2>1, StillKeeps DEF SchedInv
  <2>3. StageTypeOK'
    BY <2>1 DEF SchedInv, StageTypeOK
  <2>4. Stage'
    BY <2>1, <2>2 DEF SchedInv, Stage, Carries
  <2> QED
    BY <2>2, <2>3, <2>4 DEF SchedInv
<1>2. CASE Irq
  BY <1>2, IrqStep
<1>3. CASE El2
  BY <1>3, EnterCpuStep, ScheduleOutStep, IdleWakesStep, DrainEndsStep, DispatchStep, ExpireStep,
     DrainExpiredStep, CrossCallStep, CallsEndStep, EndOfInterruptStep DEF El2
<1>4. CASE Traffic
  BY <1>4, YieldStep, WfiStep, HandleFpSimdStep, SetCntvStep, TimerSetStep, TakeVirqStep, CpuOffStep DEF Traffic
<1>5. CASE Tick
  BY <1>5, TickStep
<1>6. CASE RemoteCall \/ StrayAsserts
  BY <1>6, ArrivalStep
<1> QED
  BY <1>1, <1>2, <1>3, <1>4, <1>5, <1>6 DEF Next

LEMMA SchedInvariant == Spec => []SchedInv
<1>1. Init => SchedInv
  BY SchedInit
<1>2. SchedInv /\ [Next]_vars => SchedInv'
  BY SchedNext
<1> QED
  BY <1>1, <1>2, PTL DEF Spec

-----------------------------------------------------------------------------
(* Theorems.                                                               *)

\* Every variable of the scheduler, its queue and its banks keeps its type:
\* the slots it names are this core's, the owners it names exist, and no
\* deadline leaves its range.
THEOREM SchedTyped == Spec => []SchedTypeOK
<1>1. SchedInv => SchedTypeOK
  BY DEF SchedInv, Vcpus, SchedTypeOK
<1> QED
  BY <1>1, SchedInvariant, PTL

\* switch_to(), the FP trap, seed() and retire_vcpu(): in a guest the frame,
\* the EL1 bank and, unless it traps, the FP registers are the resident's, of
\* its present life, and every parked vCPU finds its own.
THEOREM RegistersAreTheResidents == Spec => []RegistersBelong
<1>1. SchedInv => RegistersBelong
  BY SchedInvMeans
<1> QED
  BY <1>1, SchedInvariant, PTL

\* reprogram() and the mirror of a parked vCPU's virtual timer: CNTHP fires
\* no later than any armed slot, and a blocked vCPU's slot no later than its
\* timer.
THEOREM NoDeadlineLost == Spec => []DeadlinesWatched
<1>1. SchedInv => DeadlinesWatched
  BY SchedInvMeans
<1> QED
  BY <1>1, SchedInvariant, PTL

\* Of the steps inside a dispatch, only an expired slice and a quiesce change
\* the resident.
LEMMA SwapsStep == SchedInv /\ [Next]_vars => [SwappedInside]_vars
<1> SUFFICES ASSUME SchedInv, Next, dispatch, cur' # cur PROVE
      IF cur' = None THEN epilogue' \/ idling
      ELSE /\ cur # None /\ st'[cur] # "Running"
           /\ Slice \in Expired(queue) /\ st'[cur'] = "Running" /\ live' = cur'
  BY DEF SwappedInside
<1> USE DEF SchedInv
<1>1. pc \in {"expire", "calls", "eoi"}
  BY DEF Stage, Handling
<1>2. Expire \/ CrossCall
  <2>1. ~Irq /\ ~EnterCpu /\ ~ScheduleOut /\ ~IdleWakes /\ ~DrainEnds /\ ~Dispatch /\ ~Tick
    BY <1>1 DEF Irq, Guest, EnterCpu, ScheduleOut, IdleWakes, DrainEnds, Dispatch, AckTimer, AckCntv,
                AckStray, AckCall, Ack, Tick
  <2>2. ~Traffic
    BY <1>1 DEF Traffic, Yield, Wfi, HandleFpSimd, SetCntv, TimerSet, TakeVirq, CpuOff, Traps, Guest
  <2>3. ~DrainExpired /\ ~CallsEnd /\ ~EndOfInterrupt /\ ~RemoteCall /\ ~StrayAsserts
    BY DEF DrainExpired, CallsEnd, EndOfInterrupt, RemoteCall, StrayAsserts
  <2> QED
    BY <2>1, <2>2, <2>3 DEF Next, El2
<1>3. CASE Expire
  <2>1. PICK t \in Expired(queue) :
          CASE t = Slice   -> OnSlice(Pop(queue, t))
            [] t = OneShot -> OnTimerSetExpiry(Pop(queue, t))
            [] OTHER       -> OnCntvWake(Pop(queue, t), t[2])
    BY <1>3 DEF Expire
  <2>2. t = Slice /\ OnSlice(Pop(queue, Slice))
    BY <2>1, TimersApart DEF OnTimerSetExpiry, OnCntvWake
  <2>3. Yields /\ SwitchTo(PickNext(st, cur), Pop(queue, Slice))
    BY <2>2 DEF OnSlice, Stays
  <2> DEFINE next == PickNext(st, cur)
  <2>4. cur # None /\ next \in Slots /\ next # cur
    <3>1. cur # None /\ next # None /\ next # cur
      BY <2>3 DEF Yields
    <3>2. cur \in Int
      BY <3>1, Bounds DEF Vcpus, VcpusTypeOK
    <3> QED
      BY <3>1, <3>2, PickNextReady DEF Ready
  <2> HIDE DEF next
  <2>5. /\ live' = saved[next] /\ cur' = next
        /\ st' = [Park EXCEPT ![next] = "Running"]
    BY <2>3 DEF SwitchTo, Load, next
  <2>6. cur \in Slots /\ st \in [Slots -> {"Off", "Ready", "Blocked", "Running"}]
    BY <2>4 DEF Vcpus, VcpusTypeOK
  <2>7. st[next] = "Ready"
    <3>1. next # None
      BY <2>4, Bounds
    <3> QED
      BY <2>6, <3>1, PickNextReady, Bounds DEF next, Ready
  <2>8. next # live
    BY <2>4, <2>7 DEF Vcpus, Resident
  <2>9. saved[next] = next
    BY <2>4, <2>7, <2>8 DEF Vcpus, Banked
  <2>10. st'[next] = "Running" /\ st'[cur] # "Running"
    BY <2>4, <2>5, <2>6 DEF Park
  <2> QED
    BY <2>2, <2>4, <2>5, <2>9, <2>10, Bounds
<1>4. CASE CrossCall
  <2>1. PICK s \in Slots : Quiesce(s)
    BY <1>4 DEF CrossCall, Start, Posted, SetSlice
  <2>2. cur' = (IF s = cur THEN None ELSE cur) /\ epilogue' = (epilogue \/ (s = cur /\ ~idling))
    BY <2>1 DEF Quiesce, Retired
  <2>3. idling \in BOOLEAN
    BY DEF StageTypeOK
  <2> QED
    BY <2>2, <2>3
<1> QED
  BY <1>2, <1>3, <1>4

\* g_dispatching, g_epilogue and CpuSched::idling: schedule_out() and wfi only
\* outside a dispatch, a switch owed made before the return to a guest, and the
\* resident changed inside a dispatch only by a retirement that leaves one owed
\* or by the whole swap of a slice that ran out.
THEOREM SwitchesWhereAllowed == Spec => SwitchPoints
<1>1. SchedInv => LeftOutsideDispatch /\ SwitchKept
  BY SchedInvMeans
<1>2. SchedInv /\ [Next]_vars => [SwappedInside]_vars
  BY SwapsStep
<1> QED
  BY <1>1, <1>2, SchedInvariant, PTL DEF Spec, SwitchPoints
=============================================================================
