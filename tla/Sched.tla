-------------------------------- MODULE Sched --------------------------------
(***************************************************************************)
(* One core of the hypervisor: the round-robin scheduler of core_vcpu, the *)
(* lazy FP switch, the interrupt drain of core_gic with its deferred       *)
(* switch point, the guest timers of core_timer and the soft timers.       *)
(*                                                                         *)
(* EL2 runs with interrupts masked, so a trap handler is one step; only    *)
(* the loops that read interrupts or sleep are split: schedule_out(), the  *)
(* drain, and its loops over the expired timers and the mailbox, where     *)
(* the requests of other cores and of the host arrive.                     *)
(*                                                                         *)
(* What a register file or a saved bank holds is the slot whose present    *)
(* life it belongs to, or Dead when that life is over.  The virtual        *)
(* interrupts of a vCPU are one pending bit; VGic has the rest.            *)
(***************************************************************************)
EXTENDS SoftTimer

CONSTANTS
  N,          \* vCPU slots of this core
  Boot,       \* slots that are ready when the core enters its scheduler
  Quanta,     \* slice lengths the host may set (kSliceMinUs .. kSliceMaxUs)
  MaxCalls,   \* model bound: requests and stray interrupts that reach this core
  Demo        \* do guests use the one-shot timer call and CPU_OFF?

Slots == 0..N - 1
None  == -1           \* kNoVcpu, and fp::kNoOwner
Dead  == -2           \* a life that is over
Far   == Horizon + 1  \* a comparator value the counter never reaches

Slice   == <<"slice", 0>>
OneShot == <<"oneshot", 0>>
Wake(s) == <<"wake", s>>
CoreTimers == {Slice, OneShot} \cup {Wake(s) : s \in Slots}

ASSUME SchedAssumption ==
  /\ N \in Nat \ {0} /\ Boot \subseteq Slots
  /\ Quanta \subseteq 1..Horizon /\ Quanta # {}
  /\ MaxCalls \in Nat /\ Demo \in BOOLEAN
  /\ Timers = CoreTimers

VARIABLES
  pc,        \* what the core executes
  st,        \* Vcpu::state
  cur,       \* CpuSched::current
  live,      \* whose frame and EL1 bank are in the registers
  saved,     \* Vcpu::ctx and Vcpu::el1: whose they are
  owner,     \* CpuSched::fp, the owner of the FP register file
  fpTrap,    \* CPTR_EL2.TFP and its mirror
  fpLive,    \* whose state the FP register file holds
  fpSaved,   \* Vcpu::fp: whose it is
  cntv,      \* the virtual timer of each bank: time left, Unarmed or Far
  vpend,     \* a virtual interrupt is deliverable
  oneshot,   \* LegacySlot: the owner of the running one-shot, or None
  quantum,   \* g_slice_ticks
  idling,    \* CpuSched::idling
  outer,     \* schedule_out() runs in the epilogue of a drain
  dispatch,  \* g_dispatching: between acknowledge and end of interrupt
  epilogue,  \* g_epilogue: a schedule_after_retire() is owed
  mail,      \* requests in this core's mailbox
  call,      \* the cross-call interrupt is pending
  stray,     \* an interrupt nobody claims: quiet, pending or quarantined
  calls      \* requests and stray interrupts still to come

mine == <<saved, live>>
fp   == <<owner, fpTrap, fpLive, fpSaved>>
irqs == <<dispatch, epilogue, mail, call, stray, calls>>
vars == <<pc, st, cur, mine, fp, cntv, vpend, oneshot, quantum, idling, outer, irqs, timerVars>>

Places == {"enter", "guest", "pick", "idle", "drain", "expire", "calls", "eoi"}

-----------------------------------------------------------------------------
(* The pure scheduler model: states() masks slots of other cores, which    *)
(* this module does not have.                                              *)

Ready(states) == {s \in Slots : states[s] = "Ready"}
\* pick_next(): the first ready slot after the current one, which comes last.
Distance(s, from) == (s - from - 1) % N
PickNext(states, from) ==
  IF Ready(states) = {} THEN None
  ELSE CHOOSE s \in Ready(states) :
         \A o \in Ready(states) : Distance(s, from) <= Distance(o, from)

SliceNeeded(states) == Ready(states) # {}
\* reschedule_slice() on queue q, with the states and the resident given.
Resliced(q, states, resident, ticks) ==
  IF resident # None /\ SliceNeeded(states) THEN Arm(q, Slice, ticks) ELSE Cancel(q, Slice)

\* Faulty: wakes only a vCPU that has something to take.
WokenIfPending(s, q) ==
  IF st[s] = "Blocked" /\ vpend[s]
  THEN /\ st' = [st EXCEPT ![s] = "Ready"]
       /\ Set(Resliced(Cancel(q, Wake(s)), st', cur, quantum))
  ELSE queue' = q /\ UNCHANGED <<st, cnthp>>
\* wake() on queue q: only a blocked vCPU becomes ready, its mirror goes, and
\* the resident gains a competitor.
Woken(s, q) ==
  IF st[s] = "Blocked"
  THEN /\ st' = [st EXCEPT ![s] = "Ready"]
       /\ Set(Resliced(Cancel(q, Wake(s)), st', cur, quantum))
  ELSE queue' = q /\ UNCHANGED <<st, cnthp>>

\* post_virq() of a private interrupt: an off vCPU has no pending state, a
\* blocked one wakes.
Posted(s, q) ==
  IF s = None \/ st[s] = "Off" THEN queue' = q /\ UNCHANGED <<st, vpend, cnthp>>
  ELSE vpend' = [vpend EXCEPT ![s] = TRUE] /\ Woken(s, q)

TrapNeeded(s) == owner # s

-----------------------------------------------------------------------------
(* Switching.                                                              *)

\* switch_to(next): park the resident, load the other, retarget the FP trap.
Load(next, states, q) ==
  /\ live' = saved[next]
  /\ fpTrap' = TrapNeeded(next)
  /\ st' = [states EXCEPT ![next] = "Running"]
  /\ cur' = next
  /\ Set(Resliced(q, st', next, quantum))
  /\ UNCHANGED <<owner, fpLive, fpSaved, cntv, vpend, oneshot, quantum>>
Park == [s \in Slots |-> IF s = cur /\ st[s] = "Running" THEN "Ready" ELSE st[s]]
SwitchTo(next, q) ==
  /\ saved' = [s \in Slots |-> IF s = cur THEN live ELSE saved[s]]
  /\ Load(next, Park, q)

\* yield_current(): a no-op on an idle core and without a competitor.
Yields == cur # None /\ PickNext(st, cur) \notin {None, cur}
Stays == UNCHANGED <<st, cur, mine, fp, cntv, vpend, oneshot, quantum>>

-----------------------------------------------------------------------------
(* What the running guest does.                                            *)

Guest == pc = "guest"
Traps == Guest /\ UNCHANGED <<outer, idling, irqs>>

\* NOVA_HVC_FN_YIELD, and wfe as a spin-wait hint.
Yield ==
  /\ Traps
  /\ pc' = "guest"
  /\ IF Yields THEN SwitchTo(PickNext(st, cur), queue) ELSE Stays /\ UNCHANGED timerVars

\* wfi with something deliverable is a no-op; otherwise the vCPU blocks, and
\* a virtual timer that is armed and not masked is mirrored into a wake-up.
\* The comparator is re-based by the VM's offset in 64 bits: one at the far
\* end wraps to an instant that has passed.
Rebased(left) == IF left = Far THEN 0 ELSE left
\* Faulty: parks without mirroring the virtual timer.
WfiUnmirrored ==
  /\ Traps
  /\ ~vpend[cur]
  /\ st' = [st EXCEPT ![cur] = "Blocked"]
  /\ pc' = "pick"
  /\ UNCHANGED <<cur, mine, fp, cntv, vpend, oneshot, quantum, timerVars>>
Wfi ==
  /\ Traps
  /\ ~vpend[cur]
  /\ st' = [st EXCEPT ![cur] = "Blocked"]
  /\ IF cntv[live] = Unarmed THEN UNCHANGED timerVars
     ELSE Set(Arm(queue, Wake(cur), Rebased(cntv[live])))
  /\ pc' = "pick"
  /\ UNCHANGED <<cur, mine, fp, cntv, vpend, oneshot, quantum>>

\* The first FP instruction after a switch: claim the register file, save
\* its owner, restore one's own.
Claim(prev) ==
  /\ owner' = cur
  /\ fpSaved' = [s \in Slots |-> IF s = prev /\ prev # cur THEN fpLive ELSE fpSaved[s]]
  /\ fpLive' = IF prev = cur THEN fpLive ELSE fpSaved[cur]
HandleFpSimd ==
  /\ Traps /\ fpTrap
  /\ fpTrap' = FALSE
  /\ Claim(owner)
  /\ UNCHANGED <<pc, st, cur, mine, cntv, vpend, oneshot, quantum, timerVars>>

\* The guest programs its own virtual timer; no trap.
SetCntv ==
  /\ Guest
  /\ \E left \in (Left \ {0}) \cup {Far} : cntv' = [cntv EXCEPT ![live] = left]
  /\ UNCHANGED <<pc, st, cur, mine, fp, vpend, oneshot, quantum, idling, outer, irqs, timerVars>>

\* NOVA_HVC_FN_TIMER_SET: one one-shot per core, refused to a second vCPU.
MayClaim(s) == oneshot \in {None, s}
TimerSet ==
  /\ Traps /\ Demo
  /\ MayClaim(cur)
  /\ oneshot' = cur
  /\ \E left \in 1..Horizon : Set(Arm(queue, OneShot, left))
  /\ UNCHANGED <<pc, st, cur, mine, fp, cntv, vpend, quantum>>

\* The guest takes its virtual interrupt.
TakeVirq ==
  /\ Guest /\ vpend[cur]
  /\ vpend' = [vpend EXCEPT ![cur] = FALSE]
  /\ UNCHANGED <<pc, st, cur, mine, fp, cntv, oneshot, quantum, idling, outer, irqs, timerVars>>

\* retire_vcpu() on its own core: the wake-up mirror goes, the one-shot stays.
Retired(s) ==
  /\ st' = [st EXCEPT ![s] = "Off"]
  /\ cur' = IF s = cur THEN None ELSE cur
  /\ Set(LET q == Cancel(queue, Wake(s))
         IN  IF s = cur THEN Resliced(q, st', None, quantum) ELSE q)
  /\ UNCHANGED <<mine, fp, cntv, vpend, oneshot, quantum>>
\* CPU_OFF: retire, then schedule_after_retire() outside any dispatch.
CpuOff ==
  /\ Traps /\ Demo
  /\ Retired(cur)
  /\ pc' = "pick"

\* A physical interrupt takes the core to EL2 and into the drain.
Asserted == TimerFires \/ cntv[live] = 0 \/ call \/ stray = "pending"
Irq ==
  /\ Guest /\ Asserted
  /\ pc' = "drain"
  /\ UNCHANGED <<st, cur, mine, fp, cntv, vpend, oneshot, quantum, idling, outer, irqs, timerVars>>

-----------------------------------------------------------------------------
(* The scheduler loops.                                                    *)

Sleep ==
  /\ idling' = TRUE
  /\ pc' = "idle"
  /\ UNCHANGED <<st, cur, mine, fp, cntv, vpend, oneshot, quantum, timerVars, outer>>

\* enter_cpu(): the first entry on this core has no resident to park, and
\* seeds the FP trap whatever the register held.
EnterCpu ==
  /\ pc = "enter"
  /\ UNCHANGED irqs
  /\ IF Ready(st) = {} THEN Sleep
     ELSE /\ Load(PickNext(st, None), st, queue)
          /\ pc' = "guest"
          /\ UNCHANGED <<saved, idling, outer>>

\* Where schedule_out() returns to: the guest, or the drain it was called by.
Resume == pc' = (IF outer THEN "drain" ELSE "guest") /\ outer' = FALSE

\* schedule_out(): run the next ready vCPU or sleep.  A resident that woke
\* itself resumes without a frame swap.
ScheduleOut ==
  /\ pc = "pick"
  /\ UNCHANGED irqs
  /\ LET next == PickNext(st, cur) IN
     \/ next = None /\ Sleep
     \/ /\ next # None /\ next = cur
        /\ st' = [st EXCEPT ![next] = "Running"]
        /\ Set(Resliced(queue, st', cur, quantum))
        /\ Resume
        /\ UNCHANGED <<cur, mine, fp, cntv, vpend, oneshot, quantum, idling>>
     \/ /\ next # None /\ next # cur
        /\ SwitchTo(next, queue)
        /\ Resume
        /\ UNCHANGED idling

\* wfi at EL2 falls through on a pending interrupt, and the drain runs.
IdleWakes ==
  /\ pc = "idle" /\ Asserted
  /\ pc' = "drain"
  /\ UNCHANGED <<st, cur, mine, fp, cntv, vpend, oneshot, quantum, idling, outer, irqs, timerVars>>

\* The drain found nothing more.  An idle core looks again, unless a handler
\* installed a running vCPU meanwhile.
RunningNow == cur # None /\ st[cur] = "Running"
DrainEnds ==
  /\ pc = "drain" /\ ~Asserted
  /\ idling' = FALSE
  /\ CASE ~idling -> pc' = "guest" /\ UNCHANGED outer
       [] idling /\ live = None -> pc' = "enter" /\ UNCHANGED outer
       [] idling /\ live # None /\ RunningNow -> Resume
       [] OTHER -> pc' = "pick" /\ UNCHANGED outer
  /\ UNCHANGED <<st, cur, mine, fp, cntv, vpend, oneshot, quantum, irqs, timerVars>>

-----------------------------------------------------------------------------
(* Interrupt dispatch: acknowledge and handle, end of interrupt, epilogue. *)

Ack(to) ==
  /\ pc = "drain"
  /\ dispatch' = TRUE
  /\ pc' = to
  /\ UNCHANGED <<idling, outer, mail, calls>>

\* CNTHP: the expiry loop of the soft timers reads the counter once.
AckTimer ==
  /\ Ack("expire") /\ TimerFires
  /\ UNCHANGED <<st, cur, mine, fp, cntv, vpend, oneshot, quantum, epilogue, call, stray, timerVars>>

\* The native timer of the bank in the registers: mask it, then reflect it
\* to the resident, if there is one.
AckCntv ==
  /\ Ack("eoi") /\ cntv[live] = 0
  /\ cntv' = [cntv EXCEPT ![live] = Unarmed]
  /\ Posted(cur, queue)
  /\ UNCHANGED <<cur, mine, fp, oneshot, quantum, epilogue, call, stray>>

\* An interrupt nobody claims is quarantined at the distributor.
AckStray ==
  /\ Ack("eoi") /\ stray = "pending"
  /\ stray' = "quarantined"
  /\ UNCHANGED <<st, cur, mine, fp, cntv, vpend, oneshot, quantum, epilogue, call, timerVars>>

\* What the registers or a bank still hold of a life that ends is dead.
Renamed(s, x) == IF x = s THEN Dead ELSE x
\* Faulty: the FP owner survives the life it belonged to.
ReseededOwner(s) ==
  /\ saved' = [o \in Slots |-> IF o = s THEN s ELSE Renamed(s, saved[o])]
  /\ fpSaved' = [o \in Slots |-> IF o = s THEN s ELSE Renamed(s, fpSaved[o])]
  /\ live' = Renamed(s, live)
  /\ fpLive' = Renamed(s, fpLive)
  /\ owner' = owner
  /\ cntv' = [cntv EXCEPT ![s] = Unarmed, ![Dead] = IF live = s THEN cntv[s] ELSE @]
  /\ vpend' = [vpend EXCEPT ![s] = FALSE]
\* seed(): a new life of slot s: fresh banks, no FP owner, no wake-up.
Reseeded(s) ==
  /\ saved' = [o \in Slots |-> IF o = s THEN s ELSE Renamed(s, saved[o])]
  /\ fpSaved' = [o \in Slots |-> IF o = s THEN s ELSE Renamed(s, fpSaved[o])]
  /\ live' = Renamed(s, live)
  /\ fpLive' = Renamed(s, fpLive)
  /\ owner' = IF owner = s THEN None ELSE owner
  /\ cntv' = [cntv EXCEPT ![s] = Unarmed, ![Dead] = IF live = s THEN cntv[s] ELSE @]
  /\ vpend' = [vpend EXCEPT ![s] = FALSE]
\* Faulty: the new competitor does not arm a slice for the resident.
StartUnsliced(s) ==
  /\ st[s] = "Off"
  /\ st' = [st EXCEPT ![s] = "Ready"]
  /\ Reseeded(s)
  /\ Set(Cancel(queue, Wake(s)))
  /\ UNCHANGED <<cur, fpTrap, oneshot, quantum, epilogue>>
\* start_vcpu() and publish_start_vm(): seed, make ready, re-slice.
Start(s) ==
  /\ st[s] = "Off"
  /\ st' = [st EXCEPT ![s] = "Ready"]
  /\ Reseeded(s)
  /\ Set(Resliced(Cancel(queue, Wake(s)), st', cur, quantum))
  /\ UNCHANGED <<cur, fpTrap, oneshot, quantum, epilogue>>

\* A quiesce retires a vCPU of this core.  If it was the resident, a switch
\* is owed: at once to nobody, the idle loop looks again by itself, and in a
\* dispatch it waits for the end of interrupt.
Quiesce(s) ==
  /\ st[s] # "Off"
  /\ Retired(s)
  /\ epilogue' = (epilogue \/ (s = cur /\ ~idling))

\* set_slice_us(): the new quantum counts from the next time one is armed,
\* and this core arms one now.
SetSlice ==
  /\ quantum' \in Quanta
  /\ Set(Resliced(queue, st, cur, quantum'))
  /\ UNCHANGED <<st, cur, mine, fp, cntv, vpend, oneshot, epilogue>>

\* The cross-call interrupt: the mailbox holds what other cores and the host
\* asked of this core, and is emptied in one dispatch.
AckCall ==
  /\ Ack("calls") /\ call
  /\ call' = FALSE
  /\ UNCHANGED <<st, cur, mine, fp, cntv, vpend, oneshot, quantum, epilogue, stray, timerVars>>
CrossCall ==
  /\ pc = "calls" /\ mail > 0
  /\ mail' = mail - 1
  /\ UNCHANGED <<pc, idling, outer, dispatch, call, stray, calls>>
  /\ \/ \E s \in Slots : Start(s)
     \/ \E s \in Slots : Quiesce(s)
     \/ \E s \in Slots :
          Posted(s, queue) /\ UNCHANGED <<cur, mine, fp, cntv, oneshot, quantum, epilogue>>
     \/ SetSlice
CallsEnd ==
  /\ pc = "calls" /\ mail = 0
  /\ pc' = "eoi"
  /\ UNCHANGED <<st, cur, mine, fp, cntv, vpend, oneshot, quantum, idling, outer, irqs, timerVars>>

\* One expired slot: it leaves the queue, then its callback runs.
OnSlice(q) ==
  IF Yields THEN SwitchTo(PickNext(st, cur), q)
  ELSE Stays /\ Set(Resliced(q, st, cur, quantum))
OnCntvWake(q, s) ==
  /\ Woken(s, q)
  /\ UNCHANGED <<cur, mine, fp, cntv, vpend, oneshot, quantum>>
OnTimerSetExpiry(q) ==
  /\ oneshot' = None
  /\ Posted(oneshot, q)
  /\ UNCHANGED <<cur, mine, fp, cntv, quantum>>
Expire ==
  /\ pc = "expire"
  /\ \E t \in Expired(queue) :
       CASE t = Slice   -> OnSlice(Pop(queue, t))
         [] t = OneShot -> OnTimerSetExpiry(Pop(queue, t))
         [] OTHER       -> OnCntvWake(Pop(queue, t), t[2])
  /\ UNCHANGED <<pc, idling, outer, dispatch, epilogue, call, mail, stray, calls>>
\* After the last one CNTHP takes the earliest deadline left.
DrainExpired ==
  /\ pc = "expire" /\ Expired(queue) = {}
  /\ Set(queue)
  /\ pc' = "eoi"
  /\ UNCHANGED <<st, cur, mine, fp, cntv, vpend, oneshot, quantum, idling, outer, irqs>>

\* Faulty: the epilogue runs before the dispatch flag is cleared.
SwitchThenEoi ==
  /\ pc = "eoi"
  /\ dispatch' = epilogue /\ epilogue' = FALSE
  /\ IF epilogue /\ ~idling THEN pc' = "pick" /\ outer' = TRUE
     ELSE pc' = "drain" /\ UNCHANGED outer
  /\ UNCHANGED <<st, cur, mine, fp, cntv, vpend, oneshot, quantum, idling, call, mail, stray, calls, timerVars>>
\* End of interrupt; then the epilogue, the one legal switch point.
EndOfInterrupt ==
  /\ pc = "eoi"
  /\ dispatch' = FALSE /\ epilogue' = FALSE
  /\ IF epilogue /\ ~idling THEN pc' = "pick" /\ outer' = TRUE
     ELSE pc' = "drain" /\ UNCHANGED outer
  /\ UNCHANGED <<st, cur, mine, fp, cntv, vpend, oneshot, quantum, idling, call, mail, stray, calls, timerVars>>

-----------------------------------------------------------------------------
(* The world outside the core.                                             *)

\* Time is counted in units longer than any handler: it passes in a guest
\* and in wfi.
Tick ==
  /\ pc \in {"guest", "idle"}
  /\ TimePasses
  /\ cntv' = [x \in DOMAIN cntv |-> IF cntv[x] = Far THEN Far ELSE Nearer(cntv[x])]
  /\ UNCHANGED <<pc, st, cur, mine, fp, vpend, oneshot, quantum, idling, outer, irqs>>

RemoteCall ==
  /\ calls > 0
  /\ calls' = calls - 1 /\ mail' = mail + 1
  /\ call' = TRUE
  /\ UNCHANGED <<pc, st, cur, mine, fp, cntv, vpend, oneshot, quantum, idling, outer,
                 dispatch, epilogue, stray, timerVars>>

StrayAsserts ==
  /\ stray = "quiet" /\ calls > 0
  /\ stray' = "pending" /\ calls' = calls - 1
  /\ UNCHANGED <<pc, st, cur, mine, fp, cntv, vpend, oneshot, quantum, idling, outer,
                 dispatch, epilogue, call, mail, timerVars>>

Init ==
  /\ pc = "enter"
  /\ st = [s \in Slots |-> IF s \in Boot THEN "Ready" ELSE "Off"]
  /\ cur = None /\ live = None
  /\ saved = [s \in Slots |-> s] /\ fpSaved = [s \in Slots |-> s]
  /\ owner = None /\ fpTrap = TRUE /\ fpLive = Dead
  /\ cntv = [x \in Slots \cup {None, Dead} |-> Unarmed]
  /\ vpend = [s \in Slots |-> FALSE]
  /\ oneshot = None
  /\ quantum = Max(Quanta)
  /\ idling = FALSE /\ outer = FALSE
  /\ dispatch = FALSE /\ epilogue = FALSE
  /\ mail = 0 /\ call = FALSE /\ stray = "quiet" /\ calls = MaxCalls
  /\ TimersInit

Dispatch == AckTimer \/ AckCntv \/ AckStray \/ AckCall
El2 == EnterCpu \/ ScheduleOut \/ IdleWakes \/ DrainEnds \/ Dispatch
         \/ Expire \/ DrainExpired \/ CrossCall \/ CallsEnd \/ EndOfInterrupt
Traffic == Yield \/ Wfi \/ HandleFpSimd \/ SetCntv \/ TimerSet \/ TakeVirq \/ CpuOff
Next == Irq \/ El2 \/ Traffic \/ Tick \/ RemoteCall \/ StrayAsserts

Spec == Init /\ [][Next]_vars

\* The counter runs, an interrupt is taken, and EL2 code goes on.  Nothing is
\* asked of a guest: it may spin, or never use its timer.
Fairness == WF_vars(El2) /\ WF_vars(Irq) /\ SF_vars(Tick)
FairSpec == Spec /\ Fairness
=============================================================================
