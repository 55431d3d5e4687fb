------------------------------ MODULE SoftTimer ------------------------------
(***************************************************************************)
(* The soft-timer queue of one core and the EL2 physical timer (CNTHP) it  *)
(* drives.  Deadlines are absolute in the code and what is left of them    *)
(* here, so that time may pass forever in a finite model: a deadline that  *)
(* has passed is 0 and stays 0.  Two overdue slots are therefore served in *)
(* either order, where the code serves the older first.                    *)
(*                                                                         *)
(* g_programmed, the mirror of CNTHP, always holds what CNTHP holds, and   *)
(* is not a variable: a matching deadline is not written again, and a met  *)
(* condition keeps asserting the interrupt, in the code and here.          *)
(***************************************************************************)
EXTENDS Integers, FiniteSets, FiniteSetsExt

CONSTANTS
  Timers,   \* slots of the queue (kSlotSlice, kSlotLegacyTimer, ...)
  Horizon   \* model bound: no deadline is further away than this

ASSUME TimerAssumption == Horizon \in Nat \ {0} /\ IsFiniteSet(Timers)

VARIABLES
  queue,    \* what is left of the deadline of each slot, or Unarmed
  cnthp     \* what is left of the deadline in CNTHP_CVAL, or Unarmed

timerVars == <<queue, cnthp>>

Unarmed == -1
Left    == Unarmed..Horizon

TimersInit == queue = [t \in Timers |-> Unarmed] /\ cnthp = Unarmed

Armed(q) == {t \in Timers : q[t] # Unarmed}

\* next_deadline(): the earliest armed deadline, and nothing when none is.
NextDeadline(q) == IF Armed(q) = {} THEN Unarmed ELSE Min({q[t] : t \in Armed(q)})

\* arm() and cancel() on the queue alone; the caller reprograms.
Arm(q, t, left) == [q EXCEPT ![t] = left]
Cancel(q, t)    == [q EXCEPT ![t] = Unarmed]

\* Every mutation ends in reprogram(): CNTHP takes the earliest deadline.
Reprogram(q) == cnthp' = NextDeadline(q)
Set(q)       == queue' = q /\ Reprogram(q)

\* pop_expired() takes a slot out of the queue and leaves CNTHP alone.
Expired(q)   == {t \in Timers : q[t] = 0}
Pop(q, t)    == [q EXCEPT ![t] = Unarmed]

\* One unit of time for a deadline.
Nearer(left) == IF left > 0 THEN left - 1 ELSE left
TimePasses ==
  /\ queue' = [t \in Timers |-> Nearer(queue[t])]
  /\ cnthp' = Nearer(cnthp)

\* CNTHP asserts its interrupt as long as its condition is met.
TimerFires == cnthp = 0
=============================================================================
