------------------------------- MODULE SchedMC -------------------------------
(* Instances and properties of Sched. *)
EXTENDS Sched

\* Whenever the core is in a guest, exactly that vCPU is running, the frame
\* and EL1 registers are those of its present life, and the FP registers are
\* too unless the first FP instruction traps; and no vCPU is parked with the
\* registers of another one or of an earlier life.
RegistersBelong ==
  /\ pc = "guest" =>
       /\ cur # None /\ live = cur
       /\ {s \in Slots : st[s] = "Running"} = {cur}
       /\ ~fpTrap => fpLive = cur
  /\ \A s \in Slots : st[s] # "Off" => fpSaved[s] = s
  /\ \A s \in Slots : st[s] \in {"Ready", "Blocked"} /\ s # live => saved[s] = s

\* No deadline is lost: CNTHP never fires later than an armed slot, and the
\* timer of a blocked vCPU is mirrored by a slot that is due no later.
DeadlinesWatched ==
  /\ \A t \in Armed(queue) : cnthp # Unarmed /\ cnthp <= queue[t]
  /\ \A s \in Slots : st[s] = "Blocked" /\ cntv[s] # Unarmed =>
       queue[Wake(s)] # Unarmed /\ queue[Wake(s)] <= cntv[s]

\* Where a core may leave a vCPU.  Inside a dispatch it never enters
\* schedule_out() and never sleeps: a handler that takes the resident away there
\* leaves a switch owed, which is made after the end of interrupt and before a
\* guest runs, or leaves it to the idle loop.  The one change of resident that a
\* dispatch does make is a slice expiry's (on_slice, sched.cpp:210, though
\* core_gic.hpp:42 reads as if there were none): a whole swap, from a resident to
\* a vCPU that then runs with its own registers.
LeftOutsideDispatch == pc \in {"enter", "pick", "idle", "guest"} => ~dispatch
SwitchKept ==
  /\ pc = "guest" => ~epilogue /\ ~idling /\ ~outer
  /\ dispatch => RunningNow \/ epilogue \/ idling
SwappedInside ==
  dispatch /\ cur' # cur =>
    IF cur' = None THEN epilogue' \/ idling
    ELSE /\ cur # None /\ st'[cur] # "Running"
         /\ Slice \in Expired(queue) /\ st'[cur'] = "Running" /\ live' = cur'
SwitchPoints == [](LeftOutsideDispatch /\ SwitchKept) /\ [][SwappedInside]_vars

\* A vCPU that sleeps on its virtual timer wakes (or is retired).
SleeperWakes ==
  \A s \in Slots : st[s] = "Blocked" /\ cntv[s] # Unarmed ~> st[s] # "Blocked"

\* Round robin: a ready vCPU runs (or is retired), whatever the others do.
ReadyRuns == \A s \in Slots : st[s] = "Ready" ~> st[s] \in {"Running", "Off"}
=============================================================================
