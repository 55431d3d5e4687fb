-------------------------------- MODULE Watchdog --------------------------------
(***************************************************************************)
(* The heartbeat watchdog of one VM (service/watchdog.cpp).  Any vCPU of   *)
(* the VM may beat; the deadline lives on the boot vCPU's owner core, in   *)
(* its timer queue, and a beat from another core travels there by mail.    *)
(* How long a window lasts is left open: an armed deadline may pass at any *)
(* time.  SoftTimer is the queue itself, VmLifecycle what a reset does.    *)
(***************************************************************************)
EXTENDS Integers, Sequences

CONSTANTS
  BeatCores,       \* the cores of the VM's vCPUs; the owner is one of them
  Owner,
  MailLimit,       \* kOrdinaryMailboxLimit
  MaxBeats,        \* bound: heartbeats
  MaxGenerations   \* bound: instances of the VM

ASSUME WatchdogAssumption == Owner \in BeatCores /\ MailLimit \in Nat

VARIABLES
  vmGeneration, vmOn,     \* vcpu::vm_generation, power_state of the boot vCPU
  beat,                   \* handle_hvc on each core
  g_update_sequence, g_armed_generation, g_armed_sequence,
  slotArmed,              \* kSlotWatchdog + vm
  ownerMail,              \* the owner's mailbox, the calls of this component
  beats,                  \* every sequence given out: [gen, arms, answer]
  lastStrike              \* the last instance whose deadline ran out, and on whose beat

wdVars == <<vmGeneration, vmOn, beat, g_update_sequence, g_armed_generation, g_armed_sequence, slotArmed, ownerMail, beats, lastStrike>>

NoBeat == [pc |-> "guest", arms |-> FALSE, gen |-> 0, seq |-> 0]

WdInit ==
  /\ vmGeneration = 1 /\ vmOn = TRUE
  /\ beat = [c \in BeatCores |-> NoBeat]
  /\ g_update_sequence = 0 /\ g_armed_generation = 0 /\ g_armed_sequence = 0
  /\ slotArmed = FALSE
  /\ ownerMail = <<>>
  /\ beats = <<>>
  /\ lastStrike = [gen |-> 0, latest |-> 0]

\* The owner core is in no handler of its own.
OwnerFree == beat[Owner].pc = "guest"

------------------------------------------------------------------------------
(* handle_hvc, on the core of the vCPU that beats                           *)

\* A window that does not fit the counter is refused at once (NotSupported),
\* and so is a beat whose boot vCPU is off.
BeatPlan(c) ==
  /\ beat[c].pc = "guest" /\ Len(beats) < MaxBeats
  /\ vmOn
  /\ \E arms \in BOOLEAN : beat' = [beat EXCEPT ![c] = [pc |-> "plan", arms |-> arms, gen |-> vmGeneration, seq |-> 0]]
  /\ UNCHANGED <<vmGeneration, vmOn, g_update_sequence, g_armed_generation, g_armed_sequence, slotArmed, ownerMail, beats, lastStrike>>

\* The sequence moves before it is known that the request will be taken.
BeatNumber(c) ==
  /\ beat[c].pc = "plan" /\ Len(beats) < MaxBeats
  /\ g_update_sequence' = g_update_sequence + 1
  /\ beats' = Append(beats, [gen |-> beat[c].gen, arms |-> beat[c].arms, answer |-> "none"])
  /\ beat' = [beat EXCEPT ![c].pc = "send", ![c].seq = g_update_sequence + 1]
  /\ UNCHANGED <<vmGeneration, vmOn, g_armed_generation, g_armed_sequence, slotArmed, ownerMail, lastStrike>>

\* Faulty: an older beat of the same instance is taken as well.
AcceptsAnySequence(gen, seq) == gen # 0 /\ gen = vmGeneration /\ vmOn /\ seq # 0
\* accepts_update: the live instance, running, and its latest beat.
Accepts(gen, seq) == gen # 0 /\ gen = vmGeneration /\ vmOn /\ seq # 0 /\ seq = g_update_sequence

ApplyLocal(b) ==
  IF Accepts(b.gen, b.seq)
  THEN /\ g_armed_generation' = b.gen /\ g_armed_sequence' = b.seq
       /\ slotArmed' = b.arms
  ELSE UNCHANGED <<g_armed_generation, g_armed_sequence, slotArmed>>

Answered(seq, answer) == beats' = [beats EXCEPT ![seq].answer = answer]

\* invoke_vm_owner: on the owner's core a plain call.
BeatLocal ==
  /\ beat[Owner].pc = "send"
  /\ ApplyLocal(beat[Owner])
  /\ Answered(beat[Owner].seq, "ok")
  /\ beat' = [beat EXCEPT ![Owner] = NoBeat]
  /\ UNCHANGED <<vmGeneration, vmOn, g_update_sequence, ownerMail, lastStrike>>

\* From another core a message, or a refusal when the mailbox is full.
BeatRemote(c) ==
  /\ c # Owner /\ beat[c].pc = "send"
  /\ IF Len(ownerMail) < MailLimit
     THEN ownerMail' = Append(ownerMail, beat[c]) /\ Answered(beat[c].seq, "ok")
     ELSE Answered(beat[c].seq, "refused") /\ UNCHANGED ownerMail
  /\ beat' = [beat EXCEPT ![c] = NoBeat]
  /\ UNCHANGED <<vmGeneration, vmOn, g_update_sequence, g_armed_generation, g_armed_sequence, slotArmed, lastStrike>>

------------------------------------------------------------------------------
(* The owner core                                                           *)

ApplyMail ==
  /\ OwnerFree /\ ownerMail # <<>>
  /\ ApplyLocal(Head(ownerMail))
  /\ ownerMail' = Tail(ownerMail)
  /\ UNCHANGED <<vmGeneration, vmOn, beat, g_update_sequence, beats, lastStrike>>

\* on_expiry: the slot is spent whether or not it still counts, and a beat that
\* counts is disarmed before the reset is asked for.  Whether the reset was taken
\* nobody looks at: smp::reset_vm refuses while another request holds the VM's
\* token, and that request may yet be refused itself, so the VM may run on.
Expiry ==
  /\ OwnerFree /\ slotArmed
  /\ slotArmed' = FALSE
  /\ IF Accepts(g_armed_generation, g_armed_sequence)
     THEN /\ g_armed_generation' = 0 /\ g_armed_sequence' = 0
          /\ lastStrike' = [gen |-> vmGeneration, latest |-> g_update_sequence]
          /\ \E taken \in BOOLEAN : vmOn' = ~taken
     ELSE UNCHANGED <<g_armed_generation, g_armed_sequence, lastStrike, vmOn>>
  /\ UNCHANGED <<vmGeneration, beat, g_update_sequence, ownerMail, beats>>

\* The VM stops or is reset for another reason, and comes back: nothing of it
\* is in a handler by then, though its mail may still be.
Stops ==
  /\ OwnerFree /\ vmOn
  /\ vmOn' = FALSE
  /\ UNCHANGED <<vmGeneration, beat, g_update_sequence, g_armed_generation, g_armed_sequence, slotArmed, ownerMail, beats, lastStrike>>

Restarts ==
  /\ ~vmOn /\ vmGeneration < MaxGenerations
  /\ \A c \in BeatCores : beat[c].pc = "guest"
  /\ vmGeneration' = vmGeneration + 1
  /\ vmOn' = TRUE
  /\ UNCHANGED <<beat, g_update_sequence, g_armed_generation, g_armed_sequence, slotArmed, ownerMail, beats, lastStrike>>

WdNext ==
  \/ \E c \in BeatCores : BeatPlan(c) \/ BeatNumber(c) \/ BeatRemote(c)
  \/ BeatLocal \/ ApplyMail \/ Expiry \/ Stops \/ Restarts

WdSpec == WdInit /\ [][WdNext]_wdVars

------------------------------------------------------------------------------
\* The latest beat rules.  The watchdog strikes the instance whose latest beat
\* asked for a window, never one that has disarmed it and never an instance for
\* the silence of the one before (watchdog.cpp:49); and once the owner has seen
\* an answered beat that nothing has overtaken, the deadline is armed, or not
\* armed, as that beat asked, unless it has struck on that very beat and the
\* reset was refused (watchdog.cpp:32, :66).  A beat the mailbox refused leaves
\* no such promise: it has overtaken the one before without taking its place.
LatestBeatRules ==
  /\ lastStrike.gen # 0 => beats[lastStrike.latest].arms /\ beats[lastStrike.latest].gen = lastStrike.gen
  /\ beats # <<>> =>
       LET b == beats[Len(beats)] IN
       (b.answer = "ok" /\ b.gen = vmGeneration /\ vmOn /\ \A i \in DOMAIN ownerMail : ownerMail[i].seq # Len(beats))
         => slotArmed = b.arms \/ lastStrike = [gen |-> b.gen, latest |-> Len(beats)]
=============================================================================
