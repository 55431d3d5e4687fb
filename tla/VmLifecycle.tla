----------------------------- MODULE VmLifecycle -----------------------------
(***************************************************************************)
(* The VM lifecycle coordinator of the smp component together with the     *)
(* power half of core_vcpu: cold start, CPU_ON, CPU_OFF, warm reset, stop, *)
(* the quiesce protocol between cores, its timeout, and the decision of an *)
(* idle core to halt the machine.                                          *)
(*                                                                         *)
(* EL2 runs with interrupts masked, so a core is a sequential process that *)
(* other cores can only see through shared atomics and mailboxes.  Each    *)
(* core has an agenda: the rest of the function it is executing, as a      *)
(* sequence of instructions, one for every access to state that another    *)
(* core can read or write.  Owner-local work between two such accesses is  *)
(* part of the step that follows it.  A core takes a new hypercall,        *)
(* interrupt or timer only when its agenda is empty.                       *)
(***************************************************************************)
EXTENDS Integers, Sequences, FiniteSets

CONSTANTS
  Cores,        \* physical cores
  Primary,      \* core 0: where host commands are drained
  Online,       \* cores that finished bring-up (g_online)
  Vms,          \* guest_table() rows
  BootVm,       \* VM 0: made ready by vcpu::init()
  Slots,        \* valid slots, as pairs <<vm, vcpu>>
  SlotCpu,      \* slot_cpu: the owning core of each slot
  BoxSize,      \* kMailboxCapacity
  Reserve,      \* kLifecycleReserve: entries ordinary requests may not use
  MaxRetries,   \* kMaxQuiesceRetries
  MaxRestarts,  \* kMaxRestarts
  Assigned,     \* VMs a DMA device is assigned to
  HostCommands, \* does a host ever write the command ring?
  Noisy,        \* model bound: the slots other cores send ordinary requests to
  MaxDrift,     \* model bound: no start is requested with g_lifecycle_transitions
                \* further than this from zero
  MaxEpoch,     \* model bound, per VM: no lifecycle is requested past this epoch
  MaxGen        \* model bound, per VM: no start is requested past this generation

ASSUME ConfigAssumption ==
  /\ Primary \in Online /\ Online \subseteq Cores
  /\ BootVm \in Vms
  /\ Slots \subseteq Vms \X Nat
  /\ \A vm \in Vms : <<vm, 0>> \in Slots
  /\ \A s \in Slots : \A n \in 0..s[2] : <<s[1], n>> \in Slots
  /\ SlotCpu \in [Slots -> Cores]
  /\ BoxSize \in Nat /\ Reserve \in 0..BoxSize
  /\ MaxRetries \in Nat /\ MaxRestarts \in Nat /\ Assigned \subseteq Vms
  /\ HostCommands \in BOOLEAN
  /\ Noisy \subseteq Slots /\ MaxDrift \in Nat
  /\ MaxEpoch \in [Vms -> Nat] /\ MaxGen \in [Vms -> Nat]

VARIABLES
  power,        \* g_published_state: the power view other cores get
  live,         \* g_vcpus[slot].state # kOff, private to the owner core
  current,      \* CpuSched::current
  ran,          \* cores that left enter_cpu(): they idle in schedule_out()
  alive,        \* g_alive
  transitions,  \* g_lifecycle_transitions
  halted,       \* cores inside halt()
  spoken,       \* command::g_ring.spoken_to()
  token,        \* g_lifecycle_token
  life,         \* per VM, private to its boot owner: tracker, mode, flags, timers
  inst,         \* per VM: generation, spent restarts, state of its DMA device
  mail,         \* g_mail: per-core mailboxes
  agenda        \* per core: what is left of the function it executes

counters == <<alive, transitions>>
sched    == <<current, ran, halted, spoken>>
vars == <<power, live, counters, sched, token, life, inst, mail, agenda>>

-----------------------------------------------------------------------------
(* Values.                                                                 *)

None     == <<>>                  \* kNoVcpu
Inactive == 0                     \* kLifecycleInactive
Reserved == -1                    \* kLifecycleReserved, never an epoch

Token == Nat \cup {Reserved}
Boot(vm)   == <<vm, 0>>
Owner(vm)  == SlotCpu[Boot(vm)]
SlotsOf(vm) == {s \in Slots : s[1] = vm}
NextSlot(s) == <<s[1], s[2] + 1>>
Halves == {"Off", "OnPending", "On"}

\* One instruction: what to do, the slot it names (the boot slot when it
\* names a VM), the request it serves, and a quiesce epoch or generation.
Steps == {
  "start_vm", "start_vm_on", "can_start", "cpu_on", "begin_reserve", "reserve_start",
  "recheck", "send_start", "cancel_start", "end_transition", "queued_start", "prepare_start",
  "prepare_rest", "resume_start", "publish_start", "publish_alone", "start_vcpu",
  "join_vm", "publish_on", "alive_up", "alive_down", "retire_vcpu", "cpu_off_on",
  "reset_vm", "stop_vm", "claim", "claimed", "send_begin", "release",
  "begin_lifecycle", "send_quiesce", "quiesce_local", "quiesce_vcpu", "send_ack",
  "acknowledge", "finish_lifecycle", "restore_on", "restore", "resume_reset",
  "republish_on", "republish", "finish", "dma_begin", "retry", "rearm", "isolate",
  "isolated", "post_virq", "recover_dma_fault", "halt_transitions"}
Ops == {"None", "StartVm", "CpuOn", "QueuedStart", "QueuedCpuOn", "Reset", "Fault", "Stop"}
Instr == [do : Steps, s : Slots, op : Ops, e : Token]
Do(what, s, op, e) == [do |-> what, s |-> s, op |-> op, e |-> e]

\* What the caller does once the operation it asked for is refused: the
\* mailbox drain cancels the reservation again, a guest fault falls back
\* to stop_vm, everyone else reports the refusal.
Refused(i) ==
  CASE i.op \in {"QueuedStart", "QueuedCpuOn"} -> <<Do("cancel_start", i.s, "None", 0)>>
    [] i.op = "Fault" -> <<Do("stop_vm", Boot(i.s[1]), "None", 0)>>
    [] OTHER -> <<>>

-----------------------------------------------------------------------------
(* Agenda and mailbox primitives.                                          *)

At(c, what) == agenda[c] # <<>> /\ Head(agenda[c]).do = what
Now(c)      == Head(agenda[c])
Then(c, is) == agenda' = [agenda EXCEPT ![c] = is \o Tail(@)]
Goto(c, what) == Then(c, <<[Now(c) EXCEPT !.do = what]>>)
Resting(c)  == c \in Online \ halted /\ agenda[c] = <<>>
Enter(c, is) == agenda' = [agenda EXCEPT ![c] = is]

\* enqueue(): lifecycle traffic may fill the box, the rest leaves Reserve.
Accepts(d, lifecycle) ==
  /\ d \in Online
  /\ Len(mail[d]) < IF lifecycle THEN BoxSize ELSE BoxSize - Reserve
Post(d, m) == mail' = [mail EXCEPT ![d] = Append(@, m)]

\* One read of vm_has_live(): the scan stops at the first slot that is not
\* Off and otherwise moves on to the next vCPU of the VM.
Scan(c, whenLive, whenOff) ==
  LET i == Now(c) IN
  IF power[i.s] # "Off" THEN Then(c, whenLive)
  ELSE IF NextSlot(i.s) \in Slots THEN Then(c, <<[i EXCEPT !.s = NextSlot(i.s)]>>)
  ELSE Then(c, whenOff)

OthersLive(s) == \E o \in SlotsOf(s[1]) \ {s} : power[o] # "Off"

-----------------------------------------------------------------------------
(* Reserving a slot: the common half of start_vm and cpu_on.               *)

StartVm(c) ==
  /\ At(c, "start_vm")
  /\ IF token[Now(c).s[1]] # Inactive THEN Then(c, <<>>) ELSE Goto(c, "start_vm_on")
  /\ UNCHANGED <<power, live, counters, sched, token, life, inst, mail>>

StartVmOn(c) ==
  /\ At(c, "start_vm_on")
  /\ Scan(c, <<>>, <<Do("can_start", Boot(Now(c).s[1]), "StartVm", 0)>>)
  /\ UNCHANGED <<power, live, counters, sched, token, life, inst, mail>>

\* dma_can_start
CanStart(c) ==
  /\ At(c, "can_start")
  /\ IF inst[Now(c).s[1]].dma = "failed" THEN Then(c, <<>>) ELSE Goto(c, "begin_reserve")
  /\ UNCHANGED <<power, live, counters, sched, token, life, inst, mail>>

CpuOn(c) ==
  /\ At(c, "cpu_on")
  /\ IF token[Now(c).s[1]] # Inactive THEN Then(c, <<>>) ELSE Goto(c, "begin_reserve")
  /\ UNCHANGED <<power, live, counters, sched, token, life, inst, mail>>

BeginReserve(c) ==
  /\ At(c, "begin_reserve")
  /\ transitions' = transitions + 1
  /\ Goto(c, "reserve_start")
  /\ UNCHANGED <<power, live, alive, sched, token, life, inst, mail>>

ReserveStart(c) ==
  /\ At(c, "reserve_start")
  /\ IF power[Now(c).s] = "Off"
     THEN power' = [power EXCEPT ![Now(c).s] = "OnPending"] /\ Goto(c, "recheck")
     ELSE UNCHANGED power /\ Goto(c, "end_transition")
  /\ UNCHANGED <<live, counters, sched, token, life, inst, mail>>

\* The second lifecycle_blocks_start() read, then the local or the queued
\* half of the start.
Recheck(c) ==
  /\ At(c, "recheck")
  /\ LET i == Now(c) IN
     IF token[i.s[1]] # Inactive THEN Goto(c, "cancel_start")
     ELSE IF SlotCpu[i.s] # c THEN Goto(c, "send_start")
     ELSE Goto(c, IF i.op = "StartVm" THEN "prepare_start" ELSE "start_vcpu")
  /\ UNCHANGED <<power, live, counters, sched, token, life, inst, mail>>

SendStart(c) ==
  /\ At(c, "send_start")
  /\ LET i == Now(c)
         queued == IF i.op = "StartVm" THEN "QueuedStart" ELSE "QueuedCpuOn"
     IN IF Accepts(SlotCpu[i.s], FALSE)
        THEN Post(SlotCpu[i.s], Do("queued_start", i.s, queued, 0)) /\ Then(c, <<>>)
        ELSE UNCHANGED mail /\ Goto(c, "cancel_start")
  /\ UNCHANGED <<power, live, counters, sched, token, life, inst>>

CancelStart(c) ==
  /\ At(c, "cancel_start")
  /\ IF power[Now(c).s] = "OnPending"
     THEN power' = [power EXCEPT ![Now(c).s] = "Off"] /\ Goto(c, "end_transition")
     ELSE UNCHANGED power /\ Then(c, <<>>)
  /\ UNCHANGED <<live, counters, sched, token, life, inst, mail>>

EndTransition(c) ==
  /\ At(c, "end_transition")
  /\ transitions' = transitions - 1
  /\ Then(c, <<>>)
  /\ UNCHANGED <<power, live, alive, sched, token, life, inst, mail>>

-----------------------------------------------------------------------------
(* The owner's half: start_vm_local and start_vcpu.                        *)

\* The drain's check before a queued start; a refusal cancels once.
QueuedStart(c) ==
  /\ At(c, "queued_start")
  /\ LET i == Now(c) IN
     IF token[i.s[1]] # Inactive THEN Goto(c, "cancel_start")
     ELSE Goto(c, IF i.op = "QueuedStart" THEN "prepare_start" ELSE "start_vcpu")
  /\ UNCHANGED <<power, live, counters, sched, token, life, inst, mail>>

\* A failed local start cancels its own reservation, and its caller may too.
FailStart(c, is) ==
  Then(c, <<Do("cancel_start", Now(c).s, "None", 0)>> \o is \o Refused(Now(c)))
Startable(c) == ~live[Now(c).s] /\ power[Now(c).s] = "OnPending"
BeginDma(c)  == <<Do("dma_begin", Boot(Now(c).s[1]), "None", 0)>>

\* The guard prepare_start_vm, publish_start_vm and start_vcpu open with:
\* the slot is still off here and still reserved for everyone else.
CheckReserved(c) ==
  /\ \/ At(c, "prepare_start") /\ IF Startable(c) THEN Goto(c, "prepare_rest") ELSE FailStart(c, <<>>)
     \/ At(c, "start_vcpu") /\ IF Startable(c) THEN Goto(c, "join_vm") ELSE FailStart(c, <<>>)
     \/ At(c, "publish_start")
        /\ IF Startable(c) THEN Goto(c, "publish_alone") ELSE FailStart(c, BeginDma(c))
  /\ UNCHANGED <<power, live, counters, sched, token, life, inst, mail>>

\* prepare_start_vm: a VM entirely off gets a generation and its budget.
PrepareRest(c) ==
  /\ At(c, "prepare_rest")
  /\ LET vm == Now(c).s[1] IN
     IF OthersLive(Now(c).s) THEN FailStart(c, <<>>) /\ UNCHANGED inst
     ELSE /\ inst' = [inst EXCEPT ![vm].gen = @ + 1, ![vm].restarts = 0]
          /\ Goto(c, "resume_start")
  /\ UNCHANGED <<power, live, counters, sched, token, life, mail>>

\* dma_resume_vm: only a quiesced device adopts a generation, and a failed
\* attach isolates it.  A VM without a device has nothing to attach.
DmaResume(vm, attached) ==
  /\ attached => inst[vm].dma = "quiesced"
  /\ vm \notin Assigned => attached
  /\ inst' = IF inst[vm].dma # "quiesced" \/ vm \notin Assigned THEN inst
             ELSE IF attached
             THEN [inst EXCEPT ![vm].stream = TRUE, ![vm].dma = "active", ![vm].dmaGen = inst[vm].gen]
             ELSE [inst EXCEPT ![vm].stream = FALSE, ![vm].dma = "failed"]

ResumeStart(c) ==
  /\ At(c, "resume_start")
  /\ \E attached \in BOOLEAN :
       /\ DmaResume(Now(c).s[1], attached)
       /\ IF attached THEN Goto(c, "publish_start") ELSE FailStart(c, <<>>)
  /\ UNCHANGED <<power, live, counters, sched, token, life, mail>>

PublishAlone(c) ==
  /\ At(c, "publish_alone")
  /\ IF OthersLive(Now(c).s) THEN FailStart(c, BeginDma(c)) ELSE Goto(c, "publish_on")
  /\ UNCHANGED <<power, live, counters, sched, token, life, inst, mail>>

\* start_vcpu: joins a VM that is alive; vCPU 0 starts a new generation.
JoinVm(c) ==
  /\ At(c, "join_vm")
  /\ LET i == Now(c) IN
     IF ~OthersLive(i.s) THEN FailStart(c, <<>>) /\ UNCHANGED inst
     ELSE /\ Goto(c, "publish_on")
          /\ inst' = IF i.s[2] = 0 THEN [inst EXCEPT ![i.s[1]].gen = @ + 1] ELSE inst
  /\ UNCHANGED <<power, live, counters, sched, token, life, mail>>

\* publish_power is a plain store: it does not compare.
PublishOn(c) ==
  /\ At(c, "publish_on")
  /\ live'  = [live EXCEPT ![Now(c).s] = TRUE]
  /\ power' = [power EXCEPT ![Now(c).s] = "On"]
  /\ Then(c, <<[Now(c) EXCEPT !.do = "alive_up"], [Now(c) EXCEPT !.do = "end_transition"]>>)
  /\ UNCHANGED <<counters, sched, token, life, inst, mail>>

AliveUp(c) ==
  /\ At(c, "alive_up")
  /\ alive' = alive + 1
  /\ Then(c, <<>>)
  /\ UNCHANGED <<power, live, transitions, sched, token, life, inst, mail>>

AliveDown(c) ==
  /\ At(c, "alive_down")
  /\ alive' = alive - 1
  /\ Then(c, <<>>)
  /\ UNCHANGED <<power, live, transitions, sched, token, life, inst, mail>>

-----------------------------------------------------------------------------
(* Retiring a vCPU on its owner core.                                      *)

\* Fault: the retirement is not published.
RetireUnpublished(c) ==
  /\ At(c, "retire_vcpu")
  /\ LET s == Now(c).s IN
     IF SlotCpu[s] # c \/ ~live[s] THEN Then(c, <<>>) /\ UNCHANGED <<live, current>>
     ELSE /\ live'  = [live EXCEPT ![s] = FALSE]
          /\ current' = [current EXCEPT ![c] = IF @ = s THEN None ELSE @]
          /\ Goto(c, "alive_down")
  /\ UNCHANGED <<power, counters, ran, halted, spoken, token, life, inst, mail>>

\* Fault: the retired vCPU keeps the core.
RetireInPlace(c) ==
  /\ At(c, "retire_vcpu")
  /\ LET s == Now(c).s IN
     IF SlotCpu[s] # c THEN Then(c, <<>>) /\ UNCHANGED <<power, live>>
     ELSE IF ~live[s] THEN Goto(c, "cancel_start") /\ UNCHANGED <<power, live>>
     ELSE /\ live'  = [live EXCEPT ![s] = FALSE]
          /\ power' = [power EXCEPT ![s] = "Off"]
          /\ IF power[s] = "On" THEN Goto(c, "alive_down") ELSE Then(c, <<>>)
  /\ UNCHANGED <<counters, sched, token, life, inst, mail>>

RetireVcpu(c) ==
  /\ At(c, "retire_vcpu")
  /\ LET s == Now(c).s IN
     IF SlotCpu[s] # c THEN Then(c, <<>>) /\ UNCHANGED <<power, live, current>>
     ELSE IF ~live[s] THEN Goto(c, "cancel_start") /\ UNCHANGED <<power, live, current>>
     ELSE /\ live'  = [live EXCEPT ![s] = FALSE]
          /\ power' = [power EXCEPT ![s] = "Off"]
          /\ current' = [current EXCEPT ![c] = IF @ = s THEN None ELSE @]
          /\ IF power[s] = "On" THEN Goto(c, "alive_down") ELSE Then(c, <<>>)
  /\ UNCHANGED <<counters, ran, halted, spoken, token, life, inst, mail>>

\* cpu_off: after the caller retired, a VM found entirely off is stopped.
CpuOffOn(c) ==
  /\ At(c, "cpu_off_on")
  /\ Scan(c, <<>>, <<Do("claim", Boot(Now(c).s[1]), "Stop", 0)>>)
  /\ UNCHANGED <<power, live, counters, sched, token, life, inst, mail>>

-----------------------------------------------------------------------------
(* Claiming a VM's lifecycle: reset_vm, stop_vm and request_stop.          *)

ResetVm(c) ==
  /\ At(c, "reset_vm")
  /\ Scan(c, <<Do("claim", Boot(Now(c).s[1]), Now(c).op, 0)>>, Refused(Now(c)))
  /\ UNCHANGED <<power, live, counters, sched, token, life, inst, mail>>

StopVm(c) ==
  /\ At(c, "stop_vm")
  /\ Scan(c, <<Do("claim", Boot(Now(c).s[1]), "Stop", 0)>>, <<>>)
  /\ UNCHANGED <<power, live, counters, sched, token, life, inst, mail>>

\* Fault: the token is stored without comparing it.
ClaimBlindly(c) ==
  /\ At(c, "claim")
  /\ token' = [token EXCEPT ![Now(c).s[1]] = Reserved] /\ Goto(c, "claimed")
  /\ UNCHANGED <<power, live, counters, sched, life, inst, mail>>

\* Fault: only a claim in progress refuses another, a latched epoch does not.
ClaimLatched(c) ==
  /\ At(c, "claim")
  /\ IF token[Now(c).s[1]] # Reserved
     THEN token' = [token EXCEPT ![Now(c).s[1]] = Reserved] /\ Goto(c, "claimed")
     ELSE UNCHANGED token /\ Then(c, Refused(Now(c)))
  /\ UNCHANGED <<power, live, counters, sched, life, inst, mail>>

Claim(c) ==
  /\ At(c, "claim")
  /\ IF token[Now(c).s[1]] = Inactive
     THEN token' = [token EXCEPT ![Now(c).s[1]] = Reserved] /\ Goto(c, "claimed")
     ELSE UNCHANGED token /\ Then(c, Refused(Now(c)))
  /\ UNCHANGED <<power, live, counters, sched, life, inst, mail>>

Claimed(c) ==
  /\ At(c, "claimed")
  /\ transitions' = transitions + 1
  /\ Goto(c, IF Owner(Now(c).s[1]) = c THEN "begin_lifecycle" ELSE "send_begin")
  /\ UNCHANGED <<power, live, alive, sched, token, life, inst, mail>>

\* The coordinator lives on another core: hand it the begin request and
\* retire the calling vCPU if it belongs to the VM.
SendBegin(c) ==
  /\ At(c, "send_begin")
  /\ LET i == Now(c) IN
     IF Accepts(Owner(i.s[1]), TRUE)
     THEN /\ Post(Owner(i.s[1]), Do("begin_lifecycle", i.s, IF i.op = "Stop" THEN "Stop" ELSE "Reset", 0))
          /\ Then(c, IF current[c] # None /\ current[c][1] = i.s[1]
                     THEN <<Do("retire_vcpu", current[c], "None", 0)>> ELSE <<>>)
     ELSE UNCHANGED mail /\ Then(c, <<[i EXCEPT !.do = "release"]>> \o Refused(i))
  /\ UNCHANGED <<power, live, counters, sched, token, life, inst>>

\* release_lifecycle
Release(c) ==
  /\ At(c, "release")
  /\ token' = [token EXCEPT ![Now(c).s[1]] = Inactive]
  /\ Goto(c, "end_transition")
  /\ UNCHANGED <<power, live, counters, sched, life, inst, mail>>

-----------------------------------------------------------------------------
(* The quiesce protocol, on the boot owner.                                *)

\* The DMA backend's answers: a quiesced device completes at once, a
\* failed one keeps failing, an active one may drain now, later or never.
DmaAnswers(vm) ==
  CASE inst[vm].dma = "quiesced" -> {"quiesced"}
    [] inst[vm].dma = "failed"   -> {"failed"}
    [] OTHER                     -> {"quiesced", "quiescing", "failed"}

\* Its stream stays attached until it has drained or is isolated.
DmaAnswer(vm, d) ==
  inst' = [inst EXCEPT ![vm].dma = d, ![vm].stream = @ /\ d = "quiescing"]

\* begin_lifecycle_local
BeginLifecycle(c) ==
  /\ At(c, "begin_lifecycle")
  /\ LET i  == Now(c)
         vm == i.s[1]
         epoch == life[vm].epoch + 1
         mask  == {s \in SlotsOf(vm) : power[s] # "Off"}
         begun == [life[vm] EXCEPT !.epoch = epoch, !.pending = mask, !.retries = 0,
                                   !.active = TRUE, !.dmaPending = FALSE, !.dmaFailed = FALSE,
                                   !.mode = IF i.op = "Stop" THEN "Stop" ELSE "Reset"]
         offline == \E s \in mask : SlotCpu[s] \notin Online \cup {c}
     IN IF token[vm] # Reserved
        THEN Then(c, Refused(i)) /\ UNCHANGED <<token, life, inst>>
        ELSE IF offline
        THEN /\ life' = [life EXCEPT ![vm] = begun]
             /\ token' = [token EXCEPT ![vm] = epoch]
             /\ Then(c, <<Do("finish", i.s, "None", 0)>> \o Refused(i))
             /\ UNCHANGED inst
        ELSE /\ token' = [token EXCEPT ![vm] = epoch]
             /\ \E d \in DmaAnswers(vm) :
                  /\ DmaAnswer(vm, d)
                  /\ life' = [life EXCEPT ![vm] =
                        [begun EXCEPT !.dmaPending = (d = "quiescing"), !.dmaFailed = (d = "failed"),
                                      !.timer = TRUE, !.drain = @ \/ d = "quiescing"]]
             /\ Then(c, <<Do("send_quiesce", i.s, "None", epoch),
                          Do("quiesce_local", i.s, "None", epoch),
                          Do("finish_lifecycle", i.s, "None", 0)>>)
  /\ UNCHANGED <<power, live, counters, sched, mail>>

\* Fault: the loop runs one vCPU too far.
SendQuiesceTooFar(c) ==
  /\ At(c, "send_quiesce")
  /\ LET i == Now(c)
         send == i.s \in life[i.s[1]].pending /\ SlotCpu[i.s] # c
     IN /\ IF send /\ Accepts(SlotCpu[i.s], TRUE)
           THEN Post(SlotCpu[i.s], [i EXCEPT !.do = "quiesce_vcpu"])
           ELSE UNCHANGED mail
        /\ IF i.s \in Slots THEN Then(c, <<[i EXCEPT !.s = NextSlot(i.s)]>>) ELSE Then(c, <<>>)
  /\ UNCHANGED <<power, live, counters, sched, token, life, inst>>

\* The loop over foreign slots: a full box leaves the bit to the timeout.
SendQuiesce(c) ==
  /\ At(c, "send_quiesce")
  /\ LET i == Now(c)
         send == i.s \in life[i.s[1]].pending /\ SlotCpu[i.s] # c
     IN /\ IF send /\ Accepts(SlotCpu[i.s], TRUE)
           THEN Post(SlotCpu[i.s], [i EXCEPT !.do = "quiesce_vcpu"])
           ELSE UNCHANGED mail
        /\ IF NextSlot(i.s) \in Slots
           THEN Then(c, <<[i EXCEPT !.s = NextSlot(i.s)]>>) ELSE Then(c, <<>>)
  /\ UNCHANGED <<power, live, counters, sched, token, life, inst>>

\* The loop over the owner's own slots.
QuiesceLocal(c) ==
  /\ At(c, "quiesce_local")
  /\ LET i == Now(c)
         more == IF NextSlot(i.s) \in Slots THEN <<[i EXCEPT !.s = NextSlot(i.s)]>> ELSE <<>>
     IN IF i.s \in life[i.s[1]].pending /\ SlotCpu[i.s] = c
        THEN Then(c, <<[i EXCEPT !.do = "retire_vcpu"], [i EXCEPT !.do = "acknowledge"]>> \o more)
        ELSE Then(c, more)
  /\ UNCHANGED <<power, live, counters, sched, token, life, inst, mail>>

\* Fault: the answer leaves before the vCPU is retired.
QuiesceAfterAck(c) ==
  /\ At(c, "quiesce_vcpu")
  /\ LET i == Now(c) IN
     IF token[i.s[1]] # i.e THEN Then(c, <<>>)
     ELSE Then(c, <<[i EXCEPT !.do = "send_ack"], [i EXCEPT !.do = "retire_vcpu"]>>)
  /\ UNCHANGED <<power, live, counters, sched, token, life, inst, mail>>

\* On a foreign owner: the epoch check, the retirement, the answer.
QuiesceVcpu(c) ==
  /\ At(c, "quiesce_vcpu")
  /\ LET i == Now(c) IN
     IF token[i.s[1]] # i.e THEN Then(c, <<>>)
     ELSE Then(c, <<[i EXCEPT !.do = "retire_vcpu"], [i EXCEPT !.do = "send_ack"]>>)
  /\ UNCHANGED <<power, live, counters, sched, token, life, inst, mail>>

SendAck(c) ==
  /\ At(c, "send_ack")
  /\ LET i == Now(c) IN
     IF Accepts(Owner(i.s[1]), TRUE)
     THEN Post(Owner(i.s[1]), [i EXCEPT !.do = "acknowledge"]) ELSE UNCHANGED mail
  /\ Then(c, <<>>)
  /\ UNCHANGED <<power, live, counters, sched, token, life, inst>>

\* Fault: the last acknowledgement does not report kReady.
AcknowledgePending(c) ==
  /\ At(c, "acknowledge")
  /\ LET i  == Now(c)
         vm == i.s[1]
     IN IF token[vm] # i.e \/ ~life[vm].active \/ i.e # life[vm].epoch
        THEN UNCHANGED life ELSE life' = [life EXCEPT ![vm].pending = @ \ {i.s}]
  /\ Then(c, <<>>)
  /\ UNCHANGED <<power, live, counters, sched, token, inst, mail>>

\* acknowledge_quiesce and QuiesceTracker::acknowledge
Acknowledge(c) ==
  /\ At(c, "acknowledge")
  /\ LET i  == Now(c)
         vm == i.s[1]
     IN IF token[vm] # i.e \/ ~life[vm].active \/ i.e # life[vm].epoch \/ i.s \notin life[vm].pending
        THEN Then(c, <<>>) /\ UNCHANGED life
        ELSE /\ life' = [life EXCEPT ![vm].pending = @ \ {i.s}]
             /\ Then(c, IF life[vm].pending = {i.s}
                        THEN <<Do("finish_lifecycle", Boot(vm), "None", 0)>> ELSE <<>>)
  /\ UNCHANGED <<power, live, counters, sched, token, inst, mail>>

Ready(vm) == life[vm].active /\ life[vm].pending = {}
Finished(l) == [l EXCEPT !.active = FALSE, !.pending = {}, !.mode = "None"]

\* Fault: the lifecycle finishes while the device still drains.
FinishDraining(c) ==
  /\ At(c, "finish_lifecycle")
  /\ LET vm == Now(c).s[1]
         disarmed == [life[vm] EXCEPT !.timer = FALSE, !.drain = FALSE]
     IN IF ~Ready(vm)
        THEN Then(c, <<>>) /\ UNCHANGED life
        ELSE IF life[vm].dmaFailed
        THEN life' = [life EXCEPT ![vm] = Finished(disarmed)] /\ Goto(c, "end_transition")
        ELSE /\ life' = [life EXCEPT ![vm] = disarmed]
             /\ Goto(c, IF life[vm].mode = "Stop" THEN "finish" ELSE "restore_on")
  /\ UNCHANGED <<power, live, counters, sched, token, inst, mail>>

\* Fault: the timers are cancelled before it is known that all is quiet.
FinishDisarmed(c) ==
  /\ At(c, "finish_lifecycle")
  /\ LET vm == Now(c).s[1]
         disarmed == [life[vm] EXCEPT !.timer = FALSE, !.drain = FALSE]
     IN IF ~Ready(vm) \/ life[vm].dmaPending
        THEN Then(c, <<>>) /\ life' = [life EXCEPT ![vm] = disarmed]
        ELSE IF life[vm].dmaFailed
        THEN life' = [life EXCEPT ![vm] = Finished(disarmed)] /\ Goto(c, "end_transition")
        ELSE /\ life' = [life EXCEPT ![vm] = disarmed]
             /\ Goto(c, IF life[vm].mode = "Stop" THEN "finish" ELSE "restore_on")
  /\ UNCHANGED <<power, live, counters, sched, token, inst, mail>>

\* finish_lifecycle: wait, stay latched after a DMA failure, stop, or
\* go on to restore.
FinishLifecycle(c) ==
  /\ At(c, "finish_lifecycle")
  /\ LET vm == Now(c).s[1]
         disarmed == [life[vm] EXCEPT !.timer = FALSE, !.drain = FALSE]
     IN IF ~Ready(vm) \/ life[vm].dmaPending
        THEN Then(c, <<>>) /\ UNCHANGED life
        ELSE IF life[vm].dmaFailed
        THEN life' = [life EXCEPT ![vm] = Finished(disarmed)] /\ Goto(c, "end_transition")
        ELSE /\ life' = [life EXCEPT ![vm] = disarmed]
             /\ Goto(c, IF life[vm].mode = "Stop" THEN "finish" ELSE "restore_on")
  /\ UNCHANGED <<power, live, counters, sched, token, inst, mail>>

\* prepare_reset_quiesced_vm: the live check, then the image reload.
RestoreOn(c) ==
  /\ At(c, "restore_on")
  /\ Scan(c, <<Do("finish", Boot(Now(c).s[1]), "None", 0)>>,
             <<Do("restore", Boot(Now(c).s[1]), "None", 0)>>)
  /\ UNCHANGED <<power, live, counters, sched, token, life, inst, mail>>

\* Fault: one warm reset more than the budget.
RestoreOnceMore(c) ==
  /\ At(c, "restore")
  /\ LET vm == Now(c).s[1] IN
     IF inst[vm].restarts > MaxRestarts
     THEN Goto(c, "finish") /\ UNCHANGED inst
     ELSE /\ inst' = [inst EXCEPT ![vm].restarts = @ + 1, ![vm].gen = @ + 1]
          /\ Goto(c, "resume_reset")
  /\ UNCHANGED <<power, live, counters, sched, token, life, mail>>

Restore(c) ==
  /\ At(c, "restore")
  /\ LET vm == Now(c).s[1] IN
     IF inst[vm].restarts >= MaxRestarts
     THEN Goto(c, "finish") /\ UNCHANGED inst
     ELSE /\ inst' = [inst EXCEPT ![vm].restarts = @ + 1, ![vm].gen = @ + 1]
          /\ Goto(c, "resume_reset")
  /\ UNCHANGED <<power, live, counters, sched, token, life, mail>>

ResumeReset(c) ==
  /\ At(c, "resume_reset")
  /\ \E attached \in BOOLEAN :
       /\ DmaResume(Now(c).s[1], attached)
       /\ Goto(c, IF attached THEN "republish_on" ELSE "finish")
  /\ UNCHANGED <<power, live, counters, sched, token, life, mail>>

\* publish_reset_vm; a refusal quiesces the device that was just attached.
RepublishOn(c) ==
  /\ At(c, "republish_on")
  /\ LET boot == Boot(Now(c).s[1])
         left == <<Do("dma_begin", boot, "None", 0), Do("finish", boot, "None", 0)>>
     IN IF live[boot] THEN Then(c, left)
        ELSE Scan(c, left, <<Do("republish", boot, "None", 0)>>)
  /\ UNCHANGED <<power, live, counters, sched, token, life, inst, mail>>

Republish(c) ==
  /\ At(c, "republish")
  /\ live'  = [live EXCEPT ![Now(c).s] = TRUE]
  /\ power' = [power EXCEPT ![Now(c).s] = "On"]
  /\ Then(c, <<[Now(c) EXCEPT !.do = "alive_up"], [Now(c) EXCEPT !.do = "finish"]>>)
  /\ UNCHANGED <<counters, sched, token, life, inst, mail>>

\* The tracker is finished, or cancelled, and the token given back.
Finish(c) ==
  /\ At(c, "finish")
  /\ LET vm == Now(c).s[1] IN
     /\ life'  = [life EXCEPT ![vm] = Finished(@)]
     /\ token' = [token EXCEPT ![vm] = Inactive]
  /\ Goto(c, "end_transition")
  /\ UNCHANGED <<power, live, counters, sched, inst, mail>>

\* dma_begin_quiesce whose verdict the caller drops.
DmaBegin(c) ==
  /\ At(c, "dma_begin")
  /\ \E d \in DmaAnswers(Now(c).s[1]) : DmaAnswer(Now(c).s[1], d)
  /\ Then(c, <<>>)
  /\ UNCHANGED <<power, live, counters, sched, token, life, mail>>

-----------------------------------------------------------------------------
(* Soft-timer callbacks on the boot owner.                                 *)

\* on_lifecycle_timeout and QuiesceTracker::on_timeout
LifecycleTimeout(c, vm) ==
  /\ Resting(c) /\ Owner(vm) = c /\ life[vm].timer
  /\ LET epoch == token[vm] IN
     IF ~life[vm].active \/ epoch # life[vm].epoch \/ Ready(vm)
     THEN life' = [life EXCEPT ![vm].timer = FALSE] /\ UNCHANGED agenda
     ELSE IF life[vm].retries >= MaxRetries
     THEN /\ life' = [life EXCEPT ![vm].timer = FALSE]
          /\ Enter(c, <<Do("isolate", Boot(vm), "None", 0)>>)
     ELSE /\ life' = [life EXCEPT ![vm].timer = FALSE, ![vm].retries = @ + 1]
          /\ Enter(c, <<Do("retry", Boot(vm), "None", epoch)>>)
  /\ UNCHANGED <<power, live, counters, sched, token, inst, mail>>

\* The resend loop; after the last slot the timer is armed again while the
\* epoch is still open.
Retry(c) ==
  /\ At(c, "retry")
  /\ LET i  == Now(c)
         vm == i.s[1]
         pending == i.s \in life[vm].pending
         more == IF NextSlot(i.s) \in Slots THEN <<[i EXCEPT !.s = NextSlot(i.s)]>>
                 ELSE <<[i EXCEPT !.do = "rearm"]>>
     IN /\ IF pending /\ SlotCpu[i.s] = c
           THEN Then(c, <<[i EXCEPT !.do = "retire_vcpu"], [i EXCEPT !.do = "acknowledge"]>> \o more)
           ELSE Then(c, more)
        /\ IF pending /\ SlotCpu[i.s] # c /\ Accepts(SlotCpu[i.s], TRUE)
           THEN Post(SlotCpu[i.s], [i EXCEPT !.do = "quiesce_vcpu"]) ELSE UNCHANGED mail
  /\ UNCHANGED <<power, live, counters, sched, token, life, inst>>

Rearm(c) ==
  /\ At(c, "rearm")
  /\ LET vm == Now(c).s[1] IN
     life' = [life EXCEPT ![vm].timer = @ \/ (token[vm] = Now(c).e /\ life[vm].active)]
  /\ Then(c, <<>>)
  /\ UNCHANGED <<power, live, counters, sched, token, inst, mail>>

\* The retries are spent: cancel what was only reserved, drop the tracker
\* and leave the token latched.
Isolate(c) ==
  /\ At(c, "isolate")
  /\ LET i  == Now(c)
         vm == i.s[1]
         cancel == IF i.s \in life[vm].pending THEN <<[i EXCEPT !.do = "cancel_start"]>> ELSE <<>>
         more == IF NextSlot(i.s) \in Slots THEN <<[i EXCEPT !.s = NextSlot(i.s)]>>
                 ELSE <<[i EXCEPT !.do = "isolated"]>>
     IN Then(c, cancel \o more)
  /\ UNCHANGED <<power, live, counters, sched, token, life, inst, mail>>

Isolated(c) ==
  /\ At(c, "isolated")
  /\ life' = [life EXCEPT ![Now(c).s[1]].active = FALSE, ![Now(c).s[1]].pending = {},
                          ![Now(c).s[1]].retries = 0]
  /\ Goto(c, "end_transition")
  /\ UNCHANGED <<power, live, counters, sched, token, inst, mail>>

\* on_dma_drain
DmaDrain(c, vm) ==
  /\ Resting(c) /\ Owner(vm) = c /\ life[vm].drain
  /\ IF ~life[vm].dmaPending \/ token[vm] = Inactive
     THEN life' = [life EXCEPT ![vm].drain = FALSE] /\ UNCHANGED <<inst, agenda>>
     ELSE \E d \in DmaAnswers(vm) :
            /\ DmaAnswer(vm, d)
            /\ life' = [life EXCEPT ![vm].drain = (d = "quiescing"),
                                    ![vm].dmaPending = (d = "quiescing"),
                                    ![vm].dmaFailed = @ \/ d = "failed"]
            /\ IF d = "quiescing" THEN UNCHANGED agenda
               ELSE Enter(c, <<Do("finish_lifecycle", Boot(vm), "None", 0)>>)
  /\ UNCHANGED <<power, live, counters, sched, token, mail>>

-----------------------------------------------------------------------------
(* What a resting core may take up next.                                   *)

\* The host may control every VM from the primary.  Otherwise a VM is
\* stopped by a vCPU of its own, and reset by one or by the watchdog of its
\* owner, which is armed only while the boot vCPU is on.
RunsHere(c, vm) == current[c] # None /\ current[c][1] = vm
MayReset(c, vm) == RunsHere(c, vm) \/ (Owner(vm) = c /\ live[Boot(vm)])

\* A host command leaves its mark in the ring's index first.
ByHost(c) == {h \in BOOLEAN : h => HostCommands /\ c = Primary}
Speak(host) == spoken' = (spoken \/ host)

InBounds == transitions \in -MaxDrift..MaxDrift

CallStartVm(c, vm) ==
  /\ Resting(c) /\ InBounds /\ inst[vm].gen < MaxGen[vm]
  /\ \E host \in ByHost(c) : Speak(host) /\ (host \/ current[c] # None)
  /\ Enter(c, <<Do("start_vm", Boot(vm), "StartVm", 0)>>)
  /\ UNCHANGED <<power, live, counters, current, ran, halted, token, life, inst, mail>>

CallCpuOn(c, s) ==
  /\ Resting(c) /\ current[c] # None /\ current[c][1] = s[1]
  /\ InBounds /\ (s[2] = 0 => inst[s[1]].gen < MaxGen[s[1]])
  /\ Enter(c, <<Do("cpu_on", s, "CpuOn", 0)>>)
  /\ UNCHANGED <<power, live, counters, sched, token, life, inst, mail>>

CallCpuOff(c) ==
  /\ Resting(c) /\ current[c] # None
  /\ life[current[c][1]].epoch < MaxEpoch[current[c][1]]
  /\ Enter(c, <<Do("retire_vcpu", current[c], "None", 0),
                Do("cpu_off_on", Boot(current[c][1]), "Stop", 0)>>)
  /\ UNCHANGED <<power, live, counters, sched, token, life, inst, mail>>

\* SYSTEM_RESET, a host reset, a watchdog expiry, or a guest fault.
CallReset(c, vm) ==
  /\ Resting(c) /\ life[vm].epoch < MaxEpoch[vm]
  /\ \E host \in ByHost(c) : Speak(host) /\ (host \/ MayReset(c, vm))
  /\ \E op \in {"Reset"} \cup IF RunsHere(c, vm) THEN {"Fault"} ELSE {} :
       Enter(c, <<Do("reset_vm", Boot(vm), op, 0)>>)
  /\ UNCHANGED <<power, live, counters, current, ran, halted, token, life, inst, mail>>

CallStop(c, vm) ==
  /\ Resting(c) /\ life[vm].epoch < MaxEpoch[vm]
  /\ \E host \in ByHost(c) : Speak(host) /\ (host \/ RunsHere(c, vm))
  /\ Enter(c, <<Do("stop_vm", Boot(vm), "Stop", 0)>>)
  /\ UNCHANGED <<power, live, counters, current, ran, halted, token, life, inst, mail>>

\* An ordinary request to another core: a guest SGI or a VM-owner call.
CallPostVirq(c, s) ==
  /\ Resting(c) /\ s \in Noisy /\ SlotCpu[s] # c /\ current[c] # None
  /\ Accepts(SlotCpu[s], FALSE)
  /\ Post(SlotCpu[s], Do("post_virq", s, "None", 0))
  /\ UNCHANGED <<power, live, counters, sched, token, life, inst, agenda>>

PostVirq(c) ==
  /\ At(c, "post_virq")
  /\ Then(c, <<>>)
  /\ UNCHANGED <<power, live, counters, sched, token, life, inst, mail>>

\* A translation fault, drained from the event queue by the core that took
\* the interrupt: the stream is quarantined, which silences it, and the
\* recovery goes to the VM's owner.
DmaFault(c, vm) ==
  /\ Resting(c) /\ c = Primary /\ inst[vm].stream /\ life[vm].epoch < MaxEpoch[vm]
  /\ inst' = [inst EXCEPT ![vm].stream = FALSE]
  /\ LET m == Do("recover_dma_fault", Boot(vm), "Reset", inst[vm].dmaGen) IN
     IF Owner(vm) = c THEN Enter(c, <<m>>) /\ UNCHANGED mail
     ELSE /\ IF Accepts(Owner(vm), TRUE) THEN Post(Owner(vm), m) ELSE UNCHANGED mail
          /\ UNCHANGED agenda
  /\ UNCHANGED <<power, live, counters, sched, token, life>>

RecoverDmaFault(c) ==
  /\ At(c, "recover_dma_fault")
  /\ IF inst[Now(c).s[1]].gen # Now(c).e THEN Then(c, <<>>) ELSE Goto(c, "reset_vm")
  /\ UNCHANGED <<power, live, counters, sched, token, life, inst, mail>>

\* handle_irq takes the whole batch out before executing any of it.
DrainMail(c) ==
  /\ Resting(c) /\ mail[c] # <<>>
  /\ Enter(c, mail[c])
  /\ mail' = [mail EXCEPT ![c] = <<>>]
  /\ UNCHANGED <<power, live, counters, sched, token, life, inst>>

\* The scheduler resumes, switches to, or first enters a runnable vCPU.
Dispatch(c, s) ==
  /\ Resting(c) /\ live[s] /\ SlotCpu[s] = c /\ current[c] # s
  /\ current' = [current EXCEPT ![c] = s]
  /\ ran' = ran \cup {c}
  /\ UNCHANGED <<power, live, counters, halted, spoken, token, life, inst, mail, agenda>>

\* schedule_out with nothing runnable: two loads, then the claim.
IdleCheck(c) ==
  /\ Resting(c) /\ c \in ran /\ current[c] = None
  /\ \A s \in Slots : SlotCpu[s] = c => ~live[s]
  /\ alive = 0
  /\ Enter(c, <<Do("halt_transitions", Boot(BootVm), "None", 0)>>)
  /\ UNCHANGED <<power, live, counters, sched, token, life, inst, mail>>

HaltTransitions(c) ==
  /\ At(c, "halt_transitions")
  /\ halted' = IF transitions = 0 /\ ~spoken /\ halted = {} THEN {c} ELSE halted
  /\ Then(c, <<>>)
  /\ UNCHANGED <<power, live, counters, current, ran, spoken, token, life, inst, mail>>

-----------------------------------------------------------------------------
(* Specification.                                                          *)

Init ==
  /\ power = [s \in Slots |-> IF s = Boot(BootVm) THEN "On" ELSE "Off"]
  /\ live = [s \in Slots |-> s = Boot(BootVm)]
  /\ current = [c \in Cores |-> None]
  /\ ran = {}
  /\ alive = 1
  /\ transitions = 0
  /\ halted = {}
  /\ spoken = FALSE
  /\ token = [vm \in Vms |-> Inactive]
  /\ life = [vm \in Vms |-> [epoch |-> 0, pending |-> {}, retries |-> 0, active |-> FALSE,
                             mode |-> "None", dmaPending |-> FALSE, dmaFailed |-> FALSE,
                             timer |-> FALSE, drain |-> FALSE]]
  /\ inst = [vm \in Vms |->
               LET on == vm = BootVm
                   attached == on /\ vm \in Assigned
               IN [gen |-> IF on THEN 1 ELSE 0, restarts |-> 0,
                   dma |-> IF attached THEN "active" ELSE "quiesced",
                   dmaGen |-> IF attached THEN 1 ELSE 0, stream |-> attached]]
  /\ mail = [c \in Cores |-> <<>>]
  /\ agenda = [c \in Cores |-> <<>>]

\* The steps of a core inside a function.
Execute(c) ==
  \/ StartVm(c) \/ StartVmOn(c) \/ CanStart(c) \/ CpuOn(c) \/ BeginReserve(c) \/ ReserveStart(c)
  \/ Recheck(c) \/ SendStart(c) \/ CancelStart(c) \/ EndTransition(c)
  \/ QueuedStart(c) \/ CheckReserved(c) \/ PrepareRest(c) \/ ResumeStart(c)
  \/ PublishAlone(c) \/ JoinVm(c) \/ PublishOn(c) \/ AliveUp(c) \/ AliveDown(c)
  \/ RetireVcpu(c) \/ CpuOffOn(c) \/ ResetVm(c) \/ StopVm(c) \/ Claim(c) \/ Claimed(c)
  \/ SendBegin(c) \/ Release(c) \/ BeginLifecycle(c) \/ SendQuiesce(c) \/ QuiesceLocal(c)
  \/ QuiesceVcpu(c) \/ SendAck(c) \/ Acknowledge(c) \/ FinishLifecycle(c) \/ RestoreOn(c)
  \/ Restore(c) \/ ResumeReset(c) \/ RepublishOn(c) \/ Republish(c) \/ Finish(c)
  \/ DmaBegin(c) \/ Retry(c) \/ Rearm(c) \/ Isolate(c) \/ Isolated(c) \/ PostVirq(c)
  \/ RecoverDmaFault(c) \/ HaltTransitions(c)

\* The interrupts and timers a resting core takes.
Interrupt(c) ==
  \/ DrainMail(c)
  \/ \E vm \in Vms : LifecycleTimeout(c, vm) \/ DmaDrain(c, vm)

\* The requests the environment makes of a resting core.
Request(c) ==
  \/ \E vm \in Vms : CallStartVm(c, vm) \/ CallReset(c, vm) \/ CallStop(c, vm) \/ DmaFault(c, vm)
  \/ \E s \in Slots : CallCpuOn(c, s) \/ CallPostVirq(c, s) \/ Dispatch(c, s)
  \/ CallCpuOff(c)
  \/ IdleCheck(c)

Next == \E c \in Cores : Execute(c) \/ Interrupt(c) \/ Request(c)

Spec == Init /\ [][Next]_vars

\* A drain that ends: poll_quiesce fails a device past its deadline.
DmaDrainEnds(c, vm) == DmaDrain(c, vm) /\ ~life'[vm].dmaPending

\* EL2 code runs to its end, and an interrupt that stays pending is taken
\* when the core next leaves EL2, however many requests come in between.
Fairness ==
  \A c \in Online :
    /\ WF_vars(Execute(c))
    /\ SF_vars(DrainMail(c))
    /\ \A vm \in Vms : Owner(vm) = c =>
         SF_vars(LifecycleTimeout(c, vm)) /\ SF_vars(DmaDrainEnds(c, vm))

FairSpec == Spec /\ Fairness

-----------------------------------------------------------------------------
(* Type invariant.                                                         *)

Life == [epoch : Nat, pending : SUBSET Slots, retries : Nat, active : BOOLEAN,
         mode : {"None", "Reset", "Stop"}, dmaPending : BOOLEAN, dmaFailed : BOOLEAN,
         timer : BOOLEAN, drain : BOOLEAN]
Instance == [gen : Nat, restarts : Nat, dma : {"quiesced", "quiescing", "active", "failed"},
             dmaGen : Nat, stream : BOOLEAN]

\* Every variable holds values of its type: the shape of the published
\* state, the coordinator's records, the mailboxes and the agendas.
TypeOK ==
  /\ power \in [Slots -> Halves]
  /\ live \in [Slots -> BOOLEAN]
  /\ current \in [Cores -> Slots \cup {None}]
  /\ ran \subseteq Cores /\ halted \subseteq Cores /\ spoken \in BOOLEAN
  /\ alive \in Int /\ transitions \in Int
  /\ token \in [Vms -> Token]
  /\ life \in [Vms -> Life]
  /\ inst \in [Vms -> Instance]
  /\ mail \in [Cores -> Seq(Instr)]
  /\ agenda \in [Cores -> Seq(Instr)]

-----------------------------------------------------------------------------
(* Safety.                                                                 *)

\* The view of a vCPU that other cores read agrees with the owner's own
\* state: it is On exactly while the owner may run it (publish_power in
\* start, retire and reset; a reservation only ever moves Off and OnPending).
PowerMatchesLive == \A s \in Slots : live[s] <=> power[s] = "On"

\* The frame a core executes belongs to a vCPU of that core that nobody has
\* retired, whichever of CPU_OFF, quiesce, stop or reset came last.
RunningIsLive ==
  \A c \in Cores : current[c] # None => live[current[c]] /\ SlotCpu[current[c]] = c

\* What a core has yet to execute, in order: its agenda, then its mailbox.
Backlog(c) == agenda[c] \o mail[c]

\* Who carries a claimed lifecycle to its owner: an agenda or a mailbox
\* entry that will begin it, or give it back.
Carrying(vm, i) ==
  i.s[1] = vm /\ i.do \in {"claimed", "send_begin", "begin_lifecycle", "release"}
Carriers(vm) ==
  {p \in UNION {{c} \X DOMAIN Backlog(c) : c \in Cores} : Carrying(vm, Backlog(p[1])[p[2]])}

\* A claim is never lost and never doubled between the core that won the
\* token and the boot owner that begins the lifecycle: the reserved value
\* has exactly one carrier, in a mailbox or in a core's hands, and no
\* carrier is left once the token moved on.
OneCarrier ==
  \A vm \in Vms :
    IF token[vm] = Reserved
    THEN \E c \in Cores : \E k \in DOMAIN Backlog(c) : Carriers(vm) = {<<c, k>>}
    ELSE Carriers(vm) = {}

\* The owner still has a step of this kind to do for the VM, or a resend of its
\* present epoch.
Owed(vm, kinds) ==
  \E k \in DOMAIN agenda[Owner(vm)] : agenda[Owner(vm)][k].s[1] = vm /\ agenda[Owner(vm)][k].do \in kinds
Resending(vm) ==
  \E k \in DOMAIN agenda[Owner(vm)] :
    LET i == agenda[Owner(vm)][k]
    IN i.s[1] = vm /\ i.do \in {"retry", "rearm"} /\ i.e = life[vm].epoch

\* What closes an epoch the owner has decided on.
Closing == {"restore_on", "restore", "resume_reset", "republish_on", "republish", "finish", "isolate", "isolated"}

\* An open epoch is never abandoned: whichever quiesce a full mailbox refused
\* ("Keep the epoch active: the timeout path retries this exact pending bit",
\* vm_lifecycle.cpp:396) and whichever answer was lost, while a vCPU has not
\* answered the timeout is armed or a resend is under way that arms it again,
\* and once all have answered the drain of the device is polled, or the owner is
\* about to close the epoch.
NeverAbandoned ==
  \A vm \in Vms : life[vm].active =>
    \/ Owed(vm, Closing)
    \/ life[vm].pending # {} /\ (life[vm].timer \/ Resending(vm))
    \/ life[vm].pending = {} /\ ((life[vm].dmaPending /\ life[vm].drain) \/ Owed(vm, {"finish_lifecycle"}))

\* No device of the VM can write while its image is written again: the
\* drain is over and its streams are detached when a reset restores memory.
DetachedAtRestore ==
  \A c \in Cores : At(c, "restore") =>
    LET vm == Now(c).s[1] IN inst[vm].dma = "quiesced" /\ ~inst[vm].stream

\* "Every live vCPU is retired and DMA is drained and detached before memory
\* is restored" (vm_lifecycle.cpp, head comment).
RestoreOnlyQuiesced ==
  DetachedAtRestore /\ \A c \in Cores : At(c, "restore") => \A s \in SlotsOf(Now(c).s[1]) : ~live[s]

\* The tracker takes an acknowledgement off its mask only for a vCPU that is
\* off by then: late, repeated and foreign answers change nothing.
AckMeansOff ==
  [][\A s \in Slots :
       s \in life[s[1]].pending /\ s \notin life'[s[1]].pending /\ life'[s[1]].active => ~live[s]]_vars

\* Isolation is for good: once the retries or the device gave up, the VM
\* keeps its epoch token; no claim begins a lifecycle of it, its memory is not
\* restored again and no cold start adopts it (no new generation, and the budget
\* stays), and its boot vCPU does not come back.  A secondary that was past its
\* last look at the token when the epoch began may still come up.
Latched(vm) == token[vm] \notin {Inactive, Reserved} /\ ~life[vm].active
LatchedForGood ==
  [][\A vm \in Vms : Latched(vm) =>
       /\ token'[vm] = token[vm] /\ ~life'[vm].active
       /\ inst'[vm].gen = inst[vm].gen /\ inst'[vm].restarts = inst[vm].restarts
       /\ live'[Boot(vm)] => live[Boot(vm)]]_vars

\* "The machine halts once every VM machine-wide has retired" (sched.cpp).
HaltOnlyWhenDone == halted # {} => \A s \in Slots : ~live[s]

-----------------------------------------------------------------------------
(* What the coordinator promises.                                          *)

\* The lifecycle implements VmPower: exclusive claims that end or latch, a
\* warm reset that writes memory only with every vCPU of the VM off and
\* within its budget, a cold start that never revives an isolated VM.
Abstract == INSTANCE VmPower WITH
  on    <- {s \in Slots : live[s]},
  hold  <- [vm \in Vms |-> IF token[vm] = Inactive THEN "free"
                           ELSE IF Latched(vm) THEN "latched" ELSE "held"],
  spent <- [vm \in Vms |-> inst[vm].restarts]
ImplementsVmPower == Abstract!Spec

\* A lifecycle that was claimed ends or isolates its VM, whatever answers are
\* late and whatever the device does, unless a core halted for good.
LifecycleEnds ==
  \A vm \in Vms : token[vm] # Inactive ~> (token[vm] = Inactive \/ Latched(vm) \/ halted # {})
=============================================================================
