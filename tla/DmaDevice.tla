------------------------------ MODULE DmaDevice ------------------------------
(***************************************************************************)
(* The devices passed through to VMs: their registry, the begin, poll and  *)
(* resume walks that VM power calls on the owner core, the isolation of a  *)
(* VM that cannot be made safe, the physical interrupt of each device, and *)
(* the recovery of SMMU faults.  Threads: the owner core of each VM, core  *)
(* 0 that takes the SMMU's event interrupt, the core where a vCPU of the   *)
(* VM ends an interrupt, and the boot core.  A section under the registry  *)
(* lock is one step; the steps between two sections interleave.            *)
(***************************************************************************)
EXTENDS Smmu

CONSTANTS
  Devices,   \* device ids of the registry, walked in their order
  VmOf,      \* Devices -> Vms: owner_vm
  Lines,     \* devices of the interrupt table
  Issuer,    \* Streams -> the device that issues on it, or NoVm
  MaxGen     \* bound: generations a VM goes through

ASSUME DmaAssumption ==
  /\ VmOf \in [Devices -> Vms] /\ Lines \subseteq Devices /\ MaxGen \in Nat
  /\ \A s \in Streams : IF Configured(s) THEN Issuer[s] \in Devices /\ VmOf[Issuer[s]] = OwnerOf[s]
                         ELSE Issuer[s] = NoVm
  /\ Devices \subseteq Nat
  /\ "irq" \notin Vms /\ "boot" \notin Vms /\ Unlocked \notin Vms \cup {"irq", "boot"}

VARIABLES
  entry,     \* g_registry: state, generation, deadline passed, bus master blocked
  dev,       \* the device: bus master enabled, DMA running
  line,      \* its physical SPI: masked
  token,     \* generation of the tracked virtual interrupt in flight, or 0
  thread,    \* where each thread is in the operation it executes
  drained,   \* the event records each thread has drained and not dispatched
  answer,    \* what the last call answered VM power, per VM
  eoi        \* devices whose end of interrupt was found current, per VM

dmaVars == <<entry, dev, line, token, thread, drained, answer, eoi>>
vars    == <<smmuVars, dmaVars>>

States == {"Unavailable", "Quiesced", "Quiescing", "Detaching", "Resuming", "Active", "Failed"}
DevicesOf(vm) == {d \in Devices : VmOf[d] = vm}
Threads == Vms \cup {"irq", "boot"}
Resting == [pc |-> "idle", then |-> "idle", todo |-> {}, gen |-> 0]
At(t, pc) == ~panicked /\ thread[t].pc = pc
Goto(t, pc) == thread' = [thread EXCEPT ![t].pc = pc]
Visited(t) == thread' = [thread EXCEPT ![t].todo = @ \ {First(@)}]
Walking(t, pc, ds) == thread' = [thread EXCEPT ![t].pc = pc, ![t].todo = ds]
Calling(t, then, ds, gen) ==
  thread' = [thread EXCEPT ![t] = [pc |-> "poll_events", then |-> then, todo |-> ds, gen |-> gen]]
Return(v, a) == answer' = [answer EXCEPT ![v] = a] /\ thread' = [thread EXCEPT ![v] = Resting]
RestSmmu == UNCHANGED smmuVars

-----------------------------------------------------------------------------
\* The three walks: what each does with an entry.

ClassifyBeginQuiesce(e) ==
  CASE e.state \in {"Unavailable", "Quiesced"}    -> "Skip"
    [] e.state \in {"Quiescing", "Detaching"} -> "Pending"
    [] e.state = "Active"                     -> "Collect"
    [] OTHER                                  -> "Fail"

ClassifyQuiescing(e) ==
  CASE e.state \in {"Unavailable", "Quiesced"}              -> "Skip"
    [] e.state = "Quiescing"                            -> IF e.blocked THEN "Collect" ELSE "Pending"
    [] e.state \in {"Detaching", "Resuming", "Active"}  -> "Pending"
    [] OTHER                                            -> "Fail"

ClassifyResume(e) ==
  CASE e.state = "Unavailable" -> "Skip"
    [] e.state = "Quiesced"    -> "Collect"
    [] OTHER                   -> "Fail"

\* scan_owned: the walk in registry order stops at the first verdict in
\* stops; the entries collected before it keep what the walk did to them.  verdict
\* is what the walk finds of each device.
ScanOwned(vm, verdict, stops) ==
  LET bad == {d \in DevicesOf(vm) : verdict[d] \in stops}
  IN [ids     |-> {d \in DevicesOf(vm) : verdict[d] = "Collect" /\ \A b \in bad : d < b},
      verdict |-> IF bad = {} THEN "Skip" ELSE verdict[First(bad)]]

Complete(scan)  == scan.verdict = "Skip"
QuiesceResult(verdict) == IF verdict = "Fail" THEN "Failed" ELSE "Pending"
QuiescingScan(vm) == ScanOwned(vm, [d \in Devices |-> ClassifyQuiescing(entry[d])], {"Fail", "Pending"})
Set(ds, Changed(_)) == entry' = [d \in Devices |-> IF d \in ds THEN Changed(entry[d]) ELSE entry[d]]

OwnerFailed(vm) == \E d \in DevicesOf(vm) : entry[d].state = "Failed"
Holding(vm) == {d \in DevicesOf(vm) : entry[d].state # "Unavailable"}
OwnerActive(vm, gen) ==
  /\ Holding(vm) # {}
  /\ \A d \in Holding(vm) : entry[d].state = "Active" /\ gen # 0 /\ entry[d].generation = gen
CanStart(vm)      == ~OwnerFailed(vm)

-----------------------------------------------------------------------------
\* fail_vm, from thread v after a step that could not be made safe.

FailOwner(v) ==
  /\ At(v, "fail")
  /\ Set(Holding(v), LAMBDA e : [e EXCEPT !.state = "Failed", !.generation = 0, !.blocked = TRUE])
  /\ Walking(v, "isolate", Holding(v))
  /\ RestSmmu /\ UNCHANGED <<dev, line, token, drained, answer, eoi>>

\* reset_interrupt and backend_quiesce; a bus master that will not stop is
\* left to the quarantine.
Isolate(v) ==
  /\ At(v, "isolate") /\ thread[v].todo # {}
  /\ LET d == First(thread[v].todo)
     IN /\ line' = [line EXCEPT ![d] = "masked"]
        /\ \E stopped \in BOOLEAN :
             dev' = [dev EXCEPT ![d].master = @ /\ ~stopped]
  /\ Visited(v)
  /\ RestSmmu /\ UNCHANGED <<entry, token, drained, answer, eoi>>

QuarantineVmOf(v) ==
  /\ At(v, "isolate") /\ thread[v].todo = {}
  /\ Lock(QuarantineVm(v, v)) /\ Goto(v, "quarantine")
  /\ UNCHANGED <<device, ste, cmdq, binding, panicked>>
  /\ UNCHANGED <<entry, dev, line, token, drained, answer, eoi>>

Isolated(v) ==
  /\ At(v, "quarantine") /\ Holds(v)
  /\ Unlock /\ Return(v, "Failed")
  /\ UNCHANGED <<device, ste, cmdq, binding, panicked>>
  /\ UNCHANGED <<entry, dev, line, token, drained, eoi>>

-----------------------------------------------------------------------------
\* begin_quiesce: the interrupts of the VM are masked first, then the walk.

BeginQuiesce(v) ==
  /\ At(v, "idle")
  /\ line' = [d \in Devices |-> IF d \in DevicesOf(v) THEN "masked" ELSE line[d]]
  /\ LET scan    == ScanOwned(v, [d \in Devices |-> ClassifyBeginQuiesce(entry[d])], {"Fail"})
         pending == \E d \in DevicesOf(v) : ClassifyBeginQuiesce(entry[d]) = "Pending"
     IN /\ Set(scan.ids, LAMBDA e : [e EXCEPT !.state = "Quiescing", !.expired = FALSE, !.blocked = FALSE])
        /\ \/ ~Complete(scan) /\ Return(v, "Failed")
           \/ Complete(scan) /\ (scan.ids # {} \/ pending)
              /\ Walking(v, "block", scan.ids) /\ UNCHANGED answer
           \/ Complete(scan) /\ scan.ids = {} /\ ~pending /\ Return(v, "Complete")
  /\ RestSmmu /\ UNCHANGED <<dev, token, drained, eoi>>

\* Faulty: the stopped bus master is not recorded.
BlockUnrecorded(v) ==
  /\ At(v, "block")
  /\ \/ thread[v].todo = {} /\ Goto(v, "complete") /\ UNCHANGED <<dev, line>>
     \/ /\ thread[v].todo # {}
        /\ line' = [line EXCEPT ![First(thread[v].todo)] = "masked"]
        /\ dev' = [dev EXCEPT ![First(thread[v].todo)].master = FALSE]
        /\ Visited(v)
  /\ RestSmmu /\ UNCHANGED <<entry, token, drained, answer, eoi>>

\* reset_interrupt, backend_quiesce, and the bus master counts as blocked if
\* the entry is still quiescing.
Block(v) ==
  /\ At(v, "block")
  /\ \/ /\ thread[v].todo = {} /\ Goto(v, "complete")
        /\ UNCHANGED <<entry, dev, line>>
     \/ /\ thread[v].todo # {}
        /\ LET d == First(thread[v].todo)
           IN /\ line' = [line EXCEPT ![d] = "masked"]
              /\ \/ /\ dev' = [dev EXCEPT ![d].master = FALSE]
                    /\ Set({d} \cap {x \in Devices : entry[x].state = "Quiescing"}, LAMBDA e : [e EXCEPT !.blocked = TRUE])
                    /\ Visited(v)
                 \/ Goto(v, "fail") /\ UNCHANGED <<entry, dev>>
  /\ RestSmmu /\ UNCHANGED <<token, drained, answer, eoi>>

\* complete_quiesce, up to the reset of every drained device.
CompleteQuiesce(v) ==
  /\ At(v, "complete")
  /\ LET scan == QuiescingScan(v)
     IN \/ ~Complete(scan) /\ Return(v, QuiesceResult(scan.verdict))
        \/ Complete(scan) /\ (\E d \in scan.ids : dev[d].busy) /\ Return(v, "Pending")
        \/ /\ Complete(scan) /\ \A d \in scan.ids : ~dev[d].busy
           /\ \/ Goto(v, "detaching")
              \/ scan.ids # {} /\ Goto(v, "fail")
           /\ UNCHANGED answer
  /\ RestSmmu /\ UNCHANGED <<entry, dev, line, token, drained, eoi>>

EnterDetaching(v) ==
  /\ At(v, "detaching")
  /\ LET scan == QuiescingScan(v)
     IN /\ Set(scan.ids, LAMBDA e : [e EXCEPT !.state = "Detaching"])
        /\ \/ ~Complete(scan) /\ Return(v, QuiesceResult(scan.verdict))
           \/ Complete(scan) /\ scan.ids = {} /\ Return(v, "Complete")
           \/ Complete(scan) /\ scan.ids # {} /\ Goto(v, "detach") /\ UNCHANGED answer
  /\ RestSmmu /\ UNCHANGED <<dev, line, token, drained, eoi>>

DetachVm(v) ==
  /\ At(v, "detach")
  /\ \/ Lock(DetachStreams(v, v)) /\ UNCHANGED thread
     \/ Holds(v) /\ Unlock /\ Calling(v, "quiesced", {}, 0)
  /\ UNCHANGED <<device, ste, cmdq, binding, panicked>>
  /\ UNCHANGED <<entry, dev, line, token, drained, answer, eoi>>

Quiesced(v) ==
  /\ At(v, "quiesced")
  /\ Set({d \in DevicesOf(v) : entry[d].state = "Detaching"}, LAMBDA e : [e EXCEPT !.state = "Quiesced", !.generation = 0])
  /\ Return(v, "Complete")
  /\ RestSmmu /\ UNCHANGED <<dev, line, token, drained, eoi>>

\* poll_quiesce: the earliest deadline of the walk decides for all of them.
PollQuiesce(v) ==
  /\ At(v, "idle") /\ answer[v] = "Pending"
  /\ LET scan    == QuiescingScan(v)
         running == \E d \in scan.ids : dev[d].busy
         expired == \E d \in scan.ids : entry[d].expired
     IN \/ ~Complete(scan) /\ Return(v, QuiesceResult(scan.verdict))
        \/ Complete(scan) /\ scan.ids = {} /\ Return(v, "Complete")
        \/ Complete(scan) /\ running /\ ~expired /\ Return(v, "Pending")
        \/ Complete(scan) /\ running /\ expired /\ Goto(v, "fail") /\ UNCHANGED answer
        \/ Complete(scan) /\ scan.ids # {} /\ ~running /\ Goto(v, "complete") /\ UNCHANGED answer
  /\ RestSmmu /\ UNCHANGED <<entry, dev, line, token, drained, eoi>>

-----------------------------------------------------------------------------
\* resume_vm

ResumeVm(v, gen) ==
  /\ At(v, "idle")
  /\ LET scan   == ScanOwned(v, [d \in Devices |-> ClassifyResume(entry[d])], {"Fail"})
         refuse == gen = 0 \/ OwnerFailed(v)
         active == OwnerActive(v, gen)
     IN \/ refuse /\ Return(v, "Failed") /\ UNCHANGED entry
        \/ ~refuse /\ active /\ Return(v, "Running") /\ UNCHANGED entry
        \/ /\ ~refuse /\ ~active
           /\ Set(scan.ids, LAMBDA e : [e EXCEPT !.state = "Resuming"])
           /\ \/ ~Complete(scan) /\ Return(v, "Failed")
              \/ Complete(scan) /\ scan.ids = {} /\ Return(v, "Running")
              \/ /\ Complete(scan) /\ scan.ids # {}
                 /\ Calling(v, "attach", scan.ids, gen)
                 /\ UNCHANGED answer
  /\ RestSmmu /\ UNCHANGED <<dev, line, drained, eoi>>

\* attach_vm refuses before any entry is written, or installs every stream.
AttachVm(v) ==
  /\ At(v, "attach")
  /\ \/ /\ CanAttachVm(v, thread[v].gen) /\ Lock(AttachStreams(v, v, thread[v].gen)) /\ UNCHANGED thread
     \/ /\ Free /\ ~CanAttachVm(v, thread[v].gen) /\ Goto(v, "fail") /\ UNCHANGED domain
     \/ /\ Holds(v) /\ Unlock /\ Goto(v, "prepare")
  /\ UNCHANGED <<device, ste, cmdq, binding, panicked>>
  /\ UNCHANGED <<entry, dev, line, token, drained, answer, eoi>>

\* prepare_interrupt and backend_resume of each device in turn
PrepareDevices(v) ==
  /\ At(v, "prepare") /\ thread[v].todo # {}
  /\ LET d == First(thread[v].todo)
     IN /\ line' = [line EXCEPT ![d] = "masked"]
        /\ \/ dev' = [dev EXCEPT ![d].master = TRUE] /\ Visited(v)
           \/ Goto(v, "fail") /\ UNCHANGED dev
  /\ RestSmmu /\ UNCHANGED <<entry, token, drained, answer, eoi>>

Activate(v) ==
  /\ At(v, "prepare") /\ thread[v].todo = {}
  /\ LET up == {d \in DevicesOf(v) : entry[d].state = "Resuming"}
     IN /\ Set(up, LAMBDA e : [e EXCEPT !.state = "Active", !.generation = thread[v].gen, !.blocked = FALSE])
        /\ Walking(v, "unmask", up)
  /\ RestSmmu /\ UNCHANGED <<dev, line, token, drained, answer, eoi>>

UnmaskDevices(v) ==
  /\ At(v, "unmask")
  /\ \/ thread[v].todo = {} /\ Return(v, "Running") /\ UNCHANGED line
     \/ /\ thread[v].todo # {}
        /\ line' = [line EXCEPT ![First(thread[v].todo)] =
                               IF First(thread[v].todo) \in Lines THEN "open" ELSE @]
        /\ Visited(v) /\ UNCHANGED answer
     \/ thread[v].todo # {} /\ Goto(v, "fail") /\ UNCHANGED <<line, answer>>
  /\ RestSmmu /\ UNCHANGED <<entry, dev, token, drained, eoi>>

-----------------------------------------------------------------------------
\* poll_events and the event interrupt: the queue is drained under the event
\* lock into a batch, which is dispatched after the lock is dropped.

PollEvents(t) ==
  /\ At(t, "poll_events") \/ (t = "irq" /\ At(t, "idle") /\ (evq # <<>> \/ overflow))
  /\ Drain /\ drained' = [drained EXCEPT ![t] = Faults] /\ Goto(t, "dispatch")
  /\ UNCHANGED <<entry, dev, line, token, answer, eoi>>

\* quarantine_fault_stream: an attached stream takes its whole VM with it.
DispatchFault(t) ==
  /\ At(t, "dispatch") /\ drained[t] # <<>>
  /\ LET e == Head(drained[t])
         s == e[1]
     IN \/ /\ Free /\ binding[s].state # "Attached"
           /\ drained' = [drained EXCEPT ![t] = Tail(@)]
           /\ UNCHANGED domain
        \/ /\ binding[s].state = "Attached" /\ Lock(QuarantineVm(t, OwnerOf[s]))
           /\ UNCHANGED drained
        \/ /\ Holds(t) /\ Unlock
           /\ drained' = [drained EXCEPT ![t] = Tail(@)]
  /\ UNCHANGED <<device, ste, cmdq, binding, panicked>>
  /\ UNCHANGED <<entry, dev, line, token, thread, answer, eoi>>

Dispatched(t) ==
  /\ At(t, "dispatch") /\ drained[t] = <<>> /\ ~Holds(t)
  /\ Goto(t, thread[t].then)
  /\ RestSmmu /\ UNCHANGED <<entry, dev, line, token, drained, answer, eoi>>

-----------------------------------------------------------------------------
\* The physical interrupt of a device, taken on the owner core between two
\* operations, and its end, on the core of the vCPU that ended it.

HandleIrq(d) ==
  LET v == VmOf[d]
  IN /\ At(v, "idle") /\ line[d] = "open"
     /\ line' = [line EXCEPT ![d] = "masked"]
     /\ \/ entry[d].state # "Active" /\ UNCHANGED <<token, thread>>
        \/ entry[d].state = "Active" /\ token' = [token EXCEPT ![d] = entry[d].generation] /\ UNCHANGED thread
        \/ entry[d].state = "Active" /\ Goto(v, "fail") /\ UNCHANGED token
     /\ RestSmmu /\ UNCHANGED <<entry, dev, drained, answer, eoi>>

VirtualEoi(d) ==
  /\ ~panicked /\ token[d] # 0
  /\ token' = [token EXCEPT ![d] = 0]
  /\ eoi' = IF entry[d].state = "Active" /\ entry[d].generation = token[d]
            THEN [eoi EXCEPT ![VmOf[d]] = @ \cup {d}] ELSE eoi
  /\ RestSmmu /\ UNCHANGED <<entry, dev, line, thread, drained, answer>>

\* Faulty: the pending state is cleared and the line stays masked.
RearmMasked(d) ==
  /\ ~panicked /\ d \in eoi[VmOf[d]]
  /\ eoi' = [eoi EXCEPT ![VmOf[d]] = @ \ {d}]
  /\ RestSmmu /\ UNCHANGED <<entry, dev, line, token, drained, thread, answer>>

Rearm(d) ==
  /\ ~panicked /\ d \in eoi[VmOf[d]]
  /\ eoi' = [eoi EXCEPT ![VmOf[d]] = @ \ {d}]
  /\ line' = [line EXCEPT ![d] = "open"]
  /\ RestSmmu /\ UNCHANGED <<entry, dev, token, drained, thread, answer>>

-----------------------------------------------------------------------------
\* The device, the clock and boot.

\* start_dma for an EL2 caller that names the running generation, or the
\* guest itself through its own registers.
StartDma(d) ==
  /\ dev[d].master /\ ~dev[d].busy /\ ~panicked
  /\ dev' = [dev EXCEPT ![d].busy = TRUE]
  /\ RestSmmu /\ UNCHANGED <<entry, line, token, drained, thread, answer, eoi>>

EndDma(d) ==
  /\ dev[d].busy /\ dev' = [dev EXCEPT ![d].busy = FALSE]
  /\ RestSmmu /\ UNCHANGED <<entry, line, token, drained, thread, answer, eoi>>

Expire(d) ==
  /\ entry[d].state = "Quiescing" /\ ~entry[d].expired /\ ~panicked
  /\ entry' = [entry EXCEPT ![d].expired = TRUE]
  /\ RestSmmu /\ UNCHANGED <<dev, line, token, drained, thread, answer, eoi>>

\* probe_device: present, configured and resettable, or not.
ProbeDevices ==
  /\ At("boot", "idle") /\ Holds("boot")
  /\ \E probed \in [Devices -> {"Quiesced", "Unavailable", "Failed"}] :
       entry' = [d \in Devices |-> [entry[d] EXCEPT !.state = probed[d],
                                                    !.blocked = probed[d] = "Quiesced"]]
  /\ Unlock /\ Goto("boot", "done")
  /\ answer' = [v \in Vms |-> "Complete"]
  /\ UNCHANGED <<device, ste, cmdq, binding, panicked>>
  /\ UNCHANGED <<dev, line, token, drained, eoi>>

\* What VM power asks, on the owner core: a resume follows a completed
\* quiesce, with every vCPU off, so no end of interrupt is in progress.
Call(v) ==
  \/ answer[v] \in {"Running", "Complete", "Failed"} /\ BeginQuiesce(v)
  \/ PollQuiesce(v)
  \/ /\ answer[v] = "Complete" /\ eoi[v] = {}
     /\ \E gen \in 1..MaxGen :
          /\ \A s \in StreamsOf(v) : gen = binding[s].generation + 1
          /\ ResumeVm(v, gen)
     /\ token' = [d \in Devices |-> IF VmOf[d] = v THEN 0 ELSE token[d]]

Walk(v) ==
  \/ FailOwner(v) \/ Isolate(v) \/ QuarantineVmOf(v) \/ Isolated(v)
  \/ Block(v) \/ CompleteQuiesce(v) \/ EnterDetaching(v) \/ DetachVm(v) \/ Quiesced(v)
  \/ AttachVm(v) \/ PrepareDevices(v) \/ Activate(v) \/ UnmaskDevices(v)
Events(t) == PollEvents(t) \/ DispatchFault(t) \/ Dispatched(t)
Interrupts(d) == HandleIrq(d) \/ VirtualEoi(d) \/ Rearm(d)
Hardware ==
  \/ HwConsume /\ UNCHANGED dmaVars
  \/ \E s \in Streams :
       /\ HwFetch(s) \/ (HwTranslate(s) /\ (Configured(s) => dev[Issuer[s]].busy))
       /\ UNCHANGED dmaVars

Init ==
  /\ SmmuInit
  /\ entry = [d \in Devices |-> [state |-> "Unavailable", generation |-> 0,
                                 expired |-> FALSE, blocked |-> TRUE]]
  /\ dev = [d \in Devices |-> [master |-> FALSE, busy |-> FALSE]]
  /\ line = [d \in Devices |-> "masked"]
  /\ token = [d \in Devices |-> 0]
  /\ drained = [t \in Threads |-> <<>>]
  /\ thread = [t \in Threads |-> Resting]
  /\ answer = [v \in Vms |-> "Booting"]
  /\ eoi = [v \in Vms |-> {}]

Next ==
  \/ DomainStep /\ UNCHANGED dmaVars
  \/ ProbeDevices
  \/ \E v \in Vms : Call(v) \/ Walk(v)
  \/ \E t \in Vms \cup {"irq"} : Events(t)
  \/ \E d \in Devices : Interrupts(d) \/ StartDma(d) \/ EndDma(d) \/ Expire(d)
  \/ Hardware

Spec == Init /\ [][Next]_vars

\* EL2 keeps executing, the hardware consumes what was submitted, time passes,
\* and VM power polls a pending quiesce from its timer.
Fairness ==
  /\ WF_vars(DomainStep /\ UNCHANGED dmaVars)
  /\ WF_vars(HwConsume /\ UNCHANGED dmaVars)
  /\ \A v \in Vms : WF_vars(PollQuiesce(v))
  /\ \A t \in Vms \cup {"irq"} : WF_vars(Events(t))
  /\ \A v \in Vms : WF_vars(Walk(v))
  /\ \A d \in Devices : WF_vars(Expire(d))
FairSpec == Spec /\ Fairness
=============================================================================
