-------------------------------- MODULE Smmu --------------------------------
(***************************************************************************)
(* The SMMU driver and the device it drives: the stream table in memory    *)
(* and the copies the hardware caches, the command queue with its          *)
(* asynchronous consumer, the event queue, the bindings of streams to VMs  *)
(* and the domain lock.  A caller of the driver holds the domain lock for  *)
(* an operation: the memory writes, submissions and waits of a bring-up,   *)
(* or of an attach, detach or quarantine stream after stream, executed one *)
(* at a time against the hardware.  Both queues are sequences here;        *)
(* SmmuQueue has their pointers.                                           *)
(***************************************************************************)
EXTENDS Integers, Sequences

CONSTANTS
  Vms,        \* VMs of the guest table
  StreamCount,  \* entries of the linear stream table
  OwnerOf,    \* Streams -> Vms \cup {NoVm}: the assignment table
  NoVm,       \* dma::kNoVm, and the root of an entry without a body
  Foreign,    \* a root firmware left behind, in no VM's table
  CmdSlots,   \* entries of the command ring
  EvtSlots,   \* entries of the event ring
  Unlocked    \* the domain lock is free

Streams == 1..StreamCount

ASSUME SmmuAssumption ==
  /\ StreamCount \in Nat \ {0}
  /\ OwnerOf \in [Streams -> Vms \cup {NoVm}]
  /\ NoVm \notin Vms /\ Foreign \notin Vms \cup {NoVm}
  /\ CmdSlots \in Nat /\ CmdSlots >= 3 /\ EvtSlots \in Nat \ {0}

VARIABLES
  gbpa,       \* "bypass" or "abort": what an untranslated stream may do
  cr0,        \* which of command queue, event queue and translation are on
  ste,        \* the stream table in memory
  cfg,        \* the entry the hardware caches per stream, or NoEntry
  tlb,        \* VMs with cached translations
  cmdq,       \* submitted commands not consumed yet
  cerr,       \* CMDQ_CONS carries an error: the consumer has stopped
  evq,        \* event records the driver has not drained
  overflow,   \* the event queue dropped a record
  binding,    \* g_bindings: state and generation of each stream
  domain,     \* g_domain_lock: its holder and where its operation is
  panicked    \* fail_init or fail_runtime: EL2 has stopped

smmuVars == <<gbpa, cr0, ste, cfg, tlb, cmdq, cerr, evq, overflow, binding,
              domain, panicked>>
device == <<gbpa, cr0, cfg, tlb, cerr, evq, overflow>>

Word0   == {"invalid", "abort", "stage2"}   \* V and Config of an entry
NoEntry == [w0 |-> "uncached", root |-> NoVm, gen |-> 0]
Roots   == Vms \cup {NoVm, Foreign}
Ste     == [w0 : Word0, root : Roots, gen : Nat]  \* gen: who wrote it (history)
Zero    == [w0 |-> "invalid", root |-> NoVm, gen |-> 0]
MakeAbortSte == [Zero EXCEPT !.w0 = "abort"]
Enables == {"cmdq", "evtq", "smmu"}               \* kEnabledCr0
Free    == domain.who = Unlocked
Configured(s) == OwnerOf[s] # NoVm
StreamsOf(vm) == {s \in Streams : OwnerOf[s] = vm}

-----------------------------------------------------------------------------
\* Operations.  A section is the code of an operation for one stream, or for
\* one batch of them; a step is a tuple: its name and its operands.

MakeCfgiSte(s)  == <<"cfgi", s>>
MakeTlbiVm(vm)  == <<"tlbi", vm>>
MakeTlbiAll     == <<"tlbi_all">>
MakeSync        == <<"sync">>

\* submit: wait until idle, stage the batch and a CMD_SYNC, wait again.
Submit(cmds) == << <<"idle">>, <<"push", Append(cmds, MakeSync)>>, <<"idle">> >>

\* Faulty: the translations go, the cached entry stays.
AbortKeepingEntry(s, vm) == << <<"w0", s, "abort">> >> \o Submit(<<MakeTlbiVm(vm)>>)
AbortStream(s, vm) ==
  << <<"w0", s, "abort">> >> \o Submit(<<MakeCfgiSte(s), MakeTlbiVm(vm)>>)

\* Faulty: the abort entry is valid too, so the body goes in under it.
InstallInPlace(s, vm, gen) ==
  << <<"body", s, vm, gen>>, <<"w0", s, "stage2">> >>
    \o Submit(<<MakeCfgiSte(s), MakeTlbiVm(vm)>>)

\* The entry goes invalid, then its body, then word 0 makes it valid.
InstallStream(s, vm, gen) ==
  << <<"w0", s, "invalid">> >> \o Submit(<<MakeCfgiSte(s)>>)
    \o << <<"body", s, vm, gen>>, <<"w0", s, "stage2">> >>
    \o Submit(<<MakeCfgiSte(s), MakeTlbiVm(vm)>>)

First(set) == CHOOSE s \in set : \A x \in set : s <= x

AttachStream(s, vm, gen) == Append(InstallStream(s, vm, gen), <<"bind", s, "Attached", gen>>)
DetachStream(s, vm) == Append(AbortStream(s, vm), <<"bind", s, "Detached", binding[s].generation>>)
QuarantineStream(s, vm) ==
  Append(IF binding[s].state = "Attached" THEN AbortStream(s, vm) ELSE <<>>,
         <<"bind", s, "Quarantined", binding[s].generation>>)

\* bring_up_translation invalidates every stream, as many per batch as fit
\* beside the CMD_SYNC.
BatchEnd(rest) ==
  LET full == First(rest) + CmdSlots - 2 IN IF full < StreamCount THEN full ELSE StreamCount
Batch(rest) == First(rest)..BatchEnd(rest)
CfgiBatch(rest) == [i \in 1..(BatchEnd(rest) - First(rest) + 1) |-> MakeCfgiSte(First(rest) + i - 1)]
\* Faulty: only the batches that are full.
InvalidateFullBatches(rest) ==
  IF BatchEnd(rest) = First(rest) + CmdSlots - 2 THEN Submit(CfgiBatch(rest)) ELSE Submit(<<>>)
InvalidateStreams(rest) == Submit(CfgiBatch(rest))

ShutDown == << <<"gbpa">>, <<"cr0", {}>> >>
BuildAndStart == ShutDown \o << <<"tables">>, <<"cr0", {"cmdq"}>> >>
EnableFaults  == Submit(<<MakeTlbiAll>>) \o << <<"cr0", {"cmdq", "evtq"}>>, <<"cr0", Enables>> >>

Section ==
  LET s == First(domain.rest) IN
  CASE domain.op = "attach"     -> AttachStream(s, domain.vm, domain.gen)
    [] domain.op = "detach"     -> DetachStream(s, domain.vm)
    [] domain.op = "quarantine" -> QuarantineStream(s, domain.vm)
    [] domain.op = "start"      -> BuildAndStart
    [] domain.op = "invalidate" -> InvalidateStreams(domain.rest)
    [] domain.op = "enable"     -> EnableFaults

\* The lock's holder has nothing to do, or an operation on some streams.
Inactive(t) == [who |-> t, op |-> "none", vm |-> NoVm, gen |-> 0, rest |-> {}, pc |-> 0]
Begin(t, op, vm, gen, streams) ==
  IF streams = {} THEN Inactive(t)
  ELSE [who |-> t, op |-> op, vm |-> vm, gen |-> gen, rest |-> streams, pc |-> 1]

AttachStreams(t, vm, gen) ==
  Begin(t, "attach", vm, gen, {s \in StreamsOf(vm) : binding[s].state # "Attached"})
DetachStreams(t, vm) ==
  Begin(t, "detach", vm, 0, {s \in StreamsOf(vm) : binding[s].state = "Attached"})
QuarantineVm(t, vm) ==
  Begin(t, "quarantine", vm, 0, {s \in StreamsOf(vm) : binding[s].state # "Quarantined"})

\* What follows a section: the next batch or stream, the next part of the
\* bring-up, or nothing.
AfterSection ==
  LET unfinished == domain.rest \ Batch(domain.rest) IN
  CASE domain.op = "start" -> Begin(domain.who, "invalidate", NoVm, 0, Streams)
    [] domain.op = "invalidate" /\ unfinished # {} -> Begin(domain.who, "invalidate", NoVm, 0, unfinished)
    [] domain.op = "invalidate" /\ unfinished = {} -> Begin(domain.who, "enable", NoVm, 0, Streams)
    [] domain.op = "enable" -> Inactive(domain.who)
    [] OTHER -> Begin(domain.who, domain.op, domain.vm, domain.gen, domain.rest \ {First(domain.rest)})

-----------------------------------------------------------------------------
\* Executing the operation of the lock's holder.

Halt    == panicked' = TRUE /\ UNCHANGED <<device, ste, cmdq, binding, domain>>

\* A control write is applied asynchronously: it is acknowledged or the poll
\* limit runs out.
WriteGbpa(step, next) ==
  /\ step[1] = "gbpa"
  /\ \/ gbpa' = "abort" /\ domain' = next
        /\ UNCHANGED <<cr0, ste, cfg, tlb, cmdq, cerr, evq, overflow, binding, panicked>>
     \/ Halt

WriteCr0(step, next) ==
  /\ step[1] = "cr0"
  /\ \/ /\ cr0' = step[2] /\ domain' = next
        /\ IF "evtq" \in step[2] \ cr0   \* its pointers were zeroed first
           THEN evq' = <<>> /\ overflow' = FALSE ELSE UNCHANGED <<evq, overflow>>
        /\ UNCHANGED <<gbpa, ste, cfg, tlb, cmdq, cerr, binding, panicked>>
     \/ Halt

\* build_dma_contexts: every entry invalid, the assigned streams abort.
BuildTables(step, next) ==
  /\ step[1] = "tables"
  /\ ste' = [s \in Streams |-> IF Configured(s) THEN MakeAbortSte ELSE Zero]
  /\ binding' = [s \in Streams |-> [state |-> "Detached", generation |-> 0]]
  /\ cmdq' = <<>> /\ domain' = next
  /\ UNCHANGED <<device, panicked>>

WriteWord0(step, next) ==
  /\ step[1] = "w0"
  /\ ste' = [ste EXCEPT ![step[2]].w0 = step[3]]
  /\ domain' = next
  /\ UNCHANGED <<device, cmdq, binding, panicked>>

WriteBody(step, next) ==
  /\ step[1] = "body"
  /\ ste' = [ste EXCEPT ![step[2]].root = step[3], ![step[2]].gen = step[4]]
  /\ domain' = next
  /\ UNCHANGED <<device, cmdq, binding, panicked>>

\* wait_idle: everything consumed, a consumer error, or the poll limit.
WaitIdle(step, next) ==
  /\ step[1] = "idle"
  /\ \/ ~cerr /\ cmdq = <<>> /\ domain' = next
        /\ UNCHANGED <<device, ste, cmdq, binding, panicked>>
     \/ (cerr \/ cmdq # <<>>) /\ Halt

Push(step, next) ==
  /\ step[1] = "push"
  /\ \/ Len(step[2]) <= CmdSlots /\ cmdq' = cmdq \o step[2] /\ domain' = next
        /\ UNCHANGED <<device, ste, binding, panicked>>
     \/ Len(step[2]) > CmdSlots /\ Halt

\* mark_attached, mark_detached, mark_quarantined
Bind(step, next) ==
  /\ step[1] = "bind"
  /\ binding' = [binding EXCEPT ![step[2]] = [state |-> step[3], generation |-> step[4]]]
  /\ domain' = next
  /\ UNCHANGED <<device, ste, cmdq, panicked>>

Execute(step, next) ==
  \/ WriteGbpa(step, next) \/ WriteCr0(step, next) \/ BuildTables(step, next)
  \/ WriteWord0(step, next) \/ WriteBody(step, next)
  \/ WaitIdle(step, next) \/ Push(step, next) \/ Bind(step, next)

DomainStep ==
  /\ ~panicked /\ domain.op # "none"
  /\ LET section == Section
         next    == IF domain.pc = Len(section) THEN AfterSection ELSE [domain EXCEPT !.pc = @ + 1]
     IN Execute(section[domain.pc], next)

\* Entry to and exit from a domain operation of thread t.
Lock(operation) == Free /\ domain' = operation
Holds(t) == domain.who = t /\ domain.op = "none"
Unlock   == domain' = Inactive(Unlocked)

CanAttach(s, gen) == binding[s].state # "Attached" /\ gen > binding[s].generation
CanAttachVm(vm, gen) ==
  \A s \in StreamsOf(vm) :
    IF binding[s].state = "Attached" THEN binding[s].generation = gen
    ELSE CanAttach(s, gen)

-----------------------------------------------------------------------------
\* The hardware.

HwConsume ==
  /\ "cmdq" \in cr0 /\ ~cerr /\ cmdq # <<>>
  /\ LET c == Head(cmdq)
     IN \/ /\ cfg' = IF c[1] = "cfgi" THEN [cfg EXCEPT ![c[2]] = NoEntry] ELSE cfg
           /\ tlb' = CASE c[1] = "tlbi" -> tlb \ {c[2]}
                       [] c[1] = "tlbi_all" -> {}
                       [] OTHER -> tlb
           /\ cmdq' = Tail(cmdq) /\ cerr' = FALSE
        \/ cerr' = TRUE /\ UNCHANGED <<cfg, tlb, cmdq>>
  /\ UNCHANGED <<gbpa, cr0, ste, evq, overflow, binding, domain, panicked>>

HwFetch(s) ==
  /\ "smmu" \in cr0 /\ cfg[s] = NoEntry
  /\ cfg' = [cfg EXCEPT ![s] = ste[s]]
  /\ UNCHANGED <<gbpa, cr0, ste, tlb, cmdq, cerr, evq, overflow, binding, domain, panicked>>

\* try_record_event: a full queue drops the record and flags the loss.
Record(e) ==
  IF Len(evq) < EvtSlots THEN evq' = Append(evq, e) /\ UNCHANGED overflow
                         ELSE overflow' = TRUE /\ UNCHANGED evq

\* A transaction of stream s: translated, refused with a fault that calls for
\* quarantine, refused with a record that does not, or silently aborted.
HwTranslate(s) ==
  /\ {"smmu", "evtq"} \subseteq cr0 /\ cfg[s] # NoEntry
  /\ \/ cfg[s].w0 = "stage2" /\ tlb' = tlb \cup {cfg[s].root}
        /\ UNCHANGED <<evq, overflow>>
     \/ cfg[s].w0 = "stage2" /\ Record(<<s, "translation", cfg[s].gen>>) /\ UNCHANGED tlb
     \/ cfg[s].w0 = "invalid" /\ Record(<<s, "bad_ste", 0>>) /\ UNCHANGED tlb
  /\ UNCHANGED <<gbpa, cr0, ste, cfg, cmdq, cerr, binding, domain, panicked>>

\* What a transaction of stream s may reach in this state.
Reaches(s) ==
  LET e == IF cfg[s] = NoEntry THEN ste[s] ELSE cfg[s]
  IN IF "smmu" \notin cr0 THEN (IF gbpa = "bypass" THEN Roots ELSE {})
     ELSE IF e.w0 = "stage2" THEN {e.root} ELSE {}

\* Faulty: configuration faults are the ones isolated.
RequiresQuarantineSwapped(e) == e[2] = "bad_ste"
\* decode_event and requires_quarantine
RequiresQuarantine(e) == e[2] = "translation"

\* drain_event_queue, under the event lock
Drain == /\ evq' = <<>> /\ overflow' = FALSE
         /\ UNCHANGED <<gbpa, cr0, ste, cfg, tlb, cmdq, cerr, binding, domain, panicked>>
Faults == SelectSeq(evq, RequiresQuarantine)

\* The state firmware may leave: translation on or off, stale cached entries.
SmmuInit ==
  /\ gbpa = "bypass" /\ cr0 \in {{}, Enables}
  /\ ste = [s \in Streams |-> Zero]
  /\ \E stale \in SUBSET Streams :
       cfg = [s \in Streams |-> IF s \in stale
                THEN [w0 |-> "stage2", root |-> Foreign, gen |-> 0] ELSE NoEntry]
  /\ tlb \in {{}, Vms}
  /\ cmdq = <<>> /\ cerr = FALSE /\ evq = <<>> /\ overflow = FALSE
  /\ binding = [s \in Streams |-> [state |-> "Detached", generation |-> 0]]
  /\ domain = Begin("boot", "start", NoVm, 0, Streams)
  /\ panicked = FALSE
=============================================================================
