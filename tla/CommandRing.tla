------------------------------ MODULE CommandRing ------------------------------
(***************************************************************************)
(* The command page: a host outside the machine writes commands into a     *)
(* ring, a timer slot on the primary core drains it                        *)
(* (nova/command.hpp, service/command.cpp; the producer is the Writer of   *)
(* novakit/services/workbench/commands.py).  The host owns the write index *)
(* and is not trusted with it.  A record is two words, the opcode and the  *)
(* number of the command, written one after the other; commands are        *)
(* numbered in the order they are begun.                                   *)
(***************************************************************************)
EXTENDS Integers, Sequences, FiniteSets, SequencesExt, FiniteSetsExt

CONSTANTS
  CmdSlots,     \* NOVA_CMD_SLOTS
  OpsCap,       \* NOVA_CMD_OPS_CAP
  OpsOffered,   \* the opcodes offered at init: a sequence; 0 is no opcode
  OpsIssued,    \* the opcodes the host may send
  TooWide,      \* opcodes that do not fit the answering record
  MaxIssues,    \* bound: commands begun
  MaxMeddles    \* bound: stores to the write index that break the protocol

ASSUME CommandAssumption == CmdSlots \in Nat \ {0} /\ OpsOffered \in Seq(Nat)

VARIABLES
  offers,     \* how many of OpsOffered were declared
  g_ops,      \* the table
  placed,     \* the page is findable
  widx, ridx, bodies,
  writer,     \* the host's issue()
  consumer,   \* the drain
  begun, meddles,
  accepted,   \* commands whose issue() returned, by number
  answers,    \* what the machine did: [id, op, result]
  voided,     \* commands thrown away with a broken index
  broken      \* the index was broken and the machine has not noticed yet

cmdVars == <<offers, g_ops, placed, widx, ridx, bodies, writer, consumer, begun, meddles, accepted, answers, voided, broken>>

NoWriter == [pc |-> "idle", op |-> 0, id |-> 0, write |-> 0]
NoDrainer == [pc |-> "waiting", index |-> 0, write |-> 0]

CmdInit ==
  /\ offers = 0 /\ g_ops = <<>> /\ placed = FALSE
  /\ widx = 0 /\ ridx = 0 /\ bodies = [i \in 0..(CmdSlots - 1) |-> [op |-> 0, id |-> 0]]
  /\ writer = NoWriter /\ consumer = NoDrainer
  /\ begun = 0 /\ meddles = 0
  /\ accepted = {} /\ answers = <<>> /\ voided = {} /\ broken = FALSE

------------------------------------------------------------------------------
(* OpTable: collected once, before the page is placed.                      *)

Claimed(op) == op \in ToSet(g_ops)

DeclareOp ==
  /\ ~placed /\ offers < Len(OpsOffered)
  /\ offers' = offers + 1
  /\ LET op == OpsOffered[offers + 1] IN
     g_ops' = IF Len(g_ops) = OpsCap \/ op = 0 \/ Claimed(op) THEN g_ops ELSE Append(g_ops, op)
  /\ UNCHANGED <<placed, widx, ridx, bodies, writer, consumer, begun, meddles, accepted, answers, voided, broken>>

\* format, then the magic; the slot that drains is armed after it.
PlacePage ==
  /\ ~placed /\ offers = Len(OpsOffered)
  /\ placed' = TRUE /\ widx' = 0 /\ ridx' = 0
  /\ UNCHANGED <<offers, g_ops, bodies, writer, consumer, begun, meddles, accepted, answers, voided, broken>>

\* The number of an op's row stands for what its handler does.
Dispatch(op) == IF op \in TooWide \/ ~Claimed(op) THEN "unknown" ELSE "ok"
Named(op) == IF op \in TooWide THEN 0 ELSE op

------------------------------------------------------------------------------
(* The host: issue() in its steps, and the death of the process in them.    *)

Machine == <<offers, g_ops, placed, ridx, consumer, answers, voided>>

\* Python's integers: a write index behind the read index is not full.
Room(write, read) == write - read < CmdSlots

IssueOp ==
  /\ placed /\ writer.pc = "idle" /\ begun < MaxIssues /\ ~broken
  /\ Room(widx, ridx)
  /\ \E op \in OpsIssued :
       /\ writer' = [pc |-> "body", op |-> op, id |-> begun + 1, write |-> widx]
       /\ bodies' = [bodies EXCEPT ![widx % CmdSlots].op = op]
  /\ begun' = begun + 1
  /\ UNCHANGED <<widx, meddles, accepted, broken>> /\ UNCHANGED Machine

IssueBody ==
  /\ writer.pc = "body"
  /\ bodies' = [bodies EXCEPT ![writer.write % CmdSlots].id = writer.id]
  /\ writer' = [writer EXCEPT !.pc = "index"]
  /\ UNCHANGED <<widx, begun, meddles, accepted, broken>> /\ UNCHANGED Machine

\* The index publishes the body.
IssueIndex ==
  /\ writer.pc = "index"
  /\ widx' = writer.write + 1
  /\ accepted' = accepted \union {writer.id}
  /\ writer' = NoWriter
  /\ UNCHANGED <<bodies, begun, meddles, broken>> /\ UNCHANGED Machine

HostDies ==
  /\ writer.pc # "idle"
  /\ writer' = NoWriter
  /\ UNCHANGED <<widx, bodies, begun, meddles, accepted, broken>> /\ UNCHANGED Machine

\* Another process stores an index no producer of this ring would: behind
\* what is drained, or further ahead than the ring is deep.  (One in range
\* is in the power of any producer, and executes what the slots hold; so is
\* one that a drain under way brings into range.)  It issues nothing more
\* until the machine has resynchronised.
Meddle ==
  /\ placed /\ writer.pc = "idle" /\ meddles < MaxMeddles
  /\ LET drained == IF consumer.pc = "consume" THEN consumer.write ELSE ridx IN
     \E w \in (0..(drained + CmdSlots + 1)) \ (drained..(drained + CmdSlots)) : widx' = w
  /\ meddles' = meddles + 1
  /\ broken' = TRUE
  /\ UNCHANGED <<bodies, writer, begun, accepted>> /\ UNCHANGED Machine

------------------------------------------------------------------------------
(* The drain: on_tick, in the primary's timer interrupt.                    *)

Host == <<offers, g_ops, placed, widx, bodies, writer, begun, meddles, accepted>>

\* Faulty: only a rewind is taken for a broken index.
Rewound(ahead) == ahead < 0
OutOfRange(ahead) == ahead < 0 \/ ahead > CmdSlots

\* The write index is read once: what arrives in the drain waits for the next.
DrainBegin ==
  /\ placed /\ consumer.pc = "waiting"
  /\ widx # ridx
  /\ IF OutOfRange(widx - ridx)
     THEN /\ ridx' = widx
          /\ voided' = accepted \ {answers[i].id : i \in DOMAIN answers}
          /\ broken' = FALSE
          /\ UNCHANGED consumer
     ELSE consumer' = [pc |-> "consume", index |-> ridx, write |-> widx] /\ UNCHANGED <<ridx, voided, broken>>
  /\ UNCHANGED answers /\ UNCHANGED Host

\* execute: dispatch, and the record that answers.
Consume ==
  /\ consumer.pc = "consume" /\ consumer.index # consumer.write
  /\ LET command == bodies[consumer.index % CmdSlots] IN
     answers' = Append(answers, [id |-> command.id, op |-> Named(command.op), result |-> Dispatch(command.op)])
  /\ consumer' = [consumer EXCEPT !.index = @ + 1]
  /\ UNCHANGED <<ridx, voided, broken>> /\ UNCHANGED Host

\* All the slots are freed in one store.
DrainEnd ==
  /\ consumer.pc = "consume" /\ consumer.index = consumer.write
  /\ ridx' = consumer.write
  /\ consumer' = NoDrainer
  /\ UNCHANGED <<answers, voided, broken>> /\ UNCHANGED Host

CmdNext ==
  \/ DeclareOp \/ PlacePage
  \/ IssueOp \/ IssueBody \/ IssueIndex \/ HostDies \/ Meddle
  \/ DrainBegin \/ Consume \/ DrainEnd

CmdSpec == CmdInit /\ [][CmdNext]_cmdVars

------------------------------------------------------------------------------
\* The commands to come, oldest first, were nobody to touch the index again.
Waiting ==
  LET from == IF consumer.pc = "consume" THEN consumer.index ELSE ridx
      ahead == widx - ridx
  IN IF ahead < 0 \/ ahead > CmdSlots THEN {} ELSE {bodies[i % CmdSlots].id : i \in from..(widx - 1)}

\* An accepted command is carried out once, in order, with the verdict of its
\* own opcode, or is thrown away because somebody broke the index; one that was
\* thrown away, or never accepted because the host died in the middle of it, is
\* never carried out, whatever index out of range the machine is shown
\* (nova/command.hpp:230: "resynchronised to and nothing stale is executed"); a
\* forged index that is in range is outside Meddle and outside this claim.  That
\* none is missing is claimed while nobody has touched the index.
OnceInOrder ==
  LET done == {answers[i].id : i \in DOMAIN answers} IN
  /\ \A i, j \in DOMAIN answers : i < j => answers[i].id < answers[j].id
  /\ done \subseteq accepted /\ done \intersect voided = {}
  /\ meddles = 0 => accepted = done \union Waiting
  /\ \A i \in DOMAIN answers : answers[i].result = "ok" <=> answers[i].op \in ToSet(g_ops)
=============================================================================
