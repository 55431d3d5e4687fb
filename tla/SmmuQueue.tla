------------------------------- MODULE SmmuQueue -------------------------------
(***************************************************************************)
(* The pointers of the SMMU's command and event queues                     *)
(* (smmu/queue_model.hpp), moved by EL2 on one side and by the hardware on *)
(* the other (hw_driver.hpp): an index with one wrap bit above it, and in  *)
(* the event queue a flag that says records were lost.  Smmu uses these    *)
(* queues as sequences; here they are shown to be that.                    *)
(***************************************************************************)
EXTENDS Integers, Sequences

CONSTANTS
  QLog2,       \* log2_entries
  MaxCommands, \* bound: commands submitted, their syncs included
  MaxEvents_   \* bound: faults

VARIABLES
  cmdq,      \* the registers: producer, consumer, and the error stop
  cmdEntries,
  driver,    \* submit(): where it is, and what it staged
  commandsSent, commandsDone,
  evtq,      \* producer and consumer with their overflow bits
  evtEntries,
  drainer,   \* drain_events(): what it read and has reached
  eventsSent, eventsSeen,
  unreported \* a record was lost, and no drain has said so

smqVars == <<cmdq, cmdEntries, driver, commandsSent, commandsDone, evtq, evtEntries, drainer, eventsSent, eventsSeen, unreported>>

Entries == 2^QLog2
PointerSpace == 2 * Entries

ASSUME SmmuQueueAssumption == Entries \in Nat \ {0}

SmqInit ==
  /\ cmdq = [prod |-> 0, cons |-> 0, error |-> FALSE]
  /\ cmdEntries = [i \in 0..(Entries - 1) |-> 0]
  /\ driver = [pc |-> "idle", staged |-> 0, put |-> 0, size |-> 0]
  /\ commandsSent = 0 /\ commandsDone = 0
  /\ evtq = [prod |-> 0, cons |-> 0, prodOvf |-> 0, consOvf |-> 0]
  /\ evtEntries = [i \in 0..(Entries - 1) |-> 0]
  /\ drainer = [pc |-> "idle", prod |-> 0, cons |-> 0, ovf |-> 0]
  /\ eventsSent = 0 /\ eventsSeen = 0
  /\ unreported = FALSE

------------------------------------------------------------------------------
(* QueueState                                                               *)

Step(p) == (p + 1) % PointerSpace

UsedOf(prod, cons) == (prod - cons) % PointerSpace

\* Faulty: full one entry too late.
FullTooLate(prod, cons) == UsedOf(prod, cons) > Entries
FullAt(prod, cons) == UsedOf(prod, cons) = Entries

------------------------------------------------------------------------------
(* CommandQueue::submit and the device behind it                            *)

Events == <<evtq, evtEntries, drainer, eventsSent, eventsSeen, unreported>>

Idle == cmdq.cons = cmdq.prod

\* A batch and its sync that do not fit are refused; so is any batch while the
\* queue is stopped.  Staging starts once the device has taken the last batch.
Submit ==
  /\ driver.pc = "idle" /\ ~cmdq.error /\ Idle
  /\ \E n \in 1..Entries :
       /\ commandsSent + n <= MaxCommands
       /\ driver' = [pc |-> "stage", staged |-> cmdq.prod, put |-> 0, size |-> n]
  /\ UNCHANGED <<cmdq, cmdEntries, commandsSent, commandsDone>> /\ UNCHANGED Events

Stage ==
  /\ driver.pc = "stage" /\ driver.put < driver.size
  /\ cmdEntries' = [cmdEntries EXCEPT ![driver.staged % Entries] = commandsSent + driver.put + 1]
  /\ driver' = IF FullAt(driver.staged, cmdq.cons) THEN [driver EXCEPT !.pc = "idle"]
               ELSE [driver EXCEPT !.staged = Step(@), !.put = @ + 1]
  /\ UNCHANGED <<cmdq, commandsSent, commandsDone>> /\ UNCHANGED Events

\* The whole batch is published at once, in CMDQ_PROD.
PublishProd ==
  /\ driver.pc = "stage" /\ driver.put = driver.size
  /\ cmdq' = [cmdq EXCEPT !.prod = driver.staged]
  /\ commandsSent' = commandsSent + driver.size
  /\ driver' = [driver EXCEPT !.pc = "sync"]
  /\ UNCHANGED <<cmdEntries, commandsDone>> /\ UNCHANGED Events

\* wait_idle: the sync is through, or the error stop or the budget ends it.
SyncEnds ==
  /\ driver.pc = "sync"
  /\ driver' = [driver EXCEPT !.pc = "idle"]
  /\ UNCHANGED <<cmdq, cmdEntries, commandsSent, commandsDone>> /\ UNCHANGED Events

DeviceTakes ==
  /\ ~Idle /\ ~cmdq.error
  /\ commandsDone' = cmdEntries[cmdq.cons % Entries]
  /\ cmdq' = [cmdq EXCEPT !.cons = Step(@)]
  /\ UNCHANGED <<cmdEntries, driver, commandsSent>> /\ UNCHANGED Events

DeviceStops ==
  /\ ~Idle /\ ~cmdq.error
  /\ cmdq' = [cmdq EXCEPT !.error = TRUE]
  /\ UNCHANGED <<cmdEntries, driver, commandsSent, commandsDone>> /\ UNCHANGED Events

------------------------------------------------------------------------------
(* The device records faults, drain_events walks them                       *)

Commands == <<cmdq, cmdEntries, driver, commandsSent, commandsDone>>

Pending(e) == e.prodOvf # e.consOvf

MarkOverflow(e) == IF Pending(e) THEN e ELSE [e EXCEPT !.prodOvf = 1 - @]

Record ==
  /\ eventsSent < MaxEvents_ /\ ~FullAt(evtq.prod, evtq.cons)
  /\ evtEntries' = [evtEntries EXCEPT ![evtq.prod % Entries] = eventsSent + 1]
  /\ evtq' = [evtq EXCEPT !.prod = Step(@)]
  /\ eventsSent' = eventsSent + 1
  /\ UNCHANGED <<drainer, eventsSeen, unreported>> /\ UNCHANGED Commands

Lose ==
  /\ FullAt(evtq.prod, evtq.cons)
  /\ evtq' = MarkOverflow(evtq)
  /\ unreported' = TRUE
  /\ UNCHANGED <<evtEntries, drainer, eventsSent, eventsSeen>> /\ UNCHANGED Commands

\* EVTQ_PROD is read once.
DrainEvents ==
  /\ drainer.pc = "idle"
  /\ drainer' = [pc |-> "walk", prod |-> evtq.prod, cons |-> evtq.cons, ovf |-> evtq.prodOvf]
  /\ UNCHANGED <<evtq, evtEntries, eventsSent, eventsSeen, unreported>> /\ UNCHANGED Commands

OnEvent ==
  /\ drainer.pc = "walk" /\ UsedOf(drainer.prod, drainer.cons) > 0
  /\ eventsSeen' = evtEntries[drainer.cons % Entries]
  /\ drainer' = [drainer EXCEPT !.cons = Step(@)]
  /\ UNCHANGED <<evtq, evtEntries, eventsSent, unreported>> /\ UNCHANGED Commands

\* The slots are freed, and a loss the walk knows of acknowledged, in one
\* store to EVTQ_CONS.
Release ==
  /\ drainer.pc = "walk" /\ UsedOf(drainer.prod, drainer.cons) = 0
  /\ evtq' = [evtq EXCEPT !.cons = drainer.cons, !.consOvf = drainer.ovf]
  /\ unreported' = (unreported /\ drainer.ovf = evtq.consOvf)
  /\ drainer' = [drainer EXCEPT !.pc = "idle"]
  /\ UNCHANGED <<evtEntries, eventsSent, eventsSeen>> /\ UNCHANGED Commands

SmqNext ==
  \/ Submit \/ Stage \/ PublishProd \/ SyncEnds \/ DeviceTakes \/ DeviceStops
  \/ Record \/ Lose \/ DrainEvents \/ OnEvent \/ Release

SmqSpec == SmqInit /\ [][SmqNext]_smqVars

------------------------------------------------------------------------------
Between(entries, cons, prod) == [i \in 1..UsedOf(prod, cons) |-> entries[(cons + i - 1) % Entries]]

CommandFifo == INSTANCE Fifo WITH
  Capacity <- Entries, queue <- Between(cmdEntries, cmdq.cons, cmdq.prod), sent <- commandsSent, got <- commandsDone

EventFifo == INSTANCE Fifo WITH
  Capacity <- Entries, sent <- eventsSent, got <- eventsSeen,
  queue <- Between(evtEntries, IF drainer.pc = "walk" THEN drainer.cons ELSE evtq.cons, evtq.prod)

\* A fault record that found the queue full is never lost in silence: until a
\* drain reports it the overflow flag is up, however many more are lost and
\* however the loss falls into a drain (queue_model.hpp:67-79).
LossFlagged == unreported => Pending(evtq)

\* Through every wrap of their pointers the two queues are bounded channels:
\* the device carries out the commands in the order of their batches, each
\* once, EL2 sees every recorded fault once and in order, and a lost record is
\* flagged until it is reported (queue_model.hpp:45-90, hw_driver.hpp:100, 226).
QueuesAreFifos == CommandFifo!Spec /\ EventFifo!Spec /\ []LossFlagged
=============================================================================
