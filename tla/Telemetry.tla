------------------------------- MODULE Telemetry -------------------------------
(***************************************************************************)
(* The telemetry region: spans of EL2's globals copied word by word under  *)
(* a sequence each, by a budgeted periodic turn on the primary core and by *)
(* one last whole turn on the core that finds the machine empty, while the *)
(* owners of the globals go on writing them and a host reads the region    *)
(* with no lock at all (nova/telemetry.hpp, service/telemetry.cpp).        *)
(* A word is one of two values; a stamp is the number of the turn.         *)
(***************************************************************************)
EXTENDS Integers, Sequences

CONSTANTS
  Spans,         \* the sizes offered, in words: a sequence, in the order of init
  MaxSlots,      \* NOVA_TLM_MAX_SLOTS
  PayloadWords,  \* NOVA_TLM_PAYLOAD_BYTES
  Pad,           \* NOVA_TLM_ALIGN
  Budget,        \* kBudgetBytes
  Builds,        \* the builds considered: in "debug" the byte loop loads twice
  Tails,         \* the words that loop copies
  MaxTurns,      \* bound: turns begun
  MaxChanges     \* bound: writes to the globals

ASSUME TelemetryAssumption ==
  /\ Spans \in Seq(Nat) /\ PayloadWords \in Nat /\ Pad \in Nat \ {0}

VARIABLES
  build,
  memory,      \* the globals: one sequence of words for each span offered
  offered,     \* spans offered so far
  table,       \* the descriptors declared
  used,        \* the payload watermark
  magic,       \* the region is findable
  payload,     \* the words of the region
  cursor,      \* where the next budgeted turn begins
  turn_,       \* the publisher inside, or "none"
  publisher,   \* what each of the two publishers is doing
  reader,      \* what the host is doing
  turns, changes,
  history      \* for each span, the readings its sequence 0, 2, 4.. stands for

tlmVars == <<build, memory, offered, table, used, magic, payload, cursor, turn_, publisher, reader, turns, changes, history>>

Publishers == {"primary", "halting"}
Resting == [pc |-> "idle", stamp |-> 0, slot |-> 0, word |-> 0, start |-> 0, moved |-> FALSE, left |-> 0, spent |-> 0, taken |-> <<>>]
Watching == [pc |-> "idle", slot |-> 0, before |-> 0, out |-> <<>>, stamp |-> 0]

\* The first bytes of a span are what the region already holds: zeros.
TlmInit ==
  /\ build \in Builds
  /\ memory = [s \in DOMAIN Spans |-> [w \in 1..Spans[s] |-> 0]]
  /\ offered = 0
  /\ table = <<>>
  /\ used = 0
  /\ magic = FALSE
  /\ payload = [w \in 1..PayloadWords |-> 0]
  /\ cursor = 1
  /\ turn_ = "none"
  /\ publisher = [p \in Publishers |-> Resting]
  /\ reader = Watching
  /\ turns = 0
  /\ changes = 0
  /\ history = [s \in DOMAIN Spans |-> <<{[words |-> [w \in 1..Spans[s] |-> 0], stamp |-> 0]}>>]

------------------------------------------------------------------------------
(* Boot: the spans are offered one by one, then the region is opened.       *)

\* Rounded up so that the next payload starts where a word copy can.
Padded(n) == ((n + Pad - 1) \div Pad) * Pad

Fits(n) == Len(table) < MaxSlots /\ n > 0 /\ used + Padded(n) <= PayloadWords

Watermark(n) == used + Padded(n)

\* A refused span is counted and left out: no descriptor points at it.
Declare ==
  /\ ~magic /\ offered < Len(Spans)
  /\ offered' = offered + 1
  /\ LET s == offered + 1 IN
     /\ IF Fits(Spans[s])
        THEN /\ table' = Append(table, [source |-> s, seq |-> 0, stamp |-> 0, at |-> used, words |-> Spans[s]])
             /\ used' = Watermark(Spans[s])
        ELSE UNCHANGED <<table, used>>
  /\ UNCHANGED <<build, memory, magic, payload, cursor, turn_, publisher, reader, turns, changes, history>>

Open ==
  /\ ~magic /\ offered = Len(Spans)
  /\ magic' = TRUE
  /\ UNCHANGED <<build, memory, offered, table, used, payload, cursor, turn_, publisher, reader, turns, changes, history>>

------------------------------------------------------------------------------
(* The globals are written by their owners, on any core, at any time.       *)

Change ==
  /\ magic /\ changes < MaxChanges
  /\ \E s \in DOMAIN Spans : \E w \in DOMAIN memory[s] :
       memory' = [memory EXCEPT ![s][w] = 1 - @]
  /\ changes' = changes + 1
  /\ UNCHANGED <<build, offered, table, used, magic, payload, cursor, turn_, publisher, reader, turns, history>>

------------------------------------------------------------------------------
(* A turn.                                                                  *)

Rest == <<build, memory, offered, table, used, magic, payload, cursor, reader, changes, history>>

\* on_tick reads the instant first; the halting core comes once.
Begin(p) ==
  /\ magic /\ table # <<>> /\ turns < MaxTurns
  /\ publisher[p].pc = "idle"
  /\ turns' = turns + 1
  /\ publisher' = [publisher EXCEPT ![p] = [Resting EXCEPT !.pc = "enter", !.stamp = turns + 1]]
  /\ UNCHANGED Rest /\ UNCHANGED turn_

\* publish holds the lock for the turn, and so does publish_all.
Free(p) == turn_ = "none"

Enter(p) ==
  /\ publisher[p].pc = "enter"
  /\ Free(p)
  /\ turn_' = p
  /\ publisher' = [publisher EXCEPT ![p].pc = "slot",
                                    ![p].slot = IF p = "primary" THEN cursor ELSE 1,
                                    ![p].left = Len(table)]
  /\ UNCHANGED Rest /\ UNCHANGED turns

\* Every slot at most once a turn; the primary stops at its budget.
More(p) == publisher[p].left > 0 /\ (p = "primary" => publisher[p].spent < Budget)

\* Faulty: the sequence is left even while the words change.
StillEven(seq) == seq
\* publish_slot: odd first, so that a reader arriving in the copy retries.
Odd(seq) == seq + 1

OpenSlot(p) ==
  /\ publisher[p].pc = "slot" /\ More(p)
  /\ LET d == publisher[p].slot IN
     /\ table' = [table EXCEPT ![d].seq = Odd(@)]
     /\ publisher' = [publisher EXCEPT ![p].pc = "copy", ![p].word = 1, ![p].moved = FALSE, ![p].taken = <<>>,
                                       ![p].start = table[d].seq]
  /\ UNCHANGED <<build, memory, offered, used, magic, payload, cursor, turn_, reader, turns, changes, history>>

\* copy_changed: one load answers "did it move" and is what is stored.  The
\* byte loop, for a tail or a span off the word boundary, names the source
\* twice: nothing orders its owner against it, and a build that does not
\* optimise loads it once to compare and again to store.
Copied(p, seen) ==
  LET d == table[publisher[p].slot]
      w == publisher[p].word
  IN /\ payload' = [payload EXCEPT ![d.at + w] = memory[d.source][w]]
     /\ publisher' = [publisher EXCEPT ![p].word = w + 1,
                                       ![p].pc = IF w = d.words THEN "close" ELSE "copy",
                                       ![p].moved = @ \/ payload[d.at + w] # seen,
                                       ![p].taken = Append(@, memory[d.source][w])]
     /\ UNCHANGED <<build, memory, offered, table, used, magic, cursor, turn_, reader, turns, changes, history>>

InTail(p) == build = "debug" /\ publisher[p].word \in Tails

CopyWord(p) ==
  /\ publisher[p].pc = "copy" /\ ~InTail(p)
  /\ Copied(p, memory[table[publisher[p].slot].source][publisher[p].word])

CompareByte(p) ==
  /\ publisher[p].pc = "copy" /\ InTail(p)
  /\ LET d == table[publisher[p].slot]
         w == publisher[p].word
     IN publisher' = [publisher EXCEPT ![p].pc = "store", ![p].moved = @ \/ payload[d.at + w] # memory[d.source][w]]
  /\ UNCHANGED Rest /\ UNCHANGED <<turn_, turns>>

StoreByte(p) ==
  /\ publisher[p].pc = "store"
  /\ Copied(p, payload[table[publisher[p].slot].at + publisher[p].word])

\* The sequence moves on when the words did, and goes back when not.
Closed(seq, moved) == IF moved THEN seq + 2 ELSE seq

CloseSlot(p) ==
  /\ publisher[p].pc = "close"
  /\ LET me == publisher[p]
         d == table[me.slot]
     IN /\ table' = [table EXCEPT ![me.slot].seq = Closed(me.start, me.moved),
                                  ![me.slot].stamp = IF me.moved THEN me.stamp ELSE @]
        /\ history' = IF me.moved
                      THEN [history EXCEPT ![d.source] = Append(@, {[words |-> me.taken, stamp |-> me.stamp]})]
                      ELSE [history EXCEPT ![d.source][me.start \div 2 + 1] = @ \union {[words |-> me.taken, stamp |-> d.stamp]}]
        /\ publisher' = [publisher EXCEPT ![p].pc = "slot", ![p].slot = (me.slot % Len(table)) + 1,
                                          ![p].left = @ - 1, ![p].spent = @ + d.words]
        /\ cursor' = IF p = "primary" THEN (me.slot % Len(table)) + 1 ELSE cursor
  /\ UNCHANGED <<build, memory, offered, used, magic, payload, turn_, reader, turns, changes>>

\* The primary arms its next turn; the halting core has made its last.
Leave(p) ==
  /\ publisher[p].pc = "slot" /\ ~More(p)
  /\ turn_' = "none"
  /\ publisher' = [publisher EXCEPT ![p] = [Resting EXCEPT !.pc = IF p = "primary" THEN "idle" ELSE "halted"]]
  /\ UNCHANGED Rest /\ UNCHANGED turns

------------------------------------------------------------------------------
(* The host: read_slot, and the reader of the workbench that mirrors it.    *)

Unread == <<build, memory, offered, table, used, magic, payload, cursor, turn_, publisher, turns, changes, history>>

\* An odd sequence is no reading; the caller tries again.
ReadSeq ==
  /\ magic /\ reader.pc = "idle"
  /\ \E i \in DOMAIN table :
       /\ table[i].seq % 2 = 0
       /\ reader' = [Watching EXCEPT !.pc = "bytes", !.slot = i, !.before = table[i].seq]
  /\ UNCHANGED Unread

ReadByte ==
  /\ reader.pc = "bytes"
  /\ LET d == table[reader.slot] IN
     IF Len(reader.out) < d.words
     THEN reader' = [reader EXCEPT !.out = Append(@, payload[d.at + Len(@) + 1])]
     ELSE reader' = [reader EXCEPT !.pc = "check", !.stamp = d.stamp]
  /\ UNCHANGED Unread

\* A sequence that moved in between: not stable, and tried again.
Recheck ==
  /\ reader.pc = "check"
  /\ reader' = IF table[reader.slot].seq = reader.before THEN [reader EXCEPT !.pc = "accepted"] ELSE Watching
  /\ UNCHANGED Unread

Used ==
  /\ reader.pc = "accepted"
  /\ reader' = Watching
  /\ UNCHANGED Unread

Turn(p) == Begin(p) \/ Enter(p) \/ OpenSlot(p) \/ CopyWord(p) \/ CompareByte(p) \/ StoreByte(p) \/ CloseSlot(p) \/ Leave(p)

TlmNext ==
  \/ Declare \/ Open \/ Change
  \/ \E p \in Publishers : Turn(p)
  \/ ReadSeq \/ ReadByte \/ Recheck \/ Used

TlmSpec == TlmInit /\ [][TlmNext]_tlmVars

------------------------------------------------------------------------------
Readings(i, seq) == history[table[i].source][seq \div 2 + 1]

\* "Bytes a reader accepts were all one reading" (nova/telemetry.hpp:9): what
\* the host accepts is, word for word and with its stamp, what one turn of one
\* publisher copied while the sequence stood where the host saw it, whatever
\* the owners of the globals and the other publisher do meanwhile.
ReadingWhole ==
  reader.pc = "accepted" =>
    /\ reader.before \div 2 < Len(history[table[reader.slot].source])
    /\ [words |-> reader.out, stamp |-> reader.stamp] \in Readings(reader.slot, reader.before)

Copying(i) == \E p \in Publishers : publisher[p].pc \in {"copy", "store", "close"} /\ publisher[p].slot = i

\* "A sequence moves exactly when its bytes do" (nova/telemetry.hpp:10): outside
\* a copy every turn that left the sequence where it is copied the words the
\* slot holds, so that a host that has seen a sequence has seen its bytes.
SequenceFollowsBytes ==
  \A i \in DOMAIN table : ~Copying(i) =>
    /\ table[i].seq = 2 * (Len(history[table[i].source]) - 1)
    /\ \A reading \in Readings(i, table[i].seq) : reading.words = [w \in 1..table[i].words |-> payload[table[i].at + w]]

\* A build that loads a byte once, or a byte loop of one word: two words that
\* move without the sequence make a reading of half of each.
LoadsOnce == build = "release"
OneTail   == \A v, w \in Tails : v = w

\* A host is told the truth: it reads whole readings, and in the builds that
\* load each byte once it may skip a slot whose sequence it knows.
HostReadsTruth == (LoadsOnce \/ OneTail => ReadingWhole) /\ (LoadsOnce => SequenceFollowsBytes)
=============================================================================
