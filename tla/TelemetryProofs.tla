---------------------------- MODULE TelemetryProofs ----------------------------
(***************************************************************************)
(* What a host accepts from the telemetry region, for every list of spans, *)
(* every size of the region and any number of turns and of writes.         *)
(***************************************************************************)
EXTENDS Telemetry, SequenceTheorems, TLAPS

-----------------------------------------------------------------------------
(* Types.                                                                  *)

Words      == {0, 1}
Copies     == {"copy", "store", "close"}
Turns      == {"slot"} \cup Copies
Reading    == [words : Seq(Words), stamp : Nat]
Descriptor == [source : DOMAIN Spans, seq : Nat, stamp : Nat, at : Nat, words : Nat]
Publishing == [pc : {"idle", "enter", "halted"} \cup Turns, stamp : Nat, slot : Nat, word : Nat, start : Nat,
               moved : BOOLEAN, left : Int, spent : Int, taken : Seq(Words)]
Reader     == [pc : {"idle", "bytes", "check", "accepted"}, slot : Nat, before : Nat, out : Seq(Words), stamp : Nat]

TlmTypeOK ==
  /\ memory \in [DOMAIN Spans -> Seq(Words)]
  /\ \A s \in DOMAIN Spans : Len(memory[s]) = Spans[s]
  /\ offered \in 0..Len(Spans) /\ used \in 0..PayloadWords /\ magic \in BOOLEAN
  /\ table \in Seq(Descriptor)
  /\ payload \in [1..PayloadWords -> Words]
  /\ cursor \in Nat \ {0} /\ turns \in Nat
  /\ turn_ \in Publishers \cup {"none"}
  /\ publisher \in [Publishers -> Publishing]
  /\ reader \in Reader
  /\ history \in [DOMAIN Spans -> Seq(SUBSET Reading)]

-----------------------------------------------------------------------------
(* The region and who is inside.                                           *)

\* Each descriptor has a span and a stretch of the payload to itself.
Laid ==
  /\ \A i \in DOMAIN table :
       /\ table[i].source <= offered /\ table[i].words = Spans[table[i].source]
       /\ table[i].words > 0 /\ table[i].at + table[i].words <= used
  /\ \A i, j \in DOMAIN table : i # j =>
       /\ table[i].source # table[j].source
       /\ table[i].at + table[i].words <= table[j].at \/ table[j].at + table[j].words <= table[i].at

\* Nobody copies and nobody reads until the region is open.
Shut == ~magic =>
  /\ publisher = [p \in Publishers |-> Resting] /\ reader = Watching /\ cursor = 1 /\ turn_ = "none"
  /\ payload = [w \in 1..PayloadWords |-> 0]
  /\ \A i \in DOMAIN table : table[i].seq = 0 /\ table[i].stamp = 0
  /\ history = [s \in DOMAIN Spans |-> <<{[words |-> [w \in 1..Spans[s] |-> 0], stamp |-> 0]}>>]

\* Who is inside a turn holds the lock, and is at a slot of the table.
LockKnown ==
  /\ \A p \in Publishers :
       /\ publisher[p].pc \in Turns <=> turn_ = p
       /\ publisher[p].pc = "enter" => table # <<>>
       /\ publisher[p].pc \in Turns => publisher[p].slot \in DOMAIN table
  /\ table # <<>> => cursor \in DOMAIN table

-----------------------------------------------------------------------------
(* What a copy and a reader know.                                          *)

Active(p, i) == publisher[p].pc \in Copies /\ publisher[p].slot = i
Story(i)     == history[table[i].source]
Latest(i)    == Story(i)[Len(Story(i))]
Now(i, w)    == payload[table[i].at + w]
\* A word that may change without the copy noticing.
Loose(w)     == build = "debug" /\ w \in Tails

\* The sequence is odd, and the words passed are the ones taken.
CopyAt(p) ==
  LET me == publisher[p]
      i  == me.slot
  IN /\ me.start = 2 * (Len(Story(i)) - 1) /\ table[i].seq = me.start + 1
     /\ me.word = Len(me.taken) + 1 /\ me.word <= table[i].words + 1
     /\ me.word <= table[i].words <=> me.pc # "close"
     /\ me.pc = "store" => Loose(me.word)
     /\ \A w \in 1..Len(me.taken) : Now(i, w) = me.taken[w]
CopyKnown == \A p \in Publishers : publisher[p].pc \in Copies => CopyAt(p)

\* While nothing has moved, the payload is what was read last, but for what
\* may change unnoticed.
Unmoved(i)  == \A p \in Publishers : Active(p, i) => ~publisher[p].moved
Ahead(i, w) == \A p \in Publishers : Active(p, i) => w > Len(publisher[p].taken)
StoryAt(i) ==
  /\ Story(i) # <<>> /\ Latest(i) # {}
  /\ \A r \in Latest(i) : Len(r.words) = table[i].words /\ r.stamp = table[i].stamp
  /\ (\A p \in Publishers : ~Active(p, i)) => table[i].seq = 2 * (Len(Story(i)) - 1)
  /\ Unmoved(i) => \A w \in 1..table[i].words :
       /\ ~Loose(w) => \A r \in Latest(i) : r.words[w] = Now(i, w)
       /\ Ahead(i, w) => \E r \in Latest(i) : r.words[w] = Now(i, w)
StoryKnown == \A i \in DOMAIN table : StoryAt(i)

\* A word a reader has is one of the latest reading, or of the one under way.
Known(i, w, x) ==
  \/ \E r \in Latest(i) : r.words[w] = x
  \/ \E p \in Publishers : Active(p, i) /\ w <= Len(publisher[p].taken) /\ publisher[p].taken[w] = x

\* The reader's sequence may still stand when it looks again.
Following == /\ reader.pc \in {"bytes", "check"} /\ Unmoved(reader.slot)
             /\ reader.before = 2 * (Len(Story(reader.slot)) - 1)
ReaderAt(i) ==
  /\ i \in DOMAIN table
  /\ \E m \in 0..(Len(Story(i)) - 1) : reader.before = 2 * m
  /\ Len(reader.out) <= table[i].words /\ (reader.pc # "bytes" => Len(reader.out) = table[i].words)
  /\ Following =>
       /\ \A w \in 1..Len(reader.out) :
            IF Loose(w) THEN Known(i, w, reader.out[w]) ELSE reader.out[w] = Now(i, w)
       /\ reader.pc = "check" => reader.stamp = table[i].stamp
ReaderKnown == reader.pc # "idle" => ReaderAt(reader.slot)

TlmInv ==
  /\ TlmTypeOK /\ Laid /\ Shut /\ LockKnown
  /\ CopyKnown /\ StoryKnown /\ ReaderKnown
  /\ LoadsOnce \/ OneTail => ReadingWhole

-----------------------------------------------------------------------------
(* Facts the steps share.                                                  *)

LEMMA LayoutFits ==
  ASSUME NEW n \in Nat
  PROVE  Padded(n) \in Nat /\ n <= Padded(n)
<1> DEFINE k == (n + Pad - 1) \div Pad
<1>1. Pad \in Nat \ {0}
  BY TelemetryAssumption DEF TelemetryAssumption
<1>2. k \in Nat /\ n + Pad - 1 < Pad * (k + 1)
  BY <1>1
<1> HIDE DEF k
<1>3. Pad * (k + 1) = k * Pad + Pad /\ k * Pad \in Nat
  BY <1>1, <1>2
<1>4. n <= k * Pad
  BY <1>1, <1>2, <1>3
<1> QED
  BY <1>3, <1>4 DEF Padded, k

\* The types of what a copy and a reader use.
LEMMA TypesOf ==
  ASSUME TlmTypeOK, Laid, NEW i \in DOMAIN table
  PROVE  /\ table[i] \in Descriptor /\ Story(i) \in Seq(SUBSET Reading)
         /\ table[i].source \in DOMAIN Spans /\ memory[table[i].source] \in Seq(Words)
         /\ Len(memory[table[i].source]) = table[i].words
         /\ \A w \in 1..table[i].words : Now(i, w) \in Words /\ table[i].at + w \in 1..PayloadWords
<1>1. table[i] \in Descriptor
  BY DEF TlmTypeOK
<1>2. table[i].at + table[i].words <= used /\ used \in 0..PayloadWords
  BY DEF Laid, TlmTypeOK
<1>3. PayloadWords \in Nat
  BY TelemetryAssumption DEF TelemetryAssumption
<1>4. \A w \in 1..table[i].words : table[i].at + w \in 1..PayloadWords
  BY <1>1, <1>2, <1>3 DEF Descriptor
<1>5. \A w \in 1..table[i].words : Now(i, w) \in Words
  BY <1>4 DEF TlmTypeOK, Now
<1>6. table[i].source \in DOMAIN Spans
  BY <1>1 DEF Descriptor
<1> QED
  BY <1>1, <1>4, <1>5, <1>6 DEF TlmTypeOK, Story, Laid

\* One publisher at most is inside.
LEMMA AloneInside ==
  ASSUME TlmTypeOK, LockKnown, Shut, NEW p \in Publishers, publisher[p].pc \in Turns
  PROVE  /\ \A q \in Publishers \ {p} : publisher[q].pc \notin Turns /\ \A i : ~Active(q, i)
         /\ publisher[p].slot \in DOMAIN table /\ magic
<1>1. magic
  BY DEF Shut, Resting, Turns, Copies
<1>2. turn_ = p /\ publisher[p].slot \in DOMAIN table
  BY DEF LockKnown
<1>3. \A q \in Publishers \ {p} : publisher[q].pc \notin Turns
  BY <1>2 DEF LockKnown
<1> QED
  BY <1>1, <1>2, <1>3 DEF Active, Turns

\* The latest reading is a set of readings.
LEMMA LatestIs ==
  ASSUME TlmTypeOK, Laid, StoryKnown, NEW i \in DOMAIN table
  PROVE  Latest(i) \in SUBSET Reading /\ Len(Story(i)) \in Nat \ {0}
<1>1. Story(i) \in Seq(SUBSET Reading) /\ Story(i) # <<>>
  BY TypesOf DEF StoryKnown, StoryAt
<1>2. Len(Story(i)) \in Nat \ {0} /\ Len(Story(i)) \in DOMAIN Story(i)
  BY <1>1
<1> QED
  BY <1>1, <1>2 DEF Latest

\* A region that is shut is read and copied by nobody.
LEMMA ShutKnown == TlmTypeOK /\ Laid /\ Shut /\ ~magic => CopyKnown /\ StoryKnown /\ ReaderKnown /\ ReadingWhole
<1> SUFFICES ASSUME TlmTypeOK, Laid, Shut, ~magic PROVE CopyKnown /\ StoryKnown /\ ReaderKnown /\ ReadingWhole
  OBVIOUS
<1>1. publisher = [p \in Publishers |-> Resting] /\ reader = Watching
  BY DEF Shut
<1>2. \A p \in Publishers : publisher[p].pc = "idle"
  BY <1>1 DEF Resting
<1>3. StoryKnown
  <2> SUFFICES ASSUME NEW i \in DOMAIN table PROVE StoryAt(i)
    BY DEF StoryKnown
  <2> DEFINE n == Spans[table[i].source]
             r == [words |-> [w \in 1..n |-> 0], stamp |-> 0]
  <2>1. table[i].source \in DOMAIN Spans /\ n = table[i].words /\ n \in Nat /\ n > 0
    BY TypesOf DEF Laid, Descriptor
  <2>2. Story(i) = <<{r}>>
    BY <2>1 DEF Shut, Story
  <2>3. Latest(i) = {r} /\ Len(Story(i)) = 1 /\ Story(i) # <<>>
    BY <2>2 DEF Latest
  <2>4. Len(r.words) = n /\ r.stamp = 0 /\ \A w \in 1..n : r.words[w] = 0
    BY <2>1
  <2>5. \A w \in 1..n : Now(i, w) = 0
    BY <2>1, TypesOf DEF Shut, Now
  <2>6. table[i].seq = 0 /\ table[i].stamp = 0
    BY DEF Shut
  <2> HIDE DEF r, n
  <2>7. table[i].seq = 2 * (Len(Story(i)) - 1)
    BY <2>3, <2>6
  <2> QED
    BY <2>1, <2>3, <2>4, <2>5, <2>6, <2>7 DEF StoryAt
<1> QED
  BY <1>1, <1>2, <1>3 DEF CopyKnown, ReaderKnown, ReaderAt, ReadingWhole, Watching, Copies

-----------------------------------------------------------------------------
(* The initial state.                                                      *)

LEMMA InitKnown == TlmInit => TlmInv
<1> SUFFICES ASSUME TlmInit PROVE TlmInv
  OBVIOUS
<1> USE DEF TlmInit
<1>1. \A n \in Nat : [w \in 1..n |-> 0] \in Seq(Words) /\ Len([w \in 1..n |-> 0]) = n
  BY DEF Words
<1>2. Spans \in Seq(Nat) /\ PayloadWords \in Nat /\ \A s \in DOMAIN Spans : Spans[s] \in Nat
  BY TelemetryAssumption DEF TelemetryAssumption
<1>3. Resting \in Publishing /\ Watching \in Reader
  BY DEF Resting, Publishing, Watching, Reader, Turns, Copies
<1>4. history \in [DOMAIN Spans -> Seq(SUBSET Reading)]
  <2>1. ASSUME NEW s \in DOMAIN Spans PROVE history[s] \in Seq(SUBSET Reading)
    <3>1. [words |-> [w \in 1..Spans[s] |-> 0], stamp |-> 0] \in Reading
      BY <1>1, <1>2 DEF Reading
    <3>2. history[s] = <<{[words |-> [w \in 1..Spans[s] |-> 0], stamp |-> 0]}>>
      OBVIOUS
    <3> QED
      BY <3>1, <3>2
  <2> QED
    BY <2>1
<1>5. TlmTypeOK
  <2>1. memory \in [DOMAIN Spans -> Seq(Words)] /\ \A s \in DOMAIN Spans : Len(memory[s]) = Spans[s]
    BY <1>1, <1>2
  <2>2. payload \in [1..PayloadWords -> Words] /\ table \in Seq(Descriptor)
    BY DEF Words
  <2>6. offered = 0 /\ used = 0 /\ magic = FALSE /\ cursor = 1
    OBVIOUS
  <2>7. Len(Spans) \in Nat
    BY <1>2
  <2>4. turns \in Nat /\ turn_ \in Publishers \cup {"none"} /\ reader \in Reader
    BY <1>3
  <2>5. publisher \in [Publishers -> Publishing]
    BY <1>3
  <2> HIDE DEF TlmInit
  <2>8. magic \in BOOLEAN
    BY <2>6
  <2>3. offered \in 0..Len(Spans) /\ used \in 0..PayloadWords /\ cursor \in Nat \ {0}
    BY <1>2, <2>6, <2>7
  <2> QED
    BY <1>4, <2>1, <2>2, <2>3, <2>4, <2>5, <2>8 DEF TlmTypeOK
<1>6. Laid /\ Shut /\ LockKnown /\ ~magic
  BY DEF Laid, Shut, LockKnown, Resting, Watching, Turns, Copies, Publishers
<1> QED
  BY <1>5, <1>6, ShutKnown DEF TlmInv

-----------------------------------------------------------------------------
(* A step after which the copies and the readings stand as they stood.     *)

LEMMA CalmKnown ==
  ASSUME TlmInv, TlmTypeOK', LockKnown', CopyKnown', magic',
         UNCHANGED <<build, offered, table, used, payload, reader, history>>,
         \A p \in Publishers :
           /\ publisher'[p].pc \in Copies <=> publisher[p].pc \in Copies
           /\ publisher[p].pc \in Copies =>
                /\ publisher'[p].slot = publisher[p].slot /\ publisher'[p].taken = publisher[p].taken
                /\ publisher[p].moved => publisher'[p].moved
  PROVE  TlmInv'
<1>1. Laid' /\ Shut'
  BY DEF TlmInv, Laid, Shut
<1>2. \A i : \A p \in Publishers : Active(p, i)' <=> Active(p, i)
  BY DEF Active
<1>3. \A i : Story(i)' = Story(i) /\ Latest(i)' = Latest(i) /\ Readings(i, reader.before)' = Readings(i, reader.before)
  BY DEF Story, Latest, Readings
<1>4. \A i, w : Now(i, w)' = Now(i, w) /\ (Loose(w)' <=> Loose(w))
  BY DEF Now, Loose
<1>5. \A i : Unmoved(i)' => Unmoved(i)
  BY <1>2 DEF Unmoved, Active
<1>6. \A i, w : Ahead(i, w)' => Ahead(i, w)
  BY <1>2 DEF Ahead, Active
<1>7. StoryKnown'
  <2> SUFFICES ASSUME NEW i \in DOMAIN table PROVE StoryAt(i)'
    BY DEF StoryKnown
  <2>1. StoryAt(i)
    BY DEF TlmInv, StoryKnown
  <2>2. table[i]' = table[i]
    OBVIOUS
  <2> QED
    BY <1>2, <1>3, <1>4, <1>5, <1>6, <2>1, <2>2 DEF StoryAt
<1>8. \A i, w, x : Known(i, w, x) => Known(i, w, x)'
  BY <1>2, <1>3 DEF Known, Active
<1>9. ReaderKnown'
  <2> SUFFICES ASSUME reader.pc # "idle" PROVE ReaderKnown'
    BY DEF ReaderKnown, ReaderAt
  <2> DEFINE i == reader.slot
  <2>1. Following' => Following
    BY <1>3, <1>5 DEF Following
  <2>2. ReaderKnown
    BY DEF TlmInv
  <2>3. i' = i /\ table[i]' = table[i] /\ reader' = reader /\ DOMAIN table' = DOMAIN table
    OBVIOUS
  <2> QED
    BY <1>3, <1>4, <1>8, <2>1, <2>2, <2>3 DEF ReaderKnown, ReaderAt
<1>10. ReadingWhole => ReadingWhole'
  BY <1>3 DEF ReadingWhole
<1> QED
  BY <1>1, <1>7, <1>9, <1>10 DEF TlmInv, LoadsOnce, OneTail

-----------------------------------------------------------------------------
(* Boot.                                                                   *)

LEMMA DeclareKnown ==
  ASSUME TlmInv, Declare
  PROVE  TlmInv'
<1> DEFINE s == offered + 1
           d == [source |-> s, seq |-> 0, stamp |-> 0, at |-> used, words |-> Spans[s]]
<1>1. s \in DOMAIN Spans /\ Spans[s] \in Nat /\ offered \in Nat /\ Len(Spans) \in Nat
  BY TelemetryAssumption DEF Declare, TelemetryAssumption, TlmInv, TlmTypeOK
<1>2. ~magic /\ Shut
  BY DEF Declare, TlmInv
<1>3. UNCHANGED <<build, memory, magic, payload, cursor, turn_, publisher, reader, turns, changes, history>>
  BY DEF Declare
<1>4. publisher = [p \in Publishers |-> Resting] /\ reader = Watching /\ turn_ = "none" /\ cursor = 1
  BY <1>2 DEF Shut
<1>7. TlmTypeOK' /\ Laid' /\ Shut' /\ LockKnown' => TlmInv'
  <2>1. (TlmTypeOK /\ Laid /\ Shut /\ ~magic => CopyKnown /\ StoryKnown /\ ReaderKnown /\ ReadingWhole)'
    BY ShutKnown, PTL
  <2> QED
    BY <1>2, <1>3, <2>1 DEF TlmInv
<1>5. CASE ~Fits(Spans[s])
  <2>1. table' = table /\ used' = used /\ offered' = s
    BY <1>5 DEF Declare
  <2>2. TlmTypeOK'
    BY <1>1, <1>3, <2>1 DEF TlmInv, TlmTypeOK
  <2>3. Laid' /\ Shut' /\ LockKnown'
    <3>1. \A i \in DOMAIN table : table[i].source <= offered => table[i].source <= s
      <4>1. \A i \in DOMAIN table : table[i] \in Descriptor
        BY DEF TlmInv, TlmTypeOK
      <4>2. DOMAIN Spans = 1..Len(Spans) /\ Len(Spans) \in Nat
        BY TelemetryAssumption DEF TelemetryAssumption
      <4> QED
        BY <1>1, <4>1, <4>2 DEF Descriptor
    <3>2. Laid'
      BY <2>1, <3>1 DEF TlmInv, Laid
    <3> QED
      BY <1>3, <2>1, <3>2 DEF TlmInv, Shut, LockKnown
  <2> QED
    BY <1>7, <2>2, <2>3
<1>6. CASE Fits(Spans[s])
  <2>1. table' = Append(table, d) /\ used' = used + Padded(Spans[s]) /\ offered' = s
    BY <1>6 DEF Declare, Watermark
  <2>2. used + Padded(Spans[s]) <= PayloadWords /\ Spans[s] > 0
    BY <1>6 DEF Fits
  <2>3. Padded(Spans[s]) \in Nat /\ Spans[s] <= Padded(Spans[s]) /\ used \in Nat /\ PayloadWords \in Nat
    <3>1. PayloadWords \in Nat /\ used \in 0..PayloadWords
      BY TelemetryAssumption DEF TelemetryAssumption, TlmInv, TlmTypeOK
    <3>2. Padded(Spans[s]) \in Nat /\ Spans[s] <= Padded(Spans[s])
      BY <1>1, LayoutFits
    <3> QED
      BY <3>1, <3>2
  <2>4. d \in Descriptor /\ table \in Seq(Descriptor)
    BY <1>1, <2>3 DEF Descriptor, TlmInv, TlmTypeOK
  <2> HIDE DEF d
  <2>5. /\ table' \in Seq(Descriptor) /\ Len(table') = Len(table) + 1 /\ Len(table) \in Nat
        /\ DOMAIN table' = 1..(Len(table) + 1) /\ DOMAIN table = 1..Len(table)
        /\ table'[Len(table) + 1] = d /\ \A i \in 1..Len(table) : table'[i] = table[i]
    BY <2>1, <2>4
  <2>6. TlmTypeOK'
    <3>1. offered' \in 0..Len(Spans) /\ used' \in 0..PayloadWords
      BY <1>1, <2>1, <2>2, <2>3
    <3> QED
      BY <1>3, <2>5, <3>1 DEF TlmInv, TlmTypeOK
  <2>7. Laid'
    <3>1. \A i \in 1..Len(table) :
            /\ table[i].source < s /\ table[i].at + table[i].words <= used
            /\ table[i].at \in Nat /\ table[i].words \in Nat /\ table[i].source \in Nat
      <4>1. \A i \in 1..Len(table) : table[i] \in Descriptor
        BY <2>4, <2>5
      <4>2. DOMAIN Spans = 1..Len(Spans) /\ Len(Spans) \in Nat
        BY TelemetryAssumption DEF TelemetryAssumption
      <4>3. \A i \in 1..Len(table) : table[i].source <= offered /\ table[i].at + table[i].words <= used
        BY <2>5 DEF TlmInv, Laid
      <4> QED
        BY <1>1, <4>1, <4>2, <4>3 DEF Descriptor
    <3>2. d.source = s /\ d.at = used /\ d.words = Spans[s]
      BY DEF d
    <3>3. ASSUME NEW i \in DOMAIN table'
          PROVE  /\ table'[i].source <= offered' /\ table'[i].words = Spans[table'[i].source]
                 /\ table'[i].words > 0 /\ table'[i].at + table'[i].words <= used'
      <4>1. CASE i = Len(table) + 1
        BY <1>1, <2>1, <2>2, <2>3, <2>5, <3>2, <4>1
      <4>2. CASE i \in 1..Len(table)
        <5>1. table[i].words = Spans[table[i].source] /\ table[i].words > 0
          BY <2>5, <4>2 DEF TlmInv, Laid
        <5> QED
          BY <1>1, <2>1, <2>3, <2>5, <3>1, <4>2, <5>1
      <4> QED
        BY <2>5, <4>1, <4>2
    <3>4. ASSUME NEW i \in DOMAIN table', NEW j \in DOMAIN table', i # j
          PROVE  /\ table'[i].source # table'[j].source
                 /\ table'[i].at + table'[i].words <= table'[j].at \/ table'[j].at + table'[j].words <= table'[i].at
      <4>1. CASE i \in 1..Len(table) /\ j \in 1..Len(table)
        BY <2>5, <3>4, <4>1 DEF TlmInv, Laid
      <4>2. CASE i = Len(table) + 1 /\ j \in 1..Len(table)
        BY <1>1, <2>5, <3>1, <3>2, <4>2
      <4>3. CASE j = Len(table) + 1 /\ i \in 1..Len(table)
        BY <1>1, <2>5, <3>1, <3>2, <4>3
      <4> QED
        BY <2>5, <3>4, <4>1, <4>2, <4>3
    <3> QED
      BY <3>3, <3>4 DEF Laid
  <2>8. \A i \in DOMAIN table' : table'[i].seq = 0 /\ table'[i].stamp = 0
    BY <1>2, <2>5 DEF Shut, d
  <2>9. Shut' /\ LockKnown'
    <3>1. LockKnown'
      BY <1>3, <1>4, <2>5 DEF LockKnown, Resting, Turns, Copies, Publishers
    <3> QED
      BY <1>2, <1>3, <2>8, <3>1 DEF Shut
  <2> QED
    BY <1>7, <2>6, <2>7, <2>9
<1> QED
  BY <1>5, <1>6

\* What stands of a copy whose slot, region and story stand.
LEMMA CopyStands ==
  ASSUME NEW q \in Publishers, CopyAt(q), publisher'[q] = publisher[q], UNCHANGED <<build, table, payload, history>>
  PROVE  CopyAt(q)'
BY DEF CopyAt, Story, Now, Loose

LEMMA OpenKnown ==
  ASSUME TlmInv, Open
  PROVE  TlmInv'
<1> USE DEF Open
<1>1. TlmTypeOK'
  BY DEF TlmInv, TlmTypeOK
<1>2. LockKnown' /\ CopyKnown'
  BY CopyStands DEF TlmInv, LockKnown, CopyKnown
<1> QED
  BY <1>1, <1>2, CalmKnown

LEMMA ChangeKnown ==
  ASSUME TlmInv, Change
  PROVE  TlmInv'
<1>1. UNCHANGED <<build, offered, table, used, magic, payload, cursor, turn_, publisher, reader, turns, history>> /\ magic
  BY DEF Change
<1>2. PICK s \in DOMAIN Spans : \E w \in DOMAIN memory[s] : memory' = [memory EXCEPT ![s][w] = 1 - @]
  BY DEF Change
<1>3. PICK w \in DOMAIN memory[s] : memory' = [memory EXCEPT ![s][w] = 1 - @]
  BY <1>2
<1>4. memory \in [DOMAIN Spans -> Seq(Words)] /\ \A x \in DOMAIN Spans : Len(memory[x]) = Spans[x]
  BY DEF TlmInv, TlmTypeOK
<1>5. /\ memory' \in [DOMAIN Spans -> Seq(Words)] /\ \A x \in DOMAIN Spans : Len(memory'[x]) = Spans[x]
  <2>1. memory[s] \in Seq(Words) /\ memory[s][w] \in Words
    BY <1>4
  <2>2. 1 - memory[s][w] \in Words
    BY <2>1 DEF Words
  <2>3. [memory[s] EXCEPT ![w] = 1 - @] \in Seq(Words) /\ Len([memory[s] EXCEPT ![w] = 1 - @]) = Len(memory[s])
    BY <2>1, <2>2
  <2>4. memory' = [memory EXCEPT ![s] = [memory[s] EXCEPT ![w] = 1 - @]]
    BY <1>3, <1>4
  <2> QED
    BY <1>4, <2>3, <2>4
<1>6. TlmTypeOK'
  BY <1>1, <1>5 DEF TlmInv, TlmTypeOK
<1>7. LockKnown' /\ CopyKnown'
  BY <1>1, CopyStands DEF TlmInv, LockKnown, CopyKnown
<1> QED
  BY <1>1, <1>6, <1>7, CalmKnown

-----------------------------------------------------------------------------
(* A turn, but for its copies.                                             *)

\* Nobody copies before it and after it.
LEMMA OutsideKnown ==
  ASSUME TlmInv, TlmTypeOK', LockKnown', magic, NEW p \in Publishers,
         UNCHANGED <<build, offered, table, used, magic, payload, reader, history>>,
         publisher[p].pc \notin Copies, publisher'[p].pc \notin Copies,
         \A q \in Publishers \ {p} : publisher'[q] = publisher[q]
  PROVE  TlmInv'
<1>1. \A q \in Publishers : publisher'[q].pc \in Copies \/ publisher[q].pc \in Copies => publisher'[q] = publisher[q]
  OBVIOUS
<1>2. CopyKnown'
  BY <1>1, CopyStands DEF TlmInv, CopyKnown
<1> QED
  BY <1>1, <1>2, CalmKnown

LEMMA BeginKnown ==
  ASSUME TlmInv, NEW p \in Publishers, Begin(p)
  PROVE  TlmInv'
<1>1. /\ magic /\ table # <<>> /\ publisher[p].pc = "idle" /\ turns' = turns + 1
      /\ publisher' = [publisher EXCEPT ![p] = [Resting EXCEPT !.pc = "enter", !.stamp = turns + 1]]
      /\ UNCHANGED <<build, memory, offered, table, used, magic, payload, cursor, reader, history, turn_>>
  BY DEF Begin, Rest
<1>2. publisher \in [Publishers -> Publishing] /\ turns \in Nat
  BY DEF TlmInv, TlmTypeOK
<1>3. publisher'[p].pc = "enter" /\ \A q \in Publishers \ {p} : publisher'[q] = publisher[q]
  BY <1>1, <1>2 DEF Resting
<1>4. TlmTypeOK'
  <2>1. [Resting EXCEPT !.pc = "enter", !.stamp = turns + 1] \in Publishing
    <3>1. Resting \in Publishing /\ "enter" \in {"idle", "enter", "halted"} \cup Turns /\ turns + 1 \in Nat
      BY <1>2 DEF Resting, Publishing, Turns, Copies
    <3> QED
      BY <3>1 DEF Publishing
  <2> QED
    BY <1>1, <1>2, <2>1 DEF TlmInv, TlmTypeOK
<1>5. LockKnown'
  BY <1>1, <1>3 DEF TlmInv, LockKnown, Turns, Copies
<1> QED
  BY <1>1, <1>3, <1>4, <1>5, OutsideKnown DEF Copies

LEMMA EnterKnown ==
  ASSUME TlmInv, NEW p \in Publishers, Enter(p)
  PROVE  TlmInv'
<1> DEFINE me == publisher[p]
           at == IF p = "primary" THEN cursor ELSE 1
<1>1. /\ publisher[p].pc = "enter" /\ turn_ = "none" /\ turn_' = p
      /\ publisher' = [publisher EXCEPT ![p].pc = "slot", ![p].slot = at, ![p].left = Len(table)]
      /\ UNCHANGED <<build, memory, offered, table, used, magic, payload, cursor, reader, history, turns>>
  BY DEF Enter, Rest, Free
<1>2. publisher \in [Publishers -> Publishing] /\ cursor \in Nat /\ table \in Seq(Descriptor)
  BY DEF TlmInv, TlmTypeOK
<1>3. magic /\ at \in DOMAIN table /\ at \in Nat
  <2>1. magic
    BY <1>1 DEF TlmInv, Shut, Resting
  <2>2. table # <<>>
    BY <1>1 DEF TlmInv, LockKnown
  <2>3. 1 \in DOMAIN table /\ cursor \in DOMAIN table
    BY <1>2, <2>2 DEF TlmInv, LockKnown
  <2> QED
    BY <1>2, <2>1, <2>3
<1> HIDE DEF at
<1>4. /\ publisher'[p] = [publisher[p] EXCEPT !.pc = "slot", !.slot = at, !.left = Len(table)]
      /\ \A q \in Publishers \ {p} : publisher'[q] = publisher[q]
  BY <1>1, <1>2
<1>5. publisher'[p].pc = "slot" /\ publisher'[p].slot = at /\ publisher'[p] \in Publishing
  <2>1. Len(table) \in Int /\ me \in Publishing
    BY <1>2
  <2> QED
    BY <1>3, <1>4, <2>1 DEF Publishing, Turns, Copies
<1>6. TlmTypeOK'
  BY <1>1, <1>2, <1>5 DEF TlmInv, TlmTypeOK
<1>7. LockKnown'
  BY <1>1, <1>3, <1>4, <1>5 DEF TlmInv, LockKnown, Turns, Copies, Publishers
<1> QED
  BY <1>1, <1>3, <1>4, <1>5, <1>6, <1>7, OutsideKnown DEF Copies

LEMMA LeaveKnown ==
  ASSUME TlmInv, NEW p \in Publishers, Leave(p)
  PROVE  TlmInv'
<1> DEFINE out == [Resting EXCEPT !.pc = IF p = "primary" THEN "idle" ELSE "halted"]
<1>1. /\ publisher[p].pc = "slot" /\ turn_' = "none" /\ publisher' = [publisher EXCEPT ![p] = out]
      /\ UNCHANGED <<build, memory, offered, table, used, magic, payload, cursor, reader, history, turns>>
  BY DEF Leave, Rest
<1>2. publisher \in [Publishers -> Publishing]
  BY DEF TlmInv, TlmTypeOK
<1>3. out \in Publishing /\ out.pc \in {"idle", "halted"}
  <2>1. Resting \in Publishing
    BY DEF Resting, Publishing, Turns, Copies
  <2>2. (IF p = "primary" THEN "idle" ELSE "halted") \in {"idle", "halted"}
    OBVIOUS
  <2> QED
    BY <2>1, <2>2 DEF Publishing
<1> HIDE DEF out
<1>4. publisher'[p] = out /\ \A q \in Publishers \ {p} : publisher'[q] = publisher[q]
  BY <1>1, <1>2
<1>5. magic /\ \A q \in Publishers \ {p} : publisher[q].pc \notin Turns
  BY <1>1, AloneInside DEF TlmInv, Turns
<1>6. TlmTypeOK'
  BY <1>1, <1>2, <1>3 DEF TlmInv, TlmTypeOK
<1>7. LockKnown'
  BY <1>1, <1>3, <1>4, <1>5 DEF TlmInv, LockKnown, Turns, Copies, Publishers
<1> QED
  BY <1>1, <1>3, <1>4, <1>5, <1>6, <1>7, OutsideKnown DEF Copies

LEMMA CompareKnown ==
  ASSUME TlmInv, NEW p \in Publishers, CompareByte(p)
  PROVE  TlmInv'
<1> DEFINE me == publisher[p]
           moved == me.moved \/ payload[table[me.slot].at + me.word] # memory[table[me.slot].source][me.word]
<1>1. /\ me.pc = "copy" /\ InTail(p)
      /\ publisher' = [publisher EXCEPT ![p].pc = "store", ![p].moved = moved]
      /\ UNCHANGED <<build, memory, offered, table, used, magic, payload, cursor, reader, history, turns, turn_>>
  BY DEF CompareByte, Rest
<1>2. publisher \in [Publishers -> Publishing]
  BY DEF TlmInv, TlmTypeOK
<1>3. moved \in BOOLEAN /\ (me.moved => moved)
  BY <1>2 DEF Publishing
<1> HIDE DEF moved
<1>4. /\ publisher'[p] = [me EXCEPT !.pc = "store", !.moved = moved]
      /\ \A q \in Publishers \ {p} : publisher'[q] = publisher[q]
  BY <1>1, <1>2
<1>5. /\ publisher'[p] \in Publishing /\ publisher'[p].pc = "store" /\ publisher'[p].moved = moved
      /\ publisher'[p].slot = me.slot /\ publisher'[p].taken = me.taken
      /\ publisher'[p].start = me.start /\ publisher'[p].word = me.word
  <2>1. me \in Publishing
    BY <1>2
  <2> QED
    BY <1>3, <1>4, <2>1 DEF Publishing, Turns, Copies
<1>6. TlmTypeOK'
  BY <1>1, <1>2, <1>5 DEF TlmInv, TlmTypeOK
<1>7. LockKnown' /\ magic
  <2>1. magic
    BY <1>1, AloneInside DEF TlmInv, Turns, Copies
  <2>2. \A q \in Publishers : /\ publisher'[q].slot = publisher[q].slot
                              /\ publisher'[q].pc = "enter" <=> publisher[q].pc = "enter"
                              /\ publisher'[q].pc \in Turns <=> publisher[q].pc \in Turns
    BY <1>1, <1>4, <1>5 DEF Turns, Copies
  <2> QED
    BY <1>1, <2>1, <2>2 DEF TlmInv, LockKnown
<1>8. CopyKnown'
  <2>1. \A i, w : Story(i)' = Story(i) /\ Now(i, w)' = Now(i, w) /\ (Loose(w)' <=> Loose(w))
    BY <1>1 DEF Story, Now, Loose
  <2>2. Loose(me.word)
    BY <1>1 DEF InTail, Loose
  <2>3. CopyAt(p)
    BY <1>1 DEF TlmInv, CopyKnown, Copies
  <2>4. me.word <= table[me.slot].words
    BY <1>1, <2>3 DEF CopyAt
  <2>5. CopyAt(p)'
    BY <1>1, <1>5, <2>1, <2>2, <2>3, <2>4 DEF CopyAt
  <2>6. \A q \in Publishers \ {p} : CopyAt(q) => CopyAt(q)'
    BY <1>1, <1>4, CopyStands
  <2> QED
    BY <1>4, <2>5, <2>6 DEF TlmInv, CopyKnown
<1>9. \A q \in Publishers :
        /\ publisher'[q].pc \in Copies <=> publisher[q].pc \in Copies
        /\ publisher[q].pc \in Copies =>
             /\ publisher'[q].slot = publisher[q].slot /\ publisher'[q].taken = publisher[q].taken
             /\ publisher[q].moved => publisher'[q].moved
  BY <1>1, <1>3, <1>4, <1>5 DEF Copies
<1> QED
  BY <1>1, <1>6, <1>7, <1>8, <1>9, CalmKnown

-----------------------------------------------------------------------------
(* The host.                                                               *)

\* A step of the host moves nothing of the region.
LEMMA HostKnown ==
  ASSUME TlmInv, UNCHANGED Unread, magic, reader' \in Reader, ReaderKnown', LoadsOnce \/ OneTail => ReadingWhole'
  PROVE  TlmInv'
<1>1. UNCHANGED <<build, memory, offered, table, used, magic, payload, cursor, turn_, publisher, turns, changes, history>>
  BY DEF Unread
<1>2. TlmTypeOK' /\ Laid' /\ Shut' /\ LockKnown'
  BY <1>1 DEF TlmInv, TlmTypeOK, Laid, Shut, LockKnown
<1>3. CopyKnown'
  BY <1>1, CopyStands DEF TlmInv, CopyKnown
<1>4. StoryKnown'
  BY <1>1 DEF TlmInv, StoryKnown, StoryAt, Story, Latest, Now, Loose, Unmoved, Ahead, Active
<1> QED
  BY <1>1, <1>2, <1>3, <1>4 DEF TlmInv, LoadsOnce, OneTail

\* A sequence that is even is that of a slot nobody copies.
LEMMA EvenIsClosed ==
  ASSUME TlmTypeOK, Laid, LockKnown, CopyKnown, StoryKnown, NEW i \in DOMAIN table, NEW m \in Nat, table[i].seq = 2 * m
  PROVE  /\ \A p \in Publishers : ~Active(p, i)
         /\ m = Len(Story(i)) - 1
<1>1. Len(Story(i)) \in Nat \ {0}
  BY LatestIs
<1>2. ASSUME NEW p \in Publishers, Active(p, i) PROVE FALSE
  <2>1. table[i].seq = 2 * (Len(Story(i)) - 1) + 1
    BY <1>2 DEF Active, CopyKnown, CopyAt
  <2> QED
    BY <1>1, <2>1
<1>3. table[i].seq = 2 * (Len(Story(i)) - 1)
  BY <1>2 DEF StoryKnown, StoryAt
<1> QED
  BY <1>1, <1>2, <1>3

LEMMA ReadSeqKnown ==
  ASSUME TlmInv, ReadSeq
  PROVE  TlmInv'
<1>1. PICK i \in DOMAIN table : /\ table[i].seq % 2 = 0
                                /\ reader' = [Watching EXCEPT !.pc = "bytes", !.slot = i, !.before = table[i].seq]
  BY DEF ReadSeq
<1>2. magic /\ UNCHANGED Unread
  BY DEF ReadSeq
<1>3. TlmTypeOK /\ Laid /\ LockKnown /\ CopyKnown /\ StoryKnown
  BY DEF TlmInv
<1>4. table[i] \in Descriptor /\ Len(Story(i)) \in Nat \ {0} /\ i \in Nat /\ table[i].seq \in Nat /\ table[i].words \in Nat
  <2>1. table[i] \in Descriptor /\ Len(Story(i)) \in Nat \ {0} /\ table \in Seq(Descriptor)
    BY <1>3, TypesOf, LatestIs DEF TlmTypeOK
  <2>2. i \in Nat
    BY <2>1
  <2> QED
    BY <2>1, <2>2 DEF Descriptor
<1>5. PICK m \in Nat : table[i].seq = 2 * m
  <2>1. table[i].seq = 2 * (table[i].seq \div 2) /\ table[i].seq \div 2 \in Nat
    BY <1>1, <1>4
  <2> QED
    BY <2>1
<1>6. m = Len(Story(i)) - 1
  BY <1>3, <1>5, EvenIsClosed
<1>7. /\ reader'.pc = "bytes" /\ reader'.slot = i /\ reader'.before = 2 * m /\ reader'.out = <<>> /\ reader'.stamp = 0
      /\ reader' = [pc |-> "bytes", slot |-> i, before |-> 2 * m, out |-> <<>>, stamp |-> 0]
  BY <1>1, <1>5 DEF Watching
<1>8. reader' \in Reader
  BY <1>4, <1>7 DEF Reader
<1>9. UNCHANGED <<table, history>>
  BY <1>2 DEF Unread
<1>10. Story(i)' = Story(i)
  BY <1>9 DEF Story
<1>11. ReaderKnown'
  <2>1. \E n \in 0..(Len(Story(i)) - 1) : reader'.before = 2 * n
    BY <1>4, <1>6, <1>7
  <2>2. Len(reader'.out) = 0
    BY <1>7
  <2> QED
    BY <1>4, <1>7, <1>9, <1>10, <2>1, <2>2 DEF ReaderKnown, ReaderAt
<1>12. ReadingWhole'
  BY <1>7 DEF ReadingWhole
<1> QED
  BY <1>2, <1>8, <1>11, <1>12, HostKnown

LEMMA ReadByteKnown ==
  ASSUME TlmInv, ReadByte
  PROVE  TlmInv'
<1> DEFINE i == reader.slot
<1>1. reader.pc = "bytes" /\ UNCHANGED Unread
  BY DEF ReadByte
<1>2. TlmTypeOK /\ Laid /\ LockKnown /\ CopyKnown /\ StoryKnown /\ ReaderKnown /\ Shut
  BY DEF TlmInv
<1>3. magic
  BY <1>1, <1>2 DEF Shut, Watching
<1>4. /\ i \in DOMAIN table /\ Len(reader.out) <= table[i].words
      /\ \E m \in 0..(Len(Story(i)) - 1) : reader.before = 2 * m
  BY <1>1, <1>2 DEF ReaderKnown, ReaderAt
<1>5. reader \in Reader /\ table[i] \in Descriptor /\ Len(reader.out) \in Nat /\ table[i].words \in Nat
  <2>1. reader \in Reader /\ table[i] \in Descriptor
    BY <1>2, <1>4, TypesOf DEF TlmTypeOK
  <2>2. reader.out \in Seq(Words) /\ table[i].words \in Nat
    BY <2>1 DEF Reader, Descriptor
  <2> QED
    BY <2>1, <2>2
<1>6. UNCHANGED <<build, table, payload, publisher, history>>
  BY <1>1 DEF Unread
<1>7. \A j : /\ Story(j)' = Story(j) /\ Latest(j)' = Latest(j)
             /\ \A w : Now(j, w)' = Now(j, w) /\ (Loose(w)' <=> Loose(w))
             /\ \A w, x : Known(j, w, x)' <=> Known(j, w, x)
             /\ Unmoved(j)' <=> Unmoved(j)
  BY <1>6 DEF Story, Latest, Now, Loose, Known, Unmoved, Active
<1>8. CASE Len(reader.out) < table[i].words
  <2> DEFINE n == Len(reader.out) + 1
             x == Now(i, n)
  <2>1. reader' = [reader EXCEPT !.out = Append(@, x)]
    <3>1. table[i].at \in Nat
      BY <1>5 DEF Descriptor
    <3>2. table[i].at + Len(reader.out) + 1 = table[i].at + n
      BY <1>5, <3>1
    <3>3. reader' = [reader EXCEPT !.out = Append(@, payload[table[i].at + Len(@) + 1])]
      BY <1>8 DEF ReadByte
    <3> QED
      BY <3>2, <3>3 DEF Now
  <2>2. n \in 1..table[i].words /\ x \in Words
    BY <1>2, <1>4, <1>5, <1>8, TypesOf
  <2> HIDE DEF x
  <2>3. /\ reader'.pc = "bytes" /\ reader'.slot = reader.slot /\ reader'.before = reader.before
        /\ reader'.out = Append(reader.out, x) /\ reader'.stamp = reader.stamp
        /\ reader' \in Reader
    <3>1. reader.out \in Seq(Words)
      BY <1>5 DEF Reader
    <3>2. Append(reader.out, x) \in Seq(Words)
      BY <2>2, <3>1
    <3> QED
      BY <1>1, <1>5, <2>1, <3>2 DEF Reader
  <2>4. /\ Len(reader'.out) = n /\ reader'.out[n] = x /\ \A w \in 1..Len(reader.out) : reader'.out[w] = reader.out[w]
    BY <1>5, <2>2, <2>3 DEF Reader
  <2>5. ASSUME Following PROVE IF Loose(n) THEN Known(i, n, x) ELSE x = Now(i, n)
    <3>1. Unmoved(i)
      BY <2>5 DEF Following
    <3>2. Ahead(i, n) => \E r \in Latest(i) : r.words[n] = x
      BY <1>2, <1>4, <2>2, <3>1 DEF StoryKnown, StoryAt, x
    <3>3. ASSUME ~Ahead(i, n) PROVE Known(i, n, x)
      <4>1. PICK p \in Publishers : Active(p, i) /\ ~(n > Len(publisher[p].taken))
        BY <3>3 DEF Ahead
      <4>2. CopyAt(p) /\ publisher[p].slot = i
        BY <1>2, <4>1 DEF CopyKnown, Active
      <4>3. publisher[p].taken \in Seq(Words)
        BY <1>2 DEF TlmTypeOK, Publishing
      <4>4. n \in 1..Len(publisher[p].taken)
        BY <2>2, <4>1, <4>3
      <4>5. x = publisher[p].taken[n]
        BY <4>2, <4>4 DEF CopyAt, x
      <4> QED
        BY <4>1, <4>4, <4>5 DEF Known
    <3> QED
      BY <3>2, <3>3 DEF Known, x
  <2>6. Following' => Following
    BY <1>1, <1>7, <2>3 DEF Following
  <2>7. ReaderKnown'
    <3>1. ASSUME Following', NEW w \in 1..n
          PROVE  (IF Loose(w) THEN Known(i, w, reader.out[w]) ELSE reader.out[w] = Now(i, w))' 
      <4>1. Following
        BY <2>6, <3>1
      <4>2. CASE w = n
        BY <1>7, <2>3, <2>4, <2>5, <4>1, <4>2
      <4>3. CASE w \in 1..Len(reader.out)
        BY <1>1, <1>2, <1>7, <2>3, <2>4, <4>1, <4>3 DEF ReaderKnown, ReaderAt
      <4> QED
        BY <1>5, <4>2, <4>3
    <3> QED
      BY <1>4, <1>6, <1>7, <2>2, <2>3, <2>4, <3>1 DEF ReaderKnown, ReaderAt
  <2>8. ReadingWhole'
    BY <2>3 DEF ReadingWhole
  <2> QED
    BY <1>1, <1>3, <2>3, <2>7, <2>8, HostKnown
<1>9. CASE ~(Len(reader.out) < table[i].words)
  <2>1. reader' = [reader EXCEPT !.pc = "check", !.stamp = table[i].stamp]
    BY <1>9 DEF ReadByte
  <2>2. table[i].stamp \in Nat
    BY <1>5 DEF Descriptor
  <2>3. /\ reader'.pc = "check" /\ reader'.slot = reader.slot /\ reader'.before = reader.before
        /\ reader'.out = reader.out /\ reader'.stamp = table[i].stamp /\ reader' \in Reader
    BY <1>5, <2>1, <2>2 DEF Reader
  <2>4. Len(reader.out) = table[i].words
    BY <1>4, <1>5, <1>9
  <2>5. Following' => Following
    BY <1>1, <1>7, <2>3 DEF Following
  <2>6. ReaderKnown'
    BY <1>1, <1>2, <1>4, <1>6, <1>7, <2>3, <2>4, <2>5 DEF ReaderKnown, ReaderAt
  <2>7. ReadingWhole'
    BY <2>3 DEF ReadingWhole
  <2> QED
    BY <1>1, <1>3, <2>3, <2>6, <2>7, HostKnown
<1> QED
  BY <1>8, <1>9

\* What a host that may accept has is one of the latest readings.
LEMMA AcceptedIsRead ==
  ASSUME TlmInv, LoadsOnce \/ OneTail, reader.pc = "check", table[reader.slot].seq = reader.before
  PROVE  /\ reader.before \div 2 < Len(Story(reader.slot))
         /\ [words |-> reader.out, stamp |-> reader.stamp] \in Story(reader.slot)[reader.before \div 2 + 1]
<1> DEFINE i == reader.slot
           n == table[i].words
<1>1. TlmTypeOK /\ Laid /\ LockKnown /\ CopyKnown /\ StoryKnown /\ ReaderKnown
  BY DEF TlmInv
<1>2. i \in DOMAIN table /\ Len(reader.out) = n
  BY <1>1 DEF ReaderKnown, ReaderAt
<1>3. Latest(i) \in SUBSET Reading /\ Len(Story(i)) \in Nat \ {0} /\ table[i] \in Descriptor
  BY <1>1, <1>2, LatestIs, TypesOf
<1>4. PICK m \in 0..(Len(Story(i)) - 1) : reader.before = 2 * m
  BY <1>1 DEF ReaderKnown, ReaderAt
<1>5. m \in Nat
  BY <1>3, <1>4
<1>6. (\A p \in Publishers : ~Active(p, i)) /\ m = Len(Story(i)) - 1
  BY <1>1, <1>2, <1>4, <1>5, EvenIsClosed
<1>7. Following
  BY <1>4, <1>6 DEF Following, Unmoved
<1>8. reader.stamp = table[i].stamp
  BY <1>1, <1>7 DEF ReaderKnown, ReaderAt
<1>9. \A w \in 1..n : Loose(w) => \E r \in Latest(i) : r.words[w] = reader.out[w]
  BY <1>1, <1>2, <1>6, <1>7 DEF ReaderKnown, ReaderAt, Known
<1>10. \A w \in 1..n : ~Loose(w) => \A r \in Latest(i) : r.words[w] = reader.out[w]
  <2>1. \A w \in 1..n : ~Loose(w) => reader.out[w] = Now(i, w)
    BY <1>1, <1>2, <1>7 DEF ReaderKnown, ReaderAt
  <2>2. Unmoved(i)
    BY <1>7 DEF Following
  <2>3. \A w \in 1..n : ~Loose(w) => \A r \in Latest(i) : r.words[w] = Now(i, w)
    BY <1>1, <1>2, <2>2 DEF StoryKnown, StoryAt
  <2> QED
    BY <2>1, <2>3
<1>11. PICK r \in Latest(i) : \A w \in 1..n : r.words[w] = reader.out[w]
  <2>1. CASE \E w \in 1..n : Loose(w)
    <3>1. PICK v \in 1..n : Loose(v)
      BY <2>1
    <3>2. PICK r \in Latest(i) : r.words[v] = reader.out[v]
      BY <1>9, <3>1
    <3>3. \A w \in 1..n : Loose(w) => w = v
      BY <3>1 DEF Loose, LoadsOnce, OneTail
    <3> QED
      BY <1>10, <3>2, <3>3
  <2>2. CASE \A w \in 1..n : ~Loose(w)
    <3>1. PICK r \in Latest(i) : TRUE
      BY <1>1, <1>2 DEF StoryKnown, StoryAt
    <3> QED
      BY <1>10, <2>2, <3>1
  <2> QED
    BY <2>1, <2>2
<1>12. r \in Reading /\ Len(r.words) = n /\ r.stamp = reader.stamp
  BY <1>1, <1>2, <1>3, <1>8 DEF StoryKnown, StoryAt
<1>13. r.words = reader.out
  <2>1. r.words \in Seq(Words) /\ reader.out \in Seq(Words)
    BY <1>1, <1>12 DEF Reading, TlmTypeOK, Reader
  <2> QED
    BY <1>2, <1>11, <1>12, <2>1, SeqEqual
<1>14. r = [words |-> reader.out, stamp |-> reader.stamp]
  BY <1>12, <1>13 DEF Reading
<1>15. reader.before \div 2 = m /\ m + 1 = Len(Story(i))
  BY <1>3, <1>4, <1>5, <1>6
<1> QED
  BY <1>3, <1>5, <1>14, <1>15 DEF Latest

LEMMA RecheckKnown ==
  ASSUME TlmInv, Recheck
  PROVE  TlmInv'
<1>1. reader.pc = "check" /\ UNCHANGED Unread
  BY DEF Recheck
<1>2. TlmTypeOK /\ ReaderKnown /\ Shut /\ reader \in Reader
  BY DEF TlmInv, TlmTypeOK
<1>3. magic
  BY <1>1, <1>2 DEF Shut, Watching
<1>4. UNCHANGED <<build, table, history>>
  BY <1>1 DEF Unread
<1>5. CASE table[reader.slot].seq = reader.before
  <2>1. reader' = [reader EXCEPT !.pc = "accepted"]
    BY <1>5 DEF Recheck
  <2>2. /\ reader'.pc = "accepted" /\ reader'.slot = reader.slot /\ reader'.before = reader.before
        /\ reader'.out = reader.out /\ reader'.stamp = reader.stamp /\ reader' \in Reader
    BY <1>2, <2>1 DEF Reader
  <2>3. ReaderKnown'
    BY <1>1, <1>2, <1>4, <2>2 DEF ReaderKnown, ReaderAt, Following, Story
  <2>4. LoadsOnce \/ OneTail => ReadingWhole'
    <3> SUFFICES ASSUME LoadsOnce \/ OneTail PROVE ReadingWhole'
      OBVIOUS
    <3> QED
      BY <1>1, <1>4, <1>5, <2>2, AcceptedIsRead DEF ReadingWhole, Readings, Story
  <2> QED
    BY <1>1, <1>3, <2>2, <2>3, <2>4, HostKnown
<1>6. CASE table[reader.slot].seq # reader.before
  <2>1. reader' = Watching /\ Watching \in Reader
    BY <1>6 DEF Recheck, Watching, Reader
  <2> QED
    BY <1>1, <1>3, <2>1, HostKnown DEF Watching, ReaderKnown, ReaderAt, ReadingWhole
<1> QED
  BY <1>5, <1>6

LEMMA UsedKnown ==
  ASSUME TlmInv, Used
  PROVE  TlmInv'
<1>1. reader.pc = "accepted" /\ reader' = Watching /\ UNCHANGED Unread
  BY DEF Used
<1>2. magic /\ Watching \in Reader
  BY <1>1 DEF TlmInv, Shut, Watching, Reader
<1> QED
  BY <1>1, <1>2, HostKnown DEF Watching, ReaderKnown, ReaderAt, ReadingWhole

-----------------------------------------------------------------------------
(* A slot is opened, copied and closed.                                    *)

\* A descriptor whose sequence and stamp are written keeps its stretch.
LEMMA LayoutStands ==
  ASSUME TlmTypeOK, Laid, NEW i \in DOMAIN table, NEW e \in Descriptor, table' = [table EXCEPT ![i] = e],
         e.source = table[i].source, e.at = table[i].at, e.words = table[i].words, UNCHANGED <<offered, used>>
  PROVE  /\ table' \in Seq(Descriptor) /\ DOMAIN table' = DOMAIN table /\ Len(table') = Len(table) /\ table'[i] = e
         /\ \A j \in DOMAIN table :
              /\ j # i => table'[j] = table[j]
              /\ table'[j].source = table[j].source /\ table'[j].at = table[j].at /\ table'[j].words = table[j].words
         /\ Laid'
<1>1. table \in Seq(Descriptor)
  BY DEF TlmTypeOK
<1>2. table' \in Seq(Descriptor) /\ DOMAIN table' = DOMAIN table /\ Len(table') = Len(table) /\ table'[i] = e
  BY <1>1
<1>3. \A j \in DOMAIN table : j # i => table'[j] = table[j]
  BY <1>1
<1>4. \A j \in DOMAIN table :
        table'[j].source = table[j].source /\ table'[j].at = table[j].at /\ table'[j].words = table[j].words
  BY <1>2, <1>3
<1>5. Laid'
  <2>1. \A j \in DOMAIN table :
          /\ table[j].source <= offered /\ table[j].words = Spans[table[j].source]
          /\ table[j].words > 0 /\ table[j].at + table[j].words <= used
    BY DEF Laid
  <2>2. \A j, k \in DOMAIN table : j # k =>
          /\ table[j].source # table[k].source
          /\ table[j].at + table[j].words <= table[k].at \/ table[k].at + table[k].words <= table[j].at
    BY DEF Laid
  <2>3. \A j \in DOMAIN table' :
          /\ table'[j].source <= offered' /\ table'[j].words = Spans[table'[j].source]
          /\ table'[j].words > 0 /\ table'[j].at + table'[j].words <= used'
    BY <1>2, <1>4, <2>1
  <2>4. \A j, k \in DOMAIN table' : j # k =>
          /\ table'[j].source # table'[k].source
          /\ table'[j].at + table'[j].words <= table'[k].at \/ table'[k].at + table'[k].words <= table'[j].at
    BY <1>2, <1>4, <2>2
  <2> QED
    BY <2>3, <2>4 DEF Laid
<1> QED
  BY <1>2, <1>3, <1>4, <1>5

LEMMA OpenSlotKnown ==
  ASSUME TlmInv, NEW p \in Publishers, OpenSlot(p)
  PROVE  TlmInv'
<1> DEFINE me == publisher[p]
<1>0. TlmTypeOK /\ Laid /\ Shut /\ LockKnown /\ CopyKnown /\ StoryKnown /\ ReaderKnown
  BY DEF TlmInv
<1>i. PICK i \in DOMAIN table : i = me.slot
  BY <1>0 DEF OpenSlot, LockKnown, Turns
<1> DEFINE e == [table[i] EXCEPT !.seq = Odd(@)]
           you == [me EXCEPT !.pc = "copy", !.word = 1, !.moved = FALSE, !.taken = <<>>, !.start = table[i].seq]
<1>1. /\ me.pc = "slot" /\ table' = [table EXCEPT ![i].seq = Odd(@)]
      /\ publisher' = [publisher EXCEPT ![p].pc = "copy", ![p].word = 1, ![p].moved = FALSE, ![p].taken = <<>>,
                                        ![p].start = table[i].seq]
      /\ UNCHANGED <<build, memory, offered, used, magic, payload, cursor, turn_, reader, turns, changes, history>>
  BY <1>i DEF OpenSlot
<1>3. magic /\ \A q \in Publishers \ {p} : publisher[q].pc \notin Turns /\ \A j : ~Active(q, j)
  BY <1>1, <1>0, AloneInside DEF Turns
<1>4. \A j : \A q \in Publishers : ~Active(q, j)
  BY <1>1, <1>3 DEF Active, Copies
<1>5. /\ table[i] \in Descriptor /\ Len(Story(i)) \in Nat \ {0} /\ me \in Publishing
      /\ publisher \in [Publishers -> Publishing] /\ table \in Seq(Descriptor)
  BY <1>0, <1>3, TypesOf, LatestIs DEF TlmTypeOK
<1>6. table[i].seq = 2 * (Len(Story(i)) - 1) /\ table[i].seq \in Nat /\ table[i].words \in Nat /\ table[i].words > 0
  BY <1>0, <1>3, <1>4, <1>5 DEF StoryKnown, StoryAt, Descriptor, Laid
<1>7. publisher' = [publisher EXCEPT ![p] = you] /\ table' = [table EXCEPT ![i] = e]
  BY <1>1, <1>3, <1>5
<1>8. /\ e \in Descriptor /\ e.seq = table[i].seq + 1
      /\ e.source = table[i].source /\ e.at = table[i].at /\ e.words = table[i].words /\ e.stamp = table[i].stamp
  <2>1. Odd(table[i].seq) = table[i].seq + 1 /\ table[i].seq + 1 \in Nat
    BY <1>6 DEF Odd
  <2> QED
    BY <1>5, <2>1 DEF Descriptor
<1>9. /\ you \in Publishing /\ you.pc = "copy" /\ you.slot = i /\ you.word = 1 /\ ~you.moved /\ you.taken = <<>>
      /\ you.start = table[i].seq
  <2>1. <<>> \in Seq(Words) /\ "copy" \in {"idle", "enter", "halted"} \cup Turns
    BY DEF Turns, Copies
  <2> QED
    BY <1>i, <1>5, <1>6, <2>1 DEF Publishing
<1> HIDE DEF e, you
<1>10. publisher'[p] = you /\ \A q \in Publishers \ {p} : publisher'[q] = publisher[q]
  BY <1>5, <1>7
<1>11. /\ table' \in Seq(Descriptor) /\ DOMAIN table' = DOMAIN table /\ Len(table') = Len(table) /\ table'[i] = e
       /\ \A j \in DOMAIN table :
            /\ j # i => table'[j] = table[j]
            /\ table'[j].source = table[j].source /\ table'[j].at = table[j].at /\ table'[j].words = table[j].words
       /\ Laid'
  BY <1>1, <1>0, <1>3, <1>7, <1>8, LayoutStands
<1>12. TlmTypeOK'
  <2>1. publisher' \in [Publishers -> Publishing]
    BY <1>5, <1>7, <1>9
  <2> QED
    BY <1>1, <1>0, <1>11, <2>1 DEF TlmTypeOK
<1>13. Shut' /\ LockKnown'
  <2>1. \A q \in Publishers : /\ publisher'[q].slot = publisher[q].slot
                              /\ publisher'[q].pc = "enter" <=> publisher[q].pc = "enter"
                              /\ publisher'[q].pc \in Turns <=> publisher[q].pc \in Turns
    BY <1>i, <1>1, <1>9, <1>10 DEF Turns, Copies
  <2>2. table' # <<>> /\ table # <<>>
    BY <1>3, <1>11
  <2> QED
    BY <1>1, <1>0, <1>3, <1>11, <2>1, <2>2 DEF Shut, LockKnown
<1>14. \A j \in DOMAIN table : /\ Story(j)' = Story(j) /\ Latest(j)' = Latest(j) /\ table'[j].stamp = table[j].stamp
                               /\ \A w : Now(j, w)' = Now(j, w)
  BY <1>1, <1>8, <1>11 DEF Story, Latest, Now
<1>15. CopyKnown'
  <2>1. CopyAt(p)'
    <3>1. Len(you.taken) = 0
      BY <1>9
    <3>2. \A w \in 1..Len(you.taken) : FALSE
      BY <3>1
    <3> QED
      BY <1>i, <1>6, <1>8, <1>9, <1>10, <1>11, <1>14, <3>1, <3>2 DEF CopyAt
  <2> QED
    BY <1>3, <1>10, <2>1 DEF CopyKnown, Turns
<1>16. \A q \in Publishers : \A j : Active(q, j)' <=> q = p /\ j = i
  BY <1>3, <1>9, <1>10 DEF Active, Turns, Copies
<1>17. StoryKnown'
  <2> SUFFICES ASSUME NEW j \in DOMAIN table PROVE StoryAt(j)'
    BY <1>11 DEF StoryKnown
  <2>1. StoryAt(j) /\ Unmoved(j) /\ \A w : Ahead(j, w)
    BY <1>0, <1>4 DEF StoryKnown, Unmoved, Ahead
  <2>2. \A w : Loose(w)' <=> Loose(w)
    BY <1>1 DEF Loose
  <2> QED
    <3>1. Story(j) # <<>> /\ Latest(j) # {} /\ \A r \in Latest(j) : Len(r.words) = table[j].words /\ r.stamp = table[j].stamp
      BY <2>1 DEF StoryAt
    <3>2. \A w \in 1..table[j].words : /\ ~Loose(w) => \A r \in Latest(j) : r.words[w] = Now(j, w)
                                       /\ \E r \in Latest(j) : r.words[w] = Now(j, w)
      BY <2>1 DEF StoryAt
    <3>3. (\A q \in Publishers : ~Active(q, j)') => table'[j].seq = 2 * (Len(Story(j)) - 1)
      BY <1>4, <1>11, <1>16, <2>1 DEF StoryAt
    <3>4. table'[j].words = table[j].words
      BY <1>11
    <3> QED
      BY <1>14, <2>2, <3>1, <3>2, <3>3, <3>4 DEF StoryAt
<1>18. ReaderKnown'
  <2> SUFFICES ASSUME reader.pc # "idle" PROVE ReaderKnown'
    BY <1>1 DEF ReaderKnown
  <2>1. PICK j \in DOMAIN table : j = reader.slot /\ ReaderAt(j)
    BY <1>0 DEF ReaderKnown, ReaderAt
  <2>2. Following' => Following
    BY <1>1, <1>4, <1>14, <2>1 DEF Following, Unmoved
  <2>3. \A w, x : Known(j, w, x) => Known(j, w, x)'
    BY <1>4, <1>14 DEF Known
  <2>4. \A w : Loose(w)' <=> Loose(w)
    BY <1>1 DEF Loose
  <2>5. ReaderAt(j)'
    BY <1>1, <1>11, <1>14, <2>1, <2>2, <2>3, <2>4 DEF ReaderAt
  <2> QED
    BY <1>1, <2>1, <2>5 DEF ReaderKnown
<1>19. ReadingWhole => ReadingWhole'
  BY <1>1, <1>0, <1>11 DEF ReadingWhole, Readings, ReaderKnown, ReaderAt
<1> QED
  BY <1>1, <1>11, <1>12, <1>13, <1>15, <1>17, <1>18, <1>19 DEF TlmInv, LoadsOnce, OneTail

\* A word of a slot is a word of no other.
LEMMA Apart ==
  ASSUME TlmTypeOK, Laid, NEW i \in DOMAIN table, NEW j \in DOMAIN table, i # j,
         NEW w \in 1..table[i].words, NEW v \in 1..table[j].words
  PROVE  table[i].at + w # table[j].at + v
<1>1. table[i] \in Descriptor /\ table[j] \in Descriptor
  BY DEF TlmTypeOK
<1>2. table[i].at + table[i].words <= table[j].at \/ table[j].at + table[j].words <= table[i].at
  BY DEF Laid
<1> QED
  BY <1>1, <1>2 DEF Descriptor

\* A word is copied; what moves unnoticed is loose.
LEMMA CopiedKnown ==
  ASSUME TlmInv, NEW p \in Publishers, publisher[p].pc \in {"copy", "store"}, NEW seen, Copied(p, seen),
         Loose(publisher[p].word) \/ seen = memory[table[publisher[p].slot].source][publisher[p].word]
  PROVE  TlmInv'
<1> DEFINE me == publisher[p]
<1>0. TlmTypeOK /\ Laid /\ Shut /\ LockKnown /\ CopyKnown /\ StoryKnown /\ ReaderKnown
  BY DEF TlmInv
<1>i. PICK i \in DOMAIN table : i = me.slot
  BY <1>0 DEF LockKnown, Turns, Copies
<1>w. PICK w \in Nat : w = me.word
  BY <1>0 DEF TlmTypeOK, Publishing
<1> DEFINE x == memory[table[i].source][w]
           moved == me.moved \/ Now(i, w) # seen
           next == IF w = table[i].words THEN "close" ELSE "copy"
           you == [me EXCEPT !.word = w + 1, !.pc = next, !.moved = moved, !.taken = Append(@, x)]
<1>1. /\ payload' = [payload EXCEPT ![table[i].at + w] = x]
      /\ publisher' = [publisher EXCEPT ![p].word = w + 1, ![p].pc = IF w = table[i].words THEN "close" ELSE "copy",
                                        ![p].moved = @ \/ Now(i, w) # seen, ![p].taken = Append(@, x)]
      /\ UNCHANGED <<build, memory, offered, table, used, magic, cursor, turn_, reader, turns, changes, history>>
  BY <1>i, <1>w DEF Copied, Now
<1>2. CopyAt(p) /\ magic /\ \A q \in Publishers \ {p} : publisher[q].pc \notin Turns /\ \A j : ~Active(q, j)
  BY <1>0, AloneInside DEF CopyKnown, Turns, Copies
<1>3. me \in Publishing /\ publisher \in [Publishers -> Publishing] /\ table[i] \in Descriptor /\ me.taken \in Seq(Words)
  BY <1>0, TypesOf DEF TlmTypeOK, Publishing
<1>4. w = Len(me.taken) + 1 /\ w <= table[i].words /\ table[i].words \in Nat /\ w \in 1..table[i].words
  <2>1. Len(me.taken) \in Nat /\ table[i].words \in Nat
    BY <1>3 DEF Descriptor
  <2>2. w = Len(me.taken) + 1 /\ w <= table[i].words
    BY <1>2, <1>i, <1>w DEF CopyAt
  <2> QED
    BY <2>1, <2>2
<1>5. x \in Words /\ table[i].at + w \in 1..PayloadWords /\ table[i].at \in Nat
  <2>1. memory[table[i].source] \in Seq(Words) /\ Len(memory[table[i].source]) = table[i].words
    BY <1>0, TypesOf
  <2>2. x \in Words
    BY <1>4, <2>1
  <2> QED
    BY <1>0, <1>3, <1>4, <2>2, TypesOf DEF Descriptor
<1>6. publisher' = [publisher EXCEPT ![p] = you]
  BY <1>1, <1>3
<1>7. /\ you \in Publishing /\ you.pc = next /\ you.slot = i /\ you.word = w + 1
      /\ you.moved = moved /\ you.taken = Append(me.taken, x) /\ you.start = me.start
  <2>1. Append(me.taken, x) \in Seq(Words) /\ moved \in BOOLEAN
    BY <1>3, <1>5 DEF Publishing
  <2>2. next \in {"idle", "enter", "halted"} \cup Turns
    BY DEF Turns, Copies
  <2>3. w + 1 \in Nat
    OBVIOUS
  <2> HIDE DEF moved, x, next
  <2>4. you \in Publishing
    BY <1>3, <2>1, <2>2, <2>3 DEF Publishing
  <2>5. /\ you.pc = next /\ you.slot = i /\ you.word = w + 1
        /\ you.moved = moved /\ you.taken = Append(me.taken, x) /\ you.start = me.start
    BY <1>i, <1>3 DEF Publishing
  <2> QED
    BY <2>4, <2>5
<1> HIDE DEF x, moved, you
<1>8. publisher'[p] = you /\ \A q \in Publishers \ {p} : publisher'[q] = publisher[q]
  BY <1>3, <1>6
<1>9. Len(you.taken) = w /\ you.taken[w] = x /\ \A v \in 1..Len(me.taken) : you.taken[v] = me.taken[v]
  BY <1>3, <1>4, <1>5, <1>7
<1>10. Now(i, w)' = x /\ \A v \in 1..table[i].words : v # w => Now(i, v)' = Now(i, v)
  <2>1. payload \in [1..PayloadWords -> Words]
    BY <1>0 DEF TlmTypeOK
  <2>2. payload'[table[i].at + w] = x
    BY <1>1, <1>5, <2>1
  <2>3. ASSUME NEW v \in 1..table[i].words, v # w PROVE payload'[table[i].at + v] = payload[table[i].at + v]
    <3>1. table[i].at + v # table[i].at + w
      BY <1>4, <1>5, <2>3
    <3> QED
      BY <1>1, <1>5, <2>1, <3>1
  <2> QED
    BY <1>1, <2>2, <2>3 DEF Now
<1>11. \A j \in DOMAIN table : j # i => \A v \in 1..table[j].words : Now(j, v)' = Now(j, v)
  <2> SUFFICES ASSUME NEW j \in DOMAIN table, j # i, NEW v \in 1..table[j].words PROVE Now(j, v)' = Now(j, v)
    OBVIOUS
  <2>1. table[i].at + w # table[j].at + v
    BY <1>0, <1>4, Apart
  <2>2. payload \in [1..PayloadWords -> Words]
    BY <1>0 DEF TlmTypeOK
  <2>3. payload'[table[j].at + v] = payload[table[j].at + v]
    BY <1>1, <1>5, <2>1, <2>2
  <2> QED
    BY <1>1, <2>3 DEF Now
<1>12. TlmTypeOK' /\ Laid'
  <2>1. publisher' \in [Publishers -> Publishing]
    BY <1>3, <1>6, <1>7
  <2>2. payload \in [1..PayloadWords -> Words]
    BY <1>0 DEF TlmTypeOK
  <2>3. payload' \in [1..PayloadWords -> Words]
    BY <1>1, <1>5, <2>2
  <2> QED
    BY <1>0, <1>1, <2>1, <2>3 DEF TlmTypeOK, Laid
<1>13. Shut' /\ LockKnown'
  <2>1. \A q \in Publishers : /\ publisher'[q].slot = publisher[q].slot
                              /\ publisher'[q].pc = "enter" <=> publisher[q].pc = "enter"
                              /\ publisher'[q].pc \in Turns <=> publisher[q].pc \in Turns
    BY <1>i, <1>7, <1>8 DEF Turns, Copies
  <2> QED
    BY <1>0, <1>1, <1>2, <2>1 DEF Shut, LockKnown
<1>14. \A j : Story(j)' = Story(j) /\ Latest(j)' = Latest(j)
  BY <1>1 DEF Story, Latest
<1>15. \A v : Loose(v)' <=> Loose(v)
  BY <1>1 DEF Loose
<1>16. \A q \in Publishers : \A j : /\ Active(q, j)' <=> q = p /\ j = i
                                    /\ Active(q, j) <=> q = p /\ j = i
  BY <1>i, <1>2, <1>7, <1>8 DEF Active, Turns, Copies
<1>17. CopyKnown'
  <2>1. CopyAt(p)'
    <3>1. me.start = 2 * (Len(Story(i)) - 1) /\ table[i].seq = me.start + 1 /\ \A v \in 1..Len(me.taken) : Now(i, v) = me.taken[v]
      BY <1>i, <1>2 DEF CopyAt
    <3>2. \A v \in 1..w : Now(i, v)' = you.taken[v]
      <4> SUFFICES ASSUME NEW v \in 1..w PROVE Now(i, v)' = you.taken[v]
        OBVIOUS
      <4>1. CASE v = w
        BY <1>9, <1>10, <4>1
      <4>2. CASE v \in 1..Len(me.taken)
        <5>1. v \in 1..table[i].words /\ v # w
          BY <1>3, <1>4, <4>2
        <5> QED
          BY <1>9, <1>10, <3>1, <4>2, <5>1
      <4> QED
        BY <1>3, <1>4, <4>1, <4>2
    <3>3. /\ w + 1 <= table[i].words <=> you.pc # "close"
          /\ you.pc # "store" /\ w + 1 <= table[i].words + 1
      BY <1>4, <1>7
    <3>4. table' = table /\ Story(i)' = Story(i)
      BY <1>1, <1>14
    <3> QED
      BY <1>7, <1>8, <1>9, <3>1, <3>2, <3>3, <3>4 DEF CopyAt
  <2> QED
    BY <1>2, <1>8, <2>1 DEF CopyKnown, Turns
\* What the copy has not seen move has not moved, but for a loose word.
<1>18. Unmoved(i)' => Unmoved(i) /\ (~Loose(w) => x = Now(i, w))
  <2> SUFFICES ASSUME Unmoved(i)' PROVE Unmoved(i) /\ (~Loose(w) => x = Now(i, w))
    OBVIOUS
  <2>1. ~moved
    BY <1>7, <1>8, <1>16 DEF Unmoved
  <2>2. ~me.moved /\ Now(i, w) = seen
    BY <2>1 DEF moved
  <2> QED
    BY <1>i, <1>w, <1>16, <2>2 DEF Unmoved, x
<1>19. \A j : Unmoved(j)' => Unmoved(j)
  BY <1>16, <1>18 DEF Unmoved
<1>20. StoryKnown'
  <2> SUFFICES ASSUME NEW j \in DOMAIN table PROVE StoryAt(j)'
    BY <1>1 DEF StoryKnown
  <2>1. StoryAt(j)
    BY <1>0 DEF StoryKnown
  <2>2. Story(j) # <<>> /\ Latest(j) # {} /\ \A r \in Latest(j) : Len(r.words) = table[j].words /\ r.stamp = table[j].stamp
    BY <2>1 DEF StoryAt
  <2>3. (\A q \in Publishers : ~Active(q, j)') => table[j].seq = 2 * (Len(Story(j)) - 1)
    BY <1>16, <2>1 DEF StoryAt
  <2>4. ASSUME Unmoved(j)', NEW v \in 1..table[j].words
        PROVE  /\ ~Loose(v) => \A r \in Latest(j) : r.words[v] = Now(j, v)'
               /\ Ahead(j, v)' => \E r \in Latest(j) : r.words[v] = Now(j, v)'
    <3>1. /\ ~Loose(v) => \A r \in Latest(j) : r.words[v] = Now(j, v)
          /\ Ahead(j, v) => \E r \in Latest(j) : r.words[v] = Now(j, v)
      BY <1>19, <2>1, <2>4 DEF StoryAt
    <3>2. CASE j # i
      <4>1. Ahead(j, v) /\ Now(j, v)' = Now(j, v)
        BY <1>11, <1>16, <3>2 DEF Ahead
      <4> QED
        BY <3>1, <4>1
    <3>3. CASE j = i
      <4>1. ~Loose(v) => Now(j, v)' = Now(j, v)
        BY <1>10, <1>18, <2>4, <3>3
      <4>2. Ahead(j, v)' => v > w
        BY <1>8, <1>9, <1>16, <3>3 DEF Ahead
      <4>3. Ahead(j, v)' => Ahead(j, v) /\ v # w
        BY <1>3, <1>4, <1>16, <3>3, <4>2 DEF Ahead
      <4> QED
        BY <1>10, <3>1, <3>3, <4>1, <4>3
    <3> QED
      BY <3>2, <3>3
  <2> QED
    BY <1>1, <1>14, <1>15, <2>2, <2>3, <2>4 DEF StoryAt
<1>21. ReaderKnown'
  <2> SUFFICES ASSUME reader.pc # "idle" PROVE ReaderKnown'
    BY <1>1 DEF ReaderKnown
  <2>1. PICK j \in DOMAIN table : j = reader.slot /\ ReaderAt(j)
    BY <1>0 DEF ReaderKnown, ReaderAt
  <2>2. Following' => Following /\ Unmoved(j)'
    BY <1>1, <1>14, <1>19, <2>1 DEF Following
  <2>3. \A v \in 1..table[j].words : \A y : Known(j, v, y) => Known(j, v, y)'
    <3> SUFFICES ASSUME NEW v \in 1..table[j].words, NEW y, Known(j, v, y) PROVE Known(j, v, y)'
      OBVIOUS
    <3>1. CASE \E r \in Latest(j) : r.words[v] = y
      BY <1>14, <3>1 DEF Known
    <3>2. CASE j = i /\ v <= Len(me.taken) /\ me.taken[v] = y
      <4>1. v \in 1..Len(me.taken) /\ v <= w
        BY <1>3, <1>4, <3>2
      <4>2. publisher'[p].taken[v] = y /\ v <= Len(publisher'[p].taken)
        BY <1>8, <1>9, <3>2, <4>1
      <4> QED
        BY <1>16, <3>2, <4>2 DEF Known
    <3> QED
      BY <1>16, <3>1, <3>2 DEF Known
  <2>5. ASSUME Following', NEW v \in 1..Len(reader.out)
        PROVE  IF Loose(v) THEN Known(j, v, reader.out[v])' ELSE reader.out[v] = Now(j, v)'
    <3>1. IF Loose(v) THEN Known(j, v, reader.out[v]) ELSE reader.out[v] = Now(j, v)
      BY <2>1, <2>2, <2>5 DEF ReaderAt
    <3>2. v \in 1..table[j].words
      <4>1. Len(reader.out) \in Nat /\ table[j].words \in Nat
        <5>1. reader.out \in Seq(Words) /\ table[j] \in Descriptor
          BY <1>0 DEF TlmTypeOK, Reader
        <5> QED
          BY <5>1 DEF Descriptor
      <4> QED
        BY <2>1, <4>1 DEF ReaderAt
    <3>3. ~Loose(v) => Now(j, v)' = Now(j, v)
      BY <1>10, <1>11, <1>18, <2>2, <2>5, <3>2
    <3> QED
      BY <1>1, <2>3, <3>1, <3>2, <3>3
  <2>6. ReaderAt(j)'
    BY <1>1, <1>14, <1>15, <2>1, <2>2, <2>5 DEF ReaderAt
  <2> QED
    BY <1>1, <2>1, <2>6 DEF ReaderKnown
<1>22. ReadingWhole => ReadingWhole'
  BY <1>1 DEF ReadingWhole, Readings
<1> QED
  BY <1>1, <1>12, <1>13, <1>17, <1>20, <1>21, <1>22 DEF TlmInv, LoadsOnce, OneTail

LEMMA CopyWordKnown ==
  ASSUME TlmInv, NEW p \in Publishers, CopyWord(p) \/ StoreByte(p)
  PROVE  TlmInv'
<1>1. CASE CopyWord(p)
  <2>1. publisher[p].pc = "copy" /\ Copied(p, memory[table[publisher[p].slot].source][publisher[p].word])
    BY <1>1 DEF CopyWord
  <2> QED
    BY <2>1, CopiedKnown
<1>2. CASE StoreByte(p)
  <2>1. publisher[p].pc = "store" /\ Copied(p, payload[table[publisher[p].slot].at + publisher[p].word])
    BY <1>2 DEF StoreByte
  <2>2. Loose(publisher[p].word)
    BY <2>1 DEF TlmInv, CopyKnown, CopyAt, Copies
  <2> QED
    BY <2>1, <2>2, CopiedKnown
<1> QED
  BY <1>1, <1>2

LEMMA CloseSlotKnown ==
  ASSUME TlmInv, NEW p \in Publishers, CloseSlot(p)
  PROVE  TlmInv'
<1> DEFINE me == publisher[p]
<1>0. TlmTypeOK /\ Laid /\ Shut /\ LockKnown /\ CopyKnown /\ StoryKnown /\ ReaderKnown
  BY DEF TlmInv
<1>i. PICK i \in DOMAIN table : i = me.slot
  BY <1>0 DEF CloseSlot, LockKnown, Turns, Copies
<1> DEFINE d   == table[i]
           n   == Len(Story(i))
           at  == (i % Len(table)) + 1
           stamp == IF me.moved THEN me.stamp ELSE d.stamp
           r   == [words |-> me.taken, stamp |-> stamp]
           e   == [d EXCEPT !.seq = Closed(me.start, me.moved), !.stamp = stamp]
           you == [me EXCEPT !.pc = "slot", !.slot = at, !.left = @ - 1, !.spent = @ + d.words]
           S   == IF me.moved THEN Append(Story(i), {r}) ELSE [Story(i) EXCEPT ![n] = @ \cup {r}]
<1>1. /\ me.pc = "close"
      /\ table' = [table EXCEPT ![i].seq = Closed(me.start, me.moved), ![i].stamp = IF me.moved THEN me.stamp ELSE @]
      /\ history' = IF me.moved
                    THEN [history EXCEPT ![d.source] = Append(@, {[words |-> me.taken, stamp |-> me.stamp]})]
                    ELSE [history EXCEPT ![d.source][me.start \div 2 + 1] = @ \union {[words |-> me.taken, stamp |-> d.stamp]}]
      /\ publisher' = [publisher EXCEPT ![p].pc = "slot", ![p].slot = at, ![p].left = @ - 1, ![p].spent = @ + d.words]
      /\ cursor' = IF p = "primary" THEN at ELSE cursor
      /\ UNCHANGED <<build, memory, offered, used, magic, payload, turn_, reader, turns, changes>>
  BY <1>i DEF CloseSlot
<1>2. CopyAt(p) /\ magic /\ \A q \in Publishers \ {p} : publisher[q].pc \notin Turns /\ \A j : ~Active(q, j)
  BY <1>0, <1>1, AloneInside DEF CopyKnown, Turns, Copies
<1>3. /\ me \in Publishing /\ publisher \in [Publishers -> Publishing] /\ d \in Descriptor
      /\ n \in Nat \ {0} /\ Latest(i) \in SUBSET Reading /\ Story(i) \in Seq(SUBSET Reading) /\ table \in Seq(Descriptor)
  BY <1>0, TypesOf, LatestIs DEF TlmTypeOK
<1>4. /\ d.words \in Nat /\ d.source \in DOMAIN Spans /\ d.stamp \in Nat /\ me.stamp \in Nat /\ me.taken \in Seq(Words)
      /\ me.moved \in BOOLEAN /\ me.left \in Int /\ me.spent \in Int
  BY <1>3 DEF Descriptor, Publishing
<1>5. /\ me.start = 2 * (n - 1) /\ \A w \in 1..Len(me.taken) : Now(i, w) = me.taken[w]
      /\ Len(me.taken) = d.words
  <2>1. /\ me.start = 2 * (n - 1) /\ \A w \in 1..Len(me.taken) : Now(i, w) = me.taken[w]
        /\ me.word = Len(me.taken) + 1 /\ me.word <= d.words + 1 /\ ~(me.word <= d.words)
    BY <1>i, <1>1, <1>2 DEF CopyAt
  <2>2. Len(me.taken) \in Nat
    BY <1>4
  <2> QED
    BY <1>4, <2>1, <2>2
<1>6. at \in DOMAIN table /\ at \in Nat \ {0}
  <2>1. DOMAIN table = 1..Len(table) /\ Len(table) \in Nat /\ i \in 1..Len(table)
    BY <1>3
  <2>2. i % Len(table) \in 0..(Len(table) - 1)
    BY <2>1
  <2> QED
    BY <2>1, <2>2
<1>7. stamp \in Nat /\ r \in Reading /\ me.start \div 2 + 1 = n
  BY <1>3, <1>4, <1>5 DEF Reading
<1>8. S \in Seq(SUBSET Reading) /\ history' = [history EXCEPT ![d.source] = S]
  <2>1. history \in [DOMAIN Spans -> Seq(SUBSET Reading)] /\ history[d.source] = Story(i)
    BY <1>0 DEF TlmTypeOK, Story
  <2>2. CASE me.moved
    <3>1. S = Append(Story(i), {[words |-> me.taken, stamp |-> me.stamp]})
      BY <2>2
    <3>2. history' = [history EXCEPT ![d.source] = Append(@, {[words |-> me.taken, stamp |-> me.stamp]})]
      BY <1>1, <2>2
    <3>3. {r} \in SUBSET Reading
      BY <1>7
    <3>4. S \in Seq(SUBSET Reading)
      BY <1>3, <2>2, <3>3
    <3> QED
      BY <2>1, <3>1, <3>2, <3>4
  <2>3. CASE ~me.moved
    <3>1. S = [Story(i) EXCEPT ![n] = @ \cup {[words |-> me.taken, stamp |-> d.stamp]}]
      BY <2>3
    <3>2. history' = [history EXCEPT ![d.source][n] = @ \cup {[words |-> me.taken, stamp |-> d.stamp]}]
      BY <1>1, <1>7, <2>3
    <3>3. n \in DOMAIN Story(i) /\ Story(i)[n] \in SUBSET Reading
      BY <1>3
    <3>4. Story(i)[n] \cup {r} \in SUBSET Reading
      BY <1>7, <3>3
    <3>5. S \in Seq(SUBSET Reading)
      BY <1>3, <2>3, <3>3, <3>4
    <3> QED
      BY <2>1, <3>1, <3>2, <3>5
  <2> QED
    BY <1>4, <2>2, <2>3
<1>9. /\ e \in Descriptor /\ e.seq = Closed(me.start, me.moved) /\ e.stamp = stamp
      /\ e.source = d.source /\ e.at = d.at /\ e.words = d.words /\ table' = [table EXCEPT ![i] = e]
  <2>1. Closed(me.start, me.moved) \in Nat
    BY <1>3, <1>4, <1>5 DEF Closed
  <2>2. table' = [table EXCEPT ![i] = e]
    BY <1>1, <1>3
  <2> HIDE DEF stamp
  <2> QED
    BY <1>3, <1>7, <2>1, <2>2 DEF Descriptor
<1>10. you \in Publishing /\ you.pc = "slot" /\ you.slot = at /\ publisher' = [publisher EXCEPT ![p] = you]
  <2>1. "slot" \in {"idle", "enter", "halted"} \cup Turns
    BY DEF Turns
  <2>2. me.left - 1 \in Int /\ me.spent + d.words \in Int
    BY <1>4
  <2>3. publisher' = [publisher EXCEPT ![p] = you]
    BY <1>1, <1>3
  <2> HIDE DEF at
  <2> QED
    BY <1>3, <1>6, <2>1, <2>2, <2>3 DEF Publishing
<1> HIDE DEF e, you, at
<1>11. publisher'[p] = you /\ \A q \in Publishers \ {p} : publisher'[q] = publisher[q]
  BY <1>3, <1>10
<1>12. /\ table' \in Seq(Descriptor) /\ DOMAIN table' = DOMAIN table /\ Len(table') = Len(table) /\ table'[i] = e
       /\ \A j \in DOMAIN table :
            /\ j # i => table'[j] = table[j]
            /\ table'[j].source = table[j].source /\ table'[j].at = table[j].at /\ table'[j].words = table[j].words
       /\ Laid'
  BY <1>0, <1>1, <1>9, LayoutStands
<1>13. TlmTypeOK'
  <2>1. publisher' \in [Publishers -> Publishing]
    BY <1>3, <1>10
  <2>2. history' \in [DOMAIN Spans -> Seq(SUBSET Reading)]
    BY <1>0, <1>4, <1>8 DEF TlmTypeOK
  <2>3. cursor' \in Nat \ {0}
    BY <1>0, <1>1, <1>6 DEF TlmTypeOK
  <2> QED
    BY <1>0, <1>1, <1>12, <2>1, <2>2, <2>3 DEF TlmTypeOK
<1>14. Shut' /\ LockKnown'
  <2>1. \A q \in Publishers \ {p} : publisher'[q].pc \notin Turns /\ publisher'[q] = publisher[q]
    BY <1>2, <1>11
  <2>2. table' # <<>> /\ table # <<>> /\ turn_ = p
    BY <1>0, <1>1, <1>12 DEF LockKnown, Turns, Copies
  <2>3. cursor' \in DOMAIN table'
    BY <1>0, <1>1, <1>6, <1>12, <2>2 DEF LockKnown
  <2>4. publisher'[p].pc = "slot" /\ publisher'[p].slot \in DOMAIN table' /\ turn_' = p /\ p # "none"
    BY <1>1, <1>6, <1>10, <1>11, <1>12, <2>2 DEF Publishers
  <2> QED
    BY <1>0, <1>1, <1>2, <2>1, <2>2, <2>3, <2>4 DEF Shut, LockKnown, Turns, Copies
<1>15. \A q \in Publishers : \A j : ~Active(q, j)' /\ (Active(q, j) <=> q = p /\ j = i)
  BY <1>i, <1>1, <1>2, <1>10, <1>11 DEF Active, Turns, Copies
<1>16. CopyKnown'
  BY <1>2, <1>10, <1>11 DEF CopyKnown, Turns, Copies
<1>17. Story(i)' = S /\ \A j \in DOMAIN table : j # i => Story(j)' = Story(j) /\ Latest(j)' = Latest(j) /\ table'[j].stamp = table[j].stamp
  <2>1. history \in [DOMAIN Spans -> Seq(SUBSET Reading)]
    BY <1>0 DEF TlmTypeOK
  <2>2. Story(i)' = S
    BY <1>4, <1>8, <1>12, <2>1 DEF Story
  <2>3. ASSUME NEW j \in DOMAIN table, j # i PROVE Story(j)' = Story(j)
    <3>1. table[j].source # d.source
      BY <1>0, <2>3 DEF Laid
    <3> QED
      BY <1>8, <1>12, <2>1, <3>1 DEF Story
  <2> QED
    BY <1>12, <2>2, <2>3 DEF Latest
<1>18. \A j \in DOMAIN table : \A w : Now(j, w)' = Now(j, w)
  BY <1>1, <1>12 DEF Now
<1>19. \A w : Loose(w)' <=> Loose(w)
  BY <1>1 DEF Loose
\* The reading closed is of the story now, and nothing of it is lost.
<1>20. /\ S # <<>> /\ Len(S) = (IF me.moved THEN n + 1 ELSE n)
       /\ S[Len(S)] = (IF me.moved THEN {r} ELSE Latest(i) \cup {r})
       /\ \A m \in 1..n : Story(i)[m] \subseteq S[m]
  <2>1. CASE me.moved
    BY <1>3, <2>1
  <2>2. CASE ~me.moved
    BY <1>3, <2>2 DEF Latest
  <2> QED
    BY <2>1, <2>2
<1>21. r.words = me.taken /\ r.stamp = e.stamp /\ \A w \in 1..d.words : r.words[w] = Now(i, w)
  BY <1>5, <1>9
<1>22. e.seq = 2 * (Len(S) - 1)
  BY <1>3, <1>4, <1>5, <1>9, <1>20 DEF Closed
<1>23. ~me.moved => Unmoved(i)
  BY <1>15 DEF Unmoved
<1>24. StoryAt(i)
  BY <1>0 DEF StoryKnown
<1>25. \A j : Unmoved(j)'
  BY <1>15 DEF Unmoved
<1>26. ~me.moved => e.stamp = d.stamp
  BY <1>9
<1> HIDE DEF S, r, stamp
<1>27. StoryKnown'
  <2> SUFFICES ASSUME NEW j \in DOMAIN table PROVE StoryAt(j)'
    BY <1>12 DEF StoryKnown
  <2>1. CASE j # i
    <3>1. StoryAt(j) /\ Unmoved(j) /\ (\A w : Ahead(j, w)) /\ (\A q \in Publishers : ~Active(q, j)) /\ table'[j] = table[j]
      BY <1>0, <1>12, <1>15, <2>1 DEF StoryKnown, Unmoved, Ahead
    <3> QED
      BY <1>17, <1>18, <1>19, <2>1, <3>1 DEF StoryAt
  <2>2. CASE j = i
    <3>1. Latest(i)' = (IF me.moved THEN {r} ELSE Latest(i) \cup {r})
      BY <1>17, <1>20 DEF Latest
    <3>2. \A x \in Latest(i)' : Len(x.words) = d.words /\ x.stamp = e.stamp
      <4>1. Len(r.words) = d.words /\ r.stamp = e.stamp
        BY <1>5, <1>21
      <4>2. ~me.moved => \A x \in Latest(i) : Len(x.words) = d.words /\ x.stamp = e.stamp
        BY <1>24, <1>26 DEF StoryAt
      <4> QED
        BY <3>1, <4>1, <4>2
    <3>3. \A w \in 1..d.words : ~Loose(w) => \A x \in Latest(i)' : x.words[w] = Now(i, w)
      <4>1. ~me.moved => \A w \in 1..d.words : ~Loose(w) => \A x \in Latest(i) : x.words[w] = Now(i, w)
        BY <1>23, <1>24 DEF StoryAt
      <4> QED
        BY <1>21, <3>1, <4>1
    <3>4. \A w \in 1..d.words : \E x \in Latest(i)' : x.words[w] = Now(i, w)
      BY <1>21, <3>1
    <3>5. Latest(i)' # {} /\ Story(i)' # <<>> /\ table'[i].seq = 2 * (Len(Story(i)') - 1)
      BY <1>12, <1>17, <1>20, <1>22, <3>1
    <3>6. table'[i] = e /\ table'[i].words = d.words
      BY <1>12
    <3> QED
      BY <1>18, <1>19, <2>2, <3>2, <3>3, <3>4, <3>5, <3>6 DEF StoryAt
  <2> QED
    BY <2>1, <2>2
\* A story only grows.
<1>28. \A j \in DOMAIN table : /\ Len(Story(j)) <= Len(Story(j)') /\ Len(Story(j)') \in Nat /\ Len(Story(j)) \in Nat
                               /\ \A m \in 1..Len(Story(j)) : Story(j)[m] \subseteq Story(j)'[m]
  <2> SUFFICES ASSUME NEW j \in DOMAIN table
               PROVE  /\ Len(Story(j)) <= Len(Story(j)') /\ Len(Story(j)') \in Nat /\ Len(Story(j)) \in Nat
                      /\ \A m \in 1..Len(Story(j)) : Story(j)[m] \subseteq Story(j)'[m]
    OBVIOUS
  <2>1. Len(Story(j)) \in Nat
    BY <1>0, LatestIs
  <2>2. CASE j # i
    BY <1>17, <2>1, <2>2
  <2>3. CASE j = i
    BY <1>3, <1>4, <1>17, <1>20, <2>3
  <2> QED
    BY <2>2, <2>3
<1>29. ReaderKnown'
  <2> SUFFICES ASSUME reader.pc # "idle" PROVE ReaderKnown'
    BY <1>1 DEF ReaderKnown
  <2>1. PICK j \in DOMAIN table : j = reader.slot /\ ReaderAt(j)
    BY <1>0 DEF ReaderKnown, ReaderAt
  <2>2. PICK m \in 0..(Len(Story(j)) - 1) : reader.before = 2 * m
    BY <2>1 DEF ReaderAt
  <2>3. m \in 0..(Len(Story(j)') - 1)
    BY <1>28, <2>2
  <2>4. ASSUME Following' PROVE Following /\ (j = i => ~me.moved)
    <3>1. reader.before = 2 * (Len(Story(j)') - 1) /\ reader.pc \in {"bytes", "check"}
      BY <1>1, <2>1, <2>4 DEF Following
    <3>2. m = Len(Story(j)') - 1
      BY <1>28, <2>2, <3>1
    <3>3. j = i => ~me.moved
      BY <1>3, <1>17, <1>20, <2>2, <3>2
    <3>4. Unmoved(j)
      BY <1>15, <3>3 DEF Unmoved
    <3>5. Len(Story(j)') = Len(Story(j))
      BY <1>17, <1>20, <3>3
    <3> QED
      BY <2>1, <3>1, <3>3, <3>4, <3>5 DEF Following
  <2>5. ASSUME Following', NEW w \in 1..Len(reader.out), Loose(w) PROVE Known(j, w, reader.out[w])'
    <3>1. Known(j, w, reader.out[w])
      BY <2>1, <2>4, <2>5 DEF ReaderAt
    <3>2. CASE \E x \in Latest(j) : x.words[w] = reader.out[w]
      <4>1. Latest(j) \subseteq Latest(j)'
        BY <1>17, <1>20, <2>4, <2>5 DEF Latest
      <4> QED
        BY <1>1, <3>2, <4>1 DEF Known
    <3>3. CASE j = i /\ me.taken[w] = reader.out[w]
      <4>1. r \in Latest(j)'
        BY <1>17, <1>20, <2>4, <2>5, <3>3 DEF Latest
      <4> QED
        BY <1>1, <1>21, <3>3, <4>1 DEF Known
    <3> QED
      BY <1>15, <3>1, <3>2, <3>3 DEF Known
  <2>6. Following' /\ reader.pc = "check" => reader.stamp = table'[j].stamp
    <3> SUFFICES ASSUME Following', reader.pc = "check" PROVE reader.stamp = table'[j].stamp
      OBVIOUS
    <3>1. reader.stamp = table[j].stamp
      BY <2>1, <2>4 DEF ReaderAt
    <3>2. table'[j].stamp = table[j].stamp
      BY <1>12, <1>17, <1>26, <2>4
    <3> QED
      BY <3>1, <3>2
  <2>7. \A w \in 1..Len(reader.out) : Following' /\ ~Loose(w) => reader.out[w] = Now(j, w)'
    BY <1>18, <2>1, <2>4 DEF ReaderAt
  <2>8. ReaderAt(j)'
    BY <1>1, <1>12, <1>19, <2>1, <2>2, <2>3, <2>5, <2>6, <2>7 DEF ReaderAt
  <2> QED
    BY <1>1, <2>1, <2>8 DEF ReaderKnown
<1>30. ReadingWhole => ReadingWhole'
  <2> SUFFICES ASSUME ReadingWhole, reader.pc = "accepted" PROVE ReadingWhole'
    BY <1>1 DEF ReadingWhole
  <2>1. PICK j \in DOMAIN table : j = reader.slot /\ ReaderAt(j)
    BY <1>0 DEF ReaderKnown, ReaderAt
  <2>2. PICK m \in 0..(Len(Story(j)) - 1) : reader.before = 2 * m
    BY <2>1 DEF ReaderAt
  <2>3. m \in Nat /\ reader.before \div 2 = m /\ m + 1 \in 1..Len(Story(j))
    BY <1>28, <2>2
  <2>4. [words |-> reader.out, stamp |-> reader.stamp] \in Story(j)[m + 1]
    BY <2>1, <2>3 DEF ReadingWhole, Readings, Story
  <2>5. [words |-> reader.out, stamp |-> reader.stamp] \in Story(j)'[m + 1] /\ m < Len(Story(j)')
    BY <1>28, <2>3, <2>4
  <2> QED
    BY <1>1, <2>1, <2>3, <2>5 DEF ReadingWhole, Readings, Story
<1> QED
  BY <1>1, <1>12, <1>13, <1>14, <1>16, <1>27, <1>29, <1>30 DEF TlmInv, LoadsOnce, OneTail

-----------------------------------------------------------------------------
(* The theorem.                                                            *)

LEMMA TlmInvStands == TlmInv /\ [TlmNext]_tlmVars => TlmInv'
<1> SUFFICES ASSUME TlmInv, [TlmNext]_tlmVars PROVE TlmInv'
  OBVIOUS
<1>1. ASSUME NEW p \in Publishers, Turn(p) PROVE TlmInv'
  BY <1>1, BeginKnown, EnterKnown, OpenSlotKnown, CopyWordKnown, CompareKnown, CloseSlotKnown, LeaveKnown DEF Turn
<1>2. CASE UNCHANGED tlmVars
  <2>1. UNCHANGED <<build, memory, offered, table, used, magic, payload, cursor, turn_, publisher, reader, turns, changes, history>>
    BY <1>2 DEF tlmVars
  <2>2. TlmTypeOK' /\ Laid' /\ Shut' /\ LockKnown'
    BY <2>1 DEF TlmInv, TlmTypeOK, Laid, Shut, LockKnown
  <2>3. CopyKnown' /\ StoryKnown'
    BY <2>1, CopyStands DEF TlmInv, CopyKnown, StoryKnown, StoryAt, Story, Latest, Now, Loose, Unmoved, Ahead, Active
  <2>4. ReaderKnown'
    BY <2>1 DEF TlmInv, ReaderKnown, ReaderAt, Following, Known, Story, Latest, Now, Loose, Unmoved, Active
  <2>5. ReadingWhole' <=> ReadingWhole
    BY <2>1 DEF ReadingWhole, Readings
  <2> QED
    BY <2>1, <2>2, <2>3, <2>4, <2>5 DEF TlmInv, LoadsOnce, OneTail
<1> QED
  BY <1>1, <1>2, DeclareKnown, OpenKnown, ChangeKnown, ReadSeqKnown, ReadByteKnown, RecheckKnown, UsedKnown DEF TlmNext

\* In a build that loads a byte once, a sequence at rest stands for the words
\* of the slot.
LEMMA SequenceIsWords == TlmInv /\ LoadsOnce => SequenceFollowsBytes
<1> SUFFICES ASSUME TlmInv, LoadsOnce, NEW i \in DOMAIN table, ~Copying(i)
             PROVE  /\ table[i].seq = 2 * (Len(history[table[i].source]) - 1)
                    /\ \A reading \in Readings(i, table[i].seq) : reading.words = [w \in 1..table[i].words |-> payload[table[i].at + w]]
  BY DEF SequenceFollowsBytes
<1>1. TlmTypeOK /\ Laid /\ StoryKnown /\ StoryAt(i)
  BY DEF TlmInv, StoryKnown
<1>2. (\A p \in Publishers : ~Active(p, i)) /\ \A w : ~Loose(w)
  BY DEF Copying, Active, Copies, LoadsOnce, Loose
<1>3. table[i].seq = 2 * (Len(Story(i)) - 1) /\ Unmoved(i)
  BY <1>1, <1>2 DEF StoryAt, Unmoved
<1>4. Latest(i) \in SUBSET Reading /\ Len(Story(i)) \in Nat \ {0} /\ table[i] \in Descriptor
  BY <1>1, LatestIs, TypesOf
<1>5. table[i].seq \div 2 + 1 = Len(Story(i))
  BY <1>3, <1>4
<1>6. Readings(i, table[i].seq) = Latest(i)
  BY <1>5 DEF Readings, Latest, Story
<1>7. ASSUME NEW reading \in Latest(i) PROVE reading.words = [w \in 1..table[i].words |-> payload[table[i].at + w]]
  <2>1. reading.words \in Seq(Words) /\ Len(reading.words) = table[i].words
    BY <1>1, <1>4 DEF Reading, StoryAt
  <2>2. \A w \in 1..table[i].words : reading.words[w] = payload[table[i].at + w]
    BY <1>1, <1>2, <1>3 DEF StoryAt, Now
  <2> QED
    BY <2>1, <2>2
<1> QED
  BY <1>3, <1>6, <1>7 DEF Story

\* A host is told the truth, whatever spans are published and however many
\* turns and writes there are: where a byte is loaded once, or one word is
\* loaded twice, what it accepts is one reading, and where each byte is loaded
\* once an unchanged sequence means unchanged words (nova/telemetry.hpp).
THEOREM TelemetryTrue == TlmSpec => []HostReadsTruth
<1>1. TlmInv => HostReadsTruth
  BY SequenceIsWords DEF TlmInv, HostReadsTruth
<1> QED
  BY InitKnown, TlmInvStands, <1>1, PTL DEF TlmSpec
=============================================================================
