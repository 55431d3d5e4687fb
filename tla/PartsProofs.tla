------------------------------ MODULE PartsProofs ------------------------------
(***************************************************************************)
(* Theorems about the parts of the system that share no state: the         *)
(* watchdog, for every number of cores, every size of the mailbox and any  *)
(* number of beats and instances; the distributor, for every number of     *)
(* cores and of lines, every width of a bank and every INTID that firmware *)
(* keeps; the guests' memory, for every number of guests, every fan-out of *)
(* a translation table, every size of the two table pools and every machine *)
(* configuration that the checks of the configuration let through; the     *)
(* trapped instruction, for every set of vCPUs, of device words and of     *)
(* accesses, and every width of a byte; the DMA policy, for every board    *)
(* and image, and every width of an address, a stream ID and a VMID.       *)
(***************************************************************************)
EXTENDS Watchdog, Distributor, Stage2, Trap, DmaPolicy, FiniteSetTheorems, WellFoundedInduction, TLAPS

-----------------------------------------------------------------------------
(* The watchdog: the latest beat rules.                                    *)

Beat == [pc : {"guest", "plan", "send"}, arms : BOOLEAN, gen : Nat, seq : Nat]
BeatGiven == [gen : Nat, arms : BOOLEAN, answer : {"none", "ok", "refused"}]

WdTypeOK ==
  /\ vmGeneration \in Nat \ {0} /\ vmOn \in BOOLEAN
  /\ beat \in [BeatCores -> Beat]
  /\ g_update_sequence \in Nat /\ g_armed_generation \in Nat /\ g_armed_sequence \in Nat
  /\ slotArmed \in BOOLEAN
  /\ ownerMail \in Seq(Beat)
  /\ beats \in Seq(BeatGiven)
  /\ lastStrike \in [gen : Nat, latest : Nat]

-----------------------------------------------------------------------------
(* The invariant.                                                          *)

\* What a request says is what its number was given out for.
OnRecord(given, r) ==
  r.seq \in 1..Len(given) /\ given[r.seq].arms = r.arms /\ given[r.seq].gen = r.gen

\* Every request on its way is on record.
RequestsKnown ==
  /\ \A c \in BeatCores : beat[c].pc = "send" => OnRecord(beats, beat[c])
  /\ \A i \in 1..Len(ownerMail) : OnRecord(beats, ownerMail[i])

\* Numbers are given out one by one, to instances up to the present one.
Numbered ==
  /\ g_update_sequence = Len(beats)
  /\ \A i \in 1..Len(beats) : beats[i].gen <= vmGeneration
  /\ \A c \in BeatCores : beat[c].gen <= vmGeneration

\* A deadline that is armed is armed for a beat that asked for it.
ArmedKnown ==
  slotArmed =>
    /\ g_armed_sequence \in 1..Len(beats)
    /\ beats[g_armed_sequence].arms /\ beats[g_armed_sequence].gen = g_armed_generation

StrikeKnown ==
  lastStrike.gen # 0 =>
    /\ lastStrike.latest \in 1..Len(beats)
    /\ beats[lastStrike.latest].arms /\ beats[lastStrike.latest].gen = lastStrike.gen

\* The owner has seen the latest beat, which was answered.
Seen(given) ==
  LET b == given[Len(given)] IN
  /\ b.answer = "ok" /\ b.gen = vmGeneration /\ vmOn
  /\ \A i \in 1..Len(ownerMail) : ownerMail[i].seq # Len(given)

\* It has struck on the latest beat.
Struck(given) == lastStrike = [gen |-> vmGeneration, latest |-> Len(given)]

\* Then the deadline is as that beat asked, unless it has struck on it, and armed
\* for it: LatestBeatRules does not say for which beat, and a deadline armed for
\* an older one would run out without effect.
LatestKnown ==
  beats # <<>> /\ Seen(beats) =>
    /\ slotArmed = beats[Len(beats)].arms \/ Struck(beats)
    /\ slotArmed => g_armed_sequence = Len(beats)

WdInv == WdTypeOK /\ RequestsKnown /\ Numbered /\ ArmedKnown /\ StrikeKnown /\ LatestKnown

-----------------------------------------------------------------------------
\* What is on record stays on record when later numbers are given out and
\* answers are filled in.
Extends(new, old) ==
  /\ Len(old) <= Len(new)
  /\ \A i \in 1..Len(old) : new[i].arms = old[i].arms /\ new[i].gen = old[i].gen

\* Giving out a number extends the record.
LEMMA AppendExtends ==
  ASSUME NEW given \in Seq(BeatGiven), NEW g \in BeatGiven
  PROVE  /\ Append(given, g) \in Seq(BeatGiven) /\ Len(Append(given, g)) = Len(given) + 1
         /\ Append(given, g)[Len(given) + 1] = g /\ Extends(Append(given, g), given)
  BY DEF Extends

\* So does an answer.
WithAnswer(given, n, a) == [given EXCEPT ![n].answer = a]

LEMMA AnswerExtends ==
  ASSUME NEW given \in Seq(BeatGiven), NEW n \in 1..Len(given), NEW a \in {"none", "ok", "refused"}
  PROVE  /\ WithAnswer(given, n, a) \in Seq(BeatGiven) /\ Len(WithAnswer(given, n, a)) = Len(given)
         /\ Extends(WithAnswer(given, n, a), given) /\ WithAnswer(given, n, a)[n].answer = a
         /\ \A i \in 1..Len(given) : i # n => WithAnswer(given, n, a)[i] = given[i]
<1> DEFINE new == [given EXCEPT ![n].answer = a]
<1>1. /\ DOMAIN given = 1..Len(given) /\ \A i \in 1..Len(given) : given[i] \in BeatGiven
      /\ Len(given) \in Nat
  OBVIOUS
<1>2. DOMAIN new = 1..Len(given)
  BY <1>1
<1>3. new[n] = [given[n] EXCEPT !.answer = a] /\ \A i \in 1..Len(given) : i # n => new[i] = given[i]
  BY <1>1
<1>4. new[n] \in BeatGiven /\ new[n].answer = a /\ new[n].arms = given[n].arms /\ new[n].gen = given[n].gen
  BY <1>1, <1>3 DEF BeatGiven
<1>5. new \in [1..Len(given) -> BeatGiven]
  BY <1>1, <1>2, <1>3, <1>4
<1>6. new \in Seq(BeatGiven) /\ Len(new) = Len(given)
  BY <1>1, <1>5
<1>7. new = WithAnswer(given, n, a)
  BY DEF WithAnswer
<1> HIDE DEF new
<1>8. Extends(new, given)
  <2>1. ASSUME NEW i \in 1..Len(given) PROVE new[i].arms = given[i].arms /\ new[i].gen = given[i].gen
    <3>1. CASE i = n
      BY <1>4, <3>1
    <3>2. CASE i # n
      <4>1. new[i] = given[i]
        BY <1>3, <3>2
      <4> QED
        BY <4>1
    <3> QED
      BY <3>1, <3>2
  <2>2. Len(given) <= Len(new)
    BY <1>1, <1>6
  <2> QED
    BY <2>1, <2>2 DEF Extends
<1>9. \A i \in 1..Len(given) : i # n => new[i] = given[i]
  BY <1>3
<1> QED
  BY <1>4, <1>6, <1>7, <1>8, <1>9

\* A request on record stays on record.
LEMMA RecordKept ==
  ASSUME NEW old \in Seq(BeatGiven), NEW new \in Seq(BeatGiven), Extends(new, old), NEW r \in Beat, OnRecord(old, r)
  PROVE  OnRecord(new, r)
  BY DEF Extends, OnRecord, Beat

-----------------------------------------------------------------------------
\* At first nothing was asked for.
LEMMA WdInvInit == WdInit => WdInv
<1> SUFFICES ASSUME WdInit PROVE WdInv
  OBVIOUS
<1> USE DEF WdInit
<1>1. beats \in Seq(BeatGiven) /\ ownerMail \in Seq(Beat) /\ Len(beats) = 0 /\ Len(ownerMail) = 0
  OBVIOUS
<1>2. NoBeat \in Beat /\ NoBeat.pc = "guest" /\ NoBeat.gen = 0
  BY DEF NoBeat, Beat
<1>3. WdTypeOK
  <2>1. beat \in [BeatCores -> Beat]
    BY <1>2
  <2>2. lastStrike \in [gen : Nat, latest : Nat]
    OBVIOUS
  <2>3. vmOn \in BOOLEAN /\ slotArmed \in BOOLEAN
    OBVIOUS
  <2>4. /\ vmGeneration \in Nat \ {0} /\ g_update_sequence \in Nat
        /\ g_armed_generation \in Nat /\ g_armed_sequence \in Nat
    OBVIOUS
  <2> HIDE DEF WdInit
  <2> QED
    BY <1>1, <2>1, <2>2, <2>3, <2>4 DEF WdTypeOK
<1>4. RequestsKnown /\ Numbered
  BY <1>1, <1>2 DEF RequestsKnown, Numbered
<1>5. ArmedKnown /\ StrikeKnown /\ LatestKnown
  BY DEF ArmedKnown, StrikeKnown, LatestKnown, Struck
<1> QED
  BY <1>3, <1>4, <1>5 DEF WdInv

\* The owner applies a request on record: the deadline is then known, and if the
\* request is the latest beat, of the running instance, it is as that beat asked.
LEMMA Applied ==
  ASSUME WdInv, NEW r \in Beat, OnRecord(beats, r), ApplyLocal(r)
  PROVE  /\ g_armed_generation' \in Nat /\ g_armed_sequence' \in Nat /\ slotArmed' \in BOOLEAN
         /\ slotArmed' => /\ g_armed_sequence' \in 1..Len(beats)
                          /\ beats[g_armed_sequence'].arms
                          /\ beats[g_armed_sequence'].gen = g_armed_generation'
         /\ r.seq = Len(beats) /\ r.gen = vmGeneration /\ vmOn =>
              slotArmed' = r.arms /\ g_armed_sequence' = r.seq
         /\ r.seq # Len(beats) =>
              UNCHANGED <<g_armed_generation, g_armed_sequence, slotArmed>>
<1>1. CASE Accepts(r.gen, r.seq)
  BY <1>1 DEF ApplyLocal, Accepts, WdInv, WdTypeOK, OnRecord, Numbered, Beat
<1>2. CASE ~Accepts(r.gen, r.seq)
  <2>1. UNCHANGED <<g_armed_generation, g_armed_sequence, slotArmed>>
    BY <1>2 DEF ApplyLocal
  <2>2. ~(r.seq = Len(beats) /\ r.gen = vmGeneration /\ vmOn)
    BY <1>2 DEF Accepts, WdInv, WdTypeOK, OnRecord, Numbered
  <2> QED
    BY <2>1, <2>2 DEF WdInv, WdTypeOK, ArmedKnown
<1> QED
  BY <1>1, <1>2

\* The requests on their way stay on record while the record only grows and the
\* steps of a core leave it in a state the record knows.
LEMMA RecordsGrow ==
  ASSUME WdInv, NEW new \in Seq(BeatGiven), Extends(new, beats)
  PROVE  /\ \A c \in BeatCores : beat[c].pc = "send" => OnRecord(new, beat[c])
         /\ \A i \in 1..Len(ownerMail) : OnRecord(new, ownerMail[i])
         /\ slotArmed => /\ g_armed_sequence \in 1..Len(new)
                         /\ new[g_armed_sequence].arms /\ new[g_armed_sequence].gen = g_armed_generation
         /\ lastStrike.gen # 0 => /\ lastStrike.latest \in 1..Len(new)
                                 /\ new[lastStrike.latest].arms /\ new[lastStrike.latest].gen = lastStrike.gen
<1>1. beats \in Seq(BeatGiven) /\ Len(beats) \in Nat /\ Len(new) \in Nat
  BY DEF WdInv, WdTypeOK
<1>2. ASSUME NEW c \in BeatCores, beat[c].pc = "send" PROVE OnRecord(new, beat[c])
  BY <1>1, <1>2, RecordKept DEF WdInv, WdTypeOK, RequestsKnown
<1>3. ASSUME NEW i \in 1..Len(ownerMail) PROVE OnRecord(new, ownerMail[i])
  <2>1. ownerMail[i] \in Beat
    BY DEF WdInv, WdTypeOK
  <2> QED
    BY <1>1, <2>1, RecordKept DEF WdInv, RequestsKnown
<1>4. slotArmed => /\ g_armed_sequence \in 1..Len(new)
                   /\ new[g_armed_sequence].arms /\ new[g_armed_sequence].gen = g_armed_generation
  BY <1>1 DEF Extends, WdInv, ArmedKnown
<1>5. lastStrike.gen # 0 => /\ lastStrike.latest \in 1..Len(new)
                           /\ new[lastStrike.latest].arms /\ new[lastStrike.latest].gen = lastStrike.gen
  BY <1>1 DEF Extends, WdInv, StrikeKnown
<1> QED
  BY <1>2, <1>3, <1>4, <1>5

-----------------------------------------------------------------------------
\* Every step preserves the invariant.
LEMMA WdInvStep == WdInv /\ [WdNext]_wdVars => WdInv'
<1> SUFFICES ASSUME WdInv, [WdNext]_wdVars PROVE WdInv'
  OBVIOUS
<1> USE WatchdogAssumption DEF WatchdogAssumption
<1>0. /\ WdTypeOK /\ RequestsKnown /\ Numbered /\ ArmedKnown /\ StrikeKnown /\ LatestKnown
      /\ Len(beats) \in Nat /\ Len(ownerMail) \in Nat
  BY DEF WdInv, WdTypeOK
<1>1. ASSUME NEW c \in BeatCores, BeatPlan(c) PROVE WdInv'
  <2>1. PICK arms \in BOOLEAN : beat' = [beat EXCEPT ![c] = [pc |-> "plan", arms |-> arms, gen |-> vmGeneration, seq |-> 0]]
    BY <1>1 DEF BeatPlan
  <2>2. UNCHANGED <<vmGeneration, vmOn, g_update_sequence, g_armed_generation, g_armed_sequence, slotArmed, ownerMail, beats, lastStrike>>
    BY <1>1 DEF BeatPlan
  <2>3. [pc |-> "plan", arms |-> arms, gen |-> vmGeneration, seq |-> 0] \in Beat
    BY <1>0 DEF WdTypeOK, Beat
  <2>4. WdTypeOK'
    BY <1>0, <2>1, <2>2, <2>3 DEF WdTypeOK
  <2>5. RequestsKnown'
    BY <1>0, <2>1, <2>2 DEF RequestsKnown, WdTypeOK
  <2>6. Numbered'
    BY <1>0, <2>1, <2>2 DEF Numbered, WdTypeOK
  <2>7. ArmedKnown' /\ StrikeKnown' /\ LatestKnown'
    BY <1>0, <2>2 DEF ArmedKnown, StrikeKnown, LatestKnown, Struck, Seen
  <2> QED
    BY <2>4, <2>5, <2>6, <2>7 DEF WdInv
<1>2. ASSUME NEW c \in BeatCores, BeatNumber(c) PROVE WdInv'
  <2> DEFINE g == [gen |-> beat[c].gen, arms |-> beat[c].arms, answer |-> "none"]
             n == Len(beats)
  <2>1. /\ g_update_sequence' = n + 1 /\ beats' = Append(beats, g)
        /\ beat' = [beat EXCEPT ![c] = [beat[c] EXCEPT !.pc = "send", !.seq = n + 1]]
        /\ UNCHANGED <<vmGeneration, vmOn, g_armed_generation, g_armed_sequence, slotArmed, ownerMail, lastStrike>>
    <3>1. beat[c] \in Beat /\ DOMAIN beat = BeatCores /\ g_update_sequence = n
      BY <1>0 DEF WdTypeOK, Numbered
    <3> QED
      BY <1>2, <3>1 DEF BeatNumber
  <2>2. g \in BeatGiven /\ g.gen <= vmGeneration /\ beat[c] \in Beat
    BY <1>0 DEF WdTypeOK, Numbered, Beat, BeatGiven
  <2>3. /\ beats' \in Seq(BeatGiven) /\ Len(beats') = n + 1 /\ beats'[n + 1] = g /\ Extends(beats', beats)
    BY <1>0, <2>1, <2>2, AppendExtends DEF WdTypeOK
  <2>4. /\ beat'[c] \in Beat /\ beat'[c].seq = n + 1 /\ beat'[c].arms = g.arms /\ beat'[c].gen = g.gen
        /\ \A d \in BeatCores : d # c => beat'[d] = beat[d]
        /\ beat' \in [BeatCores -> Beat]
    <3>1. n + 1 \in Nat
      BY <1>0
    <3>2. [beat[c] EXCEPT !.pc = "send", !.seq = n + 1] \in Beat
      BY <2>2, <3>1 DEF Beat
    <3> HIDE DEF n
    <3> QED
      BY <1>0, <2>1, <2>2, <3>1, <3>2 DEF WdTypeOK, Beat
  <2>5. WdTypeOK'
    BY <1>0, <2>1, <2>3, <2>4 DEF WdTypeOK
  <2>6. RequestsKnown'
    <3>1. ASSUME NEW d \in BeatCores, beat'[d].pc = "send" PROVE OnRecord(beats', beat'[d])
      <4>1. CASE d = c
        BY <1>0, <2>3, <2>4, <4>1 DEF OnRecord
      <4>2. CASE d # c
        BY <2>3, <2>4, <3>1, <4>2, RecordsGrow
      <4> QED
        BY <4>1, <4>2
    <3>2. \A i \in 1..Len(ownerMail') : OnRecord(beats', ownerMail'[i])
      BY <2>1, <2>3, RecordsGrow
    <3> QED
      BY <3>1, <3>2 DEF RequestsKnown
  <2>7. Numbered'
    <3>1. \A i \in 1..Len(beats') : beats'[i].gen <= vmGeneration
      <4> TAKE i \in 1..Len(beats')
      <4>1. CASE i = n + 1
        BY <2>2, <2>3, <4>1
      <4>2. CASE i # n + 1
        <5>1. i \in 1..n
          BY <1>0, <2>3, <4>2
        <5> QED
          BY <1>0, <2>3, <5>1 DEF Extends, Numbered
      <4> QED
        BY <4>1, <4>2
    <3>2. \A d \in BeatCores : beat'[d].gen <= vmGeneration
      BY <1>0, <2>2, <2>4 DEF Numbered
    <3> QED
      BY <2>1, <2>3, <3>1, <3>2 DEF Numbered
  <2>8. ArmedKnown' /\ StrikeKnown'
    BY <2>1, <2>3, RecordsGrow DEF ArmedKnown, StrikeKnown
  <2>9. LatestKnown'
    BY <2>3 DEF LatestKnown, Struck, Seen
  <2> QED
    BY <2>5, <2>6, <2>7, <2>8, <2>9 DEF WdInv
<1>3. ASSUME BeatLocal PROVE WdInv'
  <2> DEFINE r == beat[Owner]
             n == Len(beats)
  <2>1. /\ r.pc = "send" /\ ApplyLocal(r) /\ beats' = [beats EXCEPT ![r.seq].answer = "ok"]
        /\ beat' = [beat EXCEPT ![Owner] = NoBeat]
        /\ UNCHANGED <<vmGeneration, vmOn, g_update_sequence, ownerMail, lastStrike>>
    BY <1>3 DEF BeatLocal, Answered
  <2>2. r \in Beat /\ OnRecord(beats, r) /\ r.seq \in 1..n
    BY <1>0, <2>1 DEF WdTypeOK, RequestsKnown, OnRecord
  <2>3. /\ g_armed_generation' \in Nat /\ g_armed_sequence' \in Nat /\ slotArmed' \in BOOLEAN
        /\ slotArmed' => /\ g_armed_sequence' \in 1..n
                         /\ beats[g_armed_sequence'].arms
                         /\ beats[g_armed_sequence'].gen = g_armed_generation'
        /\ r.seq = n /\ r.gen = vmGeneration /\ vmOn => slotArmed' = r.arms /\ g_armed_sequence' = r.seq
        /\ r.seq # n => UNCHANGED <<g_armed_generation, g_armed_sequence, slotArmed>>
    BY <2>1, <2>2, Applied
  <2>4. /\ beats' \in Seq(BeatGiven) /\ Len(beats') = n /\ Extends(beats', beats)
        /\ \A i \in 1..n : i # r.seq => beats'[i] = beats[i]
    <3>1. beats \in Seq(BeatGiven)
      BY <1>0 DEF WdTypeOK
    <3> DEFINE w == WithAnswer(beats, r.seq, "ok")
    <3>2. beats' = w
      BY <2>1 DEF WithAnswer
    <3>3. r.seq \in 1..Len(beats)
      BY <2>2
    <3>4. /\ w \in Seq(BeatGiven) /\ Len(w) = Len(beats) /\ Extends(w, beats)
          /\ \A i \in 1..Len(beats) : i # r.seq => w[i] = beats[i]
      <4> HIDE DEF r
      <4> QED
        BY <3>1, <3>3, AnswerExtends
    <3> HIDE DEF r, w
    <3> QED
      BY <3>2, <3>4
  <2>5. /\ beat' \in [BeatCores -> Beat] /\ beat'[Owner].pc = "guest" /\ beat'[Owner].gen = 0
        /\ \A d \in BeatCores : d # Owner => beat'[d] = beat[d]
    BY <1>0, <2>1 DEF WdTypeOK, NoBeat, Beat
  <2> HIDE DEF r
  <2>6. WdTypeOK'
    BY <1>0, <2>1, <2>3, <2>4, <2>5 DEF WdTypeOK
  <2>7. RequestsKnown'
    BY <2>1, <2>4, <2>5, RecordsGrow DEF RequestsKnown
  <2>8. Numbered'
    <3>1. \A i \in 1..Len(beats') : beats'[i].gen <= vmGeneration
      BY <1>0, <2>4 DEF Extends, Numbered
    <3>2. \A d \in BeatCores : beat'[d].gen <= vmGeneration
      BY <1>0, <2>5 DEF Numbered, WdTypeOK
    <3> QED
      BY <1>0, <2>1, <2>4, <3>1, <3>2 DEF Numbered
  <2>9. ArmedKnown'
    BY <1>0, <2>3, <2>4 DEF Extends, ArmedKnown
  <2>10. StrikeKnown'
    BY <2>1, <2>4, RecordsGrow DEF StrikeKnown
  <2>11. LatestKnown'
    <3> SUFFICES ASSUME beats' # <<>>, Seen(beats)'
                 PROVE  (slotArmed' = beats'[n].arms \/ Struck(beats)') /\ (slotArmed' => g_armed_sequence' = n)
      BY <2>4 DEF LatestKnown, Struck
    <3>1. n \in 1..n /\ beats # <<>>
      BY <1>0, <2>2
    <3>2. beats'[n].gen = vmGeneration /\ vmOn /\ beats'[n].answer = "ok"
          /\ \A i \in 1..Len(ownerMail) : ownerMail[i].seq # n
      BY <2>1, <2>4 DEF Seen
    <3>3. beats'[n].gen = beats[n].gen /\ beats'[n].arms = beats[n].arms
      BY <2>4, <3>1 DEF Extends
    <3>4. CASE r.seq = n
      BY <2>2, <2>3, <3>2, <3>3, <3>4 DEF OnRecord
    <3>5. CASE r.seq # n
      <4>1. beats'[n] = beats[n]
        BY <2>4, <3>1, <3>5
      <4>2. Seen(beats)
        BY <3>2, <4>1 DEF Seen
      <4> QED
        BY <1>0, <2>1, <2>3, <2>4, <3>1, <3>3, <3>5, <4>2 DEF LatestKnown, Struck
    <3> QED
      BY <3>4, <3>5
  <2> QED
    BY <2>6, <2>7, <2>8, <2>9, <2>10, <2>11 DEF WdInv
<1>4. ASSUME NEW c \in BeatCores, BeatRemote(c) PROVE WdInv'
  <2> DEFINE r == beat[c]
             n == Len(beats)
  <2>1. /\ r.pc = "send" /\ beat' = [beat EXCEPT ![c] = NoBeat]
        /\ UNCHANGED <<vmGeneration, vmOn, g_update_sequence, g_armed_generation, g_armed_sequence, slotArmed, lastStrike>>
    BY <1>4 DEF BeatRemote
  <2>2. r \in Beat /\ OnRecord(beats, r) /\ r.seq \in 1..n
    BY <1>0, <2>1 DEF WdTypeOK, RequestsKnown, OnRecord
  <2>3. PICK a \in {"ok", "refused"} :
          /\ beats' = [beats EXCEPT ![r.seq].answer = a]
          /\ \/ a = "ok" /\ ownerMail' = Append(ownerMail, r)
             \/ a = "refused" /\ ownerMail' = ownerMail
    BY <1>4 DEF BeatRemote, Answered
  <2>4. /\ beats' \in Seq(BeatGiven) /\ Len(beats') = n /\ Extends(beats', beats)
        /\ beats'[r.seq].answer = a /\ \A i \in 1..n : i # r.seq => beats'[i] = beats[i]
    <3>1. beats \in Seq(BeatGiven) /\ a \in {"none", "ok", "refused"}
      BY <1>0 DEF WdTypeOK
    <3> DEFINE w == WithAnswer(beats, r.seq, a)
    <3>2. beats' = w
      BY <2>3 DEF WithAnswer
    <3>3. r.seq \in 1..Len(beats)
      BY <2>2
    <3>4. /\ w \in Seq(BeatGiven) /\ Len(w) = Len(beats) /\ Extends(w, beats)
          /\ w[r.seq].answer = a /\ \A i \in 1..Len(beats) : i # r.seq => w[i] = beats[i]
      <4> HIDE DEF r
      <4> QED
        BY <3>1, <3>3, AnswerExtends
    <3> HIDE DEF r, w
    <3> QED
      BY <3>2, <3>4
  <2>5. /\ beat' \in [BeatCores -> Beat] /\ beat'[c].pc = "guest" /\ beat'[c].gen = 0
        /\ \A d \in BeatCores : d # c => beat'[d] = beat[d]
    BY <1>0, <2>1 DEF WdTypeOK, NoBeat, Beat
  <2> HIDE DEF r
  <2>6. /\ ownerMail' \in Seq(Beat) /\ Len(ownerMail) <= Len(ownerMail')
        /\ \A i \in 1..Len(ownerMail) : ownerMail'[i] = ownerMail[i]
        /\ \A i \in 1..Len(ownerMail') : i \in 1..Len(ownerMail) \/ ownerMail'[i] = r
        /\ a = "ok" => \E i \in 1..Len(ownerMail') : ownerMail'[i] = r
    <3>1. ownerMail \in Seq(Beat)
      BY <1>0 DEF WdTypeOK
    <3>2. CASE a = "ok" /\ ownerMail' = Append(ownerMail, r)
      <4>1. /\ Len(ownerMail') = Len(ownerMail) + 1 /\ ownerMail'[Len(ownerMail) + 1] = r
            /\ Len(ownerMail) + 1 \in 1..Len(ownerMail')
        BY <1>0, <2>2, <3>1, <3>2
      <4> QED
        BY <1>0, <2>2, <3>1, <3>2, <4>1
    <3>3. CASE a = "refused" /\ ownerMail' = ownerMail
      BY <1>0, <3>1, <3>3
    <3> QED
      BY <2>3, <3>2, <3>3
  <2>7. WdTypeOK'
    BY <1>0, <2>1, <2>4, <2>5, <2>6 DEF WdTypeOK
  <2>8. RequestsKnown'
    <3>1. \A d \in BeatCores : beat'[d].pc = "send" => OnRecord(beats', beat'[d])
      BY <2>4, <2>5, RecordsGrow
    <3>2. OnRecord(beats', r)
      BY <1>0, <2>2, <2>4, RecordKept DEF WdTypeOK
    <3>3. \A i \in 1..Len(ownerMail') : OnRecord(beats', ownerMail'[i])
      BY <2>4, <2>6, <3>2, RecordsGrow
    <3> QED
      BY <3>1, <3>3 DEF RequestsKnown
  <2>9. Numbered'
    <3>1. \A i \in 1..Len(beats') : beats'[i].gen <= vmGeneration
      BY <1>0, <2>4 DEF Extends, Numbered
    <3>2. \A d \in BeatCores : beat'[d].gen <= vmGeneration
      BY <1>0, <2>5 DEF Numbered, WdTypeOK
    <3> QED
      BY <1>0, <2>1, <2>4, <3>1, <3>2 DEF Numbered
  <2>10. ArmedKnown' /\ StrikeKnown'
    BY <2>1, <2>4, RecordsGrow DEF ArmedKnown, StrikeKnown
  <2>11. LatestKnown'
    <3> SUFFICES ASSUME beats' # <<>>, Seen(beats)'
                 PROVE  (slotArmed = beats'[n].arms \/ Struck(beats)') /\ (slotArmed => g_armed_sequence = n)
      BY <2>1, <2>4 DEF LatestKnown, Struck
    <3>1. n \in 1..n /\ beats # <<>>
      BY <1>0, <2>2
    <3>2. beats'[n].gen = vmGeneration /\ vmOn /\ beats'[n].answer = "ok"
          /\ \A i \in 1..Len(ownerMail') : ownerMail'[i].seq # n
      BY <2>1, <2>4 DEF Seen
    <3>3. r.seq # n
      BY <2>4, <2>6, <3>2
    <3>4. beats'[n] = beats[n]
      BY <2>4, <3>1, <3>3
    <3>5. ASSUME NEW i \in 1..Len(ownerMail) PROVE ownerMail[i].seq # n
      <4>1. Len(ownerMail) \in Nat /\ Len(ownerMail') \in Nat
        BY <1>0, <2>6 DEF WdTypeOK
      <4>2. i \in 1..Len(ownerMail')
        BY <2>6, <4>1
      <4>3. ownerMail'[i] = ownerMail[i]
        BY <2>6
      <4> QED
        BY <3>2, <4>2, <4>3
    <3>6. Seen(beats)
      BY <3>2, <3>4, <3>5 DEF Seen
    <3> QED
      BY <1>0, <2>1, <2>4, <3>1, <3>4, <3>6 DEF LatestKnown, Struck
  <2> QED
    BY <2>7, <2>8, <2>9, <2>10, <2>11 DEF WdInv
<1>5. ASSUME ApplyMail PROVE WdInv'
  <2> DEFINE r == Head(ownerMail)
             n == Len(beats)
  <2>1. /\ ownerMail # <<>> /\ ApplyLocal(r) /\ ownerMail' = Tail(ownerMail)
        /\ UNCHANGED <<vmGeneration, vmOn, beat, g_update_sequence, beats, lastStrike>>
    BY <1>5 DEF ApplyMail
  <2>2. /\ r = ownerMail[1] /\ 1 \in 1..Len(ownerMail) /\ ownerMail' \in Seq(Beat)
        /\ Len(ownerMail') = Len(ownerMail) - 1
        /\ \A i \in 1..Len(ownerMail') : i + 1 \in 1..Len(ownerMail) /\ ownerMail'[i] = ownerMail[i + 1]
        /\ \A i \in 1..Len(ownerMail) : i # 1 => i - 1 \in 1..Len(ownerMail') /\ ownerMail[i] = ownerMail'[i - 1]
    <3>1. ownerMail \in Seq(Beat)
      BY <1>0 DEF WdTypeOK
    <3> QED
      BY <2>1, <3>1
  <2>3. r \in Beat /\ OnRecord(beats, r)
    BY <1>0, <2>2 DEF WdTypeOK, RequestsKnown
  <2>4. /\ g_armed_generation' \in Nat /\ g_armed_sequence' \in Nat /\ slotArmed' \in BOOLEAN
        /\ slotArmed' => /\ g_armed_sequence' \in 1..n
                         /\ beats[g_armed_sequence'].arms
                         /\ beats[g_armed_sequence'].gen = g_armed_generation'
        /\ r.seq = n /\ r.gen = vmGeneration /\ vmOn => slotArmed' = r.arms /\ g_armed_sequence' = r.seq
        /\ r.seq # n => UNCHANGED <<g_armed_generation, g_armed_sequence, slotArmed>>
    BY <2>1, <2>3, Applied
  <2> HIDE DEF r
  <2>5. WdTypeOK'
    BY <1>0, <2>1, <2>2, <2>4 DEF WdTypeOK
  <2>6. RequestsKnown'
    BY <1>0, <2>1, <2>2 DEF RequestsKnown
  <2>7. Numbered' /\ StrikeKnown'
    BY <1>0, <2>1 DEF Numbered, StrikeKnown
  <2>8. ArmedKnown'
    BY <2>1, <2>4 DEF ArmedKnown
  <2>9. LatestKnown'
    <3> SUFFICES ASSUME beats # <<>>, Seen(beats)'
                 PROVE  (slotArmed' = beats[n].arms \/ Struck(beats)') /\ (slotArmed' => g_armed_sequence' = n)
      BY <2>1 DEF LatestKnown, Struck
    <3>1. beats[n].gen = vmGeneration /\ vmOn /\ beats[n].answer = "ok"
          /\ \A i \in 1..Len(ownerMail') : ownerMail'[i].seq # n
      BY <2>1 DEF Seen
    <3>2. CASE r.seq = n
      BY <2>3, <2>4, <3>1, <3>2 DEF OnRecord
    <3>3. CASE r.seq # n
      <4>1. \A i \in 1..Len(ownerMail) : ownerMail[i].seq # n
        BY <2>2, <3>1, <3>3
      <4>2. Seen(beats)
        BY <3>1, <4>1 DEF Seen
      <4> QED
        BY <1>0, <2>1, <2>4, <3>3, <4>2 DEF LatestKnown, Struck
    <3> QED
      BY <3>2, <3>3
  <2> QED
    BY <2>5, <2>6, <2>7, <2>8, <2>9 DEF WdInv
<1>6. ASSUME Expiry PROVE WdInv'
  <2> DEFINE n == Len(beats)
  <2>1. /\ slotArmed /\ slotArmed' = FALSE
        /\ UNCHANGED <<vmGeneration, beat, g_update_sequence, ownerMail, beats>>
    BY <1>6 DEF Expiry
  <2>2. /\ g_armed_sequence \in 1..n /\ beats[g_armed_sequence].arms
        /\ beats[g_armed_sequence].gen = g_armed_generation
    BY <1>0, <2>1 DEF ArmedKnown
  <2>3. CASE Accepts(g_armed_generation, g_armed_sequence)
    <3>1. /\ g_armed_generation' = 0 /\ g_armed_sequence' = 0 /\ vmOn' \in BOOLEAN
          /\ lastStrike' = [gen |-> vmGeneration, latest |-> g_update_sequence]
      BY <1>6, <2>3 DEF Expiry
    <3>2. g_armed_sequence = n /\ g_armed_generation = vmGeneration /\ g_update_sequence = n
      BY <1>0, <2>3 DEF Accepts, Numbered
    <3>3. WdTypeOK'
      <4>1. lastStrike' \in [gen : Nat, latest : Nat]
        BY <1>0, <3>1 DEF WdTypeOK
      <4> QED
        BY <1>0, <2>1, <3>1, <4>1 DEF WdTypeOK
    <3>4. RequestsKnown' /\ Numbered' /\ ArmedKnown'
      BY <1>0, <2>1 DEF RequestsKnown, Numbered, ArmedKnown
    <3>5. StrikeKnown'
      BY <2>1, <2>2, <3>1, <3>2 DEF StrikeKnown
    <3>6. LatestKnown'
      BY <2>1, <3>1, <3>2 DEF LatestKnown, Struck
    <3> QED
      BY <3>3, <3>4, <3>5, <3>6 DEF WdInv
  <2>4. CASE ~Accepts(g_armed_generation, g_armed_sequence)
    <3>1. UNCHANGED <<g_armed_generation, g_armed_sequence, lastStrike, vmOn>>
      BY <1>6, <2>4 DEF Expiry
    <3>2. ~(beats # <<>> /\ Seen(beats))
      <4> SUFFICES ASSUME beats # <<>>, Seen(beats) PROVE FALSE
        OBVIOUS
      <4>1. g_armed_sequence = n /\ beats[n].gen = vmGeneration /\ vmOn
        BY <1>0, <2>1 DEF LatestKnown, Struck, Seen
      <4>2. g_armed_generation = vmGeneration /\ vmGeneration # 0 /\ g_armed_sequence # 0 /\ g_update_sequence = n
        BY <1>0, <2>2, <4>1 DEF Numbered, WdTypeOK
      <4> QED
        BY <2>4, <4>1, <4>2 DEF Accepts
    <3>3. WdTypeOK' /\ RequestsKnown' /\ Numbered' /\ ArmedKnown' /\ StrikeKnown'
      BY <1>0, <2>1, <3>1 DEF WdTypeOK, RequestsKnown, Numbered, ArmedKnown, StrikeKnown
    <3>4. LatestKnown'
      BY <2>1, <3>1, <3>2 DEF LatestKnown, Struck, Seen
    <3> QED
      BY <3>3, <3>4 DEF WdInv
  <2> QED
    BY <2>3, <2>4
<1>7. ASSUME Stops PROVE WdInv'
  <2>1. vmOn' = FALSE /\ UNCHANGED <<vmGeneration, beat, g_update_sequence, g_armed_generation, g_armed_sequence, slotArmed, ownerMail, beats, lastStrike>>
    BY <1>7 DEF Stops
  <2>2. WdTypeOK' /\ RequestsKnown' /\ Numbered' /\ ArmedKnown' /\ StrikeKnown'
    BY <1>0, <2>1 DEF WdTypeOK, RequestsKnown, Numbered, ArmedKnown, StrikeKnown
  <2>3. LatestKnown'
    BY <2>1 DEF LatestKnown, Struck, Seen
  <2> QED
    BY <2>2, <2>3 DEF WdInv
<1>8. ASSUME Restarts PROVE WdInv'
  <2>1. /\ vmGeneration' = vmGeneration + 1 /\ vmOn' = TRUE
        /\ UNCHANGED <<beat, g_update_sequence, g_armed_generation, g_armed_sequence, slotArmed, ownerMail, beats, lastStrike>>
    BY <1>8 DEF Restarts
  <2>2. WdTypeOK' /\ RequestsKnown' /\ ArmedKnown' /\ StrikeKnown'
    BY <1>0, <2>1 DEF WdTypeOK, RequestsKnown, ArmedKnown, StrikeKnown
  <2>3. Numbered'
    <3>1. ASSUME NEW i \in 1..Len(beats) PROVE beats[i].gen <= vmGeneration'
      <4>1. beats[i] \in BeatGiven /\ beats[i].gen <= vmGeneration /\ vmGeneration \in Nat
        BY <1>0 DEF Numbered, WdTypeOK
      <4> QED
        BY <2>1, <4>1 DEF BeatGiven
    <3>2. ASSUME NEW c \in BeatCores PROVE beat[c].gen <= vmGeneration'
      <4>1. beat[c] \in Beat /\ beat[c].gen <= vmGeneration /\ vmGeneration \in Nat
        BY <1>0 DEF Numbered, WdTypeOK
      <4> QED
        BY <2>1, <4>1 DEF Beat
    <3> QED
      BY <1>0, <2>1, <3>1, <3>2 DEF Numbered
  <2>4. LatestKnown'
    <3>1. beats # <<>> => beats[Len(beats)].gen # vmGeneration'
      BY <1>0, <2>1 DEF Numbered, WdTypeOK, BeatGiven
    <3> QED
      BY <2>1, <3>1 DEF LatestKnown, Struck, Seen
  <2> QED
    BY <2>2, <2>3, <2>4 DEF WdInv
<1>9. ASSUME UNCHANGED wdVars PROVE WdInv'
  BY <1>0, <1>9 DEF WdInv, wdVars, WdTypeOK, RequestsKnown, Numbered, ArmedKnown, StrikeKnown, LatestKnown, Struck, Seen
<1> QED
  BY <1>1, <1>2, <1>3, <1>4, <1>5, <1>6, <1>7, <1>8, <1>9 DEF WdNext

-----------------------------------------------------------------------------
\* The latest beat rules: the watchdog strikes an instance only for its own
\* latest beat, and an answered beat that nothing has overtaken decides whether
\* the deadline is armed until it strikes, whether or not the reset is taken.
THEOREM LatestBeatWins == WdSpec => []LatestBeatRules
<1>1. WdInit => WdInv
  BY WdInvInit
<1>2. WdInv /\ [WdNext]_wdVars => WdInv'
  BY WdInvStep
<1>3. WdInv => LatestBeatRules
  <2> SUFFICES ASSUME WdInv PROVE LatestBeatRules
    OBVIOUS
  <2>1. DOMAIN ownerMail = 1..Len(ownerMail)
    BY DEF WdInv, WdTypeOK
  <2> QED
    BY <2>1 DEF WdInv, StrikeKnown, LatestKnown, Struck, Seen, LatestBeatRules
<1> QED
  BY <1>1, <1>2, <1>3, PTL DEF WdSpec

-----------------------------------------------------------------------------
(* The distributor: the lines are configured as asked.                     *)

-----------------------------------------------------------------------------
(* Banks.                                                                  *)

LEMMA Division ==
  ASSUME NEW n \in Nat, NEW d \in Nat \ {0}
  PROVE  /\ n \div d \in Nat /\ n % d \in 0..(d - 1)
         /\ n = d * (n \div d) + (n % d)
  OBVIOUS

\* An INTID past the private bank and below a whole number of banks lies in a
\* bank that the scrub reaches.
LEMMA BankReached ==
  ASSUME NEW d \in Nat \ {0}, NEW n \in Nat, n % d = 0, NEW i \in d..(n - 1)
  PROVE  i \div d \in 1..((n \div d) - 1)
<1> DEFINE q == i \div d
           k == n \div d
<1>1. q \in Nat /\ i % d \in 0..(d - 1) /\ i = d * q + (i % d)
  <2>1. i \in Nat
    OBVIOUS
  <2> QED
    BY <2>1, Division
<1>2. k \in Nat /\ n = d * k
  BY Division
<1> HIDE DEF q, k
<1>3. q # 0
  BY <1>1
<1>4. ~(k <= q)
  <2> SUFFICES ASSUME k <= q PROVE FALSE
    OBVIOUS
  <2>1. PICK e \in Nat : q = k + e
    BY <1>1, <1>2
  <2>2. d * q = d * k + d * e
    BY <2>1, <1>1, <1>2
  <2>3. d * e \in Nat
    BY <2>1
  <2>4. d * q \in Nat /\ d * k \in Nat
    BY <1>1, <1>2
  <2> QED
    BY <1>1, <1>2, <2>2, <2>3, <2>4
<1> QED
  BY <1>1, <1>2, <1>3, <1>4 DEF q, k

-----------------------------------------------------------------------------
(* The registers: a read-modify-write of a word read under the lock changes *)
(* one bit.                                                                *)

LEMMA SameWord ==
  ASSUME NEW i \in Intids
  PROVE  /\ i \in SameBank(i) /\ SameBank(i) \subseteq Intids
         /\ i \in SameConfig(i) /\ SameConfig(i) \subseteq Intids
  BY DEF SameBank, SameConfig, Intids

LEMMA OneBit ==
  ASSUME NEW reg \in [Intids -> BOOLEAN], NEW i \in Intids, NEW b \in BOOLEAN
  PROVE  LET new == WordStored(reg, [Word(reg, SameBank(i)) EXCEPT ![i] = b])
         IN  /\ new \in [Intids -> BOOLEAN]
             /\ \A j \in Intids : j # i => new[j] = reg[j]
             /\ new[i] = IF SecureOwned(i) THEN reg[i] ELSE b
<1> DEFINE w   == Word(reg, SameBank(i))
           v   == [w EXCEPT ![i] = b]
           new == WordStored(reg, v)
<1>1. i \in SameBank(i) /\ SameBank(i) \subseteq Intids
  BY SameWord
<1>2. DOMAIN w = SameBank(i) /\ \A j \in SameBank(i) : w[j] = (reg[j] /\ ~SecureOwned(j))
  BY DEF Word
<1>3. DOMAIN v = SameBank(i) /\ v[i] = b /\ \A j \in SameBank(i) : j # i => v[j] = w[j]
  BY <1>1, <1>2 DEF Word
<1>4. \A j \in Intids : new[j] = IF j \in SameBank(i) /\ ~SecureOwned(j) THEN v[j] ELSE reg[j]
  BY <1>3 DEF WordStored
<1>5. ASSUME NEW j \in Intids, j # i PROVE new[j] = reg[j]
  <2>1. CASE j \in SameBank(i) /\ ~SecureOwned(j)
    <3>1. v[j] = (reg[j] /\ ~SecureOwned(j))
      BY <1>2, <1>3, <1>5, <2>1
    <3>2. reg[j] \in BOOLEAN
      OBVIOUS
    <3>3. v[j] = reg[j]
      BY <2>1, <3>1, <3>2
    <3> QED
      BY <1>4, <2>1, <3>3
  <2>2. CASE ~(j \in SameBank(i) /\ ~SecureOwned(j))
    BY <1>4, <2>2
  <2> QED
    BY <2>1, <2>2
<1>6. new[i] = IF SecureOwned(i) THEN reg[i] ELSE b
  BY <1>1, <1>3, <1>4
<1>7. new \in [Intids -> BOOLEAN]
  <2>1. new = [j \in Intids |-> new[j]]
    BY DEF WordStored
  <2>2. \A j \in Intids : new[j] \in BOOLEAN
    BY <1>5, <1>6
  <2> QED
    BY <2>1, <2>2
<1> QED
  BY <1>5, <1>6, <1>7

-----------------------------------------------------------------------------
(* The inductive invariant.                                                *)

Holding_ == {"disable", "read group", "write group", "read grpmod", "write grpmod", "verify",
             "read config", "write config", "route"}
Alone_   == {"lock", "mask", "unmask", "clear", "quarantine", "settle"}
SpiWords == UNION {[S -> BOOLEAN] : S \in SUBSET Intids}
SpiOps_  == [pc : Holding_ \cup Alone_ \cup {"none"}, intid : Intids, edge : BOOLEAN,
             core : GicCores \cup {Elsewhere}, word : SpiWords, opens : BOOLEAN]

DistTypeOK ==
  /\ gicd_lines \in Nat /\ gicd_ctlr \in {"inherited", "routing", "forwarding"}
  /\ gicd_group \in [Intids -> BOOLEAN] /\ gicd_grpmod \in [Intids -> BOOLEAN]
  /\ gicd_enabled \in [Intids -> BOOLEAN] /\ gicd_pending \in [Intids -> BOOLEAN]
  /\ gicd_active \in [Intids -> BOOLEAN] /\ gicd_edge \in [Intids -> BOOLEAN]
  /\ gicd_route \in [Intids -> GicCores \cup {Elsewhere}]
  /\ config_lock \in GicCores \cup {Nobody}
  /\ spiOp \in [GicCores -> SpiOps_]
  /\ asked \in [Intids -> [edge : BOOLEAN, core : GicCores \cup {Elsewhere}]]

\* An operation works on an INTID the board has, after the scrub.
OnBoard ==
  \A c \in GicCores : spiOp[c].pc # "none" =>
    gicd_ctlr = "forwarding" /\ spiOp[c].intid \in SpiIds /\ spiOp[c].core \in GicCores

\* Whoever is in the configuration holds the lock.
LockHeld == \A c \in GicCores : spiOp[c].pc \in Holding_ <=> config_lock = c

Grouped == {"read grpmod", "write grpmod", "verify", "read config", "write config", "route"}
Passed  == {"read config", "write config", "route"}

\* What the holder has read is what the registers hold, and what it has
\* written stays written.
Knows(c) ==
  LET op == spiOp[c]
      i  == op.intid
  IN /\ op.pc = "write group" => op.word = Word(gicd_group, SameBank(i))
     /\ op.pc = "write grpmod" => op.word = Word(gicd_grpmod, SameBank(i))
     /\ op.pc = "write config" => op.word = [j \in SameConfig(i) |-> gicd_edge[j]]
     /\ op.pc \in Grouped => SecureOwned(i) \/ gicd_group[i]
     /\ op.pc \in Passed \cup {"verify"} => SecureOwned(i) \/ ~gicd_grpmod[i]
     /\ op.pc \in Passed => ~SecureOwned(i)
     /\ op.pc = "route" => gicd_edge[i] = op.edge
HolderKnows == \A c \in GicCores : Knows(c)

\* The group of an SPI that was configured is kept even while it is configured
\* again.
AskedKept ==
  \A i \in Intids : asked[i] # NotAsked =>
    /\ i \in SpiIds \ FirmwareOwned
    /\ gicd_group[i] /\ ~gicd_grpmod[i]
    /\ ~Configuring(i) => gicd_edge[i] = asked[i].edge /\ gicd_route[i] = asked[i].core

\* On a board whose last bank is whole the scrub reaches whatever was left.
ScrubReaches ==
  implemented_intids % IntidsPerBank = 0 =>
    IF gicd_ctlr = "forwarding"
    THEN \A i \in Intids : (gicd_enabled[i] => i \in unmasked) /\ ~gicd_pending[i] /\ ~gicd_active[i]
    ELSE \A i \in Intids : gicd_enabled[i] \/ gicd_pending[i] \/ gicd_active[i] => i \in SpiIds

DistInv == DistTypeOK /\ OnBoard /\ LockHeld /\ HolderKnows /\ AskedKept /\ ScrubReaches

-----------------------------------------------------------------------------
LEMMA BoardFixed ==
  ASSUME gicd_lines' = gicd_lines
  PROVE  implemented_intids' = implemented_intids /\ implemented_banks' = implemented_banks /\ SpiIds' = SpiIds
  BY DEF implemented_intids, implemented_banks, SpiIds, spi_implemented, spi_registers_valid, Intids

LEMMA LinesFixed == [DistNext]_distVars => gicd_lines' = gicd_lines
  BY ZenonT(40) DEF DistNext, distVars, gicRegs, Operate, EnableRouting, ScrubAndForward, BeginConfigure, BeginWrite, Begin_, Lock,
         ConfigDisable, Disable, ReadGroup, WriteGroup, ReadGrpmod, WriteGrpmod, Verify, ReadConfig, WriteConfig, Route_,
         Mask, Unmask, ClearPending, Quarantine, Settle

LEMMA SpisAreIntids == DistTypeOK => SpiIds \subseteq Intids /\ 0 \in Intids
  BY DistributorAssumption DEF SpiIds, Intids

LEMMA NoWordType == NoWord \in SpiWords
<1>1. NoWord \in [{} -> BOOLEAN] /\ {} \in SUBSET Intids
  BY DEF NoWord
<1> QED
  BY <1>1 DEF SpiWords

LEMMA WordsType ==
  ASSUME NEW i \in Intids, NEW reg \in [Intids -> BOOLEAN]
  PROVE  Word(reg, SameBank(i)) \in SpiWords /\ [j \in SameConfig(i) |-> reg[j]] \in SpiWords
<1>1. SameBank(i) \subseteq Intids /\ SameConfig(i) \subseteq Intids
  BY SameWord
<1>2. [j \in SameConfig(i) |-> reg[j]] \in [SameConfig(i) -> BOOLEAN]
  BY <1>1
<1>3. Word(reg, SameBank(i)) \in [SameBank(i) -> BOOLEAN]
  <2>1. \A j \in SameBank(i) : (reg[j] /\ ~SecureOwned(j)) \in BOOLEAN
    OBVIOUS
  <2> QED
    BY <2>1 DEF Word
<1> QED
  BY <1>1, <1>2, <1>3 DEF SpiWords

\* A stored word leaves every register a Boolean, whatever was carried.
LEMMA StoredType ==
  ASSUME NEW reg \in [Intids -> BOOLEAN], NEW w \in SpiWords, NEW i \in Intids, NEW b \in BOOLEAN
  PROVE  WordStored(reg, [w EXCEPT ![i] = b]) \in [Intids -> BOOLEAN]
<1> DEFINE v == [w EXCEPT ![i] = b]
<1>1. PICK S \in SUBSET Intids : w \in [S -> BOOLEAN]
  BY DEF SpiWords
<1>2. DOMAIN v = S /\ \A j \in S : v[j] \in BOOLEAN
  BY <1>1
<1> HIDE DEF v
<1>3. \A j \in Intids : (IF j \in DOMAIN v /\ ~SecureOwned(j) THEN v[j] ELSE reg[j]) \in BOOLEAN
  BY <1>2
<1> QED
  BY <1>3 DEF WordStored, v

LEMMA ConfigStoredType ==
  ASSUME NEW reg \in [Intids -> BOOLEAN], NEW w \in SpiWords, NEW i \in Intids, NEW b \in BOOLEAN
  PROVE  LET v == [w EXCEPT ![i] = b]
         IN  [j \in Intids |-> IF j \in DOMAIN v THEN v[j] ELSE reg[j]] \in [Intids -> BOOLEAN]
<1> DEFINE v == [w EXCEPT ![i] = b]
<1>1. PICK S \in SUBSET Intids : w \in [S -> BOOLEAN]
  BY DEF SpiWords
<1>2. DOMAIN v = S /\ \A j \in S : v[j] \in BOOLEAN
  BY <1>1
<1> HIDE DEF v
<1>3. \A j \in Intids : (IF j \in DOMAIN v THEN v[j] ELSE reg[j]) \in BOOLEAN
  BY <1>2
<1> QED
  BY <1>3 DEF v

\* The shape of the next operation of a core.
LEMMA OpType ==
  ASSUME DistTypeOK, NEW c \in GicCores
  PROVE  /\ spiOp[c] \in SpiOps_
         /\ spiOp[c].intid \in Intids /\ spiOp[c].edge \in BOOLEAN /\ spiOp[c].opens \in BOOLEAN
         /\ spiOp[c].core \in GicCores \cup {Elsewhere} /\ spiOp[c].word \in SpiWords
  BY DEF DistTypeOK, SpiOps_

LEMMA MoveType ==
  ASSUME DistTypeOK, NEW c \in GicCores, NEW pc \in Holding_ \cup Alone_, NEW w \in SpiWords
  PROVE  /\ To(c, pc) => spiOp' \in [GicCores -> SpiOps_]
         /\ Holding(c, pc, w) => spiOp' \in [GicCores -> SpiOps_]
         /\ Done(c) => spiOp' \in [GicCores -> SpiOps_]
<1>1. [spiOp[c] EXCEPT !.pc = pc] \in SpiOps_ /\ [spiOp[c] EXCEPT !.pc = pc, !.word = w] \in SpiOps_
  BY OpType DEF SpiOps_
<1>2. NoSpiOp \in SpiOps_
  BY NoWordType, SpisAreIntids DEF NoSpiOp, SpiOps_
<1> QED
  BY <1>1, <1>2 DEF DistTypeOK, To, Holding, Done

-----------------------------------------------------------------------------
(* Types.                                                                  *)

LEMMA DistTypeInit == DistInit => DistTypeOK
<1> SUFFICES ASSUME DistInit PROVE DistTypeOK
  OBVIOUS
<1>1. gicd_lines \in Nat
  BY DistributorAssumption DEF DistInit
<1>2. NoSpiOp \in SpiOps_
  <2>1. 0 \in Intids
    BY DistributorAssumption DEF Intids
  <2> QED
    BY <2>1, NoWordType DEF NoSpiOp, SpiOps_
<1>3. \A i \in Intids : (i \in SpiIds) \in BOOLEAN
  OBVIOUS
<1>4. /\ gicd_enabled \in [Intids -> BOOLEAN] /\ gicd_grpmod \in [Intids -> BOOLEAN]
      /\ gicd_pending \in [Intids -> BOOLEAN] /\ gicd_active \in [Intids -> BOOLEAN]
  BY <1>3 DEF DistInit
<1>5. NotAsked \in [edge : BOOLEAN, core : GicCores \cup {Elsewhere}]
  BY DEF NotAsked
<1> QED
  BY <1>1, <1>2, <1>4, <1>5 DEF DistInit, DistTypeOK

LEMMA DistTypeStep ==
  ASSUME DistTypeOK, [DistNext]_distVars
  PROVE  DistTypeOK'
<1>1. gicd_lines' \in Nat
  BY LinesFixed DEF DistTypeOK
<1>2. CASE EnableRouting
  BY <1>1, <1>2 DEF EnableRouting, DistTypeOK
<1>3. CASE ScrubAndForward
  <2>1. \A i \in Intids : /\ (gicd_enabled[i] /\ ~Scrubbed(i)) \in BOOLEAN
                          /\ (gicd_pending[i] /\ ~Scrubbed(i)) \in BOOLEAN
                          /\ (gicd_active[i] /\ ~Scrubbed(i)) \in BOOLEAN
    OBVIOUS
  <2>2. /\ gicd_enabled' \in [Intids -> BOOLEAN] /\ gicd_pending' \in [Intids -> BOOLEAN]
        /\ gicd_active' \in [Intids -> BOOLEAN]
    BY <1>3, <2>1 DEF ScrubAndForward
  <2> QED
    BY <1>1, <1>3, <2>2 DEF ScrubAndForward, DistTypeOK
<1>4. ASSUME NEW c \in GicCores, Operate(c) PROVE DistTypeOK'
  <2> DEFINE i == spiOp[c].intid
  <2>0. i \in Intids
    BY OpType
  <2>1. ASSUME NEW pc \in {"lock", "mask", "unmask", "clear", "quarantine"}, NEW intid \in TriedIntids,
               NEW edge \in BOOLEAN, NEW core \in {c, Elsewhere}, NEW opens \in BOOLEAN,
               Begin_(c, pc, intid, edge, core, opens)
        PROVE  DistTypeOK'
    <3> DEFINE op == [pc |-> pc, intid |-> intid, edge |-> edge, core |-> core, word |-> NoWord, opens |-> opens]
    <3>1. spi_implemented(intid) => op \in SpiOps_
      <4>1. spi_implemented(intid) => intid \in Intids
        BY DistributorAssumption DEF spi_implemented, spi_registers_valid, Intids
      <4> QED
        BY <4>1, NoWordType DEF SpiOps_, Alone_
    <3>2. spiOp' \in [GicCores -> SpiOps_]
      BY <2>1, <3>1 DEF Begin_, DistTypeOK
    <3> QED
      BY <1>1, <2>1, <3>2 DEF Begin_, DistTypeOK, gicRegs
  <2>2. CASE BeginConfigure(c)
    BY <2>1, <2>2 DEF BeginConfigure
  <2>3. CASE BeginWrite(c)
    BY <2>1, <2>3 DEF BeginWrite
  <2>4. CASE Lock(c)
    BY <1>1, <2>4, MoveType, NoWordType DEF Lock, TakeLock, DistTypeOK, gicRegs, Holding_
  <2>5. CASE ConfigDisable(c)
    BY <1>1, <2>0, <2>5, MoveType, NoWordType DEF ConfigDisable, Disable, DistTypeOK, Holding_
  <2>6. CASE ReadGroup(c)
    <3>1. Word(gicd_group, SameBank(i)) \in SpiWords
      BY <2>0, WordsType DEF DistTypeOK
    <3> QED
      BY <1>1, <2>6, <3>1, MoveType DEF ReadGroup, DistTypeOK, gicRegs, Holding_
  <2>7. CASE WriteGroup(c)
    <3>1. gicd_group' \in [Intids -> BOOLEAN]
      <4>1. WordStored(gicd_group, [spiOp[c].word EXCEPT ![i] = TRUE]) \in [Intids -> BOOLEAN]
        BY <2>0, OpType, StoredType DEF DistTypeOK
      <4> QED
        BY <2>7, <4>1 DEF WriteGroup
    <3> QED
      BY <1>1, <2>7, <3>1, MoveType, NoWordType DEF WriteGroup, DistTypeOK, Holding_
  <2>8. CASE ReadGrpmod(c)
    <3>1. Word(gicd_grpmod, SameBank(i)) \in SpiWords
      BY <2>0, WordsType DEF DistTypeOK
    <3> QED
      BY <1>1, <2>8, <3>1, MoveType DEF ReadGrpmod, DistTypeOK, gicRegs, Holding_
  <2>9. CASE WriteGrpmod(c)
    <3>1. gicd_grpmod' \in [Intids -> BOOLEAN]
      <4>1. WordStored(gicd_grpmod, [spiOp[c].word EXCEPT ![i] = FALSE]) \in [Intids -> BOOLEAN]
        BY <2>0, OpType, StoredType DEF DistTypeOK
      <4> QED
        BY <2>9, <4>1 DEF WriteGrpmod
    <3> QED
      BY <1>1, <2>9, <3>1, MoveType, NoWordType DEF WriteGrpmod, DistTypeOK, Holding_
  <2>10. CASE Verify(c)
    BY <1>1, <2>10, MoveType, NoWordType DEF Verify, DistTypeOK, gicRegs, Holding_
  <2>11. CASE ReadConfig(c)
    <3>1. [j \in SameConfig(i) |-> gicd_edge[j]] \in SpiWords
      BY <2>0, WordsType DEF DistTypeOK
    <3> QED
      BY <1>1, <2>11, <3>1, MoveType DEF ReadConfig, DistTypeOK, gicRegs, Holding_
  <2>12. CASE WriteConfig(c)
    <3>1. gicd_edge' \in [Intids -> BOOLEAN]
      <4> DEFINE v == [spiOp[c].word EXCEPT ![i] = spiOp[c].edge]
      <4>1. [j \in Intids |-> IF j \in DOMAIN v THEN v[j] ELSE gicd_edge[j]] \in [Intids -> BOOLEAN]
        BY <2>0, OpType, ConfigStoredType DEF DistTypeOK
      <4> QED
        BY <2>12, <4>1 DEF WriteConfig
    <3> QED
      BY <1>1, <2>12, <3>1, MoveType, NoWordType DEF WriteConfig, DistTypeOK, Holding_
  <2>13. CASE Route_(c)
    <3>1. [spiOp[c] EXCEPT !.pc = "unmask", !.word = NoWord] \in SpiOps_
      BY OpType, NoWordType DEF SpiOps_, Alone_
    <3>2. NoSpiOp \in SpiOps_
      BY NoWordType, SpisAreIntids DEF NoSpiOp, SpiOps_
    <3>3. spiOp' \in [GicCores -> SpiOps_]
      BY <2>13, <3>1, <3>2 DEF Route_, DistTypeOK
    <3>4. gicd_route' \in [Intids -> GicCores \cup {Elsewhere}]
      BY <2>13, OpType DEF Route_, DistTypeOK
    <3>5. asked' \in [Intids -> [edge : BOOLEAN, core : GicCores \cup {Elsewhere}]]
      BY <2>13, OpType DEF Route_, DistTypeOK
    <3> QED
      BY <1>1, <2>13, <3>3, <3>4, <3>5 DEF Route_, DistTypeOK
  <2>14. CASE Mask(c)
    BY <1>1, <2>0, <2>14, MoveType, NoWordType DEF Mask, Disable, DistTypeOK, Holding_
  <2>15. CASE Unmask(c)
    BY <1>1, <2>0, <2>15, MoveType, NoWordType DEF Unmask, DistTypeOK, Holding_
  <2>16. CASE ClearPending(c)
    BY <1>1, <2>0, <2>16, MoveType, NoWordType DEF ClearPending, DistTypeOK, Holding_
  <2>17. CASE Quarantine(c)
    BY <1>1, <2>0, <2>17, MoveType, NoWordType DEF Quarantine, Disable, DistTypeOK, Alone_
  <2>18. CASE Settle(c)
    BY <1>1, <2>0, <2>18, MoveType, NoWordType DEF Settle, DistTypeOK, Holding_
  <2> QED
    BY <1>4, <2>2, <2>3, <2>4, <2>5, <2>6, <2>7, <2>8, <2>9, <2>10, <2>11, <2>12, <2>13, <2>14, <2>15, <2>16, <2>17, <2>18
    DEF Operate
<1>5. CASE UNCHANGED distVars
  BY <1>5 DEF distVars, gicRegs, DistTypeOK
<1> QED
  BY <1>2, <1>3, <1>4, <1>5 DEF DistNext
-----------------------------------------------------------------------------
(* Operations.                                                             *)

\* A core moves only its own operation.
Keeps(c) ==
  /\ spiOp'[c].intid = spiOp[c].intid /\ spiOp'[c].edge = spiOp[c].edge
  /\ spiOp'[c].core = spiOp[c].core
Others(c) == \A d \in GicCores \ {c} : spiOp'[d] = spiOp[d]

LEMMA MoveValue ==
  ASSUME DistTypeOK, NEW c \in GicCores, NEW pc, NEW w
  PROVE  /\ To(c, pc) => Others(c) /\ Keeps(c) /\ spiOp'[c].pc = pc /\ spiOp'[c].word = spiOp[c].word
         /\ Holding(c, pc, w) => Others(c) /\ Keeps(c) /\ spiOp'[c].pc = pc /\ spiOp'[c].word = w
         /\ Done(c) => Others(c) /\ spiOp'[c].pc = "none"
<1>1. spiOp \in [GicCores -> SpiOps_] /\ spiOp[c] \in SpiOps_
  BY OpType DEF DistTypeOK
<1>2. ASSUME To(c, pc) PROVE Others(c) /\ Keeps(c) /\ spiOp'[c].pc = pc /\ spiOp'[c].word = spiOp[c].word
  BY <1>1, <1>2 DEF To, Others, Keeps, SpiOps_
<1>3. ASSUME Holding(c, pc, w) PROVE Others(c) /\ Keeps(c) /\ spiOp'[c].pc = pc /\ spiOp'[c].word = w
  BY <1>1, <1>3 DEF Holding, Others, Keeps, SpiOps_
<1>4. ASSUME Done(c) PROVE Others(c) /\ spiOp'[c].pc = "none"
  BY <1>1, <1>4 DEF Done, NoSpiOp, Others
<1> QED
  BY <1>2, <1>3, <1>4

\* An operation begins on an INTID and a core that the board has, or not at all.
LEMMA BeginValue ==
  ASSUME DistTypeOK, NEW c \in GicCores, BeginConfigure(c) \/ BeginWrite(c)
  PROVE  /\ Others(c) /\ spiOp[c].pc = "none" /\ spiOp'[c].pc \in Alone_ \cup {"none"}
         /\ spiOp'[c].pc # "none" =>
              gicd_ctlr = "forwarding" /\ spiOp'[c].intid \in SpiIds /\ spiOp'[c].core \in GicCores
         /\ UNCHANGED <<gicd_lines, gicRegs, config_lock, asked, unmasked>>
<1> DEFINE Goal ==
      /\ Others(c) /\ spiOp[c].pc = "none" /\ spiOp'[c].pc \in Alone_ \cup {"none"}
      /\ spiOp'[c].pc # "none" =>
           gicd_ctlr = "forwarding" /\ spiOp'[c].intid \in SpiIds /\ spiOp'[c].core \in GicCores
      /\ UNCHANGED <<gicd_lines, gicRegs, config_lock, asked, unmasked>>
<1>1. ASSUME NEW pc \in {"lock", "mask", "unmask", "clear", "quarantine"}, NEW intid \in TriedIntids,
             NEW edge \in BOOLEAN, NEW core \in {c, Elsewhere}, NEW opens \in BOOLEAN,
             Begin_(c, pc, intid, edge, core, opens)
      PROVE  Goal
  <2>1. spi_implemented(intid) => intid \in SpiIds
    BY DistributorAssumption DEF SpiIds, Intids, spi_implemented, spi_registers_valid
  <2>2. CASE spi_implemented(intid) /\ core \in GicCores
    BY <1>1, <2>1, <2>2 DEF Begin_, DistTypeOK, Alone_, Others
  <2>3. CASE ~(spi_implemented(intid) /\ core \in GicCores)
    BY <1>1, <2>3 DEF Begin_, Others
  <2> QED
    BY <2>2, <2>3
<1> HIDE DEF Goal
<1>2. ASSUME BeginConfigure(c) PROVE Goal
  BY <1>1, <1>2 DEF BeginConfigure
<1>3. ASSUME BeginWrite(c) PROVE Goal
  BY <1>1, <1>3 DEF BeginWrite
<1> QED
  BY <1>2, <1>3 DEF Goal

LEMMA RouteValue ==
  ASSUME DistTypeOK, NEW c \in GicCores, Route_(c)
  PROVE  /\ Others(c) /\ spiOp'[c].pc \in {"none", "unmask"}
         /\ spiOp'[c].pc # "none" => Keeps(c)
<1>1. spiOp \in [GicCores -> SpiOps_] /\ spiOp[c] \in SpiOps_
  BY OpType DEF DistTypeOK
<1>2. CASE spiOp[c].opens
  <2>1. spiOp' = [spiOp EXCEPT ![c] = [spiOp[c] EXCEPT !.pc = "unmask", !.word = NoWord]]
    BY <1>2 DEF Route_
  <2> QED
    BY <1>1, <2>1 DEF Others, Keeps, SpiOps_
<1>3. CASE ~spiOp[c].opens
  <2>1. spiOp' = [spiOp EXCEPT ![c] = NoSpiOp]
    BY <1>3 DEF Route_
  <2> QED
    BY <1>1, <2>1 DEF Others, NoSpiOp
<1> QED
  BY <1>2, <1>3

\* What every step of an operation does to the operation itself.
LEMMA OpMoves ==
  ASSUME DistTypeOK, NEW c \in GicCores, Operate(c)
  PROVE  /\ Others(c) /\ gicd_ctlr' = gicd_ctlr
         /\ spiOp'[c].pc # "none" /\ spiOp[c].pc = "none" =>
              gicd_ctlr = "forwarding" /\ spiOp'[c].intid \in SpiIds /\ spiOp'[c].core \in GicCores
         /\ spiOp'[c].pc # "none" /\ spiOp[c].pc # "none" => Keeps(c)
<1>1. CASE BeginConfigure(c) \/ BeginWrite(c)
  BY <1>1, BeginValue DEF gicRegs
<1>2. CASE Lock(c)
  BY <1>2, MoveValue DEF Lock, gicRegs
<1>3. CASE ConfigDisable(c)
  BY <1>3, MoveValue DEF ConfigDisable, Disable
<1>4. CASE ReadGroup(c)
  BY <1>4, MoveValue DEF ReadGroup, gicRegs
<1>5. CASE WriteGroup(c)
  BY <1>5, MoveValue DEF WriteGroup
<1>6. CASE ReadGrpmod(c)
  BY <1>6, MoveValue DEF ReadGrpmod, gicRegs
<1>7. CASE WriteGrpmod(c)
  BY <1>7, MoveValue DEF WriteGrpmod
<1>8. CASE Verify(c)
  BY <1>8, MoveValue DEF Verify, gicRegs
<1>9. CASE ReadConfig(c)
  BY <1>9, MoveValue DEF ReadConfig, gicRegs
<1>10. CASE WriteConfig(c)
  BY <1>10, MoveValue DEF WriteConfig
<1>11. CASE Route_(c)
  BY <1>11, RouteValue DEF Route_
<1>12. CASE Mask(c)
  BY <1>12, MoveValue DEF Mask, Disable
<1>13. CASE Unmask(c)
  BY <1>13, MoveValue DEF Unmask
<1>14. CASE ClearPending(c)
  BY <1>14, MoveValue DEF ClearPending
<1>15. CASE Quarantine(c)
  BY <1>15, MoveValue DEF Quarantine, Disable
<1>16. CASE Settle(c)
  BY <1>16, MoveValue DEF Settle
<1> QED
  BY <1>1, <1>2, <1>3, <1>4, <1>5, <1>6, <1>7, <1>8, <1>9, <1>10, <1>11, <1>12, <1>13, <1>14, <1>15, <1>16 DEF Operate

LEMMA OnBoardStep ==
  ASSUME DistTypeOK, OnBoard, [DistNext]_distVars
  PROVE  OnBoard'
<1>1. SpiIds' = SpiIds
  BY BoardFixed, LinesFixed
<1>2. CASE EnableRouting \/ ScrubAndForward
  BY <1>1, <1>2 DEF EnableRouting, ScrubAndForward, OnBoard
<1>3. ASSUME NEW c \in GicCores, Operate(c) PROVE OnBoard'
  BY <1>1, <1>3, OpMoves DEF OnBoard, Others, Keeps
<1>4. CASE UNCHANGED distVars
  BY <1>1, <1>4 DEF distVars, gicRegs, OnBoard
<1> QED
  BY <1>2, <1>3, <1>4 DEF DistNext

\* The lock is taken when it is free and left by its holder.
LEMMA LockStep ==
  ASSUME DistTypeOK, LockHeld, [DistNext]_distVars
  PROVE  LockHeld'
<1>0. \A d \in GicCores : d # Nobody
  BY DistributorAssumption DEF Nobody
<1>1. CASE EnableRouting \/ ScrubAndForward
  BY <1>1 DEF EnableRouting, ScrubAndForward, LockHeld
<1>2. ASSUME NEW c \in GicCores, Operate(c) PROVE LockHeld'
  <2> DEFINE Outside == config_lock' = config_lock /\ spiOp[c].pc \notin Holding_ /\ spiOp'[c].pc \notin Holding_
             Enters  == config_lock = Nobody /\ config_lock' = c /\ spiOp'[c].pc \in Holding_
             Inside  == config_lock' = config_lock /\ spiOp[c].pc \in Holding_ /\ spiOp'[c].pc \in Holding_
             Leaves  == config_lock' = Nobody /\ spiOp[c].pc \in Holding_ /\ spiOp'[c].pc \notin Holding_
  <2>1. ASSUME BeginConfigure(c) \/ BeginWrite(c) PROVE Outside
    BY <2>1, BeginValue DEF Alone_, Holding_
  <2>2. ASSUME Lock(c) PROVE Enters
    BY <2>2, MoveValue DEF Lock, TakeLock, Holding_
  <2>3. ASSUME \/ ConfigDisable(c) \/ ReadGroup(c) \/ WriteGroup(c) \/ ReadGrpmod(c) \/ WriteGrpmod(c)
               \/ ReadConfig(c) \/ WriteConfig(c)
        PROVE  Inside
    <3>1. CASE ConfigDisable(c)
      BY <3>1, MoveValue DEF ConfigDisable, Disable, Holding_
    <3>2. CASE ReadGroup(c)
      BY <3>2, MoveValue DEF ReadGroup, Holding_
    <3>3. CASE WriteGroup(c)
      BY <3>3, MoveValue DEF WriteGroup, Holding_
    <3>4. CASE ReadGrpmod(c)
      BY <3>4, MoveValue DEF ReadGrpmod, Holding_
    <3>5. CASE WriteGrpmod(c)
      BY <3>5, MoveValue DEF WriteGrpmod, Holding_
    <3>6. CASE ReadConfig(c)
      BY <3>6, MoveValue DEF ReadConfig, Holding_
    <3>7. CASE WriteConfig(c)
      BY <3>7, MoveValue DEF WriteConfig, Holding_
    <3> QED
      BY <2>3, <3>1, <3>2, <3>3, <3>4, <3>5, <3>6, <3>7
  <2>4. ASSUME Verify(c) PROVE Inside \/ Leaves
    BY <2>4, MoveValue DEF Verify, Holding_
  <2>5. ASSUME Route_(c) PROVE Leaves
    BY <2>5, RouteValue DEF Route_, Holding_
  <2>6. ASSUME Mask(c) \/ Unmask(c) \/ ClearPending(c) \/ Quarantine(c) \/ Settle(c)
        PROVE  Outside
    <3>1. CASE Mask(c)
      BY <3>1, MoveValue DEF Mask, Disable, Holding_
    <3>2. CASE Unmask(c)
      BY <3>2, MoveValue DEF Unmask, Holding_
    <3>3. CASE ClearPending(c)
      BY <3>3, MoveValue DEF ClearPending, Holding_
    <3>4. CASE Quarantine(c)
      <4>1. spiOp'[c].pc = "settle"
        BY <3>4, MoveValue DEF Quarantine
      <4> QED
        BY <3>4, <4>1 DEF Quarantine, Disable, Holding_
    <3>5. CASE Settle(c)
      BY <3>5, MoveValue DEF Settle, Holding_
    <3> QED
      BY <2>6, <3>1, <3>2, <3>3, <3>4, <3>5
  <2>7. Outside \/ Enters \/ Inside \/ Leaves
    BY <1>2, <2>1, <2>2, <2>3, <2>4, <2>5, <2>6 DEF Operate
  <2> HIDE DEF Outside, Enters, Inside, Leaves
  <2>8. CASE Outside
    BY <1>0, <1>2, <2>8, OpMoves DEF LockHeld, Others, Outside
  <2>9. CASE Enters
    BY <1>0, <1>2, <2>9, OpMoves DEF LockHeld, Others, Enters
  <2>10. CASE Inside
    BY <1>0, <1>2, <2>10, OpMoves DEF LockHeld, Others, Inside
  <2>11. CASE Leaves
    BY <1>0, <1>2, <2>11, OpMoves DEF LockHeld, Others, Leaves
  <2> QED
    BY <2>7, <2>8, <2>9, <2>10, <2>11
<1>3. CASE UNCHANGED distVars
  BY <1>3 DEF distVars, gicRegs, LockHeld
<1> QED
  BY <1>1, <1>2, <1>3 DEF DistNext
-----------------------------------------------------------------------------
(* What an operation does to the words it shares.                          *)

\* Only the three writes touch the shared words.
LEMMA Untouched ==
  ASSUME DistTypeOK, NEW c \in GicCores, Operate(c), ~WriteGroup(c), ~WriteGrpmod(c), ~WriteConfig(c)
  PROVE  UNCHANGED <<gicd_group, gicd_grpmod, gicd_edge>>
<1>1. CASE BeginConfigure(c) \/ BeginWrite(c)
  BY <1>1, BeginValue DEF gicRegs
<1>2. CASE Lock(c) \/ ConfigDisable(c) \/ ReadGroup(c) \/ ReadGrpmod(c) \/ Verify(c) \/ ReadConfig(c) \/ Route_(c)
  BY <1>2 DEF Lock, ConfigDisable, Disable, ReadGroup, ReadGrpmod, Verify, ReadConfig, Route_, gicRegs
<1>3. CASE Mask(c) \/ Unmask(c) \/ ClearPending(c) \/ Quarantine(c) \/ Settle(c)
  BY <1>3 DEF Mask, Unmask, ClearPending, Quarantine, Settle, Disable
<1> QED
  BY <1>1, <1>2, <1>3 DEF Operate

\* The holder writes one bit, since nobody changed the word meanwhile.
LEMMA GroupWritten ==
  ASSUME DistTypeOK, NEW c \in GicCores, Knows(c), WriteGroup(c)
  PROVE  /\ \A j \in Intids : j # spiOp[c].intid => gicd_group'[j] = gicd_group[j]
         /\ gicd_group'[spiOp[c].intid] = IF SecureOwned(spiOp[c].intid) THEN gicd_group[spiOp[c].intid] ELSE TRUE
<1> DEFINE i == spiOp[c].intid
<1>1. i \in Intids /\ gicd_group \in [Intids -> BOOLEAN]
  BY OpType DEF DistTypeOK
<1> DEFINE new == WordStored(gicd_group, [Word(gicd_group, SameBank(i)) EXCEPT ![i] = TRUE])
<1>2. gicd_group' = new
  BY DEF WriteGroup, Knows
<1>3. /\ \A j \in Intids : j # i => new[j] = gicd_group[j]
      /\ new[i] = IF SecureOwned(i) THEN gicd_group[i] ELSE TRUE
  <2> HIDE DEF i
  <2> QED
    BY <1>1, OneBit
<1> HIDE DEF new
<1> QED
  BY <1>2, <1>3

LEMMA GrpmodWritten ==
  ASSUME DistTypeOK, NEW c \in GicCores, Knows(c), WriteGrpmod(c)
  PROVE  /\ \A j \in Intids : j # spiOp[c].intid => gicd_grpmod'[j] = gicd_grpmod[j]
         /\ gicd_grpmod'[spiOp[c].intid] = IF SecureOwned(spiOp[c].intid) THEN gicd_grpmod[spiOp[c].intid] ELSE FALSE
<1> DEFINE i == spiOp[c].intid
<1>1. i \in Intids /\ gicd_grpmod \in [Intids -> BOOLEAN]
  BY OpType DEF DistTypeOK
<1> DEFINE new == WordStored(gicd_grpmod, [Word(gicd_grpmod, SameBank(i)) EXCEPT ![i] = FALSE])
<1>2. gicd_grpmod' = new
  BY DEF WriteGrpmod, Knows
<1>3. /\ \A j \in Intids : j # i => new[j] = gicd_grpmod[j]
      /\ new[i] = IF SecureOwned(i) THEN gicd_grpmod[i] ELSE FALSE
  <2> HIDE DEF i
  <2> QED
    BY <1>1, OneBit
<1> HIDE DEF new
<1> QED
  BY <1>2, <1>3

LEMMA EdgeWritten ==
  ASSUME DistTypeOK, NEW c \in GicCores, Knows(c), WriteConfig(c)
  PROVE  /\ \A j \in Intids : j # spiOp[c].intid => gicd_edge'[j] = gicd_edge[j]
         /\ gicd_edge'[spiOp[c].intid] = spiOp[c].edge
<1> DEFINE i == spiOp[c].intid
           w == [j \in SameConfig(i) |-> gicd_edge[j]]
           v == [w EXCEPT ![i] = spiOp[c].edge]
<1>1. i \in Intids /\ i \in SameConfig(i) /\ SameConfig(i) \subseteq Intids
  BY OpType, SameWord
<1>2. gicd_edge' = [j \in Intids |-> IF j \in DOMAIN v THEN v[j] ELSE gicd_edge[j]]
  BY DEF WriteConfig, Knows
<1>3. DOMAIN v = SameConfig(i) /\ v[i] = spiOp[c].edge /\ \A j \in SameConfig(i) : j # i => v[j] = gicd_edge[j]
  BY <1>1
<1> HIDE DEF v
<1> QED
  BY <1>1, <1>2, <1>3

\* What the core that moves knows after its step.
LEMMA MoverKnows ==
  ASSUME DistTypeOK, NEW c \in GicCores, Knows(c), Operate(c)
  PROVE  Knows(c)'
<1> DEFINE i == spiOp[c].intid
<1>0. i \in Intids
  BY OpType
<1>1. ASSUME spiOp'[c].pc \in Alone_ \cup {"none", "disable", "read group"} PROVE Knows(c)'
  BY <1>1 DEF Knows, Grouped, Passed, Alone_
<1>2. CASE BeginConfigure(c) \/ BeginWrite(c)
  BY <1>1, <1>2, BeginValue
<1>3. CASE Lock(c) \/ ConfigDisable(c)
  <2>1. spiOp'[c].pc \in {"disable", "read group"}
    BY <1>3, MoveValue DEF Lock, ConfigDisable
  <2> QED
    BY <1>1, <2>1
<1>4. CASE ReadGroup(c)
  <2>1. Keeps(c) /\ spiOp'[c].pc = "write group" /\ spiOp'[c].word = Word(gicd_group, SameBank(i))
    BY <1>4, MoveValue, ZenonT(40) DEF ReadGroup
  <2>2. gicd_group' = gicd_group
    BY <1>4 DEF ReadGroup, gicRegs
  <2>3. spiOp'[c].word = Word(gicd_group', SameBank(spiOp'[c].intid))
    BY <2>1, <2>2 DEF Keeps
  <2> QED
    BY <2>1, <2>3 DEF Knows, Grouped, Passed
<1>5. CASE WriteGroup(c)
  <2>1. Keeps(c) /\ spiOp'[c].pc = "read grpmod"
    BY <1>5, MoveValue DEF WriteGroup
  <2>2. SecureOwned(i) \/ gicd_group'[i]
    BY <1>5, GroupWritten
  <2> QED
    BY <2>1, <2>2 DEF Knows, Keeps, Grouped, Passed, SecureOwned
<1>6. CASE ReadGrpmod(c)
  <2>1. Keeps(c) /\ spiOp'[c].pc = "write grpmod" /\ spiOp'[c].word = Word(gicd_grpmod, SameBank(i))
    BY <1>6, MoveValue, ZenonT(40) DEF ReadGrpmod
  <2>2. gicd_group' = gicd_group /\ gicd_grpmod' = gicd_grpmod
    BY <1>6 DEF ReadGrpmod, gicRegs
  <2>3. spiOp'[c].word = Word(gicd_grpmod', SameBank(spiOp'[c].intid))
    BY <2>1, <2>2 DEF Keeps
  <2>4. SecureOwned(i) \/ gicd_group'[i]
    BY <1>6, <2>2 DEF ReadGrpmod, Knows, Grouped
  <2> QED
    BY <2>1, <2>3, <2>4 DEF Knows, Keeps, Grouped, Passed, SecureOwned
<1>7. CASE WriteGrpmod(c)
  <2>1. Keeps(c) /\ spiOp'[c].pc = "verify"
    BY <1>7, MoveValue DEF WriteGrpmod
  <2>2. SecureOwned(i) \/ ~gicd_grpmod'[i]
    BY <1>7, GrpmodWritten
  <2>3. SecureOwned(i) \/ gicd_group'[i]
    BY <1>7 DEF WriteGrpmod, Knows, Grouped
  <2> QED
    BY <2>1, <2>2, <2>3 DEF Knows, Keeps, Grouped, Passed, SecureOwned
<1>8. CASE Verify(c)
  <2>1. \/ spiOp'[c].pc = "none"
        \/ spiOp'[c].pc = "read config" /\ Keeps(c) /\ gicd_group[i] /\ ~SecureOwned(i) /\ ~gicd_grpmod[i]
    BY <1>8, MoveValue DEF Verify
  <2>2. gicd_group' = gicd_group /\ gicd_grpmod' = gicd_grpmod
    BY <1>8 DEF Verify, gicRegs
  <2>3. CASE spiOp'[c].pc = "none"
    BY <1>1, <2>3
  <2>4. CASE spiOp'[c].pc = "read config" /\ Keeps(c) /\ gicd_group[i] /\ ~SecureOwned(i) /\ ~gicd_grpmod[i]
    BY <2>2, <2>4 DEF Knows, Keeps, Grouped, Passed, SecureOwned
  <2> QED
    BY <2>1, <2>3, <2>4
<1>9. CASE ReadConfig(c)
  <2>1. Keeps(c) /\ spiOp'[c].pc = "write config" /\ spiOp'[c].word = [j \in SameConfig(i) |-> gicd_edge[j]]
    BY <1>9, MoveValue, ZenonT(40) DEF ReadConfig
  <2>2. gicd_group' = gicd_group /\ gicd_grpmod' = gicd_grpmod /\ gicd_edge' = gicd_edge
    BY <1>9 DEF ReadConfig, gicRegs
  <2>3. spiOp'[c].word = [j \in SameConfig(spiOp'[c].intid) |-> gicd_edge'[j]]
    BY <2>1, <2>2 DEF Keeps
  <2>4. (SecureOwned(i) \/ gicd_group[i]) /\ (SecureOwned(i) \/ ~gicd_grpmod[i]) /\ ~SecureOwned(i)
    BY <1>9 DEF ReadConfig, Knows, Grouped, Passed
  <2> QED
    BY <2>1, <2>2, <2>3, <2>4 DEF Knows, Keeps, Grouped, Passed, SecureOwned
<1>10. CASE WriteConfig(c)
  <2>1. Keeps(c) /\ spiOp'[c].pc = "route"
    BY <1>10, MoveValue DEF WriteConfig
  <2>2. gicd_group' = gicd_group /\ gicd_grpmod' = gicd_grpmod
    BY <1>10 DEF WriteConfig
  <2>3. gicd_edge'[i] = spiOp[c].edge
    BY <1>10, EdgeWritten
  <2>4. (SecureOwned(i) \/ gicd_group[i]) /\ (SecureOwned(i) \/ ~gicd_grpmod[i]) /\ ~SecureOwned(i)
    BY <1>10 DEF WriteConfig, Knows, Grouped, Passed
  <2> QED
    BY <2>1, <2>2, <2>3, <2>4 DEF Knows, Keeps, Grouped, Passed, SecureOwned
<1>11. CASE Route_(c)
  BY <1>1, <1>11, RouteValue DEF Alone_
<1>12. CASE Mask(c) \/ Unmask(c) \/ ClearPending(c) \/ Quarantine(c) \/ Settle(c)
  <2>1. spiOp'[c].pc \in {"none", "settle"}
    BY <1>12, MoveValue DEF Mask, Unmask, ClearPending, Quarantine, Settle
  <2> QED
    BY <1>1, <2>1 DEF Alone_
<1> QED
  BY <1>2, <1>3, <1>4, <1>5, <1>6, <1>7, <1>8, <1>9, <1>10, <1>11, <1>12 DEF Operate

\* The words that a core has read are not changed under it: no other core is
\* in the configuration.
LEMMA KnowsStep ==
  ASSUME DistTypeOK, LockHeld, HolderKnows, [DistNext]_distVars
  PROVE  HolderKnows'
<1>1. ASSUME UNCHANGED <<gicd_group, gicd_grpmod, gicd_edge>>, NEW d \in GicCores, spiOp'[d] = spiOp[d]
      PROVE  Knows(d)'
  BY <1>1 DEF HolderKnows, Knows
<1>2. CASE EnableRouting \/ ScrubAndForward
  BY <1>1, <1>2 DEF EnableRouting, ScrubAndForward, HolderKnows
<1>3. ASSUME NEW c \in GicCores, Operate(c) PROVE HolderKnows'
  <2>1. Others(c)
    BY <1>3, OpMoves
  <2>2. Knows(c)'
    BY <1>3, MoverKnows DEF HolderKnows
  <2>3. ASSUME NEW d \in GicCores \ {c} PROVE Knows(d)'
    <3>1. spiOp'[d] = spiOp[d]
      BY <2>1 DEF Others
    <3>2. CASE spiOp[d].pc \notin Holding_
      BY <3>1, <3>2 DEF Knows, Holding_, Grouped, Passed
    <3>3. CASE spiOp[d].pc \in Holding_
      <4>1. spiOp[c].pc \notin Holding_
        BY <3>3 DEF LockHeld
      <4>2. ~WriteGroup(c) /\ ~WriteGrpmod(c) /\ ~WriteConfig(c)
        BY <4>1 DEF WriteGroup, WriteGrpmod, WriteConfig, Holding_
      <4> QED
        BY <1>1, <1>3, <3>1, <4>2, Untouched
    <3> QED
      BY <3>2, <3>3
  <2> QED
    BY <2>2, <2>3 DEF HolderKnows
<1>4. CASE UNCHANGED distVars
  BY <1>1, <1>4 DEF distVars, gicRegs, HolderKnows
<1> QED
  BY <1>2, <1>3, <1>4 DEF DistNext

-----------------------------------------------------------------------------
(* What a configured SPI keeps.                                            *)

LEMMA ConfiguringIs ==
  ASSUME DistTypeOK, NEW i
  PROVE  Configuring(i) <=> \E c \in GicCores : spiOp[c].intid = i /\ spiOp[c].pc \in Holding_
<1>1. \A c \in GicCores : spiOp[c].pc \in Holding_ \cup Alone_ \cup {"none"}
  BY DEF DistTypeOK, SpiOps_
<1> QED
  BY <1>1 DEF Configuring, Holding_, Alone_

\* A core stays in the configuration of its INTID until it verifies in vain or
\* writes the route.
LEMMA ConfiguringStep ==
  ASSUME DistTypeOK, NEW c \in GicCores, Operate(c), NEW i, Configuring(i),
         ~(Verify(c) /\ spiOp[c].intid = i), ~(Route_(c) /\ spiOp[c].intid = i)
  PROVE  Configuring(i)'
<1>1. PICK d \in GicCores : spiOp[d].intid = i /\ spiOp[d].pc \in Holding_
  BY ConfiguringIs
<1>2. Others(c)
  BY OpMoves
<1>3. CASE d # c
  <2>1. spiOp'[d] = spiOp[d]
    BY <1>2, <1>3 DEF Others
  <2> QED
    BY <1>1, <2>1 DEF Configuring, Holding_
<1>4. CASE d = c
  <2>0. ASSUME Keeps(c), spiOp'[c].pc \in Holding_ PROVE Configuring(i)'
    BY <1>1, <1>4, <2>0 DEF Keeps, Configuring, Holding_
  <2>1. CASE ConfigDisable(c)
    <3>1. Keeps(c) /\ spiOp'[c].pc \in Holding_
      BY <2>1, MoveValue DEF ConfigDisable, Holding_
    <3> QED
      BY <2>0, <3>1
  <2>2. CASE ReadGroup(c)
    <3>1. Keeps(c) /\ spiOp'[c].pc \in Holding_
      BY <2>2, MoveValue DEF ReadGroup, Holding_
    <3> QED
      BY <2>0, <3>1
  <2>3. CASE WriteGroup(c)
    <3>1. Keeps(c) /\ spiOp'[c].pc \in Holding_
      BY <2>3, MoveValue DEF WriteGroup, Holding_
    <3> QED
      BY <2>0, <3>1
  <2>4. CASE ReadGrpmod(c)
    <3>1. Keeps(c) /\ spiOp'[c].pc \in Holding_
      BY <2>4, MoveValue DEF ReadGrpmod, Holding_
    <3> QED
      BY <2>0, <3>1
  <2>5. CASE WriteGrpmod(c)
    <3>1. Keeps(c) /\ spiOp'[c].pc \in Holding_
      BY <2>5, MoveValue DEF WriteGrpmod, Holding_
    <3> QED
      BY <2>0, <3>1
  <2>6. CASE ReadConfig(c)
    <3>1. Keeps(c) /\ spiOp'[c].pc \in Holding_
      BY <2>6, MoveValue DEF ReadConfig, Holding_
    <3> QED
      BY <2>0, <3>1
  <2>7. CASE WriteConfig(c)
    <3>1. Keeps(c) /\ spiOp'[c].pc \in Holding_
      BY <2>7, MoveValue DEF WriteConfig, Holding_
    <3> QED
      BY <2>0, <3>1
  <2>8. ~BeginConfigure(c) /\ ~BeginWrite(c) /\ ~Lock(c)
    <3>1. BeginConfigure(c) \/ BeginWrite(c) => spiOp[c].pc = "none"
      BY BeginValue
    <3> QED
      BY <1>1, <1>4, <3>1 DEF Lock, Holding_
  <2>9. ~Mask(c) /\ ~Unmask(c) /\ ~ClearPending(c) /\ ~Quarantine(c) /\ ~Settle(c)
    BY <1>1, <1>4 DEF Mask, Unmask, ClearPending, Quarantine, Settle, Holding_
  <2> QED
    BY <1>1, <1>4, <2>1, <2>2, <2>3, <2>4, <2>5, <2>6, <2>7, <2>8, <2>9 DEF Operate
<1> QED
  BY <1>3, <1>4
\* An SPI that was configured stays on the board and in the group, and keeps
\* its trigger and route while no core configures it.
LEMMA AskedStep ==
  ASSUME DistTypeOK, OnBoard, LockHeld, HolderKnows, AskedKept, [DistNext]_distVars
  PROVE  AskedKept'
<1>1. SpiIds' = SpiIds
  BY BoardFixed, LinesFixed
<1>2. ASSUME UNCHANGED <<gicd_group, gicd_grpmod, gicd_edge, gicd_route, asked, spiOp>> PROVE AskedKept'
  BY <1>1, <1>2 DEF AskedKept, Configuring
<1>3. CASE EnableRouting \/ ScrubAndForward
  BY <1>2, <1>3 DEF EnableRouting, ScrubAndForward
<1>4. CASE UNCHANGED distVars
  BY <1>2, <1>4 DEF distVars, gicRegs
<1>5. ASSUME NEW c \in GicCores, Operate(c), ~Route_(c), NEW i \in Intids, asked'[i] # NotAsked
      PROVE  /\ i \in SpiIds \ FirmwareOwned
             /\ gicd_group'[i] /\ ~gicd_grpmod'[i]
             /\ ~Configuring(i)' => gicd_edge'[i] = asked'[i].edge /\ gicd_route'[i] = asked'[i].core
  <2>1. asked' = asked /\ gicd_route' = gicd_route
    <3>1. CASE BeginConfigure(c) \/ BeginWrite(c)
      BY <3>1, BeginValue DEF gicRegs
    <3>2. CASE Lock(c) \/ ReadGroup(c) \/ ReadGrpmod(c) \/ Verify(c) \/ ReadConfig(c)
      BY <3>2 DEF Lock, ReadGroup, ReadGrpmod, Verify, ReadConfig, gicRegs
    <3>3. CASE ConfigDisable(c) \/ WriteGroup(c) \/ WriteGrpmod(c) \/ WriteConfig(c)
      BY <3>3 DEF ConfigDisable, Disable, WriteGroup, WriteGrpmod, WriteConfig
    <3>4. CASE Mask(c) \/ Unmask(c) \/ ClearPending(c) \/ Quarantine(c) \/ Settle(c)
      BY <3>4 DEF Mask, Unmask, ClearPending, Quarantine, Settle, Disable
    <3> QED
      BY <1>5, <3>1, <3>2, <3>3, <3>4 DEF Operate
  <2>2. /\ i \in SpiIds \ FirmwareOwned /\ gicd_group[i] /\ ~gicd_grpmod[i]
        /\ ~Configuring(i) => gicd_edge[i] = asked[i].edge /\ gicd_route[i] = asked[i].core
    BY <1>5, <2>1 DEF AskedKept
  <2>3. gicd_group'[i] /\ ~gicd_grpmod'[i]
    <3>1. CASE WriteGroup(c)
      <4>1. gicd_group'[i]
        BY <1>5, <2>2, <3>1, GroupWritten DEF HolderKnows
      <4> QED
        BY <2>2, <3>1, <4>1 DEF WriteGroup
    <3>2. CASE WriteGrpmod(c)
      <4>1. ~gicd_grpmod'[i]
        BY <1>5, <2>2, <3>2, GrpmodWritten DEF HolderKnows
      <4> QED
        BY <2>2, <3>2, <4>1 DEF WriteGrpmod
    <3>3. CASE WriteConfig(c)
      BY <2>2, <3>3 DEF WriteConfig
    <3> QED
      BY <1>5, <2>2, <3>1, <3>2, <3>3, Untouched
  <2>4. ASSUME ~Configuring(i)' PROVE gicd_edge'[i] = asked[i].edge /\ gicd_route[i] = asked[i].core
    <3>1. ~Configuring(i)
      <4> SUFFICES ASSUME Configuring(i) PROVE FALSE
        OBVIOUS
      <4>1. Verify(c) /\ spiOp[c].intid = i
        BY <1>5, <2>4, ConfiguringStep
      <4>2. To(c, "read config")
        BY <2>2, <4>1 DEF Verify, SecureOwned
      <4>3. Configuring(i)'
        <5>1. Keeps(c) /\ spiOp'[c].pc = "read config"
          BY <4>2, MoveValue
        <5> QED
          BY <4>1, <5>1 DEF Keeps, Configuring
      <4> QED
        BY <2>4, <4>3
    <3>2. gicd_edge'[i] = gicd_edge[i]
      <4>1. CASE WriteConfig(c)
        <5>1. spiOp[c].intid # i
          BY <3>1, <4>1 DEF WriteConfig, Configuring
        <5> QED
          BY <1>5, <4>1, <5>1, EdgeWritten DEF HolderKnows
      <4>2. CASE WriteGroup(c) \/ WriteGrpmod(c)
        BY <4>2 DEF WriteGroup, WriteGrpmod
      <4> QED
        BY <1>5, <4>1, <4>2, Untouched
    <3> QED
      BY <2>2, <3>1, <3>2
  <2> QED
    BY <2>1, <2>2, <2>3, <2>4
<1>6. ASSUME NEW c \in GicCores, Route_(c), NEW i \in Intids, asked'[i] # NotAsked
      PROVE  /\ i \in SpiIds \ FirmwareOwned
             /\ gicd_group'[i] /\ ~gicd_grpmod'[i]
             /\ ~Configuring(i)' => gicd_edge'[i] = asked'[i].edge /\ gicd_route'[i] = asked'[i].core
  <2>1. UNCHANGED <<gicd_group, gicd_grpmod, gicd_edge>>
    BY <1>6 DEF Route_
  <2>2. /\ asked' = [asked EXCEPT ![spiOp[c].intid] = [edge |-> spiOp[c].edge, core |-> spiOp[c].core]]
        /\ gicd_route' = [gicd_route EXCEPT ![spiOp[c].intid] = spiOp[c].core]
    BY <1>6 DEF Route_
  <2>3. CASE spiOp[c].intid = i
    <3>1. /\ gicd_group[i] /\ ~gicd_grpmod[i] /\ ~SecureOwned(i)
          /\ gicd_edge[i] = spiOp[c].edge
      BY <1>6, <2>3 DEF Route_, HolderKnows, Knows, Grouped, Passed
    <3>2. i \in SpiIds
      BY <1>6, <2>3 DEF Route_, OnBoard
    <3>3. asked'[i] = [edge |-> spiOp[c].edge, core |-> spiOp[c].core] /\ gicd_route'[i] = spiOp[c].core
      BY <1>6, <2>2, <2>3 DEF DistTypeOK
    <3> QED
      BY <2>1, <3>1, <3>2, <3>3 DEF SecureOwned
  <2>4. CASE spiOp[c].intid # i
    <3>1. asked'[i] = asked[i] /\ gicd_route'[i] = gicd_route[i]
      BY <1>6, <2>2, <2>4 DEF DistTypeOK
    <3>2. Configuring(i) => Configuring(i)'
      BY <1>6, <2>4, ConfiguringStep DEF Operate
    <3>3. /\ i \in SpiIds \ FirmwareOwned /\ gicd_group[i] /\ ~gicd_grpmod[i]
          /\ ~Configuring(i) => gicd_edge[i] = asked[i].edge /\ gicd_route[i] = asked[i].core
      BY <1>6, <3>1 DEF AskedKept
    <3> QED
      BY <2>1, <3>1, <3>2, <3>3
  <2> QED
    BY <2>3, <2>4
<1>7. ASSUME NEW c \in GicCores, Operate(c) PROVE AskedKept'
  BY <1>1, <1>5, <1>6, <1>7 DEF AskedKept
<1> QED
  BY <1>3, <1>4, <1>7 DEF DistNext

-----------------------------------------------------------------------------
(* The scrub.                                                              *)

LEMMA ScrubStep ==
  ASSUME DistTypeOK, OnBoard, ScrubReaches, [DistNext]_distVars
  PROVE  ScrubReaches'
<1> DEFINE Clean(i) == (gicd_enabled[i] => i \in unmasked) /\ ~gicd_pending[i] /\ ~gicd_active[i]
<1>1. implemented_intids' = implemented_intids /\ SpiIds' = SpiIds
  BY BoardFixed, LinesFixed
<1> SUFFICES ASSUME implemented_intids % IntidsPerBank = 0
             PROVE  IF gicd_ctlr' = "forwarding"
                    THEN \A i \in Intids : Clean(i)'
                    ELSE \A i \in Intids : gicd_enabled'[i] \/ gicd_pending'[i] \/ gicd_active'[i] => i \in SpiIds
  BY <1>1 DEF ScrubReaches
<1>2. CASE EnableRouting
  BY <1>2 DEF EnableRouting, ScrubReaches
<1>3. CASE ScrubAndForward
  <2>1. ASSUME NEW i \in SpiIds PROVE Scrubbed(i)
    <3>1. implemented_intids \in Nat /\ IntidsPerBank \in Nat \ {0}
      BY DistributorAssumption DEF DistTypeOK, implemented_intids
    <3>2. i \in IntidsPerBank..(implemented_intids - 1)
      BY <3>1, DistributorAssumption DEF SpiIds, Intids, spi_implemented, spi_registers_valid
    <3>3. i \div IntidsPerBank \in 1..((implemented_intids \div IntidsPerBank) - 1)
      BY <3>1, <3>2, BankReached
    <3> QED
      BY <3>3 DEF Scrubbed, Bank, implemented_banks
  <2>2. \A i \in Intids : gicd_enabled[i] \/ gicd_pending[i] \/ gicd_active[i] => i \in SpiIds
    BY <1>3 DEF ScrubAndForward, ScrubReaches
  <2>3. \A i \in Intids : ~gicd_enabled'[i] /\ ~gicd_pending'[i] /\ ~gicd_active'[i]
    BY <1>3, <2>1, <2>2 DEF ScrubAndForward
  <2> QED
    BY <1>3, <2>3 DEF ScrubAndForward
<1>4. ASSUME NEW c \in GicCores, Operate(c)
      PROVE  gicd_ctlr' = "forwarding" /\ \A i \in Intids : Clean(i)'
  <2> DEFINE j == spiOp[c].intid
  <2>0. j \in Intids
    BY OpType
  <2>1. gicd_ctlr = "forwarding"
    <3>1. CASE BeginConfigure(c) \/ BeginWrite(c)
      BY <3>1 DEF BeginConfigure, BeginWrite, Begin_
    <3>2. CASE spiOp[c].pc # "none"
      BY <3>2 DEF OnBoard
    <3>3. BeginConfigure(c) \/ BeginWrite(c) \/ spiOp[c].pc # "none"
      BY <1>4 DEF Operate, Lock, ConfigDisable, ReadGroup, WriteGroup, ReadGrpmod, WriteGrpmod, Verify, ReadConfig,
         WriteConfig, Route_, Mask, Unmask, ClearPending, Quarantine, Settle
    <3> QED
      BY <3>1, <3>2, <3>3
  <2>2. \A i \in Intids : Clean(i)
    BY <2>1 DEF ScrubReaches
  <2>3. ASSUME UNCHANGED <<gicd_enabled, gicd_pending, gicd_active, unmasked>>
        PROVE  \A i \in Intids : Clean(i)'
    BY <2>2, <2>3
  <2>4. ASSUME Disable(j) PROVE \A i \in Intids : Clean(i)'
    BY <2>0, <2>2, <2>4 DEF Disable, DistTypeOK
  <2>5. CASE BeginConfigure(c) \/ BeginWrite(c)
    BY <2>1, <2>3, <2>5, BeginValue DEF gicRegs
  <2>6. CASE Lock(c) \/ ReadGroup(c) \/ ReadGrpmod(c) \/ Verify(c) \/ ReadConfig(c)
    BY <2>1, <2>3, <2>6 DEF Lock, ReadGroup, ReadGrpmod, Verify, ReadConfig, gicRegs
  <2>7. CASE WriteGroup(c) \/ WriteGrpmod(c) \/ WriteConfig(c) \/ Route_(c)
    BY <2>1, <2>3, <2>7 DEF WriteGroup, WriteGrpmod, WriteConfig, Route_
  <2>8. CASE ConfigDisable(c) \/ Mask(c) \/ Quarantine(c)
    <3>1. Disable(j)
      BY <2>8 DEF ConfigDisable, Mask, Quarantine
    <3> QED
      BY <2>1, <2>4, <3>1 DEF Disable
  <2>9. CASE Unmask(c)
    BY <2>0, <2>1, <2>2, <2>9 DEF Unmask, DistTypeOK
  <2>10. CASE ClearPending(c)
    BY <2>0, <2>1, <2>2, <2>10 DEF ClearPending, DistTypeOK
  <2>11. CASE Settle(c)
    BY <2>0, <2>1, <2>2, <2>11 DEF Settle, DistTypeOK
  <2> QED
    BY <1>4, <2>5, <2>6, <2>7, <2>8, <2>9, <2>10, <2>11 DEF Operate
<1>5. CASE UNCHANGED distVars
  BY <1>5 DEF distVars, gicRegs, ScrubReaches
<1> QED
  BY <1>2, <1>3, <1>4, <1>5 DEF DistNext

-----------------------------------------------------------------------------
(* The theorems.                                                           *)

LEMMA DistInvInit == DistInit => DistInv
<1> SUFFICES ASSUME DistInit PROVE DistInv
  OBVIOUS
<1>1. \A c \in GicCores : spiOp[c].pc = "none"
  BY DEF DistInit, NoSpiOp
<1>2. OnBoard /\ HolderKnows
  BY <1>1 DEF OnBoard, HolderKnows, Knows, Grouped, Passed
<1>3. LockHeld
  <2>1. \A c \in GicCores : c # Nobody
    BY DistributorAssumption DEF Nobody
  <2>2. config_lock = Nobody
    BY DEF DistInit
  <2> QED
    BY <1>1, <2>1, <2>2 DEF LockHeld, Holding_
<1>4. AskedKept
  BY DEF AskedKept, DistInit
<1>5. ScrubReaches
  BY DEF ScrubReaches, DistInit
<1> QED
  BY <1>2, <1>3, <1>4, <1>5, DistTypeInit DEF DistInv

LEMMA DistInvStep == DistInv /\ [DistNext]_distVars => DistInv'
  BY DistTypeStep, OnBoardStep, LockStep, KnowsStep, AskedStep, ScrubStep DEF DistInv

\* The registers keep their types, one core at most is in the configuration of
\* an SPI, and what it has read under config_lock is still what the registers
\* hold when it writes (gicv3.hpp:204).
THEOREM DistInvariant == DistSpec => []DistInv
<1> QED
  BY DistInvInit, DistInvStep, PTL DEF DistSpec

\* An SPI is as it was last configured, whatever other cores do to the INTIDs
\* that share its words, and on a board whose last bank is whole nothing that
\* was inherited is delivered: for any number of cores, of lines and of
\* operations, and whatever firmware keeps.
THEOREM SpisConfigured == DistSpec => []SpisAsAsked
<1>1. DistInv => SpisAsAsked
  BY DEF DistInv, AskedKept, ScrubReaches, SpisAsAsked, NothingInherited
<1> QED
  BY <1>1, DistInvariant, PTL

-----------------------------------------------------------------------------
(* Stage 2.  Numbers and recursion first.                                   *)

\* What holds of 0 and is passed on holds of every natural number: otherwise
\* there is a least one it does not hold of.
LEMMA NaturalSteps ==
  ASSUME NEW S \in SUBSET Nat, 0 \in S, \A n \in S : n + 1 \in S
  PROVE  S = Nat
<1> SUFFICES ASSUME S # Nat PROVE FALSE
  OBVIOUS
<1> DEFINE T == Nat \ S
<1>1. T \in SUBSET Nat /\ T # {}
  OBVIOUS
<1>2. PICK x \in T : \A y \in T : ~(<<y, x>> \in OpToRel(<, Nat))
  <2> HIDE DEF T
  <2>1. IsWellFoundedOn(OpToRel(<, Nat), Nat)
    BY NatLessThanWellFounded
  <2> QED
    BY <1>1, <2>1, WFMin, Zenon
<1>3. \A y \in T : ~(y < x)
  BY <1>2 DEF OpToRel
<1>4. x \in Nat /\ x \notin S /\ x # 0 /\ x - 1 \in Nat /\ x - 1 < x
  OBVIOUS
<1>5. x - 1 \in S
  BY <1>3, <1>4
<1>6. (x - 1) + 1 \in S
  BY <1>5
<1> QED
  BY <1>4, <1>6

\* A function that goes on by one step at a time, and that there is one.
Stepwise(f, V, N, first, step) ==
  /\ f \in [0..N -> V] /\ f[0] = first
  /\ \A n \in 1..N : f[n] = step[n][f[n - 1]]

LEMMA StepByStep ==
  ASSUME NEW V, NEW N \in Nat, NEW first \in V, NEW step \in [1..N -> [V -> V]]
  PROVE  \E f : Stepwise(f, V, N, first, step)
<1> DEFINE F(k, f) == Stepwise(f, V, k, first, step)
           S == {k \in Nat : k <= N => \E f : F(k, f)}
<1>1. 0 \in S
  <2>1. F(0, [n \in 0..0 |-> first])
    BY DEF Stepwise
  <2> HIDE DEF F
  <2> QED
    BY <2>1
<1>2. ASSUME NEW k \in S PROVE k + 1 \in S
  <2>1. k \in Nat /\ k + 1 \in Nat
    OBVIOUS
  <2> SUFFICES ASSUME k + 1 <= N PROVE \E f : F(k + 1, f)
    BY <2>1
  <2>2. PICK f : F(k, f)
    BY <2>1
  <2> DEFINE g == [n \in 0..(k + 1) |-> IF n <= k THEN f[n] ELSE step[k + 1][f[k]]]
  <2>3. f[k] \in V /\ k + 1 \in 1..N
    BY <2>1, <2>2 DEF Stepwise
  <2>4. step[k + 1][f[k]] \in V
    BY <2>3
  <2>5. g \in [0..(k + 1) -> V] /\ g[0] = first
    BY <2>1, <2>2, <2>4 DEF Stepwise
  <2>6. \A n \in 1..(k + 1) : g[n] = step[n][g[n - 1]]
    <3>1. ASSUME NEW n \in 1..(k + 1) PROVE g[n] = step[n][g[n - 1]]
      <4>1. n - 1 \in 0..(k + 1) /\ n - 1 <= k /\ g[n - 1] = f[n - 1]
        BY <2>1
      <4>2. CASE n <= k
        <5>1. g[n] = f[n] /\ n \in 1..k
          BY <2>1, <4>2
        <5> QED
          BY <2>2, <4>1, <5>1 DEF Stepwise
      <4>3. CASE n = k + 1
        <5>1. g[n] = step[k + 1][f[k]] /\ n - 1 = k
          BY <2>1, <4>3
        <5> QED
          BY <4>1, <4>3, <5>1
      <4> QED
        BY <2>1, <4>2, <4>3
    <3> QED
      BY <3>1
  <2>7. F(k + 1, g)
    <3> HIDE DEF g
    <3> QED
      BY <2>5, <2>6 DEF Stepwise
  <2> HIDE DEF F
  <2> QED
    BY <2>7
<1>3. S = Nat
  <2>1. S \in SUBSET Nat
    OBVIOUS
  <2> HIDE DEF S
  <2> QED
    BY <1>1, <1>2, <2>1, NaturalSteps
<1>4. PICK f : F(N, f)
  <2>1. N \in S
    BY <1>3
  <2> HIDE DEF F
  <2> QED
    BY <2>1
<1> QED
  BY <1>4

\* Quotient and remainder.
LEMMA Quotient ==
  ASSUME NEW n \in Nat, NEW d \in Nat \ {0}
  PROVE  /\ n \div d \in Nat /\ n % d \in 0..(d - 1)
         /\ n = d * (n \div d) + (n % d)
  OBVIOUS

LEMMA QuotientIs ==
  ASSUME NEW n \in Nat, NEW d \in Nat \ {0}, NEW q \in Nat, NEW r \in 0..(d - 1), n = d * q + r
  PROVE  n \div d = q /\ n % d = r
  OBVIOUS

LEMMA QuotientExact ==
  ASSUME NEW n \in Nat, NEW d \in Nat \ {0}, n % d = 0
  PROVE  (n \div d) * d = n
<1> DEFINE q == n \div d
<1>1. q \in Nat /\ n = d * q + 0
  BY Quotient
<1> HIDE DEF q
<1>2. q * d = d * q /\ d * q \in Nat
  BY <1>1
<1>3. q * d = n
  BY <1>1, <1>2
<1> QED
  BY <1>3 DEF q

LEMMA Times == \A x, y \in Nat : x * y \in Nat
  OBVIOUS

\* Aligning goes up.
LEMMA AlignsUp ==
  ASSUME NEW pa \in Nat, Fan \in Nat \ {0}
  PROVE  AlignUp(pa) \in Nat /\ AlignUp(pa) >= pa
<1> DEFINE n == pa + Fan - 1
           q == n \div Fan
<1>1. n \in Nat
  OBVIOUS
<1>2. q \in Nat /\ n % Fan \in 0..(Fan - 1) /\ n = Fan * q + (n % Fan)
  <2> HIDE DEF n
  <2> QED
    BY <1>1, Quotient
<1>3. q * Fan \in Nat /\ q * Fan = Fan * q
  <2> HIDE DEF q
  <2> QED
    BY <1>2
<1>4. q * Fan = n - (n % Fan)
  <2> HIDE DEF q, n
  <2> QED
    BY <1>1, <1>2, <1>3
<1>5. AlignUp(pa) = q * Fan
  BY DEF AlignUp
<1> HIDE DEF q
<1> QED
  BY <1>1, <1>2, <1>3, <1>4, <1>5

-----------------------------------------------------------------------------
(* The indices of an address.                                              *)

Half == 0..(Fan - 1)

\* An address is made of its indices; those of a block differ in the last.
LEMMA Indices ==
  ASSUME NEW a \in Ipa, Fan \in Nat \ {0}
  PROVE  /\ a \in Nat /\ l1_index(a) \in Half /\ l2_index(a) \in Half /\ l3_index(a) \in Half
         /\ a \div Fan \in Nat
         /\ a = Fan * (a \div Fan) + l3_index(a)
         /\ a \div Fan = Fan * l1_index(a) + l2_index(a)
<1> DEFINE b == a \div Fan
           c == b \div Fan
           r == b % Fan
           s == a % Fan
<1>1. a \in Nat /\ a < Fan * Fan * Fan
  BY DEF Ipa
<1>2. b \in Nat /\ s \in Half /\ a = Fan * b + s
  BY <1>1, Quotient DEF Half
<1>3. c \in Nat /\ r \in Half /\ b = Fan * c + r
  <2> HIDE DEF b
  <2> QED
    BY <1>2, Quotient DEF Half
<1> HIDE DEF b, c, r, s
<1> DEFINE d == Fan * Fan
<1>4. d \in Nat \ {0} /\ Fan * Fan * Fan = d * Fan
  OBVIOUS
<1>5. /\ Fan * r + s \in Nat /\ Fan * r + s <= d - 1
      /\ a = d * c + (Fan * r + s)
  <2>1. r \in Nat /\ s \in Nat /\ r <= Fan - 1 /\ s <= Fan - 1
    BY <1>2, <1>3 DEF Half
  <2>2. Fan * r \in Nat /\ Fan * r <= Fan * (Fan - 1) /\ Fan * (Fan - 1) = d - Fan
    BY <2>1
  <2>3. Fan * b = d * c + Fan * r
    BY <1>3, <2>1
  <2>4. Fan * c \in Nat /\ d * c \in Nat
    BY <1>3, <1>4
  <2> HIDE DEF d
  <2> QED
    BY <1>2, <1>4, <2>1, <2>2, <2>3, <2>4
<1>6. a \div d = c
  <2> HIDE DEF d
  <2>1. Fan * r + s \in 0..(d - 1)
    BY <1>4, <1>5
  <2> QED
    BY <1>1, <1>3, <1>4, <1>5, <2>1, QuotientIs
<1>7. c < Fan
  <2>1. SUFFICES ASSUME c >= Fan PROVE FALSE
    BY <1>3
  <2>2. d * c >= d * Fan
    <3> HIDE DEF d
    <3>1. PICK e \in Nat : c = Fan + e
      BY <1>3, <2>1
    <3>2. d * c = d * Fan + d * e /\ d * e \in Nat /\ d * Fan \in Nat
      BY <1>4, <3>1
    <3> QED
      BY <3>2
  <2>3. d * c \in Nat /\ d * Fan \in Nat
    <3> HIDE DEF d
    <3> QED
      BY <1>3, <1>4
  <2> HIDE DEF d
  <2> QED
    BY <1>1, <1>4, <1>5, <2>2, <2>3
<1>8. l1_index(a) = c /\ l2_index(a) = r /\ l3_index(a) = s
  BY <1>6 DEF l1_index, l2_index, l3_index, b, c, r, s
<1> QED
  BY <1>1, <1>2, <1>3, <1>7, <1>8 DEF Half, b

\* Two addresses with the same indices are the same.
LEMMA IndicesTell ==
  ASSUME NEW a \in Ipa, NEW b \in Ipa, Fan \in Nat \ {0}, l1_index(a) = l1_index(b), l2_index(a) = l2_index(b)
  PROVE  a \div Fan = b \div Fan /\ (l3_index(a) = l3_index(b) => a = b)
<1>1. a = Fan * (a \div Fan) + l3_index(a) /\ a \div Fan = Fan * l1_index(a) + l2_index(a)
  BY Indices
<1>2. b = Fan * (b \div Fan) + l3_index(b) /\ b \div Fan = Fan * l1_index(b) + l2_index(b)
  BY Indices
<1>3. a \div Fan = b \div Fan
  BY <1>1, <1>2, Zenon
<1> QED
  BY <1>1, <1>2, <1>3, Zenon

\* The addresses of a block that starts at an aligned one.
LEMMA BlockOf ==
  ASSUME NEW a \in Ipa, NEW b \in Ipa, Fan \in Nat \ {0}, a % Fan = 0
  PROVE  /\ (l1_index(a) = l1_index(b) /\ l2_index(a) = l2_index(b)) <=> b \in a..(a + Fan - 1)
         /\ b \in a..(a + Fan - 1) => b = a + l3_index(b)
<1> DEFINE q == a \div Fan
           p == b \div Fan
           s == l3_index(b)
<1>1. a \in Nat /\ q \in Nat /\ a = Fan * q + 0 /\ q = Fan * l1_index(a) + l2_index(a) /\ l1_index(a) \in Half /\ l2_index(a) \in Half
  BY Indices DEF l3_index
<1>2. b \in Nat /\ p \in Nat /\ b = Fan * p + s /\ s \in Half /\ p = Fan * l1_index(b) + l2_index(b) /\ l1_index(b) \in Half /\ l2_index(b) \in Half
  BY Indices
<1> HIDE DEF q, p, s
<1> DEFINE m == Fan * q
<1>3. m \in Nat /\ a = m /\ b \in Nat /\ s \in 0..(Fan - 1) /\ p \in Nat /\ q \in Nat
  <2>1. m \in Nat
    BY <1>1, Times
  <2> QED
    BY <1>1, <1>2, <2>1 DEF Half
<1>4. p = q => b = a + s /\ b \in a..(a + Fan - 1)
  <2>1. p = q => b = m + s
    BY <1>2
  <2> HIDE DEF m
  <2> QED
    BY <1>3, <2>1
<1>5. b \in a..(a + Fan - 1) => p = q
  <2> SUFFICES ASSUME b \in a..(a + Fan - 1) PROVE p = q
    OBVIOUS
  <2> DEFINE t == b - a
  <2>1. t \in 0..(Fan - 1) /\ b = m + t
    <3> HIDE DEF m
    <3> QED
      BY <1>3
  <2>2. b = Fan * q + t
    BY <2>1
  <2> HIDE DEF t
  <2>3. b \div Fan = q
    BY <1>3, <2>1, <2>2, QuotientIs
  <2> QED
    BY <2>3 DEF p
<1>6. p = q <=> l1_index(a) = l1_index(b) /\ l2_index(a) = l2_index(b)
  <2>1. p = q => l1_index(a) = l1_index(b) /\ l2_index(a) = l2_index(b)
    <3> SUFFICES ASSUME p = q PROVE l1_index(a) = l1_index(b) /\ l2_index(a) = l2_index(b)
      OBVIOUS
    <3>1. l1_index(a) \in Nat /\ l1_index(b) \in Nat /\ l2_index(a) \in 0..(Fan - 1) /\ l2_index(b) \in 0..(Fan - 1)
      BY <1>1, <1>2 DEF Half
    <3>2. q \div Fan = l1_index(a) /\ q % Fan = l2_index(a)
      BY <1>1, <3>1, QuotientIs
    <3>3. p \div Fan = l1_index(b) /\ p % Fan = l2_index(b)
      BY <1>2, <3>1, QuotientIs
    <3> QED
      BY <3>2, <3>3
  <2> QED
    BY <1>1, <1>2, <2>1
<1> QED
  BY <1>4, <1>5, <1>6 DEF s

-----------------------------------------------------------------------------
(* Table sets and their walks.                                             *)

TableEntry == [type : {"invalid", "table", "block", "page"}, out : Nat, attr : {"none", "rwx", "rw", "device"}]
Table == [Half -> TableEntry]

\* The tables form a tree: an entry links to a table in use, no two to the same,
\* and the tables not yet taken are empty.
Level1(l1, n2) ==
  /\ l1 \in Table /\ n2 \in 0..L2Pool
  /\ \A i \in Half : l1[i].type = "invalid" \/ (l1[i].type = "table" /\ l1[i].out \in 1..n2)
  /\ \A i, j \in Half : l1[i].type = "table" /\ l1[j].type = "table" /\ l1[i].out = l1[j].out => i = j

Level2(l2, n2, n3) ==
  /\ l2 \in [1..L2Pool -> Table] /\ n3 \in 0..L3Pool
  /\ \A t \in 1..L2Pool, i \in Half : l2[t][i].type \in {"invalid", "block"} \/ (l2[t][i].type = "table" /\ l2[t][i].out \in 1..n3)
  /\ \A t, u \in 1..L2Pool, i, j \in Half :
       l2[t][i].type = "table" /\ l2[u][j].type = "table" /\ l2[t][i].out = l2[u][j].out => t = u /\ i = j
  /\ \A t \in 1..L2Pool, i \in Half : t > n2 => l2[t][i].type = "invalid"

Level3(l3, n3) ==
  /\ l3 \in [1..L3Pool -> Table]
  /\ \A t \in 1..L3Pool, i \in Half : l3[t][i].type = "page" \/ l3[t][i] = Invalid
  /\ \A t \in 1..L3Pool, i \in Half : t > n3 => l3[t][i] = Invalid

LEMMA LinkInUse ==
  ASSUME NEW l2, NEW n2, NEW n3, Level2(l2, n2, n3), NEW t \in 1..L2Pool, NEW i \in Half, l2[t][i].type = "table"
  PROVE  l2[t][i].out \in 1..n3 /\ n3 \in 0..L3Pool
  BY DEF Level2

\* The walk through the entries on the way to an address.
WalkBy(l1, l2, l3, i1, i2, i3) ==
  LET e1 == l1[i1]
      e2 == l2[e1.out][i2]
      e3 == l3[e2.out][i3]
  IN IF e1.type # "table" THEN Invalid
     ELSE IF e2.type = "block" THEN [e2 EXCEPT !.out = @ + i3]
     ELSE IF e2.type = "table" THEN e3
     ELSE Invalid

LEMMA WalkIs ==
  \A g, ipa : Walk(g, ipa) = WalkBy(g_stage2_sets[g].l1, g_stage2_sets[g].l2, g_stage2_sets[g].l3, l1_index(ipa), l2_index(ipa), l3_index(ipa))
  BY DEF Walk, WalkBy

\* One entry of one table written.
Put(tables, t, i, e) == [tables EXCEPT ![t][i] = e]

\* What a write changes in the walks: nothing, the addresses of a block, one address.
SameWalks(l1, l2, l3, m1, m2) ==
  \A i1, i2, i3 \in Half : WalkBy(m1, m2, l3, i1, i2, i3) = WalkBy(l1, l2, l3, i1, i2, i3)
BlockSeen(l1, l2, l3, m2, i, j, e) ==
  /\ \A i1, i2, i3 \in Half : ~(i1 = i /\ i2 = j) => WalkBy(l1, m2, l3, i1, i2, i3) = WalkBy(l1, l2, l3, i1, i2, i3)
  /\ \A i3 \in Half : /\ WalkBy(l1, l2, l3, i, j, i3) = Invalid
                      /\ WalkBy(l1, m2, l3, i, j, i3) = [e EXCEPT !.out = @ + i3]
PageSeen(l1, l2, l3, m3, i, j, h, e) ==
  /\ \A i1, i2, i3 \in Half : ~(i1 = i /\ i2 = j /\ i3 = h) => WalkBy(l1, l2, m3, i1, i2, i3) = WalkBy(l1, l2, l3, i1, i2, i3)
  /\ WalkBy(l1, l2, l3, i, j, h) = Invalid
  /\ WalkBy(l1, l2, m3, i, j, h) = e

\* Where an L2 table, an L3 table, a block and a page may go.
L2Free(l1, l2, n2, n3, i, e) ==
  /\ Level1(l1, n2) /\ Level2(l2, n2, n3) /\ L2Pool \in Nat
  /\ i \in Half /\ l1[i].type = "invalid" /\ n2 < L2Pool
  /\ e \in TableEntry /\ e.type = "table" /\ e.out = n2 + 1
L3Free(l1, l2, l3, n2, n3, t, i, e) ==
  /\ Level1(l1, n2) /\ Level2(l2, n2, n3) /\ Level3(l3, n3) /\ L3Pool \in Nat /\ L2Pool \in Nat
  /\ t \in 1..n2 /\ i \in Half /\ l2[t][i].type = "invalid" /\ n3 < L3Pool
  /\ e \in TableEntry /\ e.type = "table" /\ e.out = n3 + 1
BlockFree(l1, l2, l3, n2, n3, i, t, j, e) ==
  /\ Level1(l1, n2) /\ Level2(l2, n2, n3) /\ L2Pool \in Nat
  /\ i \in Half /\ l1[i].type = "table" /\ t = l1[i].out
  /\ j \in Half /\ l2[t][j].type = "invalid" /\ e \in TableEntry /\ e.type = "block"
PageFree(l1, l2, l3, n2, n3, i, t, j, u, h, e) ==
  /\ Level1(l1, n2) /\ Level2(l2, n2, n3) /\ Level3(l3, n3) /\ L2Pool \in Nat /\ L3Pool \in Nat
  /\ i \in Half /\ l1[i].type = "table" /\ t = l1[i].out
  /\ j \in Half /\ l2[t][j].type = "table" /\ u = l2[t][j].out
  /\ h \in Half /\ l3[u][h].type = "invalid" /\ e \in TableEntry /\ e.type = "page"

\* A new L2 table is empty: no walk changes.
LEMMA L2Taken ==
  ASSUME NEW l1, NEW l2, NEW l3, NEW n2, NEW n3, NEW i, NEW e, L2Free(l1, l2, n2, n3, i, e)
  PROVE  LET m1 == [l1 EXCEPT ![i] = e]
         IN /\ Level1(m1, n2 + 1) /\ Level2(l2, n2 + 1, n3)
            /\ SameWalks(l1, l2, l3, m1, l2)
<1> USE DEF L2Free
<1> DEFINE m1 == [l1 EXCEPT ![i] = e]
           k == n2 + 1
<1>1. /\ l1 \in Table /\ n2 \in 0..L2Pool
      /\ \A j \in Half : l1[j].type = "invalid" \/ (l1[j].type = "table" /\ l1[j].out \in 1..n2)
      /\ \A j, h \in Half : l1[j].type = "table" /\ l1[h].type = "table" /\ l1[j].out = l1[h].out => j = h
  BY DEF Level1
<1>2. m1 \in Table /\ m1[i] = e /\ \A j \in Half \ {i} : m1[j] = l1[j]
  BY <1>1 DEF Table
<1>3. k \in 1..L2Pool /\ k \in 0..L2Pool /\ k \in Nat /\ k > n2 /\ 1..n2 \subseteq 1..k /\ k \notin 1..n2
  BY <1>1
<1> HIDE DEF m1
<1>4. Level1(m1, k)
  <2>1. \A j \in Half : m1[j].type = "invalid" \/ (m1[j].type = "table" /\ m1[j].out \in 1..k)
    <3> HIDE DEF k
    <3> QED
      BY <1>1, <1>2, <1>3 DEF k
  <2>2. ASSUME NEW j \in Half, NEW h \in Half, m1[j].type = "table", m1[h].type = "table", m1[j].out = m1[h].out PROVE j = h
    <3>1. \A g \in Half \ {i} : m1[g].type = "table" => m1[g].out # k
      BY <1>1, <1>2, <1>3
    <3>2. m1[i].out = k
      BY <1>2
    <3> HIDE DEF k
    <3>3. CASE j = i
      BY <2>2, <3>1, <3>2, <3>3
    <3>4. CASE h = i
      BY <2>2, <3>1, <3>2, <3>4
    <3>5. CASE j # i /\ h # i
      BY <1>1, <1>2, <2>2, <3>5
    <3> QED
      BY <3>3, <3>4, <3>5
  <2> HIDE DEF k
  <2> QED
    BY <1>2, <1>3, <2>1, <2>2 DEF Level1
<1>5. Level2(l2, k, n3)
  <2>1. \A t \in 1..L2Pool : t > k => t > n2
    BY <1>1, <1>3
  <2> HIDE DEF k
  <2> QED
    BY <2>1 DEF Level2
<1>6. ASSUME NEW i1 \in Half, NEW i2 \in Half, NEW i3 \in Half PROVE WalkBy(m1, l2, l3, i1, i2, i3) = WalkBy(l1, l2, l3, i1, i2, i3)
  <2>1. CASE i1 # i
    BY <1>2, <2>1 DEF WalkBy
  <2>2. CASE i1 = i
    <3>1. WalkBy(l1, l2, l3, i1, i2, i3) = Invalid
      BY <2>2 DEF WalkBy
    <3>2. l2[k][i2].type = "invalid"
      BY <1>3 DEF Level2
    <3> HIDE DEF k
    <3>3. WalkBy(m1, l2, l3, i1, i2, i3) = Invalid
      BY <1>2, <2>2, <3>2 DEF WalkBy, k
    <3> QED
      BY <3>1, <3>3
  <2> QED
    BY <2>1, <2>2
<1> QED
  BY <1>4, <1>5, <1>6 DEF m1, SameWalks

\* So is a new L3 table.
LEMMA L3Taken ==
  ASSUME NEW l1, NEW l2, NEW l3, NEW n2, NEW n3, NEW t, NEW i, NEW e, L3Free(l1, l2, l3, n2, n3, t, i, e)
  PROVE  LET m2 == Put(l2, t, i, e)
         IN /\ Level2(m2, n2, n3 + 1) /\ Level3(l3, n3 + 1)
            /\ SameWalks(l1, l2, l3, l1, m2)
<1> USE DEF L3Free
<1> DEFINE m2 == [l2 EXCEPT ![t][i] = e]
           k == n3 + 1
<1>1. /\ l2 \in [1..L2Pool -> Table] /\ n3 \in 0..L3Pool
      /\ \A u \in 1..L2Pool, j \in Half : l2[u][j].type \in {"invalid", "block"} \/ (l2[u][j].type = "table" /\ l2[u][j].out \in 1..n3)
      /\ \A u, v \in 1..L2Pool, j, h \in Half :
           l2[u][j].type = "table" /\ l2[v][h].type = "table" /\ l2[u][j].out = l2[v][h].out => u = v /\ j = h
      /\ \A u \in 1..L2Pool, j \in Half : u > n2 => l2[u][j].type = "invalid"
  BY DEF Level2
<1>a. n2 \in Nat /\ t \in 1..L2Pool /\ ~(t > n2)
  BY DEF Level1
<1>2. /\ m2 \in [1..L2Pool -> Table] /\ m2[t][i] = e
      /\ \A u \in 1..L2Pool, j \in Half : ~(u = t /\ j = i) => m2[u][j] = l2[u][j]
  BY <1>1, <1>a DEF Table
<1>3. k \in 1..L3Pool /\ k \in 0..L3Pool /\ k \in Nat /\ k > n3 /\ 1..n3 \subseteq 1..k /\ k \notin 1..n3
  BY <1>1
<1> HIDE DEF m2
<1>4. m2[t][i].type = "table" /\ m2[t][i].out = k
  BY <1>2
<1>5. \A u \in 1..L2Pool, j \in Half : ~(u = t /\ j = i) /\ m2[u][j].type = "table" => m2[u][j].out # k /\ m2[u][j].out \in 1..k
  BY <1>1, <1>2, <1>3
<1>b. k = n3 + 1
  OBVIOUS
<1> HIDE DEF k
<1>6. Level2(m2, n2, k)
  <2>1. \A u \in 1..L2Pool, j \in Half : m2[u][j].type \in {"invalid", "block"} \/ (m2[u][j].type = "table" /\ m2[u][j].out \in 1..k)
    <3> TAKE u \in 1..L2Pool, j \in Half
    <3>1. CASE u = t /\ j = i
      BY <1>3, <1>4, <3>1
    <3>2. CASE ~(u = t /\ j = i)
      BY <1>1, <1>2, <1>3, <3>2
    <3> QED
      BY <3>1, <3>2
  <2>2. ASSUME NEW u \in 1..L2Pool, NEW v \in 1..L2Pool, NEW j \in Half, NEW h \in Half,
               m2[u][j].type = "table", m2[v][h].type = "table", m2[u][j].out = m2[v][h].out
        PROVE  u = v /\ j = h
    <3>1. CASE u = t /\ j = i
      BY <1>4, <1>5, <2>2, <3>1
    <3>2. CASE v = t /\ h = i
      BY <1>4, <1>5, <2>2, <3>2
    <3>3. CASE ~(u = t /\ j = i) /\ ~(v = t /\ h = i)
      <4>1. m2[u][j] = l2[u][j] /\ m2[v][h] = l2[v][h]
        BY <1>2, <3>3
      <4> QED
        BY <1>1, <2>2, <4>1
    <3> QED
      BY <3>1, <3>2, <3>3
  <2>3. \A u \in 1..L2Pool, j \in Half : u > n2 => m2[u][j].type = "invalid"
    BY <1>1, <1>2, <1>a
  <2> QED
    BY <1>2, <1>3, <2>1, <2>2, <2>3 DEF Level2
<1>7. Level3(l3, k)
  <2>1. \A u \in 1..L3Pool : u > k => u > n3
    BY <1>1, <1>3
  <2> QED
    BY <2>1 DEF Level3
<1>8. ASSUME NEW i1 \in Half, NEW i2 \in Half, NEW i3 \in Half PROVE WalkBy(l1, m2, l3, i1, i2, i3) = WalkBy(l1, l2, l3, i1, i2, i3)
  <2>1. CASE l1[i1].type # "table"
    BY <2>1 DEF WalkBy
  <2>2. CASE l1[i1].type = "table" /\ ~(l1[i1].out = t /\ i2 = i)
    <3>1. l1[i1].out \in 1..L2Pool
      BY <2>2 DEF Level1
    <3>2. m2[l1[i1].out][i2] = l2[l1[i1].out][i2]
      BY <1>2, <2>2, <3>1
    <3> QED
      BY <3>2 DEF WalkBy
  <2>3. CASE l1[i1].type = "table" /\ l1[i1].out = t /\ i2 = i
    <3>1. WalkBy(l1, l2, l3, i1, i2, i3) = Invalid
      BY <2>3 DEF WalkBy
    <3>2. l3[k][i3] = Invalid
      BY <1>3 DEF Level3
    <3>3. WalkBy(l1, m2, l3, i1, i2, i3) = l3[k][i3]
      BY <1>4, <2>3 DEF WalkBy
    <3> QED
      BY <3>1, <3>2, <3>3
  <2> QED
    BY <2>1, <2>2, <2>3
<1> QED
  BY <1>6, <1>7, <1>8 DEF m2, k, Put, SameWalks

\* A block is seen from its addresses and from no others.
LEMMA BlockWritten ==
  ASSUME NEW l1, NEW l2, NEW l3, NEW n2, NEW n3, NEW i, NEW t, NEW j, NEW e, BlockFree(l1, l2, l3, n2, n3, i, t, j, e)
  PROVE  LET m2 == Put(l2, t, j, e)
         IN Level2(m2, n2, n3) /\ BlockSeen(l1, l2, l3, m2, i, j, e)
<1> USE DEF BlockFree
<1> DEFINE m2 == [l2 EXCEPT ![t][j] = e]
<1>1. /\ l2 \in [1..L2Pool -> Table] /\ n3 \in 0..L3Pool
      /\ \A u \in 1..L2Pool, h \in Half : l2[u][h].type \in {"invalid", "block"} \/ (l2[u][h].type = "table" /\ l2[u][h].out \in 1..n3)
      /\ \A u, v \in 1..L2Pool, g, h \in Half :
           l2[u][g].type = "table" /\ l2[v][h].type = "table" /\ l2[u][g].out = l2[v][h].out => u = v /\ g = h
      /\ \A u \in 1..L2Pool, h \in Half : u > n2 => l2[u][h].type = "invalid"
  BY DEF Level2
<1>2. n2 \in Nat /\ t \in 1..L2Pool /\ ~(t > n2)
  BY DEF Level1
<1>3. /\ m2 \in [1..L2Pool -> Table] /\ m2[t][j] = e
      /\ \A u \in 1..L2Pool, h \in Half : ~(u = t /\ h = j) => m2[u][h] = l2[u][h]
  BY <1>1, <1>2 DEF Table
<1> HIDE DEF m2
<1>4. \A u \in 1..L2Pool, h \in Half : m2[u][h].type = "table" => m2[u][h] = l2[u][h]
  BY <1>3
<1>5. Level2(m2, n2, n3)
  <2>1. \A u \in 1..L2Pool, h \in Half : m2[u][h].type \in {"invalid", "block"} \/ (m2[u][h].type = "table" /\ m2[u][h].out \in 1..n3)
    <3> TAKE u \in 1..L2Pool, h \in Half
    <3>1. CASE u = t /\ h = j
      <4>1. m2[u][h].type = "block"
        BY <1>3, <3>1
      <4> QED
        BY <4>1
    <3>2. CASE ~(u = t /\ h = j)
      BY <1>1, <1>3, <3>2
    <3> QED
      BY <3>1, <3>2
  <2>2. \A u, v \in 1..L2Pool, g, h \in Half :
          m2[u][g].type = "table" /\ m2[v][h].type = "table" /\ m2[u][g].out = m2[v][h].out => u = v /\ g = h
    BY <1>1, <1>4
  <2>3. \A u \in 1..L2Pool, h \in Half : u > n2 => m2[u][h].type = "invalid"
    BY <1>1, <1>2, <1>3
  <2> QED
    BY <1>1, <1>3, <2>1, <2>2, <2>3 DEF Level2
<1>6. ASSUME NEW i1 \in Half, NEW i2 \in Half, NEW i3 \in Half, ~(i1 = i /\ i2 = j)
      PROVE  WalkBy(l1, m2, l3, i1, i2, i3) = WalkBy(l1, l2, l3, i1, i2, i3)
  <2>1. CASE l1[i1].type # "table"
    BY <2>1 DEF WalkBy
  <2>2. CASE l1[i1].type = "table"
    <3>1. l1[i1].out \in 1..L2Pool /\ ~(l1[i1].out = t /\ i2 = j)
      BY <1>6, <2>2 DEF Level1
    <3>2. m2[l1[i1].out][i2] = l2[l1[i1].out][i2]
      BY <1>3, <3>1
    <3> QED
      BY <3>2 DEF WalkBy
  <2> QED
    BY <2>1, <2>2
<1>7. ASSUME NEW i3 \in Half
      PROVE  WalkBy(l1, l2, l3, i, j, i3) = Invalid /\ WalkBy(l1, m2, l3, i, j, i3) = [e EXCEPT !.out = @ + i3]
  <2>1. WalkBy(l1, l2, l3, i, j, i3) = Invalid
    BY DEF WalkBy
  <2>2. WalkBy(l1, m2, l3, i, j, i3) = [e EXCEPT !.out = @ + i3]
    BY <1>3, SMTT(30) DEF WalkBy
  <2> QED
    BY <2>1, <2>2
<1> QED
  BY <1>5, <1>6, <1>7 DEF m2, Put, BlockSeen

\* And a page from its one address.
LEMMA PageWritten ==
  ASSUME NEW l1, NEW l2, NEW l3, NEW n2, NEW n3, NEW i, NEW t, NEW j, NEW u, NEW h, NEW e, PageFree(l1, l2, l3, n2, n3, i, t, j, u, h, e)
  PROVE  LET m3 == Put(l3, u, h, e)
         IN Level3(m3, n3) /\ PageSeen(l1, l2, l3, m3, i, j, h, e)
<1> USE DEF PageFree
<1> DEFINE m3 == [l3 EXCEPT ![u][h] = e]
<1>1. t \in 1..L2Pool
  BY DEF Level1
<1>2. u \in 1..n3 /\ u \in 1..L3Pool /\ n3 \in Nat
  BY <1>1 DEF Level2
<1>3. /\ l3 \in [1..L3Pool -> Table]
      /\ \A v \in 1..L3Pool, k \in Half : l3[v][k].type = "page" \/ l3[v][k] = Invalid
      /\ \A v \in 1..L3Pool, k \in Half : v > n3 => l3[v][k] = Invalid
  BY SMTT(30) DEF Level3
<1>4. /\ m3 \in [1..L3Pool -> Table] /\ m3[u][h] = e
      /\ \A v \in 1..L3Pool, k \in Half : ~(v = u /\ k = h) => m3[v][k] = l3[v][k]
  BY <1>2, <1>3 DEF Table
<1> HIDE DEF m3, Put
<1>5. Level3(m3, n3)
  <2>1. \A v \in 1..L3Pool, k \in Half : m3[v][k].type = "page" \/ m3[v][k] = Invalid
    BY <1>3, <1>4
  <2>2. \A v \in 1..L3Pool, k \in Half : v > n3 => m3[v][k] = Invalid
    <3>1. ~(u > n3)
      BY <1>2
    <3> QED
      BY <1>3, <1>4, <3>1
  <2> QED
    BY <1>4, <2>1, <2>2 DEF Level3
<1>6. ASSUME NEW i1 \in Half, NEW i2 \in Half, NEW i3 \in Half, ~(i1 = i /\ i2 = j /\ i3 = h)
      PROVE  WalkBy(l1, l2, m3, i1, i2, i3) = WalkBy(l1, l2, l3, i1, i2, i3)
  <2>1. CASE l1[i1].type # "table"
    BY <2>1 DEF WalkBy
  <2>2. CASE l1[i1].type = "table" /\ l2[l1[i1].out][i2].type # "table"
    BY <2>2 DEF WalkBy
  <2>3. CASE l1[i1].type = "table" /\ l2[l1[i1].out][i2].type = "table"
    <3>1. l1[i1].out \in 1..L2Pool
      BY <2>3 DEF Level1
    <3>2. l2[l1[i1].out][i2].out \in 1..L3Pool
      BY <1>2, <2>3, <3>1, SMTT(30) DEF Level2
    <3>3. ~(l2[l1[i1].out][i2].out = u /\ i3 = h)
      <4> SUFFICES ASSUME l2[l1[i1].out][i2].out = u, i3 = h PROVE FALSE
        OBVIOUS
      <4>1. l1[i1].out = t /\ i2 = j
        BY <1>1, <2>3, <3>1, SMTT(30) DEF Level2
      <4>2. i1 = i
        BY <2>3, <4>1 DEF Level1
      <4> QED
        BY <1>6, <4>1, <4>2
    <3>4. m3[l2[l1[i1].out][i2].out][i3] = l3[l2[l1[i1].out][i2].out][i3]
      BY <1>4, <3>2, <3>3
    <3> QED
      BY <2>3, <3>4 DEF WalkBy
  <2> QED
    BY <2>1, <2>2, <2>3
<1>7. WalkBy(l1, l2, l3, i, j, h) = Invalid
  <2>1. l3[u][h] = Invalid
    BY <1>2, <1>3
  <2> QED
    BY <2>1 DEF WalkBy
<1>8. WalkBy(l1, l2, m3, i, j, h) = e
  BY <1>4 DEF WalkBy
<1> QED
  BY <1>5, <1>6, <1>7, <1>8 DEF m3, Put, PageSeen

-----------------------------------------------------------------------------
(* The machine: what a guest gets, and how windows and snapshots pack.     *)

LEMMA MachineShape ==
  ASSUME MemoryAssumption, machine \in MemoryConfigs
  PROVE  /\ WellFormed(machine)
         /\ Len(machine.guests) \in Nat \ {0} /\ Len(machine.regions) \in Nat
         /\ \A g \in Guest : /\ g \in Nat \ {0} /\ machine.guests[g].load \in Nat /\ machine.guests[g].size \in Nat \ {0}
                             /\ machine.guests[g].image \in Nat
         /\ \A i \in 1..Len(machine.regions) : machine.regions[i].ipa \in Nat /\ machine.regions[i].pa \in Nat /\ machine.regions[i].size \in Nat
<1>1. WellFormed(machine)
  BY DEF MemoryAssumption
<1> DEFINE G == [load : Nat, size : Nat \ {0}, image : Nat, corrupt : BOOLEAN]
           R == [device : STRING, ipa : Nat, pa : Nat, size : Nat]
<1>2. machine.guests \in Seq(G) /\ Len(machine.guests) > 0 /\ machine.regions \in Seq(R)
  BY <1>1 DEF WellFormed
<1>3. \A s \in G : s.load \in Nat /\ s.size \in Nat \ {0} /\ s.image \in Nat
  OBVIOUS
<1>4. \A s \in R : s.ipa \in Nat /\ s.pa \in Nat /\ s.size \in Nat
  OBVIOUS
<1> HIDE DEF G, R
<1>5. \A g \in 1..Len(machine.guests) : machine.guests[g] \in G
  BY <1>2
<1>6. \A g \in 1..Len(machine.regions) : machine.regions[g] \in R
  BY <1>2
<1>7. Len(machine.guests) \in Nat /\ Len(machine.regions) \in Nat
  BY <1>2
<1> QED
  BY <1>1, <1>2, <1>3, <1>4, <1>5, <1>6, <1>7 DEF Guest

\* A range of guest g is its window, the IVC page, or a region of a device it owns.
MapRange == [ipa : Nat, pa : Nat, size : Nat, attr : {"rwx", "rw", "device"}]
RangeOf(r, g) ==
  \/ r.pa = machine.guests[g].load /\ r.size = machine.guests[g].size
  \/ r.pa = IvcPa /\ r.size = 1
  \/ \E k \in 1..Len(machine.regions) :
       Owns(machine.regions[k].device, g) /\ r.pa = machine.regions[k].pa /\ r.size = machine.regions[k].size

LEMMA RangesShape ==
  ASSUME MemoryAssumption, machine \in MemoryConfigs, NEW g \in Guest
  PROVE  /\ Ranges(g) \in Seq(MapRange) /\ Len(Ranges(g)) \in Nat \ {0} /\ Ranges(g)[1].ipa = IpaBase
         /\ \A i \in 1..Len(Ranges(g)) : Ranges(g)[i] \in MapRange /\ RangeOf(Ranges(g)[i], g)
<1> DEFINE ram == [ipa |-> IpaBase, pa |-> machine.guests[g].load, size |-> machine.guests[g].size, attr |-> "rwx"]
           ivc == [ipa |-> IvcIpa, pa |-> IvcPa, size |-> 1, attr |-> "rw"]
           N == Len(machine.regions)
           dev(n) == [ipa |-> machine.regions[n].ipa, pa |-> machine.regions[n].pa, size |-> machine.regions[n].size, attr |-> "device"]
           R == {r \in MapRange : RangeOf(r, g)}
           V == {s \in Seq(R) : Len(s) > 0 /\ s[1].ipa = IpaBase}
           first == <<ram, ivc>>
           step == [n \in 1..N |-> [s \in V |-> IF Owns(machine.regions[n].device, g) THEN Append(s, dev(n)) ELSE s]]
           F(f) == [n \in 0..N |-> IF n = 0 THEN first
                                   ELSE IF Owns(machine.regions[n].device, g) THEN Append(f[n - 1], dev(n)) ELSE f[n - 1]]
           with == CHOOSE f : f = F(f)
<1>1. N \in Nat /\ machine.guests[g].load \in Nat /\ machine.guests[g].size \in Nat
  BY MachineShape
<1>2. ram \in R /\ ivc \in R
  <2>1. ram \in MapRange /\ RangeOf(ram, g)
    BY <1>1 DEF MemoryAssumption, MapRange, RangeOf
  <2>2. ivc \in MapRange /\ RangeOf(ivc, g)
    BY DEF MemoryAssumption, MapRange, RangeOf
  <2> QED
    BY <2>1, <2>2
<1>3. first \in V
  <2>1. first[1].ipa = IpaBase
    OBVIOUS
  <2> HIDE DEF R, ram, ivc
  <2>2. first \in Seq(R) /\ Len(first) > 0
    BY <1>2
  <2> QED
    BY <2>1, <2>2
<1>4. ASSUME NEW n \in 1..N, Owns(machine.regions[n].device, g) PROVE dev(n) \in R
  <2>1. dev(n) \in MapRange
    BY MachineShape DEF MapRange
  <2>2. RangeOf(dev(n), g)
    BY <1>4 DEF RangeOf
  <2> QED
    BY <2>1, <2>2
<1>5. ASSUME NEW n \in 1..N, NEW s \in V, Owns(machine.regions[n].device, g) PROVE Append(s, dev(n)) \in V
  <2>1. dev(n) \in R
    BY <1>4, <1>5
  <2> HIDE DEF R, dev
  <2>2. s \in Seq(R) /\ Len(s) > 0 /\ s[1].ipa = IpaBase
    OBVIOUS
  <2>3. Append(s, dev(n)) \in Seq(R) /\ Len(Append(s, dev(n))) > 0 /\ Append(s, dev(n))[1] = s[1]
    BY <2>1, <2>2
  <2> QED
    BY <2>2, <2>3
<1> HIDE DEF ram, ivc, first, V, dev
<1>6. step \in [1..N -> [V -> V]]
  BY <1>5
<1>0. N \in Nat
  BY <1>1
<1>7. PICK f : Stepwise(f, V, N, first, step)
  <2> HIDE DEF step, N
  <2> QED
    BY <1>0, <1>3, <1>6, StepByStep
<1>a. f \in [0..N -> V] /\ f[0] = first /\ \A n \in 1..N : f[n] = step[n][f[n - 1]]
  <2> HIDE DEF step, N
  <2> QED
    BY <1>7 DEF Stepwise
<1>8. f = F(f)
  <2>1. \A n \in 0..N : f[n] = F(f)[n]
    <3> TAKE n \in 0..N
    <3>1. CASE n = 0
      BY <1>a, <3>1
    <3>2. CASE n # 0
      <4>1. n \in 1..N /\ f[n - 1] \in V
        <5> HIDE DEF step
        <5> QED
          BY <1>1, <1>a, <3>2
      <4>2. f[n] = step[n][f[n - 1]]
        <5> HIDE DEF step
        <5> QED
          BY <1>a, <4>1
      <4>3. step[n][f[n - 1]] = IF Owns(machine.regions[n].device, g) THEN Append(f[n - 1], dev(n)) ELSE f[n - 1]
        BY <4>1
      <4> HIDE DEF step
      <4>4. F(f)[n] = IF Owns(machine.regions[n].device, g) THEN Append(f[n - 1], dev(n)) ELSE f[n - 1]
        BY <3>2
      <4> QED
        BY <4>2, <4>3, <4>4
    <3> QED
      BY <3>1, <3>2
  <2> QED
    BY <1>a, <2>1
<1>9. with = F(with)
  <2> HIDE DEF F
  <2> QED
    BY <1>8
<1>10. Ranges(g) = with[N]
  BY DEF Ranges, first, ram, ivc, dev
<1> HIDE DEF with
<1>11. \A n \in 0..N : with[n] = IF n = 0 THEN first
                                 ELSE IF Owns(machine.regions[n].device, g) THEN Append(with[n - 1], dev(n)) ELSE with[n - 1]
  <2>1. \A n \in 0..N : F(with)[n] = IF n = 0 THEN first
                                 ELSE IF Owns(machine.regions[n].device, g) THEN Append(with[n - 1], dev(n)) ELSE with[n - 1]
    OBVIOUS
  <2> HIDE DEF F
  <2> QED
    BY <1>9, <2>1
<1> HIDE DEF F, step
<1> DEFINE S == {n \in Nat : n <= N => with[n] \in V}
<1>12. S = Nat
  <2>1. 0 \in S
    BY <1>1, <1>3, <1>11
  <2>2. ASSUME NEW n \in S PROVE n + 1 \in S
    <3>1. n \in Nat /\ (n <= N => with[n] \in V) /\ n + 1 \in Nat
      OBVIOUS
    <3>2. CASE n + 1 <= N
      <4>1. n + 1 \in 0..N /\ n + 1 \in 1..N /\ n + 1 # 0 /\ (n + 1) - 1 = n /\ n <= N
        BY <1>1, <3>1, <3>2
      <4>2. with[n + 1] = IF Owns(machine.regions[n + 1].device, g) THEN Append(with[n], dev(n + 1)) ELSE with[n]
        BY <1>11, <4>1
      <4> QED
        BY <1>5, <3>1, <4>1, <4>2
    <3> QED
      BY <3>1, <3>2
  <2>3. S \in SUBSET Nat
    OBVIOUS
  <2> HIDE DEF S
  <2> QED
    BY <2>1, <2>2, <2>3, NaturalSteps
<1>13. with[N] \in V
  BY <1>1, <1>12
<1>14. Ranges(g) \in Seq(R) /\ Len(Ranges(g)) > 0 /\ Ranges(g)[1].ipa = IpaBase
  BY <1>10, <1>13 DEF V
<1>15. Len(Ranges(g)) \in Nat /\ \A i \in 1..Len(Ranges(g)) : Ranges(g)[i] \in R
  <2> HIDE DEF R
  <2> QED
    BY <1>14
<1>16. Ranges(g) = [i \in 1..Len(Ranges(g)) |-> Ranges(g)[i]]
  <2> HIDE DEF R
  <2> QED
    BY <1>14
<1>17. \A i \in 1..Len(Ranges(g)) : Ranges(g)[i] \in MapRange /\ RangeOf(Ranges(g)[i], g)
  BY <1>15
<1>18. Ranges(g) \in Seq(MapRange)
  <2>1. \A s \in Seq(R) : s \in Seq(MapRange)
    OBVIOUS
  <2> HIDE DEF R
  <2> QED
    BY <1>14, <2>1
<1> QED
  BY <1>14, <1>15, <1>17, <1>18

LEMMA RangeFields ==
  \A r \in MapRange : r.ipa \in Nat /\ r.pa \in Nat /\ r.size \in Nat /\ r.attr \in {"rwx", "rw", "device"}
  BY DEF MapRange

\* The machine never changes, and nor does what follows from it alone.
LEMMA MachineStays ==
  ASSUME machine' = machine
  PROVE  /\ Guest' = Guest /\ \A g : Ranges(g)' = Ranges(g) /\ Window(g)' = Window(g) /\ PristineSlot(g)' = PristineSlot(g)
         /\ Reserved' = Reserved
  BY DEF Guest, Ranges, Owns, Owner_of, Window, PristineSlot, Packed, AlignUp, Reserved, Vmid

\* The packing rule, entry by entry.
LEMMA PackedSteps ==
  ASSUME MemoryAssumption, machine \in MemoryConfigs, NEW base \in Nat
  PROVE  /\ Packed(base, 1) = base
         /\ \A g \in Guest : Packed(base, g) \in Nat /\ Packed(base, g) >= base
         /\ \A g \in Guest : g + 1 \in Guest => Packed(base, g + 1) >= Packed(base, g) + machine.guests[g].size
<1> DEFINE N == Len(machine.guests)
           size(i) == machine.guests[i].size
           M == N - 1
           step == [n \in 1..M |-> [v \in Nat |-> AlignUp(v + size(n))]]
           F(f) == [i \in Guest |-> IF i = 1 THEN base ELSE AlignUp(f[i - 1] + size(i - 1))]
           start == CHOOSE f : f = F(f)
<1>1. N \in Nat \ {0} /\ M \in Nat /\ Guest = 1..N /\ \A i \in Guest : size(i) \in Nat
  BY MachineShape DEF Guest
<1>2. Fan \in Nat \ {0}
  BY DEF MemoryAssumption
<1> HIDE DEF size
<1>3. step \in [1..M -> [Nat -> Nat]]
  <2>1. \A n \in 1..M, v \in Nat : AlignUp(v + size(n)) \in Nat
    <3> TAKE n \in 1..M, v \in Nat
    <3>1. n \in Guest
      BY <1>1
    <3>2. v + size(n) \in Nat
      BY <1>1, <3>1
    <3> QED
      BY <1>2, <3>2, AlignsUp
  <2> QED
    BY <2>1
<1>4. PICK f : Stepwise(f, Nat, M, base, step)
  <2> HIDE DEF step, M
  <2> QED
    BY <1>1, <1>3, StepByStep
<1>5. f \in [0..M -> Nat] /\ f[0] = base /\ \A n \in 1..M : f[n] = step[n][f[n - 1]]
  <2> HIDE DEF step, M
  <2> QED
    BY <1>4 DEF Stepwise
<1> DEFINE s == [i \in Guest |-> f[i - 1]]
<1>6. s = F(s)
  <2>1. ASSUME NEW i \in Guest PROVE s[i] = F(s)[i]
    <3>1. CASE i = 1
      BY <1>5, <3>1
    <3>2. CASE i # 1
      <4>1. i - 1 \in 1..M /\ i - 1 \in Guest /\ i - 1 - 1 \in 0..M
        BY <1>1, <3>2
      <4>2. s[i - 1] = f[i - 1 - 1] /\ f[i - 1 - 1] \in Nat
        BY <1>5, <4>1
      <4>3. f[i - 1] = step[i - 1][f[i - 1 - 1]]
        <5> HIDE DEF step
        <5> QED
          BY <1>5, <4>1
      <4>4. f[i - 1] = AlignUp(f[i - 1 - 1] + size(i - 1))
        BY <4>1, <4>2, <4>3
      <4>5. F(s)[i] = AlignUp(s[i - 1] + size(i - 1))
        <5> HIDE DEF s
        <5> QED
          BY <3>2
      <4>6. s[i] = f[i - 1]
        OBVIOUS
      <4> HIDE DEF F, s
      <4> QED
        BY <4>2, <4>4, <4>5, <4>6
    <3> QED
      BY <3>1, <3>2
  <2>2. s = [i \in Guest |-> s[i]]
    OBVIOUS
  <2>3. F(s) = [i \in Guest |-> F(s)[i]]
    OBVIOUS
  <2> HIDE DEF F, s
  <2> QED
    BY <2>1, <2>2, <2>3
<1>7. start = F(start)
  <2> HIDE DEF F, s
  <2> QED
    BY <1>6
<1>8. \A g : Packed(base, g) = start[g]
  BY DEF Packed, size
<1> HIDE DEF start
<1>9. \A i \in Guest : start[i] = IF i = 1 THEN base ELSE AlignUp(start[i - 1] + size(i - 1))
  <2>1. \A i \in Guest : F(start)[i] = IF i = 1 THEN base ELSE AlignUp(start[i - 1] + size(i - 1))
    OBVIOUS
  <2> HIDE DEF F
  <2> QED
    BY <1>7, <2>1
<1> HIDE DEF F, step, s
<1> DEFINE Up(i) == start[i] \in Nat /\ start[i] >= base
           S == {n \in Nat : n <= M => Up(n + 1)}
<1>10. ASSUME NEW i \in Guest, i + 1 \in Guest, Up(i)
       PROVE  Up(i + 1) /\ start[i + 1] >= start[i] + size(i)
  <2>1. start[i] + size(i) \in Nat /\ start[i] + size(i) >= base
    BY <1>1, <1>10, SMTT(30)
  <2>2. (i + 1) - 1 = i /\ i + 1 # 1
    BY <1>1
  <2>3. start[i + 1] = AlignUp(start[i] + size(i))
    BY <1>9, <1>10, <2>2
  <2>4. AlignUp(start[i] + size(i)) \in Nat /\ AlignUp(start[i] + size(i)) >= start[i] + size(i)
    BY <1>2, <2>1, AlignsUp
  <2> QED
    BY <2>1, <2>3, <2>4
<1> HIDE DEF Up
<1>11. S = Nat
  <2>1. 0 \in S
    <3>1. 0 + 1 = 1 /\ 1 \in Guest
      BY <1>1
    <3>2. Up(1)
      BY <1>9, <3>1 DEF Up
    <3> QED
      BY <3>1, <3>2
  <2>2. ASSUME NEW n \in S PROVE n + 1 \in S
    <3>1. n \in Nat /\ (n <= M => Up(n + 1)) /\ n + 1 \in Nat
      OBVIOUS
    <3>2. CASE n + 1 <= M
      <4>1. n <= M /\ n + 1 \in Guest /\ (n + 1) + 1 \in Guest
        BY <1>1, <3>1, <3>2
      <4> QED
        BY <1>10, <3>1, <4>1
    <3> QED
      BY <3>1, <3>2
  <2>3. S \in SUBSET Nat
    OBVIOUS
  <2> HIDE DEF S
  <2> QED
    BY <2>1, <2>2, <2>3, NaturalSteps
<1>12. ASSUME NEW i \in Guest PROVE Up(i)
  <2>1. i - 1 \in Nat /\ i - 1 <= M /\ (i - 1) + 1 = i
    BY <1>1
  <2>2. i - 1 \in S
    BY <1>11, <2>1
  <2> QED
    BY <2>1, <2>2
<1>13. start[1] = base
  BY <1>1, <1>9
<1> HIDE DEF S, M, N
<1> QED
  BY <1>8, <1>10, <1>12, <1>13 DEF Up, size

\* So what is packed later starts past all that is packed before.
LEMMA PackedApart ==
  ASSUME MemoryAssumption, machine \in MemoryConfigs, NEW base \in Nat, NEW g \in Guest, NEW h \in Guest, g < h
  PROVE  Packed(base, h) >= Packed(base, g) + machine.guests[g].size
<1> DEFINE P(i) == Packed(base, i)
           size(i) == machine.guests[i].size
           S == {n \in Nat : g + 1 + n \in Guest => P(g + 1 + n) >= P(g) + size(g)}
           N == Len(machine.guests)
<1>1. \A i \in Guest : P(i) \in Nat /\ (i + 1 \in Guest => P(i + 1) >= P(i) + size(i))
  BY PackedSteps
<1>2. \A i \in Guest : size(i) \in Nat
  BY MachineShape
<1>3. N \in Nat /\ Guest = 1..N
  BY MachineShape DEF Guest
<1> HIDE DEF P, size, N
<1>4. S = Nat
  <2>1. 0 \in S
    BY <1>1, <1>3
  <2>2. ASSUME NEW n \in S PROVE n + 1 \in S
    <3> DEFINE i == g + 1 + n
    <3>1. n \in Nat /\ (i \in Guest => P(i) >= P(g) + size(g)) /\ n + 1 \in Nat
      OBVIOUS
    <3>2. g + 1 + (n + 1) = i + 1 /\ i \in Nat /\ i >= 1 /\ (i + 1 \in Guest => i \in Guest)
      BY <1>3, <3>1
    <3> HIDE DEF i
    <3>3. i + 1 \in Guest => P(i + 1) >= P(g) + size(g)
      <4> SUFFICES ASSUME i + 1 \in Guest PROVE P(i + 1) >= P(g) + size(g)
        OBVIOUS
      <4>1. P(i + 1) >= P(i) + size(i) /\ P(i) >= P(g) + size(g) /\ P(i + 1) \in Nat /\ P(i) \in Nat /\ P(g) \in Nat /\ size(i) \in Nat /\ size(g) \in Nat
        BY <1>1, <1>2, <3>1, <3>2
      <4> QED
        BY <4>1
    <3> QED
      BY <3>1, <3>2, <3>3
  <2>3. S \in SUBSET Nat
    OBVIOUS
  <2> HIDE DEF S
  <2> QED
    BY <2>1, <2>2, <2>3, NaturalSteps
<1>5. h - g - 1 \in Nat /\ g + 1 + (h - g - 1) = h
  BY <1>3
<1>6. h - g - 1 \in S
  BY <1>4, <1>5
<1> QED
  BY <1>5, <1>6 DEF P, size

\* The snapshots lie apart, inside their reservation, and their sources inside
\* memory.
Slot(g) == PristineSlot(g) .. PristineSlot(g) + machine.guests[g].size - 1
LEMMA SlotsApart ==
  ASSUME MemoryAssumption, machine \in MemoryConfigs, Reserved
  PROVE  /\ \A g \in Guest : PristineSlot(g) \in Nat /\ PristineSlot(g) >= PristinePa
         /\ \A g \in Guest : PristineSlot(g) + machine.guests[g].size <= PristinePa + PristineSize
         /\ \A g, h \in Guest : g # h => Slot(g) \cap Slot(h) = {}
<1> DEFINE P(i) == Packed(0, i)
           size(i) == machine.guests[i].size
           N == Len(machine.guests)
<1>1. \A i \in Guest : P(i) \in Nat /\ size(i) \in Nat
  BY PackedSteps, MachineShape
<1>2. \A i, j \in Guest : i < j => P(j) >= P(i) + size(i)
  BY PackedApart
<1>3. N \in Nat \ {0} /\ Guest = 1..N /\ N \in Guest
  BY MachineShape DEF Guest
<1>4. P(N) + size(N) <= PristineSize /\ PristineSize \in Nat /\ PristinePa \in Nat
  BY DEF Reserved, MemoryAssumption
<1>5. \A i : PristineSlot(i) = PristinePa + P(i)
  BY DEF PristineSlot
<1>6. \A i : Slot(i) = PristineSlot(i) .. PristineSlot(i) + size(i) - 1
  BY DEF Slot
<1> HIDE DEF P, size, N
<1>7. ASSUME NEW g \in Guest PROVE P(g) + size(g) <= PristineSize
  <2>1. CASE g = N
    BY <1>4, <2>1
  <2>2. CASE g < N
    <3>1. P(N) >= P(g) + size(g) /\ P(N) \in Nat /\ P(g) \in Nat /\ size(g) \in Nat /\ size(N) \in Nat
      BY <1>1, <1>2, <1>3, <2>2
    <3> QED
      BY <1>4, <3>1
  <2> QED
    BY <1>3, <2>1, <2>2
<1>8. ASSUME NEW g \in Guest, NEW h \in Guest, g < h PROVE \A p \in Slot(g) : p \notin Slot(h)
  <2>1. P(h) >= P(g) + size(g) /\ P(g) \in Nat /\ P(h) \in Nat /\ size(g) \in Nat /\ size(h) \in Nat
    BY <1>1, <1>2, <1>8
  <2> QED
    BY <1>4, <1>5, <1>6, <2>1, SMTT(30)
<1>9. ASSUME NEW g \in Guest, NEW h \in Guest, g # h PROVE Slot(g) \cap Slot(h) = {}
  <2>1. g < h \/ h < g
    BY <1>3, <1>9
  <2> QED
    BY <1>8, <2>1
<1>10. ASSUME NEW g \in Guest
       PROVE  PristineSlot(g) \in Nat /\ PristineSlot(g) >= PristinePa /\ PristineSlot(g) + size(g) <= PristinePa + PristineSize
  BY <1>1, <1>4, <1>5, <1>7
<1> QED
  BY <1>9, <1>10 DEF size

-----------------------------------------------------------------------------
(* The invariant.                                                          *)

TableSet == [l1 : Table, l2 : [1..L2Pool -> Table], l3 : [1..L3Pool -> Table], l2_used : Nat, l3_used : Nat]
Tree(set) == Level1(set.l1, set.l2_used) /\ Level2(set.l2, set.l2_used, set.l3_used) /\ Level3(set.l3, set.l3_used)

Value == {"zero", "image", "dtb", "dirty"} \X Nat

MemoryTyped ==
  /\ machine \in MemoryConfigs
  /\ bootPhase \in {"config", "check", "build", "activate", "copy", "snapshot", "run", "panic"}
  /\ g_stage2_sets \in [Guest -> TableSet]
  /\ \A g \in Guest : Tree(g_stage2_sets[g])
  /\ mapping \in [vm : Guest, range : Nat, addr : Nat]
  /\ g_vttbr \in [Guest -> [root : Nat, vmid : Nat]]
  /\ mem \in [Page -> Value]
  /\ vttbr_el2 \in [root : Nat, vmid : Nat]
  /\ tlb \subseteq [vmid : Guest, ipa : Ipa, pa : Page]

\* Where map_range stands: at the start until it begins, then in a range.
Place ==
  /\ bootPhase \in {"config", "check"} => mapping.vm = 1 /\ mapping.range = 1 /\ mapping.addr = IpaBase
  /\ bootPhase = "build" => mapping.range \in 1..Len(Ranges(mapping.vm)) /\ mapping.addr >= Now.ipa

Covers(r, a) == r.ipa <= a /\ a < r.ipa + r.size
Gives(w, r, a) == w.type # "invalid" /\ w.out = r.pa + (a - r.ipa) /\ w.attr = r.attr

\* Whether the mapping of range i of guest g has passed address a.
Built == bootPhase \in {"activate", "copy", "snapshot", "run"}
Past(g, i, a) ==
  \/ Built
  \/ /\ bootPhase = "build"
     /\ \/ g < mapping.vm
        \/ g = mapping.vm /\ i < mapping.range
        \/ g = mapping.vm /\ i = mapping.range /\ a < mapping.addr

\* The walks give what the ranges passed so far ask for and nothing else.
Maps ==
  bootPhase # "panic" =>
    \A g \in Guest, a \in Ipa :
      /\ \A i \in 1..Len(Ranges(g)) : Past(g, i, a) /\ Covers(Ranges(g)[i], a) => Gives(Walk(g, a), Ranges(g)[i], a)
      /\ Walk(g, a).type # "invalid" => \E i \in 1..Len(Ranges(g)) : Past(g, i, a) /\ Covers(Ranges(g)[i], a)

Apart == \A g, h \in Guest : g # h => Window(g) \cap Window(h) = {}
Checked == bootPhase \notin {"config", "check", "panic"} => Reserved /\ Apart

Running == bootPhase \in {"copy", "snapshot", "run"}
Active ==
  /\ \A g \in Guest : Built \/ (bootPhase = "build" /\ g < mapping.vm) => g_vttbr[g].root = g /\ g_vttbr[g].vmid = g
  /\ Running => vttbr_el2.root \in Guest /\ vttbr_el2.vmid = vttbr_el2.root
  /\ tlb # {} => Running
  /\ \A e \in tlb : Walk(e.vmid, e.ipa).type # "invalid" /\ Walk(e.vmid, e.ipa).out = e.pa

\* What a window first holds is kept: in the window until the snapshot, and in
\* the snapshot from then on.
FirstContent ==
  /\ bootPhase = "snapshot" => \A g \in Guest : \A p \in Window(g) : mem[p] = Booted(g, p)
  /\ bootPhase = "run" => \A g \in Guest : \A p \in Window(g) : mem[PristineSlot(g) + p - machine.guests[g].load] = Booted(g, p)

MemoryInv == MemoryTyped /\ Place /\ Maps /\ Checked /\ Active /\ FirstContent

LEMMA WalkStays ==
  ASSUME g_stage2_sets' = g_stage2_sets PROVE \A g, ipa : Walk(g, ipa)' = Walk(g, ipa)
  BY DEF Walk

LEMMA BootedStays ==
  ASSUME machine' = machine PROVE \A g, p : Booted(g, p)' = Booted(g, p)
  BY DEF Booted, DtbPage

-----------------------------------------------------------------------------
(* Writing the tables.                                                     *)

\* Where a write finds map_range.
LEMMA WritePlace ==
  ASSUME MemoryAssumption, MemoryInv, Building
  PROVE  /\ mapping.vm \in Guest /\ mapping.addr \in Nat /\ mapping.range \in 1..Len(Ranges(mapping.vm))
         /\ Now \in MapRange /\ Now.ipa \in Nat /\ Now.pa \in Nat /\ Now.size \in Nat /\ Now.attr \in {"rwx", "rw", "device"}
         /\ mapping.addr >= Now.ipa
         /\ Set \in TableSet /\ Set = g_stage2_sets[mapping.vm] /\ Tree(Set)
<1>1. mapping.vm \in Guest /\ mapping.addr \in Nat /\ Set \in TableSet /\ Tree(Set) /\ machine \in MemoryConfigs
  BY DEF MemoryInv, MemoryTyped, Set
<1>2. mapping.range \in 1..Len(Ranges(mapping.vm)) /\ mapping.addr >= Now.ipa
  BY DEF MemoryInv, Place, Building
<1>3. Now \in MapRange
  BY <1>1, <1>2, RangesShape DEF Now
<1> QED
  BY <1>1, <1>2, <1>3, RangeFields DEF Set

\* A write whose walks change only at the addresses it passes.
LEMMA SetWritten ==
  ASSUME MemoryAssumption, MemoryInv, Building, NEW new \in TableSet, Tree(new), NEW to \in Nat, Write(new, to),
         mapping.addr <= to, to <= mapping.addr \/ to <= Now.ipa + Now.size,
         \A a \in Ipa : LET w == WalkBy(new.l1, new.l2, new.l3, l1_index(a), l2_index(a), l3_index(a))
                        IN IF mapping.addr <= a /\ a < to THEN Walk(mapping.vm, a).type = "invalid" /\ Gives(w, Now, a)
                           ELSE w = Walk(mapping.vm, a)
  PROVE  MemoryInv'
<1>0. PICK vm \in Guest : vm = mapping.vm
  BY WritePlace
<1> DEFINE w(a) == WalkBy(new.l1, new.l2, new.l3, l1_index(a), l2_index(a), l3_index(a))
<1>1. /\ UNCHANGED <<machine, bootPhase, g_vttbr, mem, vttbr_el2, tlb>> /\ bootPhase = "build"
      /\ g_stage2_sets' = [g_stage2_sets EXCEPT ![vm] = new] /\ mapping' = [mapping EXCEPT !.addr = to]
  BY <1>0 DEF Write, Building
<1>2. /\ machine \in MemoryConfigs /\ g_stage2_sets \in [Guest -> TableSet] /\ vm \in Guest
      /\ mapping \in [vm : Guest, range : Nat, addr : Nat] /\ \A g \in Guest : g_stage2_sets[g] \in TableSet /\ Tree(g_stage2_sets[g])
  BY <1>0 DEF MemoryInv, MemoryTyped
<1>3. /\ mapping'.vm = vm /\ mapping'.range = mapping.range /\ mapping'.addr = to /\ mapping' \in [vm : Guest, range : Nat, addr : Nat]
  BY <1>0, <1>1, <1>2
<1>4. /\ g_stage2_sets' \in [Guest -> TableSet] /\ g_stage2_sets'[vm] = new
      /\ \A g \in Guest \ {vm} : g_stage2_sets'[g] = g_stage2_sets[g]
  BY <1>1, <1>2
<1>5. /\ Guest' = Guest /\ Reserved' = Reserved /\ \A g : Ranges(g)' = Ranges(g) /\ Window(g)' = Window(g)
  BY <1>1, MachineStays
<1>6. /\ \A g \in Guest \ {vm} : \A a : Walk(g, a)' = Walk(g, a)
      /\ \A a : Walk(vm, a)' = w(a)
  <2>1. \A g, a : Walk(g, a)' = WalkBy(g_stage2_sets'[g].l1, g_stage2_sets'[g].l2, g_stage2_sets'[g].l3, l1_index(a), l2_index(a), l3_index(a))
    BY DEF Walk, WalkBy
  <2> QED
    BY <1>2, <1>4, <2>1, WalkIs, SMTT(30)
<1> HIDE DEF w
<1>7. MemoryTyped'
  <2>1. \A g \in Guest : Tree(g_stage2_sets'[g])
    BY <1>2, <1>4
  <2>2. Page' = Page /\ Ipa' = Ipa
    BY DEF Page, Ipa
  <2> QED
    BY <1>1, <1>3, <1>4, <1>5, <2>1, <2>2 DEF MemoryInv, MemoryTyped
<1>8. Now' = Now /\ Now.ipa \in Nat /\ Now.size \in Nat /\ mapping.addr \in Nat /\ mapping.addr >= Now.ipa /\ mapping.range \in 1..Len(Ranges(vm))
  BY <1>0, <1>3, <1>5, WritePlace DEF Now
<1>9. Place'
  BY <1>0, <1>1, <1>3, <1>5, <1>8, SMTT(30) DEF Place
<1>10. Checked'
  BY <1>1, <1>5 DEF Checked, Apart, MemoryInv
<1>11. Active'
  <2>1. tlb = {}
    BY <1>1 DEF MemoryInv, Active, Running
  <2> QED
    BY <1>0, <1>1, <1>3, <1>5, <2>1 DEF MemoryInv, Active, Running, Built
<1>12. FirstContent'
  BY <1>1 DEF FirstContent
<1>13. Maps'
  <2>1. /\ \A g \in Guest \ {vm} : \A i, a : Past(g, i, a)' <=> Past(g, i, a)
        /\ \A i, a : Past(vm, i, a)' <=> i < mapping.range \/ (i = mapping.range /\ a < to)
        /\ \A i, a : Past(vm, i, a) <=> i < mapping.range \/ (i = mapping.range /\ a < mapping.addr)
    <3>1. \A g \in Guest : g \in Nat
      BY <1>2, MachineShape
    <3>2. ~(vm < vm)
      BY <1>2, <3>1
    <3> QED
      BY <1>0, <1>1, <1>3, <3>2 DEF Past, Built
  <2>2. ASSUME NEW g \in Guest, NEW a \in Ipa
        PROVE  /\ \A i \in 1..Len(Ranges(g)) : Past(g, i, a)' /\ Covers(Ranges(g)[i], a) => Gives(Walk(g, a)', Ranges(g)[i], a)
               /\ Walk(g, a)'.type # "invalid" => \E i \in 1..Len(Ranges(g)) : Past(g, i, a)' /\ Covers(Ranges(g)[i], a)
    <3>1. /\ \A i \in 1..Len(Ranges(g)) : Past(g, i, a) /\ Covers(Ranges(g)[i], a) => Gives(Walk(g, a), Ranges(g)[i], a)
          /\ Walk(g, a).type # "invalid" => \E i \in 1..Len(Ranges(g)) : Past(g, i, a) /\ Covers(Ranges(g)[i], a)
      BY <1>1 DEF MemoryInv, Maps
    <3>2. CASE g # vm
      BY <1>6, <2>1, <3>1, <3>2
    <3>3. CASE g = vm /\ ~(mapping.addr <= a /\ a < to)
      <4>1. Walk(g, a)' = Walk(g, a)
        BY <1>0, <1>6, <3>3 DEF w
      <4>2. a < to <=> a < mapping.addr
        BY <1>8, <3>3 DEF Ipa, MemoryAssumption
      <4>3. \A i : Past(g, i, a)' <=> Past(g, i, a)
        BY <2>1, <3>3, <4>2
      <4> QED
        BY <3>1, <4>1, <4>3
    <3>4. CASE g = vm /\ mapping.addr <= a /\ a < to
      <4>0. PICK n : n = mapping.range
        OBVIOUS
      <4>1. Walk(g, a).type = "invalid" /\ Gives(Walk(g, a)', Now, a)
        BY <1>0, <1>6, <3>4 DEF w
      <4>2. Now = Ranges(g)[mapping.range] /\ mapping.range \in 1..Len(Ranges(g))
        BY <1>0, <1>8, <3>4 DEF Now
      <4>3. Covers(Now, a)
        <5>1. a \in Nat
          BY DEF Ipa, MemoryAssumption
        <5> QED
          BY <1>8, <3>4, <5>1, SMTT(30) DEF Covers
      <4>4. ASSUME NEW i \in 1..Len(Ranges(g)), Past(g, i, a)', Covers(Ranges(g)[i], a) PROVE Gives(Walk(g, a)', Ranges(g)[i], a)
        <5>1. CASE i = mapping.range
          BY <4>1, <4>2, <5>1
        <5>2. CASE i # mapping.range
          <6>1. Past(g, i, a)
            BY <2>1, <3>4, <4>4, <5>2
          <6>2. Walk(g, a).type # "invalid"
            BY <3>1, <4>4, <6>1 DEF Gives
          <6> QED
            BY <4>1, <6>2
        <5> QED
          BY <5>1, <5>2
      <4>5. Past(g, n, a)' /\ n \in 1..Len(Ranges(g)) /\ Covers(Ranges(g)[n], a)
        BY <2>1, <3>4, <4>0, <4>2, <4>3
      <4> QED
        BY <4>4, <4>5
    <3> QED
      BY <3>2, <3>3, <3>4
  <2>3. Ipa' = Ipa
    BY DEF Ipa
  <2> QED
    BY <1>5, <2>2, <2>3 DEF Maps, Gives, Covers
<1> QED
  BY <1>7, <1>9, <1>10, <1>11, <1>12, <1>13 DEF MemoryInv

LEMMA WriteAddress ==
  ASSUME MemoryAssumption, MemoryInv, Building, InRange, ~MapRefused
  PROVE  /\ mapping.addr \in Ipa /\ mapping.addr \in Nat /\ Fan \in Nat \ {0} /\ L2Pool \in Nat /\ L3Pool \in Nat
         /\ l1_index(mapping.addr) \in Half /\ l2_index(mapping.addr) \in Half /\ l3_index(mapping.addr) \in Half
         /\ Target \in Nat
<1>1. Fan \in Nat \ {0} /\ L2Pool \in Nat /\ L3Pool \in Nat
  BY DEF MemoryAssumption
<1>2. mapping.addr \in Nat /\ Now.ipa \in Nat /\ Now.pa \in Nat /\ Now.size \in Nat /\ mapping.addr >= Now.ipa
  BY WritePlace
<1> DEFINE top == Fan * Fan * Fan
<1>3. top \in Nat /\ mapping.addr < Now.ipa + Now.size /\ Now.ipa + Now.size <= top
  <2>1. top \in Nat
    BY <1>1, Times
  <2>2. ~(Now.ipa + Now.size > top)
    BY DEF MapRefused
  <2> HIDE DEF top
  <2> QED
    BY <1>2, <2>1, <2>2 DEF InRange
<1>4. Ipa = 0..(top - 1)
  BY DEF Ipa
<1> HIDE DEF top
<1>5. mapping.addr \in Ipa
  BY <1>2, <1>3, <1>4
<1>6. Target \in Nat
  BY <1>2 DEF Target
<1> QED
  BY <1>1, <1>2, <1>5, <1>6, Indices

\* What the entries of a set of the type are.
LEMMA SetFields ==
  ASSUME NEW set \in TableSet
  PROVE  /\ set.l1 \in Table /\ set.l2 \in [1..L2Pool -> Table] /\ set.l3 \in [1..L3Pool -> Table]
         /\ set.l2_used \in Nat /\ set.l3_used \in Nat
  BY DEF TableSet, Put

\* What is in use of a pool is of the pool.
LEMMA UsedOfPool ==
  \A a, n, m : m \in Nat /\ n \in 0..m /\ a \in 1..n => a \in 1..m
  OBVIOUS

LEMMA LinkEntry ==
  \A n \in Nat : Link(n) \in TableEntry /\ Link(n).type = "table" /\ Link(n).out = n
  BY DEF Link, TableEntry

LEMMA LeafEntry ==
  \A type \in {"block", "page"}, pa \in Nat, attr \in {"rwx", "rw", "device"} :
    /\ Leaf(type, pa, attr) \in TableEntry /\ Leaf(type, pa, attr).type = type
    /\ Leaf(type, pa, attr).out = pa /\ Leaf(type, pa, attr).attr = attr
  BY DEF Leaf, TableEntry

LEMMA TakeL2Step ==
  ASSUME MemoryAssumption, MemoryInv, TakeL2
  PROVE  MemoryInv'
<1> DEFINE i == l1_index(mapping.addr)
           e == Link(Set.l2_used + 1)
           new == [Set EXCEPT !.l1[i] = e, !.l2_used = @ + 1]
<1>1. Building /\ InRange /\ ~MapRefused /\ L1Entry.type = "invalid" /\ Write(new, mapping.addr)
  BY DEF TakeL2
<1>2. i \in Half /\ L2Pool \in Nat /\ mapping.addr \in Nat
  BY <1>1, WriteAddress
<1>3. Set \in TableSet /\ Tree(Set) /\ Set = g_stage2_sets[mapping.vm]
  BY <1>1, WritePlace
<1>4. Set.l1[i].type = "invalid" /\ Set.l2_used # L2Pool
  BY <1>1 DEF L1Entry, MapRefused
<1>5. Set.l1 \in Table /\ Set.l2_used \in 0..L2Pool /\ Set.l3_used \in Nat
  BY <1>3, SetFields DEF Tree, Level1
<1>6. e \in TableEntry /\ e.type = "table" /\ e.out = Set.l2_used + 1 /\ Set.l2_used < L2Pool
  BY <1>2, <1>4, <1>5, LinkEntry
<1> HIDE DEF e, i
<1>7. /\ new.l1 = [Set.l1 EXCEPT ![i] = e] /\ new.l2 = Set.l2 /\ new.l3 = Set.l3
      /\ new.l2_used = Set.l2_used + 1 /\ new.l3_used = Set.l3_used
  BY <1>3 DEF TableSet, Put
<1>8. [Set.l1 EXCEPT ![i] = e] \in Table
  BY <1>2, <1>5, <1>6 DEF Table, Put
<1>9. new \in TableSet
  <2>1. Set.l2_used + 1 \in Nat /\ Set.l3_used + 1 \in Nat
    BY <1>5
  <2> QED
    BY <1>3, <1>8, <2>1 DEF TableSet, Put
<1> HIDE DEF new
<1>10. /\ Level1(new.l1, new.l2_used) /\ Level2(new.l2, new.l2_used, new.l3_used)
       /\ SameWalks(Set.l1, Set.l2, Set.l3, new.l1, new.l2) /\ new.l3 = Set.l3
  <2>1. L2Free(Set.l1, Set.l2, Set.l2_used, Set.l3_used, i, e)
    BY <1>2, <1>3, <1>4, <1>6 DEF L2Free, Tree
  <2>2. /\ Level1([Set.l1 EXCEPT ![i] = e], Set.l2_used + 1) /\ Level2(Set.l2, Set.l2_used + 1, Set.l3_used)
        /\ SameWalks(Set.l1, Set.l2, Set.l3, [Set.l1 EXCEPT ![i] = e], Set.l2)
    BY <2>1, L2Taken
  <2> QED
    BY <1>7, <2>2
<1>11. Tree(new)
  BY <1>3, <1>7, <1>10 DEF Tree
<1>12. \A a \in Ipa : WalkBy(new.l1, new.l2, new.l3, l1_index(a), l2_index(a), l3_index(a)) = Walk(mapping.vm, a)
  BY <1>1, <1>3, <1>10, WalkIs, Indices, WriteAddress DEF SameWalks
<1>13. \A a \in Ipa : ~(mapping.addr <= a /\ a < mapping.addr)
  BY <1>2 DEF Ipa, MemoryAssumption
<1> QED
  BY <1>1, <1>2, <1>9, <1>11, <1>12, <1>13, SetWritten

LEMMA TakeL3Step ==
  ASSUME MemoryAssumption, MemoryInv, TakeL3
  PROVE  MemoryInv'
<1> DEFINE i == l1_index(mapping.addr)
           j == l2_index(mapping.addr)
           t == L1Entry.out
           e == Link(Set.l3_used + 1)
           new == [Set EXCEPT !.l2[t][j] = e, !.l3_used = @ + 1]
<1>1. /\ Building /\ InRange /\ ~MapRefused /\ L1Entry.type = "table" /\ L2Entry.type = "invalid" /\ Set.l3_used < L3Pool
      /\ Write(new, mapping.addr)
  BY DEF TakeL3
<1>2. i \in Half /\ j \in Half /\ L2Pool \in Nat /\ L3Pool \in Nat /\ mapping.addr \in Nat
  BY <1>1, WriteAddress
<1>3. Set \in TableSet /\ Tree(Set) /\ Set = g_stage2_sets[mapping.vm]
  BY <1>1, WritePlace
<1>4. Set.l1[i].type = "table" /\ t = Set.l1[i].out /\ Set.l2[t][j].type = "invalid"
  BY <1>1, SMTT(30) DEF L1Entry, L2Entry
<1>5. Set.l2 \in [1..L2Pool -> Table] /\ Set.l2_used \in 0..L2Pool /\ Set.l3_used \in Nat /\ t \in 1..Set.l2_used
  BY <1>2, <1>3, <1>4, SetFields DEF Tree, Level1
<1>6. e \in TableEntry /\ e.type = "table" /\ e.out = Set.l3_used + 1 /\ t \in 1..L2Pool
  BY <1>2, <1>5, LinkEntry, SMTT(30)
<1> HIDE DEF e, i, j, t
<1>7. /\ new.l1 = Set.l1 /\ new.l2 = Put(Set.l2, t, j, e) /\ new.l3 = Set.l3
      /\ new.l2_used = Set.l2_used /\ new.l3_used = Set.l3_used + 1
  BY <1>3 DEF TableSet, Put
<1>8. Put(Set.l2, t, j, e) \in [1..L2Pool -> Table]
  BY <1>2, <1>5, <1>6 DEF Table, Put
<1>9. new \in TableSet
  <2>1. Set.l2_used + 1 \in Nat /\ Set.l3_used + 1 \in Nat
    BY <1>5
  <2> QED
    BY <1>3, <1>8, <2>1 DEF TableSet, Put
<1> HIDE DEF new
<1>10. /\ Level2(new.l2, new.l2_used, new.l3_used) /\ Level3(new.l3, new.l3_used)
       /\ SameWalks(Set.l1, Set.l2, Set.l3, new.l1, new.l2) /\ new.l3 = Set.l3
  <2>1. L3Free(Set.l1, Set.l2, Set.l3, Set.l2_used, Set.l3_used, t, j, e)
    BY <1>1, <1>2, <1>3, <1>4, <1>5, <1>6 DEF L3Free, Tree
  <2>2. /\ Level2(Put(Set.l2, t, j, e), Set.l2_used, Set.l3_used + 1) /\ Level3(Set.l3, Set.l3_used + 1)
        /\ SameWalks(Set.l1, Set.l2, Set.l3, Set.l1, Put(Set.l2, t, j, e))
    BY <2>1, L3Taken
  <2> QED
    BY <1>7, <2>2, SMTT(30)
<1>11. Tree(new)
  BY <1>3, <1>7, <1>10 DEF Tree
<1>12. \A a \in Ipa : WalkBy(new.l1, new.l2, new.l3, l1_index(a), l2_index(a), l3_index(a)) = Walk(mapping.vm, a)
  BY <1>1, <1>3, <1>10, WalkIs, Indices, WriteAddress DEF SameWalks
<1>13. \A a \in Ipa : ~(mapping.addr <= a /\ a < mapping.addr)
  BY <1>2 DEF Ipa, MemoryAssumption
<1> QED
  BY <1>1, <1>2, <1>9, <1>11, <1>12, <1>13, SetWritten

LEMMA MapPageStep ==
  ASSUME MemoryAssumption, MemoryInv, MapPage
  PROVE  MemoryInv'
<1> DEFINE addr == mapping.addr
           i == l1_index(mapping.addr)
           j == l2_index(mapping.addr)
           h == l3_index(mapping.addr)
           t == L1Entry.out
           u == L2Entry.out
           e == Leaf("page", Target, Now.attr)
           new == [Set EXCEPT !.l3[u][h] = e]
<1>1. /\ Building /\ InRange /\ ~MapRefused /\ L1Entry.type = "table" /\ L2Entry.type = "table" /\ L3Entry.type = "invalid"
      /\ Write(new, addr + 1)
  BY DEF MapPage
<1>2. i \in Half /\ j \in Half /\ h \in Half /\ L2Pool \in Nat /\ L3Pool \in Nat /\ addr \in Nat /\ addr \in Ipa /\ Target \in Nat /\ Fan \in Nat \ {0}
  BY <1>1, WriteAddress
<1>3. /\ Set \in TableSet /\ Tree(Set) /\ Set = g_stage2_sets[mapping.vm] /\ Now.attr \in {"rwx", "rw", "device"}
      /\ Now.ipa \in Nat /\ Now.pa \in Nat /\ Now.size \in Nat /\ addr >= Now.ipa
  BY <1>1, WritePlace, SMTT(30)
<1>4. Set.l1[i].type = "table" /\ t = Set.l1[i].out /\ Set.l2[t][j].type = "table" /\ u = Set.l2[t][j].out /\ Set.l3[u][h].type = "invalid"
  BY <1>1 DEF L1Entry, L2Entry, L3Entry
<1>5. Set.l3 \in [1..L3Pool -> Table] /\ t \in 1..L2Pool /\ u \in 1..L3Pool
  <2>1. Set.l2_used \in 0..L2Pool /\ t \in 1..Set.l2_used
    BY <1>2, <1>3, <1>4 DEF Tree, Level1
  <2>2. t \in 1..L2Pool
    BY <1>2, <2>1
  <2>3. Level2(Set.l2, Set.l2_used, Set.l3_used)
    BY <1>3 DEF Tree
  <2>4. Set.l2[t][j].out \in 1..Set.l3_used /\ Set.l3_used \in 0..L3Pool
    <3>1. \A a \in 1..L2Pool, b \in Half : Set.l2[a][b].type = "table" => Set.l2[a][b].out \in 1..Set.l3_used /\ Set.l3_used \in 0..L3Pool
      BY <2>3, LinkInUse, ZenonT(40)
    <3> HIDE DEF t, j, u, i, h
    <3>2. t \in 1..L2Pool /\ j \in Half /\ Set.l2[t][j].type = "table"
      BY <1>2, <1>4, <2>2, ZenonT(40)
    <3> QED
      BY <3>1, <3>2
  <2>5. Set.l3_used \in 0..L3Pool /\ u \in 1..Set.l3_used
    BY <1>4, <2>4
  <2>6. Set.l3 \in [1..L3Pool -> Table]
    BY <1>3, SetFields, Zenon
  <2> HIDE DEF t, u
  <2> QED
    BY <1>2, <2>2, <2>5, <2>6, UsedOfPool, ZenonT(40)
<1>6. e \in TableEntry /\ e.type = "page" /\ e.out = Target /\ e.attr = Now.attr
  BY <1>2, <1>3, LeafEntry
<1>7. Target = Now.pa + (addr - Now.ipa) /\ addr < Now.ipa + Now.size
  BY <1>1 DEF Target, InRange
<1> HIDE DEF e, i, j, h, t, u
<1>8. /\ new.l1 = Set.l1 /\ new.l2 = Set.l2 /\ new.l3 = Put(Set.l3, u, h, e)
      /\ new.l2_used = Set.l2_used /\ new.l3_used = Set.l3_used
  BY <1>3 DEF TableSet, Put
<1>9. Put(Set.l3, u, h, e) \in [1..L3Pool -> Table]
  BY <1>2, <1>5, <1>6 DEF Table, Put
<1>10. new \in TableSet
  BY <1>3, <1>9 DEF TableSet, Put
<1> HIDE DEF new
<1>11. /\ Level3(new.l3, new.l3_used)
       /\ PageSeen(Set.l1, Set.l2, Set.l3, new.l3, i, j, h, e)
  <2>1. PageFree(Set.l1, Set.l2, Set.l3, Set.l2_used, Set.l3_used, i, t, j, u, h, e)
    BY <1>2, <1>3, <1>4, <1>6 DEF PageFree, Tree
  <2>2. Level3(Put(Set.l3, u, h, e), Set.l3_used) /\ PageSeen(Set.l1, Set.l2, Set.l3, Put(Set.l3, u, h, e), i, j, h, e)
    BY <2>1, PageWritten
  <2> QED
    BY <1>8, <2>2
<1>12. Tree(new)
  BY <1>3, <1>8, <1>11 DEF Tree
<1>13. ASSUME NEW a \in Ipa
       PROVE  LET w == WalkBy(new.l1, new.l2, new.l3, l1_index(a), l2_index(a), l3_index(a))
              IN IF addr <= a /\ a < addr + 1 THEN Walk(mapping.vm, a).type = "invalid" /\ Gives(w, Now, a)
                 ELSE w = Walk(mapping.vm, a)
  <2>1. l1_index(a) \in Half /\ l2_index(a) \in Half /\ l3_index(a) \in Half /\ a \in Nat
    BY <1>2, Indices
  <2>2. Walk(mapping.vm, a) = WalkBy(Set.l1, Set.l2, Set.l3, l1_index(a), l2_index(a), l3_index(a))
    BY <1>3, WalkIs
  <2>3. CASE a = addr
    <3>1. l1_index(a) = i /\ l2_index(a) = j /\ l3_index(a) = h
      BY <2>3 DEF i, j, h
    <3>2. Gives(e, Now, a)
      BY <1>6, <1>7, <2>3 DEF Gives
    <3>3. Walk(mapping.vm, a).type = "invalid"
      BY <1>2, <1>11, <2>2, <3>1 DEF Invalid, PageSeen
    <3>4. addr <= a /\ a < addr + 1
      BY <1>2, <2>3
    <3> QED
      BY <1>8, <1>11, <3>1, <3>2, <3>3, <3>4 DEF PageSeen
  <2>4. CASE a # addr
    <3>1. ~(l1_index(a) = i /\ l2_index(a) = j /\ l3_index(a) = h)
      BY <1>2, <2>4, IndicesTell DEF i, j, h
    <3>2. ~(addr <= a /\ a < addr + 1)
      BY <1>2, <2>1, <2>4
    <3> QED
      BY <1>8, <1>11, <2>1, <2>2, <3>1, <3>2 DEF PageSeen
  <2> QED
    BY <2>3, <2>4
<1>14. addr + 1 \in Nat /\ addr <= addr + 1 /\ addr + 1 <= Now.ipa + Now.size
  BY <1>2, <1>3, <1>7
<1> QED
  BY <1>1, <1>10, <1>12, <1>13, <1>14, SetWritten

LEMMA MapBlockStep ==
  ASSUME MemoryAssumption, MemoryInv, MapBlock
  PROVE  MemoryInv'
<1> DEFINE addr == mapping.addr
           i == l1_index(mapping.addr)
           j == l2_index(mapping.addr)
           t == L1Entry.out
           e == Leaf("block", (Target \div Fan) * Fan, Now.attr)
           new == [Set EXCEPT !.l2[t][j] = e]
<1>1. /\ Building /\ InRange /\ ~MapRefused /\ L1Entry.type = "table" /\ Blockable
      /\ Write(new, addr + Fan)
  BY DEF MapBlock
<1>2. i \in Half /\ j \in Half /\ L2Pool \in Nat /\ addr \in Nat /\ addr \in Ipa /\ Target \in Nat /\ Fan \in Nat \ {0}
  BY <1>1, WriteAddress
<1>3. /\ Set \in TableSet /\ Tree(Set) /\ Set = g_stage2_sets[mapping.vm] /\ Now.attr \in {"rwx", "rw", "device"}
      /\ Now.ipa \in Nat /\ Now.pa \in Nat /\ Now.size \in Nat /\ addr >= Now.ipa
  BY <1>1, WritePlace
<1>4. Set.l1[i].type = "table" /\ t = Set.l1[i].out /\ Set.l2[t][j].type = "invalid"
  BY <1>1 DEF L1Entry, L2Entry, Blockable
<1>5. Set.l2 \in [1..L2Pool -> Table] /\ t \in 1..L2Pool
  <2>1. Set.l2_used \in 0..L2Pool /\ t \in 1..Set.l2_used
    BY <1>2, <1>3, <1>4 DEF Tree, Level1
  <2>2. Set.l2 \in [1..L2Pool -> Table]
    BY <1>3, SetFields, Zenon
  <2> HIDE DEF t
  <2> QED
    BY <1>2, <2>1, <2>2, UsedOfPool, ZenonT(40)
<1>6. (Target \div Fan) * Fan = Target /\ addr % Fan = 0
  <2>1. Target % Fan = 0 /\ addr % Fan = 0
    BY <1>1 DEF Blockable
  <2> QED
    BY <1>2, <2>1, QuotientExact, Zenon
<1>7. e \in TableEntry /\ e.type = "block" /\ e.out = Target /\ e.attr = Now.attr
  BY <1>2, <1>3, <1>6, LeafEntry
<1>8. Target = Now.pa + (addr - Now.ipa) /\ addr < Now.ipa + Now.size
  BY <1>1 DEF Target, InRange
<1>9. addr + Fan <= Now.ipa + Now.size
  <2> DEFINE end == Now.ipa + Now.size
             l1_end == (i + 1) * Fan * Fan
  <2>1. RegionEnd = IF end < l1_end THEN end ELSE l1_end
    BY DEF RegionEnd
  <2>2. RegionEnd - addr >= Fan
    BY <1>1 DEF Blockable
  <2>3. l1_end \in Nat /\ end \in Nat
    <3>1. i + 1 \in Nat
      BY <1>2 DEF Half
    <3>2. (i + 1) * Fan \in Nat
      BY <1>2, <3>1, Times
    <3> HIDE DEF i
    <3>3. l1_end \in Nat
      BY <1>2, <3>2, Times
    <3> QED
      BY <1>3, <3>3
  <2> HIDE DEF l1_end
  <2> QED
    BY <1>2, <1>3, <2>1, <2>2, <2>3
<1> HIDE DEF e, i, j, t
<1>10. /\ new.l1 = Set.l1 /\ new.l2 = Put(Set.l2, t, j, e) /\ new.l3 = Set.l3
       /\ new.l2_used = Set.l2_used /\ new.l3_used = Set.l3_used
  BY <1>3 DEF TableSet, Put
<1>11. Put(Set.l2, t, j, e) \in [1..L2Pool -> Table]
  BY <1>2, <1>5, <1>7 DEF Table, Put
<1>12. new \in TableSet
  BY <1>3, <1>11 DEF TableSet, Put
<1> HIDE DEF new
<1>13. Level2(new.l2, new.l2_used, new.l3_used) /\ BlockSeen(Set.l1, Set.l2, Set.l3, new.l2, i, j, e)
  <2>1. BlockFree(Set.l1, Set.l2, Set.l3, Set.l2_used, Set.l3_used, i, t, j, e)
    BY <1>2, <1>3, <1>4, <1>7 DEF BlockFree, Tree
  <2>2. Level2(Put(Set.l2, t, j, e), Set.l2_used, Set.l3_used) /\ BlockSeen(Set.l1, Set.l2, Set.l3, Put(Set.l2, t, j, e), i, j, e)
    BY <2>1, BlockWritten
  <2> QED
    BY <1>10, <2>2
<1>14. Tree(new)
  BY <1>3, <1>10, <1>13 DEF Tree
<1>15. ASSUME NEW a \in Ipa
       PROVE  LET w == WalkBy(new.l1, new.l2, new.l3, l1_index(a), l2_index(a), l3_index(a))
              IN IF addr <= a /\ a < addr + Fan THEN Walk(mapping.vm, a).type = "invalid" /\ Gives(w, Now, a)
                 ELSE w = Walk(mapping.vm, a)
  <2>1. l1_index(a) \in Half /\ l2_index(a) \in Half /\ l3_index(a) \in Half /\ a \in Nat
    BY <1>2, Indices
  <2>2. Walk(mapping.vm, a) = WalkBy(Set.l1, Set.l2, Set.l3, l1_index(a), l2_index(a), l3_index(a))
    BY <1>3, WalkIs
  <2>3. /\ (i = l1_index(a) /\ j = l2_index(a)) <=> a \in addr..(addr + Fan - 1)
        /\ a \in addr..(addr + Fan - 1) => a = addr + l3_index(a)
    BY <1>2, <1>6, BlockOf DEF i, j
  <2>4. a \in addr..(addr + Fan - 1) <=> addr <= a /\ a < addr + Fan
    BY <1>2, <2>1
  <2>5. CASE a \in addr..(addr + Fan - 1)
    <3>1. WalkBy(new.l1, new.l2, new.l3, i, j, l3_index(a)) = [e EXCEPT !.out = @ + l3_index(a)]
      BY <1>10, <1>13, <2>1 DEF BlockSeen
    <3>2. Gives([e EXCEPT !.out = @ + l3_index(a)], Now, a)
      <4>1. /\ [e EXCEPT !.out = @ + l3_index(a)].type = "block" /\ [e EXCEPT !.out = @ + l3_index(a)].attr = Now.attr
            /\ [e EXCEPT !.out = @ + l3_index(a)].out = Target + l3_index(a)
        BY <1>7 DEF TableEntry
      <4>2. l3_index(a) \in Nat /\ Target + l3_index(a) = Now.pa + (a - Now.ipa)
        <5>1. l3_index(a) \in Nat
          BY <1>2, <2>1 DEF Half
        <5>2. a = addr + l3_index(a)
          BY <2>3, <2>5
        <5> QED
          BY <1>2, <1>3, <1>8, <5>1, <5>2
      <4> QED
        BY <4>1, <4>2 DEF Gives
    <3>3. Walk(mapping.vm, a).type = "invalid"
      <4>1. WalkBy(Set.l1, Set.l2, Set.l3, i, j, l3_index(a)) = Invalid
        BY <1>13, <2>1 DEF BlockSeen
      <4>2. Walk(mapping.vm, a) = Invalid
        BY <2>2, <2>3, <2>5, <4>1
      <4> QED
        BY <4>2 DEF Invalid
    <3> QED
      BY <2>3, <2>4, <2>5, <3>1, <3>2, <3>3
  <2>6. CASE a \notin addr..(addr + Fan - 1)
    <3>1. ~(l1_index(a) = i /\ l2_index(a) = j)
      BY <2>3, <2>6
    <3> QED
      BY <1>10, <1>13, <2>1, <2>2, <2>4, <2>6, <3>1 DEF BlockSeen
  <2> QED
    BY <2>5, <2>6
<1>16. addr + Fan \in Nat /\ addr <= addr + Fan
  BY <1>2
<1> QED
  BY <1>1, <1>9, <1>12, <1>14, <1>15, <1>16, SetWritten

-----------------------------------------------------------------------------
(* What a guest reaches.                                                   *)

Region(k) == machine.regions[k].pa .. machine.regions[k].pa + machine.regions[k].size - 1
Reaches(g, p) ==
  \/ p \in Window(g)
  \/ p = IvcPa
  \/ \E k \in 1..Len(machine.regions) : Owns(machine.regions[k].device, g) /\ p \in Region(k)

LEMMA DisjointApart ==
  \A b1, s1, b2, s2 \in Nat : Disjoint(b1, s1, b2, s2) => \A p : ~(p \in b1 .. b1 + s1 - 1 /\ p \in b2 .. b2 + s2 - 1)
  BY DEF Disjoint

LEMMA InsideStays ==
  \A b, s, i, a \in Nat : i <= a /\ a < i + s => b + (a - i) \in b .. b + s - 1
  OBVIOUS

LEMMA WalkReaches ==
  ASSUME MemoryAssumption, MemoryInv, bootPhase # "panic", NEW g \in Guest, NEW a \in Ipa, Walk(g, a).type # "invalid"
  PROVE  Reaches(g, Walk(g, a).out)
<1>1. PICK i \in 1..Len(Ranges(g)) : Past(g, i, a) /\ Covers(Ranges(g)[i], a)
  BY DEF MemoryInv, Maps
<1>2. Gives(Walk(g, a), Ranges(g)[i], a)
  BY <1>1 DEF MemoryInv, Maps
<1> DEFINE r == Ranges(g)[i]
<1>3. machine \in MemoryConfigs
  BY DEF MemoryInv, MemoryTyped
<1>4. r \in MapRange /\ RangeOf(r, g)
  BY <1>3, RangesShape
<1>5. r.ipa \in Nat /\ r.pa \in Nat /\ r.size \in Nat /\ a \in Nat
  BY <1>4, RangeFields DEF Ipa
<1>6. Walk(g, a).out = r.pa + (a - r.ipa) /\ r.ipa <= a /\ a < r.ipa + r.size
  BY <1>1, <1>2 DEF Gives, Covers
<1> HIDE DEF r
<1>7. Walk(g, a).out \in r.pa .. r.pa + r.size - 1
  <2>1. r.pa + (a - r.ipa) \in r.pa .. r.pa + r.size - 1
    BY <1>5, <1>6, InsideStays
  <2> QED
    BY <1>6, <2>1
<1>8. r.size = 1 => Walk(g, a).out = r.pa
  BY <1>5, <1>6
<1> QED
  BY <1>4, <1>7, <1>8 DEF RangeOf, Reaches, Window, Region

\* What is reached lies outside the snapshots, and two guests meet on the IVC
\* page alone.
LEMMA ReachOutside ==
  ASSUME MemoryAssumption, machine \in MemoryConfigs, Reserved, NEW g \in Guest, NEW p, Reaches(g, p)
  PROVE  p \notin PristinePa .. PristinePa + PristineSize - 1
<1>1. /\ machine.guests[g].load \in Nat /\ machine.guests[g].size \in Nat /\ machine.guests[g].load >= GuestPa
      /\ machine.guests[g].load + machine.guests[g].size <= GuestPa + GuestPaSize
  BY MachineShape DEF Reserved
<1>2. /\ GuestPa \in Nat /\ GuestPaSize \in Nat /\ PristinePa \in Nat /\ PristineSize \in Nat /\ IvcPa \in Nat
      /\ GuestPa + GuestPaSize <= PristinePa \/ PristinePa + PristineSize <= GuestPa
      /\ IvcPa + 1 <= PristinePa \/ PristinePa + PristineSize <= IvcPa
  BY DEF MemoryAssumption, Disjoint
<1>3. CASE p \in Window(g)
  BY <1>1, <1>2, <1>3 DEF Window
<1>4. CASE p = IvcPa
  BY <1>2, <1>4
<1>5. ASSUME NEW k \in 1..Len(machine.regions), p \in Region(k) PROVE p \notin PristinePa .. PristinePa + PristineSize - 1
  <2>1. machine.regions[k].pa \in Nat /\ machine.regions[k].size \in Nat
    BY MachineShape
  <2>2. Disjoint(machine.regions[k].pa, machine.regions[k].size, PristinePa, PristineSize)
    BY MachineShape DEF WellFormed
  <2> QED
    BY <1>2, <1>5, <2>1, <2>2 DEF Disjoint, Region
<1> QED
  BY <1>3, <1>4, <1>5 DEF Reaches

LEMMA ReachApart ==
  ASSUME MemoryAssumption, machine \in MemoryConfigs, Reserved, Apart,
         NEW g \in Guest, NEW h \in Guest, g # h, NEW p, Reaches(g, p), Reaches(h, p)
  PROVE  p = IvcPa
<1>1. ASSUME NEW f \in Guest, p \in Window(f), NEW k \in 1..Len(machine.regions), p \in Region(k) PROVE FALSE
  <2>1. /\ machine.guests[f].load \in Nat /\ machine.guests[f].size \in Nat
        /\ machine.regions[k].pa \in Nat /\ machine.regions[k].size \in Nat
    BY MachineShape
  <2>2. Disjoint(machine.regions[k].pa, machine.regions[k].size, machine.guests[f].load, machine.guests[f].size)
    BY MachineShape DEF WellFormed, Guest
  <2> QED
    BY <1>1, <2>1, <2>2, DisjointApart DEF Region, Window
<1>2. ASSUME NEW k \in 1..Len(machine.regions), NEW l \in 1..Len(machine.regions), p \in Region(k), p \in Region(l),
             Owns(machine.regions[k].device, g), Owns(machine.regions[l].device, h)
      PROVE  FALSE
  <2>1. machine.regions[k].device # machine.regions[l].device
    BY <1>2 DEF Owns
  <2>2. /\ machine.regions[k].pa \in Nat /\ machine.regions[k].size \in Nat
        /\ machine.regions[l].pa \in Nat /\ machine.regions[l].size \in Nat
    BY MachineShape
  <2>3. Disjoint(machine.regions[k].pa, machine.regions[k].size, machine.regions[l].pa, machine.regions[l].size)
    BY <2>1, MachineShape DEF WellFormed
  <2> QED
    BY <1>2, <2>2, <2>3, DisjointApart DEF Region
<1>3. ~(p \in Window(g) /\ p \in Window(h))
  BY DEF Apart
<1> QED
  BY <1>1, <1>2, <1>3 DEF Reaches

-----------------------------------------------------------------------------
(* The invariant holds at the start.                                       *)

LEMMA EmptyWalks ==
  ASSUME MemoryAssumption
  PROVE  /\ EmptySet \in TableSet /\ Tree(EmptySet)
         /\ \A i1, i2, i3 \in Half : WalkBy(EmptySet.l1, EmptySet.l2, EmptySet.l3, i1, i2, i3) = Invalid
<1>1. Invalid \in TableEntry /\ Invalid.type = "invalid"
  BY DEF Invalid, TableEntry
<1>2. Fan \in Nat \ {0} /\ L2Pool \in Nat /\ L3Pool \in Nat
  BY DEF MemoryAssumption
<1>3. /\ EmptySet.l1 = [i \in Half |-> Invalid] /\ EmptySet.l2 = [t \in 1..L2Pool |-> [i \in Half |-> Invalid]]
      /\ EmptySet.l3 = [t \in 1..L3Pool |-> [i \in Half |-> Invalid]] /\ EmptySet.l2_used = 0 /\ EmptySet.l3_used = 0
  BY DEF EmptySet, Half
<1>4. EmptySet \in TableSet
  BY <1>1, <1>2 DEF EmptySet, TableSet, Table, Half
<1> HIDE DEF Invalid
<1>5. Level1(EmptySet.l1, EmptySet.l2_used)
  BY <1>1, <1>2, <1>3 DEF Level1, Table
<1>6. Level2(EmptySet.l2, EmptySet.l2_used, EmptySet.l3_used)
  BY <1>1, <1>2, <1>3 DEF Level2, Table
<1>7. Level3(EmptySet.l3, EmptySet.l3_used)
  BY <1>1, <1>2, <1>3 DEF Level3, Table
<1>8. \A i1, i2, i3 \in Half : WalkBy(EmptySet.l1, EmptySet.l2, EmptySet.l3, i1, i2, i3) = Invalid
  BY <1>1, <1>3 DEF WalkBy
<1> QED
  BY <1>4, <1>5, <1>6, <1>7, <1>8 DEF Tree

LEMMA MemoryStarts ==
  ASSUME MemoryAssumption, S2Init
  PROVE  MemoryInv
<1>1. /\ machine \in MemoryConfigs /\ bootPhase = "config" /\ g_stage2_sets = [g \in Guest |-> EmptySet]
      /\ mapping = [vm |-> 1, range |-> 1, addr |-> IpaBase] /\ g_vttbr = [g \in Guest |-> [root |-> 0, vmid |-> 0]]
      /\ mem = [p \in Page |-> <<"zero", 0>>] /\ vttbr_el2 = [root |-> 0, vmid |-> 0] /\ tlb = {}
  BY DEF S2Init
<1>2. 1 \in Guest /\ IpaBase \in Nat
  BY <1>1, MachineShape DEF Guest, MemoryAssumption
<1>3. <<"zero", 0>> \in Value
  BY DEF Value
<1>4. EmptySet \in TableSet /\ Tree(EmptySet)
  BY EmptyWalks
<1>5. MemoryTyped
  <2>1. g_stage2_sets \in [Guest -> TableSet] /\ \A g \in Guest : Tree(g_stage2_sets[g])
    BY <1>1, <1>4
  <2>2. mem \in [Page -> Value] /\ g_vttbr \in [Guest -> [root : Nat, vmid : Nat]] /\ vttbr_el2 \in [root : Nat, vmid : Nat]
    BY <1>1, <1>3
  <2>3. mapping \in [vm : Guest, range : Nat, addr : Nat]
    BY <1>1, <1>2
  <2> QED
    BY <1>1, <2>1, <2>2, <2>3 DEF MemoryTyped
<1>6. \A g \in Guest, a \in Ipa : Walk(g, a).type = "invalid"
  <2> TAKE g \in Guest, a \in Ipa
  <2>1. l1_index(a) \in Half /\ l2_index(a) \in Half /\ l3_index(a) \in Half
    BY Indices DEF MemoryAssumption
  <2>2. Walk(g, a) = Invalid
    BY <1>1, <2>1, WalkIs, EmptyWalks
  <2> QED
    BY <2>2 DEF Invalid
<1>7. \A g, i, a : ~Past(g, i, a)
  BY <1>1 DEF Past, Built
<1>8. Place /\ Maps /\ Checked /\ Active /\ FirstContent
  BY <1>1, <1>6, <1>7 DEF Place, Maps, Checked, Active, FirstContent, Built, Running
<1> QED
  BY <1>5, <1>8 DEF MemoryInv

-----------------------------------------------------------------------------
(* The steps that leave the tables alone.                                  *)

LEMMA TablesKept ==
  ASSUME MemoryAssumption, MemoryInv, machine' = machine, g_stage2_sets' = g_stage2_sets
  PROVE  /\ machine' \in MemoryConfigs /\ Guest' = Guest /\ Ipa' = Ipa /\ Page' = Page
         /\ g_stage2_sets' \in [Guest -> TableSet] /\ \A g \in Guest : Tree(g_stage2_sets'[g])
         /\ \A g, a : Walk(g, a)' = Walk(g, a)
         /\ \A g, p : Booted(g, p)' = Booted(g, p) /\ Window(g)' = Window(g) /\ PristineSlot(g)' = PristineSlot(g)
         /\ \A g : Ranges(g)' = Ranges(g)
         /\ Reserved' = Reserved /\ (Apart' <=> Apart)
<1>1. Guest' = Guest /\ Reserved' = Reserved /\ \A g : Ranges(g)' = Ranges(g) /\ Window(g)' = Window(g) /\ PristineSlot(g)' = PristineSlot(g)
  BY MachineStays
<1>2. Apart' <=> Apart
  BY <1>1 DEF Apart
<1>3. \A g, p : Booted(g, p)' = Booted(g, p)
  BY BootedStays
<1>4. \A g, a : Walk(g, a)' = Walk(g, a)
  BY WalkStays
<1>5. Ipa' = Ipa /\ Page' = Page
  BY DEF Ipa, Page
<1> QED
  BY <1>1, <1>2, <1>3, <1>4, <1>5 DEF MemoryInv, MemoryTyped

LEMMA InitGuestTableStep ==
  ASSUME MemoryAssumption, MemoryInv, InitGuestTable
  PROVE  MemoryInv'
<1>1. /\ UNCHANGED <<machine, g_stage2_sets, mapping, g_vttbr, mem, vttbr_el2, tlb>>
      /\ bootPhase = "config" /\ bootPhase' \in {"check", "panic"}
  BY DEF InitGuestTable
<1>2. MemoryTyped' /\ Place'
  BY <1>1, TablesKept DEF MemoryInv, MemoryTyped, Place
<1>3. Maps'
  <2>1. \A g, i, a : ~Past(g, i, a) /\ ~Past(g, i, a)'
    BY <1>1 DEF Past, Built
  <2>2. \A g \in Guest, a \in Ipa : Walk(g, a)'.type = "invalid"
    BY <1>1, <2>1, TablesKept DEF MemoryInv, Maps
  <2> QED
    BY <1>1, <2>1, <2>2, TablesKept DEF Maps
<1>4. Checked' /\ Active' /\ FirstContent'
  BY <1>1 DEF MemoryInv, Checked, Active, FirstContent, Built, Running
<1> QED
  BY <1>2, <1>3, <1>4 DEF MemoryInv

LEMMA ValidatePayloadsStep ==
  ASSUME MemoryAssumption, MemoryInv, ValidatePayloads
  PROVE  MemoryInv'
<1>1. /\ UNCHANGED <<machine, g_stage2_sets, mapping, g_vttbr, mem, vttbr_el2, tlb>>
      /\ bootPhase = "check" /\ bootPhase' \in {"build", "panic"}
      /\ bootPhase' = "build" => Reserved /\ Apart
  BY DEF ValidatePayloads, Apart
<1>2. MemoryTyped'
  BY <1>1, TablesKept DEF MemoryInv, MemoryTyped
<1>3. mapping.vm = 1 /\ mapping.range = 1 /\ mapping.addr = IpaBase /\ 1 \in Guest /\ machine \in MemoryConfigs
  BY <1>1, MachineShape DEF MemoryInv, MemoryTyped, Place, Guest
<1>4. Ranges(1)[1].ipa = IpaBase /\ 1 \in 1..Len(Ranges(1)) /\ IpaBase \in Nat
  BY <1>3, RangesShape DEF MemoryAssumption
<1>5. Place'
  <2>1. Now' = Ranges(1)[1]
    BY <1>1, <1>3, TablesKept DEF Now
  <2> QED
    BY <1>1, <1>3, <1>4, <2>1, TablesKept, SMTT(30) DEF Place
<1>6. Maps'
  <2>1. \A g, i, a : ~Past(g, i, a)
    BY <1>1 DEF Past, Built
  <2>2. \A g \in Guest, a \in Ipa : Walk(g, a)'.type = "invalid"
    BY <1>1, <2>1, TablesKept DEF MemoryInv, Maps
  <2>3. ASSUME bootPhase' # "panic", NEW g \in Guest, NEW a \in Ipa, NEW i \in 1..Len(Ranges(g)), Past(g, i, a)', Covers(Ranges(g)[i], a)
        PROVE  FALSE
    <3>1. g \in Nat \ {0} /\ i \in Nat \ {0} /\ a \in Nat
      BY <1>3, MachineShape, RangesShape DEF Ipa
    <3>2. g = 1 /\ i = 1 /\ a < IpaBase
      BY <1>1, <1>3, <2>3, <3>1 DEF Past, Built
    <3> QED
      BY <1>4, <2>3, <3>1, <3>2 DEF Covers
  <2> QED
    BY <1>1, <2>2, <2>3, TablesKept DEF Maps, Covers
<1>7. Checked'
  BY <1>1, TablesKept DEF Checked
<1>8. Active'
  <2>1. \A g \in Guest : ~(g < 1)
    BY <1>3, MachineShape
  <2> QED
    BY <1>1, <1>3, <2>1, TablesKept DEF MemoryInv, Active, Built, Running
<1>9. FirstContent'
  BY <1>1 DEF FirstContent
<1> QED
  BY <1>2, <1>5, <1>6, <1>7, <1>8, <1>9 DEF MemoryInv

LEMMA PanicStage2Step ==
  ASSUME MemoryAssumption, MemoryInv, PanicStage2
  PROVE  MemoryInv'
<1>1. /\ UNCHANGED <<machine, g_stage2_sets, mapping, g_vttbr, mem, vttbr_el2, tlb>>
      /\ bootPhase = "build" /\ bootPhase' = "panic"
  BY DEF PanicStage2, Building
<1>2. MemoryTyped'
  BY <1>1, TablesKept DEF MemoryInv, MemoryTyped
<1>3. tlb = {}
  BY <1>1 DEF MemoryInv, Active, Running
<1> QED
  BY <1>1, <1>2, <1>3 DEF MemoryInv, Place, Maps, Checked, Active, FirstContent, Built, Running

\* The next range begins: what was passed stays passed.
LEMMA RangeDoneStep ==
  ASSUME MemoryAssumption, MemoryInv, RangeDone
  PROVE  MemoryInv'
<1>1. PICK vm \in Guest : vm = mapping.vm
  BY DEF MemoryInv, MemoryTyped
<1>2. PICK n : n = mapping.range
  OBVIOUS
<1>3. /\ UNCHANGED <<machine, g_stage2_sets, mem, vttbr_el2, tlb>> /\ bootPhase = "build" /\ ~InRange /\ Building
      /\ machine \in MemoryConfigs /\ mapping \in [vm : Guest, range : Nat, addr : Nat] /\ g_vttbr \in [Guest -> [root : Nat, vmid : Nat]]
  BY DEF RangeDone, Building, MemoryInv, MemoryTyped
<1>4. /\ Now = Ranges(vm)[n] /\ n \in 1..Len(Ranges(vm)) /\ Now.ipa \in Nat /\ Now.size \in Nat /\ mapping.addr \in Nat
      /\ mapping.addr >= Now.ipa + Now.size /\ mapping.vm = vm /\ mapping.range = n
  <2>1. mapping.addr \in Nat /\ Now.ipa \in Nat /\ Now.size \in Nat /\ mapping.range \in 1..Len(Ranges(mapping.vm))
    BY <1>3, WritePlace
  <2>2. ~(mapping.addr < Now.ipa + Now.size)
    BY <1>3 DEF InRange
  <2> QED
    BY <1>1, <1>2, <2>1, <2>2, SMTT(30) DEF Now
<1>5. /\ Guest = 1..Len(machine.guests) /\ Len(machine.guests) \in Nat /\ vm \in Nat /\ Len(Ranges(vm)) \in Nat /\ n \in Nat
      /\ \A g \in Guest : g \in Nat
  BY <1>3, <1>4, MachineShape, RangesShape DEF Guest
\* Where it stands now.
<1>6. \/ /\ bootPhase' = "build" /\ n + 1 \in 1..Len(Ranges(vm)) /\ g_vttbr' = g_vttbr
         /\ mapping' = StartRange(vm, n + 1)
      \/ /\ bootPhase' = "build" /\ n = Len(Ranges(vm)) /\ vm + 1 \in Guest
         /\ mapping' = StartRange(vm + 1, 1) /\ g_vttbr' = [g_vttbr EXCEPT ![vm] = [root |-> vm, vmid |-> vm]]
      \/ /\ bootPhase' = "activate" /\ n = Len(Ranges(vm)) /\ vm = Len(machine.guests)
         /\ mapping' = mapping /\ g_vttbr' = [g_vttbr EXCEPT ![vm] = [root |-> vm, vmid |-> vm]]
  <2>1. CASE n < Len(Ranges(vm))
    <3>1. n + 1 \in 1..Len(Ranges(vm))
      BY <1>4, <1>5, <2>1, SMTT(30)
    <3> QED
      BY <1>3, <1>4, <2>1, <3>1 DEF RangeDone
  <2>2. CASE ~(n < Len(Ranges(vm)))
    <3>1. n = Len(Ranges(vm))
      BY <1>4, <1>5, <2>2
    <3>2. CASE vm < Len(machine.guests)
      <4>1. vm + 1 \in Guest
        BY <1>5, <3>2
      <4> QED
        BY <1>3, <1>4, <2>2, <3>1, <3>2, <4>1 DEF RangeDone, Vmid
    <3>3. CASE ~(vm < Len(machine.guests))
      <4>1. vm = Len(machine.guests)
        BY <1>5, <3>3
      <4> QED
        BY <1>3, <1>4, <2>2, <3>1, <3>3, <4>1 DEF RangeDone, Vmid
    <3> QED
      BY <3>2, <3>3
  <2> QED
    BY <2>1, <2>2
<1>7. \A g \in Guest : \A i \in 1..Len(Ranges(g)) : Ranges(g)[i].ipa \in Nat /\ Ranges(g)[i].size \in Nat
  BY <1>3, RangesShape, RangeFields
<1>8. \A g \in Guest : Len(Ranges(g)) \in Nat \ {0} /\ 1 \in 1..Len(Ranges(g))
  BY <1>3, RangesShape
<1>9. ASSUME bootPhase' = "build"
      PROVE  /\ mapping' \in [vm : Guest, range : Nat, addr : Nat] /\ mapping'.range \in 1..Len(Ranges(mapping'.vm))
             /\ mapping'.addr = Ranges(mapping'.vm)[mapping'.range].ipa
  <2>1. ASSUME NEW g \in Guest, NEW i \in 1..Len(Ranges(g)), mapping' = StartRange(g, i)
        PROVE  /\ mapping' \in [vm : Guest, range : Nat, addr : Nat] /\ mapping'.range \in 1..Len(Ranges(mapping'.vm))
               /\ mapping'.addr = Ranges(mapping'.vm)[mapping'.range].ipa
    BY <1>7, <2>1 DEF StartRange
  <2> QED
    BY <1>6, <1>8, <1>9, <2>1
<1>10. MemoryTyped'
  <2>1. g_vttbr' \in [Guest -> [root : Nat, vmid : Nat]]
    <3>1. [root |-> vm, vmid |-> vm] \in [root : Nat, vmid : Nat]
      BY <1>5
    <3>2. [g_vttbr EXCEPT ![vm] = [root |-> vm, vmid |-> vm]] \in [Guest -> [root : Nat, vmid : Nat]]
      BY <1>3, <3>1
    <3> QED
      BY <1>3, <1>6, <3>2
  <2>2. mapping' \in [vm : Guest, range : Nat, addr : Nat]
    BY <1>3, <1>6, <1>9
  <2>3. bootPhase' \in {"build", "activate"}
    BY <1>6
  <2> QED
    BY <1>3, <2>1, <2>2, <2>3, TablesKept DEF MemoryInv, MemoryTyped
<1>11. Place'
  <2>1. CASE bootPhase' = "build"
    <3>1. mapping'.range \in 1..Len(Ranges(mapping'.vm)) /\ mapping'.addr = Ranges(mapping'.vm)[mapping'.range].ipa /\ mapping'.vm \in Guest
      BY <1>9, <2>1
    <3>2. Now' = Ranges(mapping'.vm)[mapping'.range] /\ Len(Ranges(mapping.vm))' = Len(Ranges(mapping'.vm))
      BY <1>3, TablesKept DEF Now
    <3>3. mapping'.addr >= Now'.ipa
      BY <1>7, <3>1, <3>2
    <3> QED
      BY <2>1, <3>1, <3>2, <3>3 DEF Place
  <2>2. CASE bootPhase' = "activate"
    BY <2>2 DEF Place
  <2> QED
    BY <1>6, <2>1, <2>2
<1>12. ASSUME NEW g \in Guest, NEW a \in Ipa, NEW i \in 1..Len(Ranges(g)), Covers(Ranges(g)[i], a)
       PROVE  Past(g, i, a)' <=> Past(g, i, a)
  <2>1. Ranges(g)[i].ipa \in Nat /\ Ranges(g)[i].size \in Nat /\ a \in Nat /\ Ranges(g)[i].ipa <= a /\ a < Ranges(g)[i].ipa + Ranges(g)[i].size /\ g \in Nat /\ i \in Nat
    <3>1. a \in Nat /\ g \in Nat /\ i \in Nat
      BY <1>5, <1>8 DEF Ipa
    <3> QED
      BY <1>7, <1>12, <3>1 DEF Covers
  <2>2. Past(g, i, a) <=> g < vm \/ (g = vm /\ i <= n)
    <3>1. g = vm /\ i = n => a < mapping.addr
      BY <1>4, <2>1
    <3>2. Past(g, i, a) <=> g < vm \/ (g = vm /\ i < n) \/ (g = vm /\ i = n /\ a < mapping.addr)
      BY <1>3, <1>4 DEF Past, Built
    <3>3. i <= n <=> i < n \/ i = n
      BY <1>5, <2>1
    <3> QED
      BY <3>1, <3>2, <3>3
  <2>3. CASE /\ bootPhase' = "build" /\ n + 1 \in 1..Len(Ranges(vm))
             /\ mapping' = StartRange(vm, n + 1)
    <3>1. mapping'.vm = vm /\ mapping'.range = n + 1 /\ mapping'.addr = Ranges(vm)[n + 1].ipa
      BY <2>3 DEF StartRange
    <3>2. ~(g = vm /\ i = n + 1 /\ a < mapping'.addr)
      BY <2>1, <3>1
    <3>3. Past(g, i, a)' <=> g < vm \/ (g = vm /\ i < n + 1)
      BY <2>3, <3>1, <3>2 DEF Past, Built
    <3> QED
      BY <1>5, <2>1, <2>2, <3>3
  <2>4. CASE /\ bootPhase' = "build" /\ n = Len(Ranges(vm)) /\ vm + 1 \in Guest
             /\ mapping' = StartRange(vm + 1, 1)
    <3>1. mapping'.vm = vm + 1 /\ mapping'.range = 1 /\ mapping'.addr = Ranges(vm + 1)[1].ipa
      BY <2>4 DEF StartRange
    <3>2. ~(g = vm + 1 /\ i = 1 /\ a < mapping'.addr)
      BY <2>1, <3>1
    <3>3. i >= 1 /\ (g = vm => i <= n)
      BY <1>4, <1>8, <2>1, <2>4
    <3>4. Past(g, i, a)' <=> g < vm + 1
      BY <2>1, <2>4, <3>1, <3>2, <3>3, SMTT(30) DEF Past, Built
    <3> QED
      BY <1>5, <2>1, <2>2, <3>3, <3>4, SMTT(30)
  <2>5. CASE bootPhase' = "activate" /\ n = Len(Ranges(vm)) /\ vm = Len(machine.guests)
    <3>1. Past(g, i, a)'
      BY <2>5 DEF Past, Built
    <3>2. g <= vm /\ (g = vm => i <= n)
      BY <1>5, <1>8, <2>1, <2>5
    <3> QED
      BY <1>5, <2>1, <2>2, <3>1, <3>2
  <2> QED
    BY <1>6, <2>3, <2>4, <2>5
<1>13. Maps'
  <2>1. /\ \A g \in Guest, a \in Ipa : \A i \in 1..Len(Ranges(g)) : Past(g, i, a)' /\ Covers(Ranges(g)[i], a) => Gives(Walk(g, a), Ranges(g)[i], a)
        /\ \A g \in Guest, a \in Ipa : Walk(g, a).type # "invalid" => \E i \in 1..Len(Ranges(g)) : Past(g, i, a)' /\ Covers(Ranges(g)[i], a)
    BY <1>3, <1>12 DEF MemoryInv, Maps
  <2>2. Guest' = Guest /\ Ipa' = Ipa /\ \A g : Ranges(g)' = Ranges(g) /\ \A a : Walk(g, a)' = Walk(g, a)
    BY <1>3, TablesKept
  <2> QED
    BY <2>1, <2>2 DEF Maps, Covers, Gives
<1>14. Checked'
  BY <1>3, <1>6, TablesKept DEF MemoryInv, Checked
<1>15. tlb = {} /\ tlb' = {} /\ ~Running'
  BY <1>3, <1>6 DEF MemoryInv, Active, Running
<1>16. ASSUME NEW g \in Guest, Built' \/ (bootPhase' = "build" /\ g < mapping'.vm) PROVE g_vttbr'[g].root = g /\ g_vttbr'[g].vmid = g
  <2>1. g < vm => g_vttbr[g].root = g /\ g_vttbr[g].vmid = g
    BY <1>3, <1>4 DEF MemoryInv, Active
  <2>2. CASE /\ bootPhase' = "build" /\ g_vttbr' = g_vttbr /\ mapping' = StartRange(vm, n + 1)
    <3>1. mapping'.vm = vm /\ g < vm
      BY <1>16, <2>2 DEF StartRange, Built
    <3> QED
      BY <2>1, <2>2, <3>1
  <2>3. CASE g_vttbr' = [g_vttbr EXCEPT ![vm] = [root |-> vm, vmid |-> vm]] /\ g <= vm
    <3>1. CASE g = vm
      BY <1>3, <2>3, <3>1
    <3>2. CASE g # vm
      <4>1. g < vm /\ g_vttbr'[g] = g_vttbr[g]
        BY <1>3, <1>5, <2>3, <3>2
      <4> QED
        BY <2>1, <4>1
    <3> QED
      BY <3>1, <3>2
  <2>4. g <= vm \/ (bootPhase' = "build" /\ g_vttbr' = g_vttbr /\ mapping' = StartRange(vm, n + 1))
    <3>1. mapping' = StartRange(vm + 1, 1) /\ bootPhase' = "build" => g <= vm
      <4> SUFFICES ASSUME mapping' = StartRange(vm + 1, 1), bootPhase' = "build" PROVE g <= vm
        OBVIOUS
      <4>1. mapping'.vm = vm + 1
        BY DEF StartRange
      <4>2. g < vm + 1
        BY <1>16, <4>1 DEF Built
      <4> QED
        BY <1>5, <4>2
    <3>2. vm = Len(machine.guests) => g <= vm
      BY <1>5
    <3> QED
      BY <1>6, <3>1, <3>2
  <2> QED
    BY <1>6, <2>2, <2>3, <2>4
<1>17. Active'
  <2>1. Guest' = Guest
    BY <1>3, TablesKept
  <2> QED
    BY <1>15, <1>16, <2>1 DEF Active
<1>18. FirstContent'
  BY <1>6 DEF FirstContent
<1> QED
  BY <1>10, <1>11, <1>13, <1>14, <1>17, <1>18 DEF MemoryInv

-----------------------------------------------------------------------------
(* The steps after the tables are built.                                   *)

LEMMA BuiltOn ==
  ASSUME MemoryAssumption, MemoryInv, Built, Built', UNCHANGED <<machine, g_stage2_sets, mapping, g_vttbr>>
  PROVE  /\ Place' /\ Maps' /\ Checked' /\ Reserved /\ Apart /\ machine \in MemoryConfigs
         /\ \A g \in Guest : g_vttbr[g].root = g /\ g_vttbr[g].vmid = g
<1>1. Place'
  BY DEF Place, Built
<1>2. Guest' = Guest /\ Ipa' = Ipa /\ \A g : Ranges(g)' = Ranges(g) /\ \A a : Walk(g, a)' = Walk(g, a)
  BY TablesKept
<1>3. \A g, i, a : Past(g, i, a) /\ Past(g, i, a)'
  BY DEF Past
<1>4. Maps'
  BY <1>2, <1>3 DEF MemoryInv, Maps, Built, Covers, Gives
<1>5. Reserved /\ Apart
  BY DEF MemoryInv, Checked, Built
<1>6. Checked'
  BY <1>5, TablesKept DEF Checked
<1>7. \A g \in Guest : g_vttbr[g].root = g /\ g_vttbr[g].vmid = g
  BY DEF MemoryInv, Active
<1> QED
  BY <1>1, <1>4, <1>5, <1>6, <1>7 DEF MemoryInv, MemoryTyped

LEMMA ActivateStep ==
  ASSUME MemoryAssumption, MemoryInv, Activate
  PROVE  MemoryInv'
<1>1. /\ UNCHANGED <<machine, g_stage2_sets, mapping, g_vttbr, mem>> /\ bootPhase = "activate" /\ bootPhase' = "copy"
      /\ vttbr_el2' = g_vttbr[1] /\ tlb' = {}
  BY DEF Activate
<1>2. Built /\ Built'
  BY <1>1 DEF Built
<1>3. 1 \in Guest
  BY MachineShape DEF Guest, MemoryInv, MemoryTyped
<1>4. MemoryTyped'
  BY <1>1, <1>3, TablesKept DEF MemoryInv, MemoryTyped
<1>5. Active'
  BY <1>1, <1>2, <1>3, BuiltOn, TablesKept DEF Active
<1>6. FirstContent'
  BY <1>1 DEF FirstContent
<1> QED
  BY <1>1, <1>2, <1>4, <1>5, <1>6, BuiltOn DEF MemoryInv

LEMMA BootedValue ==
  ASSUME NEW g \in Nat, NEW p PROVE Booted(g, p) \in Value
  BY DEF Booted, Value

LEMMA CopyPayloadsStep ==
  ASSUME MemoryAssumption, MemoryInv, CopyPayloads
  PROVE  MemoryInv'
<1>1. /\ UNCHANGED <<machine, g_stage2_sets, mapping, g_vttbr, vttbr_el2, tlb>> /\ bootPhase = "copy" /\ bootPhase' = "snapshot"
      /\ mem' = [p \in Page |-> IF \E g \in Guest : p \in Window(g) THEN Booted(CHOOSE g \in Guest : p \in Window(g), p) ELSE mem[p]]
  BY DEF CopyPayloads
<1>2. Built /\ Built' /\ Running /\ Running'
  BY <1>1 DEF Built, Running
<1>3. Place' /\ Maps' /\ Checked' /\ Reserved /\ Apart /\ machine \in MemoryConfigs
  BY <1>1, <1>2, BuiltOn
<1>4. mem' \in [Page -> Value]
  <2>1. \A g \in Guest : \A p : Booted(g, p) \in Value
    BY <1>3, BootedValue, MachineShape
  <2>2. ASSUME NEW p \in Page
        PROVE  (IF \E g \in Guest : p \in Window(g) THEN Booted(CHOOSE g \in Guest : p \in Window(g), p) ELSE mem[p]) \in Value
    <3>1. CASE \E g \in Guest : p \in Window(g)
      <4>1. (CHOOSE g \in Guest : p \in Window(g)) \in Guest
        BY <3>1
      <4> QED
        BY <2>1, <3>1, <4>1
    <3>2. CASE ~\E g \in Guest : p \in Window(g)
      BY <3>2 DEF MemoryInv, MemoryTyped
    <3> QED
      BY <3>1, <3>2
  <2> QED
    BY <1>1, <2>2
<1>5. MemoryTyped'
  BY <1>1, <1>4, TablesKept DEF MemoryInv, MemoryTyped
<1>6. Active'
  BY <1>1, <1>2, TablesKept DEF MemoryInv, Active
<1>7. ASSUME NEW g \in Guest, NEW p \in Window(g) PROVE mem'[p] = Booted(g, p)
  <2>1. p \in Page
    <3> DEFINE b == machine.guests[g].load
               s == machine.guests[g].size
    <3>1. /\ b \in Nat /\ s \in Nat /\ b + s <= GuestPa + GuestPaSize
      BY <1>3, MachineShape DEF Reserved
    <3>2. GuestPa + GuestPaSize <= PaPages /\ PaPages \in Nat /\ GuestPa \in Nat /\ GuestPaSize \in Nat
      BY DEF MemoryAssumption
    <3>3. p \in b .. b + s - 1
      BY DEF Window
    <3> HIDE DEF b, s
    <3> QED
      BY <3>1, <3>2, <3>3 DEF Page
  <2>2. (CHOOSE h \in Guest : p \in Window(h)) = g
    <3>1. \A h \in Guest : p \in Window(h) => h = g
      BY <1>3 DEF Apart
    <3> QED
      BY <3>1
  <2> QED
    BY <1>1, <2>1, <2>2
<1>8. FirstContent'
  BY <1>1, <1>7, TablesKept DEF FirstContent
<1> QED
  BY <1>3, <1>5, <1>6, <1>8 DEF MemoryInv

\* Where a page of a window is kept, and that it comes back from there.
LEMMA SlotOfPage ==
  ASSUME MemoryAssumption, machine \in MemoryConfigs, Reserved, NEW g \in Guest, NEW p \in Window(g)
  PROVE  /\ p \in Page /\ p \in Nat
         /\ LET q == PristineSlot(g) + p - machine.guests[g].load
            IN q \in Slot(g) /\ q \in Page /\ q \in PristinePa .. PristinePa + PristineSize - 1
               /\ machine.guests[g].load + q - PristineSlot(g) = p
<1> DEFINE b == machine.guests[g].load
           s == machine.guests[g].size
           t == PristineSlot(g)
<1>1. b \in Nat /\ s \in Nat /\ b + s <= GuestPa + GuestPaSize
  BY MachineShape DEF Reserved
<1>2. /\ GuestPa + GuestPaSize <= PaPages /\ PaPages \in Nat /\ GuestPa \in Nat /\ GuestPaSize \in Nat
      /\ PristinePa + PristineSize <= PaPages /\ PristinePa \in Nat /\ PristineSize \in Nat
  BY DEF MemoryAssumption
<1>3. p \in b .. b + s - 1
  BY DEF Window
<1>4. t \in Nat /\ t >= PristinePa /\ t + s <= PristinePa + PristineSize
  BY SlotsApart
<1>5. Slot(g) = t .. t + s - 1
  BY DEF Slot
<1> HIDE DEF b, s, t
<1>6. p \in Nat /\ p <= PaPages - 1 /\ b <= p /\ p <= b + s - 1
  BY <1>1, <1>2, <1>3
<1>7. t + p - b \in Nat /\ t <= t + p - b /\ t + p - b <= t + s - 1 /\ b + (t + p - b) - t = p
  BY <1>1, <1>4, <1>6
<1>8. t + p - b \in t .. t + s - 1 /\ t + p - b \in 0 .. PaPages - 1 /\ t + p - b \in PristinePa .. PristinePa + PristineSize - 1
  BY <1>1, <1>2, <1>4, <1>7
<1> QED
  BY <1>2, <1>5, <1>6, <1>7, <1>8 DEF b, t, Page

LEMMA SnapshotStep ==
  ASSUME MemoryAssumption, MemoryInv, Snapshot
  PROVE  /\ MemoryInv'
         /\ \A p \in Page : mem'[p] # mem[p] => p \in PristinePa .. PristinePa + PristineSize - 1
<1> DEFINE written(p) == {g \in Guest : p \in PristineSlot(g) .. PristineSlot(g) + machine.guests[g].size - 1}
           last(p) == CHOOSE g \in written(p) : \A h \in written(p) : h <= g
<1>1. /\ UNCHANGED <<machine, g_stage2_sets, mapping, g_vttbr, vttbr_el2, tlb>> /\ bootPhase = "snapshot" /\ bootPhase' = "run"
      /\ mem' = [p \in Page |-> IF written(p) = {} THEN mem[p] ELSE mem[machine.guests[last(p)].load + p - PristineSlot(last(p))]]
  BY DEF Snapshot
<1>2. Built /\ Built' /\ Running /\ Running'
  BY <1>1 DEF Built, Running
<1>3. Place' /\ Maps' /\ Checked' /\ Reserved /\ Apart /\ machine \in MemoryConfigs
  BY <1>1, <1>2, BuiltOn
<1>4. \A p : written(p) = {g \in Guest : p \in Slot(g)}
  BY DEF Slot
<1> HIDE DEF written
<1>5. ASSUME NEW p, NEW g \in Guest, p \in Slot(g) PROVE written(p) = {g} /\ last(p) = g
  <2>1. \A h \in Guest : p \in Slot(h) => h = g
    BY <1>3, <1>5, SlotsApart
  <2>2. written(p) = {g}
    BY <1>4, <1>5, <2>1
  <2>3. g <= g
    BY <1>3, MachineShape
  <2> QED
    BY <2>2, <2>3
<1> HIDE DEF last
<1>6. ASSUME NEW g \in Guest, NEW p \in Slot(g)
      PROVE  /\ machine.guests[g].load + p - PristineSlot(g) \in Window(g)
             /\ p \in PristinePa .. PristinePa + PristineSize - 1
  <2> DEFINE b == machine.guests[g].load
             s == machine.guests[g].size
             t == PristineSlot(g)
  <2>1. b \in Nat /\ s \in Nat
    BY <1>3, MachineShape
  <2>2. t \in Nat /\ t >= PristinePa /\ t + s <= PristinePa + PristineSize /\ PristinePa \in Nat /\ PristineSize \in Nat
    BY <1>3, SlotsApart DEF MemoryAssumption
  <2>3. p \in t .. t + s - 1
    BY DEF Slot
  <2>4. Window(g) = b .. b + s - 1
    BY DEF Window
  <2> HIDE DEF b, s, t
  <2>5. b + p - t \in b .. b + s - 1 /\ p \in PristinePa .. PristinePa + PristineSize - 1
    BY <2>1, <2>2, <2>3
  <2> QED
    BY <2>4, <2>5 DEF b, t
<1>7. ASSUME NEW p \in Page
      PROVE  /\ mem'[p] \in Value
             /\ mem'[p] # mem[p] => p \in PristinePa .. PristinePa + PristineSize - 1
  <2>1. \A q \in Page : mem[q] \in Value
    BY DEF MemoryInv, MemoryTyped
  <2>2. CASE written(p) = {}
    BY <1>1, <2>1, <2>2
  <2>3. CASE written(p) # {}
    <3>1. PICK g \in Guest : p \in Slot(g)
      BY <1>4, <2>3
    <3>2. mem'[p] = mem[machine.guests[g].load + p - PristineSlot(g)]
      BY <1>1, <1>5, <2>3, <3>1
    <3>3. machine.guests[g].load + p - PristineSlot(g) \in Page /\ p \in PristinePa .. PristinePa + PristineSize - 1
      BY <1>3, <1>6, <3>1, SlotOfPage
    <3> QED
      BY <2>1, <3>2, <3>3
  <2> QED
    BY <2>2, <2>3
<1>8. mem' \in [Page -> Value]
  <2>1. mem' = [p \in Page |-> mem'[p]]
    BY <1>1
  <2> QED
    BY <1>7, <2>1
<1>9. MemoryTyped'
  BY <1>1, <1>8, TablesKept DEF MemoryInv, MemoryTyped
<1>10. Active'
  BY <1>1, <1>2, TablesKept DEF MemoryInv, Active
<1>11. ASSUME NEW g \in Guest, NEW p \in Window(g)
       PROVE  mem'[PristineSlot(g) + p - machine.guests[g].load] = Booted(g, p)
  <2> DEFINE q == PristineSlot(g) + p - machine.guests[g].load
  <2>1. q \in Slot(g) /\ q \in Page /\ machine.guests[g].load + q - PristineSlot(g) = p
    BY <1>3, SlotOfPage
  <2> HIDE DEF q
  <2>2. mem'[q] = mem[machine.guests[g].load + q - PristineSlot(g)]
    BY <1>1, <1>5, <2>1
  <2>3. mem[p] = Booted(g, p)
    BY <1>1 DEF MemoryInv, FirstContent
  <2> QED
    BY <2>1, <2>2, <2>3 DEF q
<1>12. FirstContent'
  <2>1. Guest' = Guest /\ machine' = machine /\ \A g, p : Booted(g, p)' = Booted(g, p) /\ Window(g)' = Window(g) /\ PristineSlot(g)' = PristineSlot(g)
    BY <1>1, TablesKept
  <2>2. bootPhase' = "run"
    BY <1>1
  <2> QED
    BY <1>11, <2>1, <2>2 DEF FirstContent
<1> QED
  BY <1>3, <1>7, <1>9, <1>10, <1>12 DEF MemoryInv

\* A guest writes only where its tables lead.
LEMMA GuestWritesStep ==
  ASSUME MemoryAssumption, MemoryInv, GuestWrites
  PROVE  /\ MemoryInv'
         /\ \A p \in Page : mem'[p] # mem[p] => \E g \in Guest : Reaches(g, p)
<1>1. /\ UNCHANGED <<machine, bootPhase, g_stage2_sets, mapping, g_vttbr, vttbr_el2>> /\ bootPhase = "run"
  BY DEF GuestWrites
<1>2. PICK ipa \in Ipa, pa \in Page : Translate(ipa, pa) /\ mem' = [mem EXCEPT ![pa] = <<"dirty", vttbr_el2.root>>]
  BY DEF GuestWrites
<1>3. Built /\ Built' /\ Running /\ Running'
  BY <1>1 DEF Built, Running
<1>4. Place' /\ Maps' /\ Checked' /\ Reserved /\ Apart /\ machine \in MemoryConfigs
  BY <1>1, <1>3, BuiltOn
<1>5. vttbr_el2.root \in Guest /\ vttbr_el2.vmid = vttbr_el2.root /\ vttbr_el2.root \in Nat
  BY <1>3, <1>4, MachineShape DEF MemoryInv, Active
<1>6. /\ \A e \in tlb : e.vmid \in Guest /\ e.ipa \in Ipa /\ Walk(e.vmid, e.ipa).type # "invalid" /\ Walk(e.vmid, e.ipa).out = e.pa
      /\ tlb \subseteq [vmid : Guest, ipa : Ipa, pa : Page]
  BY DEF MemoryInv, MemoryTyped, Active
<1>7. PICK g \in Guest : g = vttbr_el2.root
  BY <1>5
<1> DEFINE new == [vmid |-> vttbr_el2.vmid, ipa |-> ipa, pa |-> pa]
<1>9. \/ /\ UNCHANGED tlb
         /\ \E e \in tlb : e.vmid = vttbr_el2.vmid /\ e.ipa = ipa /\ pa = e.pa
      \/ /\ Walk(vttbr_el2.root, ipa).type # "invalid" /\ pa = Walk(vttbr_el2.root, ipa).out
         /\ tlb' = tlb \cup {new}
  BY <1>2 DEF Translate
<1>10. Walk(g, ipa).type # "invalid" /\ Walk(g, ipa).out = pa
  BY <1>5, <1>6, <1>7, <1>9
<1>11. /\ tlb' \subseteq [vmid : Guest, ipa : Ipa, pa : Page]
       /\ \A e \in tlb' : Walk(e.vmid, e.ipa).type # "invalid" /\ Walk(e.vmid, e.ipa).out = e.pa
  <2>1. new \in [vmid : Guest, ipa : Ipa, pa : Page] /\ new.vmid = g /\ new.ipa = ipa /\ new.pa = pa
    BY <1>5, <1>7
  <2> HIDE DEF new
  <2> QED
    BY <1>6, <1>9, <1>10, <2>1
<1>12. Reaches(g, pa)
  BY <1>1, <1>10, WalkReaches
<1>13. /\ mem' \in [Page -> Value] /\ \A p \in Page : p # pa => mem'[p] = mem[p]
  <2>1. <<"dirty", vttbr_el2.root>> \in Value
    BY <1>5 DEF Value
  <2> QED
    BY <1>2, <2>1 DEF MemoryInv, MemoryTyped
<1>14. MemoryTyped'
  BY <1>1, <1>11, <1>13, TablesKept DEF MemoryInv, MemoryTyped
<1>15. Active'
  BY <1>1, <1>3, <1>11, TablesKept DEF MemoryInv, Active
<1>16. ASSUME NEW h \in Guest, NEW p \in Window(h)
       PROVE  mem'[PristineSlot(h) + p - machine.guests[h].load] = Booted(h, p)
  <2> DEFINE q == PristineSlot(h) + p - machine.guests[h].load
  <2>1. q \in Page /\ q \in PristinePa .. PristinePa + PristineSize - 1
    BY <1>4, SlotOfPage
  <2>2. mem[q] = Booted(h, p)
    BY <1>1 DEF MemoryInv, FirstContent
  <2> HIDE DEF q
  <2>3. q # pa
    BY <1>4, <1>12, <2>1, ReachOutside
  <2>4. mem'[q] = Booted(h, p)
    BY <1>13, <2>1, <2>2, <2>3
  <2> QED
    BY <2>4 DEF q
<1>17. FirstContent'
  <2>1. Guest' = Guest /\ machine' = machine /\ \A f, p : Booted(f, p)' = Booted(f, p) /\ Window(f)' = Window(f) /\ PristineSlot(f)' = PristineSlot(f)
    BY <1>1, TablesKept
  <2>2. bootPhase' = "run"
    BY <1>1
  <2> QED
    BY <1>16, <2>1, <2>2 DEF FirstContent
<1> QED
  BY <1>4, <1>12, <1>13, <1>14, <1>15, <1>17 DEF MemoryInv

LEMMA TlbEvictsStep ==
  ASSUME MemoryAssumption, MemoryInv, TlbEvicts
  PROVE  MemoryInv'
<1>1. /\ UNCHANGED <<machine, bootPhase, g_stage2_sets, mapping, g_vttbr, mem, vttbr_el2>> /\ bootPhase = "run" /\ tlb' \subseteq tlb
  BY DEF TlbEvicts
<1>2. Built /\ Built' /\ Running /\ Running'
  BY <1>1 DEF Built, Running
<1>3. MemoryTyped'
  BY <1>1, TablesKept DEF MemoryInv, MemoryTyped
<1>4. Active'
  BY <1>1, <1>2, TablesKept DEF MemoryInv, Active
<1>5. FirstContent'
  <2>1. Guest' = Guest /\ machine' = machine /\ \A f, p : Booted(f, p)' = Booted(f, p) /\ Window(f)' = Window(f) /\ PristineSlot(f)' = PristineSlot(f)
    BY <1>1, TablesKept
  <2>2. mem' = mem /\ bootPhase' = bootPhase
    BY <1>1
  <2> QED
    BY <2>1, <2>2 DEF MemoryInv, FirstContent
<1> QED
  BY <1>1, <1>2, <1>3, <1>4, <1>5, BuiltOn DEF MemoryInv

LEMMA SwitchVmStep ==
  ASSUME MemoryAssumption, MemoryInv, SwitchVm
  PROVE  MemoryInv'
<1>1. /\ UNCHANGED <<machine, bootPhase, g_stage2_sets, mapping, g_vttbr, mem, tlb>> /\ bootPhase = "run"
  BY DEF SwitchVm
<1>2. PICK g \in Guest : vttbr_el2' = g_vttbr[g]
  BY DEF SwitchVm
<1>3. Built /\ Built' /\ Running /\ Running'
  BY <1>1 DEF Built, Running
<1>4. MemoryTyped'
  BY <1>1, <1>2, TablesKept DEF MemoryInv, MemoryTyped
<1>5. Active'
  <2>1. vttbr_el2'.root \in Guest /\ vttbr_el2'.vmid = vttbr_el2'.root
    BY <1>1, <1>2, <1>3, BuiltOn
  <2> QED
    BY <1>1, <1>3, <2>1, TablesKept DEF MemoryInv, Active
<1>6. FirstContent'
  <2>1. Guest' = Guest /\ machine' = machine /\ \A f, p : Booted(f, p)' = Booted(f, p) /\ Window(f)' = Window(f) /\ PristineSlot(f)' = PristineSlot(f)
    BY <1>1, TablesKept
  <2>2. mem' = mem /\ bootPhase' = bootPhase
    BY <1>1
  <2> QED
    BY <2>1, <2>2 DEF MemoryInv, FirstContent
<1> QED
  BY <1>1, <1>3, <1>4, <1>5, <1>6, BuiltOn DEF MemoryInv

\* A reload puts the window back as it booted and touches nothing else.
LEMMA ReloadStep ==
  ASSUME MemoryAssumption, MemoryInv, NEW g \in Guest, ReloadGuestImage(g)
  PROVE  /\ MemoryInv'
         /\ \A p \in Page : mem'[p] = IF p \in Window(g) THEN Booted(g, p) ELSE mem[p]
<1>1. /\ UNCHANGED <<machine, bootPhase, g_stage2_sets, mapping, g_vttbr, vttbr_el2, tlb>> /\ bootPhase = "run" /\ mem' = Restored(g)
  BY DEF ReloadGuestImage
<1>2. Built /\ Built' /\ Running /\ Running'
  BY <1>1 DEF Built, Running
<1>3. Place' /\ Maps' /\ Checked' /\ Reserved /\ Apart /\ machine \in MemoryConfigs
  BY <1>1, <1>2, BuiltOn
<1>4. ASSUME NEW p \in Page PROVE mem'[p] = IF p \in Window(g) THEN Booted(g, p) ELSE mem[p]
  <2>1. p \in Window(g) => mem[PristineSlot(g) + p - machine.guests[g].load] = Booted(g, p)
    BY <1>1 DEF MemoryInv, FirstContent
  <2> QED
    BY <1>1, <2>1 DEF Restored
<1>5. mem' \in [Page -> Value]
  <2>1. mem' = [p \in Page |-> mem'[p]]
    BY <1>1 DEF Restored
  <2>2. \A p \in Page : mem[p] \in Value /\ Booted(g, p) \in Value
    BY <1>3, BootedValue, MachineShape DEF MemoryInv, MemoryTyped
  <2> QED
    BY <1>4, <2>1, <2>2
<1>6. MemoryTyped'
  BY <1>1, <1>5, TablesKept DEF MemoryInv, MemoryTyped
<1>7. Active'
  BY <1>1, <1>2, TablesKept DEF MemoryInv, Active
<1>8. ASSUME NEW h \in Guest, NEW p \in Window(h)
      PROVE  mem'[PristineSlot(h) + p - machine.guests[h].load] = Booted(h, p)
  <2> DEFINE q == PristineSlot(h) + p - machine.guests[h].load
  <2>1. q \in Page /\ q \in PristinePa .. PristinePa + PristineSize - 1
    BY <1>3, SlotOfPage
  <2>2. mem[q] = Booted(h, p)
    BY <1>1 DEF MemoryInv, FirstContent
  <2> HIDE DEF q
  <2>3. q \notin Window(g)
    BY <1>3, <2>1, ReachOutside DEF Reaches
  <2>4. mem'[q] = Booted(h, p)
    BY <1>4, <2>1, <2>2, <2>3
  <2> QED
    BY <2>4 DEF q
<1>9. FirstContent'
  <2>1. Guest' = Guest /\ machine' = machine /\ \A f, p : Booted(f, p)' = Booted(f, p) /\ Window(f)' = Window(f) /\ PristineSlot(f)' = PristineSlot(f)
    BY <1>1, TablesKept
  <2>2. bootPhase' = "run"
    BY <1>1
  <2> QED
    BY <1>8, <2>1, <2>2 DEF FirstContent
<1> QED
  BY <1>3, <1>4, <1>6, <1>7, <1>9 DEF MemoryInv

LEMMA MemoryStutters ==
  ASSUME MemoryAssumption, MemoryInv, UNCHANGED s2Vars
  PROVE  MemoryInv'
<1>1. UNCHANGED <<machine, bootPhase, g_stage2_sets, mapping, g_vttbr, mem, vttbr_el2, tlb>>
  BY DEF s2Vars
<1>2. /\ Guest' = Guest /\ Ipa' = Ipa /\ \A g, p : Booted(g, p)' = Booted(g, p) /\ Window(g)' = Window(g) /\ PristineSlot(g)' = PristineSlot(g)
      /\ \A g : Ranges(g)' = Ranges(g) /\ \A a : Walk(g, a)' = Walk(g, a)
  BY <1>1, TablesKept
<1>3. MemoryTyped'
  BY <1>1, TablesKept DEF MemoryInv, MemoryTyped
<1>4. Place'
  <2>1. Now' = Now
    BY <1>1, <1>2 DEF Now
  <2> QED
    BY <1>1, <1>2, <2>1 DEF MemoryInv, Place
<1>5. Maps'
  <2>1. \A g, i, a : Past(g, i, a)' <=> Past(g, i, a)
    BY <1>1 DEF Past, Built
  <2> QED
    BY <1>1, <1>2, <2>1, SMTT(30) DEF MemoryInv, Maps, Covers, Gives
<1>6. Checked'
  BY <1>1, TablesKept DEF MemoryInv, Checked
<1>7. Active'
  BY <1>1, <1>2 DEF MemoryInv, Active, Built, Running
<1>8. FirstContent'
  BY <1>1, <1>2 DEF MemoryInv, FirstContent
<1> QED
  BY <1>3, <1>4, <1>5, <1>6, <1>7, <1>8 DEF MemoryInv

-----------------------------------------------------------------------------

LEMMA MemoryStep ==
  ASSUME MemoryAssumption, MemoryInv, [S2Next]_s2Vars
  PROVE  MemoryInv'
<1>1. CASE InitGuestTable \/ ValidatePayloads
  BY <1>1, InitGuestTableStep, ValidatePayloadsStep
<1>2. CASE TakeL2 \/ TakeL3
  BY <1>2, TakeL2Step, TakeL3Step
<1>3. CASE MapBlock \/ MapPage
  BY <1>3, MapBlockStep, MapPageStep
<1>4. CASE PanicStage2 \/ RangeDone
  BY <1>4, PanicStage2Step, RangeDoneStep
<1>5. CASE Activate \/ CopyPayloads \/ Snapshot
  BY <1>5, ActivateStep, CopyPayloadsStep, SnapshotStep
<1>6. CASE GuestWrites \/ TlbEvicts \/ SwitchVm
  BY <1>6, GuestWritesStep, TlbEvictsStep, SwitchVmStep
<1>7. ASSUME NEW g \in Guest, ReloadGuestImage(g) PROVE MemoryInv'
  BY <1>7, ReloadStep
<1>8. CASE UNCHANGED s2Vars
  BY <1>8, MemoryStutters
<1> QED
  BY <1>1, <1>2, <1>3, <1>4, <1>5, <1>6, <1>7, <1>8 DEF S2Next

\* The invariant holds of every run of the memory's specification.
THEOREM MemoryHolds == S2Spec => []MemoryInv
<1>1. S2Init => MemoryInv
  BY MemoryAssumption, MemoryStarts
<1>2. MemoryInv /\ [S2Next]_s2Vars => MemoryInv'
  BY MemoryAssumption, MemoryStep
<1> QED
  BY <1>1, <1>2, PTL DEF S2Spec

\* The walks of a guest are what the configuration asks for, no more and no
\* less, and no two guests share a page but the IVC page.
LEMMA IsolatedWhileRunning ==
  ASSUME MemoryAssumption, MemoryInv
  PROVE  VmsIsolated
<1> SUFFICES ASSUME Running PROVE VmsIsolated
  BY DEF VmsIsolated, Running
<1>1. Built /\ bootPhase # "panic" /\ machine \in MemoryConfigs /\ Reserved /\ Apart
  BY DEF Running, Built, MemoryInv, MemoryTyped, Checked
<1>2. ASSUME NEW g \in Guest, NEW a \in Ipa
      PROVE  Intended(g, a) = IF Walk(g, a).type = "invalid" THEN {} ELSE {[out |-> Walk(g, a).out, attr |-> Walk(g, a).attr]}
  <2> DEFINE R == {q \in {Ranges(g)[i] : i \in 1..Len(Ranges(g))} : a \in q.ipa .. q.ipa + q.size - 1}
             want(r) == [out |-> r.pa + a - r.ipa, attr |-> r.attr]
  <2>1. Intended(g, a) = {want(r) : r \in R}
    BY DEF Intended
  <2>2. ASSUME NEW i \in 1..Len(Ranges(g))
        PROVE  /\ Ranges(g)[i].ipa \in Nat /\ Ranges(g)[i].pa \in Nat /\ Ranges(g)[i].size \in Nat
               /\ a \in Ranges(g)[i].ipa .. Ranges(g)[i].ipa + Ranges(g)[i].size - 1 <=> Covers(Ranges(g)[i], a)
    <3>1. Ranges(g)[i].ipa \in Nat /\ Ranges(g)[i].pa \in Nat /\ Ranges(g)[i].size \in Nat /\ a \in Nat
      BY <1>1, RangesShape, RangeFields DEF Ipa
    <3> QED
      BY <3>1, SMTT(30) DEF Covers
  <2>3. /\ \A i \in 1..Len(Ranges(g)) : Covers(Ranges(g)[i], a) => Gives(Walk(g, a), Ranges(g)[i], a)
        /\ Walk(g, a).type # "invalid" => \E i \in 1..Len(Ranges(g)) : Covers(Ranges(g)[i], a)
    BY <1>1 DEF MemoryInv, Maps, Past
  <2>4. ASSUME NEW r \in R PROVE Walk(g, a).type # "invalid" /\ want(r) = [out |-> Walk(g, a).out, attr |-> Walk(g, a).attr]
    <3>1. PICK i \in 1..Len(Ranges(g)) : r = Ranges(g)[i] /\ a \in r.ipa .. r.ipa + r.size - 1
      OBVIOUS
    <3>2. Gives(Walk(g, a), r, a) /\ r.pa \in Nat /\ r.ipa \in Nat /\ a \in Nat
      BY <2>2, <2>3, <3>1, SMTT(30) DEF Ipa
    <3>3. r.pa + (a - r.ipa) = r.pa + a - r.ipa
      BY <3>2
    <3> QED
      BY <3>2, <3>3 DEF Gives
  <2>5. Walk(g, a).type # "invalid" => R # {}
    BY <2>2, <2>3
  <2> HIDE DEF R, want
  <2>6. CASE Walk(g, a).type = "invalid"
    BY <2>1, <2>4, <2>6
  <2>7. CASE Walk(g, a).type # "invalid"
    BY <2>1, <2>4, <2>5, <2>7
  <2> QED
    BY <2>6, <2>7
<1>3. ASSUME NEW e \in tlb, NEW g \in Guest, g_vttbr[g].vmid = e.vmid
      PROVE  Walk(g, e.ipa).type # "invalid" /\ Walk(g, e.ipa).out = e.pa
  <2>1. g = e.vmid
    BY <1>1, <1>3 DEF MemoryInv, Active
  <2> QED
    BY <2>1 DEF MemoryInv, Active
<1>4. ASSUME NEW g \in Guest, NEW h \in Guest, NEW i \in Ipa, NEW j \in Ipa,
             g # h, Walk(g, i).type # "invalid", Walk(h, j).type # "invalid", Walk(g, i).out = Walk(h, j).out
      PROVE  Walk(g, i).out = IvcPa
  <2>1. Reaches(g, Walk(g, i).out) /\ Reaches(h, Walk(g, i).out)
    BY <1>1, <1>4, WalkReaches
  <2> QED
    BY <1>1, <1>4, <2>1, ReachApart
<1> QED
  BY <1>2, <1>3, <1>4 DEF VmsIsolated

\* Every guest's walks answer as `Configured` does from the time it runs: no
\* stage-2 tree built by init_guest_table reaches another guest's window.
THEOREM GuestsIsolated == S2Spec => []VmsIsolated
<1>1. MemoryInv => VmsIsolated
  BY MemoryAssumption, IsolatedWhileRunning
<1> QED
  BY <1>1, MemoryHolds, PTL

\* A write once guests run goes where a guest may reach, and the one that
\* makes the snapshots goes to their reservation.
LEMMA WritesStay ==
  ASSUME MemoryAssumption, MemoryInv, [S2Next]_s2Vars, NEW p \in Page, mem'[p] # mem[p], bootPhase \in {"snapshot", "run"}
  PROVE  \/ bootPhase = "run" /\ (p = IvcPa \/ (\E g \in Guest : p \in Window(g)) \/ (\E r \in {machine.regions[i] : i \in 1..Len(machine.regions)} : p \in r.pa .. r.pa + r.size - 1))
         \/ bootPhase = "snapshot" /\ p \in PristinePa .. PristinePa + PristineSize - 1
<1>1. CASE GuestWrites
  <2>1. bootPhase = "run"
    BY <1>1 DEF GuestWrites
  <2>2. PICK g \in Guest : Reaches(g, p)
    BY <1>1, GuestWritesStep
  <2> QED
    BY <2>1, <2>2 DEF Reaches, Region
<1>2. CASE Snapshot
  <2>1. bootPhase = "snapshot"
    BY <1>2 DEF Snapshot
  <2> QED
    BY <1>2, <2>1, SnapshotStep
<1>3. ASSUME NEW g \in Guest, ReloadGuestImage(g)
      PROVE  bootPhase = "run" /\ p \in Window(g)
  <2>1. bootPhase = "run"
    BY <1>3 DEF ReloadGuestImage
  <2> QED
    BY <1>3, <2>1, ReloadStep
<1>4. CASE InitGuestTable \/ ValidatePayloads \/ PanicStage2 \/ RangeDone \/ Activate \/ TlbEvicts \/ SwitchVm \/ UNCHANGED s2Vars
  BY <1>4 DEF InitGuestTable, ValidatePayloads, PanicStage2, RangeDone, Activate, TlbEvicts, SwitchVm, s2Vars
<1>5. CASE TakeL2 \/ TakeL3 \/ MapBlock \/ MapPage
  BY <1>5 DEF TakeL2, TakeL3, MapBlock, MapPage, Write
<1>6. CASE CopyPayloads
  BY <1>6 DEF CopyPayloads
<1> QED
  BY <1>1, <1>2, <1>3, <1>4, <1>5, <1>6 DEF S2Next

\* reload_guest_image puts back what the window held at boot and nothing else,
\* and no later write reaches the snapshots.
THEOREM ReloadRestores == S2Spec => RestoreExact
<1> DEFINE R == \A g \in Guest : ReloadGuestImage(g) => \A p \in Page : mem'[p] = IF p \in Window(g) THEN Booted(g, p) ELSE mem[p]
           W == \A p \in Page : mem'[p] # mem[p] /\ bootPhase \in {"snapshot", "run"} =>
                  \/ bootPhase = "run" /\ (p = IvcPa \/ (\E g \in Guest : p \in Window(g)) \/ (\E r \in {machine.regions[i] : i \in 1..Len(machine.regions)} : p \in r.pa .. r.pa + r.size - 1))
                  \/ bootPhase = "snapshot" /\ p \in PristinePa .. PristinePa + PristineSize - 1
<1>1. MemoryInv /\ [S2Next]_s2Vars => R
  BY MemoryAssumption, ReloadStep
<1>2. MemoryInv /\ [S2Next]_s2Vars => W
  BY MemoryAssumption, WritesStay
<1>3. MemoryInv /\ [S2Next]_s2Vars => [R /\ W]_s2Vars
  BY <1>1, <1>2
<1> QED
  BY <1>3, MemoryHolds, PTL DEF S2Spec, RestoreExact

-----------------------------------------------------------------------------
(* A trapped instruction: what a load leaves in its register.              *)

LEMMA IntQuotient ==
  ASSUME NEW n \in Int, NEW d \in Nat \ {0}
  PROVE  /\ n \div d \in Int /\ n % d \in 0..(d - 1)
         /\ n = d * (n \div d) + (n % d)
  OBVIOUS

LEMMA IntQuotientIs ==
  ASSUME NEW n \in Int, NEW d \in Nat \ {0}, NEW q \in Int, NEW r \in 0..(d - 1), n = d * q + r
  PROVE  n \div d = q /\ n % d = r
  OBVIOUS

LEMMA Multiple ==
  ASSUME NEW m \in Int, NEW n \in Int PROVE m * n \in Int
  OBVIOUS

LEMMA Distribute ==
  ASSUME NEW m \in Int, NEW a \in Int, NEW b \in Int PROVE m * (a + b) = m * a + m * b
  OBVIOUS

\* Adding the square of a width changes nothing below the width.
LEMMA LowerHalf ==
  ASSUME NEW m \in Nat \ {0}, NEW k \in Int
  PROVE  (k + m * m) % m = k % m
<1> DEFINE q == k \div m
           r == k % m
<1>1. q \in Int /\ r \in 0..(m - 1) /\ k = m * q + r
  BY IntQuotient
<1>2. m * q \in Int /\ m * m \in Int /\ m * (q + m) = m * q + m * m
  <2> HIDE DEF q
  <2> QED
    BY <1>1, Multiple, Distribute
<1> DEFINE p == q + m
           n == k + m * m
<1>3. p \in Int /\ n \in Int /\ n = m * p + r
  <2>1. p \in Int
    BY <1>1
  <2> HIDE DEF q, r
  <2> DEFINE x == m * m
             y == m * q
  <2>2. x \in Int /\ y \in Int /\ m * p = y + x /\ k = y + r /\ r \in Int
    BY <1>1, <1>2
  <2> HIDE DEF x, y, p
  <2>3. k + x = (y + x) + r
    BY <2>2
  <2> QED
    BY <2>1, <2>2, <2>3 DEF x
<1> HIDE DEF p, n, q
<1>4. n % m = r
  <2> HIDE DEF r
  <2> QED
    BY <1>1, <1>3, IntQuotientIs
<1> QED
  BY <1>4 DEF n

LEMMA Wraps ==
  ASSUME NEW m \in Nat \ {0}, NEW x \in 0..m-1
  PROVE  x % m = x /\ (x - m) % m = x
<1>1. x % m = x
  BY IntQuotientIs
<1>2. x - m \in Int /\ x - m = m * (-1) + x
  OBVIOUS
<1> QED
  BY <1>1, <1>2, IntQuotientIs

LEMMA LoadWidths ==
  ASSUME TrapAssumption, NEW n \in Sizes
  PROVE  /\ Bytes(n) \in Nat \ {0} /\ Bytes(8) \in Nat \ {0} /\ Bytes(4) \in Nat \ {0} /\ Bytes(n) <= Bytes(8)
         /\ (Bytes(n) \div 2) * 2 = Bytes(n) /\ Bytes(n) \div 2 \in Nat /\ Bytes(8) = Bytes(4) * Bytes(4)
<1>1. 8 \in Sizes /\ 4 \in Sizes
  BY DEF Sizes
<1>2. \A k \in Sizes : Bytes(k) \in Nat \ {0} /\ Bytes(k) % 2 = 0 /\ Bytes(k) <= Bytes(8)
  BY DEF TrapAssumption
<1>3. \A k \in Nat : k % 2 = 0 => (k \div 2) * 2 = k /\ k \div 2 \in Nat
  OBVIOUS
<1>4. Bytes(8) = Bytes(4) * Bytes(4)
  BY DEF TrapAssumption
<1> HIDE DEF Sizes
<1> QED
  BY <1>1, <1>2, <1>3, <1>4

\* extend_mmio_read leaves what the architecture says.
LEMMA LoadIsLoaded ==
  ASSUME TrapAssumption, NEW word \in Nat, NEW size \in Sizes, NEW sse \in BOOLEAN, NEW sf
  PROVE  extend_mmio_read(word, size, sse, sf) = Loaded(word, size, sse, sf)
<1> DEFINE B == Bytes(size)
           W == Bytes(8)
           m == Bytes(4)
           low == word % B
<1>1. B \in Nat \ {0} /\ W \in Nat \ {0} /\ m \in Nat \ {0} /\ B <= W /\ (B \div 2) * 2 = B /\ B \div 2 \in Nat /\ W = m * m
  BY LoadWidths
<1> HIDE DEF B, W, m
<1>2. low \in 0..(B - 1) /\ low \in Nat /\ low < W
  <2>0. word \in Int
    OBVIOUS
  <2>1. low \in 0..(B - 1)
    BY <1>1, <2>0, IntQuotient, Zenon
  <2> HIDE DEF low
  <2> QED
    BY <1>1, <2>1
<1> DEFINE half == B \div 2
<1>3. low >= half <=> 2 * low >= B
  <2> HIDE DEF low, half
  <2> QED
    BY <1>1, <1>2 DEF half
<1> HIDE DEF low, half
<1>4. (size = 8 => B = W) /\ size \in {1, 2, 4, 8}
  BY DEF B, W, Sizes
<1> DEFINE wide == IF sse /\ size < 8 /\ low >= half THEN low + W - B ELSE low
           number == IF sse /\ 2 * low >= B THEN low - B ELSE low
<1>5. extend_mmio_read(word, size, sse, sf) = IF sf THEN wide ELSE wide % m
  BY DEF extend_mmio_read, wide, low, half, B, W, m
<1>6. Loaded(word, size, sse, sf) = number % (IF sf THEN W ELSE m)
  BY DEF Loaded, number, low, B, W, m
<1>7. number % W = wide
  <2>1. CASE sse /\ 2 * low >= B /\ size < 8
    <3>1. number = low - B /\ wide = low + W - B
      BY <1>3, <2>1
    <3> DEFINE x == low + W - B
    <3>2. x \in 0..(W - 1) /\ number = x - W
      BY <1>1, <1>2, <3>1
    <3> HIDE DEF x
    <3>3. (x - W) % W = x
      BY <1>1, <3>2, Wraps
    <3> QED
      BY <3>1, <3>2, <3>3 DEF x
  <2>2. CASE sse /\ 2 * low >= B /\ ~(size < 8)
    <3>1. B = W /\ number = low - W /\ wide = low
      BY <1>3, <1>4, <2>2
    <3>2. low \in 0..(W - 1)
      BY <1>1, <1>2
    <3> QED
      BY <1>1, <3>1, <3>2, Wraps
  <2>3. CASE ~(sse /\ 2 * low >= B)
    <3>1. number = low /\ wide = low
      BY <1>3, <2>3
    <3>2. low \in 0..(W - 1)
      BY <1>1, <1>2
    <3> QED
      BY <1>1, <3>1, <3>2, Wraps
  <2> QED
    BY <2>1, <2>2, <2>3
<1>8. number % m = wide % m
  <2>1. CASE sse /\ 2 * low >= B
    <3> DEFINE k == low - B
    <3>1. number = k /\ k \in Int
      BY <1>1, <1>2, <2>1
    <3>2. CASE size < 8
      <4>1. wide = k + W
        BY <1>1, <1>2, <1>3, <2>1, <3>2
      <4> HIDE DEF k
      <4>2. wide = k + m * m
        BY <1>1, <4>1
      <4>3. (k + m * m) % m = k % m
        BY <1>1, <3>1, LowerHalf
      <4> QED
        BY <3>1, <4>2, <4>3
    <3>3. CASE ~(size < 8)
      <4>1. wide = k + W
        BY <1>1, <1>2, <1>3, <1>4, <2>1, <3>3
      <4> HIDE DEF k
      <4>2. wide = k + m * m
        BY <1>1, <4>1
      <4>3. (k + m * m) % m = k % m
        BY <1>1, <3>1, LowerHalf
      <4> QED
        BY <3>1, <4>2, <4>3
    <3> QED
      BY <3>2, <3>3
  <2>2. CASE ~(sse /\ 2 * low >= B)
    BY <1>3, <2>2
  <2> QED
    BY <2>1, <2>2
<1> QED
  BY <1>5, <1>6, <1>7, <1>8

\* The address the device sees is the one the access was for.
LEMMA AddressBack ==
  ASSUME TrapAssumption, NEW a \in Accesses
  PROVE  fault_ipa(a.ipa \div PageSize, a.va) = a.ipa
<1>1. PageSize \in Nat \ {0} /\ a.ipa \in Int /\ a.va % PageSize = a.ipa % PageSize
  BY DEF TrapAssumption
<1> DEFINE q == a.ipa \div PageSize
           r == a.ipa % PageSize
<1>2. q \in Int /\ r \in 0..(PageSize - 1) /\ a.ipa = PageSize * q + r
  BY <1>1, IntQuotient, Zenon
<1> HIDE DEF q, r
<1>3. PageSize * q = q * PageSize
  BY <1>1, <1>2
<1> QED
  BY <1>1, <1>2, <1>3 DEF fault_ipa, q, r

-----------------------------------------------------------------------------
(* The invariant, and the three ways a trap ends.                          *)

VcpuStates == {"running", "ready", "blocked", "off"}

TrapTyped ==
  /\ resident \in Vcpus
  /\ vstate \in [Vcpus -> VcpuStates]
  /\ ctx = [v \in Vcpus |-> ctx[v]]
  /\ owed = [v \in Vcpus |-> owed[v]]

TrapInv == TrapTyped /\ InstructionExact

\* What is owed after a step: o to the resident, as before to the others.
OwesNow(o) ==
  /\ owed' = [v \in Vcpus |-> owed'[v]]
  /\ \A v \in Vcpus : owed'[v] = IF v = resident THEN o ELSE owed[v]

LEMMA OwesIs ==
  ASSUME TrapInv, NEW o, Owes(o)
  PROVE  OwesNow(o)
  BY DEF TrapInv, TrapTyped, Owes, OwesNow

LEMMA StayingKeeps ==
  ASSUME TrapInv, NEW o, NEW f, OwesNow(o), Completed(o, f), Return(f)
  PROVE  TrapInv'
<1>1. TrapTyped'
  BY DEF TrapInv, TrapTyped, Return, OwesNow
<1>2. ASSUME NEW v \in Vcpus, vstate'[v] # "off" PROVE Completed(owed'[v], IF v = resident' THEN frame' ELSE ctx'[v])
  <2>1. CASE v = resident
    BY <2>1 DEF Return, OwesNow
  <2>2. CASE v # resident
    <3>1. Completed(owed[v], ctx[v])
      BY <1>2, <2>2 DEF TrapInv, InstructionExact, At, Return
    <3> QED
      BY <2>2, <3>1 DEF Return, OwesNow
  <2> QED
    BY <2>1, <2>2
<1> QED
  BY <1>1, <1>2 DEF TrapInv, InstructionExact, At

LEMMA GivingWayKeeps ==
  ASSUME TrapInv, NEW o, NEW f, OwesNow(o), NEW left \in VcpuStates, left = "off" \/ Completed(o, f),
         NEW next \in Vcpus, next # resident, vstate[next] # "off", SwitchTo(next, f, left)
  PROVE  TrapInv'
<1> DEFINE g == IF left = "off" THEN Fresh ELSE f
<1>1. /\ resident' = next /\ frame' = ctx[next]
      /\ vstate' \in [Vcpus -> VcpuStates] /\ ctx' = [v \in Vcpus |-> ctx'[v]]
      /\ vstate'[resident] = left /\ ctx'[resident] = g
      /\ \A v \in Vcpus \ {resident, next} : vstate'[v] = vstate[v] /\ ctx'[v] = ctx[v]
  BY DEF SwitchTo, TrapInv, TrapTyped, VcpuStates
<1> HIDE DEF g
<1>2. TrapTyped'
  BY <1>1 DEF TrapTyped, OwesNow
<1>3. ASSUME NEW v \in Vcpus, vstate'[v] # "off" PROVE Completed(owed'[v], IF v = resident' THEN frame' ELSE ctx'[v])
  <2>1. CASE v = resident
    BY <1>1, <1>3, <2>1 DEF OwesNow, g
  <2>2. CASE v = next
    <3>1. Completed(owed[next], ctx[next])
      BY DEF TrapInv, InstructionExact, At
    <3> QED
      BY <1>1, <2>2, <3>1 DEF OwesNow
  <2>3. CASE v \notin {resident, next}
    <3>1. Completed(owed[v], ctx[v])
      BY <1>1, <1>3, <2>3 DEF TrapInv, InstructionExact, At
    <3> QED
      BY <1>1, <2>3, <3>1 DEF OwesNow
  <2> QED
    BY <2>1, <2>2, <2>3
<1> QED
  BY <1>2, <1>3 DEF TrapInv, InstructionExact, At

LEMMA LeavingKeeps ==
  ASSUME TrapInv, vstate[resident] = "running", NEW o, NEW f, OwesNow(o), NEW left \in {"off", "blocked"}, left = "off" \/ Completed(o, f),
         LeaveCpu(f, left)
  PROVE  TrapInv'
<1>1. CASE Runnable = {}
  <2>1. /\ frame' = (IF left = "off" THEN frame ELSE f) /\ resident' = resident /\ ctx' = ctx
        /\ vstate' = [vstate EXCEPT ![resident] = left]
    BY <1>1 DEF LeaveCpu
  <2>2. vstate' \in [Vcpus -> VcpuStates] /\ vstate'[resident] = left /\ \A v \in Vcpus \ {resident} : vstate'[v] = vstate[v]
    BY <2>1 DEF TrapInv, TrapTyped, VcpuStates
  <2>3. TrapTyped'
    BY <2>1, <2>2 DEF TrapInv, TrapTyped, OwesNow
  <2>4. ASSUME NEW v \in Vcpus, vstate'[v] # "off" PROVE Completed(owed'[v], IF v = resident' THEN frame' ELSE ctx'[v])
    <3>1. CASE v = resident
      BY <2>1, <2>2, <2>4, <3>1 DEF OwesNow
    <3>2. CASE v # resident
      <4>1. Completed(owed[v], ctx[v])
        BY <2>2, <2>4, <3>2 DEF TrapInv, InstructionExact, At
      <4> QED
        BY <2>1, <3>2, <4>1 DEF OwesNow
    <3> QED
      BY <3>1, <3>2
  <2> QED
    BY <2>3, <2>4 DEF TrapInv, InstructionExact, At
<1>2. CASE Runnable # {}
  <2>1. PICK next \in Runnable : SwitchTo(next, f, left)
    BY <1>2 DEF LeaveCpu
  <2>2. next \in Vcpus /\ vstate[next] # "off" /\ next # resident /\ left \in VcpuStates
    BY DEF Runnable, VcpuStates
  <2> QED
    BY <2>1, <2>2, GivingWayKeeps
<1> QED
  BY <1>1, <1>2

LEMMA YieldingKeeps ==
  ASSUME TrapInv, vstate[resident] = "running", NEW o, NEW f, OwesNow(o), Completed(o, f), Yield(f)
  PROVE  TrapInv'
<1>1. CASE Runnable = {}
  BY <1>1, StayingKeeps DEF Yield
<1>2. CASE Runnable # {}
  <2>1. PICK next \in Runnable : SwitchTo(next, f, "ready")
    BY <1>2 DEF Yield
  <2>2. next \in Vcpus /\ vstate[next] # "off" /\ next # resident /\ "ready" \in VcpuStates
    BY DEF Runnable, VcpuStates
  <2> QED
    BY <2>1, <2>2, GivingWayKeeps
<1> QED
  BY <1>1, <1>2

LEMMA NothingOwed == \A f : Completed(Nothing, f)
  BY DEF Completed, Nothing

\* A reset leaves the vCPU off or fresh, or is refused.
LEMMA ResetKeeps ==
  ASSUME TrapInv, Executing, NEW refused, NEW ins, NEW at, NEW x,
         Completed(Issued(ins, at, x, <<>>), refused), ResetVm(refused, ins, at, x)
  PROVE  TrapInv'
<1>1. CASE Return(Fresh) /\ Owes(Nothing)
  BY <1>1, NothingOwed, OwesIs, StayingKeeps
<1>2. CASE LeaveCpu(frame, "off") /\ Owes(Nothing)
  BY <1>2, OwesIs, LeavingKeeps DEF Executing
<1>3. CASE Return(refused) /\ Owes(Issued(ins, at, x, <<>>))
  BY <1>3, OwesIs, StayingKeeps
<1> QED
  BY <1>1, <1>2, <1>3 DEF ResetVm

-----------------------------------------------------------------------------
(* HVC and SMC.                                                            *)

\* What the frame of a call is, and what the call is owed.
LEMMA CallShape ==
  ASSUME NEW conduit \in {"hvc", "smc"}, NEW fid, NEW arg, NEW at
  PROVE  LET f == CallFrame(conduit, fid, arg, at)
             o == Issued(CallIns(conduit, fid, arg), at, CallRegs(fid, arg), <<>>)
         IN /\ f = [elr |-> at + 1, x |-> CallRegs(fid, arg), pmr |-> frame.pmr]
            /\ o.ec = conduit /\ o.ins.fid = fid /\ o.at = at /\ o.x = CallRegs(fid, arg) /\ o.pmr = frame.pmr
  BY DEF CallFrame, Dispatched, elr_policy, Issued, CallIns

LEMMA AnswerShape ==
  ASSUME NEW elr, NEW fid, NEW arg, NEW pmr, NEW ans
  PROVE  LET g == With0([elr |-> elr, x |-> CallRegs(fid, arg), pmr |-> pmr], ans)
         IN g.elr = elr /\ g.pmr = pmr /\ g.x[0] = ans /\ \A r \in X \ {0} : g.x[r] = CallRegs(fid, arg)[r]
  BY DEF With0, CallRegs, X

\* A call is done when its frame is past it, with x1 to x3 as they were, and x0
\* is what its service says.
LEMMA CallDone ==
  ASSUME NEW conduit \in {"hvc", "smc"}, NEW fid, NEW arg, NEW at, NEW g,
         Service(fid) \in {Arch, Nova} \/ PsciInRange(fid),
         g.elr = at + 1, g.pmr = frame.pmr, \A r \in X \ {0} : g.x[r] = CallRegs(fid, arg)[r],
         fid \in {5000, 5001} => g.x[0] = fid,
         fid = 5003 \/ (PsciInRange(fid) /\ Function(fid) = 1) => g.x[0] = 0
  PROVE  Completed(Issued(CallIns(conduit, fid, arg), at, CallRegs(fid, arg), <<>>), g)
<1> DEFINE o == Issued(CallIns(conduit, fid, arg), at, CallRegs(fid, arg), <<>>)
<1>1. o.ec = conduit /\ o.ins.fid = fid /\ o.at = at /\ o.x = CallRegs(fid, arg) /\ o.pmr = frame.pmr
  BY CallShape
<1>2. CallRegs(fid, arg)[0] = fid /\ 0 \in X
  BY DEF CallRegs, X
<1> HIDE DEF o
<1>3. Kept(o, g)
  BY <1>1 DEF Kept
<1>4. Stepped(o, g, IF fid \in {5000, 5001} THEN {} ELSE {0})
  BY <1>1, <1>2 DEF Stepped
<1>5. CallCompleted(o, g)
  BY <1>1, <1>3, <1>4 DEF CallCompleted
<1>6. Completed(o, g)
  BY <1>1, <1>5 DEF Completed
<1> QED
  BY <1>6 DEF o

LEMMA CallAnswered ==
  ASSUME NEW conduit \in {"hvc", "smc"}, NEW fid, NEW arg, NEW at, NEW ans,
         Service(fid) \in {Arch, Nova} \/ PsciInRange(fid), fid \notin {5000, 5001},
         fid = 5003 \/ (PsciInRange(fid) /\ Function(fid) = 1) => ans = 0
  PROVE  Completed(Issued(CallIns(conduit, fid, arg), at, CallRegs(fid, arg), <<>>), With0(CallFrame(conduit, fid, arg, at), ans))
<1> DEFINE g == With0(CallFrame(conduit, fid, arg, at), ans)
<1>1. g.elr = at + 1 /\ g.pmr = frame.pmr /\ g.x[0] = ans /\ \A r \in X \ {0} : g.x[r] = CallRegs(fid, arg)[r]
  BY CallShape, AnswerShape
<1> HIDE DEF g
<1>2. Completed(Issued(CallIns(conduit, fid, arg), at, CallRegs(fid, arg), <<>>), g)
  BY <1>1, CallDone
<1> QED
  BY <1>2 DEF g

\* The same with x0 as it was.
LEMMA LeftAlone ==
  ASSUME NEW conduit \in {"hvc", "smc"}, NEW fid, NEW arg, NEW at,
         Service(fid) \in {Arch, Nova} \/ PsciInRange(fid), ~(fid = 5003 \/ (PsciInRange(fid) /\ Function(fid) = 1))
  PROVE  Completed(Issued(CallIns(conduit, fid, arg), at, CallRegs(fid, arg), <<>>), CallFrame(conduit, fid, arg, at))
<1> DEFINE g == CallFrame(conduit, fid, arg, at)
<1>1. g = [elr |-> at + 1, x |-> CallRegs(fid, arg), pmr |-> frame.pmr]
  BY CallShape
<1>2. g.elr = at + 1 /\ g.pmr = frame.pmr /\ g.x = CallRegs(fid, arg) /\ CallRegs(fid, arg)[0] = fid
  BY <1>1 DEF CallRegs, X
<1> HIDE DEF g
<1>3. Completed(Issued(CallIns(conduit, fid, arg), at, CallRegs(fid, arg), <<>>), g)
  BY <1>2, CallDone
<1> QED
  BY <1>3 DEF g

\* The numbers of the services.
LEMMA FunctionIds ==
  /\ Service(5000) = Nova /\ Service(5001) = Nova /\ Service(5003) = Nova
  /\ Function(5000) = 0 /\ Function(5001) = 1 /\ Function(5002) = 2 /\ Function(5003) = 3
  /\ \A fid : PsciInRange(fid) => Service(fid) \in {1, 2}
  /\ Arch = 3 /\ Nova = 5
  BY DEF Service, Function, Nova, PsciInRange, Std, Std64, Arch

LEMMA CallsKeep ==
  ASSUME TrapInv, NEW conduit \in {"hvc", "smc"}, NEW fid, NEW arg, NEW at
  PROVE  /\ SmcccCall(conduit, fid, arg, at) \/ PsciConstantCall(conduit, fid, arg, at) \/ CpuOn(conduit, fid, arg, at)
              \/ AffinityInfo(conduit, fid, arg, at) \/ CpuSuspend(conduit, fid, arg, at) => TrapInv'
         /\ NovaYield(conduit, fid, arg, at) \/ NovaCall(conduit, fid, arg, at) \/ UnknownCall(conduit, fid, arg, at) => TrapInv'
         /\ SystemOff(conduit, fid, arg, at) \/ SystemReset(conduit, fid, arg, at) \/ CpuOff(conduit, fid, arg, at)
              \/ NovaExit(conduit, fid, arg, at) => TrapInv'
<1> DEFINE o == Issued(CallIns(conduit, fid, arg), at, CallRegs(fid, arg), <<>>)
           f == CallFrame(conduit, fid, arg, at)
<1>1. Call(conduit, fid, arg, at) => OwesNow(o) /\ vstate[resident] = "running"
  BY OwesIs DEF Call, Executing
<1>2. ASSUME SmcccCall(conduit, fid, arg, at) PROVE TrapInv'
  <2> DEFINE ans == SmcccAnswer(fid, arg)
  <2>1. Service(fid) = Arch /\ OwesNow(o) /\ Return(With0(f, ans))
    BY <1>1, <1>2 DEF SmcccCall
  <2>2. Completed(o, With0(f, ans))
    BY <2>1, CallAnswered, FunctionIds
  <2> QED
    BY <2>1, <2>2, StayingKeeps
<1>3. ASSUME PsciConstantCall(conduit, fid, arg, at) PROVE TrapInv'
  <2> DEFINE ans == PsciAnswer(fid, arg)
  <2>1. PsciInRange(fid) /\ Function(fid) # 1 /\ OwesNow(o) /\ Return(With0(f, ans))
    BY <1>1, <1>3 DEF PsciConstantCall, PsciConstant
  <2>2. Completed(o, With0(f, ans))
    BY <2>1, CallAnswered, FunctionIds
  <2> QED
    BY <2>1, <2>2, StayingKeeps
<1>4. ASSUME CpuOn(conduit, fid, arg, at) PROVE TrapInv'
  <2>1. PICK ans : PsciInRange(fid) /\ Function(fid) = 3 /\ OwesNow(o) /\ Return(With0(f, ans))
    BY <1>1, <1>4 DEF CpuOn
  <2>2. Completed(o, With0(f, ans))
    BY <2>1, CallAnswered, FunctionIds
  <2> QED
    BY <2>1, <2>2, StayingKeeps
<1>5. ASSUME AffinityInfo(conduit, fid, arg, at) PROVE TrapInv'
  <2>1. PICK ans : PsciInRange(fid) /\ Function(fid) = 4 /\ OwesNow(o) /\ Return(With0(f, ans))
    BY <1>1, <1>5 DEF AffinityInfo
  <2>2. Completed(o, With0(f, ans))
    BY <2>1, CallAnswered, FunctionIds
  <2> QED
    BY <2>1, <2>2, StayingKeeps
<1>6. ASSUME CpuSuspend(conduit, fid, arg, at) PROVE TrapInv'
  <2>1. PsciInRange(fid) /\ OwesNow(o) /\ vstate[resident] = "running" /\ (Return(With0(f, Success)) \/ LeaveCpu(With0(f, Success), "blocked"))
    BY <1>1, <1>6 DEF CpuSuspend
  <2>2. Completed(o, With0(f, Success))
    BY <2>1, CallAnswered, FunctionIds DEF Success
  <2> QED
    BY <2>1, <2>2, StayingKeeps, LeavingKeeps
<1>7. ASSUME NovaYield(conduit, fid, arg, at) PROVE TrapInv'
  <2>1. fid = 5003 /\ OwesNow(o) /\ vstate[resident] = "running" /\ Yield(With0(f, 0))
    BY <1>1, <1>7 DEF NovaYield, YieldAnswered
  <2>2. Completed(o, With0(f, 0))
    BY <2>1, CallAnswered, FunctionIds
  <2> QED
    BY <2>1, <2>2, YieldingKeeps
<1>8. ASSUME NovaCall(conduit, fid, arg, at) PROVE TrapInv'
  <2>1. Service(fid) = Nova /\ Function(fid) \notin {2, 3} /\ OwesNow(o)
    BY <1>1, <1>8 DEF NovaCall
  <2>2. CASE Function(fid) \in {0, 1}
    <3>1. Return(f)
      BY <1>8, <2>2 DEF NovaCall
    <3>2. Completed(o, f)
      BY <2>1, LeftAlone, FunctionIds
    <3> QED
      BY <2>1, <3>1, <3>2, StayingKeeps
  <2>3. CASE Function(fid) \notin {0, 1}
    <3>1. PICK ans : Return(With0(f, ans))
      BY <1>8, <2>3 DEF NovaCall
    <3>2. Completed(o, With0(f, ans))
      BY <2>1, <2>3, CallAnswered, FunctionIds
    <3> QED
      BY <2>1, <3>1, <3>2, StayingKeeps
  <2> QED
    BY <2>2, <2>3
<1>9. ASSUME UnknownCall(conduit, fid, arg, at) PROVE TrapInv'
  <2> DEFINE g == [f EXCEPT !.x = [r \in X |-> IF r = 0 THEN NotSupported ELSE 0]]
  <2>1. Service(fid) \notin {Arch, Nova} /\ ~PsciInRange(fid) /\ OwesNow(o) /\ Return(g)
    BY <1>1, <1>9 DEF UnknownCall
  <2>2. g = [elr |-> at + 1, x |-> [r \in X |-> IF r = 0 THEN NotSupported ELSE 0], pmr |-> frame.pmr]
    BY CallShape
  <2>3. o.ec = conduit /\ o.ins.fid = fid /\ o.at = at /\ o.pmr = frame.pmr
    BY CallShape
  <2>4. g.elr = at + 1 /\ g.pmr = frame.pmr /\ g.x[0] = NotSupported /\ \A r \in X \ {0} : g.x[r] = 0
    BY <2>2 DEF X
  <2> HIDE DEF o, g
  <2>5. Completed(o, g)
    <3>1. CallCompleted(o, g)
      BY <2>1, <2>3, <2>4, FunctionIds DEF CallCompleted, Kept
    <3> QED
      BY <2>3, <3>1 DEF Completed
  <2> QED
    BY <2>1, <2>5, StayingKeeps
<1>10. ASSUME SystemOff(conduit, fid, arg, at) PROVE TrapInv'
  <2>1. PsciInRange(fid) /\ Function(fid) = 8 /\ vstate[resident] = "running"
        /\ ((LeaveCpu(f, "off") /\ Owes(Nothing)) \/ (Return(f) /\ Owes(o)))
    BY <1>10 DEF SystemOff, Executing
  <2>2. Completed(o, f)
    BY <2>1, LeftAlone, FunctionIds
  <2> QED
    BY <2>1, <2>2, StayingKeeps, LeavingKeeps, OwesIs
<1>11. ASSUME SystemReset(conduit, fid, arg, at) PROVE TrapInv'
  <2>1. PsciInRange(fid) /\ Function(fid) = 9 /\ Executing
        /\ ResetVm(With0(f, InternalFailure), CallIns(conduit, fid, arg), at, CallRegs(fid, arg))
    BY <1>11 DEF SystemReset
  <2>2. Completed(o, With0(f, InternalFailure))
    BY <2>1, CallAnswered, FunctionIds
  <2> QED
    BY <2>1, <2>2, ResetKeeps
<1>12. ASSUME CpuOff(conduit, fid, arg, at) PROVE TrapInv'
  <2>1. vstate[resident] = "running" /\ LeaveCpu(f, "off") /\ Owes(Nothing)
    BY <1>12 DEF CpuOff, Executing
  <2> QED
    BY <2>1, LeavingKeeps, OwesIs
<1>13. ASSUME NovaExit(conduit, fid, arg, at) PROVE TrapInv'
  <2>1. fid = 5002 /\ vstate[resident] = "running" /\ ((LeaveCpu(f, "off") /\ Owes(Nothing)) \/ (Return(f) /\ Owes(o)))
    BY <1>13 DEF NovaExit, Executing
  <2>2. Service(fid) = Nova
    BY <2>1 DEF Service, Nova
  <2>3. Completed(o, f)
    BY <2>1, <2>2, LeftAlone, FunctionIds
  <2> QED
    BY <2>1, <2>3, StayingKeeps, LeavingKeeps, OwesIs
<1> QED
  BY <1>2, <1>3, <1>4, <1>5, <1>6, <1>7, <1>8, <1>9, <1>10, <1>11, <1>12, <1>13

-----------------------------------------------------------------------------
(* The other classes.                                                      *)

LEMMA FrameOf ==
  ASSUME NEW ec \in {"wfx", "fp", "msr", "dabt", "other"}, NEW at, NEW x
  PROVE  Dispatched(ec, at, x) = [elr |-> IF ec = "wfx" THEN at + 1 ELSE at, x |-> x, pmr |-> frame.pmr]
  BY DEF Dispatched, elr_policy

LEMMA WfxKeeps ==
  ASSUME TrapInv, NEW isWfe, NEW x, NEW at, Wfx(isWfe, x, at)
  PROVE  TrapInv'
<1> DEFINE o == Issued([ec |-> "wfx"], at, x, <<>>)
           f == Dispatched("wfx", at, x)
<1>1. OwesNow(o) /\ vstate[resident] = "running" /\ (Yield(f) \/ Return(f) \/ LeaveCpu(f, "blocked"))
  BY OwesIs DEF Wfx, Executing
<1>2. Completed(o, f)
  <2>1. f = [elr |-> at + 1, x |-> x, pmr |-> frame.pmr]
    BY FrameOf
  <2>2. o.ec = "wfx" /\ o.at = at /\ o.x = x /\ o.pmr = frame.pmr
    BY DEF Issued
  <2> HIDE DEF o, f
  <2> QED
    BY <2>1, <2>2 DEF Completed, Kept, Stepped
<1> QED
  BY <1>1, <1>2, YieldingKeeps, StayingKeeps, LeavingKeeps

\* What is tried again has changed nothing.
LEMMA TriedAgain ==
  ASSUME NEW o, NEW f, f.elr = o.at, f.x = o.x, f.pmr = o.pmr, o.ec \in {"fp", "irq", "other"}
  PROVE  Completed(o, f)
  BY DEF Completed, Kept, Again

LEMMA FpKeeps ==
  ASSUME TrapInv, NEW x, NEW at, FpSimd(x, at)
  PROVE  TrapInv'
<1> DEFINE o == Issued([ec |-> "fp"], at, x, <<>>)
           f == Dispatched("fp", at, x)
<1>1. OwesNow(o) /\ Return(f)
  BY OwesIs DEF FpSimd
<1>2. f.elr = o.at /\ f.x = o.x /\ f.pmr = o.pmr /\ o.ec = "fp"
  BY FrameOf DEF Issued
<1> HIDE DEF o, f
<1> QED
  BY <1>1, <1>2, TriedAgain, StayingKeeps

LEMMA PreemptKeeps ==
  ASSUME TrapInv, NEW x, NEW at, Preempt(x, at)
  PROVE  TrapInv'
<1> DEFINE o == Issued([ec |-> "irq"], at, x, <<>>)
           f == [elr |-> at, x |-> x, pmr |-> frame.pmr]
<1>1. OwesNow(o) /\ vstate[resident] = "running" /\ Yield(f)
  BY OwesIs DEF Preempt, Executing
<1>2. f.elr = o.at /\ f.x = o.x /\ f.pmr = o.pmr /\ o.ec = "irq"
  BY DEF Issued
<1> HIDE DEF o, f
<1> QED
  BY <1>1, <1>2, TriedAgain, YieldingKeeps

LEMMA FaultKeeps ==
  ASSUME TrapInv, NEW x, NEW at, NEW ins, GuestFault(ins, x, at), ins.ec \in {"msr", "dabt", "other"},
         ins.ec = "msr" => ~ClaimedReg(ins.reg, ins.write),
         ins.ec = "dabt" => LET a == ins.a IN ~(a.isv /\ ~a.s1ptw /\ a.dfsc = "translation" /\ a.ipa \div PageSize \in DevicePages)
  PROVE  TrapInv'
<1> DEFINE o == Issued(ins, at, x, <<>>)
           f == Dispatched(ins.ec, at, x)
<1>1. Executing /\ ResetVm(f, ins, at, x)
  BY DEF GuestFault
<1>2. f.elr = o.at /\ f.x = o.x /\ f.pmr = o.pmr /\ o.ec = ins.ec /\ o.ins = ins /\ o.bus = <<>>
  BY FrameOf DEF Issued
<1>3. Completed(o, f)
  <2> HIDE DEF o, f
  <2> QED
    BY <1>2 DEF Completed, Kept, Again, SysregCompleted, AccessCompleted
<1> QED
  BY <1>1, <1>3, ResetKeeps

\* A register written and the frame moved on.
LEMMA PutIs ==
  ASSUME NEW at, NEW x, NEW pmr, NEW r \in X, NEW value, x = [q \in X |-> x[q]]
  PROVE  LET g == [[elr |-> at, x |-> x, pmr |-> pmr] EXCEPT !.x[r] = value]
             h == [g EXCEPT !.elr = @ + 1]
         IN h.elr = at + 1 /\ h.pmr = pmr /\ h.x[r] = value /\ \A q \in X \ {r} : h.x[q] = x[q]
  OBVIOUS

LEMMA MovedOn ==
  ASSUME NEW at, NEW x, NEW pmr
  PROVE  LET h == [[elr |-> at, x |-> x, pmr |-> pmr] EXCEPT !.elr = @ + 1]
         IN h.elr = at + 1 /\ h.pmr = pmr /\ h.x = x
  OBVIOUS

LEMMA SysregKeeps ==
  ASSUME TrapInv, NEW reg \in Sysregs, NEW write \in BOOLEAN, NEW rt \in {0, kSrtZeroReg}, NEW x \in DataFiles, NEW at,
         SysregEmulated(reg, write, rt, x, at)
  PROVE  TrapInv'
<1> DEFINE ins == [ec |-> "msr", reg |-> reg, write |-> write, rt |-> rt]
           o == Issued(ins, at, x, <<>>)
           f == Dispatched("msr", at, x)
           put(value) == IF write \/ rt = kSrtZeroReg THEN f ELSE [f EXCEPT !.x[rt] = value]
           done == CASE reg = "cntp" -> put(0)
                     [] reg = "ctlr" -> put(CtlrView)
                     [] reg = "rpr" -> put(255)
                     [] reg = "pmr" -> IF write THEN [f EXCEPT !.pmr = (IF rt = kSrtZeroReg THEN 0 ELSE x[rt]) % 256]
                                       ELSE put(f.pmr)
                     [] OTHER -> f
           g == [done EXCEPT !.elr = @ + 1]
<1>1. Return(g) /\ Owes(o) /\ ClaimedReg(reg, write)
  BY DEF SysregEmulated
<1>2. f = [elr |-> at, x |-> x, pmr |-> frame.pmr]
  BY FrameOf
<1>3. x = [r \in X |-> x[r]] /\ kSrtZeroReg \notin X /\ 0 \in X
  BY DEF DataFiles, X, kSrtZeroReg
<1>4. o.ec = "msr" /\ o.ins.reg = reg /\ o.ins.write = write /\ o.ins.rt = rt /\ o.at = at /\ o.x = x /\ o.pmr = frame.pmr
  BY DEF Issued
<1> HIDE DEF o
<1>5. Completed(o, g)
  <2>1. CASE reg = "pmr" /\ write
    <3> DEFINE value == (IF rt = kSrtZeroReg THEN 0 ELSE x[rt]) % 256
    <3>1. done = [elr |-> at, x |-> x, pmr |-> value]
      BY <1>2, <2>1
    <3> HIDE DEF done, value
    <3>2. g.elr = at + 1 /\ g.pmr = value /\ g.x = x
      BY <3>1
    <3> HIDE DEF g
    <3>3. SysregCompleted(o, g)
      BY <1>1, <1>4, <2>1, <3>2 DEF SysregCompleted, Stepped, value
    <3> QED
      BY <1>4, <3>3 DEF Completed
  <2>2. CASE ~(reg = "pmr" /\ write) /\ (write \/ rt = kSrtZeroReg)
    <3>1. done = f
      BY <2>2
    <3> HIDE DEF done
    <3>2. g.elr = at + 1 /\ g.pmr = frame.pmr /\ g.x = x
      BY <1>2, <3>1
    <3> HIDE DEF g
    <3>3. SysregCompleted(o, g)
      BY <1>1, <1>4, <2>2, <3>2 DEF SysregCompleted, Stepped, Kept
    <3> QED
      BY <1>4, <3>3 DEF Completed
  <2>3. CASE ~write /\ rt # kSrtZeroReg
    <3>1. rt = 0 /\ rt \in X
      BY <1>3, <2>3
    <3>2. CASE reg \notin {"cntp", "ctlr", "rpr", "pmr"}
      <4>1. done = f
        BY <3>2
      <4> HIDE DEF done
      <4>2. g.elr = at + 1 /\ g.pmr = frame.pmr /\ g.x = x
        BY <1>2, <4>1
      <4> HIDE DEF g
      <4>3. SysregCompleted(o, g)
        BY <1>1, <1>4, <2>3, <3>2, <4>2 DEF SysregCompleted, Stepped, Kept
      <4> QED
        BY <1>4, <4>3 DEF Completed
    <3>3. CASE reg \in {"cntp", "ctlr", "rpr", "pmr"}
      <4> DEFINE value == CASE reg = "cntp" -> 0 [] reg = "ctlr" -> CtlrView [] reg = "rpr" -> 255 [] reg = "pmr" -> frame.pmr
      <4>1. done = [f EXCEPT !.x[rt] = value]
        <5>1. f.pmr = frame.pmr
          BY <1>2
        <5> HIDE DEF f
        <5> QED
          BY <2>3, <3>3, <5>1
      <4>2. reg = "pmr" => value = frame.pmr
        OBVIOUS
      <4> HIDE DEF done, value, f
      <4>3. g.elr = at + 1 /\ g.pmr = frame.pmr /\ g.x[rt] = value /\ \A q \in X \ {rt} : g.x[q] = x[q]
        BY <1>2, <1>3, <3>1, <4>1, PutIs
      <4> HIDE DEF g
      <4>4. SysregCompleted(o, g)
        BY <1>1, <1>4, <2>3, <4>2, <4>3 DEF SysregCompleted, Stepped, Kept
      <4> QED
        BY <1>4, <4>4 DEF Completed
    <3> QED
      BY <3>2, <3>3
  <2> QED
    BY <2>1, <2>2, <2>3
<1> QED
  BY <1>1, <1>5, OwesIs, StayingKeeps

\* A load or a store of a device.
LEMMA DeviceSees ==
  ASSUME TrapAssumption, NEW a \in Accesses, NEW x
  PROVE  MmioCall(a, x) = [ipa |-> a.ipa, size |-> a.size, write |-> a.write,
                           value |-> IF a.write /\ a.srt # kSrtZeroReg THEN x[a.srt] % Bytes(a.size) ELSE 0]
<1>1. extend_mmio_read(x[a.srt], a.size, FALSE, TRUE) = x[a.srt] % Bytes(a.size)
  BY DEF extend_mmio_read
<1> QED
  BY <1>1, AddressBack DEF MmioCall, Transfer

LEMMA AccessKeeps ==
  ASSUME TrapAssumption, TrapInv, NEW a \in Accesses, NEW x \in DataFiles, NEW at, DataAbort(a, x, at)
  PROVE  TrapInv'
<1> DEFINE f == Dispatched("dabt", at, x)
           done(word) == IF ~a.write /\ a.srt # kSrtZeroReg
                         THEN [f EXCEPT !.x[a.srt] = extend_mmio_read(word, a.size, a.sse, a.sf)] ELSE f
           o(word) == Issued([ec |-> "dabt", a |-> a, word |-> word], at, x, <<MmioCall(a, x)>>)
<1>1. PICK word \in (IF a.write THEN {0} ELSE DeviceWords) : Return([done(word) EXCEPT !.elr = @ + 1]) /\ Owes(o(word))
  BY DEF DataAbort
<1>2. Emulatable(a) /\ a.ipa \div PageSize \in DevicePages
  BY AddressBack DEF DataAbort, MmioCall
<1>3. word \in Nat /\ a.size \in Sizes /\ a.sse \in BOOLEAN
  BY DEF TrapAssumption
<1>4. f = [elr |-> at, x |-> x, pmr |-> frame.pmr]
  BY FrameOf
<1>5. x = [r \in X |-> x[r]]
  BY DEF DataFiles
<1> DEFINE p == o(word)
           d == done(word)
           g == [d EXCEPT !.elr = @ + 1]
<1>6. /\ p.ec = "dabt" /\ p.ins.a = a /\ p.ins.word = word /\ p.at = at /\ p.x = x /\ p.pmr = frame.pmr
      /\ p.bus = <<MmioCall(a, x)>>
  BY DEF Issued
<1> DEFINE load == ~a.write /\ a.srt # kSrtZeroReg
           value == extend_mmio_read(word, a.size, a.sse, a.sf)
<1>7. load => value = Loaded(word, a.size, a.sse, a.sf)
  BY <1>3, LoadIsLoaded
<1>8. d = IF load THEN [f EXCEPT !.x[a.srt] = value] ELSE f
  OBVIOUS
<1> HIDE DEF p, d, f, value, o, done
<1>9. /\ g.elr = at + 1 /\ g.pmr = frame.pmr
      /\ load => g.x[a.srt] = value /\ \A q \in X \ {a.srt} : g.x[q] = x[q]
      /\ ~load => g.x = x
  <2>1. CASE load
    <3>1. a.srt \in X
      BY <2>1 DEF TrapAssumption
    <3> QED
      BY <1>4, <1>5, <1>8, <2>1, <3>1, PutIs
  <2>2. CASE ~load
    BY <1>4, <1>8, <2>2
  <2> QED
    BY <2>1, <2>2
<1> HIDE DEF g
<1>10. AccessCompleted(p, g)
  <2>1. a.isv /\ ~a.s1ptw /\ a.dfsc = "translation" /\ a.ipa \div PageSize \in DevicePages
    BY <1>2 DEF Emulatable
  <2>2. p.bus = <<[ipa |-> a.ipa, size |-> a.size, write |-> a.write,
                   value |-> IF a.write /\ a.srt # kSrtZeroReg THEN p.x[a.srt] % Bytes(a.size) ELSE 0]>>
    BY <1>6, DeviceSees
  <2>3. Stepped(p, g, IF a.write THEN {} ELSE {a.srt})
    BY <1>6, <1>9 DEF Stepped
  <2> QED
    BY <1>6, <1>7, <1>9, <2>1, <2>2, <2>3 DEF AccessCompleted, Kept
<1>11. Completed(p, g)
  BY <1>6, <1>10 DEF Completed
<1>12. Return(g) /\ Owes(p)
  BY <1>1 DEF g, d, p
<1> QED
  BY <1>11, <1>12, OwesIs, StayingKeeps

LEMMA OtherStepsKeep ==
  ASSUME TrapInv
  PROVE  /\ GuestRuns => TrapInv'
         /\ \A v \in Vcpus : Wake(v) \/ Start(v) => TrapInv'
<1> DEFINE mine == owed[resident]
<1>1. ASSUME GuestRuns PROVE TrapInv'
  <2>1. OwesNow(Nothing)
    BY <1>1, OwesIs DEF GuestRuns
  <2>2. Return(frame')
    BY <1>1 DEF GuestRuns, Return
  <2> QED
    BY <2>1, <2>2, NothingOwed, StayingKeeps
<1>2. ASSUME NEW v \in Vcpus, Wake(v) PROVE TrapInv'
  <2>0. resident \in Vcpus /\ vstate[resident] \in VcpuStates
    BY DEF TrapInv, TrapTyped
  <2>1. OwesNow(mine) /\ vstate[v] = "blocked"
    BY <1>2 DEF Wake, OwesNow, TrapInv, TrapTyped
  <2>2. vstate[resident] = "off" \/ Completed(mine, frame)
    BY <2>0 DEF TrapInv, InstructionExact, At
  <2>3. CASE vstate[resident] = "running" \/ v = resident
    <3>1. UNCHANGED <<resident, frame, ctx>> /\ \E s \in {"ready", "running"} : vstate' = [vstate EXCEPT ![v] = s]
      BY <1>2, <2>1, <2>3 DEF Wake
    <3>2. vstate' \in [Vcpus -> VcpuStates] /\ \A u \in Vcpus : vstate'[u] # "off" => vstate[u] # "off"
      BY <2>1, <3>1 DEF TrapInv, TrapTyped, VcpuStates
    <3> QED
      BY <2>1, <3>1, <3>2 DEF TrapInv, TrapTyped, InstructionExact, At, OwesNow
  <2>4. CASE vstate[resident] # "running" /\ v # resident
    <3>1. SwitchTo(v, frame, vstate[resident])
      BY <1>2, <2>4 DEF Wake
    <3> QED
      BY <2>0, <2>1, <2>2, <2>4, <3>1, GivingWayKeeps
  <2> QED
    BY <2>3, <2>4
<1>3. ASSUME NEW v \in Vcpus, Start(v) PROVE TrapInv'
  <2>1. vstate[v] = "off" /\ owed' = [owed EXCEPT ![v] = Nothing]
    BY <1>3 DEF Start
  <2>2. owed' = [u \in Vcpus |-> owed'[u]] /\ owed'[v] = Nothing /\ \A u \in Vcpus \ {v} : owed'[u] = owed[u]
    BY <2>1 DEF TrapInv, TrapTyped
  <2>3. CASE vstate[resident] = "running"
    <3>1. vstate' = [vstate EXCEPT ![v] = "ready"] /\ ctx' = [ctx EXCEPT ![v] = Fresh] /\ UNCHANGED <<resident, frame>> /\ v # resident
      BY <1>3, <2>1, <2>3 DEF Start
    <3>2. /\ vstate' \in [Vcpus -> VcpuStates] /\ ctx' = [u \in Vcpus |-> ctx'[u]]
          /\ \A u \in Vcpus \ {v} : vstate'[u] = vstate[u] /\ ctx'[u] = ctx[u]
      BY <3>1 DEF TrapInv, TrapTyped, VcpuStates
    <3>3. ASSUME NEW u \in Vcpus, vstate'[u] # "off" PROVE Completed(owed'[u], IF u = resident' THEN frame' ELSE ctx'[u])
      <4>1. CASE u = v
        BY <2>2, <4>1, NothingOwed
      <4>2. CASE u # v
        <5>1. Completed(owed[u], IF u = resident THEN frame ELSE ctx[u])
          BY <3>2, <3>3, <4>2 DEF TrapInv, InstructionExact, At
        <5> QED
          BY <2>2, <3>1, <3>2, <4>2, <5>1
      <4> QED
        BY <4>1, <4>2
    <3> QED
      BY <2>2, <3>1, <3>2, <3>3 DEF TrapInv, TrapTyped, InstructionExact, At
  <2>4. CASE vstate[resident] # "running"
    <3>1. vstate' = [vstate EXCEPT ![v] = "running"] /\ resident' = v /\ frame' = Fresh
          /\ ctx' = [ctx EXCEPT ![resident] = IF resident = v \/ vstate[resident] = "off" THEN Fresh ELSE frame]
      BY <1>3, <2>4 DEF Start
    <3>2. /\ vstate' \in [Vcpus -> VcpuStates] /\ ctx' = [u \in Vcpus |-> ctx'[u]] /\ resident \in Vcpus
          /\ \A u \in Vcpus \ {v} : vstate'[u] = vstate[u]
          /\ \A u \in Vcpus \ {resident} : ctx'[u] = ctx[u]
          /\ ctx'[resident] = IF resident = v \/ vstate[resident] = "off" THEN Fresh ELSE frame
      BY <3>1 DEF TrapInv, TrapTyped, VcpuStates
    <3>3. ASSUME NEW u \in Vcpus, vstate'[u] # "off" PROVE Completed(owed'[u], IF u = resident' THEN frame' ELSE ctx'[u])
      <4>1. CASE u = v
        BY <2>2, <4>1, NothingOwed
      <4>2. CASE u # v
        <5>1. vstate[u] # "off" /\ Completed(owed[u], IF u = resident THEN frame ELSE ctx[u])
          BY <3>2, <3>3, <4>2 DEF TrapInv, InstructionExact, At
        <5>2. ctx'[u] = IF u = resident THEN frame ELSE ctx[u]
          BY <3>2, <4>2, <5>1
        <5> QED
          BY <2>2, <3>1, <4>2, <5>1, <5>2
      <4> QED
        BY <4>1, <4>2
    <3> QED
      BY <2>2, <3>1, <3>2, <3>3 DEF TrapInv, TrapTyped, InstructionExact, At
  <2> QED
    BY <2>3, <2>4
<1> QED
  BY <1>1, <1>2, <1>3

LEMMA TrapStarts ==
  ASSUME TrapAssumption, TrapInit PROVE TrapInv
<1>1. resident \in Vcpus
  BY DEF TrapInit, TrapAssumption
<1>2. TrapTyped
  BY <1>1 DEF TrapInit, TrapTyped, VcpuStates
<1> QED
  BY <1>2, NothingOwed DEF TrapInit, TrapInv, InstructionExact

LEMMA TrapStep ==
  ASSUME TrapAssumption, TrapInv, [TrapNext]_trapVars PROVE TrapInv'
<1>1. ASSUME NEW conduit \in {"hvc", "smc"}, NEW fid \in Calls, NEW at \in Places, NEW arg,
             \/ SmcccCall(conduit, fid, arg, at) \/ PsciConstantCall(conduit, fid, arg, at)
             \/ SystemOff(conduit, fid, arg, at) \/ SystemReset(conduit, fid, arg, at)
             \/ CpuOn(conduit, fid, arg, at) \/ CpuOff(conduit, fid, arg, at)
             \/ CpuSuspend(conduit, fid, arg, at) \/ AffinityInfo(conduit, fid, arg, at)
             \/ NovaYield(conduit, fid, arg, at) \/ NovaExit(conduit, fid, arg, at)
             \/ NovaCall(conduit, fid, arg, at) \/ UnknownCall(conduit, fid, arg, at)
      PROVE  TrapInv'
  BY <1>1, CallsKeep
<1>2. ASSUME NEW x \in DataFiles, NEW at \in Places, NEW isWfe \in BOOLEAN,
             Wfx(isWfe, x, at) \/ FpSimd(x, at) \/ OtherException(x, at) \/ Preempt(x, at)
      PROVE  TrapInv'
  <2>1. ASSUME OtherException(x, at) PROVE TrapInv'
    BY <2>1, FaultKeeps DEF OtherException
  <2> QED
    BY <1>2, <2>1, WfxKeeps, FpKeeps, PreemptKeeps
<1>3. ASSUME NEW x \in DataFiles, NEW at \in Places, NEW reg \in Sysregs, NEW write \in BOOLEAN, NEW rt \in {0, kSrtZeroReg},
             SysregEmulated(reg, write, rt, x, at) \/ SysregUnclaimed(reg, write, rt, x, at)
      PROVE  TrapInv'
  <2>1. ASSUME SysregUnclaimed(reg, write, rt, x, at) PROVE TrapInv'
    <3> DEFINE ins == [ec |-> "msr", reg |-> reg, write |-> write, rt |-> rt]
    <3>1. GuestFault(ins, x, at) /\ ins.ec = "msr" /\ ~ClaimedReg(ins.reg, ins.write)
      BY <2>1 DEF SysregUnclaimed
    <3> HIDE DEF ins
    <3> QED
      BY <3>1, FaultKeeps
  <2> QED
    BY <1>3, <2>1, SysregKeeps
<1>4. ASSUME NEW x \in DataFiles, NEW at \in Places, NEW a \in Accesses, DataAbort(a, x, at) \/ DataAbortFaults(a, x, at)
      PROVE  TrapInv'
  <2>1. ASSUME DataAbortFaults(a, x, at) PROVE TrapInv'
    <3> DEFINE ins == [ec |-> "dabt", a |-> a, word |-> 0]
    <3>1. GuestFault(ins, x, at) /\ ins.ec = "dabt" /\ ins.a = a
      BY <2>1 DEF DataAbortFaults
    <3>2. ~(a.isv /\ ~a.s1ptw /\ a.dfsc = "translation" /\ a.ipa \div PageSize \in DevicePages)
      BY <2>1, AddressBack DEF DataAbortFaults, Emulatable, MmioCall
    <3> HIDE DEF ins
    <3> QED
      BY <3>1, <3>2, FaultKeeps
  <2> QED
    BY <1>4, <2>1, AccessKeeps
<1>5. ASSUME UNCHANGED trapVars PROVE TrapInv'
  BY <1>5 DEF trapVars, TrapInv, TrapTyped, InstructionExact, At
<1>6. CASE \E conduit \in {"hvc", "smc"}, fid \in Calls, at \in Places : \E arg \in (IF TakesArg(fid) THEN Args ELSE {0}) :
             \/ SmcccCall(conduit, fid, arg, at) \/ PsciConstantCall(conduit, fid, arg, at)
             \/ SystemOff(conduit, fid, arg, at) \/ SystemReset(conduit, fid, arg, at)
             \/ CpuOn(conduit, fid, arg, at) \/ CpuOff(conduit, fid, arg, at)
             \/ CpuSuspend(conduit, fid, arg, at) \/ AffinityInfo(conduit, fid, arg, at)
             \/ NovaYield(conduit, fid, arg, at) \/ NovaExit(conduit, fid, arg, at)
             \/ NovaCall(conduit, fid, arg, at) \/ UnknownCall(conduit, fid, arg, at)
  <2>1. PICK conduit \in {"hvc", "smc"}, fid \in Calls, at \in Places, arg \in Args \cup {0} :
             \/ SmcccCall(conduit, fid, arg, at) \/ PsciConstantCall(conduit, fid, arg, at)
             \/ SystemOff(conduit, fid, arg, at) \/ SystemReset(conduit, fid, arg, at)
             \/ CpuOn(conduit, fid, arg, at) \/ CpuOff(conduit, fid, arg, at)
             \/ CpuSuspend(conduit, fid, arg, at) \/ AffinityInfo(conduit, fid, arg, at)
             \/ NovaYield(conduit, fid, arg, at) \/ NovaExit(conduit, fid, arg, at)
             \/ NovaCall(conduit, fid, arg, at) \/ UnknownCall(conduit, fid, arg, at)
    BY <1>6
  <2> QED
    BY <1>1, <2>1
<1>7. CASE \E x \in DataFiles, at \in Places :
             \/ \E isWfe \in BOOLEAN : Wfx(isWfe, x, at)
             \/ FpSimd(x, at) \/ OtherException(x, at) \/ Preempt(x, at)
             \/ \E reg \in Sysregs, write \in BOOLEAN, rt \in {0, kSrtZeroReg} :
                  SysregEmulated(reg, write, rt, x, at) \/ SysregUnclaimed(reg, write, rt, x, at)
             \/ \E a \in Accesses : DataAbort(a, x, at) \/ DataAbortFaults(a, x, at)
  <2>1. TRUE \in BOOLEAN
    OBVIOUS
  <2> QED
    BY <1>2, <1>3, <1>4, <1>7, <2>1, Zenon
<1>8. CASE GuestRuns \/ \E v \in Vcpus : Wake(v) \/ Start(v)
  BY <1>8, OtherStepsKeep
<1> QED
  BY <1>5, <1>6, <1>7, <1>8, Zenon DEF TrapNext

\* Whatever trap a guest takes, from whatever state of its vCPUs, the instruction is
\* done once the guest runs again: its result is in the right registers of the right
\* vCPU, every other register is as it was, and the guest goes on at the right place.
THEOREM InstructionsExact == TrapSpec => []InstructionExact
<1>1. TrapInit => TrapInv
  BY TrapAssumption, TrapStarts
<1>2. TrapInv /\ [TrapNext]_trapVars => TrapInv'
  BY TrapAssumption, TrapStep
<1>3. TrapInv => InstructionExact
  BY DEF TrapInv
<1> QED
  BY <1>1, <1>2, <1>3, PTL DEF TrapSpec

-----------------------------------------------------------------------------
(* The policy: ranges, and what is said by counting.                       *)

LEMMA PolicyPowers ==
  ASSUME PolicyAssumption
  PROVE  /\ Top \in Nat /\ 2^SidBits \in Nat \ {0} /\ 2^VmidBits \in Nat \ {0} /\ 2^OutputBits \in Nat \ {0}
         /\ 2^OutputBits - 1 <= Top /\ PolicyPage \in Nat \ {0} /\ StreamIds = 0..(2^SidBits - 1)
<1> DEFINE W == 2^Width
           O == 2^OutputBits
<1>1. W \in Nat \ {0} /\ O \in Nat \ {0} /\ O <= W /\ 2^SidBits \in Nat \ {0} /\ 2^VmidBits \in Nat \ {0} /\ PolicyPage \in Nat \ {0}
  BY DEF PolicyAssumption
<1>2. Top = W - 1
  BY DEF Top
<1> HIDE DEF W
<1>3. Top \in Nat
  BY <1>1, <1>2
<1>4. O - 1 <= Top
  <2> HIDE DEF O
  <2> QED
    BY <1>1, <1>2
<1> QED
  BY <1>1, <1>3, <1>4 DEF StreamIds

\* The four tables of an image.
LEMMA ImageIs ==
  ASSUME PolicyAssumption, dmaImage \in DmaConfigs
  PROVE  /\ Len(dmaImage.guests) \in Nat /\ DOMAIN dmaImage.guests = 1..Len(dmaImage.guests)
         /\ Len(dmaImage.protected) \in Nat /\ DOMAIN dmaImage.protected = 1..Len(dmaImage.protected)
         /\ Len(dmaImage.assignments) \in Nat /\ DOMAIN dmaImage.assignments = 1..Len(dmaImage.assignments)
         /\ Len(dmaImage.streams) \in Nat /\ DOMAIN dmaImage.streams = 1..Len(dmaImage.streams)
         /\ \A i \in DOMAIN dmaImage.guests :
              LET g == dmaImage.guests[i]
              IN g.ipa \in Nat /\ g.pa \in Nat /\ g.size \in Nat /\ g.vmid \in Nat /\ g.ipa <= Top /\ g.pa <= Top /\ g.size <= Top
         /\ \A i \in DOMAIN dmaImage.protected :
              LET p == dmaImage.protected[i] IN p.base \in Nat /\ p.size \in Nat /\ p.base <= Top /\ p.size <= Top
         /\ \A i \in DOMAIN dmaImage.assignments : dmaImage.assignments[i].sid \in Nat /\ dmaImage.assignments[i].vm \in Nat
         /\ \A i \in DOMAIN dmaImage.streams : dmaImage.streams[i] = [dev |-> dmaImage.streams[i].dev, sid |-> dmaImage.streams[i].sid]
                                               /\ dmaImage.streams[i].sid \in Nat
<1> DEFINE G == [ipa : 0..Top, pa : 0..Top, size : 0..Top, vmid : Nat]
           P == [base : 0..Top, size : 0..Top]
           A == [dev : STRING, sid : Nat, vm : Nat]
           S == [dev : STRING, sid : Nat]
<1>1. dmaImage.guests \in Seq(G) /\ dmaImage.protected \in Seq(P) /\ dmaImage.assignments \in Seq(A) /\ dmaImage.streams \in Seq(S)
  <2>1. ImageShape(dmaImage)
    BY DEF PolicyAssumption
  <2> QED
    BY <2>1 DEF ImageShape
<1>2. Top \in Nat
  BY PolicyPowers
<1>3. \A g \in G : g.ipa \in Nat /\ g.pa \in Nat /\ g.size \in Nat /\ g.vmid \in Nat /\ g.ipa <= Top /\ g.pa <= Top /\ g.size <= Top
  BY <1>2
<1>4. \A p \in P : p.base \in Nat /\ p.size \in Nat /\ p.base <= Top /\ p.size <= Top
  BY <1>2
<1>5. (\A a \in A : a.sid \in Nat /\ a.vm \in Nat) /\ \A d \in S : d = [dev |-> d.dev, sid |-> d.sid] /\ d.sid \in Nat
  OBVIOUS
<1> HIDE DEF G, P, A, S
<1>6. Len(dmaImage.guests) \in Nat /\ DOMAIN dmaImage.guests = 1..Len(dmaImage.guests) /\ \A i \in DOMAIN dmaImage.guests : dmaImage.guests[i] \in G
  BY <1>1
<1>7. /\ Len(dmaImage.protected) \in Nat /\ DOMAIN dmaImage.protected = 1..Len(dmaImage.protected)
      /\ \A i \in DOMAIN dmaImage.protected : dmaImage.protected[i] \in P
  BY <1>1
<1>8. /\ Len(dmaImage.assignments) \in Nat /\ DOMAIN dmaImage.assignments = 1..Len(dmaImage.assignments)
      /\ \A i \in DOMAIN dmaImage.assignments : dmaImage.assignments[i] \in A
  BY <1>1
<1>9. Len(dmaImage.streams) \in Nat /\ DOMAIN dmaImage.streams = 1..Len(dmaImage.streams) /\ \A i \in DOMAIN dmaImage.streams : dmaImage.streams[i] \in S
  BY <1>1
<1> QED
  BY <1>3, <1>4, <1>5, <1>6, <1>7, <1>8, <1>9

\* Two ranges overlap when they have an address in common.
LEMMA OverlapIsMeeting ==
  ASSUME NEW b1 \in Nat, NEW s1 \in Nat, NEW b2 \in Nat, NEW s2 \in Nat
  PROVE  ranges_overlap(b1, s1, b2, s2) <=> Span(b1, s1) \cap Span(b2, s2) # {}
<1>1. ASSUME ranges_overlap(b1, s1, b2, s2) PROVE Span(b1, s1) \cap Span(b2, s2) # {}
  <2>1. CASE b1 <= b2
    <3>1. b2 \in Span(b1, s1) /\ b2 \in Span(b2, s2)
      BY <1>1, <2>1 DEF ranges_overlap, Span
    <3> QED
      BY <3>1
  <2>2. CASE ~(b1 <= b2)
    <3>1. b1 \in Span(b1, s1) /\ b1 \in Span(b2, s2)
      BY <1>1, <2>2 DEF ranges_overlap, Span
    <3> QED
      BY <3>1
  <2> QED
    BY <2>1, <2>2
<1>2. ASSUME NEW a \in Span(b1, s1), a \in Span(b2, s2) PROVE ranges_overlap(b1, s1, b2, s2)
  BY <1>2 DEF ranges_overlap, Span
<1> QED
  BY <1>1, <1>2

LEMMA OverlapEitherWay ==
  ASSUME NEW b1 \in Nat, NEW s1 \in Nat, NEW b2 \in Nat, NEW s2 \in Nat
  PROVE  ranges_overlap(b1, s1, b2, s2) <=> ranges_overlap(b2, s2, b1, s1)
  BY DEF ranges_overlap

\* A sequence takes as many values as it has entries when no entry repeats one
\* before it.
LEMMA DistinctCount ==
  ASSUME NEW n \in Nat, NEW f, f = [i \in 1..n |-> f[i]]
  PROVE  /\ IsFiniteSet({f[i] : i \in 1..n})
         /\ Cardinality({f[i] : i \in 1..n}) = n <=> \A i \in 1..n : \A j \in Before(i) : f[i] # f[j]
<1> DEFINE T == {f[i] : i \in 1..n}
<1>1. f \in Surjection(1..n, T)
  BY DEF Surjection
<1>2. IsFiniteSet(1..n) /\ Cardinality(1..n) = n
  BY FS_Interval
<1>3. IsFiniteSet(T) /\ (Cardinality(T) = n <=> f \in Injection(1..n, T))
  <2> HIDE DEF T
  <2> QED
    BY <1>1, <1>2, FS_Surjection
<1>4. f \in Injection(1..n, T) <=> \A i, j \in 1..n : f[i] = f[j] => i = j
  <2>1. f \in [1..n -> T]
    OBVIOUS
  <2> HIDE DEF T
  <2> QED
    BY <2>1, Zenon DEF Injection, IsInjective
<1>5. (\A i, j \in 1..n : f[i] = f[j] => i = j) <=> \A i \in 1..n : \A j \in Before(i) : f[i] # f[j]
  <2>1. ASSUME \A i, j \in 1..n : f[i] = f[j] => i = j, NEW i \in 1..n, NEW j \in Before(i) PROVE f[i] # f[j]
    <3>1. j \in 1..n /\ j # i
      BY DEF Before
    <3> QED
      BY <2>1, <3>1
  <2>2. ASSUME \A i \in 1..n : \A j \in Before(i) : f[i] # f[j], NEW i \in 1..n, NEW j \in 1..n, f[i] = f[j] PROVE i = j
    <3>1. CASE j < i
      <4>1. j \in Before(i)
        BY <3>1 DEF Before
      <4> QED
        BY <2>2, <4>1
    <3>2. CASE i < j
      <4>1. i \in Before(j)
        BY <3>2 DEF Before
      <4> QED
        BY <2>2, <4>1
    <3> QED
      BY <3>1, <3>2
  <2> QED
    BY <2>1, <2>2
<1> QED
  BY <1>3, <1>4, <1>5

-----------------------------------------------------------------------------
(* The checks accept a sound image, and no other.                          *)

LEMMA RamIsChecked ==
  ASSUME PolicyAssumption, dmaImage \in DmaConfigs
  PROVE  RamSound <=> /\ GuestsValid(dmaImage.guests, dmaImage.protected)
                      /\ \A i \in Vms : /\ range_well_formed(dmaImage.guests[i].pa, dmaImage.guests[i].size)
                                        /\ range_contains(0, 2^OutputBits, dmaImage.guests[i].pa, dmaImage.guests[i].size)
<1> DEFINE gs == dmaImage.guests
           ps == dmaImage.protected
           L == 2^OutputBits
<1>1. Vms = 1..Len(gs) /\ Len(gs) \in Nat /\ DOMAIN gs = Vms
  BY ImageIs DEF Vms
<1>2. \A i \in Vms : gs[i].ipa \in Nat /\ gs[i].pa \in Nat /\ gs[i].size \in Nat /\ gs[i].ipa <= Top /\ gs[i].pa <= Top /\ gs[i].size <= Top
  BY ImageIs, <1>1
<1>3. \A i \in DOMAIN ps : ps[i].base \in Nat /\ ps[i].size \in Nat /\ ps[i].base <= Top /\ ps[i].size <= Top
  BY ImageIs
<1>4. Top \in Nat /\ L \in Nat \ {0} /\ L - 1 <= Top /\ PolicyPage \in Nat \ {0}
  BY PolicyPowers
<1> HIDE DEF L
\* One range.
<1>5. \A b, s \in Nat : range_well_formed(b, s) <=> s > 0 /\ b + s - 1 <= Top
  BY <1>4 DEF range_well_formed
<1>6. \A b, s \in Nat : s > 0 => (range_contains(0, L, b, s) <=> Span(b, s) \subseteq 0..(L - 1))
  <2> TAKE b, s \in Nat
  <2> HAVE s > 0
  <2>1. ASSUME range_contains(0, L, b, s) PROVE Span(b, s) \subseteq 0..(L - 1)
    BY <1>4, <2>1 DEF range_contains, Span
  <2>2. ASSUME Span(b, s) \subseteq 0..(L - 1) PROVE range_contains(0, L, b, s)
    <3>1. b + s - 1 \in Span(b, s)
      BY DEF Span
    <3>2. b + s - 1 \in 0..(L - 1)
      BY <2>2, <3>1
    <3> QED
      BY <1>4, <3>2 DEF range_contains
  <2> QED
    BY <2>1, <2>2
\* Two ranges.
<1>7. \A i, j \in Vms : ranges_overlap(gs[i].pa, gs[i].size, gs[j].pa, gs[j].size) <=> Span(gs[i].pa, gs[i].size) \cap Span(gs[j].pa, gs[j].size) # {}
  BY <1>2, OverlapIsMeeting
<1>8. \A i \in Vms : \A p \in DOMAIN ps :
        ranges_overlap(gs[i].pa, gs[i].size, ps[p].base, ps[p].size) <=> Span(gs[i].pa, gs[i].size) \cap Span(ps[p].base, ps[p].size) # {}
  BY <1>2, <1>3, OverlapIsMeeting
<1>9. GuestsApart(gs) <=> \A i, j \in Vms : i # j => Span(gs[i].pa, gs[i].size) \cap Span(gs[j].pa, gs[j].size) = {}
  <2>1. ASSUME GuestsApart(gs), NEW i \in Vms, NEW j \in Vms, i # j PROVE Span(gs[i].pa, gs[i].size) \cap Span(gs[j].pa, gs[j].size) = {}
    <3>1. CASE j < i
      <4>1. j \in Before(i)
        BY <1>1, <3>1 DEF Before
      <4> QED
        BY <1>1, <1>7, <2>1, <4>1 DEF GuestsApart
    <3>2. CASE i < j
      <4>1. i \in Before(j)
        BY <1>1, <3>2 DEF Before
      <4>2. Span(gs[j].pa, gs[j].size) \cap Span(gs[i].pa, gs[i].size) = {}
        BY <1>1, <1>7, <2>1, <4>1 DEF GuestsApart
      <4> QED
        BY <4>2
    <3> QED
      BY <1>1, <2>1, <3>1, <3>2
  <2>2. ASSUME \A i, j \in Vms : i # j => Span(gs[i].pa, gs[i].size) \cap Span(gs[j].pa, gs[j].size) = {}, NEW i \in DOMAIN gs, NEW j \in Before(i)
        PROVE  ~ranges_overlap(gs[i].pa, gs[i].size, gs[j].pa, gs[j].size)
    <3>1. i \in Vms /\ j \in Vms /\ i # j
      BY <1>1 DEF Before
    <3> QED
      BY <1>7, <2>2, <3>1
  <2> QED
    BY <2>1, <2>2 DEF GuestsApart
<1>10. ASSUME RamSound
       PROVE  GuestsValid(gs, ps) /\ \A i \in Vms : range_well_formed(gs[i].pa, gs[i].size) /\ range_contains(0, L, gs[i].pa, gs[i].size)
  <2>1. ASSUME NEW i \in Vms
        PROVE  /\ gs[i].size > 0 /\ gs[i].pa % PolicyPage = 0 /\ gs[i].ipa % PolicyPage = 0 /\ gs[i].size % PolicyPage = 0
               /\ Span(gs[i].pa, gs[i].size) \subseteq 0..(L - 1) /\ gs[i].ipa + gs[i].size - 1 <= Top
    BY <1>10 DEF RamSound, L
  <2>2. ASSUME NEW i \in Vms PROVE range_contains(0, L, gs[i].pa, gs[i].size) /\ range_well_formed(gs[i].pa, gs[i].size)
    <3>1. range_contains(0, L, gs[i].pa, gs[i].size)
      BY <1>2, <1>6, <2>1
    <3>2. gs[i].pa + gs[i].size - 1 <= Top
      BY <1>2, <1>4, <3>1 DEF range_contains
    <3> QED
      BY <1>2, <1>5, <2>1, <3>1, <3>2
  <2>3. \A i \in DOMAIN gs : guest_range_valid(gs[i].ipa, gs[i].size) /\ guest_range_valid(gs[i].pa, gs[i].size)
    BY <1>1, <1>2, <1>5, <2>1, <2>2 DEF guest_range_valid
  <2>4. \A i \in DOMAIN gs : \A p \in DOMAIN ps : ~ranges_overlap(gs[i].pa, gs[i].size, ps[p].base, ps[p].size)
    BY <1>1, <1>8, <1>10 DEF RamSound
  <2>5. \A p \in DOMAIN ps : range_well_formed(ps[p].base, ps[p].size)
    BY <1>3, <1>5, <1>10 DEF RamSound
  <2>6. GuestsApart(gs)
    BY <1>9, <1>10 DEF RamSound
  <2> QED
    BY <2>2, <2>3, <2>4, <2>5, <2>6 DEF GuestsValid
<1>11. ASSUME GuestsValid(gs, ps), \A i \in Vms : range_well_formed(gs[i].pa, gs[i].size) /\ range_contains(0, L, gs[i].pa, gs[i].size)
       PROVE  RamSound
  <2>1. ASSUME NEW i \in Vms
        PROVE  /\ gs[i].size > 0 /\ gs[i].pa % PolicyPage = 0 /\ gs[i].ipa % PolicyPage = 0 /\ gs[i].size % PolicyPage = 0
               /\ Span(gs[i].pa, gs[i].size) \subseteq 0..(L - 1) /\ gs[i].ipa + gs[i].size - 1 <= Top
    <3>1. guest_range_valid(gs[i].ipa, gs[i].size) /\ guest_range_valid(gs[i].pa, gs[i].size)
      BY <1>1, <1>11 DEF GuestsValid
    <3>2. gs[i].size > 0 /\ gs[i].ipa + gs[i].size - 1 <= Top
      BY <1>2, <1>5, <3>1 DEF guest_range_valid
    <3>3. Span(gs[i].pa, gs[i].size) \subseteq 0..(L - 1)
      BY <1>2, <1>6, <1>11, <3>2
    <3> QED
      BY <3>1, <3>2, <3>3 DEF guest_range_valid
  <2>2. \A i \in Vms : \A p \in DOMAIN ps : Span(gs[i].pa, gs[i].size) \cap Span(ps[p].base, ps[p].size) = {}
    BY <1>1, <1>8, <1>11 DEF GuestsValid
  <2>3. \A p \in DOMAIN ps : ps[p].size > 0 /\ ps[p].base + ps[p].size - 1 <= Top
    BY <1>3, <1>5, <1>11 DEF GuestsValid
  <2>4. \A i, j \in Vms : i # j => Span(gs[i].pa, gs[i].size) \cap Span(gs[j].pa, gs[j].size) = {}
    BY <1>9, <1>11 DEF GuestsValid
  <2> QED
    BY <2>1, <2>2, <2>3, <2>4 DEF RamSound, L
<1> QED
  BY <1>10, <1>11 DEF L, Vms

\* Entries tell pairs apart when each differs from those before it.
LEMMA VmidsAreChecked ==
  ASSUME PolicyAssumption, dmaImage \in DmaConfigs
  PROVE  VmidsSound <=> \A i \in Vms : /\ dmaImage.guests[i].vmid # 0
                                       /\ dmaImage.smmu.vmid16 \/ dmaImage.guests[i].vmid < 2^VmidBits
                                       /\ \A j \in Before(i) : dmaImage.guests[i].vmid # dmaImage.guests[j].vmid
<1> DEFINE gs == dmaImage.guests
           n == Len(gs)
           f == [i \in 1..n |-> gs[i].vmid]
           M == 2^VmidBits
<1>1. Vms = 1..n /\ n \in Nat /\ M \in Nat \ {0} /\ \A i \in Vms : gs[i].vmid \in Nat
  BY ImageIs, PolicyPowers DEF Vms
<1>2. Cardinality(Vms) = n
  <2>1. 1 \in Int /\ n \in Int
    BY <1>1
  <2>2. Cardinality(1..n) = IF 1 > n THEN 0 ELSE n - 1 + 1
    BY <2>1, FS_Interval, Zenon
  <2> QED
    BY <1>1, <2>2
<1>3. {f[i] : i \in 1..n} = {gs[i].vmid : i \in Vms} /\ f = [i \in 1..n |-> f[i]]
  BY <1>1
<1>4. Cardinality({f[i] : i \in 1..n}) = n <=> \A i \in 1..n : \A j \in Before(i) : f[i] # f[j]
  <2> HIDE DEF f
  <2> QED
    BY <1>1, <1>3, DistinctCount
<1>5. \A i \in 1..n : \A j \in Before(i) : f[i] = gs[i].vmid /\ f[j] = gs[j].vmid
  BY <1>1 DEF Before
<1> HIDE DEF f, M
<1>6. \A v \in Nat : (v > 0 <=> v # 0) /\ (v <= M - 1 <=> v < M)
  BY <1>1
<1>7. VmidsSound <=> /\ Cardinality({gs[vm].vmid : vm \in Vms}) = Cardinality(Vms)
                     /\ \A vm \in Vms : gs[vm].vmid > 0 /\ (dmaImage.smmu.vmid16 \/ gs[vm].vmid <= M - 1)
  BY DEF VmidsSound, M
<1>8. Cardinality({gs[vm].vmid : vm \in Vms}) = Cardinality(Vms) <=> \A i \in Vms : \A j \in Before(i) : gs[i].vmid # gs[j].vmid
  <2>1. Cardinality({gs[vm].vmid : vm \in Vms}) = Cardinality(Vms) <=> \A i \in 1..n : \A j \in Before(i) : f[i] # f[j]
    BY <1>2, <1>3, <1>4
  <2>2. (\A i \in 1..n : \A j \in Before(i) : f[i] # f[j]) <=> \A i \in Vms : \A j \in Before(i) : gs[i].vmid # gs[j].vmid
    BY <1>1, <1>5
  <2> QED
    BY <2>1, <2>2
<1>9. \A vm \in Vms : gs[vm].vmid > 0 /\ (dmaImage.smmu.vmid16 \/ gs[vm].vmid <= M - 1)
        <=> gs[vm].vmid # 0 /\ (dmaImage.smmu.vmid16 \/ gs[vm].vmid < M)
  BY <1>1, <1>6
<1> QED
  BY <1>7, <1>8, <1>9 DEF M

\* The checks of streams and their owners.
LEMMA OwnersAreChecked ==
  ASSUME PolicyAssumption, dmaImage \in DmaConfigs
  PROVE  OwnersSound <=> /\ AssignmentsValid(dmaImage.assignments, dmaImage.guests)
                         /\ DevicesValid(dmaImage.streams)
                         /\ WholeDevices(dmaImage.assignments, dmaImage.streams)
<1> DEFINE as == dmaImage.assignments
           ss == dmaImage.streams
           n == Len(as)
           k == Len(ss)
           f == [i \in 1..n |-> as[i].sid]
           h == [i \in 1..k |-> ss[i].sid]
           M == 2^SidBits
<1>1. /\ n \in Nat /\ k \in Nat /\ DOMAIN as = 1..n /\ DOMAIN ss = 1..k
      /\ \A i \in 1..n : as[i].sid \in Nat /\ as[i].vm \in Nat
      /\ \A d \in 1..k : ss[d].sid \in Nat /\ ss[d] = [dev |-> ss[d].dev, sid |-> ss[d].sid]
  BY ImageIs
<1>2. Cardinality({as[i].sid : i \in DOMAIN as}) = n <=> \A i \in 1..n : \A j \in Before(i) : as[i].sid # as[j].sid
  <2>1. {f[i] : i \in 1..n} = {as[i].sid : i \in DOMAIN as} /\ f = [i \in 1..n |-> f[i]]
    BY <1>1
  <2>2. Cardinality({f[i] : i \in 1..n}) = n <=> \A i \in 1..n : \A j \in Before(i) : f[i] # f[j]
    <3> HIDE DEF f
    <3> QED
      BY <1>1, <2>1, DistinctCount, ZenonT(40)
  <2>3. \A i \in 1..n : \A j \in Before(i) : f[i] = as[i].sid /\ f[j] = as[j].sid
    BY <1>1 DEF Before
  <2> HIDE DEF f
  <2> QED
    BY <2>1, <2>2, <2>3
<1>3. Cardinality({ss[d].sid : d \in DOMAIN ss}) = k <=> \A i \in 1..k : \A j \in Before(i) : ss[i].sid # ss[j].sid
  <2>1. {h[i] : i \in 1..k} = {ss[i].sid : i \in DOMAIN ss} /\ h = [i \in 1..k |-> h[i]]
    BY <1>1
  <2>2. Cardinality({h[i] : i \in 1..k}) = k <=> \A i \in 1..k : \A j \in Before(i) : h[i] # h[j]
    <3> HIDE DEF h
    <3> QED
      BY <1>1, <2>1, DistinctCount, ZenonT(40)
  <2>3. \A i \in 1..k : \A j \in Before(i) : h[i] = ss[i].sid /\ h[j] = ss[j].sid
    BY <1>1 DEF Before
  <2> HIDE DEF h
  <2> QED
    BY <2>1, <2>2, <2>3
<1>4. M \in Nat \ {0} /\ StreamIds = 0..(M - 1)
  BY PolicyPowers
<1> HIDE DEF f, h, M
\* What the sets of the property hold.
<1>5. \A dev, s : s \in Given(dmaImage, dev) <=> \E i \in 1..n : as[i].dev = dev /\ as[i].sid = s
  BY <1>1 DEF Given
<1>6. \A dev, s : s \in StreamsOf(dmaImage, dev) <=> \E d \in 1..k : ss[d].dev = dev /\ ss[d].sid = s
  BY <1>1 DEF StreamsOf
<1>7. \A dev, v : v \in Owners(dmaImage, dev) <=> \E i \in 1..n : as[i].dev = dev /\ as[i].vm = v
  BY <1>1 DEF Owners
<1>8. \A dev : dev \in Devices(dmaImage) <=> \E i \in 1..n : as[i].dev = dev
  BY <1>1 DEF Devices
<1>9. WholeDevices(as, ss) <=> \A dev \in Devices(dmaImage) : Given(dmaImage, dev) = StreamsOf(dmaImage, dev)
  <2>1. ASSUME WholeDevices(as, ss), NEW dev \in Devices(dmaImage) PROVE Given(dmaImage, dev) = StreamsOf(dmaImage, dev)
    <3>1. ASSUME NEW s \in Given(dmaImage, dev) PROVE s \in StreamsOf(dmaImage, dev)
      <4>1. PICK i \in 1..n : as[i].dev = dev /\ as[i].sid = s
        BY <1>5, <3>1
      <4>2. PICK d \in 1..k : ss[d] = [dev |-> as[i].dev, sid |-> as[i].sid]
        BY <1>1, <2>1 DEF WholeDevices, KnownStreams
      <4> QED
        BY <1>6, <4>1, <4>2
    <3>2. ASSUME NEW s \in StreamsOf(dmaImage, dev) PROVE s \in Given(dmaImage, dev)
      <4>1. PICK d \in 1..k : ss[d].dev = dev /\ ss[d].sid = s
        BY <1>6, <3>2
      <4>2. \E i \in DOMAIN as : as[i].dev = ss[d].dev
        BY <1>1, <1>8, <2>1, <4>1
      <4>3. \E i \in DOMAIN as : as[i].dev = ss[d].dev /\ as[i].sid = ss[d].sid
        BY <1>1, <2>1, <4>1, <4>2 DEF WholeDevices
      <4> QED
        BY <1>1, <1>5, <4>1, <4>3
    <3> QED
      BY <3>1, <3>2
  <2>2. ASSUME \A dev \in Devices(dmaImage) : Given(dmaImage, dev) = StreamsOf(dmaImage, dev)
        PROVE  WholeDevices(as, ss)
    <3>1. ASSUME NEW i \in 1..n PROVE \E d \in 1..k : ss[d] = [dev |-> as[i].dev, sid |-> as[i].sid]
      <4>1. as[i].sid \in StreamsOf(dmaImage, as[i].dev)
        BY <1>5, <1>8, <2>2
      <4>2. PICK d \in 1..k : ss[d].dev = as[i].dev /\ ss[d].sid = as[i].sid
        BY <1>6, <4>1, SMTT(30)
      <4>3. ss[d] = [dev |-> as[i].dev, sid |-> as[i].sid]
        BY <1>1, <4>2
      <4> QED
        BY <4>3
    <3>2. ASSUME NEW d \in 1..k, NEW i \in 1..n, as[i].dev = ss[d].dev PROVE \E j \in 1..n : as[j].dev = ss[d].dev /\ as[j].sid = ss[d].sid
      <4>1. ss[d].sid \in StreamsOf(dmaImage, ss[d].dev) /\ ss[d].dev \in Devices(dmaImage)
        BY <1>6, <1>8, <3>2
      <4>2. ss[d].sid \in Given(dmaImage, ss[d].dev)
        BY <2>2, <4>1
      <4> QED
        BY <1>5, <4>2, SMTT(30)
    <3> QED
      BY <1>1, <3>1, <3>2 DEF WholeDevices, KnownStreams
  <2> QED
    BY <2>1, <2>2
<1>10. DevicesValid(ss) <=> /\ Cardinality({ss[d].sid : d \in DOMAIN ss}) = k
                            /\ {ss[d].sid : d \in DOMAIN ss} \subseteq StreamIds
                            /\ NoDevice \notin {ss[d].dev : d \in DOMAIN ss}
  <2>1. {ss[d].sid : d \in DOMAIN ss} \subseteq StreamIds <=> \A d \in 1..k : ss[d].sid < M
    <3>1. \A x \in Nat : x \in StreamIds <=> x < M
      BY <1>4
    <3>2. \A d \in 1..k : ss[d].sid \in StreamIds <=> ss[d].sid < M
      BY <1>1, <3>1, Zenon
    <3> QED
      BY <1>1, <3>2, Zenon
  <2>2. NoDevice \notin {ss[d].dev : d \in DOMAIN ss} <=> \A d \in 1..k : ss[d].dev # NoDevice
    BY <1>1
  <2> QED
    BY <1>1, <1>3, <2>1, <2>2 DEF DevicesValid, M
\* One VM for a device.
<1>11. ASSUME \A i \in 1..n : \A j \in Before(i) : as[i].dev = as[j].dev => as[i].vm = as[j].vm, NEW dev \in Devices(dmaImage)
       PROVE  Cardinality(Owners(dmaImage, dev)) = 1
  <2>1. PICK i \in 1..n : as[i].dev = dev
    BY <1>8
  <2>2. ASSUME NEW j \in 1..n, as[j].dev = dev PROVE as[j].vm = as[i].vm
    <3>1. CASE j < i
      <4>1. j \in Before(i)
        BY <3>1 DEF Before
      <4> QED
        BY <1>11, <2>1, <2>2, <4>1
    <3>2. CASE i < j
      <4>1. i \in Before(j)
        BY <3>2 DEF Before
      <4> QED
        BY <1>11, <2>1, <2>2, <4>1
    <3> QED
      BY <3>1, <3>2
  <2>3. Owners(dmaImage, dev) = {as[i].vm}
    BY <1>7, <2>1, <2>2, SMTT(30)
  <2> QED
    BY <2>3, FS_Singleton
<1>12. ASSUME NEW dev \in Devices(dmaImage), Cardinality(Owners(dmaImage, dev)) = 1, IsFiniteSet(Owners(dmaImage, dev)),
              NEW i \in 1..n, NEW j \in 1..n, as[i].dev = dev, as[j].dev = dev
       PROVE  as[i].vm = as[j].vm
  <2>1. PICK v : Owners(dmaImage, dev) = {v}
    BY <1>12, FS_Singleton
  <2>2. as[i].vm \in Owners(dmaImage, dev) /\ as[j].vm \in Owners(dmaImage, dev)
    BY <1>7, <1>12, Zenon
  <2> QED
    BY <2>1, <2>2
<1>13. \A dev \in Devices(dmaImage) : IsFiniteSet(Owners(dmaImage, dev))
  <2> TAKE dev \in Devices(dmaImage)
  <2> DEFINE u == [i \in 1..n |-> as[i].vm]
  <2>1. IsFiniteSet({u[i] : i \in 1..n})
    <3>1. u = [i \in 1..n |-> u[i]]
      OBVIOUS
    <3> HIDE DEF u
    <3> QED
      BY <1>1, <3>1, DistinctCount, ZenonT(40)
  <2>2. Owners(dmaImage, dev) \in SUBSET {u[i] : i \in 1..n}
    BY <1>7
  <2> HIDE DEF u
  <2> QED
    BY <2>1, <2>2, FS_Subset
<1>14. ASSUME OwnersSound PROVE AssignmentsValid(as, dmaImage.guests)
  <2>1. ASSUME NEW i \in 1..n
        PROVE  as[i].vm \in DOMAIN dmaImage.guests /\ as[i].dev # NoDevice /\ as[i].sid < M
    <3>1. as[i].dev \in Devices(dmaImage) /\ as[i].vm \in Owners(dmaImage, as[i].dev) /\ as[i].sid \in Given(dmaImage, as[i].dev)
      BY <1>5, <1>7, <1>8
    <3>2. as[i].vm \in DOMAIN dmaImage.guests /\ as[i].sid \in StreamsOf(dmaImage, as[i].dev)
      BY <1>14, <3>1 DEF OwnersSound, Vms
    <3>3. PICK d \in 1..k : ss[d].dev = as[i].dev /\ ss[d].sid = as[i].sid
      BY <1>6, <3>2, SMTT(30)
    <3>4. ss[d].sid \in StreamIds /\ ss[d].dev # NoDevice
      BY <1>1, <1>14 DEF OwnersSound
    <3>5. ss[d].sid < M
      BY <1>1, <1>4, <3>4
    <3> QED
      BY <3>2, <3>3, <3>4, <3>5
  <2>2. \A i \in 1..n : \A j \in Before(i) : as[i].sid # as[j].sid
    BY <1>2, <1>14 DEF OwnersSound
  <2>3. ASSUME NEW i \in 1..n, NEW j \in Before(i), as[i].dev = as[j].dev PROVE as[i].vm = as[j].vm
    <3>1. j \in 1..n
      BY <1>1 DEF Before
    <3>2. as[i].dev \in Devices(dmaImage)
      BY <1>8
    <3>3. Cardinality(Owners(dmaImage, as[i].dev)) = 1
      BY <1>14, <3>2 DEF OwnersSound
    <3> QED
      BY <1>12, <1>13, <2>3, <3>1, <3>2, <3>3
  <2> QED
    BY <1>1, <2>1, <2>2, <2>3 DEF AssignmentsValid, M
<1>15. ASSUME AssignmentsValid(as, dmaImage.guests)
       PROVE  /\ Cardinality({as[i].sid : i \in DOMAIN as}) = n
              /\ \A dev \in Devices(dmaImage) : Cardinality(Owners(dmaImage, dev)) = 1 /\ Owners(dmaImage, dev) \subseteq Vms
  <2>1. \A i \in 1..n : as[i].vm \in Vms /\ \A j \in Before(i) : as[i].sid # as[j].sid /\ (as[i].dev = as[j].dev => as[i].vm = as[j].vm)
    BY <1>1, <1>15 DEF AssignmentsValid, Vms
  <2>2. \A dev \in Devices(dmaImage) : Cardinality(Owners(dmaImage, dev)) = 1
    BY <1>11, <2>1
  <2>3. \A dev \in Devices(dmaImage) : Owners(dmaImage, dev) \subseteq Vms
    BY <1>7, <2>1
  <2> QED
    BY <1>2, <2>1, <2>2, <2>3
<1> QED
  BY <1>9, <1>10, <1>14, <1>15 DEF OwnersSound

Accepted == dmaImage.guests # <<>> /\ validate_policy(dmaImage) /\ validate_contexts(dmaImage.guests, dmaImage.smmu.vmid16)

LEMMA SoundIsAccepted ==
  ASSUME PolicyAssumption, dmaImage \in DmaConfigs
  PROVE  Accepted <=> Vms # {} /\ RamSound /\ OwnersSound /\ VmidsSound
<1>1. dmaImage.guests # <<>> <=> Vms # {}
  <2>1. DOMAIN dmaImage.guests = 1..Len(dmaImage.guests) /\ Len(dmaImage.guests) \in Nat /\ \E T : dmaImage.guests \in Seq(T)
    BY ImageIs DEF PolicyAssumption, ImageShape
  <2>2. dmaImage.guests # <<>> <=> Len(dmaImage.guests) # 0
    <3>1. \A T : \A s \in Seq(T) : s # <<>> <=> Len(s) # 0
      OBVIOUS
    <3> QED
      BY <2>1, <3>1, Zenon
  <2>3. Vms = 1..Len(dmaImage.guests)
    BY <2>1 DEF Vms
  <2>4. \A l \in Nat : l # 0 <=> 1..l # {}
    <3>1. \A l \in Nat : l # 0 => 1 \in 1..l
      OBVIOUS
    <3> QED
      BY <3>1
  <2> QED
    BY <2>1, <2>2, <2>3, <2>4, Zenon
<1>2. validate_contexts(dmaImage.guests, dmaImage.smmu.vmid16) <=>
        /\ \A i \in Vms : /\ dmaImage.guests[i].vmid # 0
                          /\ dmaImage.smmu.vmid16 \/ dmaImage.guests[i].vmid < 2^VmidBits
                          /\ \A j \in Before(i) : dmaImage.guests[i].vmid # dmaImage.guests[j].vmid
        /\ \A i \in Vms : /\ range_well_formed(dmaImage.guests[i].pa, dmaImage.guests[i].size)
                          /\ range_contains(0, 2^OutputBits, dmaImage.guests[i].pa, dmaImage.guests[i].size)
  BY Zenon DEF validate_contexts, Vms
<1> QED
  BY <1>1, <1>2, RamIsChecked, VmidsAreChecked, OwnersAreChecked, Zenon DEF Accepted, validate_policy

-----------------------------------------------------------------------------
(* What is built from it.                                                  *)

\* A loop over the numbers below n collects those of the set, each once.
LEMMA CollectedIsSet ==
  ASSUME NEW n \in Nat, NEW set \in SUBSET (0..(n - 1))
  PROVE  LET s == Collected(set, n) IN
         /\ s \in Seq(set) /\ {s[i] : i \in DOMAIN s} = set /\ IsFiniteSet(set) /\ Len(s) = Cardinality(set)
<1> DEFINE V == Seq(set)
           step == [k \in 1..n |-> [s \in V |-> IF k - 1 \in set THEN Append(s, k - 1) ELSE s]]
           F(f) == [k \in 0..n |-> IF k = 0 THEN <<>> ELSE IF k - 1 \in set THEN Append(f[k - 1], k - 1) ELSE f[k - 1]]
           upto == CHOOSE f : f = F(f)
<1>1. <<>> \in V
  OBVIOUS
<1>2. step \in [1..n -> [V -> V]]
  <2>1. \A x \in set : \A s \in Seq(set) : Append(s, x) \in Seq(set)
    OBVIOUS
  <2> QED
    BY <2>1
<1>3. PICK f : Stepwise(f, V, n, <<>>, step)
  <2> HIDE DEF V, step
  <2> QED
    BY <1>1, <1>2, StepByStep
<1>4. f \in [0..n -> V] /\ f[0] = <<>> /\ \A k \in 1..n : f[k] = step[k][f[k - 1]]
  <2> HIDE DEF step, V
  <2> QED
    BY <1>3 DEF Stepwise
<1> HIDE DEF V
<1>5. f = F(f)
  <2>1. \A k \in 0..n : f[k] = F(f)[k]
    <3> TAKE k \in 0..n
    <3>1. CASE k = 0
      BY <1>4, <3>1
    <3>2. CASE k # 0
      <4>1. k \in 1..n /\ k - 1 \in 0..n
        BY <3>2
      <4>2. f[k] = step[k][f[k - 1]] /\ f[k - 1] \in V
        <5> HIDE DEF step
        <5> QED
          BY <1>4, <4>1
      <4>3. step[k][f[k - 1]] = IF k - 1 \in set THEN Append(f[k - 1], k - 1) ELSE f[k - 1]
        BY <4>1, <4>2
      <4> HIDE DEF step
      <4> QED
        BY <3>2, <4>2, <4>3
    <3> QED
      BY <3>1, <3>2
  <2> QED
    BY <1>4, <2>1
<1>6. upto = F(upto)
  <2> HIDE DEF F
  <2> QED
    BY <1>5
<1>7. Collected(set, n) = upto[n]
  BY DEF Collected
<1> HIDE DEF upto
<1>8. \A k \in 0..n : upto[k] = IF k = 0 THEN <<>> ELSE IF k - 1 \in set THEN Append(upto[k - 1], k - 1) ELSE upto[k - 1]
  <2>1. \A k \in 0..n : F(upto)[k] = IF k = 0 THEN <<>> ELSE IF k - 1 \in set THEN Append(upto[k - 1], k - 1) ELSE upto[k - 1]
    OBVIOUS
  <2> HIDE DEF F
  <2> QED
    BY <1>6, <2>1
<1> HIDE DEF F, step
<1> DEFINE below(k) == {x \in set : x < k}
           Good(k) == /\ upto[k] \in V /\ {upto[k][i] : i \in DOMAIN upto[k]} = below(k)
                      /\ IsFiniteSet(below(k)) /\ Len(upto[k]) = Cardinality(below(k))
           S == {k \in Nat : k <= n => Good(k)}
<1>0. \A x \in set : x \in Nat /\ x < n
  OBVIOUS
<1>b. \A k, x : x \in below(k) <=> x \in set /\ x < k
  OBVIOUS
<1> HIDE DEF below
<1>9. Good(0)
  <2>1. upto[0] = <<>>
    <3>1. 0 \in 0..n
      OBVIOUS
    <3> QED
      BY <1>8, <3>1, Zenon
  <2>2. below(0) = {}
    <3>1. \A x \in set : ~(x < 0)
      BY <1>0
    <3> QED
      BY <1>b, <3>1, Zenon
  <2>3. {upto[0][i] : i \in DOMAIN upto[0]} = {} /\ Len(upto[0]) = 0
    BY <2>1
  <2> QED
    BY <1>1, <2>1, <2>2, <2>3, FS_EmptySet
<1>10. ASSUME NEW k \in Nat, k + 1 <= n, Good(k) PROVE Good(k + 1)
  <2>1. k + 1 \in 0..n /\ k + 1 # 0 /\ (k + 1) - 1 = k
    BY <1>10
  <2>2. upto[k + 1] = IF k \in set THEN Append(upto[k], k) ELSE upto[k]
    BY <1>8, <2>1
  <2>3. CASE k \notin set
    <3>1. \A x \in set : x < k + 1 <=> x < k
      BY <1>0, <2>3
    <3>2. below(k + 1) = below(k) /\ upto[k + 1] = upto[k]
      BY <1>b, <2>2, <2>3, <3>1
    <3> QED
      BY <1>10, <3>2
  <2>4. CASE k \in set
    <3>0. \A x \in set : x < k + 1 <=> x < k \/ x = k
      BY <1>0
    <3>1. below(k + 1) = below(k) \cup {k} /\ k \notin below(k)
      <4>1. ~(k < k)
        BY <1>10
      <4> QED
        BY <1>b, <2>4, <3>0, <4>1, Zenon
    <3>2. IsFiniteSet(below(k + 1)) /\ Cardinality(below(k + 1)) = Cardinality(below(k)) + 1
      BY <1>10, <3>1, FS_AddElement
    <3> DEFINE s == upto[k]
    <3>3. s \in Seq(set) /\ {s[i] : i \in DOMAIN s} = below(k) /\ Len(s) = Cardinality(below(k)) /\ upto[k + 1] = Append(s, k)
      BY <1>10, <2>2, <2>4 DEF V
    <3> HIDE DEF s
    <3>4. Append(s, k) \in Seq(set) /\ Len(Append(s, k)) = Len(s) + 1
      BY <2>4, <3>3
    <3>5. {Append(s, k)[i] : i \in DOMAIN Append(s, k)} = {s[i] : i \in DOMAIN s} \cup {k}
      <4>1. DOMAIN s = 1..Len(s) /\ Len(s) \in Nat /\ DOMAIN Append(s, k) = 1..(Len(s) + 1)
        BY <2>4, <3>3
      <4>2. (\A i \in 1..Len(s) : Append(s, k)[i] = s[i]) /\ Append(s, k)[Len(s) + 1] = k
        BY <2>4, <3>3
      <4>3. \A i \in 1..(Len(s) + 1) : i \in 1..Len(s) \/ i = Len(s) + 1
        BY <4>1
      <4>4. Len(s) + 1 \in 1..(Len(s) + 1) /\ 1..Len(s) \subseteq 1..(Len(s) + 1)
        BY <4>1
      <4> QED
        BY <4>1, <4>2, <4>3, <4>4
    <3> QED
      BY <3>1, <3>2, <3>3, <3>4, <3>5 DEF V
  <2> QED
    BY <2>3, <2>4
<1>11. S = Nat
  <2> HIDE DEF Good
  <2>1. S \in SUBSET Nat /\ 0 \in S
    BY <1>9
  <2>2. ASSUME NEW k \in S PROVE k + 1 \in S
    <3>1. k \in Nat /\ (k <= n => Good(k)) /\ k + 1 \in Nat /\ (k + 1 <= n => k <= n)
      OBVIOUS
    <3> QED
      BY <1>10, <3>1
  <2> HIDE DEF S
  <2> QED
    BY <2>1, <2>2, NaturalSteps
<1>12. Good(n) /\ below(n) = set
  <2>1. Good(n)
    <3> HIDE DEF Good
    <3> QED
      BY <1>11
  <2>2. below(n) = set
    BY <1>0, <1>b, Zenon
  <2> HIDE DEF Good
  <2> QED
    BY <2>1, <2>2
<1> QED
  BY <1>7, <1>12 DEF V

-----------------------------------------------------------------------------
(* The invariant.                                                          *)

DmaBuilt ==
  /\ g_contexts = [vm \in Vms |-> [vmid |-> dmaImage.guests[vm].vmid,
                                   reach |-> Span(dmaImage.guests[vm].pa, dmaImage.guests[vm].size)]]
  /\ g_bindings = Bindings(dmaImage.assignments)
  /\ g_vm_streams = [vm \in Vms |-> Collected({s \in StreamIds : g_bindings[s] = vm}, 2^SidBits)]

PolInv ==
  /\ dmaImage \in DmaConfigs
  /\ dmaStage \in {"start", "capable", "panic", "isolated", "running", "no devices"}
  /\ dmaStage \in {"isolated", "running", "no devices"} => Accepted /\ DmaBuilt
  /\ dmaStage = "running" => g_registry = RegistryEntries(dmaImage.assignments)
  /\ dmaStage = "panic" => ~validate_capabilities(dmaImage.smmu) \/ ~Accepted

LEMMA PolicyStarts == PolInit => PolInv
  BY DEF PolInit, PolBegins, PolInv

LEMMA PolicyStep ==
  ASSUME PolInv, [PolNext]_polVars
  PROVE  PolInv'
<1>1. dmaImage' = dmaImage
  BY DEF PolNext, polVars, CheckCapabilities, BuildContexts, LoadRegistry
<1>2. Accepted' = Accepted /\ Vms' = Vms
  BY <1>1 DEF Accepted, Vms
<1>3. CASE CheckCapabilities
  BY <1>1, <1>2, <1>3 DEF PolInv, CheckCapabilities
<1>4. CASE BuildContexts
  <2>1. CASE Accepted
    <3>1. /\ dmaStage' = "isolated" /\ g_bindings' = Bindings(dmaImage.assignments)
          /\ g_contexts' = [vm \in Vms |-> [vmid |-> dmaImage.guests[vm].vmid,
                                            reach |-> Span(dmaImage.guests[vm].pa, dmaImage.guests[vm].size)]]
          /\ g_vm_streams' = [vm \in Vms |-> Collected({s \in StreamIds : Bindings(dmaImage.assignments)[s] = vm}, 2^SidBits)]
      BY <1>4, <2>1, Zenon DEF BuildContexts, Accepted, Span
    <3>2. DmaBuilt'
      BY <1>1, <1>2, <3>1 DEF DmaBuilt
    <3> QED
      BY <1>1, <1>2, <2>1, <3>1, <3>2 DEF PolInv
  <2>2. CASE ~Accepted
    <3>1. dmaStage' = "panic"
      BY <1>4, <2>2 DEF BuildContexts, Accepted
    <3> QED
      BY <1>1, <1>2, <2>2, <3>1 DEF PolInv
  <2> QED
    BY <2>1, <2>2
<1>5. CASE LoadRegistry
  <2>1. Accepted /\ DmaBuilt /\ UNCHANGED <<g_contexts, g_bindings, g_vm_streams>>
    BY <1>5 DEF LoadRegistry, PolInv
  <2>2. DmaBuilt'
    BY <1>1, <1>2, <2>1 DEF DmaBuilt
  <2> QED
    BY <1>1, <1>2, <1>5, <2>1, <2>2 DEF LoadRegistry, PolInv
<1>6. CASE UNCHANGED polVars
  BY <1>1, <1>2, <1>6 DEF PolInv, DmaBuilt, polVars
<1> QED
  BY <1>3, <1>4, <1>5, <1>6 DEF PolNext

\* The least of the numbers below a bound that are in a set.
LEMMA LeastIn ==
  ASSUME NEW T \in SUBSET Nat, T # {}
  PROVE  \E x \in T : \A y \in T : ~(y < x)
<1>1. PICK x \in T : \A y \in T : ~(<<y, x>> \in OpToRel(<, Nat))
  <2>1. IsWellFoundedOn(OpToRel(<, Nat), Nat)
    BY NatLessThanWellFounded
  <2> QED
    BY <2>1, WFMin, Zenon
<1> QED
  BY <1>1 DEF OpToRel

\* What the registry loads: one entry for a device, with its owner.
LEMMA RegistryIs ==
  ASSUME PolicyAssumption, dmaImage \in DmaConfigs
  PROVE  LET r == RegistryEntries(dmaImage.assignments) IN
         /\ {r[i].dev : i \in DOMAIN r} = Devices(dmaImage) /\ Len(r) = Cardinality(Devices(dmaImage))
         /\ \A i \in DOMAIN r : \E j \in DOMAIN dmaImage.assignments :
              r[i].dev = dmaImage.assignments[j].dev /\ r[i].vm = dmaImage.assignments[j].vm
<1> DEFINE as == dmaImage.assignments
           n == Len(as)
           first == Collected(FirstUses(as), n + 1)
           r == RegistryEntries(as)
           dev == [i \in FirstUses(as) |-> as[i].dev]
<1>1. n \in Nat /\ DOMAIN as = 1..n
  BY ImageIs
<1>2. FirstUses(as) \in SUBSET (1..n) /\ \A i \in 1..n : i \in FirstUses(as) <=> \A j \in Before(i) : as[j].dev # as[i].dev
  BY <1>1 DEF FirstUses
<1>3. first \in Seq(FirstUses(as)) /\ {first[i] : i \in DOMAIN first} = FirstUses(as) /\ IsFiniteSet(FirstUses(as)) /\ Len(first) = Cardinality(FirstUses(as))
  <2>1. n + 1 \in Nat /\ FirstUses(as) \in SUBSET (0..((n + 1) - 1))
    BY <1>1, <1>2
  <2> QED
    BY <2>1, CollectedIsSet
<1>4. r = [e \in DOMAIN first |-> [dev |-> as[first[e]].dev, vm |-> as[first[e]].vm]]
  BY DEF RegistryEntries
<1> HIDE DEF first, r
\* Every device has a first use, and only one.
<1>5. ASSUME NEW i \in 1..n PROVE \E j \in FirstUses(as) : as[j].dev = as[i].dev
  <2> DEFINE T == {j \in 1..n : as[j].dev = as[i].dev}
  <2>1. T \in SUBSET Nat /\ T # {}
    BY <1>1
  <2>2. PICK j \in T : \A y \in T : ~(y < j)
    <3> HIDE DEF T
    <3> QED
      BY <2>1, LeastIn
  <2>3. j \in 1..n /\ as[j].dev = as[i].dev
    OBVIOUS
  <2>4. \A y \in Before(j) : as[y].dev # as[j].dev
    <3>1. \A y \in Before(j) : y \in 1..n /\ y < j
      BY <1>1 DEF Before
    <3> QED
      BY <2>2, <2>3, <3>1
  <2> QED
    BY <1>2, <2>3, <2>4
<1>6. \A i, j \in FirstUses(as) : as[i].dev = as[j].dev => i = j
  <2> SUFFICES ASSUME NEW i \in FirstUses(as), NEW j \in FirstUses(as), as[i].dev = as[j].dev PROVE i = j
    OBVIOUS
  <2>1. i \in 1..n /\ j \in 1..n
    BY <1>2
  <2>2. ~(i < j) /\ ~(j < i)
    <3>1. (i < j => i \in Before(j)) /\ (j < i => j \in Before(i))
      BY <2>1 DEF Before
    <3> QED
      BY <1>2, <2>1, <3>1
  <2> QED
    BY <1>1, <2>1, <2>2
<1>7. Devices(dmaImage) = {as[i].dev : i \in FirstUses(as)}
  <2>1. Devices(dmaImage) = {as[i].dev : i \in 1..n}
    BY <1>1 DEF Devices
  <2>2. \A d : d \in Devices(dmaImage) => \E i \in FirstUses(as) : as[i].dev = d
    BY <1>5, <2>1
  <2>3. \A i \in FirstUses(as) : as[i].dev \in Devices(dmaImage)
    BY <1>2, <2>1
  <2> QED
    BY <2>2, <2>3
<1>8. Cardinality(Devices(dmaImage)) = Cardinality(FirstUses(as))
  <2>1. dev \in Surjection(FirstUses(as), Devices(dmaImage))
    BY <1>7 DEF Surjection
  <2>2. dev \in Injection(FirstUses(as), Devices(dmaImage))
    <3>1. \A i \in FirstUses(as) : dev[i] = as[i].dev
      OBVIOUS
    <3>2. dev \in [FirstUses(as) -> Devices(dmaImage)]
      BY <1>7
    <3> HIDE DEF dev
    <3> QED
      BY <1>6, <3>1, <3>2, Zenon DEF Injection, IsInjective
  <2> HIDE DEF dev
  <2> QED
    BY <1>3, <2>1, <2>2, FS_Surjection
<1>9. DOMAIN r = DOMAIN first /\ Len(r) = Len(first) /\ DOMAIN first = 1..Len(first) /\ Len(first) \in Nat
  <2>1. DOMAIN first = 1..Len(first) /\ Len(first) \in Nat
    BY <1>3
  <2> QED
    BY <1>4, <2>1
<1>10. \A i \in DOMAIN r : first[i] \in FirstUses(as) /\ r[i].dev = as[first[i]].dev /\ r[i].vm = as[first[i]].vm
  BY <1>3, <1>4, <1>9
<1>11. {r[i].dev : i \in DOMAIN r} = Devices(dmaImage)
  <2>1. \A j \in FirstUses(as) : \E i \in DOMAIN r : first[i] = j
    BY <1>3, <1>9
  <2> QED
    BY <1>7, <1>10, <2>1
<1>12. \A i \in DOMAIN r : \E j \in DOMAIN as : r[i].dev = as[j].dev /\ r[i].vm = as[j].vm
  BY <1>1, <1>2, <1>10
<1> QED
  BY <1>3, <1>8, <1>9, <1>11, <1>12 DEF r

\* A stream is bound to the VM that an entry names for it.
LEMMA BindingsAre ==
  ASSUME PolicyAssumption, dmaImage \in DmaConfigs, OwnersSound
  PROVE  LET b == Bindings(dmaImage.assignments) IN
         /\ \A i \in DOMAIN dmaImage.assignments :
              /\ dmaImage.assignments[i].vm \in Vms
              /\ \A s \in StreamsOf(dmaImage, dmaImage.assignments[i].dev) : s \in StreamIds /\ b[s] = dmaImage.assignments[i].vm
         /\ \A s \in StreamIds : b[s] # NoVm => \E i \in DOMAIN dmaImage.assignments : dmaImage.assignments[i].sid = s
<1> DEFINE as == dmaImage.assignments
           b == Bindings(as)
<1>1. AssignmentsValid(as, dmaImage.guests)
  BY OwnersAreChecked
<1>2. DOMAIN as = 1..Len(as) /\ Len(as) \in Nat /\ \A i \in DOMAIN as : as[i].sid \in Nat
  BY ImageIs
<1>3. ASSUME NEW i \in DOMAIN as, NEW j \in DOMAIN as
      PROVE  (as[i].dev = as[j].dev => as[i].vm = as[j].vm) /\ (as[i].sid = as[j].sid => i = j)
  <2>1. CASE j < i
    <3>1. j \in Before(i)
      BY <1>2, <2>1 DEF Before
    <3> QED
      BY <1>1, <3>1 DEF AssignmentsValid
  <2>2. CASE i < j
    <3>1. i \in Before(j)
      BY <1>2, <2>2 DEF Before
    <3> QED
      BY <1>1, <3>1 DEF AssignmentsValid
  <2> QED
    BY <1>2, <2>1, <2>2
<1>4. ASSUME NEW i \in DOMAIN as, NEW s \in StreamsOf(dmaImage, as[i].dev) PROVE s \in StreamIds /\ b[s] = as[i].vm
  <2>1. as[i].dev \in Devices(dmaImage)
    BY DEF Devices
  <2>2. s \in Given(dmaImage, as[i].dev)
    BY <2>1 DEF OwnersSound
  <2>3. PICK j \in DOMAIN as : as[j].dev = as[i].dev /\ as[j].sid = s
    BY <2>2 DEF Given
  <2>4. s \in StreamIds
    <3>1. s \in {dmaImage.streams[d].sid : d \in DOMAIN dmaImage.streams}
      BY DEF StreamsOf
    <3> QED
      BY <3>1 DEF OwnersSound
  <2>5. Bound(as, s) = {j}
    <3>1. \A k \in DOMAIN as : as[k].sid = s => k = j
      BY <1>3, <2>3, Zenon
    <3> QED
      BY <2>3, <3>1 DEF Bound
  <2>6. (CHOOSE k \in Bound(as, s) : TRUE) = j
    BY <2>5
  <2>7. b[s] = as[j].vm
    BY <2>4, <2>5, <2>6 DEF Bindings
  <2>8. as[j].vm = as[i].vm
    BY <1>3, <2>3, Zenon
  <2> QED
    BY <2>4, <2>7, <2>8, Zenon
<1>5. \A i \in DOMAIN as : as[i].vm \in Vms
  BY <1>1 DEF AssignmentsValid, Vms
<1>6. ASSUME NEW s \in StreamIds, b[s] # NoVm PROVE \E i \in DOMAIN as : as[i].sid = s
  BY <1>6 DEF Bindings, Bound
<1> QED
  BY <1>4, <1>5, <1>6

LEMMA BuiltIsSound ==
  ASSUME PolicyAssumption, dmaImage \in DmaConfigs, DmaBuilt, Accepted
  PROVE  ReachIsolated /\ DevicesWhole
<1>1. RamSound /\ OwnersSound /\ VmidsSound
  BY SoundIsAccepted
<1>2. \A vm \in Vms : /\ g_contexts[vm].vmid = dmaImage.guests[vm].vmid
                      /\ g_contexts[vm].reach = Span(dmaImage.guests[vm].pa, dmaImage.guests[vm].size)
  BY DEF DmaBuilt
<1>3. Vms = 1..Len(dmaImage.guests) /\ Len(dmaImage.guests) \in Nat /\ \A vm \in Vms : dmaImage.guests[vm].pa \in Nat /\ dmaImage.guests[vm].size \in Nat
  BY ImageIs DEF Vms
<1>4. ASSUME NEW vm \in Vms, NEW other \in Vms \ {vm} PROVE dmaImage.guests[vm].vmid # dmaImage.guests[other].vmid
  <2>1. \A i \in Vms : \A j \in Before(i) : dmaImage.guests[i].vmid # dmaImage.guests[j].vmid
    BY <1>1, VmidsAreChecked
  <2>2. (other < vm => other \in Before(vm)) /\ (vm < other => vm \in Before(other)) /\ (vm < other \/ other < vm)
    BY <1>3 DEF Before
  <2> QED
    BY <2>1, <2>2
<1>5. ReachIsolated
  <2>1. \A vm \in Vms : dmaImage.guests[vm].pa \in Span(dmaImage.guests[vm].pa, dmaImage.guests[vm].size)
    <3>1. \A vm \in Vms : dmaImage.guests[vm].size > 0
      BY <1>1 DEF RamSound
    <3>2. \A b, l \in Nat : l > 0 => b \in Span(b, l)
      BY DEF Span
    <3> QED
      BY <1>3, <3>1, <3>2
  <2>2. ASSUME NEW vm \in Vms
        PROVE  /\ Span(dmaImage.guests[vm].pa, dmaImage.guests[vm].size) \subseteq 0..(2^OutputBits - 1)
               /\ \A other \in Vms \ {vm} :
                    Span(dmaImage.guests[vm].pa, dmaImage.guests[vm].size) \cap Span(dmaImage.guests[other].pa, dmaImage.guests[other].size) = {}
               /\ \A p \in DOMAIN dmaImage.protected :
                    Span(dmaImage.guests[vm].pa, dmaImage.guests[vm].size) \cap Span(dmaImage.protected[p].base, dmaImage.protected[p].size) = {}
    BY <1>1 DEF RamSound
  <2>3. \A vm \in Vms : g_contexts[vm].reach # {} /\ g_contexts[vm].reach \subseteq 0..(2^OutputBits - 1)
    BY <1>2, <2>1, <2>2
  <2>4. \A vm \in Vms : \A other \in Vms \ {vm} : g_contexts[vm].reach \cap g_contexts[other].reach = {} /\ g_contexts[vm].vmid # g_contexts[other].vmid
    BY <1>2, <1>4, <2>2
  <2>5. \A vm \in Vms : \A p \in DOMAIN dmaImage.protected :
          g_contexts[vm].reach \cap Span(dmaImage.protected[p].base, dmaImage.protected[p].size) = {}
    BY <1>2, <2>2
  <2> QED
    BY <2>3, <2>4, <2>5, Zenon DEF ReachIsolated
<1>6. DevicesWhole
  <2> DEFINE as == dmaImage.assignments
  <2>1. g_bindings = Bindings(as)
    BY DEF DmaBuilt
  <2>2. ASSUME NEW dev \in Devices(dmaImage)
        PROVE  /\ Given(dmaImage, dev) = StreamsOf(dmaImage, dev)
               /\ \E vm \in Vms : \A s \in StreamsOf(dmaImage, dev) : g_bindings[s] = vm
    <3>1. PICK i \in DOMAIN as : as[i].dev = dev
      BY DEF Devices
    <3> QED
      BY <1>1, <2>1, <3>1, BindingsAre DEF OwnersSound
  <2>3. ASSUME NEW s \in StreamIds, g_bindings[s] # NoVm PROVE \E dev \in Devices(dmaImage) : s \in StreamsOf(dmaImage, dev)
    <3>1. PICK i \in DOMAIN as : as[i].sid = s
      BY <1>1, <2>1, <2>3, BindingsAre
    <3>2. as[i].dev \in Devices(dmaImage) /\ s \in Given(dmaImage, as[i].dev)
      BY <3>1 DEF Devices, Given
    <3> QED
      BY <1>1, <3>2 DEF OwnersSound
  <2>4. ASSUME NEW vm \in Vms
        PROVE  /\ {g_vm_streams[vm][i] : i \in DOMAIN g_vm_streams[vm]} = {s \in StreamIds : g_bindings[s] = vm}
               /\ Len(g_vm_streams[vm]) = Cardinality({s \in StreamIds : g_bindings[s] = vm})
    <3> DEFINE set == {s \in StreamIds : g_bindings[s] = vm}
               M == 2^SidBits
    <3>1. M \in Nat /\ set \in SUBSET (0..(M - 1))
      BY PolicyPowers
    <3>2. g_vm_streams[vm] = Collected(set, M)
      BY DEF DmaBuilt
    <3> HIDE DEF set, M
    <3> DEFINE c == Collected(set, M)
    <3>3. {c[i] : i \in DOMAIN c} = set /\ Len(c) = Cardinality(set)
      BY <3>1, CollectedIsSet
    <3> HIDE DEF c
    <3>4. g_vm_streams[vm] = c
      BY <3>2 DEF c
    <3>5. {g_vm_streams[vm][i] : i \in DOMAIN g_vm_streams[vm]} = set /\ Len(g_vm_streams[vm]) = Cardinality(set)
      BY <3>3, <3>4
    <3> QED
      BY <3>5 DEF set
  <2> QED
    BY <2>2, <2>3, <2>4 DEF DevicesWhole
<1> QED
  BY <1>5, <1>6

LEMMA PolicyHolds ==
  ASSUME PolicyAssumption, PolInv
  PROVE  DmaPolicySound
<1>1. dmaStage \in {"isolated", "running", "no devices"} => ReachIsolated /\ DevicesWhole /\ RamSound /\ OwnersSound /\ VmidsSound
  BY BuiltIsSound, SoundIsAccepted DEF PolInv
<1>2. ASSUME dmaStage = "running" PROVE RegistryAgrees
  <2>1. dmaImage \in DmaConfigs /\ OwnersSound /\ g_registry = RegistryEntries(dmaImage.assignments) /\ g_bindings = Bindings(dmaImage.assignments)
    BY <1>1, <1>2 DEF PolInv, DmaBuilt
  <2>2. ASSUME NEW i \in DOMAIN g_registry, NEW s \in StreamsOf(dmaImage, g_registry[i].dev) PROVE g_bindings[s] = g_registry[i].vm
    <3>1. PICK j \in DOMAIN dmaImage.assignments : g_registry[i].dev = dmaImage.assignments[j].dev /\ g_registry[i].vm = dmaImage.assignments[j].vm
      BY <2>1, RegistryIs
    <3> QED
      BY <2>1, <2>2, <3>1, BindingsAre
  <2> QED
    BY <2>1, <2>2, RegistryIs DEF RegistryAgrees
<1>3. dmaStage = "panic" /\ validate_capabilities(dmaImage.smmu) => ~(Vms # {} /\ RamSound /\ OwnersSound /\ VmidsSound)
  BY SoundIsAccepted DEF PolInv
<1> QED
  BY <1>1, <1>2, <1>3 DEF DmaPolicySound

\* Whatever image a machine is given, it isolates DMA or stops, and it stops only for
\* an image at fault.
THEOREM PolicyIsolates == PolSpec => []DmaPolicySound
<1>1. PolInit => PolInv
  BY PolicyStarts
<1>2. PolInv /\ [PolNext]_polVars => PolInv'
  BY PolicyStep
<1>3. PolInv => DmaPolicySound
  BY PolicyAssumption, PolicyHolds
<1> QED
  BY <1>1, <1>2, <1>3, PTL DEF PolSpec

=============================================================================
