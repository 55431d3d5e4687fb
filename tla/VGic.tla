-------------------------------- MODULE VGic --------------------------------
(***************************************************************************)
(* Virtual interrupt delivery of one VM: the vgic component's pending      *)
(* sets, list registers and EOI tokens, the re-evaluation fan-out of smp   *)
(* and the part of the scheduler that saves, restores, blocks and wakes.   *)
(*                                                                         *)
(* A vCPU belongs to one core.  While it is resident its list registers    *)
(* are the hardware's and the shadow is stale; otherwise the shadow is the *)
(* truth.  EL2 code is a per-core agenda of instructions, one for every    *)
(* critical section of the VM lock and every access to shared atomics; a   *)
(* guest instruction, interrupt or switch finds the agenda empty.          *)
(***************************************************************************)
EXTENDS Integers, Sequences, FiniteSets

CONSTANTS
  Cores,     \* physical cores
  Vcpus,     \* the VM's vCPUs, from 0
  Affinity,  \* owning core of each vCPU
  Sgis,      \* software-generated interrupts: always enabled after a reset
  Ppis,      \* private peripheral interrupts: disabled after a reset
  Spis,      \* shared interrupts
  Tracked,   \* the SPIs a physical device is behind
  Prio,      \* priority of each interrupt: the lower value goes first
  LrCount,   \* implemented list registers
  BoxSize,   \* entries of a mailbox an ordinary request may use
  MaxGen,    \* model bound: device generations
  Busy,      \* model bound: cores on which posts and register writes start
  MaxEvents  \* model bound: posts, register writes and parkings of a vCPU

Priv   == Sgis \cup Ppis
Intids == Priv \cup Spis
Lrs    == 1..LrCount

ASSUME VGicAssumption ==
  /\ Vcpus \subseteq Nat /\ 0 \in Vcpus /\ IsFiniteSet(Vcpus)
  /\ Affinity \in [Vcpus -> Cores]
  /\ Intids \subseteq Nat /\ Priv \cap Spis = {} /\ IsFiniteSet(Intids)
  /\ Tracked \subseteq Spis
  /\ Prio \in [Intids -> Nat]
  /\ LrCount \in Nat \ {0} /\ BoxSize \in Nat
  /\ MaxGen \in Nat \ {0} /\ MaxEvents \in Nat

VARIABLES
  redist,    \* per vCPU: pending and enabled private interrupts
  dist,      \* pending and enabled SPIs, and the vCPU each is routed to
  owed,      \* g_spi_tokens: generation owed an EOI by a pending SPI, or 0
  lr,        \* per vCPU: list register shadow
  token,     \* per vCPU: lr_token, the generation behind each register, or 0
  uie,       \* per vCPU: the banked underflow enable of ICH_HCR
  hw,        \* per core: hardware list registers
  hwUie,     \* per core: hardware underflow enable
  resident,  \* per core: whose registers the hardware holds
  state,     \* per vCPU: scheduler state
  dirty,     \* g_reevaluate: per core, the vCPUs to refill
  mail,      \* per core: private interrupts posted from other cores
  sgi,       \* per core: is the cross-call SGI pending?
  armed,     \* per tracked SPI: is the physical line unmasked?
  gen,       \* generation of the VM's devices
  wild,      \* cores that indexed a table with kNoResident
  spent,     \* posts, register writes and parkings so far, for the model bound
  agenda     \* per core: what is left of the EL2 code it executes

banks  == <<redist, dist, owed>>
shadow == <<lr, token, uie>>
hard   == <<hw, hwUie, resident>>
calls  == <<dirty, mail, sgi>>
device == <<armed, gen>>
rest   == <<wild, spent>>
vars   == <<banks, shadow, hard, state, calls, device, rest, agenda>>

-----------------------------------------------------------------------------
(* Values.                                                                 *)

None  == -1       \* kNoResident
Other == -2       \* a vCPU of another VM
FreeLr  == [st |-> "free", id |-> 0, eoi |-> FALSE]
ListReg == [st : {"free", "pending", "active"}, id : Intids \cup {0}, eoi : BOOLEAN]
EmptyLrs    == [i \in Lrs |-> FreeLr]
NoTokens    == [i \in Lrs |-> 0]
ResetRedist == [pending |-> {}, enabled |-> Sgis]
ResetDist   == [pending |-> {}, enabled |-> {}, route |-> [s \in Spis |-> 0]]

Steps == {"pend", "flush", "wake", "sleep", "notify", "reeval", "exchange", "boot"}
Instr == {i \in [do : Steps, at : Vcpus, id : Priv \cup {0}, more : SUBSET Vcpus] :
            i.do = "pend" => i.id \in Priv}
Do(what, v) == [do |-> what, at |-> v, id |-> 0, more |-> {}]

\* A loop over vCPUs in ascending order: the first, and those after it.
Least(S) == CHOOSE v \in S : \A w \in S : v <= w
Each(what, S) ==
  IF S = {} THEN <<>> ELSE <<[Do(what, Least(S)) EXCEPT !.more = S \ {Least(S)}]>>

At(c, what) == agenda[c] # <<>> /\ Head(agenda[c]).do = what
Now(c)      == Head(agenda[c])
Then(c, is) == agenda' = [agenda EXCEPT ![c] = is \o Tail(@)]
Enter(c, is) == agenda[c] = <<>> /\ agenda' = [agenda EXCEPT ![c] = is]
Count       == spent < MaxEvents /\ spent' = spent + 1
Resting(c)  == c \notin wild /\ agenda[c] = <<>>

-----------------------------------------------------------------------------
(* The delivery model (vgic_delivery.hpp).                                 *)

InFlight(r) == r.st # "free"
FlightIds(regs) == {regs[i].id : i \in {j \in Lrs : InFlight(regs[j])}}

\* deliverable() and spi_deliverable()
Wanted(v) ==
  (redist[v].pending \cap redist[v].enabled)
    \cup {s \in dist.pending \cap dist.enabled : dist.route[s] = v}

\* The order in which refill() picks: by priority, then by INTID.
Before(x, y) == Prio[x] < Prio[y] \/ (Prio[x] = Prio[y] /\ x < y)
Rank(x, S) == Cardinality({y \in S : Before(y, x)}) + 1

\* Fault: refill() forgets what is already in flight.
EveryWanted(regs, v) == Wanted(v)
\* What refill() would inject: an interrupt in flight cannot be injected again.
Candidates(regs, v) == Wanted(v) \ FlightIds(regs)

\* The deactivation of an interrupt wanted again brings the core back.
ArmEoi(r, v) == IF InFlight(r) /\ r.id \in Wanted(v) THEN [r EXCEPT !.eoi = TRUE] ELSE r

\* refill(): the best candidates move into the free registers in order; an
\* interrupt already in flight stays pending and arms EOI maintenance.
Refill(regs, v) ==
  LET cand   == Candidates(regs, v)
      free   == {i \in Lrs : ~InFlight(regs[i])}
      turn(i) == Cardinality({j \in free : j <= i})
      best(i) == {x \in cand : Rank(x, cand) = turn(i)}
      used   == {i \in free : best(i) # {}}
      pick(i) == CHOOSE x \in best(i) : TRUE
      owes(x) == IF x \in Spis THEN owed[x] ELSE 0
      placed == {pick(i) : i \in used}
  IN [regs |-> [i \in Lrs |->
        IF i \in used THEN [st |-> "pending", id |-> pick(i), eoi |-> owes(pick(i)) # 0]
        ELSE ArmEoi(regs[i], v)],
      tokens |-> [i \in Lrs |-> IF i \in used THEN owes(pick(i)) ELSE token[v][i]],
      placed |-> placed,
      overflow |-> placed # cand]

\* Fault: the token is copied into the register, not moved.
TakeNoToken(v, placed) ==
  /\ redist' = [redist EXCEPT ![v].pending = @ \ placed]
  /\ dist'   = [dist EXCEPT !.pending = @ \ placed]
  /\ UNCHANGED owed

\* What the refill takes out of the pending words and the SPI tokens.
Take(v, placed) ==
  /\ redist' = [redist EXCEPT ![v].pending = @ \ placed]
  /\ dist'   = [dist EXCEPT !.pending = @ \ placed]
  /\ owed'   = [s \in Spis |-> IF s \in placed THEN 0 ELSE owed[s]]

\* sync_resident_lrs(): the registers a vCPU really has.
Truth(v) == IF resident[Affinity[v]] = v THEN hw[Affinity[v]] ELSE lr[v]

\* flush()
Flush(v) ==
  LET r == Refill(Truth(v), v)
      c == Affinity[v]
  IN /\ Take(v, r.placed)
     /\ lr' = [lr EXCEPT ![v] = r.regs]
     /\ token' = [token EXCEPT ![v] = r.tokens]
     /\ IF resident[c] = v
        THEN /\ hw' = [hw EXCEPT ![c] = r.regs]
             /\ hwUie' = [hwUie EXCEPT ![c] = r.overflow]
             /\ UNCHANGED uie
        ELSE uie' = [uie EXCEPT ![v] = r.overflow] /\ UNCHANGED <<hw, hwUie>>

\* has_deliverable()
HasDeliverable(v) == (\E i \in Lrs : Truth(v)[i].st = "pending") \/ Wanted(v) # {}

\* ICH_EISR: registers whose interrupt was retired with maintenance asked for.
Eisr(c) == {i \in Lrs : ~InFlight(hw[c][i]) /\ hw[c][i].eoi}

\* drain_eois() on a resident vCPU, with handle_virtual_eoi() for each token:
\* only a token of the device's present generation unmasks its line.
DrainEois(c, v) ==
  LET ended == {i \in Eisr(c) : token[v][i] # 0}
      current == {hw[c][i].id : i \in {j \in ended : token[v][j] = gen}}
  IN /\ lr' = [lr EXCEPT ![v] = [i \in Lrs |-> IF i \in Eisr(c) THEN FreeLr ELSE @[i]]]
     /\ token' = [token EXCEPT ![v] = [i \in Lrs |-> IF i \in Eisr(c) THEN 0 ELSE @[i]]]
     /\ hw' = [hw EXCEPT ![c] = [i \in Lrs |-> IF i \in Eisr(c) THEN FreeLr ELSE @[i]]]
     /\ armed' = [s \in Tracked |-> armed[s] \/ s \in current]

-----------------------------------------------------------------------------
(* EL2 code.                                                               *)

\* A refill on the owner core; a vCPU that blocked is then looked at.
Refresh(v) ==
  IF state[v] = "off" THEN <<>>
  ELSE IF state[v] = "blocked" THEN <<Do("flush", v), Do("wake", v)>>
  ELSE <<Do("flush", v)>>

\* post_virq on the owner: a private interrupt of a vCPU that is on.
Pended(v, p) ==
  redist' = IF state[v] = "off" THEN redist
            ELSE [redist EXCEPT ![v].pending = @ \cup {p}]

Pend(c) ==
  /\ At(c, "pend")
  /\ Pended(Now(c).at, Now(c).id)
  /\ Then(c, Refresh(Now(c).at))
  /\ UNCHANGED <<dist, owed, shadow, hard, state, calls, device, rest>>

DoFlush(c) ==
  /\ At(c, "flush")
  /\ Flush(Now(c).at)
  /\ Then(c, <<>>)
  /\ UNCHANGED <<resident, state, calls, device, rest>>

Sync(v) == lr' = [lr EXCEPT ![v] = Truth(v)]

\* A blocked vCPU becomes ready when the vGIC would signal it.
Wake(c) ==
  /\ At(c, "wake")
  /\ LET v == Now(c).at IN
     /\ state' = IF HasDeliverable(v) THEN [state EXCEPT ![v] = "ready"] ELSE state
     /\ Sync(v)
  /\ Then(c, <<>>)
  /\ UNCHANGED <<banks, token, uie, hard, calls, device, rest>>

\* handle_wfx after its flush: a NOP with something to take, else block.
Sleep(c) ==
  /\ At(c, "sleep")
  /\ LET v == Now(c).at IN
     /\ state' = IF HasDeliverable(v) THEN state ELSE [state EXCEPT ![v] = "blocked"]
     /\ Sync(v)
  /\ Then(c, <<>>)
  /\ UNCHANGED <<banks, token, uie, hard, calls, device, rest>>

\* Fault: the first mark raises no cross-call SGI, a later one does.
NotifyLate(c) ==
  /\ At(c, "notify")
  /\ LET v == Now(c).at
         o == Affinity[v]
     IN IF o = c \/ state[v] = "off"
        THEN Then(c, Refresh(v) \o Each("notify", Now(c).more)) /\ UNCHANGED <<dirty, sgi>>
        ELSE /\ dirty' = [dirty EXCEPT ![o] = @ \cup {v}]
             /\ sgi' = [sgi EXCEPT ![o] = @ \/ dirty[o] # {}]
             /\ Then(c, Each("notify", Now(c).more))
  /\ UNCHANGED <<banks, shadow, hard, state, mail, device, rest>>

\* smp::reevaluate_virq: refill here, or mark it for the owner; the first
\* mark raises the cross-call SGI.
Notify(c) ==
  /\ At(c, "notify")
  /\ LET v == Now(c).at
         o == Affinity[v]
     IN IF o = c \/ state[v] = "off"
        THEN Then(c, Refresh(v) \o Each("notify", Now(c).more)) /\ UNCHANGED <<dirty, sgi>>
        ELSE /\ dirty' = [dirty EXCEPT ![o] = @ \cup {v}]
             /\ sgi' = [sgi EXCEPT ![o] = @ \/ dirty[o] = {}]
             /\ Then(c, Each("notify", Now(c).more))
  /\ UNCHANGED <<banks, shadow, hard, state, mail, device, rest>>

\* vcpu::reevaluate_virq
Reeval(c) ==
  /\ At(c, "reeval")
  /\ Then(c, Refresh(Now(c).at) \o Each("reeval", Now(c).more))
  /\ UNCHANGED <<banks, shadow, hard, state, calls, device, rest>>

\* Drain the bitmap until it is stable.
Exchange(c) ==
  /\ At(c, "exchange")
  /\ dirty' = [dirty EXCEPT ![c] = {}]
  /\ Then(c, IF dirty[c] = {} THEN <<>> ELSE Each("reeval", dirty[c]) \o <<Now(c)>>)
  /\ UNCHANGED <<banks, shadow, hard, state, mail, sgi, device, rest>>

-----------------------------------------------------------------------------
(* Interrupts a core takes.                                                *)

\* The cross-call SGI: the mailbox in one batch, then the bitmap.
CrossCall(c) ==
  /\ Resting(c) /\ sgi[c]
  /\ sgi' = [sgi EXCEPT ![c] = FALSE]
  /\ mail' = [mail EXCEPT ![c] = <<>>]
  /\ Enter(c, mail[c] \o <<Do("exchange", 0)>>)
  /\ UNCHANGED <<banks, shadow, hard, state, dirty, device, rest>>

\* PPI 25 is a level: an EOI to harvest, or registers running dry.
Maintenance(c) ==
  Eisr(c) # {} \/ (hwUie[c] /\ Cardinality({i \in Lrs : InFlight(hw[c][i])}) <= 1)

HandleMaintenance(c) ==
  /\ Resting(c) /\ Maintenance(c)
  /\ resident[c] \in Vcpus
  /\ DrainEois(c, resident[c])
  /\ Enter(c, <<Do("flush", resident[c])>>)
  /\ UNCHANGED <<banks, uie, hwUie, resident, state, calls, gen, rest>>

\* The same handler with nobody resident passes kNoResident on as an index.
StrayMaintenance(c) ==
  /\ Resting(c) /\ Maintenance(c)
  /\ resident[c] = None
  /\ wild' = wild \cup {c}
  /\ UNCHANGED <<banks, shadow, hard, state, calls, device, spent, agenda>>

\* The device's interrupt, routed to the VM's owner core: mask the line, bind
\* a token, tell the routed vCPU.  The generation cannot change in between,
\* since the lifecycle runs on the same core.
DeviceIrq(c, s) ==
  /\ Count
  /\ Resting(c) /\ c = Affinity[0] /\ armed[s] /\ \E v \in Vcpus : state[v] # "off"
  /\ armed' = [armed EXCEPT ![s] = FALSE]
  /\ IF owed[s] # 0 THEN UNCHANGED <<dist, owed, agenda>>
     ELSE /\ owed' = [owed EXCEPT ![s] = gen]
          /\ dist' = [dist EXCEPT !.pending = @ \cup {s}]
          /\ Enter(c, <<Do("notify", dist.route[s])>>)
  /\ UNCHANGED <<redist, shadow, hard, state, calls, gen, wild>>

\* post_spi: the UART, a host command or post_virq, on any core.
PostSpi(c, s) ==
  /\ c \in Busy /\ Count
  /\ Resting(c)
  /\ dist' = [dist EXCEPT !.pending = @ \cup {s}]
  /\ Enter(c, <<Do("notify", dist.route[s])>>)
  /\ UNCHANGED <<redist, owed, shadow, hard, state, calls, device, wild>>

\* post_virq by EL2 code of the owner: the virtual timer, a doorbell.
PostPrivate(c, v, p) ==
  /\ c \in Busy /\ Count
  /\ Resting(c) /\ Affinity[v] = c
  /\ Pended(v, p)
  /\ Enter(c, Refresh(v))
  /\ UNCHANGED <<dist, owed, shadow, hard, state, calls, device, wild>>

-----------------------------------------------------------------------------
(* What the guest does on the core it occupies.                            *)

Guested(c) == Resting(c) /\ resident[c] \in Vcpus /\ state[resident[c]] = "running"
SetLr(c, i, r) == hw' = [hw EXCEPT ![c][i] = r]

\* The virtual CPU interface: acknowledge and end an interrupt.
GuestAck(c) ==
  /\ Guested(c)
  /\ \E i \in Lrs : hw[c][i].st = "pending" /\ SetLr(c, i, [hw[c][i] EXCEPT !.st = "active"])
  /\ UNCHANGED <<banks, shadow, hwUie, resident, state, calls, device, rest, agenda>>

GuestEoi(c) ==
  /\ Guested(c)
  /\ \E i \in Lrs : hw[c][i].st = "active" /\ SetLr(c, i, [hw[c][i] EXCEPT !.st = "free"])
  /\ UNCHANGED <<banks, shadow, hwUie, resident, state, calls, device, rest, agenda>>

\* ICC_SGI1R: each target on this core is posted to, the others get a
\* mailbox entry; a full box drops it.
GuestSgi(c, v, p) ==
  /\ c \in Busy /\ Count
  /\ Guested(c)
  /\ LET o == Affinity[v] IN
     IF o = c
     THEN Pended(v, p) /\ Enter(c, Refresh(v)) /\ UNCHANGED <<mail, sgi>>
     ELSE /\ Len(mail[o]) < BoxSize
          /\ mail' = [mail EXCEPT ![o] = Append(@, [Do("pend", v) EXCEPT !.id = p])]
          /\ sgi' = [sgi EXCEPT ![o] = TRUE]
          /\ UNCHANGED <<redist, agenda>>
  /\ UNCHANGED <<dist, owed, shadow, hard, state, dirty, device, wild>>

\* Fault: a clear of the pending word spares nothing.
KeepNothing == {}

\* ICPENDR1 spares an SPI that owes a device its EOI.
KeepPending == {s \in Spis : owed[s] # 0}

\* Fault: the route is stored as the guest wrote it.
AnyRoute == {[dist EXCEPT !.route[s] = Cardinality(Vcpus)] : s \in Spis}

\* spi_target() takes a route outside the VM for vCPU 0.
Routes == {[dist EXCEPT !.route[s] = v] : s \in Spis, v \in Vcpus}

\* ISENABLER1, ICENABLER1, ISPENDR1, ICPENDR1 and IROUTER.
DistWrites ==
  {[dist EXCEPT !.enabled = @ \cup {s}] : s \in Spis}
    \cup {[dist EXCEPT !.enabled = @ \ {s}] : s \in Spis}
    \cup {[dist EXCEPT !.pending = @ \cup {s}] : s \in Spis}
    \cup {[dist EXCEPT !.pending = (@ \ {s}) \cup KeepPending] : s \in Spis}
    \cup Routes

\* A distributor write that matters is fanned out to every vCPU of the VM.
DistMmio(c) ==
  /\ Guested(c)
  /\ c \in Busy /\ Count
  /\ dist' \in DistWrites
  /\ Enter(c, Each("notify", Vcpus))
  /\ UNCHANGED <<redist, owed, shadow, hard, state, calls, device, wild>>

RedistWrites(v) ==
  {[redist[v] EXCEPT !.enabled = @ \cup {p}] : p \in Priv}
    \cup {[redist[v] EXCEPT !.enabled = @ \ {p}] : p \in Priv}
    \cup {[redist[v] EXCEPT !.pending = @ \cup {p}] : p \in Priv}
    \cup {[redist[v] EXCEPT !.pending = @ \ {p}] : p \in Priv}

\* A redistributor frame, its own or a sibling's.
RedistMmio(c, v) ==
  /\ Guested(c)
  /\ c \in Busy /\ Count
  /\ \E r \in RedistWrites(v) : redist' = [redist EXCEPT ![v] = r]
  /\ Enter(c, <<Do("notify", v)>>)
  /\ UNCHANGED <<dist, owed, shadow, hard, state, calls, device, wild>>

GuestWfi(c) ==
  /\ Guested(c)
  /\ Enter(c, <<Do("flush", resident[c]), Do("sleep", resident[c])>>)
  /\ UNCHANGED <<banks, shadow, hard, state, calls, device, rest>>

-----------------------------------------------------------------------------
(* Switches and power.                                                     *)

\* cpu_save of whoever of this VM is resident: EOIs, registers, enable.
Saved(c) ==
  IF resident[c] \notin Vcpus THEN UNCHANGED <<lr, token, uie, armed>>
  ELSE LET v == resident[c]
           ended == {i \in Eisr(c) : token[v][i] # 0}
       IN /\ lr' = [lr EXCEPT ![v] = [i \in Lrs |-> IF i \in Eisr(c) THEN FreeLr ELSE hw[c][i]]]
          /\ token' = [token EXCEPT ![v] = [i \in Lrs |-> IF i \in Eisr(c) THEN 0 ELSE @[i]]]
          /\ uie' = [uie EXCEPT ![v] = hwUie[c]]
          /\ armed' = [s \in Tracked |-> armed[s] \/
                         \E i \in ended : hw[c][i].id = s /\ token[v][i] = gen]
Parked(c) ==
  IF resident[c] \in Vcpus /\ state[resident[c]] = "running"
  THEN [state EXCEPT ![resident[c]] = "ready"] ELSE state

\* Another VM's vCPU takes the core and brings its own registers.
SwitchOut(c) ==
  /\ Resting(c) /\ resident[c] # Other
  /\ Count
  /\ Saved(c)
  /\ state' = Parked(c)
  /\ hw' = [hw EXCEPT ![c] = EmptyLrs] /\ hwUie' = [hwUie EXCEPT ![c] = FALSE]
  /\ resident' = [resident EXCEPT ![c] = Other]
  /\ UNCHANGED <<banks, calls, gen, wild, agenda>>

\* cpu_restore: refill the shadow, move it into the hardware.  A direct
\* switch between two vCPUs of the VM is a SwitchOut and a SwitchIn.
SwitchIn(c, v) ==
  /\ Resting(c) /\ resident[c] \notin Vcpus
  /\ Affinity[v] = c /\ state[v] = "ready"
  /\ LET r == Refill(lr[v], v) IN
     /\ Take(v, r.placed)
     /\ lr' = [lr EXCEPT ![v] = r.regs]
     /\ token' = [token EXCEPT ![v] = r.tokens]
     /\ uie' = [uie EXCEPT ![v] = r.overflow]
     /\ hw' = [hw EXCEPT ![c] = r.regs] /\ hwUie' = [hwUie EXCEPT ![c] = r.overflow]
  /\ resident' = [resident EXCEPT ![c] = v]
  /\ state' = [state EXCEPT ![v] = "running"]
  /\ UNCHANGED <<calls, device, rest, agenda>>

\* The idle loop finds its own resident vCPU ready again.
Resume(c) ==
  /\ Resting(c) /\ resident[c] \in Vcpus /\ state[resident[c]] = "ready"
  /\ state' = [state EXCEPT ![resident[c]] = "running"]
  /\ UNCHANGED <<banks, shadow, hard, calls, device, rest, agenda>>

\* retire_vcpu: a resident vCPU leaves its registers behind.
Retire(c, v) ==
  /\ Resting(c) /\ Affinity[v] = c /\ state[v] # "off"
  /\ Count
  /\ state' = [state EXCEPT ![v] = "off"]
  /\ resident' = [resident EXCEPT ![c] = IF @ = v THEN None ELSE @]
  /\ UNCHANGED <<banks, shadow, hw, hwUie, calls, device, wild, agenda>>

\* cpu_reset, then ready.
Seed(v) ==
  /\ redist' = [redist EXCEPT ![v] = ResetRedist]
  /\ lr' = [lr EXCEPT ![v] = EmptyLrs]
  /\ token' = [token EXCEPT ![v] = NoTokens]
  /\ uie' = [uie EXCEPT ![v] = FALSE]
  /\ state' = [state EXCEPT ![v] = "ready"]

\* start_vcpu: CPU_ON for a vCPU of a VM that is on.
Start(c, v) ==
  /\ Resting(c) /\ Affinity[v] = c /\ state[v] = "off"
  /\ \E w \in Vcpus \ {v} : state[w] # "off"
  /\ Seed(v)
  /\ UNCHANGED <<dist, owed, hard, calls, device, rest, agenda>>

\* The lifecycle of a VM that is entirely off: vm_reset, devices that were
\* masked and quiesced come back with a new generation, vCPU 0 starts.
VmReset(c) ==
  /\ Resting(c) /\ c = Affinity[0] /\ gen < MaxGen
  /\ \A v \in Vcpus : state[v] = "off"
  /\ dist' = ResetDist
  /\ owed' = [s \in Spis |-> 0]
  /\ armed' = [s \in Tracked |-> TRUE]
  /\ gen' = gen + 1
  /\ Enter(c, <<Do("boot", 0)>>)
  /\ UNCHANGED <<redist, shadow, hard, state, calls, rest>>

Boot(c) ==
  /\ At(c, "boot")
  /\ Seed(0)
  /\ Then(c, <<>>)
  /\ UNCHANGED <<dist, owed, hard, calls, device, rest>>

-----------------------------------------------------------------------------
(* Specification.                                                          *)

Init ==
  /\ redist = [v \in Vcpus |-> ResetRedist]
  /\ dist = ResetDist
  /\ owed = [s \in Spis |-> 0]
  /\ lr = [v \in Vcpus |-> EmptyLrs]
  /\ token = [v \in Vcpus |-> NoTokens]
  /\ uie = [v \in Vcpus |-> FALSE]
  /\ hw = [c \in Cores |-> EmptyLrs]
  /\ hwUie = [c \in Cores |-> FALSE]
  /\ resident = [c \in Cores |-> None]
  /\ state = [v \in Vcpus |-> IF v = 0 THEN "ready" ELSE "off"]
  /\ dirty = [c \in Cores |-> {}]
  /\ mail = [c \in Cores |-> <<>>]
  /\ sgi = [c \in Cores |-> FALSE]
  /\ armed = [s \in Tracked |-> TRUE]
  /\ gen = 1
  /\ wild = {}
  /\ spent = 0
  /\ agenda = [c \in Cores |-> <<>>]

\* EL2 code a core is in the middle of.
Execute(c) ==
  c \notin wild /\ ( Pend(c) \/ DoFlush(c) \/ Wake(c) \/ Sleep(c) \/ Notify(c)
                     \/ Reeval(c) \/ Exchange(c) \/ Boot(c) )

\* Interrupts and posts.
Interrupt(c) ==
  \/ CrossCall(c) \/ HandleMaintenance(c) \/ StrayMaintenance(c)
  \/ \E s \in Tracked : DeviceIrq(c, s)
  \/ \E s \in Spis : PostSpi(c, s)
  \/ \E v \in Vcpus, p \in Priv : PostPrivate(c, v, p)

\* Guest instructions.
Guest(c) ==
  \/ GuestAck(c) \/ GuestEoi(c) \/ GuestWfi(c) \/ DistMmio(c)
  \/ \E v \in Vcpus : RedistMmio(c, v) \/ \E p \in Sgis : GuestSgi(c, v, p)

\* The scheduler and the lifecycle.
Power(c) ==
  \/ SwitchOut(c) \/ Resume(c) \/ VmReset(c)
  \/ \E v \in Vcpus : SwitchIn(c, v) \/ Retire(c, v) \/ Start(c, v)

Next == \E c \in Cores : Execute(c) \/ Interrupt(c) \/ Guest(c) \/ Power(c)

Spec == Init /\ [][Next]_vars

-----------------------------------------------------------------------------
(* Type invariant.                                                         *)

States == {"off", "ready", "running", "blocked"}

\* Every variable holds values of its type.
TypeOK ==
  /\ redist \in [Vcpus -> [pending : SUBSET Priv, enabled : SUBSET Priv]]
  /\ dist \in [pending : SUBSET Spis, enabled : SUBSET Spis, route : [Spis -> Vcpus]]
  /\ owed \in [Spis -> Nat]
  /\ lr \in [Vcpus -> [Lrs -> ListReg]] /\ hw \in [Cores -> [Lrs -> ListReg]]
  /\ token \in [Vcpus -> [Lrs -> Nat]]
  /\ uie \in [Vcpus -> BOOLEAN] /\ hwUie \in [Cores -> BOOLEAN]
  /\ resident \in [Cores -> Vcpus \cup {None, Other}]
  /\ state \in [Vcpus -> States]
  /\ dirty \in [Cores -> SUBSET Vcpus]
  /\ mail \in [Cores -> Seq(Instr)] /\ sgi \in [Cores -> BOOLEAN]
  /\ armed \in [Tracked -> BOOLEAN] /\ gen \in Nat
  /\ wild \subseteq Cores /\ spent \in Nat
  /\ agenda \in [Cores -> Seq(Instr)]

-----------------------------------------------------------------------------
(* Safety.                                                                 *)

\* An interrupt never sits in two list registers of the same vCPU, whichever
\* of the shadow and the hardware holds them (refill's in-flight set).
NoDoubleInjection ==
  \A v \in Vcpus : \A i, j \in Lrs :
    InFlight(Truth(v)[i]) /\ InFlight(Truth(v)[j]) /\ Truth(v)[i].id = Truth(v)[j].id => i = j

\* "losing its pending bit would lose the interrupt and its EOI-driven rearm"
\* (dist_write): an SPI that owes a device its EOI is pending, whatever the
\* guests and the refills of all cores do to the pending word.
OwedIsPending == \A s \in Spis : owed[s] # 0 => s \in dist.pending

\* The token of a device interrupt: bound to the distributor or moved to one
\* list register, never both and never in two registers.
Holders(s) ==
  {v \in Vcpus : state[v] # "off" /\
     \E i \in Lrs : token[v][i] = gen /\ Truth(v)[i].id = s}
OneToken ==
  \A s \in Tracked :
    /\ Cardinality(Holders(s)) + (IF owed[s] # 0 THEN 1 ELSE 0) <= 1
    /\ armed[s] => Holders(s) = {} /\ owed[s] = 0

\* EL2 code still has work to do for a vCPU: on its own core, by an SGI that
\* was raised for it, or by a call another core has still to make.
Notified(v) ==
  \/ sgi[Affinity[v]] \/ agenda[Affinity[v]] # <<>>
  \/ \E c \in Cores : \E n \in DOMAIN agenda[c] : /\ agenda[c][n].do = "notify"
                                          /\ v \in {agenda[c][n].at} \cup agenda[c][n].more

\* A running vCPU never misses an interrupt it would take: with EL2 quiet, an
\* interrupt that is not in a list register waits for one that is in flight,
\* and the end of that one, or of all but one, brings the core back.
NothingStranded ==
  \A c \in Cores :
    LET v == resident[c] IN
    v \in Vcpus /\ state[v] = "running" /\ ~Notified(v) /\ ~Maintenance(c) =>
      \A x \in Wanted(v) :
        \/ hwUie[c]
        \/ \E i \in Lrs : InFlight(hw[c][i]) /\ hw[c][i].id = x /\ hw[c][i].eoi

\* A blocked vCPU never sleeps through an interrupt it would take: while one
\* is deliverable, somebody is on the way to wake it.  Nor does a running one
\* miss it: what waits outside the list registers is brought in by an end of
\* interrupt that is still to come.
NoLostWakeup ==
  /\ \A v \in Vcpus : state[v] = "blocked" /\ HasDeliverable(v) => Notified(v)
  /\ NothingStranded
=============================================================================
