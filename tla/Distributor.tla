----------------------------- MODULE Distributor -----------------------------
(***************************************************************************)
(* The physical GICv3 distributor as EL2 drives it (hal/drivers/gicv3.hpp, *)
(* nova/arch/gicv3/spi.hpp): the scrub at boot, and the operations on      *)
(* shared interrupts (SPIs) that any core may run at the same time as      *)
(* another.                                                                *)
(*                                                                         *)
(* Registers that share a word are functions over the INTIDs of the word;  *)
(* a read-modify-write takes two steps and carries the whole word.  A      *)
(* write has taken effect when the register-write-pending bit is clear,    *)
(* and the wait for it ends; the budget that bounds the wait is left out.  *)
(***************************************************************************)
EXTENDS Integers, FiniteSets

CONSTANTS
  IntidsPerBank,     \* kIntidsPerBank (32)
  SpecialIntidBase,  \* kSpecialIntidBase (1020)
  LineBanks,         \* what GICD_TYPER.ITLinesNumber may say of a board
  GicCores,          \* the cores of the affinity table
  FirmwareOwned,     \* INTIDs the secure world keeps, where it shows two states
  TriedIntids,       \* INTIDs the callers name
  MaxSpiOps          \* bound: operations begun

ASSUME DistributorAssumption ==
  /\ IntidsPerBank \in Nat \ {0} /\ IntidsPerBank % 2 = 0
  /\ SpecialIntidBase \in Nat /\ SpecialIntidBase > IntidsPerBank
  /\ LineBanks \subseteq Nat /\ GicCores \subseteq Nat /\ TriedIntids \subseteq Nat

VARIABLES
  gicd_lines,      \* GICD_TYPER.ITLinesNumber
  gicd_ctlr,       \* "inherited", "routing" (ARE) and "forwarding" (ARE | ENABLE_GRP1)
  gicd_group,      \* IGROUPR: the Non-secure group
  gicd_grpmod,     \* IGRPMODR
  gicd_enabled,    \* ISENABLER, ICENABLER
  gicd_pending,    \* ISPENDR, ICPENDR
  gicd_active,     \* ISACTIVER, ICACTIVER
  gicd_edge,       \* ICFGR
  gicd_route,      \* IROUTER: a core, or Elsewhere
  config_lock,     \* who holds it, or Nobody
  spiOp,           \* the operation each core is in
  spiOps,          \* operations begun
  asked,           \* what the last configure_spi of an INTID was asked, and did
  unmasked         \* INTIDs that EL2 has enabled since it disabled them

gicRegs == <<gicd_ctlr, gicd_group, gicd_grpmod, gicd_enabled, gicd_pending, gicd_active, gicd_edge, gicd_route>>
distVars == <<gicd_lines, gicRegs, config_lock, spiOp, spiOps, asked, unmasked>>

Nobody    == -1
Elsewhere == -1
NotAsked  == [edge |-> FALSE, core |-> Elsewhere]

\* The bank of an INTID, and its word of the configuration registers.
Bank(intid)       == intid \div IntidsPerBank
ConfigBank(intid) == intid \div (IntidsPerBank \div 2)
SameBank(intid)   == {i \in 0..(SpecialIntidBase - 1) : Bank(i) = Bank(intid)}
SameConfig(intid) == {i \in 0..(SpecialIntidBase - 1) : ConfigBank(i) = ConfigBank(intid)}

\* spi_registers: private INTIDs are the redistributor's, special ones nobody's.
spi_registers_valid(intid) == intid \in IntidsPerBank..(SpecialIntidBase - 1)

implemented_intids ==
  LET count == (gicd_lines + 1) * IntidsPerBank
  IN IF count < SpecialIntidBase THEN count ELSE SpecialIntidBase
spi_implemented(intid) == spi_registers_valid(intid) /\ intid < implemented_intids

\* The banks whose every INTID is implemented and not special.
implemented_banks == implemented_intids \div IntidsPerBank

Intids  == 0..(SpecialIntidBase - 1)
SpiIds  == {i \in Intids : spi_implemented(i)}

NoWord  == [i \in {} |-> FALSE]
NoSpiOp == [pc |-> "none", intid |-> 0, edge |-> FALSE, core |-> Elsewhere, word |-> NoWord, opens |-> FALSE]

\* A board after its firmware, at its worst: every interrupt is left enabled,
\* pending and active.
DistInit ==
  /\ gicd_lines \in LineBanks
  /\ gicd_ctlr = "inherited"
  /\ gicd_enabled = [i \in Intids |-> i \in SpiIds]
  /\ gicd_pending = gicd_enabled /\ gicd_active = gicd_enabled
  /\ gicd_group = [i \in Intids |-> FALSE] /\ gicd_grpmod = [i \in Intids |-> i \in SpiIds]
  /\ gicd_edge = [i \in Intids |-> FALSE] /\ gicd_route = [i \in Intids |-> Elsewhere]
  /\ config_lock = Nobody
  /\ spiOp = [c \in GicCores |-> NoSpiOp]
  /\ spiOps = 0
  /\ asked = [i \in Intids |-> NotAsked]
  /\ unmasked = {}

------------------------------------------------------------------------------
(* distributor_init, on the boot core, before any other call                *)

EnableRouting ==
  /\ gicd_ctlr = "inherited"
  /\ gicd_ctlr' = "routing"
  /\ UNCHANGED <<gicd_lines, gicd_group, gicd_grpmod, gicd_enabled, gicd_pending, gicd_active, gicd_edge, gicd_route>>
  /\ UNCHANGED <<config_lock, spiOp, spiOps, asked, unmasked>>

Scrubbed(i) == Bank(i) \in 1..(implemented_banks - 1)

\* scrub_distributor, and then Group 1: bank 0 belongs to the redistributors.
ScrubAndForward ==
  /\ gicd_ctlr = "routing"
  /\ gicd_ctlr' = "forwarding"
  /\ gicd_enabled' = [i \in Intids |-> gicd_enabled[i] /\ ~Scrubbed(i)]
  /\ gicd_pending' = [i \in Intids |-> gicd_pending[i] /\ ~Scrubbed(i)]
  /\ gicd_active'  = [i \in Intids |-> gicd_active[i] /\ ~Scrubbed(i)]
  /\ UNCHANGED <<gicd_lines, gicd_group, gicd_grpmod, gicd_edge, gicd_route, config_lock, spiOp, spiOps, asked, unmasked>>

------------------------------------------------------------------------------
(* The operations.  Begin looks the INTID up (resolve_spi); an INTID or a   *)
(* core the board does not have is refused before anything is written.      *)

Begin_(c, pc, intid, edge, core, opens) ==
  /\ gicd_ctlr = "forwarding" /\ spiOps < MaxSpiOps
  /\ spiOp[c].pc = "none"
  /\ spiOps' = spiOps + 1
  /\ IF spi_implemented(intid) /\ core \in GicCores
     THEN spiOp' = [spiOp EXCEPT ![c] = [pc |-> pc, intid |-> intid, edge |-> edge, core |-> core, word |-> NoWord, opens |-> opens]]
     ELSE UNCHANGED spiOp
  /\ UNCHANGED <<gicd_lines, gicRegs, config_lock, asked, unmasked>>

\* configure_spi, and enable_spi that unmasks after it.
BeginConfigure(c) ==
  \E intid \in TriedIntids, edge \in BOOLEAN, core \in {c, Elsewhere}, opens \in BOOLEAN :
    Begin_(c, "lock", intid, edge, core, opens)
\* mask_spi, unmask_spi, clear_pending_spi and quarantine_spi.
BeginWrite(c) ==
  \E pc \in {"mask", "unmask", "clear", "quarantine"}, intid \in TriedIntids : Begin_(c, pc, intid, FALSE, c, FALSE)

To(c, pc)         == spiOp' = [spiOp EXCEPT ![c].pc = pc]
Holding(c, pc, w) == spiOp' = [spiOp EXCEPT ![c].pc = pc, ![c].word = w]
Done(c)           == spiOp' = [spiOp EXCEPT ![c] = NoSpiOp]

\* Faulty: the words are shared, and nobody waits.
TakesNoLock(c) == UNCHANGED config_lock
TakeLock(c) == config_lock = Nobody /\ config_lock' = c

Lock(c) ==
  /\ spiOp[c].pc = "lock"
  /\ TakeLock(c)
  /\ To(c, "disable")
  /\ UNCHANGED <<gicd_lines, gicRegs, spiOps, asked, unmasked>>

Disable(i) ==
  /\ gicd_enabled' = [gicd_enabled EXCEPT ![i] = FALSE]
  /\ unmasked' = unmasked \ {i}
  /\ UNCHANGED <<gicd_lines, gicd_ctlr, gicd_group, gicd_grpmod, gicd_pending, gicd_active, gicd_edge, gicd_route>>
  /\ UNCHANGED <<config_lock, spiOps, asked>>

ConfigDisable(c) == spiOp[c].pc = "disable" /\ Disable(spiOp[c].intid) /\ To(c, "read group")

\* A bit the secure world owns ignores the write and reads as zero.
SecureOwned(i)         == i \in FirmwareOwned
Word(reg, S)    == [i \in S |-> reg[i] /\ ~SecureOwned(i)]
WordStored(reg, w)  == [i \in Intids |-> IF i \in DOMAIN w /\ ~SecureOwned(i) THEN w[i] ELSE reg[i]]

ReadGroup(c) ==
  /\ spiOp[c].pc = "read group"
  /\ Holding(c, "write group", Word(gicd_group, SameBank(spiOp[c].intid)))
  /\ UNCHANGED <<gicd_lines, gicRegs, config_lock, spiOps, asked, unmasked>>
WriteGroup(c) ==
  /\ spiOp[c].pc = "write group"
  /\ gicd_group' = WordStored(gicd_group, [spiOp[c].word EXCEPT ![spiOp[c].intid] = TRUE])
  /\ To(c, "read grpmod")
  /\ UNCHANGED <<gicd_lines, gicd_ctlr, gicd_grpmod, gicd_enabled, gicd_pending, gicd_active, gicd_edge, gicd_route>>
  /\ UNCHANGED <<config_lock, spiOps, asked, unmasked>>
ReadGrpmod(c) ==
  /\ spiOp[c].pc = "read grpmod"
  /\ Holding(c, "write grpmod", Word(gicd_grpmod, SameBank(spiOp[c].intid)))
  /\ UNCHANGED <<gicd_lines, gicRegs, config_lock, spiOps, asked, unmasked>>
WriteGrpmod(c) ==
  /\ spiOp[c].pc = "write grpmod"
  /\ gicd_grpmod' = WordStored(gicd_grpmod, [spiOp[c].word EXCEPT ![spiOp[c].intid] = FALSE])
  /\ To(c, "verify")
  /\ UNCHANGED <<gicd_lines, gicd_ctlr, gicd_group, gicd_enabled, gicd_pending, gicd_active, gicd_edge, gicd_route>>
  /\ UNCHANGED <<config_lock, spiOps, asked, unmasked>>

\* The group must have taken; otherwise firmware owns the INTID, and it stays
\* disabled.
Verify(c) ==
  LET i == spiOp[c].intid IN
  /\ spiOp[c].pc = "verify"
  /\ IF gicd_group[i] /\ ~SecureOwned(i) /\ ~gicd_grpmod[i]
     THEN To(c, "read config") /\ UNCHANGED config_lock
     ELSE Done(c) /\ config_lock' = Nobody
  /\ UNCHANGED <<gicd_lines, gicRegs, spiOps, asked, unmasked>>

ReadConfig(c) ==
  /\ spiOp[c].pc = "read config"
  /\ Holding(c, "write config", [i \in SameConfig(spiOp[c].intid) |-> gicd_edge[i]])
  /\ UNCHANGED <<gicd_lines, gicRegs, config_lock, spiOps, asked, unmasked>>
WriteConfig(c) ==
  LET w == [spiOp[c].word EXCEPT ![spiOp[c].intid] = spiOp[c].edge] IN
  /\ spiOp[c].pc = "write config"
  /\ gicd_edge' = [i \in Intids |-> IF i \in DOMAIN w THEN w[i] ELSE gicd_edge[i]]
  /\ To(c, "route")
  /\ UNCHANGED <<gicd_lines, gicd_ctlr, gicd_group, gicd_grpmod, gicd_enabled, gicd_pending, gicd_active, gicd_route>>
  /\ UNCHANGED <<config_lock, spiOps, asked, unmasked>>

\* The route is an entry of its own.  enable_spi goes on without the lock.
Route_(c) ==
  LET op == spiOp[c] IN
  /\ op.pc = "route"
  /\ gicd_route' = [gicd_route EXCEPT ![op.intid] = op.core]
  /\ asked' = [asked EXCEPT ![op.intid] = [edge |-> op.edge, core |-> op.core]]
  /\ config_lock' = Nobody
  /\ spiOp' = [spiOp EXCEPT ![c] = IF op.opens THEN [op EXCEPT !.pc = "unmask", !.word = NoWord] ELSE NoSpiOp]
  /\ UNCHANGED <<gicd_lines, gicd_ctlr, gicd_group, gicd_grpmod, gicd_enabled, gicd_pending, gicd_active, gicd_edge>>
  /\ UNCHANGED <<spiOps, unmasked>>

Mask(c) == spiOp[c].pc = "mask" /\ Disable(spiOp[c].intid) /\ Done(c)

Unmask(c) ==
  LET i == spiOp[c].intid IN
  /\ spiOp[c].pc = "unmask"
  /\ gicd_enabled' = [gicd_enabled EXCEPT ![i] = TRUE]
  /\ unmasked' = unmasked \union {i}
  /\ Done(c)
  /\ UNCHANGED <<gicd_lines, gicd_ctlr, gicd_group, gicd_grpmod, gicd_pending, gicd_active, gicd_edge, gicd_route>>
  /\ UNCHANGED <<config_lock, spiOps, asked>>

ClearPending(c) ==
  /\ spiOp[c].pc = "clear"
  /\ gicd_pending' = [gicd_pending EXCEPT ![spiOp[c].intid] = FALSE]
  /\ Done(c)
  /\ UNCHANGED <<gicd_lines, gicd_ctlr, gicd_group, gicd_grpmod, gicd_enabled, gicd_active, gicd_edge, gicd_route>>
  /\ UNCHANGED <<config_lock, spiOps, asked, unmasked>>

\* Disabled first, so that nothing is taken between the other two.
Quarantine(c) == spiOp[c].pc = "quarantine" /\ Disable(spiOp[c].intid) /\ To(c, "settle")
Settle(c) ==
  LET i == spiOp[c].intid IN
  /\ spiOp[c].pc = "settle"
  /\ gicd_pending' = [gicd_pending EXCEPT ![i] = FALSE]
  /\ gicd_active' = [gicd_active EXCEPT ![i] = FALSE]
  /\ Done(c)
  /\ UNCHANGED <<gicd_lines, gicd_ctlr, gicd_group, gicd_grpmod, gicd_enabled, gicd_edge, gicd_route>>
  /\ UNCHANGED <<config_lock, spiOps, asked, unmasked>>

Operate(c) ==
  \/ BeginConfigure(c) \/ BeginWrite(c)
  \/ Lock(c) \/ ConfigDisable(c)
  \/ ReadGroup(c) \/ WriteGroup(c) \/ ReadGrpmod(c) \/ WriteGrpmod(c) \/ Verify(c)
  \/ ReadConfig(c) \/ WriteConfig(c) \/ Route_(c)
  \/ Mask(c) \/ Unmask(c) \/ ClearPending(c) \/ Quarantine(c) \/ Settle(c)

DistNext == EnableRouting \/ ScrubAndForward \/ \E c \in GicCores : Operate(c)

DistSpec == DistInit /\ [][DistNext]_distVars

------------------------------------------------------------------------------
Configuring(i) == \E c \in GicCores : spiOp[c].intid = i /\ spiOp[c].pc \notin {"none", "lock", "mask", "unmask", "clear", "quarantine", "settle"}

\* "The scrub between them means no interrupt can be delivered from inherited
\* state" (gicv3.hpp:133): once the distributor forwards, an interrupt that is
\* enabled is one EL2 has enabled itself, and none is pending or active of old
\* (no device raises its line in this model).
NothingInherited ==
  gicd_ctlr = "forwarding" =>
    \A i \in Intids : (gicd_enabled[i] => i \in unmasked) /\ ~gicd_pending[i] /\ ~gicd_active[i]

\* An SPI is as it was last configured: in the Non-secure group, with the
\* trigger and the route that call asked for, whatever other cores do to the
\* INTIDs that share its words meanwhile (config_lock, gicv3.hpp:204).  No bit
\* of the secure world is counted as EL2's.  And nothing inherited is delivered,
\* on the boards whose last bank is whole.
SpisAsAsked ==
  /\ \A i \in Intids : asked[i] # NotAsked /\ ~Configuring(i) =>
       /\ gicd_group[i] /\ ~gicd_grpmod[i]
       /\ gicd_edge[i] = asked[i].edge /\ gicd_route[i] = asked[i].core
       /\ i \in SpiIds \ FirmwareOwned
  /\ implemented_intids % IntidsPerBank = 0 => NothingInherited
=============================================================================
