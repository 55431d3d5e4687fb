---------------------------------- MODULE Trap ----------------------------------
(***************************************************************************)
(* A trapped guest instruction (trap_handler) and the firmware calls it    *)
(* may be (psci, SMCCC): the syndrome, the ELR policy of its class, the    *)
(* subscriber that answers, and the frame the guest resumes with.          *)
(*                                                                         *)
(* EL2 handles a trap with interrupts masked, so a trap is one step, up to *)
(* the switch to another vCPU.  Instructions are numbered; a function ID   *)
(* is 1000 * service + function, an affinity 100 * (upper fields) + Aff0.  *)
(* Bytes have ByteBits bits.                                               *)
(***************************************************************************)
EXTENDS Integers, Sequences, FiniteSets

CONSTANTS
  Vcpus,         \* vCPUs of this core, each the boot vCPU of its VM
  VmWidth,       \* vCPUs of a VM; all but the first run on other cores
  ByteBits,      \* bits of a byte (8)
  PageSize,      \* bytes of a page (4096)
  DevicePages,   \* IPA pages some MmioService subscriber claims
  DeviceWords,   \* what a device may answer a read with
  Places,        \* instruction addresses
  CpuSpecs,      \* what the ID registers may disclose
  Calls, Args,   \* function IDs the guests call, and x1 of the calls
  DataRegs,      \* what x0 may hold at a load, a store or a register access
  Accesses,      \* loads and stores
  CtlrView       \* icc_ctlr_view(g_vtr)

\* The widths of the loads and stores, whatever the byte; and stage 1 keeps the
\* offset within a page.
Bytes(n) == 2^(ByteBits * n)
Sizes == {1, 2, 4, 8}

X == 0..3            \* the general registers this module tells apart
kSrtZeroReg == 31

ASSUME TrapAssumption ==
  /\ Vcpus # {} /\ PageSize \in Nat \ {0} /\ DeviceWords \subseteq Nat
  /\ \A n \in Sizes : Bytes(n) \in Nat \ {0} /\ Bytes(n) % 2 = 0 /\ Bytes(n) <= Bytes(8)
  /\ Bytes(8) = Bytes(4) * Bytes(4)
  /\ \A a \in Accesses : a.size \in Sizes /\ a.srt \in X \cup {kSrtZeroReg} /\ a.sse \in BOOLEAN /\ a.ipa \in Nat /\ a.va % PageSize = a.ipa % PageSize

VARIABLES
  spec,       \* cpu::speculation(), decoded at boot
  resident,   \* the vCPU whose frame is in the registers
  frame,      \* the live TrapContext, with the priority mask of its VMCR
  ctx,        \* Vcpu::ctx of the others
  vstate,     \* Vcpu::state
  owed,       \* the instruction each vCPU trapped on last, as it was issued
  told        \* what a feature query just before told: [id, ans], or Nothing

trapVars == <<spec, resident, frame, ctx, vstate, owed, told>>

Nothing == [ec |-> "none"]

NotSupported == -1   \* SMCCC and PSCI alike
NotRequired == -2
InvalidParameters == -2
InternalFailure == -6
Success == 0
Version1_1 == 65537

Fresh == [elr |-> 0, x |-> [r \in X |-> 0], pmr |-> 0]

------------------------------------------------------------------------------
(* esr.hpp, elr_policy.hpp                                                  *)

\* Where ELR points when the exception arrives: past an HVC, at anything else.
elr_policy(ec) ==
  CASE ec = "hvc" -> "none"
    [] ec \in {"smc", "wfx"} -> "before"
    [] ec = "fp" -> "never"
    [] ec = "msr" -> "claim"
    [] ec = "dabt" -> "handler"
    [] OTHER -> "fault"

\* The frame handle_lower_sync() dispatches, of an instruction at a place.
Dispatched(ec, at, x) ==
  LET elr == IF ec = "hvc" THEN at + 1 ELSE at
  IN [elr |-> IF elr_policy(ec) = "before" THEN elr + 1 ELSE elr, x |-> x, pmr |-> frame.pmr]

------------------------------------------------------------------------------
(* SMCCC and PSCI: the tables, discovery and dispatch                       *)

Service(fid) == fid \div 1000
Function(fid) == fid % 1000
Std == 1      \* 0x8400_0000, PSCI
Std64 == 2    \* its SMC64 twin, bit 30
Arch == 3     \* 0x8000_0000, the SMCCC Arch service
Nova == 5     \* the hypervisor's own calls

\* kTable of the Arch service; 801, 799 and 399 are the workarounds 1, 2, 3.
Workarounds == {801, 799, 399}
SmcccImplemented(fid) == Service(fid) = Arch /\ Function(fid) \in {0, 1} \cup Workarounds

\* branch_target, store_bypass and branch_history_mitigation.
Unaffected(fn) ==
  CASE fn = 801 -> spec.csv2 >= 1
    [] fn = 799 -> spec.ssbs # 0
    [] fn = 399 -> spec.csv2 >= 3 \/ (spec.csv2 = 1 /\ spec.csv2_frac >= 2)

entry_answer(fn) == IF fn \notin Workarounds THEN Success ELSE IF Unaffected(fn) THEN NotRequired ELSE NotSupported
feature_answer(fid) == IF SmcccImplemented(fid) THEN entry_answer(Function(fid)) ELSE NotSupported

\* smccc::dispatch of a claimed call.
SmcccAnswer(fid, arg) ==
  CASE ~SmcccImplemented(fid) -> NotSupported
    [] Function(fid) = 1 -> feature_answer(arg)
    [] Function(fid) = 0 -> Version1_1
    [] OTHER -> entry_answer(Function(fid))

\* The 32 PSCI slots in either convention, and the rows of kTable.
PsciInRange(fid) == Service(fid) \in {Std, Std64} /\ Function(fid) < 32
PsciImplemented(fid) == PsciInRange(fid) /\ Function(fid) \in {0, 1, 2, 3, 4, 6, 8, 9, 10}

\* The calls whose answer is decided by the table alone.
PsciConstant(fid) == Function(fid) \notin {1, 2, 3, 4, 8, 9}
PsciAnswer(fid, arg) ==
  CASE ~PsciImplemented(fid) -> NotSupported
    [] Function(fid) = 0 -> Version1_1
    [] Function(fid) = 6 -> 2
    [] Function(fid) = 10 -> IF PsciImplemented(arg) \/ SmcccImplemented(arg) THEN Success ELSE NotSupported

\* target_vcpu: only Aff0 names a vCPU.
TargetValid(mpidr) == mpidr \div 100 = 0 /\ mpidr % 100 < VmWidth

------------------------------------------------------------------------------
(* Who runs next                                                            *)

Runnable == {v \in Vcpus : vstate[v] = "ready"}
At(v) == IF v = resident THEN frame ELSE ctx[v]

\* The live frame f goes back to its vCPU, or on to another one that is ready.
Return(f) == frame' = f /\ UNCHANGED <<resident, ctx, vstate>>

\* switch_to(): f is parked in its Vcpu and the frame of next goes live.  The
\* stale copies, of the resident and of a vCPU that is off, are left out.
SwitchTo(next, f, left) ==
  /\ ctx' = [ctx EXCEPT ![resident] = IF left = "off" THEN Fresh ELSE f, ![next] = Fresh]
  /\ frame' = ctx[next]
  /\ resident' = next
  /\ vstate' = [vstate EXCEPT ![resident] = left, ![next] = "running"]

Yield(f) ==
  IF Runnable = {} THEN Return(f) ELSE \E next \in Runnable : SwitchTo(next, f, "ready")

\* schedule_out() leaves the frame where it is while nothing is ready; that of
\* a vCPU that is off is dead.
LeaveCpu(f, left) ==
  IF Runnable = {} THEN /\ frame' = (IF left = "off" THEN frame ELSE f) /\ vstate' = [vstate EXCEPT ![resident] = left]
                        /\ UNCHANGED <<resident, ctx>>
  ELSE \E next \in Runnable : SwitchTo(next, f, left)

Issued(ins, at, x, bus) == [ec |-> ins.ec, ins |-> ins, at |-> at, x |-> x, pmr |-> frame.pmr, bus |-> bus]
Owes(o) == owed' = [owed EXCEPT ![resident] = o]

\* A reset of the resident's VM: accepted, it reboots on this core or retires
\* until the owner does it; refused, some lifecycle already owns the VM.
ResetVm(refused, ins, at, x) ==
  \/ Return(Fresh) /\ Owes(Nothing)
  \/ LeaveCpu(frame, "off") /\ Owes(Nothing)
  \/ Return(refused) /\ Owes(Issued(ins, at, x, <<>>))

------------------------------------------------------------------------------
(* HVC and SMC                                                              *)

Executing == vstate[resident] = "running" /\ owed[resident] = Nothing

CallRegs(fid, arg) == [r \in X |-> CASE r = 0 -> fid [] r = 1 -> arg [] OTHER -> 7]
CallIns(conduit, fid, arg) == [ec |-> conduit, fid |-> fid, arg |-> arg]
With0(f, value) == [f EXCEPT !.x[0] = value]

\* A call through either conduit, answered by the subscriber that claims it.
Call(conduit, fid, arg, at) ==
  /\ Executing
  /\ Owes(Issued(CallIns(conduit, fid, arg), at, CallRegs(fid, arg), <<>>))
  /\ spec' = spec
CallFrame(conduit, fid, arg, at) == Dispatched(conduit, at, CallRegs(fid, arg))

\* What a query of the features told the guest.
Learns(fid, arg, ans) ==
  told' = IF (Service(fid) = Arch /\ Function(fid) = 1) \/ (PsciInRange(fid) /\ Function(fid) = 10)
          THEN [id |-> arg, ans |-> ans] ELSE told

SmcccCall(conduit, fid, arg, at) ==
  /\ Service(fid) = Arch
  /\ Call(conduit, fid, arg, at)
  /\ Return(With0(CallFrame(conduit, fid, arg, at), SmcccAnswer(fid, arg)))
  /\ Learns(fid, arg, SmcccAnswer(fid, arg))

PsciConstantCall(conduit, fid, arg, at) ==
  /\ PsciInRange(fid) /\ PsciConstant(fid)
  /\ Call(conduit, fid, arg, at)
  /\ Return(With0(CallFrame(conduit, fid, arg, at), PsciAnswer(fid, arg)))
  /\ Learns(fid, arg, PsciAnswer(fid, arg))

SystemOff(conduit, fid, arg, at) ==
  /\ PsciInRange(fid) /\ Function(fid) = 8
  /\ Executing
  /\ LET f == CallFrame(conduit, fid, arg, at)
     IN \/ LeaveCpu(f, "off") /\ Owes(Nothing)
        \/ Return(f) /\ Owes(Issued(CallIns(conduit, fid, arg), at, CallRegs(fid, arg), <<>>))
  /\ UNCHANGED <<spec, told>>

SystemReset(conduit, fid, arg, at) ==
  /\ PsciInRange(fid) /\ Function(fid) = 9
  /\ Executing
  /\ ResetVm(With0(CallFrame(conduit, fid, arg, at), InternalFailure), CallIns(conduit, fid, arg), at, CallRegs(fid, arg))
  /\ UNCHANGED <<spec, told>>

\* smp::cpu_on of a sibling on another core, whose power is any: accepted, or
\* refused by its power or because its mailbox is full.
Powers == {"off", "pending", "on"}
PowerOf(arg, remote) == IF arg % 100 = 0 THEN "on" ELSE remote

CpuOn(conduit, fid, arg, at) ==
  /\ PsciInRange(fid) /\ Function(fid) = 3
  /\ Call(conduit, fid, arg, at)
  /\ \E remote \in Powers :
       \E ans \in (IF ~TargetValid(arg) THEN {InvalidParameters}
                  ELSE CASE PowerOf(arg, remote) = "off" -> {Success, InternalFailure}
                         [] PowerOf(arg, remote) = "pending" -> {-5}
                         [] PowerOf(arg, remote) = "on" -> {-4}) :
         Return(With0(CallFrame(conduit, fid, arg, at), ans))
  /\ UNCHANGED told

CpuOff(conduit, fid, arg, at) ==
  /\ PsciInRange(fid) /\ Function(fid) = 2
  /\ Executing
  /\ LeaveCpu(CallFrame(conduit, fid, arg, at), "off")
  /\ Owes(Nothing)
  /\ UNCHANGED <<spec, told>>

\* x0 of the caller is written before its frame may be parked; with something
\* deliverable the call returns at once.
CpuSuspend(conduit, fid, arg, at) ==
  /\ PsciInRange(fid) /\ Function(fid) = 1
  /\ Call(conduit, fid, arg, at)
  /\ LET f == With0(CallFrame(conduit, fid, arg, at), Success)
     IN Return(f) \/ LeaveCpu(f, "blocked")
  /\ UNCHANGED told

AffinityInfo(conduit, fid, arg, at) ==
  /\ PsciInRange(fid) /\ Function(fid) = 4
  /\ Call(conduit, fid, arg, at)
  /\ \E remote \in Powers :
       Return(With0(CallFrame(conduit, fid, arg, at),
         IF ~TargetValid(arg) THEN InvalidParameters
         ELSE CASE PowerOf(arg, remote) = "on" -> 0 [] PowerOf(arg, remote) = "off" -> 1 [] OTHER -> 2))
  /\ UNCHANGED told

\* Functions 3 (yield), 2 (exit), 0 and 1 (output, no answer) and 4 and above
\* (answered 0 or NOT_SUPPORTED) of the hypervisor's own range.
\* Faulty: the answer of a yield is written once the other frame is live.
LateAnswer(f) ==
  IF Runnable = {} THEN Return(With0(f, 0))
  ELSE \E next \in Runnable :
         /\ ctx' = [ctx EXCEPT ![resident] = f] /\ frame' = With0(ctx[next], 0) /\ resident' = next
         /\ vstate' = [vstate EXCEPT ![resident] = "ready", ![next] = "running"]
YieldAnswered(f) == Yield(With0(f, 0))

NovaYield(conduit, fid, arg, at) ==
  /\ fid = 5003
  /\ Call(conduit, fid, arg, at)
  /\ YieldAnswered(CallFrame(conduit, fid, arg, at))
  /\ UNCHANGED told

NovaExit(conduit, fid, arg, at) ==
  /\ fid = 5002
  /\ Executing
  /\ LET f == CallFrame(conduit, fid, arg, at)
     IN \/ LeaveCpu(f, "off") /\ Owes(Nothing)
        \/ Return(f) /\ Owes(Issued(CallIns(conduit, fid, arg), at, CallRegs(fid, arg), <<>>))
  /\ UNCHANGED <<spec, told>>

NovaCall(conduit, fid, arg, at) ==
  /\ Service(fid) = Nova /\ Function(fid) \notin {2, 3}
  /\ Call(conduit, fid, arg, at)
  /\ LET f == CallFrame(conduit, fid, arg, at)
     IN IF Function(fid) \in {0, 1} THEN Return(f) ELSE \E ans \in {Success, NotSupported} : Return(With0(f, ans))
  /\ UNCHANGED told

\* Nobody claims it: NOT_SUPPORTED, and x1 to x3 do not keep the arguments.
UnknownCall(conduit, fid, arg, at) ==
  /\ Service(fid) \notin {Arch, Nova} /\ ~PsciInRange(fid)
  /\ Call(conduit, fid, arg, at)
  /\ Return([CallFrame(conduit, fid, arg, at) EXCEPT !.x = [r \in X |-> IF r = 0 THEN NotSupported ELSE 0]])
  /\ UNCHANGED told

------------------------------------------------------------------------------
(* WFx, FP/SIMD, MSR/MRS                                                    *)

Wfx(isWfe, x, at) ==
  /\ Executing
  /\ Owes(Issued([ec |-> "wfx"], at, x, <<>>))
  /\ LET f == Dispatched("wfx", at, x)
     IN IF isWfe THEN Yield(f) ELSE Return(f) \/ LeaveCpu(f, "blocked")
  /\ UNCHANGED <<spec, told>>

\* The access is made legal and the instruction runs again.
FpSimd(x, at) ==
  /\ Executing
  /\ Owes(Issued([ec |-> "fp"], at, x, <<>>))
  /\ Return(Dispatched("fp", at, x))
  /\ UNCHANGED <<spec, told>>

\* handle_guest_fault: a warm reset, or else a stop; both are refused while a
\* lifecycle owns the VM, and the guest traps again until it is retired.
GuestFault(ins, x, at) ==
  /\ Executing
  /\ ResetVm(Dispatched(ins.ec, at, x), ins, at, x)
  /\ UNCHANGED <<spec, told>>

Sysregs == {"sgi1r", "cntp", "pmr", "ctlr", "rpr", "dir", "other"}
\* smp takes the write of SGI1R, core_timer the CNTP bank, vgic the rest of
\* the interface: DIR, ASGI1R and SGI0R ("dir") are accepted and ignored.
ClaimedReg(reg, write) == reg # "other" /\ (reg = "sgi1r" => write)

SysregEmulated(reg, write, rt, x, at) ==
  /\ Executing /\ ClaimedReg(reg, write)
  /\ LET f == Dispatched("msr", at, x)
         put(value) == IF write \/ rt = kSrtZeroReg THEN f ELSE [f EXCEPT !.x[rt] = value]
         done == CASE reg = "cntp" -> put(0)
                   [] reg = "ctlr" -> put(CtlrView)
                   [] reg = "rpr" -> put(255)
                   [] reg = "pmr" -> IF write THEN [f EXCEPT !.pmr = (IF rt = kSrtZeroReg THEN 0 ELSE x[rt]) % 256]
                                     ELSE put(f.pmr)
                   [] OTHER -> f
     IN /\ Return([done EXCEPT !.elr = @ + 1])
        /\ Owes(Issued([ec |-> "msr", reg |-> reg, write |-> write, rt |-> rt], at, x, <<>>))
  /\ UNCHANGED <<spec, told>>

SysregUnclaimed(reg, write, rt, x, at) ==
  /\ ~ClaimedReg(reg, write)
  /\ GuestFault([ec |-> "msr", reg |-> reg, write |-> write, rt |-> rt], x, at)

------------------------------------------------------------------------------
(* Data aborts                                                              *)

extend_mmio_read(value, size, sign_extend, sixty_four) ==
  LET low == value % Bytes(size)
      wide == IF sign_extend /\ size < 8 /\ low >= Bytes(size) \div 2 THEN low + Bytes(8) - Bytes(size) ELSE low
  IN IF sixty_four THEN wide ELSE wide % Bytes(4)

\* HPFAR_EL2 has the page, FAR_EL2 the offset, of the faulting access.
fault_ipa(hpfar, far) == hpfar * PageSize + (far % PageSize)

Emulatable(a) == a.isv /\ ~a.s1ptw /\ a.dfsc = "translation"
Transfer(a, x) == IF a.write /\ a.srt # kSrtZeroReg THEN extend_mmio_read(x[a.srt], a.size, FALSE, TRUE) ELSE 0
MmioCall(a, x) == [ipa |-> fault_ipa(a.ipa \div PageSize, a.va), size |-> a.size, write |-> a.write, value |-> Transfer(a, x)]

DataAbort(a, x, at) ==
  /\ Executing /\ Emulatable(a)
  /\ MmioCall(a, x).ipa \div PageSize \in DevicePages
  /\ \E word \in (IF a.write THEN {0} ELSE DeviceWords) :
       LET f == Dispatched("dabt", at, x)
           done == IF ~a.write /\ a.srt # kSrtZeroReg
                   THEN [f EXCEPT !.x[a.srt] = extend_mmio_read(word, a.size, a.sse, a.sf)] ELSE f
       IN /\ Return([done EXCEPT !.elr = @ + 1])
          /\ Owes(Issued([ec |-> "dabt", a |-> a, word |-> word], at, x, <<MmioCall(a, x)>>))
  /\ UNCHANGED <<spec, told>>

DataAbortFaults(a, x, at) ==
  /\ ~Emulatable(a) \/ MmioCall(a, x).ipa \div PageSize \notin DevicePages
  /\ GuestFault([ec |-> "dabt", a |-> a, word |-> 0], x, at)

\* The classes nobody routes belong to the guest, and fault it.
OtherException(x, at) == GuestFault([ec |-> "other"], x, at)

------------------------------------------------------------------------------
(* What happens to a vCPU besides its traps                                 *)

\* The guest goes on from where it resumed; its next trap has registers of its
\* own.
Queries(o) == o.ec \in {"hvc", "smc"} /\ o.ins.fid \in {3001, 1010, 2010}
GuestRuns ==
  /\ vstate[resident] = "running" /\ owed[resident] # Nothing
  /\ Owes(Nothing)
  /\ frame' = [Fresh EXCEPT !.pmr = frame.pmr]
  /\ told' = IF Queries(owed[resident]) THEN told ELSE Nothing
  /\ UNCHANGED <<spec, resident, ctx, vstate>>

\* A slice ends: the resident is parked between two instructions.
Preempt(x, at) ==
  /\ Executing /\ Runnable # {}
  /\ Owes(Issued([ec |-> "irq"], at, x, <<>>))
  /\ Yield([elr |-> at, x |-> x, pmr |-> frame.pmr])
  /\ UNCHANGED <<spec, told>>

\* A blocked vCPU wakes; an idle core runs it, without a swap if it is the one
\* whose frame is still live.
Wake(v) ==
  /\ vstate[v] = "blocked"
  /\ IF vstate[resident] = "running" THEN vstate' = [vstate EXCEPT ![v] = "ready"] /\ UNCHANGED <<resident, frame, ctx>>
     ELSE IF v = resident THEN vstate' = [vstate EXCEPT ![v] = "running"] /\ UNCHANGED <<resident, frame, ctx>>
     ELSE SwitchTo(v, frame, vstate[resident])
  /\ UNCHANGED <<spec, owed, told>>

\* A vCPU that is off is started again: its frame is seeded.
Start(v) ==
  /\ vstate[v] = "off"
  /\ owed' = [owed EXCEPT ![v] = Nothing]
  /\ IF vstate[resident] = "running"
     THEN vstate' = [vstate EXCEPT ![v] = "ready"] /\ ctx' = [ctx EXCEPT ![v] = Fresh] /\ UNCHANGED <<resident, frame>>
     ELSE /\ vstate' = [vstate EXCEPT ![v] = "running"] /\ resident' = v /\ frame' = Fresh
          /\ ctx' = [ctx EXCEPT ![resident] = IF resident = v \/ vstate[resident] = "off" THEN Fresh ELSE frame]
  /\ UNCHANGED <<spec, told>>

TrapInit ==
  /\ spec \in CpuSpecs
  /\ resident = CHOOSE v \in Vcpus : TRUE
  /\ frame = Fresh
  /\ ctx = [v \in Vcpus |-> Fresh]
  /\ vstate = [v \in Vcpus |-> IF v = resident THEN "running" ELSE "ready"]
  /\ owed = [v \in Vcpus |-> Nothing]
  /\ told = Nothing

DataFiles == {[r \in X |-> IF r = 0 THEN d ELSE 7] : d \in DataRegs}

\* The calls whose x1 matters to this module.
TakesArg(fid) == fid = 3001 \/ (PsciInRange(fid) /\ Function(fid) \in {3, 4, 10})

TrapNext ==
  \/ \E conduit \in {"hvc", "smc"}, fid \in Calls, at \in Places : \E arg \in (IF TakesArg(fid) THEN Args ELSE {0}) :
       \/ SmcccCall(conduit, fid, arg, at) \/ PsciConstantCall(conduit, fid, arg, at)
       \/ SystemOff(conduit, fid, arg, at) \/ SystemReset(conduit, fid, arg, at)
       \/ CpuOn(conduit, fid, arg, at) \/ CpuOff(conduit, fid, arg, at)
       \/ CpuSuspend(conduit, fid, arg, at) \/ AffinityInfo(conduit, fid, arg, at)
       \/ NovaYield(conduit, fid, arg, at) \/ NovaExit(conduit, fid, arg, at)
       \/ NovaCall(conduit, fid, arg, at) \/ UnknownCall(conduit, fid, arg, at)
  \/ \E x \in DataFiles, at \in Places :
       \/ \E isWfe \in BOOLEAN : Wfx(isWfe, x, at)
       \/ FpSimd(x, at) \/ OtherException(x, at) \/ Preempt(x, at)
       \/ \E reg \in Sysregs, write \in BOOLEAN, rt \in {0, kSrtZeroReg} :
            SysregEmulated(reg, write, rt, x, at) \/ SysregUnclaimed(reg, write, rt, x, at)
       \/ \E a \in Accesses : DataAbort(a, x, at) \/ DataAbortFaults(a, x, at)
  \/ GuestRuns \/ \E v \in Vcpus : Wake(v) \/ Start(v)

TrapSpec == TrapInit /\ [][TrapNext]_trapVars

------------------------------------------------------------------------------
(* Properties                                                               *)

\* What the architecture says a load leaves in its register.
Loaded(word, size, sse, sf) ==
  LET low == word % Bytes(size)
      number == IF sse /\ 2 * low >= Bytes(size) THEN low - Bytes(size) ELSE low
  IN number % Bytes(IF sf THEN 8 ELSE 4)

\* Frame f resumes past, or at, the instruction of o, with every register but
\* those the instruction names as it was.
Stepped(o, f, named) == f.elr = o.at + 1 /\ \A r \in X \ named : f.x[r] = o.x[r]
Again(o, f) == f.elr = o.at /\ f.x = o.x
Kept(o, f) == f.pmr = o.pmr

CallCompleted(o, f) ==
  /\ Kept(o, f)
  /\ IF Service(o.ins.fid) \notin {Arch, Nova} /\ ~PsciInRange(o.ins.fid)
     THEN f.elr = o.at + 1 /\ f.x[0] = NotSupported /\ \A r \in X \ {0} : f.x[r] = 0
     ELSE Stepped(o, f, IF o.ins.fid \in {5000, 5001} THEN {} ELSE {0})
  /\ o.ins.fid = 5003 \/ (PsciInRange(o.ins.fid) /\ Function(o.ins.fid) = 1) => f.x[0] = 0

SysregCompleted(o, f) ==
  IF ~ClaimedReg(o.ins.reg, o.ins.write) THEN Kept(o, f) /\ Again(o, f)
  ELSE /\ Stepped(o, f, IF o.ins.write THEN {} ELSE {o.ins.rt})
       /\ IF o.ins.reg = "pmr" /\ o.ins.write THEN f.pmr = (IF o.ins.rt = kSrtZeroReg THEN 0 ELSE o.x[o.ins.rt]) % 256
          ELSE Kept(o, f)
       /\ o.ins.reg = "pmr" /\ ~o.ins.write /\ o.ins.rt # kSrtZeroReg => f.x[o.ins.rt] = f.pmr

AccessCompleted(o, f) ==
  LET a == o.ins.a IN
  /\ Kept(o, f)
  /\ IF a.isv /\ ~a.s1ptw /\ a.dfsc = "translation" /\ a.ipa \div PageSize \in DevicePages
     THEN /\ o.bus = <<[ipa |-> a.ipa, size |-> a.size, write |-> a.write,
                        value |-> IF a.write /\ a.srt # kSrtZeroReg THEN o.x[a.srt] % Bytes(a.size) ELSE 0]>>
          /\ Stepped(o, f, IF a.write THEN {} ELSE {a.srt})
          /\ ~a.write /\ a.srt # kSrtZeroReg => f.x[a.srt] = Loaded(o.ins.word, a.size, a.sse, a.sf)
     ELSE Again(o, f) /\ o.bus = <<>>

Completed(o, f) ==
  /\ o.ec \in {"hvc", "smc"} => CallCompleted(o, f)
  /\ o.ec = "wfx" => Kept(o, f) /\ Stepped(o, f, {})
  /\ o.ec \in {"fp", "irq", "other"} => Kept(o, f) /\ Again(o, f)
  /\ o.ec = "msr" => SysregCompleted(o, f)
  /\ o.ec = "dabt" => AccessCompleted(o, f)

\* Whenever a vCPU runs again after a trap, at once, after others had the
\* core, or woken from sleep, it is just past the trapped instruction, which
\* has had its whole effect once: the named register alone holds what the
\* architecture would have put there and the device saw exactly the access
\* that was made; or it is at the instruction with nothing changed
\* (elr_policy.hpp: "Getting one wrong makes the guest skip or repeat an
\* instruction").
InstructionExact == \A v \in Vcpus : vstate[v] # "off" => Completed(owed[v], At(v))
================================================================================
