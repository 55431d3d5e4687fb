------------------------------- MODULE VmPower -------------------------------
(***************************************************************************)
(* What the VM lifecycle promises the rest of the machine: who may run in  *)
(* a VM, who holds its lifecycle, and when its memory may be written anew. *)
(* No cores, mailboxes, epochs or devices appear here.                     *)
(***************************************************************************)
EXTENDS Naturals

CONSTANTS
  Vms,         \* the virtual machines
  Slots,       \* their vCPUs, as pairs <<vm, vcpu>>
  BootVm,      \* the VM that is on from the start
  MaxRestarts  \* warm resets a VM may spend before its next cold start

VARIABLES
  on,     \* the vCPUs a core may be executing
  hold,   \* is the lifecycle of the VM free, held, or latched for good?
  spent   \* warm resets since the last cold start

vars == <<on, hold, spent>>

Running(vm) == {s \in on : s[1] = vm}

Init ==
  /\ on = {<<BootVm, 0>>}
  /\ hold = [vm \in Vms |-> "free"]
  /\ spent = [vm \in Vms |-> 0]

\* A vCPU starts, unless its VM was isolated.
PowerOn(s) ==
  /\ s \notin on /\ hold[s[1]] # "latched"
  /\ on' = on \cup {s}
  /\ UNCHANGED <<hold, spent>>

PowerOff(s) ==
  /\ s \in on
  /\ on' = on \ {s}
  /\ UNCHANGED <<hold, spent>>

\* One owner at a time; a latched VM has none ever again.
Claim(vm) ==
  /\ hold[vm] = "free"
  /\ hold' = [hold EXCEPT ![vm] = "held"]
  /\ UNCHANGED <<on, spent>>

Settle(vm) ==
  /\ hold[vm] = "held"
  /\ \E h \in {"free", "latched"} : hold' = [hold EXCEPT ![vm] = h]
  /\ UNCHANGED <<on, spent>>

\* A warm reset writes the memory image again: under a claim, with nothing
\* of the VM running, and only so many times.
Reload(vm) ==
  /\ hold[vm] = "held" /\ Running(vm) = {}
  /\ spent[vm] < MaxRestarts
  /\ spent' = [spent EXCEPT ![vm] = @ + 1]
  /\ UNCHANGED <<on, hold>>

\* A cold start refills the budget of a VM that is off and not isolated.
ColdStart(vm) ==
  /\ hold[vm] # "latched" /\ Running(vm) = {}
  /\ spent' = [spent EXCEPT ![vm] = 0]
  /\ UNCHANGED <<on, hold>>

Next ==
  \/ \E s \in Slots : PowerOn(s) \/ PowerOff(s)
  \/ \E vm \in Vms : Claim(vm) \/ Settle(vm) \/ Reload(vm) \/ ColdStart(vm)

Spec == Init /\ [][Next]_vars
=============================================================================
