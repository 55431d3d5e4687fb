--------------------------- MODULE VmLifecycleMC ---------------------------
(***************************************************************************)
(* Instances of VmLifecycle for TLC.                                       *)
(***************************************************************************)
EXTENDS VmLifecycle

\* One VM whose two vCPUs live on two cores.
TwoSlots == {<<0, 0>>, <<0, 1>>}
SplitCpu == [s \in TwoSlots |-> s[2]]
SecondSlot == {<<0, 1>>}
Once  == [vm \in {0} |-> 1]
Twice == [vm \in {0} |-> 2]

\* Two single-vCPU VMs on two cores; only the second is power-cycled.
PairSlots == {<<0, 0>>, <<1, 0>>}
PairCpu == [s \in PairSlots |-> s[1]]
PairEpoch == [vm \in {0, 1} |-> vm]
PairGen == [vm \in {0, 1} |-> 1 + vm]
=============================================================================
