------------------------------- MODULE VGicMC -------------------------------
(***************************************************************************)
(* Instances of VGic for TLC: a VM of two vCPUs, each on a core of its own *)
(* or both on one.                                                         *)
(***************************************************************************)
EXTENDS VGic

TwoVcpus == {0, 1}
OwnCore  == [v \in TwoVcpus |-> v]
OneCore  == [v \in TwoVcpus |-> 0]

\* The shared interrupt of a device goes first, then the SGI.
DeviceFirst == [x \in {1, 32} |-> IF x = 32 THEN 0 ELSE 1]

\* The timer's private interrupt comes last; two SPIs tie.
TimerLast == [x \in {27, 32, 33} |-> IF x = 27 THEN 1 ELSE 0]
=============================================================================
