---------------------------------- MODULE Fifo ----------------------------------
(***************************************************************************)
(* A bounded first-in first-out channel of numbered messages: what the     *)
(* rings and queues of this system promise.  A producer may publish        *)
(* several messages at once.                                               *)
(***************************************************************************)
EXTENDS Integers, Sequences

CONSTANTS Capacity

VARIABLES
  queue,  \* the messages published and not yet taken
  sent,   \* messages published so far
  got     \* messages taken so far: the last one's number

Init == queue = <<>> /\ sent = 0 /\ got = 0

Put ==
  /\ \E n \in 1..(Capacity - Len(queue)) :
       /\ queue' = queue \o [i \in 1..n |-> sent + i]
       /\ sent' = sent + n
  /\ UNCHANGED got

Get ==
  /\ queue # <<>>
  /\ got' = Head(queue)
  /\ queue' = Tail(queue)
  /\ UNCHANGED sent

Spec == Init /\ [][Put \/ Get]_<<queue, sent, got>>
=============================================================================
