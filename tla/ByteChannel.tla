---------------------------- MODULE ByteChannel ----------------------------
(* What interrupt-driven reception promises its reader: the bytes that      *)
(* arrive are returned once each, in the order of arrival, and a byte that  *)
(* has arrived is returned at last.                                         *)
EXTENDS Sequences, Naturals

CONSTANTS Bytes, NoByte, Capacity

VARIABLES
    queue,   \* bytes that arrived and were not returned
    got      \* the byte returned last

Init == queue = <<>> /\ got = NoByte

Put(b) == Len(queue) < Capacity /\ queue' = Append(queue, b) /\ UNCHANGED got

Get == queue # <<>> /\ got' = Head(queue) /\ queue' = Tail(queue)

Next == Get \/ \E b \in Bytes : Put(b)

Spec == Init /\ [][Next]_<<queue, got>> /\ WF_<<queue, got>>(Get)
=============================================================================
