---------------------------- MODULE MailChannel ----------------------------
(* What mailboxes and message queues promise: the mails are received in the *)
(* order they were sent in, urgent ones first, each once, unless the box is *)
(* reset.                                                                   *)
EXTENDS Sequences, Naturals

CONSTANTS Mails, NoMail, Capacity

VARIABLES
    box,   \* the mails sent and not received
    got    \* the mail received last

Init == box = <<>> /\ got = NoMail

Post(m) == Len(box) < Capacity /\ box' = Append(box, m) /\ UNCHANGED got

PostUrgent(m) == Len(box) < Capacity /\ box' = <<m>> \o box /\ UNCHANGED got

Collect == box # <<>> /\ got' = Head(box) /\ box' = Tail(box)

Clear == box' = <<>> /\ UNCHANGED got

Next == Collect \/ Clear \/ \E m \in Mails : Post(m) \/ PostUrgent(m)

Spec == Init /\ [][Next]_<<box, got>>
=============================================================================
