---------------------------- MODULE MessageQueue ----------------------------
(***************************************************************************)
(* What the list of messages is for its users: a queue from which the      *)
(* first message is taken, and into which one is put in front, behind the  *)
(* first, or at the end.                                                   *)
(***************************************************************************)
EXTENDS Naturals, Sequences

CONSTANT Node

VARIABLE queue

Members == {queue[i] : i \in DOMAIN queue}

Init == queue = <<>>

InFront(n) == queue' = <<n>> \o queue

BehindFirst(n) ==
  queue' = IF queue = <<>> THEN <<n>> ELSE <<Head(queue), n>> \o Tail(queue)

AtEnd(n) == queue' = Append(queue, n)

Take == queue # <<>> /\ queue' = Tail(queue)

Next ==
  \/ Take
  \/ \E n \in Node \ Members : InFront(n) \/ BehindFirst(n) \/ AtEnd(n)

Spec == Init /\ [][Next]_queue

=============================================================================
