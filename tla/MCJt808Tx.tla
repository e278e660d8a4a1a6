------------------------------ MODULE MCJt808Tx ------------------------------
(***************************************************************************)
(* Instances of Jt808Tx for TLC.                                           *)
(***************************************************************************)
EXTENDS Jt808Tx, TLC

(* The blocks of the heap are interchangeable. *)
Blocks == Permutations(Node)

(* What ends a connection. *)
Endings == {"close", "failure", "power_off"}

NoWork == {}
CommandsAsked == {"command"}
CommandsQueued == {"cmd"}

(* Bound: two blocks are used, and a third one beside a picture while      *)
(* nothing was disturbed; the platform owes two answers, and one after the *)
(* disturbance; a terminal that is not registered is disturbed only once   *)
(* it is.                                                                  *)
Used == {n \in Node : heap[n].state # "FREE"}
Undisturbed == faults = MaxFaults
Explored ==
  /\ authcode \/ Undisturbed
  /\ Cardinality(owed) <= IF Undisturbed THEN 2 ELSE 1
  /\ \/ Cardinality(Used) <= 2
     \/ authcode /\ Undisturbed /\ \E n \in Used : heap[n].kind = "picture"

=============================================================================
