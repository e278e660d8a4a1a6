---------------------------- MODULE ReportDelivery ----------------------------
(***************************************************************************)
(* What the storage of position reports promises: every report that was    *)
(* stored completely waits until the platform has it and its confirmation  *)
(* has come back; a report may reach the platform several times, and is    *)
(* given up only when the ring is full, the oldest ones first.             *)
(***************************************************************************)
EXTENDS Naturals

VARIABLES
  waiting,   \* the reports in the ring that are not confirmed
  seen,      \* the reports there have been, numbered in their order
  delivered  \* the reports the platform has

vars == <<waiting, seen, delivered>>

TypeOK ==
  /\ seen \subseteq Nat \ {0}
  /\ waiting \subseteq seen
  /\ delivered \subseteq seen

Init == waiting = {} /\ seen = {} /\ delivered = {}

New(r) == r \in Nat \ {0} /\ \A s \in seen : s < r

Store(r) ==
  /\ New(r)
  /\ seen' = seen \cup {r} /\ waiting' = waiting \cup {r}
  /\ UNCHANGED delivered

(* The power fails while a report is written. *)
Interrupt(r) ==
  /\ New(r)
  /\ seen' = seen \cup {r}
  /\ UNCHANGED <<waiting, delivered>>

Deliver(r) ==
  /\ r \in seen
  /\ delivered' = delivered \cup {r}
  /\ UNCHANGED <<waiting, seen>>

Confirm(r) ==
  /\ r \in waiting \cap delivered
  /\ waiting' = waiting \ {r}
  /\ UNCHANGED <<seen, delivered>>

Overwrite(kept) ==
  /\ kept \subseteq waiting
  /\ \A w \in waiting \ kept, k \in kept : w < k
  /\ waiting' = kept
  /\ UNCHANGED <<seen, delivered>>

Next ==
  \/ \E r \in seen' : Store(r) \/ Interrupt(r)
  \/ \E r \in seen : Deliver(r) \/ Confirm(r)
  \/ \E kept \in SUBSET waiting : Overwrite(kept)

Spec == Init /\ [][Next]_vars

=============================================================================
