------------------------------- MODULE MsgList -------------------------------
(***************************************************************************)
(* The list of messages at the level of its pointers (msglist.c).  The     *)
(* threads hmi, jt808 and gps insert messages (node_end, jt808.c:341); the *)
(* gsm thread takes the first one out when it is done (jt808_tx_proc), and *)
(* when the list is empty it looks for a stored report, waiting for the    *)
(* flash, and appends it (jt808_report_get).  Nothing locks the list.  The *)
(* gsm thread has the highest priority of these: what it does to the list  *)
(* is one step for the others, and it may come between any two reads or    *)
(* writes of an insertion.  What a thread does that goes on from RT_NULL   *)
(* is undefined: here it goes no further.                                  *)
(***************************************************************************)
EXTENDS Naturals, Sequences, FiniteSets

CONSTANTS
  Node,     \* the nodes the memory has room for
  Nil,      \* RT_NULL
  Thread,   \* the inserting threads, as their priorities: 8, 10, 11
  Preempt   \* may a thread be preempted within an insertion?

ASSUME ListAssumption ==
  /\ Nil \notin Node /\ IsFiniteSet(Node)
  /\ Thread \subseteq Nat /\ Preempt \in BOOLEAN

VARIABLES
  first,  \* thiz->first
  next,   \* next and prev of each node
  prev,
  free,   \* the nodes not allocated
  reading, \* is the gsm thread in jt808_report_get?
  pc,     \* where each thread is in its insertion
  node,   \* its local variables node and iter
  iter

cells == <<first, next, prev, free, reading>>
locals == <<pc, node, iter>>
vars == <<cells, locals>>

Ops == {"prepend", "prepend_next", "append"}
Steps ==
  {<<"idle">>} \cup
  Ops \X {"check", "only", "head", "walk", "advance", "link", "publish"}

(* The last part says that no thread goes on from RT_NULL.  It is a claim  *)
(* about insertions that are not preempted.                                *)
TypeOK ==
  /\ first \in Node \cup {Nil}
  /\ next \in [Node -> Node \cup {Nil}] /\ prev \in [Node -> Node \cup {Nil}]
  /\ free \subseteq Node /\ reading \in BOOLEAN
  /\ pc \in [Thread -> Steps]
  /\ node \in [Thread -> Node \cup {Nil}] /\ iter \in [Thread -> Node \cup {Nil}]
  /\ \A t \in Thread :
       /\ pc[t] # <<"idle">> => node[t] # Nil
       /\ pc[t] \in Ops \X {"walk", "advance", "link", "publish"} => iter[t] # Nil

Idle(t) == pc[t] = <<"idle">>

Init ==
  /\ first = Nil
  /\ next = [n \in Node |-> Nil] /\ prev = [n \in Node |-> Nil]
  /\ free = Node /\ reading = FALSE
  /\ pc = [t \in Thread |-> <<"idle">>]
  /\ node = [t \in Thread |-> Nil] /\ iter = [t \in Thread |-> Nil]

(* A thread runs while no more urgent one is in an insertion. *)
Runs(t) ==
  /\ \A u \in Thread : u < t => Idle(u)
  /\ Preempt \/ \A u \in Thread \ {t} : Idle(u)

GsmRuns == Preempt \/ \A t \in Thread : Idle(t)

-----------------------------------------------------------------------------
(* The insertions. *)

(* msglist_node_create *)
Create(t, op) ==
  /\ Runs(t) /\ Idle(t)
  /\ \E n \in free :
       /\ free' = free \ {n}
       /\ next' = [next EXCEPT ![n] = Nil] /\ prev' = [prev EXCEPT ![n] = Nil]
       /\ node' = [node EXCEPT ![t] = n]
  /\ pc' = [pc EXCEPT ![t] = <<op, "check">>]
  /\ UNCHANGED <<first, reading, iter>>

At(t, op, step) == Runs(t) /\ pc[t] = <<op, step>>
AtNode(t, op, step) == At(t, op, step) /\ iter[t] # Nil
GoTo(t, op, step) == pc' = [pc EXCEPT ![t] = <<op, step>>]
Done(t) ==
  /\ pc' = [pc EXCEPT ![t] = <<"idle">>]
  /\ node' = [node EXCEPT ![t] = Nil] /\ iter' = [iter EXCEPT ![t] = Nil]

(* A mutant of Check: an empty list is not told apart. *)
CheckNothing(t, op) ==
  At(t, op, "check") /\ GoTo(t, op, "head") /\ UNCHANGED <<cells, node, iter>>

(* if(thiz->first == RT_NULL) *)
Check(t, op) ==
  /\ At(t, op, "check")
  /\ GoTo(t, op, IF first = Nil THEN "only" ELSE "head")
  /\ UNCHANGED <<cells, node, iter>>

(* thiz->first = node; *)
Only(t, op) ==
  /\ At(t, op, "only")
  /\ first' = node[t]
  /\ Done(t)
  /\ UNCHANGED <<next, prev, free, reading>>

(* iter = thiz->first; read again after the test. *)
TakeFirst(t, op) ==
  /\ At(t, op, "head")
  /\ iter' = [iter EXCEPT ![t] = first]
  /\ GoTo(t, op, IF op = "prepend_next" THEN "link" ELSE "walk")
  /\ UNCHANGED <<cells, node>>

Neighbour(t, op) == IF op = "prepend" THEN prev[iter[t]] ELSE next[iter[t]]

(* while(iter->prev != RT_NULL) or while(iter->next != RT_NULL) *)
Walk(t, op) ==
  /\ AtNode(t, op, "walk")
  /\ GoTo(t, op, IF Neighbour(t, op) = Nil THEN "link" ELSE "advance")
  /\ UNCHANGED <<cells, node, iter>>

(* iter = iter->prev; or iter = iter->next; read again after the test. *)
Advance(t, op) ==
  /\ AtNode(t, op, "advance")
  /\ iter' = [iter EXCEPT ![t] = Neighbour(t, op)]
  /\ GoTo(t, op, "walk")
  /\ UNCHANGED <<cells, node>>

LinkAppend(t) ==
  /\ AtNode(t, "append", "link")
  /\ next' = [next EXCEPT ![iter[t]] = node[t]]
  /\ prev' = [prev EXCEPT ![node[t]] = iter[t]]
  /\ Done(t)
  /\ UNCHANGED <<first, free, reading>>

LinkPrepend(t) ==
  /\ AtNode(t, "prepend", "link")
  /\ prev' = [prev EXCEPT ![iter[t]] = node[t]]
  /\ next' = [next EXCEPT ![node[t]] = iter[t]]
  /\ GoTo(t, "prepend", "publish")
  /\ UNCHANGED <<first, free, reading, node, iter>>

PublishPrepend(t) ==
  /\ At(t, "prepend", "publish")
  /\ first' = node[t]
  /\ Done(t)
  /\ UNCHANGED <<next, prev, free, reading>>

(* A mutant of LinkNext: the node does not get what is behind it. *)
LinkNextCutOff(t) ==
  /\ AtNode(t, "prepend_next", "link")
  /\ prev' = [prev EXCEPT ![node[t]] = iter[t]]
  /\ GoTo(t, "prepend_next", "publish")
  /\ UNCHANGED <<first, next, free, reading, node, iter>>

(* prev of the node behind is left as it was. *)
LinkNext(t) ==
  /\ AtNode(t, "prepend_next", "link")
  /\ prev' = [prev EXCEPT ![node[t]] = iter[t]]
  /\ next' = [next EXCEPT ![node[t]] = next[iter[t]]]
  /\ GoTo(t, "prepend_next", "publish")
  /\ UNCHANGED <<first, free, reading, node, iter>>

PublishNext(t) ==
  /\ AtNode(t, "prepend_next", "publish")
  /\ next' = [next EXCEPT ![iter[t]] = node[t]]
  /\ Done(t)
  /\ UNCHANGED <<first, prev, free, reading>>

-----------------------------------------------------------------------------
(* The gsm thread. *)

(* A mutant of Detached: the new first node keeps its prev. *)
DetachedKeepsPrev(n) == [prev EXCEPT ![n] = Nil]

(* prev after n is taken out: memset of the node, none before the new first. *)
Detached(n) ==
  [m \in Node |-> IF m = n \/ m = next[n] THEN Nil ELSE prev[m]]

(* jt808_tx_proc takes out the first node: list_jt808_tx->first = node->next. *)
Remove ==
  /\ GsmRuns /\ ~reading /\ first # Nil
  /\ first' = next[first]
  /\ prev' = Detached(first)
  /\ next' = [next EXCEPT ![first] = Nil]
  /\ free' = free \cup {first}
  /\ UNCHANGED <<locals, reading>>

(* The nodes found from first along next, at most as many as there are. *)
Chain ==
  LET at[k \in 1 .. Cardinality(Node)] ==
        IF k = 1 THEN first ELSE IF at[k - 1] = Nil THEN Nil ELSE next[at[k - 1]]
  IN [k \in {i \in 1 .. Cardinality(Node) : at[i] # Nil} |-> at[k]]

(* jt808_tx_proc finds the list empty and calls jt808_report_get, which    *)
(* waits for the flash: the list may get messages in the meantime.         *)
ReadReport ==
  /\ GsmRuns /\ ~reading /\ first = Nil
  /\ reading' = TRUE
  /\ UNCHANGED <<first, next, prev, free, locals>>

(* There is no report to send, or no memory for it. *)
NoReport ==
  /\ GsmRuns /\ reading /\ reading' = FALSE
  /\ UNCHANGED <<first, next, prev, free, locals>>

(* The report is appended, to the list as it is now. *)
AddReport ==
  /\ GsmRuns /\ reading /\ reading' = FALSE
  /\ \E n \in free :
       /\ free' = free \ {n}
       /\ \/ /\ first = Nil /\ first' = n
             /\ next' = [next EXCEPT ![n] = Nil] /\ prev' = [prev EXCEPT ![n] = Nil]
          \/ /\ first # Nil /\ first' = first
             /\ LET last == Chain[Len(Chain)]
                IN /\ next[last] = Nil
                   /\ next' = [next EXCEPT ![n] = Nil, ![last] = n]
                   /\ prev' = [prev EXCEPT ![n] = last]
  /\ UNCHANGED locals

Insertion(t, op) ==
  \/ Create(t, op) \/ Check(t, op) \/ Only(t, op)
  \/ TakeFirst(t, op) \/ Walk(t, op) \/ Advance(t, op)
Linking(t) ==
  \/ LinkAppend(t) \/ LinkPrepend(t) \/ PublishPrepend(t)
  \/ LinkNext(t) \/ PublishNext(t)

Next ==
  \/ Remove \/ ReadReport \/ NoReport \/ AddReport
  \/ \E t \in Thread : Linking(t) \/ \E op \in Ops : Insertion(t, op)

Spec == Init /\ [][Next]_vars

-----------------------------------------------------------------------------
(* Properties. *)

Linked == {Chain[i] : i \in DOMAIN Chain}
BeingInserted == {node[t] : t \in {u \in Thread : ~Idle(u)}}

(* doc/编程杂记.txt:58-60 "the list changes dynamically, take care that no  *)
(* memory leaks": a node that is allocated is in the list or is being      *)
(* inserted, and no node of the list is free.                              *)
NoNodeLost ==
  /\ Node \ free \subseteq Linked \cup BeingInserted
  /\ Linked \cap free = {}

(* The pointers are a queue for their users, although prev is wrong behind *)
(* a node that msglist_prepend_next inserted: msglist_prepend goes along   *)
(* prev, but only from the first node, which has none.                     *)
Queue == INSTANCE MessageQueue WITH queue <- Chain
IsQueue == Queue!Spec

=============================================================================
