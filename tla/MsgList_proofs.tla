---------------------------- MODULE MsgList_proofs ----------------------------
(***************************************************************************)
(* The list of messages is a queue, whatever threads insert into it and    *)
(* however many nodes there are, as long as no call is preempted.          *)
(***************************************************************************)
EXTENDS MsgList, FiniteSetTheorems, SequenceTheorems, WellFoundedInduction, TLAPS

LEMMA LeastOf ==
  ASSUME NEW S, S \subseteq Nat, S # {}
  PROVE  \E x \in S : \A y \in S : x <= y
<1>1. PICK x \in S : x \in S /\ \A y \in S : ~(<<y, x>> \in OpToRel(<, Nat))
  BY NatLessThanWellFounded, WFMin
<1>2. \A y \in S : ~(y < x)
  BY <1>1 DEF OpToRel
<1> QED BY <1>2

-----------------------------------------------------------------------------
(* The nodes that are found from first along next.                         *)

Among(n, s) == \E i \in 1 .. Len(s) : s[i] = n
Distinct(s) == \A i, j \in 1 .. Len(s) : s[i] = s[j] => i = j
Follows(s) ==
  /\ first = IF s = <<>> THEN Nil ELSE s[1]
  /\ \A i \in 1 .. Len(s) : next[s[i]] = IF i = Len(s) THEN Nil ELSE s[i + 1]

(* A sequence without repetition is not longer than there are nodes.       *)
LEMMA DistinctFit ==
  ASSUME NEW s \in Seq(Node), Distinct(s)
  PROVE  Len(s) <= Cardinality(Node) /\ Cardinality(Node) \in Nat
<1>1. IsFiniteSet(Node) /\ Cardinality(Node) \in Nat
  BY ListAssumption, FS_CardinalityType
<1>2. Len(s) \in Nat /\ s \in [1 .. Len(s) -> Node]
  BY LenProperties
<1>3. IsFiniteSet(1 .. Len(s)) /\ Cardinality(1 .. Len(s)) = Len(s)
  BY <1>2, FS_Interval
<1>4. s \in Injection(1 .. Len(s), Node)
  BY <1>2 DEF Injection, IsInjective, Distinct
<1> QED BY <1>1, <1>2, <1>3, <1>4, FS_Injection

(* Chain finds what the pointers link.                                     *)
LEMMA ChainFound ==
  ASSUME NEW s \in Seq(Node), Distinct(s), Follows(s)
  PROVE  Chain = s
<1> DEFINE N == Cardinality(Node)
           Is(g) == g = [k \in 1 .. N |->
                           IF k = 1 THEN first
                           ELSE IF g[k - 1] = Nil THEN Nil ELSE next[g[k - 1]]]
           a == [k \in 1 .. N |-> IF k <= Len(s) THEN s[k] ELSE Nil]
           c == CHOOSE g : Is(g)
<1>1. /\ N \in Nat /\ Len(s) \in Nat /\ Len(s) <= N
      /\ s \in [1 .. Len(s) -> Node] /\ (s = <<>> <=> Len(s) = 0)
  BY DistinctFit, LenProperties, EmptySeq
<1>2. \A k \in 1 .. Len(s) : s[k] # Nil
  BY <1>1, ListAssumption
<1> HIDE DEF N
<1>3. Is(a)
  <2>1. ASSUME NEW k \in 1 .. N
        PROVE  (IF k <= Len(s) THEN s[k] ELSE Nil)
                 = IF k = 1 THEN first
                   ELSE IF a[k - 1] = Nil THEN Nil ELSE next[a[k - 1]]
    <3>1. CASE k = 1
      <4>1. 1 <= Len(s) <=> s # <<>>
        BY <1>1
      <4> QED BY <3>1, <4>1 DEF Follows
    <3>2. CASE k # 1
      <4>1. k - 1 \in 1 .. N /\ (k - 1) + 1 = k /\ k \in Nat
        BY <1>1, <3>2
      <4>2. a[k - 1] = IF k - 1 <= Len(s) THEN s[k - 1] ELSE Nil
        BY <4>1
      <4> HIDE DEF a
      <4>3. CASE k - 1 <= Len(s)
        <5>1. k - 1 \in 1 .. Len(s) /\ (k - 1 = Len(s) <=> ~(k <= Len(s)))
          BY <1>1, <4>1, <4>3
        <5> QED BY <1>2, <3>2, <4>1, <4>2, <4>3, <5>1 DEF Follows
      <4>4. CASE ~(k - 1 <= Len(s))
        <5>1. ~(k <= Len(s))
          BY <1>1, <4>1, <4>4
        <5> QED BY <3>2, <4>2, <4>4, <5>1
      <4> QED BY <4>3, <4>4
    <3> QED BY <3>1, <3>2
  <2> QED BY <2>1
<1>4. Is(c)
  <2> HIDE DEF Is
  <2> QED BY <1>3
<1>5. \A k \in 1 .. N : c[k] = a[k]
  <2> DEFINE D == {k \in 1 .. N : c[k] # a[k]}
  <2> SUFFICES ASSUME D # {} PROVE FALSE
    OBVIOUS
  <2>1. PICK k \in D : \A j \in D : k <= j
    <3>1. D \subseteq Nat
      BY <1>1
    <3> HIDE DEF D
    <3> QED BY <3>1, LeastOf
  <2> HIDE DEF a, c
  <2>2. k \in 1 .. N /\ c[k] # a[k]
    BY <2>1
  <2>3. k # 1 => k - 1 \in 1 .. N /\ ~(k <= k - 1)
    BY <1>1, <2>2
  <2>4. k # 1 => c[k - 1] = a[k - 1]
    BY <2>1, <2>3
  <2>5. c[k] = IF k = 1 THEN first ELSE IF c[k - 1] = Nil THEN Nil ELSE next[c[k - 1]]
    BY <1>4, <2>2
  <2>6. a[k] = IF k = 1 THEN first ELSE IF a[k - 1] = Nil THEN Nil ELSE next[a[k - 1]]
    BY <1>3, <2>2
  <2> QED BY <2>2, <2>4, <2>5, <2>6
<1>6. Chain = [k \in {i \in 1 .. N : c[i] # Nil} |-> c[k]]
  BY DEF Chain, N
<1>7. {i \in 1 .. N : c[i] # Nil} = 1 .. Len(s)
  <2> HIDE DEF c
  <2>1. \A i \in 1 .. N : c[i] = IF i <= Len(s) THEN s[i] ELSE Nil
    BY <1>5
  <2>2. \A i : i \in 1 .. Len(s) <=> i \in 1 .. N /\ i <= Len(s)
    BY <1>1
  <2> QED BY <1>2, <2>1, <2>2
<1>8. \A i \in 1 .. Len(s) : c[i] = s[i]
  <2> HIDE DEF c
  <2>1. \A i \in 1 .. Len(s) : i \in 1 .. N /\ i <= Len(s)
    BY <1>1
  <2> QED BY <1>5, <2>1
<1> HIDE DEF c
<1>9. Chain = [k \in 1 .. Len(s) |-> s[k]]
  BY <1>6, <1>7, <1>8
<1> QED BY <1>1, <1>9

-----------------------------------------------------------------------------
(* The types, but for what iter has where it is followed.                  *)

Types ==
  /\ first \in Node \cup {Nil}
  /\ next \in [Node -> Node \cup {Nil}] /\ prev \in [Node -> Node \cup {Nil}]
  /\ free \subseteq Node /\ reading \in BOOLEAN
  /\ pc \in [Thread -> Steps]
  /\ node \in [Thread -> Node \cup {Nil}] /\ iter \in [Thread -> Node \cup {Nil}]
  /\ \A t \in Thread : pc[t] # <<"idle">> => node[t] # Nil

LEMMA TypeStep ==
  ASSUME Types, [Next]_vars, first # Nil => Chain[Len(Chain)] \in Node
  PROVE  Types'
<1> USE DEF Types, Idle
<1>1. \A op \in Ops, w \in {"check", "only", "head", "walk", "advance", "link", "publish"} :
        /\ <<op, w>> \in Steps /\ <<op, w>> # <<"idle">> /\ <<op, w>>[2] = w
  BY DEF Steps
<1>1a. <<"idle">> \in Steps /\ "prepend" \in Ops /\ "prepend_next" \in Ops /\ "append" \in Ops
  BY DEF Steps, Ops
<1>2. ASSUME NEW t \in Thread, NEW op \in Ops, Create(t, op) PROVE Types'
  <2>1. PICK n \in free : /\ free' = free \ {n}
                          /\ next' = [next EXCEPT ![n] = Nil]
                          /\ prev' = [prev EXCEPT ![n] = Nil]
                          /\ node' = [node EXCEPT ![t] = n]
    BY <1>2 DEF Create
  <2>2. /\ pc' = [pc EXCEPT ![t] = <<op, "check">>]
        /\ UNCHANGED <<first, reading, iter>>
    BY <1>2 DEF Create
  <2>3. /\ pc' \in [Thread -> Steps] /\ node' \in [Thread -> Node \cup {Nil}]
        /\ iter' \in [Thread -> Node \cup {Nil}]
    BY <1>1, <2>1, <2>2
  <2>4. \A u \in Thread : pc'[u] # <<"idle">> => node'[u] # Nil
    BY <1>1, <2>1, <2>2, ListAssumption
  <2>5. /\ next' \in [Node -> Node \cup {Nil}] /\ prev' \in [Node -> Node \cup {Nil}]
        /\ free' \subseteq Node /\ first' \in Node \cup {Nil} /\ reading' \in BOOLEAN
    BY <2>1, <2>2
  <2> QED BY <2>3, <2>4, <2>5
<1>3. ASSUME NEW t \in Thread, NEW op \in Ops, NEW w \in {"only", "head", "link", "advance"},
             pc[t] # <<"idle">>, GoTo(t, op, w), UNCHANGED <<cells, node, iter>>
      PROVE  Types'
  <2>1. pc' = [pc EXCEPT ![t] = <<op, w>>] /\ <<op, w>> \in Steps
    BY <1>1, <1>3 DEF GoTo
  <2> QED BY <1>3, <2>1 DEF cells
<1>4. ASSUME NEW t \in Thread, NEW op \in Ops, Check(t, op) PROVE Types'
  <2>1. PICK w \in {"only", "head"} : GoTo(t, op, w)
    BY <1>4 DEF Check
  <2> QED BY <1>1, <1>3, <1>4, <2>1 DEF Check, At
<1>5. ASSUME NEW t \in Thread, NEW op \in Ops, Walk(t, op) PROVE Types'
  <2>1. PICK w \in {"link", "advance"} : GoTo(t, op, w)
    BY <1>5 DEF Walk
  <2> QED BY <1>1, <1>3, <1>5, <2>1 DEF Walk, AtNode, At
<1>6. ASSUME NEW t \in Thread, NEW op \in Ops, Only(t, op) PROVE Types'
  BY <1>1, <1>1a, <1>6 DEF Only, At, Done
<1>7. ASSUME NEW t \in Thread, NEW op \in Ops, NEW w \in {"link", "walk"},
             NEW n \in Node \cup {Nil}, pc[t] # <<"idle">>, GoTo(t, op, w),
             iter' = [iter EXCEPT ![t] = n], UNCHANGED <<cells, node>>
      PROVE  Types'
  <2>1. pc' = [pc EXCEPT ![t] = <<op, w>>] /\ <<op, w>> \in Steps
    BY <1>1, <1>7 DEF GoTo
  <2> QED BY <1>7, <2>1 DEF cells
<1>8. ASSUME NEW t \in Thread, NEW op \in Ops, TakeFirst(t, op) PROVE Types'
  <2>1. PICK w \in {"link", "walk"} : GoTo(t, op, w)
    BY <1>8 DEF TakeFirst
  <2> QED BY <1>1, <1>7, <1>8, <2>1 DEF TakeFirst, At
<1>9. ASSUME NEW t \in Thread, NEW op \in Ops, Advance(t, op) PROVE Types'
  <2>1. Neighbour(t, op) \in Node \cup {Nil}
    BY <1>9 DEF Advance, AtNode, Neighbour
  <2> QED BY <1>1, <1>7, <1>9, <2>1 DEF Advance, AtNode, At
<1>10. ASSUME NEW t \in Thread, LinkAppend(t) PROVE Types'
  <2>1. node[t] \in Node /\ iter[t] \in Node
    BY <1>1, <1>1a, <1>10 DEF LinkAppend, AtNode, At
  <2>2. /\ next' \in [Node -> Node \cup {Nil}] /\ prev' \in [Node -> Node \cup {Nil}]
        /\ free' \subseteq Node /\ first' \in Node \cup {Nil} /\ reading' \in BOOLEAN
    BY <1>10, <2>1 DEF LinkAppend
  <2>3. Done(t)
    BY <1>10 DEF LinkAppend
  <2> QED BY <1>1a, <2>2, <2>3 DEF Done
<1>11. ASSUME NEW t \in Thread, LinkPrepend(t) PROVE Types'
  <2>1. node[t] \in Node /\ iter[t] \in Node
    BY <1>1, <1>1a, <1>11 DEF LinkPrepend, AtNode, At
  <2>2. /\ next' \in [Node -> Node \cup {Nil}] /\ prev' \in [Node -> Node \cup {Nil}]
        /\ free' \subseteq Node /\ first' \in Node \cup {Nil} /\ reading' \in BOOLEAN
    BY <1>11, <2>1 DEF LinkPrepend
  <2>3. pc' = [pc EXCEPT ![t] = <<"prepend", "publish">>] /\ node' = node /\ iter' = iter
    BY <1>11 DEF LinkPrepend, GoTo
  <2>4. <<"prepend", "publish">> \in Steps
    BY <1>1, <1>1a
  <2>5. pc' \in [Thread -> Steps]
    BY <2>3, <2>4
  <2>6. ASSUME NEW u \in Thread, pc'[u] # <<"idle">> PROVE node'[u] # Nil
    BY <2>1, <2>3, <2>6, ListAssumption
  <2> QED BY <2>2, <2>3, <2>5, <2>6
<1>12. ASSUME NEW t \in Thread, PublishPrepend(t) PROVE Types'
  BY <1>1, <1>1a, <1>12 DEF PublishPrepend, At, Done
<1>13. ASSUME NEW t \in Thread, LinkNext(t) PROVE Types'
  <2>1. node[t] \in Node /\ iter[t] \in Node
    BY <1>1, <1>1a, <1>13 DEF LinkNext, AtNode, At
  <2>2. /\ next' \in [Node -> Node \cup {Nil}] /\ prev' \in [Node -> Node \cup {Nil}]
        /\ free' \subseteq Node /\ first' \in Node \cup {Nil} /\ reading' \in BOOLEAN
    BY <1>13, <2>1 DEF LinkNext
  <2>3. pc' = [pc EXCEPT ![t] = <<"prepend_next", "publish">>] /\ node' = node /\ iter' = iter
    BY <1>13 DEF LinkNext, GoTo
  <2>4. <<"prepend_next", "publish">> \in Steps
    BY <1>1, <1>1a
  <2>5. pc' \in [Thread -> Steps]
    BY <2>3, <2>4
  <2>6. ASSUME NEW u \in Thread, pc'[u] # <<"idle">> PROVE node'[u] # Nil
    BY <2>1, <2>3, <2>6, ListAssumption
  <2> QED BY <2>2, <2>3, <2>5, <2>6
<1>14. ASSUME NEW t \in Thread, PublishNext(t) PROVE Types'
  <2>1. node[t] \in Node /\ iter[t] \in Node
    BY <1>1, <1>1a, <1>14 DEF PublishNext, AtNode, At
  <2>2. /\ next' \in [Node -> Node \cup {Nil}] /\ prev' \in [Node -> Node \cup {Nil}]
        /\ free' \subseteq Node /\ first' \in Node \cup {Nil} /\ reading' \in BOOLEAN
    BY <1>14, <2>1 DEF PublishNext
  <2>3. Done(t)
    BY <1>14 DEF PublishNext
  <2> QED BY <1>1a, <2>2, <2>3 DEF Done
<1>15. CASE Remove
  BY <1>15 DEF Remove, Detached, locals
<1>16. CASE ReadReport
  BY <1>16 DEF ReadReport, locals
<1>17. CASE NoReport
  BY <1>17 DEF NoReport, locals
<1>18. CASE AddReport
  <2>0. PICK l : l = Chain[Len(Chain)]
    OBVIOUS
  <2>1. PICK n \in free :
          /\ free' = free \ {n}
          /\ \/ /\ first' = n
                /\ next' = [next EXCEPT ![n] = Nil] /\ prev' = [prev EXCEPT ![n] = Nil]
             \/ /\ first # Nil /\ first' = first
                /\ next' = [next EXCEPT ![n] = Nil, ![l] = n]
                /\ prev' = [prev EXCEPT ![n] = l]
    BY <1>18, <2>0 DEF AddReport
  <2>2. first # Nil => l \in Node
    BY <2>0
  <2>3. /\ next' \in [Node -> Node \cup {Nil}] /\ prev' \in [Node -> Node \cup {Nil}]
        /\ free' \subseteq Node /\ first' \in Node \cup {Nil}
    BY <2>1, <2>2
  <2>4. reading' \in BOOLEAN /\ UNCHANGED locals
    BY <1>18 DEF AddReport
  <2> QED BY <2>3, <2>4 DEF locals
<1>19. CASE UNCHANGED vars
  BY <1>19 DEF vars, cells, locals
<1> QED BY <1>2, <1>4, <1>5, <1>6, <1>8, <1>9, <1>10, <1>11, <1>12, <1>13, <1>14, <1>15,
           <1>16, <1>17, <1>18, <1>19
        DEF Next, Insertion, Linking

-----------------------------------------------------------------------------
(* While no insertion is preempted, the pointers follow a sequence of      *)
(* nodes, and an insertion only has a node that is not in it.              *)

Standing(s) == s \in Seq(Node) /\ Distinct(s) /\ Follows(s)

Allocated(s) ==
  /\ \A n \in Node : n \in free <=> /\ ~Among(n, s)
                                    /\ \A t \in Thread : Idle(t) \/ node[t] # n
  /\ \A t \in Thread : Idle(t) \/ ~Among(node[t], s)

Alone == \A t, u \in Thread : ~Idle(t) /\ ~Idle(u) => t = u

(* Where a thread is in its insertion, and what it has done.               *)
Looking(t, s) ==
  \E op \in Ops : /\ \/ pc[t] = <<op, "check">>
                     \/ pc[t] = <<op, "only">> /\ s = <<>>
                     \/ pc[t] = <<op, "head">> /\ s # <<>>
                  /\ next[node[t]] = Nil /\ prev[node[t]] = Nil
Appending(t, s) ==
  /\ Among(iter[t], s) /\ next[node[t]] = Nil
  /\ \/ pc[t] = <<"append", "walk">>
     \/ pc[t] = <<"append", "advance">> /\ next[iter[t]] # Nil
     \/ pc[t] = <<"append", "link">> /\ next[iter[t]] = Nil
Prepending(t, s) ==
  /\ s # <<>> /\ iter[t] = s[1] /\ prev[node[t]] = Nil
  /\ \/ pc[t] = <<"prepend", "walk">> \/ pc[t] = <<"prepend", "link">>
     \/ pc[t] = <<"prepend", "publish">> /\ next[node[t]] = iter[t]
Following(t, s) ==
  /\ s # <<>> /\ iter[t] = s[1]
  /\ \/ pc[t] = <<"prepend_next", "link">>
     \/ pc[t] = <<"prepend_next", "publish">> /\ next[node[t]] = next[iter[t]]
Inserting(t, s) ==
  Idle(t) \/ Looking(t, s) \/ Appending(t, s) \/ Prepending(t, s) \/ Following(t, s)

(* Nothing is in front of the first node, but for a moment.                *)
Leads(s) ==
  s # <<>> => \/ prev[s[1]] = Nil
              \/ \E t \in Thread : pc[t] = <<"prepend", "publish">>

Holds(s) ==
  /\ Standing(s) /\ Allocated(s) /\ Alone /\ Leads(s)
  /\ \A t \in Thread : Inserting(t, s)

ListInv == \E s \in Seq(Node) : Holds(s)

(* The steps of the queue.                                                 *)
QueueStep(s, u) ==
  \/ s # <<>> /\ u = Tail(s)
  \/ \E n \in Node :
       /\ ~Among(n, s)
       /\ \/ u = <<n>> \o s
          \/ u = IF s = <<>> THEN <<n>> ELSE <<Head(s), n>> \o Tail(s)
          \/ u = Append(s, n)

(* An insertion has come to its end.                                       *)
LEMMA InsertionEnds ==
  ASSUME TypeOK, NEW s \in Seq(Node), Holds(s), NEW t \in Thread, ~Idle(t), Done(t),
         UNCHANGED free, NEW u \in Seq(Node), Distinct(u), Follows(u)',
         \A n : Among(n, u) <=> Among(n, s) \/ n = node[t],
         u # <<>> /\ prev'[u[1]] = Nil
  PROVE  Holds(u)'
<1>1. \A v \in Thread : Idle(v)'
  BY DEF Holds, Alone, Done, Idle, TypeOK
<1>2. Allocated(u)'
  <2>1. ASSUME NEW n \in Node
        PROVE  n \in free <=> ~Among(n, s) /\ n # node[t]
    BY DEF Holds, Allocated, Alone
  <2> QED BY <1>1, <2>1 DEF Allocated, Among
<1>3. Standing(u)'
  BY DEF Standing, Distinct
<1> QED BY <1>1, <1>2, <1>3 DEF Holds, Alone, Leads, Inserting

(* A step of the gsm thread, with a new sequence of nodes.                 *)
LEMMA GsmStepDone ==
  ASSUME NEW s \in Seq(Node), Holds(s), \A t \in Thread : Idle(t),
         UNCHANGED locals, NEW u \in Seq(Node), Distinct(u), Follows(u)',
         \A n \in Node : n \in free' <=> ~Among(n, u),
         u # <<>> => prev'[u[1]] = Nil
  PROVE  Holds(u)'
<1>1. \A t \in Thread : Idle(t)'
  BY DEF Idle, locals
<1> QED BY <1>1 DEF Holds, Alone, Leads, Inserting, Standing, Allocated, Among, Distinct

(* A step within an insertion does not touch the nodes of the list.        *)
LEMMA InsertionGoesOn ==
  ASSUME TypeOK, NEW s \in Seq(Node), Holds(s), NEW t \in Thread,
         \A v \in Thread \ {t} : Idle(v),
         pc' = [pc EXCEPT ![t] = pc'[t]], ~Idle(t)',
         node'[t] \in Node, ~Among(node'[t], s),
         free' = free \ {node'[t]}, Idle(t) \/ (node'[t] = node[t]),
         UNCHANGED first,
         \A m \in Node : m # node'[t] => next'[m] = next[m],
         Inserting(t, s)', Leads(s)'
  PROVE  Holds(s)'
<1>1. \A v \in Thread \ {t} : Idle(v)'
  BY DEF Idle, TypeOK
<1>2. Alone'
  BY <1>1 DEF Alone
<1>3. Follows(s)'
  <2>1. \A i \in 1 .. Len(s) : s[i] \in Node /\ s[i] # node'[t]
    BY LenProperties DEF Among
  <2>2. \A i \in 1 .. Len(s) : next'[s[i]] = next[s[i]]
    BY <2>1
  <2> QED BY <2>2 DEF Follows, Holds, Standing
<1>4. Allocated(s)'
  <2>1. ASSUME NEW n \in Node
        PROVE  n \in free' <=> ~Among(n, s) /\ n # node'[t]
    BY DEF Holds, Allocated
  <2> QED BY <1>1, <2>1 DEF Allocated, Among
<1>5. \A v \in Thread : Inserting(v, s)'
  BY <1>1 DEF Inserting
<1> QED BY <1>2, <1>3, <1>4, <1>5 DEF Holds, Standing, Distinct, Among

-----------------------------------------------------------------------------
(* Sequences with one node more or less.                                   *)

IsInFront(n, s, u) ==
  /\ u \in Seq(Node) /\ u # <<>> /\ Distinct(u)
  /\ \A m : Among(m, u) <=> Among(m, s) \/ m = n
  /\ Len(s) \in Nat /\ Len(u) = Len(s) + 1 /\ u[1] = n
  /\ \A i \in 1 .. Len(s) : u[i + 1] = s[i]

LEMMA InFrontSeq ==
  ASSUME NEW s \in Seq(Node), Distinct(s), NEW n \in Node, ~Among(n, s),
         NEW u, u = <<n>> \o s
  PROVE  IsInFront(n, s, u)
<1>1. <<n>> \in Seq(Node) /\ Len(<<n>>) = 1 /\ <<n>>[1] = n
  OBVIOUS
<1>2. /\ u \in Seq(Node) /\ Len(u) = 1 + Len(s)
      /\ \A i \in 1 .. 1 + Len(s) : u[i] = IF i <= 1 THEN <<n>>[i] ELSE s[i - 1]
  BY <1>1, ConcatProperties
<1>3. Len(s) \in Nat
  BY LenProperties
<1>4. Len(u) = Len(s) + 1 /\ u[1] = n /\ u # <<>>
  BY <1>1, <1>2, <1>3, EmptySeq
<1>5. ASSUME NEW i \in 1 .. Len(s) PROVE u[i + 1] = s[i]
  <2>1. i + 1 \in 1 .. 1 + Len(s) /\ ~(i + 1 <= 1) /\ (i + 1) - 1 = i
    BY <1>3
  <2> QED BY <1>2, <2>1
<1>6. \A j \in 1 .. Len(u) : j = 1 \/ (j - 1 \in 1 .. Len(s) /\ u[j] = s[j - 1])
  BY <1>2, <1>3
<1>7. Distinct(u)
  BY <1>3, <1>4, <1>6 DEF Distinct, Among
<1>8. ASSUME NEW m PROVE Among(m, u) <=> Among(m, s) \/ m = n
  <2>1. Among(m, s) => Among(m, u)
    <3>1. \A i \in 1 .. Len(s) : i + 1 \in 1 .. Len(u)
      BY <1>3, <1>4
    <3> QED BY <1>5, <3>1 DEF Among
  <2>2. 1 \in 1 .. Len(u)
    BY <1>3, <1>4
  <2> QED BY <1>4, <1>6, <2>1, <2>2 DEF Among
<1> QED BY <1>2, <1>3, <1>4, <1>5, <1>7, <1>8 DEF IsInFront

IsAtEnd(n, s, u) ==
  /\ u \in Seq(Node) /\ u # <<>> /\ Distinct(u)
  /\ \A m : Among(m, u) <=> Among(m, s) \/ m = n
  /\ Len(s) \in Nat /\ Len(u) = Len(s) + 1 /\ u[Len(s) + 1] = n
  /\ \A i \in 1 .. Len(s) : u[i] = s[i]

LEMMA AtEndSeq ==
  ASSUME NEW s \in Seq(Node), Distinct(s), NEW n \in Node, ~Among(n, s),
         NEW u, u = Append(s, n)
  PROVE  IsAtEnd(n, s, u)
<1>1. Len(s) \in Nat
  BY LenProperties
<1>2. /\ u \in Seq(Node) /\ Len(u) = Len(s) + 1 /\ u[Len(s) + 1] = n
      /\ \A i \in 1 .. Len(s) : u[i] = s[i]
  BY <1>1
<1>3. u # <<>>
  BY <1>1, <1>2, EmptySeq
<1>4. \A j \in 1 .. Len(u) : j = Len(s) + 1 \/ (j \in 1 .. Len(s) /\ u[j] = s[j])
  BY <1>1, <1>2
<1>5. Distinct(u)
  BY <1>1, <1>2, <1>4 DEF Distinct, Among
<1>6. \A j \in 1 .. Len(s) : j \in 1 .. Len(u)
  BY <1>1, <1>2
<1>7. Len(s) + 1 \in 1 .. Len(u)
  BY <1>1, <1>2
<1>8. \A m : Among(m, u) <=> Among(m, s) \/ m = n
  BY <1>2, <1>4, <1>6, <1>7 DEF Among
<1> QED BY <1>1, <1>2, <1>3, <1>5, <1>8 DEF IsAtEnd

IsTail(s, u) ==
  /\ u \in Seq(Node) /\ Distinct(u) /\ s[1] \in Node /\ Among(s[1], s)
  /\ Head(s) = s[1]
  /\ \A m : Among(m, u) <=> Among(m, s) /\ m # s[1]
  /\ Len(u) \in Nat /\ Len(s) = Len(u) + 1 /\ (u = <<>> <=> Len(u) = 0)
  /\ \A i \in 1 .. Len(u) : u[i] = s[i + 1]

LEMMA TailSeq ==
  ASSUME NEW s \in Seq(Node), s # <<>>, Distinct(s), NEW u, u = Tail(s)
  PROVE  IsTail(s, u)
<1>1. Len(s) \in Nat /\ Len(s) # 0
  BY LenProperties, EmptySeq
<1>2. /\ u \in Seq(Node) /\ Len(u) = Len(s) - 1
      /\ \A i \in 1 .. Len(u) : u[i] = s[i + 1]
  BY HeadTailProperties
<1>3. Len(u) \in Nat /\ Len(s) = Len(u) + 1 /\ (u = <<>> <=> Len(u) = 0)
  BY <1>1, <1>2, EmptySeq
<1>4. 1 \in 1 .. Len(s) /\ s[1] \in Node /\ Head(s) = s[1]
  BY <1>1, ElementOfSeq
<1>5. \A i \in 1 .. Len(u) : i + 1 \in 1 .. Len(s) /\ i + 1 # 1
  BY <1>3
<1>6. \A j \in 1 .. Len(s) : j = 1 \/ (j - 1 \in 1 .. Len(u) /\ u[j - 1] = s[j])
  <2> TAKE j \in 1 .. Len(s)
  <2>1. j # 1 => j - 1 \in 1 .. Len(u) /\ (j - 1) + 1 = j
    BY <1>3
  <2> QED BY <1>2, <2>1
<1>7. Distinct(u)
  BY <1>2, <1>3, <1>5 DEF Distinct
<1>8. ASSUME NEW m PROVE Among(m, u) <=> Among(m, s) /\ m # s[1]
  <2>1. Among(m, u) => Among(m, s) /\ m # s[1]
    <3> SUFFICES ASSUME NEW i \in 1 .. Len(u), u[i] = m PROVE Among(m, s) /\ m # s[1]
      BY DEF Among
    <3>1. s[i + 1] = m
      BY <1>2
    <3>2. m # s[1]
      BY <1>4, <1>5, <3>1 DEF Distinct
    <3> QED BY <1>5, <3>1, <3>2 DEF Among
  <2> QED BY <1>6, <2>1 DEF Among
<1> QED BY <1>2, <1>3, <1>4, <1>7, <1>8 DEF Among, IsTail

IsBehindFirst(n, s, u) ==
  /\ u \in Seq(Node) /\ u # <<>> /\ Distinct(u)
  /\ \A m : Among(m, u) <=> Among(m, s) \/ m = n
  /\ Len(s) \in Nat \ {0} /\ Len(u) = Len(s) + 1 /\ u[1] = s[1] /\ u[2] = n
  /\ \A i \in 2 .. Len(s) : u[i + 1] = s[i]

LEMMA BehindFirstSeq ==
  ASSUME NEW s \in Seq(Node), s # <<>>, Distinct(s), NEW n \in Node, ~Among(n, s),
         NEW u, u = <<Head(s), n>> \o Tail(s)
  PROVE  IsBehindFirst(n, s, u)
<1> DEFINE v == Tail(s)
           w == <<n>> \o v
           x == <<Head(s)>> \o w
<1>1. /\ v \in Seq(Node) /\ Distinct(v) /\ s[1] \in Node /\ Among(s[1], s)
      /\ Head(s) = s[1]
      /\ \A m : Among(m, v) <=> Among(m, s) /\ m # s[1]
      /\ Len(v) \in Nat /\ Len(s) = Len(v) + 1
      /\ \A i \in 1 .. Len(v) : v[i] = s[i + 1]
  BY TailSeq DEF IsTail
<1>2. ~Among(n, v)
  BY <1>1
<1> HIDE DEF v
<1>2a. w = <<n>> \o v
  OBVIOUS
<1> HIDE DEF w
<1>3. /\ w \in Seq(Node) /\ Distinct(w)
      /\ \A m : Among(m, w) <=> Among(m, v) \/ m = n
      /\ Len(w) = Len(v) + 1 /\ w[1] = n
      /\ \A i \in 1 .. Len(v) : w[i + 1] = v[i]
  <2>1. v \in Seq(Node) /\ Distinct(v) /\ ~Among(n, v)
    BY <1>1, <1>2
  <2>2. IsInFront(n, v, w)
    BY <1>2a, <2>1, InFrontSeq
  <2> QED BY <2>2 DEF IsInFront
<1>4. ~Among(s[1], w)
  BY <1>1, <1>3
<1>4a. x = <<s[1]>> \o w
  BY <1>1
<1> HIDE DEF x
<1>5. /\ x \in Seq(Node) /\ x # <<>> /\ Distinct(x)
      /\ \A m : Among(m, x) <=> Among(m, w) \/ m = s[1]
      /\ Len(x) = Len(w) + 1 /\ x[1] = s[1]
      /\ \A i \in 1 .. Len(w) : x[i + 1] = w[i]
  <2>1. IsInFront(s[1], w, x)
    BY <1>1, <1>3, <1>4, <1>4a, InFrontSeq
  <2> QED BY <2>1 DEF IsInFront
<1>6. u = x
  <2>1. <<Head(s), n>> = <<Head(s)>> \o <<n>>
    BY <1>1
  <2>2. <<Head(s)>> \in Seq(Node) /\ <<n>> \in Seq(Node)
    BY <1>1
  <2> QED BY <1>1, <2>1, <2>2, ConcatAssociative DEF v, w, x
<1>7. u[2] = n
  <2>1. 1 \in 1 .. Len(w) /\ 1 + 1 = 2
    BY <1>1, <1>3
  <2> QED BY <1>3, <1>5, <1>6, <2>1
<1>8. ASSUME NEW i \in 2 .. Len(s) PROVE u[i + 1] = s[i]
  <2>1. i \in 1 .. Len(w) /\ i - 1 \in 1 .. Len(v) /\ (i - 1) + 1 = i
    BY <1>1, <1>3
  <2>2. u[i + 1] = w[i]
    BY <1>5, <1>6, <2>1
  <2>3. w[(i - 1) + 1] = v[i - 1] /\ v[i - 1] = s[(i - 1) + 1]
    BY <1>1, <1>3, <2>1
  <2> QED BY <2>1, <2>2, <2>3
<1>9. \A m : Among(m, u) <=> Among(m, s) \/ m = n
  BY <1>1, <1>3, <1>5, <1>6
<1>10. Len(s) \in Nat \ {0} /\ Len(u) = Len(s) + 1
  BY <1>1, <1>3, <1>5, <1>6
<1> QED BY <1>5, <1>6, <1>7, <1>8, <1>9, <1>10 DEF IsBehindFirst

-----------------------------------------------------------------------------
(* Every call of the list functions is a step of the queue.                *)

LEMMA RunsAlone ==
  ASSUME ~Preempt, NEW t \in Thread, Runs(t)
  PROVE  \A v \in Thread \ {t} : Idle(v)
BY DEF Runs

LEMMA FirstFacts ==
  ASSUME NEW s \in Seq(Node), Holds(s)
  PROVE  /\ Len(s) \in Nat /\ (s = <<>> <=> Len(s) = 0)
         /\ \A i \in 1 .. Len(s) : s[i] \in Node /\ Among(s[i], s)
         /\ s = <<>> => first = Nil
         /\ s # <<>> => /\ first = s[1] /\ first # Nil /\ 1 \in 1 .. Len(s)
                        /\ s[1] \in Node /\ Among(s[1], s)
<1>1. Len(s) \in Nat /\ (s = <<>> <=> Len(s) = 0)
  BY LenProperties, EmptySeq
<1>2. \A i \in 1 .. Len(s) : s[i] \in Node /\ Among(s[i], s)
  BY ElementOfSeq DEF Among
<1>3. s # <<>> => 1 \in 1 .. Len(s)
  BY <1>1
<1> QED BY <1>1, <1>2, <1>3, ListAssumption DEF Holds, Standing, Follows

LEMMA LeadsAlone ==
  ASSUME NEW s \in Seq(Node), Holds(s), NEW t \in Thread, \A v \in Thread \ {t} : Idle(v),
         pc[t] # <<"prepend", "publish">>, s # <<>>
  PROVE  prev[s[1]] = Nil
<1>1. \A v \in Thread : Idle(v) => pc[v] # <<"prepend", "publish">>
  BY DEF Idle
<1> QED BY <1>1 DEF Holds, Leads

LEMMA BusyNode ==
  ASSUME TypeOK, NEW s \in Seq(Node), Holds(s), NEW t \in Thread, ~Idle(t)
  PROVE  /\ node[t] \in Node /\ ~Among(node[t], s) /\ node[t] \notin free
         /\ Looking(t, s) \/ Appending(t, s) \/ Prepending(t, s) \/ Following(t, s)
BY DEF TypeOK, Holds, Allocated, Inserting, Idle

LEMMA CreateStep ==
  ASSUME ~Preempt, TypeOK, Types', NEW s \in Seq(Node), Holds(s),
         NEW t \in Thread, NEW op \in Ops, Create(t, op)
  PROVE  Holds(s)'
<1>1. \A v \in Thread \ {t} : Idle(v)
  BY RunsAlone DEF Create
<1>2. PICK n \in free : /\ free' = free \ {n}
                        /\ next' = [next EXCEPT ![n] = Nil]
                        /\ prev' = [prev EXCEPT ![n] = Nil]
                        /\ node' = [node EXCEPT ![t] = n]
  BY DEF Create
<1>3. pc' = [pc EXCEPT ![t] = <<op, "check">>] /\ UNCHANGED <<first, iter>> /\ Idle(t)
  BY DEF Create
<1>4. n \in Node /\ ~Among(n, s)
  BY <1>2 DEF TypeOK, Holds, Allocated
<1>5. pc'[t] = <<op, "check">> /\ node'[t] = n
  BY <1>2, <1>3 DEF TypeOK
<1>6. ~Idle(t)'
  BY <1>5 DEF Idle, Ops
<1>7. next'[n] = Nil /\ prev'[n] = Nil /\ \A m \in Node : m # n => next'[m] = next[m] /\ prev'[m] = prev[m]
  BY <1>2, <1>4 DEF TypeOK
<1>8. Inserting(t, s)'
  BY <1>5, <1>7 DEF Inserting, Looking
<1>9. Leads(s)'
  <2>1. pc[t] # <<"prepend", "publish">>
    BY <1>3 DEF Idle
  <2>2. s # <<>> => prev[s[1]] = Nil
    BY <1>1, <2>1, LeadsAlone
  <2>3. s # <<>> => s[1] \in Node /\ s[1] # n
    BY <1>4, FirstFacts
  <2> QED BY <1>7, <2>2, <2>3 DEF Leads
<1>10. pc' = [pc EXCEPT ![t] = pc'[t]]
  BY <1>3, <1>5
<1> QED BY <1>1, <1>2, <1>3, <1>4, <1>5, <1>6, <1>7, <1>8, <1>9, <1>10, InsertionGoesOn

(* A step that only goes on to the next one, or sets iter.                 *)
LEMMA LookingGoesOn ==
  ASSUME TypeOK, NEW s \in Seq(Node), Holds(s), NEW t \in Thread,
         \A v \in Thread \ {t} : Idle(v), ~Idle(t),
         pc[t] # <<"prepend", "publish">>, ~Idle(t)',
         pc' = [pc EXCEPT ![t] = pc'[t]], UNCHANGED <<cells, node>>, Inserting(t, s)'
  PROVE  Holds(s)'
<1>1. node[t] \in Node /\ ~Among(node[t], s) /\ node[t] \notin free
  BY BusyNode
<1>2. Leads(s)'
  <2>1. s # <<>> => prev[s[1]] = Nil
    BY LeadsAlone
  <2> QED BY <2>1 DEF Leads, cells
<1>3. free' = free \ {node'[t]} /\ first' = first /\ next' = next /\ node'[t] = node[t]
  BY <1>1 DEF cells
<1> QED BY <1>1, <1>2, <1>3, InsertionGoesOn

LEMMA CheckStep ==
  ASSUME ~Preempt, TypeOK, Types', NEW s \in Seq(Node), Holds(s),
         NEW t \in Thread, NEW op \in Ops, Check(t, op)
  PROVE  Holds(s)'
<1> DEFINE w == IF first = Nil THEN "only" ELSE "head"
<1>1. /\ \A v \in Thread \ {t} : Idle(v)
      /\ pc[t] = <<op, "check">>
      /\ pc' = [pc EXCEPT ![t] = <<op, w>>] /\ UNCHANGED <<cells, node, iter>>
  BY RunsAlone DEF Check, At, GoTo
<1>2. pc'[t] = <<op, w>> /\ pc' = [pc EXCEPT ![t] = pc'[t]]
  BY <1>1 DEF TypeOK
<1>3. ~Idle(t) /\ ~Idle(t)' /\ pc[t] # <<"prepend", "publish">>
  BY <1>1, <1>2 DEF Idle, Ops
<1>4. next[node[t]] = Nil /\ prev[node[t]] = Nil
  <2>1. Looking(t, s)
    BY <1>1, <1>3, BusyNode DEF Appending, Prepending, Following
  <2> QED BY <2>1 DEF Looking
<1>5. (w = "only" /\ s = <<>>) \/ (w = "head" /\ s # <<>>)
  BY FirstFacts
<1> HIDE DEF w
<1>6. Inserting(t, s)'
  BY <1>1, <1>2, <1>4, <1>5 DEF Inserting, Looking, cells
<1> QED BY <1>1, <1>2, <1>3, <1>6, LookingGoesOn

LEMMA TakeFirstStep ==
  ASSUME ~Preempt, TypeOK, Types', NEW s \in Seq(Node), Holds(s),
         NEW t \in Thread, NEW op \in Ops, TakeFirst(t, op)
  PROVE  Holds(s)'
<1> DEFINE w == IF op = "prepend_next" THEN "link" ELSE "walk"
<1>1. /\ \A v \in Thread \ {t} : Idle(v)
      /\ pc[t] = <<op, "head">> /\ iter' = [iter EXCEPT ![t] = first]
      /\ pc' = [pc EXCEPT ![t] = <<op, w>>] /\ UNCHANGED <<cells, node>>
  BY RunsAlone DEF TakeFirst, At, GoTo
<1>2. pc'[t] = <<op, w>> /\ pc' = [pc EXCEPT ![t] = pc'[t]] /\ iter'[t] = first
  BY <1>1 DEF TypeOK
<1>3. ~Idle(t) /\ ~Idle(t)' /\ pc[t] # <<"prepend", "publish">>
  BY <1>1, <1>2 DEF Idle, Ops
<1>4. next[node[t]] = Nil /\ prev[node[t]] = Nil /\ s # <<>>
  <2>1. Looking(t, s)
    BY <1>1, <1>3, BusyNode DEF Appending, Prepending, Following
  <2> QED BY <1>1, <2>1 DEF Looking
<1>5. first = s[1] /\ Among(s[1], s)
  BY <1>4, FirstFacts
<1>6. Inserting(t, s)'
  <2>1. CASE op = "prepend_next"
    BY <1>2, <1>4, <1>5, <2>1 DEF Inserting, Following
  <2>2. CASE op = "append"
    BY <1>1, <1>2, <1>4, <1>5, <2>2 DEF Inserting, Appending, cells, Among
  <2>3. CASE op = "prepend"
    BY <1>1, <1>2, <1>4, <1>5, <2>3 DEF Inserting, Prepending, cells
  <2> QED BY <2>1, <2>2, <2>3 DEF Ops
<1> HIDE DEF w
<1> QED BY <1>1, <1>2, <1>3, <1>6, LookingGoesOn

LEMMA WalkStep ==
  ASSUME ~Preempt, TypeOK, Types', NEW s \in Seq(Node), Holds(s),
         NEW t \in Thread, NEW op \in Ops, Walk(t, op)
  PROVE  Holds(s)'
<1> DEFINE w == IF Neighbour(t, op) = Nil THEN "link" ELSE "advance"
<1>1. /\ \A v \in Thread \ {t} : Idle(v)
      /\ pc[t] = <<op, "walk">> /\ UNCHANGED <<cells, node, iter>>
      /\ pc' = [pc EXCEPT ![t] = <<op, w>>]
  BY RunsAlone DEF Walk, AtNode, At, GoTo
<1>2. pc'[t] = <<op, w>> /\ pc' = [pc EXCEPT ![t] = pc'[t]]
  BY <1>1 DEF TypeOK
<1>3. ~Idle(t) /\ ~Idle(t)' /\ pc[t] # <<"prepend", "publish">>
  BY <1>1, <1>2 DEF Idle, Ops
<1>4. s # <<>> => prev[s[1]] = Nil
  BY <1>1, <1>3, LeadsAlone
<1>5. (Appending(t, s) /\ op = "append") \/ (Prepending(t, s) /\ op = "prepend")
  BY <1>1, <1>3, BusyNode DEF Looking, Appending, Prepending, Following
<1>6. Inserting(t, s)'
  <2>1. CASE Appending(t, s) /\ op = "append"
    <3>1. w = IF next[iter[t]] = Nil THEN "link" ELSE "advance"
      BY <2>1 DEF Neighbour
    <3> HIDE DEF w
    <3> QED BY <1>1, <1>2, <2>1, <3>1 DEF Inserting, Appending, Among, cells
  <2>2. CASE Prepending(t, s) /\ op = "prepend"
    <3>1. w = "link"
      BY <1>4, <2>2 DEF Prepending, Neighbour
    <3> HIDE DEF w
    <3> QED BY <1>1, <1>2, <2>2, <3>1 DEF Inserting, Prepending, cells
  <2> QED BY <1>5, <2>1, <2>2
<1> HIDE DEF w
<1> QED BY <1>1, <1>2, <1>3, <1>6, LookingGoesOn

LEMMA AdvanceStep ==
  ASSUME ~Preempt, TypeOK, Types', NEW s \in Seq(Node), Holds(s),
         NEW t \in Thread, NEW op \in Ops, Advance(t, op)
  PROVE  Holds(s)'
<1>1. /\ \A v \in Thread \ {t} : Idle(v)
      /\ pc[t] = <<op, "advance">> /\ UNCHANGED <<cells, node>>
      /\ iter' = [iter EXCEPT ![t] = Neighbour(t, op)]
      /\ pc' = [pc EXCEPT ![t] = <<op, "walk">>]
  BY RunsAlone DEF Advance, AtNode, At, GoTo
<1>2. /\ pc'[t] = <<op, "walk">> /\ pc' = [pc EXCEPT ![t] = pc'[t]]
      /\ iter'[t] = Neighbour(t, op)
  BY <1>1 DEF TypeOK
<1>3. ~Idle(t) /\ ~Idle(t)' /\ pc[t] # <<"prepend", "publish">>
  BY <1>1, <1>2 DEF Idle, Ops
<1>4. Appending(t, s) /\ op = "append" /\ next[iter[t]] # Nil
  BY <1>1, <1>3, BusyNode DEF Looking, Appending, Prepending, Following
<1>5. PICK i \in 1 .. Len(s) : s[i] = iter[t]
  BY <1>4 DEF Appending, Among
<1>6. next[iter[t]] = IF i = Len(s) THEN Nil ELSE s[i + 1]
  BY <1>5 DEF Holds, Standing, Follows
<1>7. i + 1 \in 1 .. Len(s)
  BY <1>4, <1>6, FirstFacts
<1>8. Among(iter'[t], s)
  BY <1>2, <1>4, <1>6, <1>7 DEF Neighbour, Among
<1>9. Inserting(t, s)'
  BY <1>1, <1>2, <1>4, <1>8 DEF Inserting, Appending, Among, cells
<1> QED BY <1>1, <1>2, <1>3, <1>9, LookingGoesOn

LEMMA LinkPrependStep ==
  ASSUME ~Preempt, TypeOK, Types', NEW s \in Seq(Node), Holds(s),
         NEW t \in Thread, LinkPrepend(t)
  PROVE  Holds(s)'
<1>1. /\ \A v \in Thread \ {t} : Idle(v)
      /\ pc[t] = <<"prepend", "link">>
      /\ prev' = [prev EXCEPT ![iter[t]] = node[t]]
      /\ next' = [next EXCEPT ![node[t]] = iter[t]]
      /\ pc' = [pc EXCEPT ![t] = <<"prepend", "publish">>]
      /\ UNCHANGED <<first, free, node, iter>>
  BY RunsAlone DEF LinkPrepend, AtNode, At, GoTo
<1>2. ~Idle(t) /\ pc'[t] = <<"prepend", "publish">> /\ ~Idle(t)'
  BY <1>1 DEF Idle, TypeOK
<1>3. node[t] \in Node /\ ~Among(node[t], s) /\ node[t] \notin free
  BY <1>2, BusyNode
<1>4. Prepending(t, s)
  BY <1>1, <1>2, BusyNode DEF Looking, Appending, Following
<1>5. s # <<>> /\ iter[t] = s[1] /\ s[1] \in Node /\ s[1] # node[t]
  BY <1>3, <1>4, FirstFacts DEF Prepending
<1>6. prev'[node[t]] = Nil /\ next'[node[t]] = iter[t]
  BY <1>1, <1>3, <1>4, <1>5 DEF TypeOK, Prepending
<1>7. Inserting(t, s)'
  BY <1>1, <1>2, <1>5, <1>6 DEF Inserting, Prepending
<1>8. Leads(s)'
  BY <1>2 DEF Leads
<1>9. \A m \in Node : m # node[t] => next'[m] = next[m]
  BY <1>1 DEF TypeOK
<1>10. free' = free \ {node'[t]} /\ pc' = [pc EXCEPT ![t] = pc'[t]]
  BY <1>1, <1>2, <1>3
<1> QED BY <1>1, <1>2, <1>3, <1>7, <1>8, <1>9, <1>10, InsertionGoesOn

LEMMA LinkNextStep ==
  ASSUME ~Preempt, TypeOK, Types', NEW s \in Seq(Node), Holds(s),
         NEW t \in Thread, LinkNext(t)
  PROVE  Holds(s)'
<1>1. /\ \A v \in Thread \ {t} : Idle(v)
      /\ pc[t] = <<"prepend_next", "link">>
      /\ prev' = [prev EXCEPT ![node[t]] = iter[t]]
      /\ next' = [next EXCEPT ![node[t]] = next[iter[t]]]
      /\ pc' = [pc EXCEPT ![t] = <<"prepend_next", "publish">>]
      /\ UNCHANGED <<first, free, node, iter>>
  BY RunsAlone DEF LinkNext, AtNode, At, GoTo
<1>2. ~Idle(t) /\ pc'[t] = <<"prepend_next", "publish">> /\ ~Idle(t)'
  BY <1>1 DEF Idle, TypeOK
<1>3. node[t] \in Node /\ ~Among(node[t], s) /\ node[t] \notin free
  BY <1>2, BusyNode
<1>4. Following(t, s)
  BY <1>1, <1>2, BusyNode DEF Looking, Appending, Prepending
<1>5. s # <<>> /\ iter[t] = s[1] /\ s[1] \in Node /\ s[1] # node[t]
  BY <1>3, <1>4, FirstFacts DEF Following
<1>6. next'[node[t]] = next[iter[t]] /\ next'[iter[t]] = next[iter[t]]
  BY <1>1, <1>3, <1>5 DEF TypeOK
<1>7. Inserting(t, s)'
  BY <1>1, <1>2, <1>5, <1>6 DEF Inserting, Following
<1>8. Leads(s)'
  <2>1. prev[s[1]] = Nil
    BY <1>1, <1>5, LeadsAlone
  <2>2. prev'[s[1]] = Nil
    BY <1>1, <1>5, <2>1 DEF TypeOK
  <2> QED BY <2>2 DEF Leads
<1>9. \A m \in Node : m # node[t] => next'[m] = next[m]
  BY <1>1 DEF TypeOK
<1>10. free' = free \ {node'[t]} /\ pc' = [pc EXCEPT ![t] = pc'[t]]
  BY <1>1, <1>2, <1>3
<1> QED BY <1>1, <1>2, <1>3, <1>7, <1>8, <1>9, <1>10, InsertionGoesOn

LEMMA OnlyStep ==
  ASSUME ~Preempt, TypeOK, NEW s \in Seq(Node), Holds(s),
         NEW t \in Thread, NEW op \in Ops, Only(t, op)
  PROVE  \E u \in Seq(Node) : Holds(u)' /\ QueueStep(s, u)
<1>0. PICK n : n = node[t]
  OBVIOUS
<1> DEFINE u == Append(s, n)
<1>1. /\ pc[t] = <<op, "only">> /\ first' = n /\ Done(t) /\ UNCHANGED <<next, prev, free>>
  BY <1>0 DEF Only, At
<1>2. ~Idle(t)
  BY <1>1 DEF Idle, Ops
<1>3. Looking(t, s) /\ s = <<>>
  BY <1>1, <1>2, BusyNode DEF Looking, Appending, Prepending, Following
<1>4. n \in Node /\ ~Among(n, s) /\ next[n] = Nil /\ prev[n] = Nil
  BY <1>2, <1>3, <1>0, BusyNode DEF Looking
<1>5. Distinct(s)
  BY DEF Holds, Standing
<1>6. /\ u \in Seq(Node) /\ u # <<>> /\ Distinct(u)
      /\ \A m : Among(m, u) <=> Among(m, s) \/ m = n
      /\ Len(u) = 1 /\ u[1] = n
  <2>1. IsAtEnd(n, s, u)
    BY <1>4, <1>5, AtEndSeq
  <2> HIDE DEF u
  <2>2. Len(s) = 0
    BY <1>3
  <2> QED BY <2>1, <2>2 DEF IsAtEnd
<1> HIDE DEF u
<1>7. Follows(u)'
  BY <1>1, <1>4, <1>6 DEF Follows
<1>8. Holds(u)'
  BY <1>1, <1>2, <1>4, <1>6, <1>7, <1>0, InsertionEnds
<1>9. QueueStep(s, u)
  BY <1>4 DEF QueueStep, u
<1> QED BY <1>6, <1>8, <1>9

LEMMA LinkAppendStep ==
  ASSUME ~Preempt, TypeOK, NEW s \in Seq(Node), Holds(s),
         NEW t \in Thread, LinkAppend(t)
  PROVE  \E u \in Seq(Node) : Holds(u)' /\ QueueStep(s, u)
<1>0. PICK n : n = node[t]
  OBVIOUS
<1> DEFINE u == Append(s, n)
<1>1. /\ \A v \in Thread \ {t} : Idle(v)
      /\ pc[t] = <<"append", "link">>
      /\ next' = [next EXCEPT ![iter[t]] = n]
      /\ prev' = [prev EXCEPT ![n] = iter[t]]
      /\ Done(t) /\ UNCHANGED <<first, free>>
  BY <1>0, RunsAlone DEF LinkAppend, AtNode, At
<1>2. ~Idle(t)
  BY <1>1 DEF Idle
<1>3. Appending(t, s)
  BY <1>1, <1>2, BusyNode DEF Looking, Prepending, Following
<1>4. n \in Node /\ ~Among(n, s) /\ next[n] = Nil /\ next[iter[t]] = Nil
  BY <1>1, <1>2, <1>3, <1>0, BusyNode DEF Appending
<1>5. Distinct(s) /\ Follows(s)
  BY DEF Holds, Standing
<1>6. PICK i \in 1 .. Len(s) : s[i] = iter[t]
  BY <1>3 DEF Appending, Among
<1>7. /\ Len(s) \in Nat \ {0} /\ s # <<>> /\ first = s[1] /\ 1 \in 1 .. Len(s)
      /\ \A j \in 1 .. Len(s) : s[j] \in Node /\ s[j] # n /\ s[j] # Nil
  BY <1>4, <1>6, FirstFacts, ListAssumption
<1>8. i = Len(s)
  <2>1. i # Len(s) => i + 1 \in 1 .. Len(s)
    BY <1>7
  <2> QED BY <1>4, <1>5, <1>6, <1>7, <2>1 DEF Follows
<1>9. /\ u \in Seq(Node) /\ u # <<>> /\ Distinct(u)
      /\ \A m : Among(m, u) <=> Among(m, s) \/ m = n
      /\ Len(u) = Len(s) + 1 /\ u[Len(s) + 1] = n
      /\ \A j \in 1 .. Len(s) : u[j] = s[j]
  <2>1. IsAtEnd(n, s, u)
    BY <1>4, <1>5, AtEndSeq
  <2> HIDE DEF u
  <2> QED BY <1>7, <2>1 DEF IsAtEnd
<1> HIDE DEF u
<1>10. Follows(u)'
  <2>1. first' = u[1]
    BY <1>1, <1>7, <1>9
  <2>2. ASSUME NEW j \in 1 .. Len(u)
        PROVE  next'[u[j]] = IF j = Len(u) THEN Nil ELSE u[j + 1]
    <3>1. CASE j = Len(u)
      <4>1. u[j] = n /\ n # iter[t]
        BY <1>6, <1>7, <1>9, <3>1
      <4> QED BY <1>1, <1>4, <3>1, <4>1 DEF TypeOK
    <3>2. CASE j = Len(s)
      <4>1. u[j] = iter[t] /\ u[j + 1] = n /\ j # Len(u) /\ iter[t] \in Node
        BY <1>6, <1>7, <1>8, <1>9, <3>2
      <4> QED BY <1>1, <4>1 DEF TypeOK
    <3>3. CASE j \notin {Len(s), Len(u)}
      <4>1. j \in 1 .. Len(s) /\ j + 1 \in 1 .. Len(s) /\ j # i
        BY <1>7, <1>8, <1>9, <3>3
      <4>2. u[j] = s[j] /\ u[j + 1] = s[j + 1] /\ s[j] # iter[t] /\ s[j] \in Node
        BY <1>5, <1>6, <1>7, <1>9, <4>1 DEF Distinct
      <4>3. next[s[j]] = s[j + 1]
        BY <1>5, <3>3, <4>1 DEF Follows
      <4> QED BY <1>1, <3>3, <4>2, <4>3 DEF TypeOK
    <3> QED BY <3>1, <3>2, <3>3
  <2> QED BY <1>9, <2>1, <2>2 DEF Follows
<1>11. prev'[u[1]] = Nil
  <2>1. prev[s[1]] = Nil
    BY <1>1, <1>7, LeadsAlone
  <2>2. u[1] = s[1] /\ s[1] \in Node /\ s[1] # n
    BY <1>7, <1>9
  <2> QED BY <1>1, <2>1, <2>2 DEF TypeOK
<1>12. Holds(u)'
  BY <1>1, <1>2, <1>9, <1>10, <1>11, <1>0, InsertionEnds
<1>13. QueueStep(s, u)
  BY <1>4 DEF QueueStep, u
<1> QED BY <1>9, <1>12, <1>13

LEMMA PublishPrependStep ==
  ASSUME ~Preempt, TypeOK, NEW s \in Seq(Node), Holds(s),
         NEW t \in Thread, PublishPrepend(t)
  PROVE  \E u \in Seq(Node) : Holds(u)' /\ QueueStep(s, u)
<1>0. PICK n : n = node[t]
  OBVIOUS
<1> DEFINE u == <<n>> \o s
<1>1. /\ pc[t] = <<"prepend", "publish">> /\ first' = n /\ Done(t)
      /\ UNCHANGED <<next, prev, free>>
  BY <1>0 DEF PublishPrepend, At
<1>2. ~Idle(t)
  BY <1>1 DEF Idle
<1>3. Prepending(t, s)
  BY <1>1, <1>2, BusyNode DEF Looking, Appending, Following
<1>4. n \in Node /\ ~Among(n, s) /\ next[n] = s[1] /\ prev[n] = Nil /\ s # <<>>
  BY <1>1, <1>2, <1>3, <1>0, BusyNode DEF Prepending
<1>5. Distinct(s) /\ Follows(s)
  BY DEF Holds, Standing
<1>6. IsInFront(n, s, u)
  BY <1>4, <1>5, InFrontSeq
<1> HIDE DEF u
<1>7. /\ u \in Seq(Node) /\ u # <<>> /\ Distinct(u)
      /\ \A m : Among(m, u) <=> Among(m, s) \/ m = n
      /\ Len(s) \in Nat \ {0} /\ Len(u) = Len(s) + 1 /\ u[1] = n
      /\ \A i \in 1 .. Len(s) : u[i + 1] = s[i]
  BY <1>4, <1>6, FirstFacts DEF IsInFront
<1>8. Follows(u)'
  <2>1. ASSUME NEW j \in 1 .. Len(u)
        PROVE  next[u[j]] = IF j = Len(u) THEN Nil ELSE u[j + 1]
    <3>1. CASE j = 1
      <4>1. 1 \in 1 .. Len(s) /\ j # Len(u)
        BY <1>7, <3>1
      <4> QED BY <1>4, <1>7, <3>1, <4>1
    <3>2. CASE j # 1
      <4>1. /\ j - 1 \in 1 .. Len(s) /\ (j - 1) + 1 = j
            /\ (j = Len(u) <=> j - 1 = Len(s)) /\ (j # Len(u) => j \in 1 .. Len(s))
        BY <1>7, <3>2
      <4>2. next[s[j - 1]] = IF j - 1 = Len(s) THEN Nil ELSE s[(j - 1) + 1]
        BY <1>5, <4>1 DEF Follows
      <4>3. u[j] = s[j - 1] /\ (j # Len(u) => u[j + 1] = s[j])
        BY <1>7, <4>1
      <4> QED BY <4>1, <4>2, <4>3
    <3> QED BY <3>1, <3>2
  <2> QED BY <1>1, <1>7, <2>1 DEF Follows
<1>9. Holds(u)'
  BY <1>1, <1>2, <1>4, <1>7, <1>8, <1>0, InsertionEnds
<1>10. QueueStep(s, u)
  BY <1>4 DEF QueueStep, u
<1> QED BY <1>7, <1>9, <1>10

LEMMA PublishNextStep ==
  ASSUME ~Preempt, TypeOK, NEW s \in Seq(Node), Holds(s),
         NEW t \in Thread, PublishNext(t)
  PROVE  \E u \in Seq(Node) : Holds(u)' /\ QueueStep(s, u)
<1>0. PICK n : n = node[t]
  OBVIOUS
<1> DEFINE u == <<Head(s), n>> \o Tail(s)
<1>1. /\ \A v \in Thread \ {t} : Idle(v)
      /\ pc[t] = <<"prepend_next", "publish">>
      /\ next' = [next EXCEPT ![iter[t]] = n] /\ Done(t)
      /\ UNCHANGED <<first, prev, free>>
  BY <1>0, RunsAlone DEF PublishNext, AtNode, At
<1>2. ~Idle(t)
  BY <1>1 DEF Idle
<1>3. Following(t, s)
  BY <1>1, <1>2, BusyNode DEF Looking, Appending, Prepending
<1>4. n \in Node /\ ~Among(n, s) /\ next[n] = next[s[1]] /\ iter[t] = s[1] /\ s # <<>>
  BY <1>0, <1>1, <1>2, <1>3, BusyNode DEF Following
<1>5. Distinct(s) /\ Follows(s)
  BY DEF Holds, Standing
<1>6. IsBehindFirst(n, s, u)
  BY <1>4, <1>5, BehindFirstSeq
<1> HIDE DEF u
<1>7. /\ u \in Seq(Node) /\ u # <<>> /\ Distinct(u)
      /\ \A m : Among(m, u) <=> Among(m, s) \/ m = n
      /\ Len(s) \in Nat \ {0} /\ Len(u) = Len(s) + 1 /\ u[1] = s[1] /\ u[2] = n
      /\ \A i \in 2 .. Len(s) : u[i + 1] = s[i]
  BY <1>6 DEF IsBehindFirst
<1>8. /\ first = s[1] /\ s[1] \in Node /\ s[1] # n /\ 1 \in 1 .. Len(s)
      /\ \A i \in 1 .. Len(s) : s[i] \in Node /\ s[i] # n
  BY <1>4, FirstFacts
<1>9. \A m \in Node : next'[m] = IF m = s[1] THEN n ELSE next[m]
  BY <1>1, <1>4 DEF TypeOK
<1>10. Follows(u)'
  <2>1. ASSUME NEW j \in 1 .. Len(u)
        PROVE  next'[u[j]] = IF j = Len(u) THEN Nil ELSE u[j + 1]
    <3>1. CASE j = 1
      <4>1. j # Len(u) /\ u[j] = s[1] /\ u[j + 1] = n
        BY <1>7, <3>1
      <4> QED BY <1>8, <1>9, <4>1
    <3>2. CASE j = 2
      <4>1. u[j] = n /\ (j = Len(u) <=> 1 = Len(s)) /\ (j # Len(u) => 2 \in 2 .. Len(s))
        BY <1>7, <3>2
      <4>2. next'[n] = next[s[1]]
        BY <1>4, <1>8, <1>9
      <4>3. next[s[1]] = IF 1 = Len(s) THEN Nil ELSE s[2]
        <5>1. next[s[1]] = IF 1 = Len(s) THEN Nil ELSE s[1 + 1]
          BY <1>5, <1>8 DEF Follows
        <5> QED BY <5>1
      <4>4. j # Len(u) => u[j + 1] = s[2]
        BY <1>7, <3>2, <4>1
      <4> QED BY <4>1, <4>2, <4>3, <4>4
    <3>3. CASE j \notin {1, 2}
      <4>1. /\ j - 1 \in 2 .. Len(s) /\ j - 1 \in 1 .. Len(s) /\ j - 1 # 1 /\ (j - 1) + 1 = j
            /\ (j = Len(u) <=> j - 1 = Len(s)) /\ (j # Len(u) => j \in 2 .. Len(s))
        BY <1>7, <3>3
      <4>2. next[s[j - 1]] = IF j - 1 = Len(s) THEN Nil ELSE s[(j - 1) + 1]
        BY <1>5, <4>1 DEF Follows
      <4>3. u[(j - 1) + 1] = s[j - 1] /\ (j # Len(u) => u[j + 1] = s[j])
        BY <1>7, <4>1
      <4>4. s[j - 1] # s[1]
        BY <1>5, <1>8, <4>1 DEF Distinct
      <4> QED BY <1>8, <1>9, <4>1, <4>2, <4>3, <4>4
    <3> QED BY <3>1, <3>2, <3>3
  <2> QED BY <1>1, <1>7, <1>8, <2>1 DEF Follows
<1>11. prev'[u[1]] = Nil
  BY <1>1, <1>4, <1>7, LeadsAlone
<1>12. Holds(u)'
  BY <1>0, <1>1, <1>2, <1>7, <1>10, <1>11, InsertionEnds
<1>13. QueueStep(s, u)
  BY <1>4 DEF QueueStep, u
<1> QED BY <1>7, <1>12, <1>13

LEMMA RemoveStep ==
  ASSUME ~Preempt, TypeOK, NEW s \in Seq(Node), Holds(s), Remove
  PROVE  \E u \in Seq(Node) : Holds(u)' /\ QueueStep(s, u)
<1> DEFINE u == Tail(s)
<1>1. /\ \A t \in Thread : Idle(t)
      /\ first # Nil /\ first' = next[first] /\ prev' = Detached(first)
      /\ next' = [next EXCEPT ![first] = Nil] /\ free' = free \cup {first}
      /\ UNCHANGED locals
  BY DEF Remove, GsmRuns
<1>2. s # <<>> /\ first = s[1] /\ s[1] \in Node /\ 1 \in 1 .. Len(s)
  BY <1>1, FirstFacts
<1>3. Distinct(s) /\ Follows(s)
  BY DEF Holds, Standing
<1>4. IsTail(s, u)
  BY <1>2, <1>3, TailSeq
<1> HIDE DEF u
<1>5. /\ u \in Seq(Node) /\ Distinct(u)
      /\ \A m : Among(m, u) <=> Among(m, s) /\ m # s[1]
      /\ Len(u) \in Nat /\ Len(s) = Len(u) + 1 /\ (u = <<>> <=> Len(u) = 0)
      /\ \A i \in 1 .. Len(u) : u[i] = s[i + 1]
  BY <1>4 DEF IsTail
<1>6. next[s[1]] = IF u = <<>> THEN Nil ELSE u[1]
  <2>1. next[s[1]] = IF 1 = Len(s) THEN Nil ELSE s[1 + 1]
    BY <1>2, <1>3 DEF Follows
  <2>2. (1 = Len(s) <=> u = <<>>) /\ (u # <<>> => 1 \in 1 .. Len(u))
    BY <1>5
  <2> QED BY <1>5, <2>1, <2>2
<1>7. Follows(u)'
  <2>1. ASSUME NEW j \in 1 .. Len(u)
        PROVE  next'[u[j]] = IF j = Len(u) THEN Nil ELSE u[j + 1]
    <3>1. /\ j + 1 \in 1 .. Len(s) /\ j + 1 # 1 /\ (j = Len(u) <=> j + 1 = Len(s))
          /\ (j # Len(u) => j + 1 \in 1 .. Len(u))
      BY <1>5
    <3>2. u[j] = s[j + 1] /\ s[j + 1] # s[1] /\ s[j + 1] \in Node
      BY <1>2, <1>3, <1>5, <3>1, FirstFacts DEF Distinct
    <3>3. next[s[j + 1]] = IF j + 1 = Len(s) THEN Nil ELSE s[(j + 1) + 1]
      BY <1>3, <3>1 DEF Follows
    <3>4. j # Len(u) => u[j + 1] = s[(j + 1) + 1]
      BY <1>5, <3>1
    <3>5. next'[u[j]] = next[u[j]]
      BY <1>1, <1>2, <3>2 DEF TypeOK
    <3> QED BY <3>1, <3>2, <3>3, <3>4, <3>5
  <2> QED BY <1>1, <1>2, <1>6, <2>1 DEF Follows
<1>8. \A n \in Node : n \in free' <=> ~Among(n, u)
  BY <1>1, <1>2, <1>5 DEF Holds, Allocated
<1>9. u # <<>> => prev'[u[1]] = Nil
  <2>1. u # <<>> => u[1] \in Node
    BY <1>5, ElementOfSeq
  <2> QED BY <1>1, <1>2, <1>6, <2>1 DEF Detached
<1>10. Holds(u)'
  BY <1>1, <1>5, <1>7, <1>8, <1>9, GsmStepDone
<1>11. QueueStep(s, u)
  BY <1>2 DEF QueueStep, u
<1> QED BY <1>5, <1>10, <1>11

LEMMA AddReportStep ==
  ASSUME ~Preempt, TypeOK, NEW s \in Seq(Node), Holds(s), AddReport
  PROVE  \E u \in Seq(Node) : Holds(u)' /\ QueueStep(s, u)
<1> DEFINE last == s[Len(s)]
<1>0. Chain = s
  BY ChainFound DEF Holds, Standing
<1>1. PICK n \in free :
        /\ free' = free \ {n}
        /\ \/ /\ first = Nil /\ first' = n
              /\ next' = [next EXCEPT ![n] = Nil] /\ prev' = [prev EXCEPT ![n] = Nil]
           \/ /\ first # Nil /\ first' = first
              /\ next' = [next EXCEPT ![n] = Nil, ![last] = n]
              /\ prev' = [prev EXCEPT ![n] = last]
  BY <1>0 DEF AddReport
<1>2. (\A t \in Thread : Idle(t)) /\ UNCHANGED locals
  BY DEF AddReport, GsmRuns
<1>3. n \in Node /\ ~Among(n, s) /\ Distinct(s) /\ Follows(s)
  BY <1>1 DEF TypeOK, Holds, Allocated, Standing
<1> DEFINE u == Append(s, n)
<1>4. /\ u \in Seq(Node) /\ u # <<>> /\ Distinct(u)
      /\ \A m : Among(m, u) <=> Among(m, s) \/ m = n
      /\ Len(s) \in Nat /\ Len(u) = Len(s) + 1 /\ u[Len(s) + 1] = n
      /\ \A i \in 1 .. Len(s) : u[i] = s[i]
  <2>1. IsAtEnd(n, s, u)
    BY <1>3, AtEndSeq
  <2> HIDE DEF u
  <2> QED BY <2>1 DEF IsAtEnd
<1>5. QueueStep(s, u)
  BY <1>3 DEF QueueStep
<1> HIDE DEF u
<1>6. \A m \in Node : m \in free' <=> ~Among(m, u)
  BY <1>1, <1>2, <1>4 DEF Holds, Allocated
<1>7. Follows(u)' /\ prev'[u[1]] = Nil
  <2>1. CASE s = <<>>
    <3>1. Len(s) = 0 /\ first = Nil
      BY <2>1, FirstFacts
    <3>2. Len(u) = 1 /\ u[1] = n
      BY <1>4, <3>1
    <3>3. first' = n /\ next'[n] = Nil /\ prev'[n] = Nil
      BY <1>1, <1>3, <3>1 DEF TypeOK
    <3> QED BY <1>4, <3>2, <3>3 DEF Follows
  <2>2. CASE s # <<>>
    <3>1. /\ Len(s) \in Nat \ {0} /\ first = s[1] /\ first # Nil
          /\ 1 \in 1 .. Len(s) /\ Len(s) \in 1 .. Len(s)
          /\ \A j \in 1 .. Len(s) : s[j] \in Node /\ s[j] # n
      BY <1>3, <2>2, FirstFacts
    <3>2. last \in Node /\ last # n
      BY <3>1
    <3> HIDE DEF last
    <3>3. /\ next'[n] = Nil /\ next'[last] = n /\ first' = first
          /\ \A m \in Node \ {n} : prev'[m] = prev[m]
          /\ \A m \in Node \ {n, last} : next'[m] = next[m]
      BY <1>1, <1>3, <3>1, <3>2 DEF TypeOK
    <3>4. ASSUME NEW j \in 1 .. Len(u)
          PROVE  next'[u[j]] = IF j = Len(u) THEN Nil ELSE u[j + 1]
      <4>1. CASE j = Len(u)
        BY <1>4, <3>3, <4>1
      <4>2. CASE j = Len(s)
        <5>1. u[j] = last /\ u[j + 1] = n /\ j # Len(u)
          BY <1>4, <3>1, <4>2 DEF last
        <5> QED BY <3>3, <5>1
      <4>3. CASE j \notin {Len(s), Len(u)}
        <5>1. j \in 1 .. Len(s) /\ j + 1 \in 1 .. Len(s) /\ j # Len(s)
          BY <1>4, <3>1, <4>3
        <5>2. u[j] = s[j] /\ u[j + 1] = s[j + 1] /\ s[j] # last /\ s[j] \in Node \ {n}
          BY <1>3, <1>4, <3>1, <5>1 DEF Distinct, last
        <5>3. next[s[j]] = s[j + 1]
          BY <1>3, <5>1 DEF Follows
        <5> QED BY <3>3, <4>3, <5>2, <5>3
      <4> QED BY <4>1, <4>2, <4>3
    <3>5. u[1] = s[1] /\ s[1] \in Node \ {n}
      BY <1>4, <3>1
    <3>6. prev[s[1]] = Nil
      <4>1. \A t \in Thread : pc[t] # <<"prepend", "publish">>
        BY <1>2 DEF Idle
      <4> QED BY <2>2, <4>1 DEF Holds, Leads
    <3> QED BY <1>4, <3>1, <3>3, <3>4, <3>5, <3>6 DEF Follows
  <2> QED BY <2>1, <2>2
<1>8. Holds(u)'
  BY <1>2, <1>3, <1>4, <1>6, <1>7, GsmStepDone
<1> QED BY <1>4, <1>5, <1>8

(* The gsm thread only notes that it looks for a report.                   *)
LEMMA ReadingStep ==
  ASSUME NEW s \in Seq(Node), Holds(s), UNCHANGED <<first, next, prev, free, locals>>
  PROVE  Holds(s)'
<1> USE DEF locals
<1>1. Standing(s)'
  BY DEF Holds, Standing, Distinct, Follows
<1>2. Allocated(s)' /\ Alone' /\ Leads(s)'
  BY DEF Holds, Allocated, Among, Alone, Leads, Idle
<1>3. ASSUME NEW t \in Thread PROVE Inserting(t, s)'
  BY DEF Holds, Inserting, Looking, Appending, Prepending, Following, Among, Idle
<1> QED BY <1>1, <1>2, <1>3 DEF Holds

LEMMA LastOfChain ==
  ASSUME NEW s \in Seq(Node), Holds(s), first # Nil
  PROVE  Chain[Len(Chain)] \in Node
<1>1. Chain = s
  BY ChainFound DEF Holds, Standing
<1>2. Len(s) \in 1 .. Len(s)
  BY FirstFacts
<1> QED BY <1>1, <1>2, FirstFacts

LEMMA ListStep ==
  ASSUME ~Preempt, TypeOK, [Next]_vars, NEW s \in Seq(Node), Holds(s)
  PROVE  /\ Types'
         /\ \E u \in Seq(Node) : Holds(u)' /\ (u = s \/ QueueStep(s, u))
<1>1. Types'
  BY LastOfChain, TypeStep DEF TypeOK, Types
<1>2. CASE Holds(s)'
  BY <1>1, <1>2
<1>3. CASE UNCHANGED vars
  BY <1>2, <1>3, ReadingStep DEF vars, cells
<1>4. ASSUME NEW t \in Thread, Linking(t)
      PROVE  \E u \in Seq(Node) : Holds(u)' /\ (u = s \/ QueueStep(s, u))
  BY <1>1, <1>4, LinkAppendStep, LinkPrependStep, PublishPrependStep, LinkNextStep,
     PublishNextStep DEF Linking
<1>5. ASSUME NEW t \in Thread, NEW op \in Ops, Insertion(t, op)
      PROVE  \E u \in Seq(Node) : Holds(u)' /\ (u = s \/ QueueStep(s, u))
  BY <1>1, <1>5, CreateStep, CheckStep, OnlyStep, TakeFirstStep, WalkStep, AdvanceStep
     DEF Insertion
<1>6. CASE Remove
  BY <1>1, <1>6, RemoveStep
<1>7. CASE ReadReport \/ NoReport
  BY <1>2, <1>7, ReadingStep DEF ReadReport, NoReport
<1>8. CASE AddReport
  BY <1>1, <1>8, AddReportStep
<1> QED BY <1>1, <1>3, <1>4, <1>5, <1>6, <1>7, <1>8 DEF Next

LEMMA ListInit == Init => Holds(<<>>)
<1> SUFFICES ASSUME Init PROVE Holds(<<>>)
  OBVIOUS
<1>1. \A t \in Thread : Idle(t)
  BY DEF Init, Idle
<1>2. <<>> \in Seq(Node) /\ Len(<<>>) = 0
  BY EmptySeq
<1> QED BY <1>1, <1>2 DEF Init, Holds, Standing, Distinct, Follows, Allocated, Among, Alone,
                        Leads, Inserting

(* Where a thread follows iter, iter is a node.                            *)
LEMMA NoNullFollowed == Types /\ ListInv => TypeOK
<1> SUFFICES ASSUME Types, NEW s \in Seq(Node), Holds(s), NEW t \in Thread,
                    pc[t] \in Ops \X {"walk", "advance", "link", "publish"}
             PROVE  iter[t] # Nil
  BY DEF Types, TypeOK, ListInv
<1>0. PICK op \in Ops, w \in {"walk", "advance", "link", "publish"} : pc[t] = <<op, w>>
  OBVIOUS
<1>1. pc[t] # <<"idle">> /\ ~Looking(t, s)
  BY <1>0 DEF Looking, Ops
<1>2. Appending(t, s) \/ Prepending(t, s) \/ Following(t, s)
  BY <1>1 DEF Holds, Inserting, Idle
<1>3. CASE Appending(t, s)
  <2>1. PICK i \in 1 .. Len(s) : s[i] = iter[t]
    BY <1>3 DEF Appending, Among
  <2>2. s[i] \in Node
    BY FirstFacts
  <2> QED BY <2>1, <2>2, ListAssumption
<1>4. CASE Prepending(t, s) \/ Following(t, s)
  BY <1>4, FirstFacts, ListAssumption DEF Prepending, Following
<1>5. iter[t] # Nil
  BY <1>2, <1>3, <1>4
<1> QED BY <1>5

LEMMA ListHolds == ASSUME ~Preempt PROVE Spec => [](TypeOK /\ ListInv)
<1>1. Init => Types /\ ListInv
  <2>1. <<>> \in Seq(Node)
    BY EmptySeq
  <2> QED BY <2>1, ListInit DEF ListInv, Init, Types, Steps
<1>2. Types /\ ListInv /\ [Next]_vars => Types' /\ ListInv'
  BY NoNullFollowed, ListStep DEF ListInv
<1> QED BY <1>1, <1>2, NoNullFollowed, PTL DEF Spec

(* When no call is preempted, the pointers and the local variables are     *)
(* what their declarations say, and no insertion goes on from NULL:        *)
(* whatever is read again after its test is still what was tested          *)
(* (msglist.c:58-67, 84-96, 112-123).                                      *)
THEOREM ListTypeInvariant == ASSUME ~Preempt PROVE Spec => []TypeOK
BY ListHolds, PTL

LEMMA ChainHolds == ListInv => Chain \in Seq(Node) /\ Holds(Chain)
<1> SUFFICES ASSUME NEW s \in Seq(Node), Holds(s) PROVE Chain \in Seq(Node) /\ Holds(Chain)
  BY DEF ListInv
<1>1. Chain = s
  BY ChainFound DEF Holds, Standing
<1> QED BY <1>1

(* When no call is preempted, every node that is allocated is in the list  *)
(* or being inserted, and the list has no node that is free                *)
(* (doc/编程杂记.txt:58-60).                                               *)
THEOREM NodesAreKept == ASSUME ~Preempt PROVE Spec => []NoNodeLost
<1>1. ListInv => NoNodeLost
  <2> SUFFICES ASSUME NEW s \in Seq(Node), Holds(s), Chain = s PROVE NoNodeLost
    BY ChainHolds
  <2>1. DOMAIN s = 1 .. Len(s)
    BY LenProperties
  <2>2. \A n : n \in Linked <=> Among(n, s)
    BY <2>1 DEF Linked, Among
  <2>3. \A t \in Thread : ~Idle(t) => node[t] \in BeingInserted
    BY DEF BeingInserted
  <2>4. \A n \in Linked : n \in Node
    BY <2>2, FirstFacts DEF Among
  <2> QED BY <2>2, <2>3, <2>4 DEF NoNodeLost, Holds, Allocated
<1> QED BY <1>1, ListHolds, PTL

(* When no call is preempted, the pointers are a queue: each call is one   *)
(* step of it or none (msglist.c:46, 72, 102, jt808.c:1399).               *)
THEOREM ListIsQueue == ASSUME ~Preempt PROVE Spec => IsQueue
<1>1. Init => Queue!Init
  <2> SUFFICES ASSUME Init PROVE Chain = <<>>
    BY DEF Queue!Init
  <2> QED BY ListInit, EmptySeq, ChainFound DEF Holds, Standing
<1> DEFINE Found == \A s \in Seq(Node) : Holds(s) => Chain = s
<1>2. Found
  BY ChainFound DEF Holds, Standing
<1>3. Found'
  BY <1>2, PTL
<1>4. TypeOK /\ ListInv /\ [Next]_vars => [Queue!Next]_Chain
  <2> SUFFICES ASSUME TypeOK, ListInv, [Next]_vars PROVE [Queue!Next]_Chain
    OBVIOUS
  <2>1. PICK s \in Seq(Node) : Holds(s) /\ Chain = s
    BY ChainHolds
  <2>2. PICK u \in Seq(Node) : Holds(u)' /\ (u = s \/ QueueStep(s, u))
    BY <2>1, ListStep
  <2>3. \A v \in Seq(Node) : Holds(v)' => Chain' = v
    BY <1>3
  <2>4. Chain' = u
    BY <2>2, <2>3
  <2>5. CASE u = s
    BY <2>1, <2>4, <2>5
  <2>6. CASE QueueStep(s, u)
    <3>1. DOMAIN s = 1 .. Len(s)
      BY LenProperties
    <3>2. \A n : n \in Queue!Members <=> Among(n, s)
      BY <2>1, <3>1 DEF Queue!Members, Among
    <3>3. Queue!Next
      BY <2>1, <2>4, <2>6, <3>2
         DEF QueueStep, Queue!Next, Queue!Take, Queue!InFront, Queue!BehindFirst, Queue!AtEnd
    <3> QED BY <3>3
  <2> QED BY <2>2, <2>5, <2>6
<1> QED BY <1>1, <1>4, ListHolds, PTL DEF Spec, IsQueue, Queue!Spec
=============================================================================
