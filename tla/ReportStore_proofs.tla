-------------------------- MODULE ReportStore_proofs --------------------------
(***************************************************************************)
(* Theorems about ReportStore.  The types hold for every value of the      *)
(* constants.  What the ring of position reports keeps and promises holds  *)
(* for every size of the ring, every number of reports and every order of  *)
(* the three threads, as long as a report takes one slot, the power does   *)
(* not fail while the flash memory is written, no report is overwritten    *)
(* while its message waits in the transmit list, and the ids are not used  *)
(* up: these conditions are Regular.  What report_count holds, and the     *)
(* order in which the reports leave, needs that the counter does not wrap  *)
(* around: Countable.                                                      *)
(***************************************************************************)
EXTENDS ReportStore, FiniteSetTheorems, WellFoundedInduction, TLAPS

(* A set of numbers that is not empty has a smallest one.                  *)
LEMMA SmallestOf ==
  ASSUME NEW T, T \subseteq Nat, T # {}
  PROVE  \E x \in T : \A y \in T : x <= y
<1>1. PICK x \in T : \A y \in T : ~ (<<y, x>> \in OpToRel(<, Nat))
  BY WFMin, NatLessThanWellFounded
<1>2. \A y \in T : ~ (y < x)
  BY <1>1 DEF OpToRel
<1> QED BY <1>2

LEMMA NumbersByInduction ==
  ASSUME NEW T, 0 \in T, \A n \in Nat : n \in T => n + 1 \in T
  PROVE  \A n \in Nat : n \in T
<1> SUFFICES ASSUME NEW m \in Nat, m \notin T PROVE FALSE
  OBVIOUS
<1>1. PICK x \in Nat \ T : \A y \in Nat \ T : x <= y
  BY SmallestOf
<1>2. x # 0 /\ x - 1 \in Nat /\ (x - 1) + 1 = x
  OBVIOUS
<1>3. x - 1 \in T
  BY <1>1, <1>2
<1> QED BY <1>1, <1>2, <1>3

LEMMA RingFacts ==
  /\ End \in Nat \ {0} /\ Slots = 0 .. End - 1
  /\ Ones \in Nat /\ CountMod \in Nat \ {0} /\ 0 \in Slots
<1>1. SectorSlots * Sectors \in Nat \ {0}
  BY StoreAssumption
<1> QED BY <1>1, StoreAssumption DEF End, Slots, Ones

LEMMA SizeFacts == \A size \in Sizes \cup {TornSize} : size \in Nat \ {0}
BY StoreAssumption

LEMMA IdFacts ==
  /\ 0 \in 0 .. Ones /\ Ones \in 0 .. Ones
  /\ \A id \in 0 .. Ones : (id + 1) % IdMod \in 0 .. Ones
  /\ \A id, other \in 0 .. Ones : BitAnd(id, other) \in 0 .. Ones
BY StoreAssumption DEF Ones

LEMMA BodyFacts ==
  /\ MaxPuts \in Nat /\ Mixed \in Nat
  /\ 0 \in 0 .. Mixed /\ Mixed \in 0 .. Mixed
  /\ 0 .. MaxPuts \subseteq 0 .. Mixed
  /\ \A n \in 0 .. MaxPuts : n < MaxPuts => n + 1 \in 0 .. MaxPuts
  /\ \A n \in 0 .. Mixed : {n} \ {0, Mixed} \subseteq 1 .. MaxPuts
BY StoreAssumption DEF Mixed

LEMMA CountFacts ==
  /\ 0 \in 0 .. CountMod - 1
  /\ \A n \in 0 .. CountMod - 1 : n > 0 => n - 1 \in 0 .. CountMod - 1
BY StoreAssumption

LEMMA CountOf == \A n \in Nat : n % CountMod \in 0 .. CountMod - 1
BY StoreAssumption

LEMMA CountNext == \A n \in 0 .. CountMod - 1 : (n + 1) % CountMod \in 0 .. CountMod - 1
BY StoreAssumption

LEMMA TriesFacts ==
  /\ 0 \in 0 .. MaxRetry /\ 0 < MaxRetry
  /\ \A n \in 0 .. MaxRetry : n < MaxRetry => n + 1 \in 0 .. MaxRetry
  /\ \A n \in 0 .. MaxRetry : n >= MaxRetry \/ n < MaxRetry
BY StoreAssumption

LEMMA WrappedType ==
  \A a \in Slots : \A size \in Sizes \cup {TornSize} : Wrapped(a + size) \in Slots
BY RingFacts, SizeFacts DEF Wrapped

-----------------------------------------------------------------------------
(* Types.  While a report is stored its address is one of the ring; a      *)
(* message that is to be sent was not sent MaxRetry times.                 *)

Record == [addr : Slots, id : 0 .. Ones, size : Sizes \cup {TornSize}]

Waiting == {e \in Entry : e.state = "IDLE" => e.tries < MaxRetry}

TypeInv ==
  /\ TypeOK
  /\ ~FlashFree => curr \in Record
  /\ queue \in Seq(Waiting)

LEMMA BlankType == Blank \in Slot
BY RingFacts, IdFacts, BodyFacts DEF Blank, Slot

LEMMA EventsType ==
  ASSUME TypeOK, NEW kind, Happens(kind)
  PROVE  events' \in 0 .. MaxEvents
BY StoreAssumption DEF TypeOK, Happens

LEMMA CurrType ==
  ASSUME TypeOK
  PROVE  /\ curr.addr \in Slots \cup {End} /\ curr.id \in 0 .. Ones
         /\ curr.addr # End => curr \in Record
         /\ NextSlot \in Slots
<1>1. curr \in Record \/ curr = NoReport
  BY DEF TypeOK, Record
<1>2. curr.addr \in Slots \cup {End} /\ curr.id \in 0 .. Ones
  <2>1. CASE curr \in Record
    BY <2>1 DEF Record
  <2>2. CASE curr = NoReport
    BY <2>2, IdFacts DEF NoReport
  <2> QED BY <1>1, <2>1, <2>2
<1>3. curr.addr # End => curr \in Record
  BY <1>1 DEF NoReport
<1>4. NextSlot \in Slots
  <2>1. CASE curr.addr = End
    BY <2>1, RingFacts DEF NextSlot
  <2>2. CASE curr.addr # End
    BY <2>2, <1>3, WrappedType DEF NextSlot, Record
  <2> QED BY <2>1, <2>2
<1> QED BY <1>2, <1>3, <1>4

LEMMA QueueIsTyped ==
  ASSUME NEW q \in Seq(Waiting)
  PROVE  q \in Seq(Entry)
BY DEF Waiting

LEMMA PutType ==
  ASSUME TypeInv, Put
  PROVE  TypeInv'
<1> USE RingFacts
<1>1. /\ flash \in [0 .. End -> Slot] /\ curr.id \in 0 .. Ones /\ NextSlot \in Slots
      /\ stored \in 0 .. MaxPuts /\ queue \in Seq(Waiting)
      /\ curr.addr \in Slots \cup {End}
  BY CurrType DEF TypeInv, TypeOK
<1>2. CASE PutBegin
  <2>1. PICK size \in Sizes :
          curr' = [addr |-> NextSlot, id |-> (curr.id + 1) % IdMod, size |-> size]
    BY <1>2 DEF PutBegin
  <2>2. (curr.id + 1) % IdMod \in 0 .. Ones
    BY <1>1, IdFacts
  <2>3. curr' \in Record
    BY <1>1, <2>1, <2>2 DEF Record
  <2>4. flash' \in [0 .. End -> Slot]
    BY <1>1, <1>2, BlankType DEF PutBegin, PutErase, Erased
  <2>5. events' \in 0 .. MaxEvents
    BY <1>2, EventsType DEF PutBegin, TypeInv, TypeOK
  <2>6. stored' \in 0 .. MaxPuts /\ received' \subseteq 1 .. MaxPuts
    BY <1>1, <1>2, BodyFacts DEF PutBegin, TypeInv, TypeOK
  <2> QED
    BY <1>2, <2>3, <2>4, <2>5, <2>6
    DEF PutBegin, TypeInv, TypeOK, Record, PutSteps, counters, threads
<1>3. CASE PutMagic
  <2>1. ASSUME NEW slot \in Slot PROVE WithMagic(slot) \in Slot
    BY DEF WithMagic, Slot
  <2>2. flash' \in [0 .. End -> Slot]
    BY <1>1, <1>3, <2>1 DEF PutMagic
  <2> QED BY <1>3, <2>2 DEF PutMagic, TypeInv, TypeOK, FlashFree, PutSteps, counters, history
<1>4. CASE PutHead
  <2>1. curr \in Record
    BY <1>4 DEF PutHead, FlashFree, TypeInv
  <2>2. \A id \in 0 .. Ones : BitAnd(id, curr.id) \in 0 .. Ones
    BY <1>1, IdFacts
  <2>3. ASSUME NEW slot \in Slot PROVE WithHead(slot, curr.id, curr.size) \in Slot
    BY <2>1, <2>2 DEF WithHead, Slot, Record
  <2>4. flash' \in [0 .. End -> Slot]
    BY <1>1, <1>4, <2>3 DEF PutHead
  <2> QED BY <1>4, <2>4 DEF PutHead, TypeInv, TypeOK, FlashFree, PutSteps, counters, history
<1>5. CASE PutBody
  <2>1. ASSUME NEW slot \in Slot PROVE WithBody(slot, stored) \in Slot
    <3>1. MixedBody(slot.body, stored) \in 0 .. Mixed
      BY <1>1, BodyFacts DEF MixedBody, Slot
    <3> QED BY <3>1 DEF WithBody, Slot
  <2>2. flash' \in [0 .. End -> Slot]
    BY <1>1, <1>5, <2>1 DEF PutBody
  <2> QED BY <1>5, <2>2 DEF PutBody, TypeInv, TypeOK, FlashFree, PutSteps, counters, history
<1>6. CASE PutCount
  <2>1. count' \in 0 .. CountMod - 1
    <3>1. count \in 0 .. CountMod - 1
      BY DEF TypeInv, TypeOK
    <3>2. count' = (count + 1) % CountMod
      BY <1>6 DEF PutCount
    <3>3. (count + 1) % CountMod \in 0 .. CountMod - 1
      BY <3>1, CountNext
    <3> QED BY <3>2, <3>3
  <2>2. get_addr' \in Slots \cup {End}
    BY <1>1, <1>6 DEF PutCount, TypeInv, TypeOK
  <2> QED BY <1>6, <2>1, <2>2 DEF PutCount, TypeInv, TypeOK, FlashFree, PutSteps, ring, history
<1>7. CASE PutSend
  <2>1. Message(curr.addr, stored) \in Waiting
    BY <1>1, TriesFacts, BodyFacts DEF Message, Entry, Waiting
  <2>2. queue' \in Seq(Waiting)
    BY <1>1, <1>7, <2>1 DEF PutSend
  <2> QED
    BY <1>7, <2>2, QueueIsTyped DEF PutSend, TypeInv, TypeOK, FlashFree, PutSteps, ring, counters, history
<1> QED BY <1>2, <1>3, <1>4, <1>5, <1>6, <1>7 DEF Put

LEMMA GetType ==
  ASSUME TypeInv, Get
  PROVE  TypeInv'
<1> USE RingFacts
<1>1. CASE GetWait
  BY <1>1 DEF GetWait, TypeInv, TypeOK, FlashFree, ring, counters, history
<1>2. CASE GetEnd
  <2>1. Candidates \subseteq Slots
    BY DEF Candidates, Hits, UnsentSlots
  <2>2. \A a \in Candidates : Message(a, flash[a].body) \in Waiting
    BY <2>1, TriesFacts DEF Message, Entry, Waiting, TypeInv, TypeOK, Slot
  <2>3. queue' \in Seq(Waiting)
    <3>1. queue' = queue \/ \E a \in Candidates : queue' = Append(queue, Message(a, flash[a].body))
      BY <1>2 DEF GetEnd, Search
    <3>2. queue \in Seq(Waiting)
      BY DEF TypeInv
    <3> QED BY <2>2, <3>1, <3>2
  <2>4. count' \in 0 .. CountMod - 1
    <3>1. count \in 0 .. CountMod - 1
      BY DEF TypeInv, TypeOK
    <3>2. count' = count \/ count' = 0
      BY <1>2 DEF GetEnd, Search
    <3>3. 0 \in 0 .. CountMod - 1
      BY CountFacts
    <3> QED BY <3>1, <3>2, <3>3
  <2> QED BY <1>2, <2>3, <2>4, QueueIsTyped DEF GetEnd, TypeInv, TypeOK, FlashFree, ring, history
<1> QED BY <1>1, <1>2 DEF Get

(* What a transmission takes from the queue and puts into it.              *)
LEMMA QueueFacts ==
  ASSUME queue \in Seq(Waiting), queue # <<>>
  PROVE  /\ First \in Waiting /\ Tail(queue) \in Seq(Waiting) /\ queue[1] = First
         /\ \A e \in Waiting : [queue EXCEPT ![1] = e] \in Seq(Waiting)
BY DEF First

LEMMA FirstType ==
  ASSUME queue \in Seq(Waiting), queue # <<>>
  PROVE  /\ First.addr \in Slots \cup {End} /\ First.body \in 0 .. Mixed
         /\ First.tries \in 0 .. MaxRetry
         /\ First.state = "IDLE" => First.tries < MaxRetry
BY QueueFacts DEF Waiting, Entry

LEMMA TransmissionType ==
  ASSUME TypeInv, Transmission
  PROVE  TypeInv'
<1>1. queue \in Seq(Waiting) /\ queue # <<>>
  BY DEF Transmission, Send, Timeout, RemoveFirst, Transmits, TypeInv, TypeOK
<1>2. First \in Waiting /\ Tail(queue) \in Seq(Waiting) /\ queue[1] = First
  BY <1>1, QueueFacts
<1>3. \A e \in Waiting : [queue EXCEPT ![1] = e] \in Seq(Waiting)
  BY <1>1, QueueFacts
<1>4. CASE Send
  <2> DEFINE sent == [First EXCEPT !.state = "WAIT_ACK", !.tries = @ + 1]
  <2>1. First.tries + 1 \in 0 .. MaxRetry
    BY <1>1, <1>4, FirstType, TriesFacts DEF Send
  <2>2. sent \in Waiting
    BY <1>2, <2>1 DEF Waiting, Entry
  <2>3. queue' = [queue EXCEPT ![1] = sent]
    BY <1>1, <1>2, <1>4 DEF Send
  <2>4. queue' \in Seq(Waiting)
    BY <1>3, <2>2, <2>3
  <2>5. received' \subseteq 1 .. MaxPuts
    <3>1. {First.body} \ {0, Mixed} \subseteq 1 .. MaxPuts
      BY <1>1, FirstType, BodyFacts
    <3> QED BY <1>4, <3>1 DEF Send, TypeInv, TypeOK
  <2>6. events' \in 0 .. MaxEvents
    BY <1>4, EventsType DEF Send, TypeInv, TypeOK
  <2> QED
    BY <1>4, <2>4, <2>5, <2>6, QueueIsTyped
    DEF Send, TypeInv, TypeOK, FlashFree, ring, counters, threads
<1>5. CASE Timeout
  <2> DEFINE again == [First EXCEPT !.state = "IDLE"]
  <2>1. ASSUME First.tries >= MaxRetry PROVE queue' \in Seq(Waiting)
    BY <1>2, <1>5, <2>1 DEF Timeout
  <2>2. ASSUME ~(First.tries >= MaxRetry) PROVE queue' \in Seq(Waiting)
    <3>1. First.tries < MaxRetry
      BY <1>1, <2>2, FirstType, TriesFacts
    <3>2. again \in Waiting
      BY <1>2, <3>1 DEF Waiting, Entry
    <3>3. queue' = [queue EXCEPT ![1] = again]
      BY <1>1, <1>2, <1>5, <2>2 DEF Timeout
    <3> QED BY <1>3, <3>2, <3>3
  <2>3. queue' \in Seq(Waiting)
    BY <2>1, <2>2
  <2>4. events' \in 0 .. MaxEvents
    BY <1>5, EventsType DEF Timeout, TypeInv, TypeOK
  <2> QED
    BY <1>5, <2>3, <2>4, QueueIsTyped
    DEF Timeout, TypeInv, TypeOK, FlashFree, ring, counters, threads, history
<1>6. CASE RemoveFirst
  BY <1>2, <1>6, QueueIsTyped
  DEF RemoveFirst, TypeInv, TypeOK, FlashFree, ring, counters, threads, history
<1> QED BY <1>4, <1>5, <1>6 DEF Transmission

LEMMA ResponseType ==
  ASSUME TypeInv, NEW ok \in BOOLEAN, Response(ok)
  PROVE  TypeInv'
<1> DEFINE answered == [First EXCEPT !.state = "ACK_OK"]
<1>1. queue \in Seq(Waiting) /\ queue # <<>>
  BY DEF Response, Answered, TypeInv
<1>2. answered \in Waiting /\ queue' = [queue EXCEPT ![1] = answered]
  BY <1>1, QueueFacts DEF Response, Waiting, Entry
<1>3. queue' \in Seq(Waiting)
  BY <1>1, <1>2, QueueFacts
<1>4. flash' \in [0 .. End -> Slot]
  <2>1. flash \in [0 .. End -> Slot]
    BY DEF TypeInv, TypeOK
  <2>2. \A slot \in Slot : AsReported(slot) \in Slot
    BY DEF AsReported, Slot
  <2> QED BY <2>1, <2>2 DEF Response
<1>5. get_addr' \in Slots \cup {End}
  BY <1>1, FirstType DEF Response, counters, TypeInv, TypeOK
<1>6. count' \in 0 .. CountMod - 1
  <2>1. count \in 0 .. CountMod - 1
    BY DEF TypeInv, TypeOK
  <2>2. 0 \in 0 .. CountMod - 1 /\ (count > 0 => count - 1 \in 0 .. CountMod - 1)
    BY <2>1, CountFacts
  <2> QED BY <2>1, <2>2 DEF Response, counters
<1>7. events' \in 0 .. MaxEvents
  BY EventsType DEF Response, TypeInv, TypeOK
<1> QED
  BY <1>3, <1>4, <1>5, <1>6, <1>7, QueueIsTyped
  DEF Response, TypeInv, TypeOK, FlashFree, threads, history

(* jt808_report_init: the greatest and the smallest id exist when a header *)
(* does.                                                                   *)
LEMMA SlotsFacts ==
  ASSUME NEW T, T \subseteq Slots
  PROVE  IsFiniteSet(T) /\ Cardinality(T) \in Nat
<1>1. IsFiniteSet(Slots)
  BY RingFacts, FS_Interval
<1>2. IsFiniteSet(T)
  BY <1>1, FS_Subset
<1> QED BY <1>2, FS_CardinalityType

LEMMA GreatestIdExists ==
  ASSUME NEW A, A # {}, A \subseteq Slots, NEW id \in [A -> 0 .. Ones]
  PROVE  \E a \in A : \A b \in A : id[b] < id[a] \/ (id[b] = id[a] /\ b <= a)
<1> USE RingFacts
<1> DEFINE ranks == {Ones - id[a] : a \in A}
<1>1. ranks \subseteq Nat /\ ranks # {}
  <2>1. \A a \in A : Ones - id[a] \in Nat
    OBVIOUS
  <2> QED BY <2>1
<1>2. PICK r \in ranks : \A y \in ranks : r <= y
  BY <1>1, SmallestOf
<1>3. PICK c \in A : r = Ones - id[c]
  BY <1>2
<1>4. \A b \in A : id[b] <= id[c]
  <2>1. \A b \in A : Ones - id[c] <= Ones - id[b]
    BY <1>2, <1>3
  <2> QED BY <2>1
<1> DEFINE last == {End - a : a \in {a \in A : id[a] = id[c]}}
<1>5. last \subseteq Nat /\ last # {}
  <2>1. \A a \in A : End - a \in Nat
    OBVIOUS
  <2> QED BY <1>3, <2>1
<1>6. PICK l \in last : \A y \in last : l <= y
  BY <1>5, SmallestOf
<1>7. PICK a \in A : id[a] = id[c] /\ l = End - a
  BY <1>6
<1>8. \A b \in A : id[b] = id[c] => b <= a
  <2>1. \A b \in A : id[b] = id[c] => End - a <= End - b
    BY <1>6, <1>7
  <2> QED BY <2>1
<1>9. \A b \in A : id[b] < id[c] \/ id[b] = id[c]
  BY <1>4
<1> QED BY <1>7, <1>8, <1>9

LEMMA LeastIdExists ==
  ASSUME NEW A, A # {}, A \subseteq Slots, NEW id \in [A -> 0 .. Ones]
  PROVE  \E a \in A : \A b \in A : id[b] > id[a] \/ (id[b] = id[a] /\ b >= a)
<1> USE RingFacts
<1> DEFINE ranks == {id[a] : a \in A}
<1>1. ranks \subseteq Nat /\ ranks # {}
  <2>1. \A a \in A : id[a] \in Nat
    OBVIOUS
  <2> QED BY <2>1
<1>2. PICK r \in ranks : \A y \in ranks : r <= y
  BY <1>1, SmallestOf
<1>3. PICK c \in A : r = id[c]
  BY <1>2
<1>4. \A b \in A : id[c] <= id[b]
  BY <1>2, <1>3
<1> DEFINE first == {a \in A : id[a] = id[c]}
<1>5. first \subseteq Nat /\ first # {}
  <2>1. \A a \in Slots : a \in Nat
    OBVIOUS
  <2> QED BY <1>3, <2>1
<1>6. PICK a \in first : \A y \in first : a <= y
  BY <1>5, SmallestOf
<1>7. \A b \in A : id[b] > id[c] \/ id[b] = id[c]
  BY <1>4
<1>8. a \in A /\ id[a] = id[c] /\ \A b \in A : id[b] = id[c] => b >= a
  BY <1>6
<1> QED BY <1>7, <1>8

LEMMA NewestExists ==
  ASSUME flash \in [0 .. End -> Slot], Heads # {}
  PROVE  /\ Newest \in Heads
         /\ \A b \in Heads : flash[b].id < flash[Newest].id
                            \/ (flash[b].id = flash[Newest].id /\ b <= Newest)
<1> DEFINE id == [a \in Heads |-> flash[a].id]
<1>1. Heads \subseteq Slots /\ \A a \in Slots : flash[a] \in Slot
  BY RingFacts DEF Heads
<1>2. id \in [Heads -> 0 .. Ones]
  BY <1>1 DEF Slot
<1>3. PICK a \in Heads : \A b \in Heads : id[b] < id[a] \/ (id[b] = id[a] /\ b <= a)
  BY <1>1, <1>2, GreatestIdExists
<1>4. \A b \in Heads : flash[b].id < flash[a].id \/ (flash[b].id = flash[a].id /\ b <= a)
  BY <1>3
<1> QED BY <1>4 DEF Newest

LEMMA OldestExists ==
  ASSUME flash \in [0 .. End -> Slot], UnsentSlots # {}
  PROVE  /\ Oldest \in UnsentSlots
         /\ \A b \in UnsentSlots : flash[b].id > flash[Oldest].id
                            \/ (flash[b].id = flash[Oldest].id /\ b >= Oldest)
<1> DEFINE id == [a \in UnsentSlots |-> flash[a].id]
<1>1. UnsentSlots \subseteq Slots /\ \A a \in Slots : flash[a] \in Slot
  BY RingFacts DEF UnsentSlots
<1>2. id \in [UnsentSlots -> 0 .. Ones]
  BY <1>1 DEF Slot
<1>3. PICK a \in UnsentSlots :
        \A b \in UnsentSlots : id[b] > id[a] \/ (id[b] = id[a] /\ b >= a)
  BY <1>1, <1>2, LeastIdExists
<1>4. \A b \in UnsentSlots :
        flash[b].id > flash[a].id \/ (flash[b].id = flash[a].id /\ b >= a)
  BY <1>3
<1> QED BY <1>4 DEF Oldest

LEMMA ReportInitType ==
  ASSUME TypeInv, NEW previous \in Slots \cup {End}, ReportInit(previous)
  PROVE  /\ curr' \in {NoReport} \cup Record
         /\ get_addr' \in Slots \cup {End}
         /\ count' \in 0 .. CountMod - 1
<1>1. flash \in [0 .. End -> Slot]
  BY DEF TypeInv, TypeOK
<1>2. \A a \in Slots : Report(a) \in Record
  BY <1>1, RingFacts DEF Report, Record, Slot
<1>3. curr' \in {NoReport} \cup Record
  BY <1>1, <1>2, NewestExists DEF ReportInit, Heads
<1>4. curr'.addr \in Slots \cup {End}
  BY <1>3 DEF NoReport, Record
<1>5. get_addr' \in Slots \cup {End}
  BY <1>1, <1>4, OldestExists DEF ReportInit, UnsentSlots
<1>6. count' \in 0 .. CountMod - 1
  <2>1. Cardinality(UnsentSlots) \in Nat
    BY SlotsFacts DEF UnsentSlots
  <2>2. Cardinality(UnsentSlots) % CountMod \in 0 .. CountMod - 1
    BY <2>1, CountOf
  <2> QED BY <2>2 DEF ReportInit
<1> QED BY <1>3, <1>5, <1>6

LEMMA SessionType ==
  ASSUME TypeInv, Session
  PROVE  TypeInv'
<1>1. CASE Authenticate
  BY <1>1 DEF Authenticate, TypeInv, TypeOK, FlashFree, ring, counters, history
<1>2. CASE Reinit
  <2>1. get_addr \in Slots \cup {End}
    BY DEF TypeInv, TypeOK
  <2>2. /\ curr' \in {NoReport} \cup Record /\ get_addr' \in Slots \cup {End}
        /\ count' \in 0 .. CountMod - 1
    BY <1>2, <2>1, ReportInitType DEF Reinit
  <2> QED BY <1>2, <2>2 DEF Reinit, TypeInv, TypeOK, FlashFree, Record, history
<1>3. CASE Authenticated
  BY <1>3 DEF Authenticated, TypeInv, TypeOK, FlashFree, ring, counters, threads, history
<1> QED BY <1>1, <1>2, <1>3 DEF Session

LEMMA EventType ==
  ASSUME TypeInv, Event
  PROVE  TypeInv'
<1>1. CASE Offline
  <2>1. events' \in 0 .. MaxEvents
    BY <1>1, EventsType DEF Offline, TypeInv, TypeOK
  <2> QED
    BY <1>1, <2>1 DEF Offline, TypeInv, TypeOK, FlashFree, ring, counters, threads, history
<1>2. CASE TrackingEnds
  BY <1>2 DEF TrackingEnds, TypeInv, TypeOK, FlashFree, ring, counters, threads, history
<1>3. CASE Restart
  <2>1. /\ curr' \in {NoReport} \cup Record /\ get_addr' \in Slots \cup {End}
        /\ count' \in 0 .. CountMod - 1
    BY <1>3, ReportInitType DEF Restart
  <2>2. events' \in 0 .. MaxEvents
    BY <1>3, EventsType DEF Restart, TypeInv, TypeOK
  <2>3. queue' \in Seq(Waiting)
    BY <1>3 DEF Restart
  <2> QED
    BY <1>3, <2>1, <2>2, <2>3, QueueIsTyped
    DEF Restart, TypeInv, TypeOK, FlashFree, PutSteps, Record, history
<1> QED BY <1>1, <1>2, <1>3 DEF Event

LEMMA InitType ==
  ASSUME Init
  PROVE  TypeInv
<1>1. flash \in [0 .. End -> Slot]
  BY BlankType DEF Init
<1>2. count \in 0 .. CountMod - 1
  BY CountFacts DEF Init
<1>3. /\ queue \in Seq(Waiting) /\ queue \in Seq(Entry)
  BY DEF Init
<1>4. stored \in 0 .. MaxPuts /\ events \in 0 .. MaxEvents
  BY StoreAssumption DEF Init
<1>5. curr \in {NoReport} \cup Record /\ get_addr \in Slots \cup {End}
  BY DEF Init
<1>6. /\ put \in PutSteps /\ get \in {"idle", "wait"} /\ reinit \in BOOLEAN
      /\ link \in {"off", "auth", "report"} /\ FlashFree
      /\ received \subseteq 1 .. MaxPuts
  BY DEF Init, PutSteps, FlashFree
<1>7. tracking \in BOOLEAN
  <2>1. ("tracking" \in Events) \in BOOLEAN
    OBVIOUS
  <2>2. {FALSE, "tracking" \in Events} \subseteq BOOLEAN
    BY <2>1
  <2> QED BY <2>2 DEF Init
<1> QED BY <1>1, <1>2, <1>3, <1>4, <1>5, <1>6, <1>7 DEF TypeInv, TypeOK, Record

LEMMA StepType ==
  ASSUME TypeInv, [Next]_vars
  PROVE  TypeInv'
<1>1. CASE Next
  BY <1>1, PutType, GetType, TransmissionType, SessionType, EventType, ResponseType
  DEF Next
<1>2. CASE UNCHANGED vars
  BY <1>2
  DEF vars, ring, counters, threads, history, TypeInv, TypeOK, FlashFree
<1> QED BY <1>1, <1>2

(* The addresses stay in the ring, whatever the flash memory holds after a *)
(* loss of power, and no report is sent more than MaxRetry times.          *)
THEOREM StoreTypeInvariant == Spec => []TypeOK
<1>1. Init => TypeInv
  BY InitType
<1>2. TypeInv /\ [Next]_vars => TypeInv'
  BY StepType
<1>3. TypeInv => TypeOK
  BY DEF TypeInv
<1> QED BY <1>1, <1>2, <1>3, PTL DEF Spec

-----------------------------------------------------------------------------
Regular ==
  /\ Sizes = {1}
  /\ "lapped" \notin Events /\ "restart" \notin Events
  /\ MaxPuts < Ones

-----------------------------------------------------------------------------
(* The sectors of the ring.                                                *)

LEMMA SlotIsNat == SectorSlots \in Nat \ {0} /\ \A a \in Slots : a \in Nat
BY RingFacts, StoreAssumption

LEMMA SectorOrder ==
  ASSUME NEW a \in Slots, NEW b \in Slots, a <= b
  PROVE  SectorOf(a) <= SectorOf(b) /\ SectorOf(a) \in Nat /\ SectorOf(b) \in Nat
<1>1. SectorSlots \in Nat \ {0} /\ a \in Nat /\ b \in Nat
  BY SlotIsNat
<1>2. a \div SectorSlots \in Nat /\ b \div SectorSlots \in Nat
  BY <1>1
<1>3. a \div SectorSlots <= b \div SectorSlots
  BY <1>1
<1> QED BY <1>2, <1>3 DEF SectorOf

LEMMA SameSector ==
  ASSUME NEW a \in Slots, (a + 1) % SectorSlots # 0
  PROVE  SectorOf(a + 1) = SectorOf(a)
<1>1. SectorSlots \in Nat \ {0} /\ a \in Nat
  BY SlotIsNat
<1> QED BY <1>1 DEF SectorOf

LEMMA SectorBegin ==
  ASSUME NEW a \in Slots, NEW b \in Slots, b % SectorSlots = 0, SectorOf(a) = SectorOf(b)
  PROVE  b <= a
<1>1. SectorSlots \in Nat \ {0} /\ a \in Nat /\ b \in Nat
  BY SlotIsNat
<1>2. a < b => a \div SectorSlots < b \div SectorSlots
  BY <1>1
<1>3. a \div SectorSlots \in Nat
  BY <1>1
<1> QED BY <1>1, <1>2, <1>3 DEF SectorOf

LEMMA FirstSlot == 0 % SectorSlots = 0
<1>1. \A S \in Nat \ {0} : 0 % S = 0
  OBVIOUS
<1> QED BY <1>1, StoreAssumption

-----------------------------------------------------------------------------
(* The invariant: the reports lie in the ring in the order of their ids,   *)
(* the newest at report_curr, and nothing behind it in its sector.         *)

Holds(slot, n) == slot.mn /\ slot.id = n /\ slot.size = 1 /\ slot.body = n

(* The number of the report at slot a.                                     *)
Place(a) == IF a <= curr.addr THEN stored - (curr.addr - a)
            ELSE stored - (curr.addr + End - a)

(* The slot of the report that is being stored.                            *)
Begun ==
  CASE put = "magic" -> Blank
    [] put = "head" -> [Blank EXCEPT !.mn = TRUE]
    [] put = "body" -> [Blank EXCEPT !.mn = TRUE, !.id = stored, !.size = 1]

CurrInv ==
  /\ curr.id = stored
  /\ stored = 0 => curr = NoReport /\ put = "idle"
  /\ stored > 0 => curr \in Record /\ curr.size = 1

RingInv ==
  \A a \in Slots : a # curr.addr =>
    flash[a] = Blank \/ (Place(a) \in 1 .. stored - 1 /\ Holds(flash[a], Place(a)))

NewestInv ==
  stored > 0 => IF FlashFree THEN Holds(flash[curr.addr], stored)
                ELSE flash[curr.addr] = Begun

BehindInv ==
  stored > 0 =>
    \A a \in Slots : a > curr.addr /\ SectorOf(a) = SectorOf(curr.addr) => flash[a] = Blank

QueueInv ==
  \A i \in DOMAIN queue :
    /\ queue[i].addr \in Slots /\ queue[i].body \in 1 .. stored
    /\ flash[queue[i].addr].mn /\ flash[queue[i].addr].body = queue[i].body

MarkedInv ==
  \A a \in Slots : flash[a].mn /\ ~flash[a].unsent => flash[a].body \in received

StoreInv ==
  /\ TypeInv /\ CurrInv /\ RingInv /\ NewestInv /\ BehindInv /\ QueueInv /\ MarkedInv

(* A slot of the ring is empty or holds a complete report, but for the one *)
(* that is being stored.                                                   *)
LEMMA SlotIsWhole ==
  ASSUME StoreInv, NEW a \in Slots, a # curr.addr \/ FlashFree
  PROVE  flash[a] = Blank \/ (Place(a) \in 1 .. stored /\ Holds(flash[a], Place(a)))
<1>1. stored \in Nat
  BY BodyFacts DEF StoreInv, TypeInv, TypeOK
<1>2. CASE a # curr.addr
  BY <1>1, <1>2 DEF StoreInv, RingInv
<1>3. CASE a = curr.addr
  <2>1. stored > 0
    BY <1>1, <1>3, RingFacts DEF StoreInv, CurrInv, NoReport
  <2>2. Place(a) = stored
    BY <1>1, <1>3, RingFacts DEF Place
  <2> QED BY <1>1, <1>3, <2>1, <2>2 DEF StoreInv, NewestInv
<1> QED BY <1>2, <1>3

-----------------------------------------------------------------------------
(* jt808_report_put takes the next slot.                                   *)

LEMMA NextSlotIs ==
  ASSUME StoreInv
  PROVE  /\ NextSlot \in Slots
         /\ stored = 0 => NextSlot = 0
         /\ stored > 0 => \/ curr.addr + 1 = End /\ NextSlot = 0
                          \/ curr.addr + 1 < End /\ NextSlot = curr.addr + 1
<1>1. NextSlot \in Slots
  BY CurrType DEF StoreInv, TypeInv
<1>2. CASE stored = 0
  BY <1>1, <1>2 DEF StoreInv, CurrInv, NoReport, NextSlot
<1>3. CASE stored > 0
  <2>1. curr.addr \in Slots /\ curr.size = 1
    BY <1>3 DEF StoreInv, CurrInv, Record
  <2>2. NextSlot = Wrapped(curr.addr + 1)
    BY <2>1, RingFacts DEF NextSlot
  <2>3. \A a \in Slots : \/ a + 1 = End /\ Wrapped(a + 1) = 0
                         \/ a + 1 < End /\ Wrapped(a + 1) = a + 1
    BY RingFacts DEF Wrapped
  <2>4. \/ curr.addr + 1 = End /\ NextSlot = 0
        \/ curr.addr + 1 < End /\ NextSlot = curr.addr + 1
    BY <2>1, <2>2, <2>3
  <2>5. stored # 0
    BY <1>3
  <2> QED BY <1>1, <2>4, <2>5
<1>4. stored \in Nat
  BY BodyFacts DEF StoreInv, TypeInv, TypeOK
<1> QED BY <1>1, <1>2, <1>3, <1>4

(* The slot is empty, and so are those behind it in its sector; the other  *)
(* slots are as they were or erased.                                       *)
LEMMA ErasedRing ==
  ASSUME StoreInv, NEW a \in Slots
  PROVE  /\ PutErase(NextSlot)[a] \in {Blank, flash[a]}
         /\ a >= NextSlot /\ SectorOf(a) = SectorOf(NextSlot) =>
              PutErase(NextSlot)[a] = Blank
<1>1. NextSlot \in Slots /\ a \in 0 .. End /\ a < End /\ a \in Nat
  BY NextSlotIs, RingFacts
<1>2. CASE NextSlot % SectorSlots = 0
  <2>1. PutErase(NextSlot)[a] = IF SectorOf(a) = SectorOf(NextSlot) THEN Blank ELSE flash[a]
    BY <1>1, <1>2 DEF PutErase, Erased
  <2> QED BY <2>1
<1>3. CASE NextSlot % SectorSlots # 0
  <2>1. PutErase(NextSlot) = flash
    BY <1>3 DEF PutErase
  <2>2. stored > 0 /\ curr.addr \in Slots /\ NextSlot = curr.addr + 1
    BY <1>3, NextSlotIs, FirstSlot, BodyFacts DEF StoreInv, TypeInv, TypeOK, CurrInv, Record
  <2>3. SectorOf(NextSlot) = SectorOf(curr.addr)
    BY <1>3, <2>2, SameSector
  <2>4. a >= NextSlot => a > curr.addr
    <3>1. \A n \in Slots : a >= n + 1 => a > n
      BY <1>1, RingFacts
    <3> QED BY <2>2, <3>1
  <2> QED BY <2>1, <2>2, <2>3, <2>4 DEF StoreInv, BehindInv
<1> QED BY <1>2, <1>3

LEMMA NextPlace ==
  ASSUME Regular, StoreInv, PutBegin, NEW a \in Slots, a # NextSlot, stored > 0
  PROVE  Place(a)' = Place(a)
<1>1. PICK c \in Slots : c = curr.addr
  BY DEF StoreInv, CurrInv, Record
<1>2. PICK n \in Slots : n = NextSlot
  BY NextSlotIs
<1>3. PICK k \in Nat : k = stored
  BY BodyFacts DEF StoreInv, TypeInv, TypeOK
<1>4. curr'.addr = n /\ stored' = k + 1
  BY <1>2, <1>3 DEF PutBegin
<1>5. \/ c + 1 = End /\ n = 0
      \/ c + 1 < End /\ n = c + 1
  BY <1>1, <1>2, NextSlotIs
<1>6. Place(a) = IF a <= c THEN k - (c - a) ELSE k - (c + End - a)
  BY <1>1, <1>3 DEF Place
<1>7. Place(a)' = IF a <= n THEN k + 1 - (n - a) ELSE k + 1 - (n + End - a)
  BY <1>4, RingFacts DEF Place
<1>8. a # n
  BY <1>2
<1> QED BY <1>5, <1>6, <1>7, <1>8, RingFacts

LEMMA PutBeginKeeps ==
  ASSUME Regular, StoreInv, PutBegin, TypeInv'
  PROVE  StoreInv'
<1>1. /\ stored \in Nat /\ stored < MaxPuts /\ stored' = stored + 1
      /\ stored' \in Nat /\ stored' > 0
  BY BodyFacts DEF PutBegin, StoreInv, TypeInv, TypeOK
<1>2. curr' = [addr |-> NextSlot, id |-> stored + 1, size |-> 1]
  <2>1. curr' = [addr |-> NextSlot, id |-> (curr.id + 1) % IdMod, size |-> 1]
    BY DEF PutBegin, Regular
  <2>2. curr.id = stored
    BY DEF StoreInv, CurrInv
  <2>3. (stored + 1) % IdMod = stored + 1
    <3>1. stored + 1 \in 0 .. IdMod - 1 /\ IdMod \in Nat \ {0}
      BY <1>1, BodyFacts, StoreAssumption DEF Regular, Ones
    <3>2. \A n \in Nat : n \in 0 .. IdMod - 1 => n % IdMod = n
      BY <3>1
    <3> QED BY <1>1, <3>1, <3>2
  <2> QED BY <2>1, <2>2, <2>3
<1>3. NextSlot \in Slots /\ curr'.addr = NextSlot
  BY <1>2, NextSlotIs
<1>4. put = "idle" /\ put' = "magic" /\ FlashFree /\ ~FlashFree'
  BY DEF PutBegin, FlashFree
<1>5. \A a \in Slots : /\ flash'[a] \in {Blank, flash[a]}
                       /\ a >= NextSlot /\ SectorOf(a) = SectorOf(NextSlot) => flash'[a] = Blank
  BY ErasedRing DEF PutBegin
<1>6. flash'[NextSlot] = Blank
  BY <1>3, <1>5, RingFacts
<1>7. CurrInv'
  <2>1. curr' \in Record
    BY <1>4 DEF TypeInv
  <2> QED BY <1>1, <1>2, <2>1 DEF CurrInv
<1>8. RingInv'
  <2> SUFFICES ASSUME NEW a \in Slots, a # NextSlot
               PROVE  flash'[a] = Blank \/ ( /\ Place(a)' \in 1 .. stored' - 1
                                            /\ Holds(flash'[a], Place(a)'))
    BY <1>3 DEF RingInv
  <2>1. CASE flash'[a] = Blank
    BY <2>1
  <2>2. CASE flash'[a] = flash[a]
    <3>1. flash[a] = Blank \/ (Place(a) \in 1 .. stored /\ Holds(flash[a], Place(a)))
      BY <1>4, SlotIsWhole
    <3>2. CASE stored = 0
      BY <2>2, <3>1, <3>2
    <3>3. CASE stored > 0
      <4>1. Place(a)' = Place(a) /\ stored' - 1 = stored
        BY <1>1, <3>3, NextPlace
      <4> QED BY <2>2, <3>1, <4>1
    <3> QED BY <1>1, <3>2, <3>3
  <2> QED BY <1>5, <2>1, <2>2
<1>9. NewestInv'
  BY <1>3, <1>4, <1>6 DEF NewestInv, Begun
<1>10. BehindInv'
  <2>1. \A a \in Slots : a > NextSlot => a >= NextSlot
    BY <1>3, RingFacts
  <2> QED BY <1>3, <1>5, <2>1 DEF BehindInv
<1>11. QueueInv'
  <2>1. \A a \in Slots : Queued(a) => flash'[a] = flash[a]
    BY DEF PutBegin, Happens, Regular
  <2>2. queue' = queue /\ 1 .. stored \subseteq 1 .. stored'
    BY <1>1 DEF PutBegin
  <2> QED BY <2>1, <2>2 DEF QueueInv, StoreInv, Queued
<1>12. MarkedInv'
  BY <1>5 DEF MarkedInv, StoreInv, PutBegin, Blank
<1> QED BY <1>7, <1>8, <1>9, <1>10, <1>11, <1>12 DEF StoreInv

-----------------------------------------------------------------------------
(* The report is written into its slot.                                    *)

LEMMA BegunFacts ==
  ASSUME StoreInv, ~FlashFree
  PROVE  /\ stored > 0 /\ curr.addr \in Slots /\ curr.size = 1 /\ curr.id = stored
         /\ flash[curr.addr] = Begun /\ Begun.body = 0
         /\ \A i \in DOMAIN queue : queue[i].addr # curr.addr
<1>1. stored > 0
  BY BodyFacts DEF StoreInv, CurrInv, TypeInv, TypeOK, FlashFree
<1>2. curr.addr \in Slots /\ curr.size = 1 /\ curr.id = stored
  BY <1>1 DEF StoreInv, CurrInv, Record
<1>3. flash[curr.addr] = Begun
  BY <1>1 DEF StoreInv, NewestInv
<1>4. Begun.body = 0
  BY DEF FlashFree, Begun, Blank
<1>5. \A i \in DOMAIN queue : queue[i].addr # curr.addr
  <2>1. 0 \notin 1 .. stored
    OBVIOUS
  <2> QED BY <1>3, <1>4, <2>1 DEF StoreInv, QueueInv
<1> QED BY <1>1, <1>2, <1>3, <1>4, <1>5

LEMMA OwnSlot ==
  ASSUME StoreInv, ~FlashFree, TypeInv', UNCHANGED <<curr, stored, queue, received>>,
         \A a \in Slots \ {curr.addr} : flash'[a] = flash[a],
         flash'[curr.addr].unsent, NewestInv'
  PROVE  StoreInv'
<1>1. curr.addr \in Slots /\ stored > 0
  BY BegunFacts
<1>2. \A a \in Slots : a > curr.addr => a # curr.addr
  BY <1>1, RingFacts
<1>3. CurrInv'
  BY BegunFacts, BodyFacts DEF StoreInv, CurrInv, TypeInv, TypeOK
<1>4. RingInv'
  BY DEF StoreInv, RingInv, Place
<1>5. BehindInv'
  BY <1>2 DEF StoreInv, BehindInv
<1>6. QueueInv'
  BY BegunFacts DEF StoreInv, QueueInv
<1>7. MarkedInv'
  BY DEF StoreInv, MarkedInv
<1> QED BY <1>3, <1>4, <1>5, <1>6, <1>7 DEF StoreInv

LEMMA PutWriteKeeps ==
  ASSUME Regular, StoreInv, PutMagic \/ PutHead \/ PutBody, TypeInv'
  PROVE  StoreInv'
<1>1. ~FlashFree /\ UNCHANGED <<curr, stored, queue, received>>
  BY DEF PutMagic, PutHead, PutBody, FlashFree, history
<1>2. /\ curr.addr \in Slots /\ curr.size = 1 /\ curr.id = stored
      /\ flash[curr.addr] = Begun
  BY <1>1, BegunFacts
<1>3. flash \in [0 .. End -> Slot] /\ Slots \subseteq 0 .. End /\ curr.addr \in 0 .. End
  BY <1>2, RingFacts DEF StoreInv, TypeInv, TypeOK
<1>4. CASE PutMagic
  <2>1. flash'[curr.addr] = [Blank EXCEPT !.mn = TRUE] /\ put' = "head"
    <3>1. WithMagic(Blank).mn = TRUE
      BY DEF WithMagic, Blank
    <3>2. WithMagic(Blank) = [Blank EXCEPT !.mn = TRUE]
      BY <3>1 DEF WithMagic, Blank
    <3> QED BY <1>2, <1>3, <1>4, <3>2 DEF PutMagic, Begun
  <2>2. \A a \in Slots \ {curr.addr} : flash'[a] = flash[a]
    BY <1>3, <1>4 DEF PutMagic
  <2>3. flash'[curr.addr].unsent
    BY <2>1 DEF Blank
  <2>4. NewestInv'
    BY <1>1, <2>1 DEF NewestInv, Begun, FlashFree
  <2> QED BY <1>1, <2>2, <2>3, <2>4, OwnSlot
<1>5. CASE PutHead
  <2>1. BitAnd(Ones, stored) = stored
    BY <1>2, StoreAssumption, CurrType DEF StoreInv, TypeInv, Ones
  <2>2. flash'[curr.addr] = [Blank EXCEPT !.mn = TRUE, !.id = stored, !.size = 1]
        /\ put' = "body"
    BY <1>2, <1>3, <1>5, <2>1 DEF PutHead, Begun, WithHead, Blank
  <2>3. \A a \in Slots \ {curr.addr} : flash'[a] = flash[a]
    BY <1>3, <1>5 DEF PutHead
  <2>4. flash'[curr.addr].unsent
    BY <2>2 DEF Blank
  <2>5. NewestInv'
    BY <1>1, <2>2 DEF NewestInv, Begun, FlashFree
  <2> QED BY <1>1, <2>3, <2>4, <2>5, OwnSlot
<1>6. CASE PutBody
  <2>1. \A a \in Slots, c \in Slots : a \in c .. c + 1 - 1 <=> a = c
    BY RingFacts
  <2>2. flash'[curr.addr] = WithBody(Begun, stored) /\ put = "body" /\ put' = "count"
    BY <1>2, <1>3, <1>6, <2>1 DEF PutBody
  <2>3. \A a \in Slots \ {curr.addr} : flash'[a] = flash[a]
    BY <1>2, <1>3, <1>6, <2>1 DEF PutBody
  <2>4. flash'[curr.addr].unsent /\ Holds(flash'[curr.addr], stored)
    BY <2>2 DEF WithBody, MixedBody, Begun, Blank, Holds
  <2>5. NewestInv'
    BY <1>1, <2>2, <2>4 DEF NewestInv, FlashFree
  <2> QED BY <1>1, <2>3, <2>4, <2>5, OwnSlot
<1> QED BY <1>4, <1>5, <1>6

-----------------------------------------------------------------------------
(* The steps that leave the ring as it is.                                 *)

(* A report in the ring may be marked.                                     *)
Unmoved ==
  /\ UNCHANGED <<curr, stored>> /\ (put = "idle" => put' = "idle")
  /\ \/ FlashFree /\ FlashFree'
     \/ ~FlashFree /\ ~FlashFree' /\ put' = put /\ flash' = flash
  /\ \A a \in Slots : \/ flash'[a] = flash[a]
                      \/ flash[a].mn /\ flash'[a] = AsReported(flash[a])

LEMMA SameRing ==
  ASSUME StoreInv, Unmoved
  PROVE  CurrInv' /\ RingInv' /\ NewestInv' /\ BehindInv'
<1> USE DEF Unmoved
<1>1. \A n : \A a \in Slots : Holds(flash[a], n) => Holds(flash'[a], n)
  <2>1. \A a \in Slots : flash[a] \in Slot
    BY RingFacts DEF StoreInv, TypeInv, TypeOK
  <2>2. \A n : \A slot \in Slot : Holds(slot, n) => Holds(AsReported(slot), n)
    BY DEF Holds, AsReported, Slot
  <2> QED BY <2>1, <2>2
<1>2. \A a \in Slots : flash[a] = Blank => flash'[a] = Blank
  BY DEF Blank
<1>3. CurrInv'
  BY DEF StoreInv, CurrInv
<1>4. RingInv'
  BY <1>1, <1>2 DEF StoreInv, RingInv, Place
<1>5. NewestInv'
  <2>1. CASE FlashFree
    BY <1>1, <2>1 DEF StoreInv, NewestInv, CurrInv, Record
  <2>2. CASE ~FlashFree
    BY <2>2 DEF StoreInv, NewestInv, Begun
  <2> QED BY <2>1, <2>2
<1>6. BehindInv'
  BY <1>2 DEF StoreInv, BehindInv
<1> QED BY <1>3, <1>4, <1>5, <1>6

LEMMA SameFlash ==
  ASSUME StoreInv, TypeInv', QueueInv', UNCHANGED <<flash, curr, stored>>,
         (FlashFree /\ FlashFree') \/ (~FlashFree /\ ~FlashFree' /\ put' = put),
         put = "idle" => put' = "idle", received \subseteq received'
  PROVE  StoreInv'
<1>1. flash' = flash /\ UNCHANGED <<curr, stored>>
  OBVIOUS
<1>2. Unmoved
  BY <1>1 DEF Unmoved
<1>3. CurrInv' /\ RingInv' /\ NewestInv' /\ BehindInv'
  BY <1>2, SameRing
<1>4. MarkedInv'
  BY <1>1 DEF StoreInv, MarkedInv
<1> QED BY <1>3, <1>4 DEF StoreInv

(* A message for a complete report may be put into the queue.              *)
LEMMA AppendKeeps ==
  ASSUME StoreInv, NEW a \in Slots, NEW n \in 1 .. stored,
         flash[a].mn, flash[a].body = n, UNCHANGED <<flash, stored>>,
         queue' = Append(queue, Message(a, n))
  PROVE  QueueInv'
<1>1. queue \in Seq(Waiting)
  BY DEF StoreInv, TypeInv
<1>2. /\ DOMAIN queue' = DOMAIN queue \cup {Len(queue) + 1}
      /\ queue'[Len(queue) + 1] = Message(a, n)
      /\ \A i \in DOMAIN queue : queue'[i] = queue[i]
  BY <1>1
<1> QED BY <1>2 DEF StoreInv, QueueInv, Message

LEMMA PutEndKeeps ==
  ASSUME StoreInv, PutCount \/ PutSend, TypeInv'
  PROVE  StoreInv'
<1>1. /\ FlashFree /\ FlashFree' /\ UNCHANGED <<flash, curr, stored, received>>
  BY DEF PutCount, PutSend, FlashFree, ring, history
<1>2. QueueInv'
  <2>1. CASE queue' = queue
    BY <1>1, <2>1 DEF StoreInv, QueueInv
  <2>2. CASE queue' = Append(queue, Message(curr.addr, stored)) /\ stored > 0
    <3>1. curr.addr \in Slots /\ Holds(flash[curr.addr], stored) /\ stored \in 1 .. stored
      BY <1>1, <2>2, BodyFacts DEF StoreInv, CurrInv, Record, NewestInv, TypeInv, TypeOK
    <3> QED BY <1>1, <2>2, <3>1, AppendKeeps DEF Holds
  <2>3. put = "send" => stored > 0
    BY BodyFacts DEF StoreInv, CurrInv, TypeInv, TypeOK
  <2> QED BY <2>1, <2>2, <2>3 DEF PutCount, PutSend
<1>3. put = "idle" => put' = "idle"
  BY DEF PutCount, PutSend
<1> QED BY <1>1, <1>2, <1>3, SameFlash

LEMMA GetKeeps ==
  ASSUME StoreInv, Get, TypeInv'
  PROVE  StoreInv'
<1>1. /\ UNCHANGED <<flash, curr, stored, put, received>>
      /\ (FlashFree /\ FlashFree') \/ (~FlashFree /\ ~FlashFree' /\ put' = put)
  BY DEF Get, GetWait, GetEnd, ring, history, FlashFree
<1>2. QueueInv'
  <2>1. CASE queue' = queue
    BY <1>1, <2>1 DEF StoreInv, QueueInv
  <2>2. ASSUME FlashFree, NEW a \in Candidates,
               queue' = Append(queue, Message(a, flash[a].body))
        PROVE  QueueInv'
    <3>1. a \in Slots /\ flash[a].mn
      BY DEF Candidates, Hits, UnsentSlots, Unsent
    <3>2. Place(a) \in 1 .. stored /\ Holds(flash[a], Place(a))
      BY <2>2, <3>1, SlotIsWhole DEF Blank
    <3> QED BY <1>1, <2>2, <3>1, <3>2, AppendKeeps DEF Holds
  <2> QED BY <2>1, <2>2 DEF Get, GetWait, GetEnd, Search
<1> QED BY <1>1, <1>2, SameFlash

(* The addresses and the bodies of the queue are kept by a transmission.   *)
LEMMA QueueKept ==
  ASSUME StoreInv, queue # <<>>, UNCHANGED <<flash, stored>>,
         \/ queue' = Tail(queue)
         \/ \E e \in Waiting : /\ e.addr = First.addr /\ e.body = First.body
                               /\ queue' = [queue EXCEPT ![1] = e]
  PROVE  QueueInv'
<1>1. queue \in Seq(Waiting)
  BY DEF StoreInv, TypeInv
<1>2. CASE queue' = Tail(queue)
  <2>1. \A i \in DOMAIN queue' : i + 1 \in DOMAIN queue /\ queue'[i] = queue[i + 1]
    BY <1>1, <1>2
  <2> QED BY <2>1 DEF StoreInv, QueueInv
<1>3. ASSUME NEW e \in Waiting, e.addr = First.addr, e.body = First.body,
             queue' = [queue EXCEPT ![1] = e]
      PROVE  QueueInv'
  <2>1. \A i \in DOMAIN queue' : /\ i \in DOMAIN queue
                                 /\ queue'[i].addr = queue[i].addr
                                 /\ queue'[i].body = queue[i].body
    BY <1>1, <1>3 DEF First
  <2> QED BY <2>1 DEF StoreInv, QueueInv
<1> QED BY <1>2, <1>3

LEMMA TransmissionKeeps ==
  ASSUME StoreInv, Transmission, TypeInv'
  PROVE  StoreInv'
<1>1. /\ UNCHANGED <<flash, curr, stored, put>> /\ received \subseteq received'
      /\ (FlashFree /\ FlashFree') \/ (~FlashFree /\ ~FlashFree' /\ put' = put)
  BY DEF Transmission, Send, Timeout, RemoveFirst, ring, history, threads, FlashFree
<1>2. queue # <<>> /\ queue \in Seq(Waiting)
  BY DEF Transmission, Send, Timeout, RemoveFirst, Transmits, StoreInv, TypeInv
<1>3. First \in Waiting /\ queue[1] = First
  BY <1>2, QueueFacts
<1> DEFINE sent == [First EXCEPT !.state = "WAIT_ACK", !.tries = @ + 1]
           again == [First EXCEPT !.state = "IDLE"]
<1>4. CASE Send
  <2>1. queue' = [queue EXCEPT ![1] = sent]
    BY <1>2, <1>3, <1>4 DEF Send
  <2>2. First.tries + 1 \in 0 .. MaxRetry
    BY <1>2, <1>4, FirstType, TriesFacts DEF Send
  <2>3. sent \in Waiting /\ sent.addr = First.addr /\ sent.body = First.body
    BY <1>3, <2>2 DEF Waiting, Entry
  <2> QED BY <1>1, <1>2, <2>1, <2>3, QueueKept, SameFlash
<1>5. CASE Timeout /\ queue' # Tail(queue)
  <2>1. ~(First.tries >= MaxRetry) /\ queue' = [queue EXCEPT ![1] = again]
    BY <1>2, <1>3, <1>5 DEF Timeout
  <2>2. First.tries < MaxRetry
    BY <1>2, <2>1, FirstType, TriesFacts
  <2>3. again \in Waiting /\ again.addr = First.addr /\ again.body = First.body
    BY <1>3, <2>2 DEF Waiting, Entry
  <2> QED BY <1>1, <1>2, <2>1, <2>3, QueueKept, SameFlash
<1>6. CASE queue' = Tail(queue)
  BY <1>1, <1>2, <1>6, QueueKept, SameFlash
<1> QED BY <1>4, <1>5, <1>6 DEF Transmission, RemoveFirst

(* An answer marks the report it is about, which the platform has.         *)
LEMMA ResponseKeeps ==
  ASSUME StoreInv, NEW ok \in BOOLEAN, Response(ok), TypeInv'
  PROVE  StoreInv'
<1> DEFINE answered == [First EXCEPT !.state = "ACK_OK"]
<1>1. /\ UNCHANGED <<curr, stored, put, received>>
      /\ FlashFree /\ FlashFree'
  BY DEF Response, history, threads, FlashFree
<1>2. queue # <<>> /\ queue \in Seq(Waiting)
  BY DEF Response, Answered, StoreInv, TypeInv
<1>3. First \in Waiting /\ queue[1] = First /\ 1 \in DOMAIN queue
  BY <1>2, QueueFacts
<1>4. queue' = [queue EXCEPT ![1] = answered]
  BY <1>3 DEF Response
<1>5. /\ First.addr \in Slots /\ First.body \in 1 .. stored
      /\ flash[First.addr].mn /\ flash[First.addr].body = First.body
  BY <1>3 DEF StoreInv, QueueInv
<1>6. First.body \in received
  <2>1. First.body \in received \cup {0, Mixed}
    BY DEF Response, Answered
  <2>2. \A n \in 0 .. MaxPuts : \A b \in 1 .. n : b # 0 /\ b # Mixed
    BY StoreAssumption DEF Mixed
  <2>3. stored \in 0 .. MaxPuts
    BY DEF StoreInv, TypeInv, TypeOK
  <2> QED BY <1>5, <2>1, <2>2, <2>3
<1>7. flash \in [0 .. End -> Slot] /\ Slots \subseteq 0 .. End
  BY RingFacts DEF StoreInv, TypeInv, TypeOK
<1>8. \A a \in Slots : \/ flash'[a] = flash[a]
                       \/ a = First.addr /\ flash'[a] = AsReported(flash[a])
  BY <1>7 DEF Response
<1>9. \A slot \in Slot : AsReported(slot).mn = slot.mn /\ AsReported(slot).body = slot.body
  BY DEF AsReported, Slot
<1>10. \A a \in Slots : flash'[a].mn = flash[a].mn /\ flash'[a].body = flash[a].body
  BY <1>7, <1>8, <1>9
<1>11. Unmoved
  BY <1>1, <1>5, <1>8 DEF Unmoved
<1>12. QueueInv'
  <2>1. \A i \in DOMAIN queue' : /\ i \in DOMAIN queue
                                 /\ queue'[i].addr = queue[i].addr
                                 /\ queue'[i].body = queue[i].body
    BY <1>2, <1>3, <1>4 DEF Waiting, Entry
  <2> QED BY <1>1, <1>10, <2>1 DEF StoreInv, QueueInv
<1>13. MarkedInv'
  BY <1>1, <1>5, <1>6, <1>8, <1>10 DEF StoreInv, MarkedInv
<1> QED BY <1>11, <1>12, <1>13, SameRing DEF StoreInv

-----------------------------------------------------------------------------
(* jt808_report_init finds what the gps thread stored last.                *)

LEMMA InitFindsNewest ==
  ASSUME StoreInv, FlashFree, NEW previous, ReportInit(previous)
  PROVE  curr' = curr
<1>1. \A a \in Slots : flash[a].mn => Place(a) \in 1 .. stored /\ Holds(flash[a], Place(a))
  BY SlotIsWhole DEF Blank
<1>2. flash \in [0 .. End -> Slot] /\ stored \in Nat
  BY BodyFacts DEF StoreInv, TypeInv, TypeOK
<1>3. CASE stored = 0
  <2>1. Heads = {}
    BY <1>1, <1>3 DEF Heads
  <2> QED BY <1>3, <2>1 DEF ReportInit, StoreInv, CurrInv
<1>4. CASE stored > 0
  <2>1. curr \in Record /\ curr.addr \in Slots /\ Holds(flash[curr.addr], stored)
    BY <1>4 DEF StoreInv, CurrInv, NewestInv, Record
  <2>2. curr.addr \in Heads
    BY <2>1 DEF Heads, Holds
  <2>3. Newest \in Slots /\ flash[Newest].mn
    BY <1>2, <2>2, NewestExists DEF Heads
  <2>4. \/ stored < flash[Newest].id
        \/ stored = flash[Newest].id
    BY <1>2, <2>1, <2>2, NewestExists DEF Holds
  <2>5. flash[Newest].id = Place(Newest) /\ Place(Newest) \in 1 .. stored
    BY <1>1, <2>3 DEF Holds
  <2>6. Newest = curr.addr
    <3>1. Place(Newest) = stored
      BY <1>2, <2>4, <2>5
    <3>2. stored \notin 1 .. stored - 1
      BY <1>2
    <3>3. flash[Newest] # Blank
      BY <2>3 DEF Blank
    <3> QED BY <2>3, <3>1, <3>2, <3>3 DEF StoreInv, RingInv
  <2>7. curr' = [addr |-> curr.addr, id |-> stored, size |-> 1]
    BY <2>1, <2>2, <2>6 DEF ReportInit, Report, Holds
  <2>8. curr = [addr |-> curr.addr, id |-> stored, size |-> 1]
    BY <1>4, <2>1 DEF StoreInv, CurrInv, Record
  <2> QED BY <2>7, <2>8
<1> QED BY <1>2, <1>3, <1>4

LEMMA SessionKeeps ==
  ASSUME StoreInv, Session, TypeInv'
  PROVE  StoreInv'
<1>1. curr' = curr
  BY InitFindsNewest DEF Session, Authenticate, Reinit, Authenticated, ring
<1>2. /\ UNCHANGED <<flash, curr, stored, put, queue, received>>
      /\ (FlashFree /\ FlashFree') \/ (~FlashFree /\ ~FlashFree' /\ put' = put)
  BY <1>1 DEF Session, Authenticate, Reinit, Authenticated, ring, history, threads, FlashFree
<1>3. QueueInv'
  BY <1>2 DEF StoreInv, QueueInv
<1> QED BY <1>2, <1>3, SameFlash

LEMMA EventKeeps ==
  ASSUME Regular, StoreInv, Event, TypeInv'
  PROVE  StoreInv'
<1>1. CASE Offline \/ TrackingEnds
  <2>1. /\ UNCHANGED <<flash, curr, stored, put, queue, received>>
        /\ (FlashFree /\ FlashFree') \/ (~FlashFree /\ ~FlashFree' /\ put' = put)
    BY <1>1 DEF Offline, TrackingEnds, ring, history, threads, FlashFree
  <2>2. QueueInv'
    BY <2>1 DEF StoreInv, QueueInv
  <2> QED BY <2>1, <2>2, SameFlash
<1>2. CASE Restart
  <2>1. FlashFree /\ put' = "idle" /\ FlashFree'
    BY <1>2 DEF Restart, Happens, Regular, FlashFree
  <2>2. UNCHANGED <<flash, curr, stored, received>>
    BY <1>2, <2>1, InitFindsNewest DEF Restart, history
  <2>3. QueueInv'
    BY <1>2 DEF Restart, QueueInv
  <2> QED BY <2>1, <2>2, <2>3, SameFlash
<1> QED BY <1>1, <1>2 DEF Event

LEMMA InitStore ==
  ASSUME Init
  PROVE  StoreInv
<1>1. TypeInv
  BY InitType
<1>2. curr = NoReport /\ stored = 0 /\ put = "idle" /\ queue = <<>>
  BY DEF Init
<1>3. \A a \in Slots : flash[a] = Blank
  BY RingFacts DEF Init
<1>4. CurrInv
  BY <1>2 DEF CurrInv, NoReport
<1>5. RingInv
  BY <1>3 DEF RingInv
<1>6. NewestInv /\ BehindInv
  BY <1>2 DEF NewestInv, BehindInv
<1>7. QueueInv
  BY <1>2 DEF QueueInv
<1>8. MarkedInv
  BY <1>3 DEF MarkedInv, Blank
<1> QED BY <1>1, <1>4, <1>5, <1>6, <1>7, <1>8 DEF StoreInv

LEMMA StepStore ==
  ASSUME Regular, StoreInv, [Next]_vars
  PROVE  StoreInv'
<1>1. TypeInv'
  BY StepType DEF StoreInv
<1>2. CASE Put
  BY <1>1, <1>2, PutBeginKeeps, PutWriteKeeps, PutEndKeeps DEF Put
<1>3. CASE Get
  BY <1>1, <1>3, GetKeeps
<1>4. CASE Transmission
  BY <1>1, <1>4, TransmissionKeeps
<1>5. CASE Session
  BY <1>1, <1>5, SessionKeeps
<1>6. CASE Event
  BY <1>1, <1>6, EventKeeps
<1>7. CASE \E ok \in BOOLEAN : Response(ok)
  BY <1>1, <1>7, ResponseKeeps
<1>8. CASE UNCHANGED vars
  <2>1. /\ UNCHANGED <<flash, curr, stored, put, queue, received>>
        /\ (FlashFree /\ FlashFree') \/ (~FlashFree /\ ~FlashFree' /\ put' = put)
    BY <1>8 DEF vars, ring, history, threads, FlashFree
  <2>2. QueueInv'
    BY <2>1 DEF StoreInv, QueueInv
  <2> QED BY <1>1, <2>1, <2>2, SameFlash
<1> QED BY <1>2, <1>3, <1>4, <1>5, <1>6, <1>7, <1>8 DEF Next

THEOREM StoreInvariant ==
  ASSUME Regular
  PROVE  Spec => []StoreInv
<1>1. Init => StoreInv
  BY InitStore
<1>2. StoreInv /\ [Next]_vars => StoreInv'
  BY StepStore
<1> QED BY <1>1, <1>2, PTL DEF Spec

-----------------------------------------------------------------------------
(* What follows for the reader of the ring.                                *)

(* A report marked in the ring has reached the platform.                   *)
THEOREM OnlyReceivedIsMarked ==
  ASSUME Regular
  PROVE  Spec => []ReportedIsReceived
<1>1. StoreInv => ReportedIsReceived
  BY DEF StoreInv, MarkedInv, ReportedIsReceived
<1> QED BY <1>1, StoreInvariant, PTL

(* Every header of the ring belongs to a report that is stored completely, *)
(* but for the one jt808_report_put is at.                                 *)
THEOREM HeadersAreOfReports ==
  ASSUME Regular
  PROVE  Spec => []ValidIsComplete
<1>1. ASSUME StoreInv PROVE ValidIsComplete
  <2>1. stored \in 0 .. MaxPuts
    BY <1>1 DEF StoreInv, TypeInv, TypeOK
  <2>2. \A n \in 0 .. MaxPuts : 1 .. n \subseteq 1 .. MaxPuts
    BY StoreAssumption
  <2>3. ASSUME NEW a \in Slots \ BeingStored, flash[a].mn
        PROVE  /\ flash[a].body \in 1 .. MaxPuts
               /\ \A k \in 0 .. flash[a].size - 1 :
                    a + k < End /\ flash[a + k].body = flash[a].body
    <3>1. a # curr.addr \/ FlashFree
      BY DEF BeingStored, FlashFree
    <3>2. Place(a) \in 1 .. stored /\ Holds(flash[a], Place(a))
      BY <1>1, <2>3, <3>1, SlotIsWhole DEF Blank
    <3>3. flash[a].body \in 1 .. MaxPuts /\ flash[a].size = 1
      BY <2>1, <2>2, <3>2 DEF Holds
    <3>4. \A k \in 0 .. 1 - 1 : a + k = a /\ a < End
      BY RingFacts
    <3> QED BY <3>3, <3>4
  <2> QED BY <2>3 DEF ValidIsComplete
<1> QED BY <1>1, StoreInvariant, PTL

(* report_curr is the last report put, whatever resets and connections     *)
(* came between.                                                           *)
THEOREM CurrentIsNewest ==
  ASSUME Regular
  PROVE  Spec => []NewestIsCurrent
<1>1. ASSUME StoreInv PROVE NewestIsCurrent
  <2> SUFFICES ASSUME put = "idle", NEW a \in Heads
               PROVE  curr.addr # End /\ flash[a].body <= flash[curr.addr].body
    BY DEF NewestIsCurrent
  <2>1. FlashFree /\ a \in Slots /\ flash[a].mn
    BY DEF FlashFree, Heads
  <2>2. Place(a) \in 1 .. stored /\ flash[a].body = Place(a)
    BY <1>1, <2>1, SlotIsWhole DEF Blank, Holds
  <2>3. stored \in Nat
    BY <1>1, BodyFacts DEF StoreInv, TypeInv, TypeOK
  <2>4. stored > 0
    BY <2>2, <2>3
  <2>5. curr.addr \in Slots /\ flash[curr.addr].body = stored
    BY <1>1, <2>1, <2>4 DEF StoreInv, CurrInv, NewestInv, Record, Holds
  <2>6. curr.addr # End
    BY <2>5, RingFacts
  <2>7. Place(a) <= stored
    BY <2>2, <2>3
  <2> QED BY <2>2, <2>5, <2>6, <2>7
<1> QED BY <1>1, StoreInvariant, PTL

-----------------------------------------------------------------------------
(* The ring implements ReportDelivery.                                     *)

(* The slots whose report is stored completely and not reported.           *)
Full == {a \in UnsentSlots : a # curr.addr \/ FlashFree}
Seen == IF FlashFree THEN 1 .. stored ELSE 1 .. stored - 1

LEMMA FullFacts ==
  ASSUME StoreInv, NEW a \in Full
  PROVE  /\ a \in Slots /\ flash[a].body = Place(a) /\ flash[a].mn /\ flash[a] # Blank
         /\ Place(a) \in 1 .. stored /\ Place(a) \notin {0, Mixed}
<1>1. a \in Slots /\ flash[a].mn /\ flash[a] # Blank
  BY DEF Full, UnsentSlots, Unsent, Blank
<1>2. Place(a) \in 1 .. stored /\ flash[a].body = Place(a)
  BY <1>1, SlotIsWhole DEF Full, Holds
<1>3. \A n \in 0 .. MaxPuts : \A b \in 1 .. n : b # 0 /\ b # Mixed
  BY StoreAssumption DEF Mixed
<1>4. stored \in 0 .. MaxPuts
  BY DEF StoreInv, TypeInv, TypeOK
<1> QED BY <1>1, <1>2, <1>3, <1>4

(* The reports waiting in the ring are those of the full slots.            *)
LEMMA StoredIs ==
  ASSUME StoreInv
  PROVE  Stored = {Place(a) : a \in Full}
<1>1. ASSUME NEW x \in Stored PROVE x \in {Place(a) : a \in Full}
  <2>1. PICK a \in UnsentSlots : x = flash[a].body /\ x # 0
    BY DEF Stored
  <2>2. a # curr.addr \/ FlashFree
    BY <2>1, BegunFacts
  <2>3. a \in Full
    BY <2>2 DEF Full
  <2> QED BY <2>1, <2>3, FullFacts
<1>2. ASSUME NEW a \in Full PROVE Place(a) \in Stored
  <2>1. a \in UnsentSlots
    BY DEF Full
  <2> QED BY <2>1, FullFacts DEF Stored
<1> QED BY <1>1, <1>2

LEMMA PlaceIsUnique ==
  ASSUME StoreInv, NEW a \in Full, NEW b \in Full, Place(a) = Place(b)
  PROVE  a = b
<1>1. a \in Slots /\ b \in Slots /\ Place(a) \in 1 .. stored /\ stored \in Nat
  BY FullFacts, BodyFacts DEF StoreInv, TypeInv, TypeOK
<1>2. stored > 0
  BY <1>1
<1>3. PICK c \in Slots : c = curr.addr
  BY <1>2 DEF StoreInv, CurrInv, Record
<1>4. PICK k \in Nat : k = stored
  BY <1>1
<1>5. Place(a) = IF a <= c THEN k - (c - a) ELSE k - (c + End - a)
  BY <1>3, <1>4 DEF Place
<1>6. Place(b) = IF b <= c THEN k - (c - b) ELSE k - (c + End - b)
  BY <1>3, <1>4 DEF Place
<1>7. (IF a <= c THEN k - (c - a) ELSE k - (c + End - a))
        = IF b <= c THEN k - (c - b) ELSE k - (c + End - b)
  BY <1>5, <1>6
<1> QED BY <1>1, <1>7, RingFacts

-----------------------------------------------------------------------------
(* A slot at the address the gps thread takes is empty, and what it erases *)
(* there are the oldest reports.                                           *)
LEMMA ErasedAreOldest ==
  ASSUME Regular, StoreInv, PutBegin,
         NEW a \in Full, NEW b \in Full, flash'[a] = flash[a], flash'[b] # flash[b]
  PROVE  Place(b) < Place(a)
<1>1. a \in Slots /\ b \in Slots /\ Place(b) \in 1 .. stored /\ stored \in Nat
  BY FullFacts, BodyFacts DEF StoreInv, TypeInv, TypeOK
<1>2. stored > 0
  BY <1>1
<1>3. PICK c \in Slots : c = curr.addr
  BY <1>2 DEF StoreInv, CurrInv, Record
<1>4. PICK n \in Slots : n = NextSlot
  BY NextSlotIs
<1>5. PICK k \in Nat : k = stored
  BY <1>1
<1>6. \/ c + 1 = End /\ n = 0
      \/ c + 1 < End /\ n = c + 1
  BY <1>2, <1>3, <1>4, NextSlotIs
<1>7. flash' = PutErase(n)
  BY <1>4 DEF PutBegin
<1>8. n % SectorSlots = 0 /\ flash' = Erased(n)
  BY <1>7 DEF PutErase
<1>9. SectorOf(b) = SectorOf(n) /\ SectorOf(a) # SectorOf(n)
  <2>1. \A d \in Slots : flash'[d] = IF SectorOf(d) = SectorOf(n) THEN Blank ELSE flash[d]
    BY <1>8, RingFacts DEF Erased
  <2> QED BY <1>1, <2>1, FullFacts
<1>10. n <= b
  BY <1>1, <1>8, <1>9, SectorBegin
<1>11. a < n \/ a > b
  <2>1. SUFFICES ASSUME n <= a, a <= b PROVE FALSE
    BY <1>1, RingFacts
  <2>2. SectorOf(n) <= SectorOf(a) /\ SectorOf(a) <= SectorOf(b)
        /\ SectorOf(a) \in Nat /\ SectorOf(b) \in Nat
    BY <1>1, <2>1, SectorOrder
  <2> QED BY <1>9, <2>2
<1>12. Place(a) = IF a <= c THEN k - (c - a) ELSE k - (c + End - a)
  BY <1>3, <1>5 DEF Place
<1>13. Place(b) = IF b <= c THEN k - (c - b) ELSE k - (c + End - b)
  BY <1>3, <1>5 DEF Place
<1>14. (IF b <= c THEN k - (c - b) ELSE k - (c + End - b))
        < IF a <= c THEN k - (c - a) ELSE k - (c + End - a)
  BY <1>1, <1>6, <1>10, <1>11, RingFacts
<1> QED BY <1>12, <1>13, <1>14

LEMMA PutBeginOverwrites ==
  ASSUME Regular, StoreInv, PutBegin
  PROVE  Delivery!Overwrite(Stored')
<1>1. /\ FlashFree /\ ~FlashFree' /\ stored' = stored + 1 /\ received' = received
      /\ stored \in Nat /\ NextSlot \in Slots
  BY BodyFacts, NextSlotIs DEF PutBegin, FlashFree, StoreInv, TypeInv, TypeOK
<1>2. \A a \in Slots : flash'[a] \in {Blank, flash[a]}
  BY ErasedRing DEF PutBegin
<1>3. UnsentSlots' \subseteq UnsentSlots /\ \A a \in UnsentSlots' : flash'[a] = flash[a]
  BY <1>2 DEF UnsentSlots, Unsent, Blank
<1>4. \A a \in UnsentSlots : a \in Full
  BY <1>1 DEF Full
<1>5. Stored' \subseteq Stored
  BY <1>3 DEF Stored
<1>6. \A w \in Stored \ Stored', x \in Stored' : w < x
  <2> SUFFICES ASSUME NEW w \in Stored \ Stored', NEW x \in Stored' PROVE w < x
    OBVIOUS
  <2>1. PICK b \in Full : w = Place(b)
    BY StoredIs
  <2>2. PICK a \in UnsentSlots' : x = flash'[a].body
    BY DEF Stored
  <2>3. a \in Full /\ flash'[a] = flash[a] /\ x = Place(a)
    BY <1>3, <1>4, <2>2, FullFacts
  <2>4. flash'[b] # flash[b]
    <3>1. SUFFICES ASSUME flash'[b] = flash[b] PROVE w \in Stored'
      OBVIOUS
    <3>2. b \in UnsentSlots'
      BY <3>1 DEF Full, UnsentSlots, Unsent
    <3>3. w = flash'[b].body /\ w \notin {0, Mixed}
      BY <2>1, <3>1, FullFacts
    <3> QED BY <3>2, <3>3 DEF Stored
  <2> QED BY <2>1, <2>3, <2>4, ErasedAreOldest
<1>7. Seen' = Seen
  BY <1>1 DEF Seen
<1> QED BY <1>1, <1>5, <1>6, <1>7 DEF Delivery!Overwrite, Seen

-----------------------------------------------------------------------------
(* The other steps.                                                        *)

(* Before its payload is written, a report does not wait in the ring.      *)
LEMMA PutHeadIsUnseen ==
  ASSUME Regular, StoreInv, PutMagic \/ PutHead, StoreInv'
  PROVE  UNCHANGED <<Stored, Seen, received>>
<1>1. /\ ~FlashFree /\ ~FlashFree' /\ UNCHANGED <<curr, stored, received>>
      /\ curr.addr \in Slots /\ flash \in [0 .. End -> Slot]
  BY BegunFacts
  DEF PutMagic, PutHead, FlashFree, history, StoreInv, TypeInv, TypeOK
<1>2. \A a \in Slots \ {curr.addr} : flash'[a] = flash[a]
  BY <1>1, RingFacts DEF PutMagic, PutHead
<1>3. flash[curr.addr].body = 0
  BY <1>1, BegunFacts
<1>4. flash'[curr.addr].body = 0
  <2>1. stored > 0 /\ stored' = stored
    BY <1>1, BegunFacts
  <2>2. flash'[curr.addr] = Begun'
    BY <1>1, <2>1 DEF StoreInv, NewestInv
  <2>3. put' \in {"head", "body"}
    BY DEF PutMagic, PutHead
  <2> QED BY <2>2, <2>3 DEF Begun, Blank
<1>5. Stored' = Stored
  BY <1>2, <1>3, <1>4 DEF Stored, UnsentSlots, Unsent
<1> QED BY <1>1, <1>5 DEF Seen

LEMMA PutBodyStores ==
  ASSUME Regular, StoreInv, PutBody, StoreInv'
  PROVE  stored \in Seen' /\ Delivery!Store(stored)
<1>1. /\ ~FlashFree /\ FlashFree' /\ UNCHANGED <<curr, stored, received>>
      /\ curr.addr \in Slots /\ flash \in [0 .. End -> Slot]
      /\ stored > 0 /\ stored \in 0 .. MaxPuts /\ stored \in Nat
  BY BegunFacts, BodyFacts
  DEF PutBody, FlashFree, history, StoreInv, TypeInv, TypeOK
<1>2. \A a \in Slots \ {curr.addr} : flash'[a] = flash[a]
  <2>1. \A a \in Slots, c \in Slots : a \in c .. c + 1 - 1 <=> a = c
    BY RingFacts
  <2>2. curr.size = 1
    BY <1>1, BegunFacts
  <2> QED BY <1>1, <2>1, <2>2, RingFacts DEF PutBody
<1>3. flash[curr.addr].body = 0
  BY <1>1, BegunFacts
<1>4. Holds(flash'[curr.addr], stored)
  BY <1>1 DEF StoreInv, NewestInv
<1>5. flash'[curr.addr].unsent
  <2>1. flash[curr.addr].unsent
    <3>1. put = "body"
      BY DEF PutBody
    <3> QED BY <1>1, <3>1, BegunFacts DEF Begun, Blank
  <2>2. \A slot \in Slot : WithBody(slot, stored).unsent = slot.unsent
    BY DEF WithBody, Slot
  <2>3. \A a \in Slots : flash'[a] = flash[a] \/ flash'[a] = WithBody(flash[a], stored)
    BY <1>1, RingFacts DEF PutBody
  <2> QED BY <1>1, <2>1, <2>2, <2>3, RingFacts
<1>6. stored \notin {0, Mixed}
  BY <1>1, BodyFacts, StoreAssumption DEF Mixed
<1>7. curr.addr \in UnsentSlots' /\ flash'[curr.addr].body = stored
  BY <1>1, <1>4, <1>5 DEF UnsentSlots, Unsent, Holds
<1>8. Stored' = Stored \cup {stored}
  <2>1. \A a \in Slots \ {curr.addr} : a \in UnsentSlots' <=> a \in UnsentSlots
    BY <1>2 DEF UnsentSlots, Unsent
  <2>2. UnsentSlots \subseteq Slots /\ UnsentSlots' \subseteq Slots
    BY DEF UnsentSlots, Unsent
  <2> QED BY <1>2, <1>3, <1>6, <1>7, <2>1, <2>2 DEF Stored
<1>9. Seen' = Seen \cup {stored}
  BY <1>1 DEF Seen
<1>10. stored \in Nat \ {0} /\ \A s \in Seen : s < stored
  BY <1>1 DEF Seen
<1>11. stored \in Seen'
  BY <1>9
<1> QED
  BY <1>1, <1>8, <1>9, <1>10, <1>11 DEF Delivery!Store, Delivery!New, Seen

LEMMA SameSlots ==
  ASSUME UNCHANGED <<flash, stored>>,
         (FlashFree /\ FlashFree') \/ (~FlashFree /\ ~FlashFree')
  PROVE  UNCHANGED <<Stored, Seen>>
BY DEF Stored, UnsentSlots, Unsent, Seen

LEMMA SendDelivers ==
  ASSUME StoreInv, Send
  PROVE  \/ UNCHANGED <<Stored, Seen, received>>
         \/ First.body \in Seen /\ Delivery!Deliver(First.body)
<1>1. UNCHANGED <<Stored, Seen>>
  BY SameSlots DEF Send, ring, threads, FlashFree
<1>2. queue # <<>> /\ queue \in Seq(Waiting)
  BY DEF Send, Transmits, StoreInv, TypeInv
<1>3. 1 \in DOMAIN queue /\ First = queue[1]
  BY <1>2, QueueFacts
<1>4. /\ First.addr \in Slots /\ First.body \in 1 .. stored
      /\ flash[First.addr].mn /\ flash[First.addr].body = First.body
      /\ ~FlashFree => First.addr # curr.addr
  BY <1>3, BegunFacts DEF StoreInv, QueueInv
<1>5. First.body \in Seen
  <2>1. CASE FlashFree
    BY <1>4, <2>1 DEF Seen
  <2>2. CASE ~FlashFree
    <3>1. Holds(flash[First.addr], Place(First.addr)) /\ Place(First.addr) \in 1 .. stored - 1
      BY <1>4, <2>2 DEF StoreInv, RingInv, Blank
    <3> QED BY <1>4, <2>2, <3>1 DEF Seen, Holds
  <2> QED BY <2>1, <2>2
<1>6. First.body \notin {0, Mixed}
  <2>1. \A n \in 0 .. MaxPuts : \A b \in 1 .. n : b # 0 /\ b # Mixed
    BY StoreAssumption DEF Mixed
  <2> QED BY <1>4, <2>1 DEF StoreInv, TypeInv, TypeOK
<1>7. received' = received \/ received' = received \cup {First.body}
  BY <1>6 DEF Send
<1> QED BY <1>1, <1>5, <1>7 DEF Delivery!Deliver, Seen

LEMMA ResponseConfirms ==
  ASSUME StoreInv, NEW ok \in BOOLEAN, Response(ok), StoreInv'
  PROVE  \/ UNCHANGED <<Stored, Seen, received>>
         \/ First.body \in Seen /\ Delivery!Confirm(First.body)
<1>1. /\ FlashFree /\ FlashFree' /\ UNCHANGED <<curr, stored, received>>
      /\ flash \in [0 .. End -> Slot]
  BY DEF Response, threads, history, FlashFree, StoreInv, TypeInv, TypeOK
<1>2. CASE flash' = flash
  BY <1>1, <1>2, SameSlots
<1>3. CASE /\ flash[First.addr].mn /\ flash[First.addr].unsent
           /\ flash' = [flash EXCEPT ![First.addr] = AsReported(@)]
  <2>1. queue # <<>> /\ queue \in Seq(Waiting)
    BY DEF Response, Answered, StoreInv, TypeInv
  <2>2. 1 \in DOMAIN queue /\ First = queue[1]
    BY <2>1, QueueFacts
  <2>3. /\ First.addr \in Slots /\ First.body \in 1 .. stored
        /\ flash[First.addr].mn /\ flash[First.addr].body = First.body
    BY <2>2 DEF StoreInv, QueueInv
  <2>4. First.addr \in Full
    BY <1>1, <1>3, <2>3 DEF Full, UnsentSlots, Unsent
  <2>5. First.body = Place(First.addr) /\ Place(First.addr) \notin {0, Mixed}
    BY <2>3, <2>4, FullFacts
  <2>6. First.body \in received
    BY <2>5 DEF Response, Answered
  <2>7. UnsentSlots' = UnsentSlots \ {First.addr}
        /\ \A a \in UnsentSlots' : flash'[a] = flash[a]
    BY <1>1, <1>3, <2>3, RingFacts DEF UnsentSlots, Unsent, AsReported, Slot
  <2>8. \A a \in UnsentSlots : a \in Full
    BY <1>1 DEF Full
  <2>9. \A a \in UnsentSlots : flash[a].body = First.body => a = First.addr
    BY <2>4, <2>5, <2>8, FullFacts, PlaceIsUnique
  <2>10. Stored' = Stored \ {First.body}
    BY <2>7, <2>9, <2>3 DEF Stored
  <2>11. First.body \in Stored
    BY <2>4, <2>5, StoredIs
  <2>12. UNCHANGED <<Seen, received>> /\ First.body \in Seen
    BY <1>1, <2>3 DEF Seen
  <2> QED BY <2>6, <2>10, <2>11, <2>12 DEF Delivery!Confirm, Seen
<1> QED BY <1>2, <1>3 DEF Response, counters, Unsent

LEMMA OthersStutter ==
  ASSUME Regular, StoreInv,
         \/ PutCount \/ PutSend \/ Get \/ Timeout \/ RemoveFirst \/ Session \/ Event
         \/ UNCHANGED vars
  PROVE  UNCHANGED <<Stored, Seen, received>>
<1>1. UNCHANGED <<flash, stored, received>>
  BY DEF PutCount, PutSend, Get, GetWait, GetEnd, Timeout, RemoveFirst, Session,
         Authenticate, Reinit, Authenticated, Event, Offline, TrackingEnds, Restart,
         ring, history, vars
<1>2. CASE put' = put
  BY <1>1, <1>2, SameSlots DEF FlashFree
<1>3. CASE PutCount \/ PutSend
  BY <1>1, <1>3, SameSlots DEF PutCount, PutSend, FlashFree
<1>4. CASE Restart
  <2>1. FlashFree /\ FlashFree'
    BY <1>4 DEF Restart, Happens, Regular, FlashFree
  <2> QED BY <1>1, <2>1, SameSlots
<1> QED
  BY <1>2, <1>3, <1>4
  DEF Get, GetWait, GetEnd, Timeout, RemoveFirst, Session, Authenticate, Reinit,
      Authenticated, Event, Offline, TrackingEnds, threads, vars

(* Every behaviour of the ring is one of ReportDelivery: reports are given *)
(* up only when the ring is full, and then the oldest ones; a report the   *)
(* platform did not confirm stays.                                         *)
THEOREM RingDelivers ==
  ASSUME Regular
  PROVE  Spec => Delivers
<1>1. Init => Delivery!Init
  <2> SUFFICES ASSUME Init PROVE Delivery!Init
    OBVIOUS
  <2>1. \A a \in Slots : ~flash[a].mn
    BY RingFacts DEF Init, Blank
  <2>2. Stored = {}
    BY <2>1 DEF Stored, UnsentSlots, Unsent
  <2>3. Seen = {} /\ received = {}
    BY DEF Init, FlashFree, Seen
  <2> QED BY <2>2, <2>3 DEF Delivery!Init, Seen
<1>2. StoreInv /\ StoreInv' /\ [Next]_vars => [Delivery!Next]_(Delivery!vars)
  <2> SUFFICES ASSUME StoreInv, StoreInv', [Next]_vars
               PROVE  Delivery!Next \/ UNCHANGED Delivery!vars
    OBVIOUS
  <2>1. ASSUME UNCHANGED <<Stored, Seen, received>> PROVE UNCHANGED Delivery!vars
    BY <2>1 DEF Delivery!vars, Seen
  <2>2. CASE PutBegin
    <3>1. Delivery!Overwrite(Stored') /\ Stored' \in SUBSET Stored
      BY <2>2, PutBeginOverwrites DEF Delivery!Overwrite
    <3> QED BY <3>1 DEF Delivery!Next
  <2>3. CASE PutMagic \/ PutHead
    BY <2>1, <2>3, PutHeadIsUnseen
  <2>4. CASE PutBody
    BY <2>4, PutBodyStores DEF Delivery!Next, Seen
  <2>5. CASE Send
    BY <2>1, <2>5, SendDelivers DEF Delivery!Next, Seen
  <2>6. CASE \E ok \in BOOLEAN : Response(ok)
    BY <2>1, <2>6, ResponseConfirms DEF Delivery!Next, Seen
  <2>7. CASE \/ PutCount \/ PutSend \/ Get \/ Timeout \/ RemoveFirst \/ Session \/ Event
             \/ UNCHANGED vars
    BY <2>1, <2>7, OthersStutter
  <2> QED
    BY <2>2, <2>3, <2>4, <2>5, <2>6, <2>7 DEF Next, Put, Transmission
<1> QED BY <1>1, <1>2, StoreInvariant, PTL DEF Spec, Delivers, Delivery!Spec

-----------------------------------------------------------------------------
(* The search of jt808_report_get.                                         *)

(* It looks at the slots one after the other, from report_get_addr around  *)
(* the ring.                                                               *)
Around(x) == IF x < End THEN x ELSE x - End

LEMMA SlotSizes ==
  ASSUME StoreInv, FlashFree, NEW a \in Slots
  PROVE  SearchStep(a) = Wrapped(a + 1) /\ (flash[a].mn => flash[a].size = 1)
<1>1. flash[a] = Blank \/ (Place(a) \in 1 .. stored /\ Holds(flash[a], Place(a)))
  BY SlotIsWhole
<1> QED BY <1>1 DEF SearchStep, Holds, Blank

LEMMA SearchIs ==
  ASSUME StoreInv, FlashFree, get_addr \in Slots
  PROVE  \A k \in Slots : Visited[k] = Around(get_addr + k) /\ Visited[k] \in Slots
<1> DEFINE at == Visited
<1>1. at = [k \in Slots |-> IF k = 0 THEN get_addr ELSE SearchStep(at[k - 1])]
  BY DEF Visited
<1> HIDE DEF at
<1>2. PICK c \in Slots : c = get_addr
  OBVIOUS
<1> DEFINE T == {k \in Nat : k \in Slots => at[k] = Around(c + k)}
<1>3. 0 \in T
  <2>1. at[0] = c /\ Around(c + 0) = c
    BY <1>1, <1>2, RingFacts DEF Around
  <2> QED BY <2>1
<1>4. ASSUME NEW k \in Nat, k \in T PROVE k + 1 \in T
  <2>1. SUFFICES ASSUME k + 1 \in Slots PROVE at[k + 1] = Around(c + (k + 1))
    OBVIOUS
  <2>2. k \in Slots /\ k + 1 # 0 /\ (k + 1) - 1 = k
    BY <2>1, RingFacts
  <2>3. at[k] = Around(c + k)
    BY <1>4, <2>2
  <2>4. at[k + 1] = SearchStep(at[k])
    BY ONLY <1>1, <2>1, <2>2
  <2>5. Around(c + k) \in Slots
    BY <2>2, RingFacts DEF Around
  <2>6. Wrapped(Around(c + k) + 1) = Around(c + (k + 1))
    BY <2>1, <2>2, RingFacts DEF Around, Wrapped
  <2> QED BY <2>3, <2>4, <2>5, <2>6, SlotSizes
<1>5. \A k \in Nat : k \in T
  <2> HIDE DEF T
  <2> QED BY <1>3, <1>4, NumbersByInduction
<1>6. \A k \in Slots : at[k] = Around(c + k)
  BY <1>5, RingFacts
<1>7. \A k \in Slots : Around(c + k) \in Slots
  BY RingFacts DEF Around
<1> QED BY <1>2, <1>6, <1>7 DEF at

(* It finds a report if there is one to be sent.                           *)
LEMMA SearchFinds ==
  ASSUME StoreInv, FlashFree, get_addr \in Slots, UnsentSlots # {}
  PROVE  Candidates # {}
<1>1. PICK u \in Slots : u \in UnsentSlots
  BY DEF UnsentSlots
<1>2. PICK c \in Slots : c = get_addr
  OBVIOUS
<1>3. PICK k \in Slots : Around(c + k) = u
  <2>1. CASE u >= c
    <3>1. u - c \in Slots /\ Around(c + (u - c)) = u
      BY <2>1, RingFacts DEF Around
    <3> QED BY <3>1
  <2>2. CASE u < c
    <3>1. End + u - c \in Slots /\ Around(c + (End + u - c)) = u
      BY <2>2, RingFacts DEF Around
    <3> QED BY <3>1
  <2> QED BY <2>1, <2>2, RingFacts
<1>4. k \in Hits
  <2>1. Visited[k] = u
    BY <1>2, <1>3, SearchIs
  <2> QED BY <1>1, <1>2, <2>1, RingFacts DEF Hits
<1>5. Hits \subseteq Nat
  BY RingFacts DEF Hits
<1>6. PICK j \in Hits : \A i \in Hits : j <= i
  BY <1>4, <1>5, SmallestOf
<1> QED BY <1>6 DEF Candidates

LEMMA CandidateIs ==
  ASSUME NEW a \in Candidates
  PROVE  /\ a \in UnsentSlots
         /\ get_addr # End
         /\ \E k \in Hits : a = Visited[k] /\ \A j \in Hits : k <= j
BY DEF Candidates, Hits

-----------------------------------------------------------------------------
(* report_count.                                                           *)

(* The counter holds the reports of the ring, the size of a torn one is no *)
(* report's.                                                               *)
Countable == TornSize \notin Sizes /\ MaxPuts + 1 < CountMod

Storing == put \in {"magic", "head", "body", "count"}
Counted == UnsentSlots \ BeingStored

(* The report that is to be counted is answered already.                   *)
Early == IF put = "count" /\ ~flash[curr.addr].unsent THEN 1 ELSE 0

CountInv ==
  /\ count + Early >= Cardinality(Counted)
  /\ count + (IF Storing THEN 1 ELSE 0) <= stored + 1
  /\ count > 0 \/ get = "wait" => get_addr # End
  /\ get_addr # End => stored > 0

LEMMA SetsOfSlots ==
  ASSUME NEW S \in SUBSET Slots
  PROVE  /\ IsFiniteSet(S) /\ Cardinality(S) \in Nat
         /\ \A T \in SUBSET S : Cardinality(T) <= Cardinality(S)
         /\ \A a \in S : Cardinality(S \ {a}) = Cardinality(S) - 1
         /\ \A a \in Slots : Cardinality(S \cup {a}) <= Cardinality(S) + 1
         /\ S # {} => Cardinality(S) > 0
         /\ S = {} => Cardinality(S) = 0
<1>1. IsFiniteSet(Slots)
  BY RingFacts, FS_Interval
<1>2. IsFiniteSet(S)
  BY <1>1, FS_Subset
<1>3. Cardinality(S) \in Nat
  BY <1>2, FS_CardinalityType
<1>4. \A T \in SUBSET S : Cardinality(T) <= Cardinality(S)
  BY <1>2, FS_Subset
<1>5. \A a \in S : Cardinality(S \ {a}) = Cardinality(S) - 1
  BY <1>2, FS_RemoveElement
<1>6. \A a \in Slots : Cardinality(S \cup {a}) <= Cardinality(S) + 1
  <2>1. ASSUME NEW a \in Slots PROVE Cardinality(S \cup {a}) <= Cardinality(S) + 1
    <3>1. Cardinality(S \cup {a}) = IF a \in S THEN Cardinality(S) ELSE Cardinality(S) + 1
      BY <1>2, FS_AddElement
    <3> QED BY <1>3, <3>1
  <2> QED BY <2>1
<1>7. S = {} <=> Cardinality(S) = 0
  BY <1>2, FS_EmptySet
<1> QED BY <1>2, <1>3, <1>4, <1>5, <1>6, <1>7

LEMMA CountIsNat ==
  ASSUME StoreInv
  PROVE  /\ count \in Nat /\ stored \in Nat /\ Early \in {0, 1} /\ count \in 0 .. CountMod - 1
         /\ Counted \in SUBSET Slots /\ UnsentSlots \in SUBSET Slots
BY StoreAssumption, BodyFacts DEF StoreInv, TypeInv, TypeOK, Early, Counted, UnsentSlots

(* There are not more reports in the ring than were stored.                *)
LEMMA UnsentAreStored ==
  ASSUME StoreInv, FlashFree
  PROVE  Cardinality(UnsentSlots) <= stored
<1>1. Full = UnsentSlots /\ stored \in Nat
  BY CountIsNat DEF Full
<1> DEFINE f == [a \in UnsentSlots |-> Place(a)]
<1>2. f \in Injection(UnsentSlots, 1 .. stored)
  <2>1. f \in [UnsentSlots -> 1 .. stored]
    BY <1>1, FullFacts
  <2>2. \A a, b \in UnsentSlots : f[a] = f[b] => a = b
    BY <1>1, PlaceIsUnique
  <2> QED BY <2>1, <2>2 DEF Injection, IsInjective
<1>3. IsFiniteSet(1 .. stored) /\ Cardinality(1 .. stored) = stored
  BY <1>1, FS_Interval
<1>4. Cardinality(UnsentSlots) <= Cardinality(1 .. stored)
  <2> HIDE DEF f
  <2> QED BY <1>2, <1>3, FS_Injection
<1> QED BY <1>3, <1>4

-----------------------------------------------------------------------------
(* The steps and the counter.                                              *)

LEMMA CountKept ==
  ASSUME StoreInv, CountInv, UNCHANGED <<flash, curr, put, counters, stored>>,
         get' = "wait" => get = "wait" \/ count > 0
  PROVE  CountInv'
<1>1. count' = count /\ get_addr' = get_addr
  BY DEF counters
<1>2. Counted' = Counted /\ Early' = Early /\ (Storing' <=> Storing)
  BY DEF Counted, UnsentSlots, Unsent, BeingStored, Early, Storing
<1> QED BY <1>1, <1>2 DEF CountInv

(* The slot of the report that is being stored is not counted.             *)
LEMMA CountPutBegin ==
  ASSUME StoreInv, CountInv, PutBegin, StoreInv'
  PROVE  CountInv'
<1>1. /\ put = "idle" /\ put' = "magic" /\ stored' = stored + 1 /\ stored \in Nat
      /\ count' = count /\ get_addr' = get_addr /\ count \in Nat /\ get' = get
  BY CountIsNat DEF PutBegin, counters
<1>2. \A a \in Slots : flash'[a] \in {Blank, flash[a]}
  BY ErasedRing DEF PutBegin
<1>3. Counted' \subseteq Counted /\ Early' = 0 /\ Early = 0 /\ Storing' /\ ~Storing
  BY <1>1, <1>2 DEF Counted, UnsentSlots, Unsent, BeingStored, Early, Storing, Blank
<1>4. PICK C \in SUBSET Slots : C = Counted
  BY CountIsNat
<1>5. PICK D \in SUBSET Slots : D = Counted'
  BY <1>3, <1>4
<1>6. Cardinality(D) <= Cardinality(C) /\ Cardinality(D) \in Nat /\ Cardinality(C) \in Nat
  BY <1>3, <1>4, <1>5, SetsOfSlots
<1>7. count + 0 >= Cardinality(C) /\ count + 0 <= stored + 1
  BY <1>3, <1>4 DEF CountInv
<1>8. count' + Early' >= Cardinality(Counted')
  BY <1>1, <1>3, <1>5, <1>6, <1>7
<1>9. count' + 1 <= stored' + 1
  BY <1>1, <1>7
<1>10. (count > 0 \/ get = "wait" => get_addr # End) /\ stored' > 0
  BY <1>1 DEF CountInv
<1> QED BY <1>1, <1>3, <1>8, <1>9, <1>10 DEF CountInv

LEMMA CountPutWrite ==
  ASSUME StoreInv, CountInv, PutMagic \/ PutHead \/ PutBody, StoreInv'
  PROVE  CountInv'
<1>1. /\ ~FlashFree /\ Storing /\ Storing' /\ put \in {"magic", "head", "body"}
      /\ UNCHANGED <<curr, stored, count, get_addr, get>>
      /\ count \in Nat
  BY CountIsNat DEF PutMagic, PutHead, PutBody, FlashFree, Storing, counters, history
<1>2. curr.addr \in Slots /\ curr.size = 1 /\ flash \in [0 .. End -> Slot]
  BY <1>1, BegunFacts DEF StoreInv, TypeInv, TypeOK
<1>3. \A a \in Slots \ {curr.addr} : flash'[a] = flash[a]
  <2>1. CASE PutMagic \/ PutHead
    BY <1>2, <2>1, RingFacts DEF PutMagic, PutHead
  <2>2. CASE PutBody
    <3>1. \A a \in Slots, c \in Slots : a \in c .. c + 1 - 1 <=> a = c
      BY RingFacts
    <3> QED BY <1>2, <2>2, <3>1, RingFacts DEF PutBody
  <2> QED BY <2>1, <2>2
<1>4. BeingStored = {curr.addr} /\ BeingStored' = {curr.addr}
  BY <1>1 DEF BeingStored, Storing
<1>5. Counted' = Counted
  BY <1>3, <1>4 DEF Counted, UnsentSlots, Unsent
<1>6. Early = 0 /\ Early' \in {0, 1}
  BY <1>1, CountIsNat DEF Early
<1>7. PICK n \in Nat : n = Cardinality(Counted)
  BY CountIsNat, SetsOfSlots
<1>8. count + Early' >= n
  <2>1. count + 0 >= n
    BY <1>6, <1>7 DEF CountInv
  <2>2. PICK e \in {0, 1} : e = Early'
    BY <1>6
  <2>3. count + e >= n
    BY <1>1, <1>7, <2>1
  <2> QED BY <2>2, <2>3
<1>9. count' + Early' >= Cardinality(Counted')
  BY <1>1, <1>5, <1>7, <1>8
<1> QED BY <1>1, <1>9 DEF CountInv

(* The counter does not wrap around.                                       *)
LEMMA CountPutCount ==
  ASSUME Countable, StoreInv, CountInv, PutCount, StoreInv'
  PROVE  CountInv' /\ count' = count + 1
<1>1. /\ put = "count" /\ put' = "send" /\ FlashFree /\ Storing /\ ~Storing'
      /\ UNCHANGED <<flash, curr, stored, get>>
      /\ count \in Nat /\ stored \in Nat /\ stored <= MaxPuts
  BY CountIsNat, BodyFacts
  DEF PutCount, FlashFree, Storing, ring, history, StoreInv, TypeInv, TypeOK
<1>2. count + 1 <= stored + 1
  BY <1>1 DEF CountInv
<1>3. count' = count + 1
  <2>1. count + 1 \in 0 .. CountMod - 1 /\ CountMod \in Nat \ {0}
    BY <1>1, <1>2, BodyFacts, StoreAssumption DEF Countable
  <2>2. \A n \in Nat : n \in 0 .. CountMod - 1 => n % CountMod = n
    BY <2>1
  <2>3. count' = (count + 1) % CountMod
    BY DEF PutCount
  <2> QED BY <1>1, <2>1, <2>2, <2>3
<1>4. stored > 0 /\ curr.addr \in Slots
  BY <1>1 DEF StoreInv, CurrInv, Record
<1>5. PICK C \in SUBSET Slots : C = Counted
  BY CountIsNat
<1>6. PICK c \in Slots : c = curr.addr
  BY <1>4
<1>7. C = UnsentSlots \ {c} /\ Counted' = UnsentSlots /\ Early' = 0
  BY <1>1, <1>5, <1>6 DEF Counted, UnsentSlots, Unsent, BeingStored, Early
<1>8. count + 1 >= Cardinality(UnsentSlots)
  <2>1. CASE flash[c].unsent
    <3>1. Early = 0
      BY <1>1, <1>6, <2>1 DEF Early
    <3>2. count + 0 >= Cardinality(C)
      BY <1>5, <3>1 DEF CountInv
    <3>3. UnsentSlots \in SUBSET (C \cup {c}) /\ C \cup {c} \in SUBSET Slots
      BY <1>7, CountIsNat
    <3>4. /\ Cardinality(UnsentSlots) <= Cardinality(C \cup {c})
          /\ Cardinality(UnsentSlots) \in Nat /\ Cardinality(C \cup {c}) \in Nat
      BY <3>3, SetsOfSlots
    <3>5. Cardinality(C \cup {c}) <= Cardinality(C) + 1 /\ Cardinality(C) \in Nat
      BY SetsOfSlots
    <3> QED BY <1>1, <3>2, <3>4, <3>5
  <2>2. CASE ~flash[c].unsent
    <3>1. Early = 1 /\ UnsentSlots = C
      BY <1>1, <1>6, <1>7, <2>2 DEF Early, UnsentSlots, Unsent
    <3> QED BY <1>5, <3>1 DEF CountInv
  <2> QED BY <2>1, <2>2
<1>9. count' + Early' >= Cardinality(Counted')
  <2>1. count' + Early' = count + 1
    BY <1>1, <1>3, <1>7
  <2> QED BY <1>7, <1>8, <2>1
<1>10. count' + 0 <= stored' + 1
  BY <1>1, <1>2, <1>3
<1>11. get_addr' # End
  <2>1. CASE count' = 1
    BY <1>4, <2>1, RingFacts DEF PutCount
  <2>2. CASE count' # 1
    <3>1. count > 0
      BY <1>1, <1>3, <2>2
    <3> QED BY <2>2, <3>1 DEF PutCount, CountInv
  <2> QED BY <2>1, <2>2
<1> QED BY <1>1, <1>3, <1>4, <1>9, <1>10, <1>11 DEF CountInv

(* The search gives up only when no report is to be sent.                  *)
LEMMA CountGet ==
  ASSUME Regular, Countable, StoreInv, CountInv, Get, StoreInv'
  PROVE  CountInv'
<1>1. /\ UNCHANGED <<flash, curr, put, get_addr, stored>>
      /\ count \in Nat /\ stored \in Nat /\ Early \in {0, 1}
  BY CountIsNat DEF Get, GetWait, GetEnd, ring, counters, history
<1>2. CASE GetWait
  BY <1>2, CountKept DEF GetWait, ring, history
<1>3. CASE GetEnd /\ count' = count
  BY <1>1, <1>3, CountKept DEF GetEnd, counters
<1>4. CASE GetEnd /\ count' = 0 /\ (\A a \in Candidates : ~Sendable(a))
  <2>1. FlashFree /\ get' = "idle" /\ get_addr # End
    BY <1>4 DEF GetEnd, CountInv
  <2>2. get_addr \in Slots
    BY <2>1 DEF StoreInv, TypeInv, TypeOK
  <2>3. Candidates = {}
    <3>1. SUFFICES ASSUME NEW a \in Candidates PROVE Sendable(a)
      BY <1>4
    <3>2. a \in Slots /\ flash[a].mn
      BY CandidateIs DEF UnsentSlots, Unsent
    <3>3. flash[a].size = 1
      BY <2>1, <3>2, SlotSizes
    <3> QED BY <3>3 DEF Sendable, Regular, Countable
  <2>4. UnsentSlots = {}
    BY <2>1, <2>2, <2>3, SearchFinds
  <2>5. Counted' = {} /\ Early' = Early /\ (Storing' <=> Storing)
    BY <1>1, <2>4 DEF Counted, UnsentSlots, Unsent, BeingStored, Early, Storing
  <2>6. Cardinality(Counted') = 0
    BY <2>5, SetsOfSlots
  <2>7. count' + Early' >= Cardinality(Counted')
    BY <1>1, <1>4, <2>5, <2>6
  <2>8. count' + (IF Storing' THEN 1 ELSE 0) <= stored' + 1
    BY <1>1, <1>4
  <2>9. count' > 0 \/ get' = "wait" => get_addr' # End
    BY <1>4, <2>1
  <2>10. get_addr' # End => stored' > 0
    BY <1>1 DEF CountInv
  <2> QED BY <2>7, <2>8, <2>9, <2>10 DEF CountInv
<1> QED BY <1>2, <1>3, <1>4 DEF Get, GetEnd, Search

(* An answer takes a report from the counter, or leaves it to the gps      *)
(* thread to add it.                                                       *)
LEMMA CountResponse ==
  ASSUME StoreInv, CountInv, NEW ok \in BOOLEAN, Response(ok), StoreInv'
  PROVE  CountInv'
<1>0. UNCHANGED <<curr, put, get, stored>> /\ FlashFree
  BY DEF Response, threads, history
<1>1. /\ UNCHANGED <<curr, put, get, stored>> /\ FlashFree
      /\ count \in Nat /\ stored \in Nat /\ Early \in {0, 1} /\ Early' \in {0, 1}
      /\ (Storing' <=> Storing) /\ BeingStored' = BeingStored
  <2>1. Early' \in {0, 1} /\ (Storing' <=> Storing) /\ BeingStored' = BeingStored
    BY <1>0 DEF Early, Storing, BeingStored
  <2> QED BY <1>0, <2>1, CountIsNat
<1>2. CASE UNCHANGED <<flash, counters>>
  BY <1>1, <1>2, CountKept
<1>3. CASE /\ Unsent(First.addr)
           /\ flash' = [flash EXCEPT ![First.addr] = AsReported(@)]
           /\ get_addr' = First.addr
           /\ count' = IF count > 0 THEN count - 1 ELSE 0
  <2>1. queue # <<>> /\ queue \in Seq(Waiting)
    BY DEF Response, Answered, StoreInv, TypeInv
  <2>2. 1 \in DOMAIN queue /\ First = queue[1]
    BY <2>1, QueueFacts
  <2>3. First.addr \in Slots /\ First.body \in 1 .. stored
    BY <2>2 DEF StoreInv, QueueInv
  <2>4. PICK f \in Slots : f = First.addr
    BY <2>3
  <2>5. flash \in [0 .. End -> Slot] /\ f \in 0 .. End /\ f # End /\ Slots \subseteq 0 .. End
    BY RingFacts DEF StoreInv, TypeInv, TypeOK
  <2>6. /\ f \in UnsentSlots /\ ~flash'[f].unsent
        /\ \A a \in Slots \ {f} : flash'[a] = flash[a]
    BY <1>3, <2>4, <2>5 DEF UnsentSlots, Unsent, AsReported, Slot
  <2>7. PICK C \in SUBSET Slots : C = Counted
    BY CountIsNat
  <2>8. Counted' = C \ {f}
    BY <1>1, <2>6, <2>7 DEF Counted, UnsentSlots, Unsent
  <2>9. Cardinality(C) \in Nat /\ (f \in C => Cardinality(C \ {f}) = Cardinality(C) - 1)
    BY SetsOfSlots
  <2>10. count + Early >= Cardinality(C)
    BY <2>7 DEF CountInv
  <2>11. count' \in Nat /\ count' <= count /\ count' + 1 >= count
         /\ (count = 0 => count' = 0) /\ (count > 0 => count' = count - 1)
    BY <1>1, <1>3
  <2>12. count' + Early' >= Cardinality(Counted')
    <3>1. CASE f \in C
      <4>1. Early' = Early
        <5>1. put = "count" => f # curr.addr /\ curr.addr \in Slots
          BY <1>1, <2>3, <2>7, <3>1
          DEF Counted, BeingStored, StoreInv, CurrInv, Record
        <5> QED BY <1>1, <2>6, <5>1 DEF Early
      <4>2. PICK e \in {0, 1} : e = Early
        BY <1>1
      <4>3. PICK n \in Nat : n = Cardinality(C)
        BY <2>9
      <4>4. count' + e >= n - 1
        BY <1>1, <2>10, <2>11, <4>2, <4>3
      <4> QED BY <2>8, <2>9, <3>1, <4>1, <4>2, <4>3, <4>4
    <3>2. CASE f \notin C
      <4>1. put = "count" /\ f = curr.addr
        BY <2>6, <2>7, <3>2, <1>1 DEF Counted, BeingStored, FlashFree
      <4>2. Early = 0 /\ Early' = 1
        BY <1>1, <2>6, <4>1 DEF Early, UnsentSlots, Unsent
      <4>3. Counted' = C
        BY <2>8, <3>2
      <4> QED BY <1>1, <2>9, <2>10, <2>11, <4>2, <4>3
    <3> QED BY <3>1, <3>2
  <2>13. count' + (IF Storing' THEN 1 ELSE 0) <= stored' + 1
    <3>1. PICK k \in {0, 1} : k = IF Storing THEN 1 ELSE 0
      OBVIOUS
    <3>2. k \in {0, 1} /\ count + k <= stored + 1
      BY <3>1 DEF CountInv
    <3>3. count' + k <= stored + 1
      <4>1. count \in Nat /\ stored + 1 \in Nat /\ count' \in Nat /\ count' <= count
        BY <1>1, <2>11
      <4>2. \A a, b, c \in Nat : \A i \in {0, 1} : a + i <= c /\ b <= a => b + i <= c
        OBVIOUS
      <4> QED BY <3>2, <4>1, <4>2
    <3> QED BY <1>1, <3>1, <3>3
  <2>14. get_addr' # End /\ stored' > 0
    BY <1>1, <1>3, <2>3, <2>4, <2>5
  <2> QED BY <2>12, <2>13, <2>14 DEF CountInv
<1> QED BY <1>2, <1>3 DEF Response

(* jt808_report_init counts the reports of the ring anew.                  *)
LEMMA InitCounts ==
  ASSUME Regular, Countable, StoreInv, CountInv, FlashFree, NEW previous,
         ReportInit(previous)
  PROVE  /\ curr' = curr /\ count' = Cardinality(UnsentSlots)
         /\ get_addr' = IF UnsentSlots = {} THEN curr.addr ELSE Oldest
         /\ UnsentSlots # {} => Oldest \in UnsentSlots
<1>1. curr' = curr
  BY InitFindsNewest
<1>2. /\ Cardinality(UnsentSlots) \in Nat /\ Cardinality(UnsentSlots) <= stored
      /\ stored \in Nat /\ stored <= MaxPuts
  BY UnsentAreStored, CountIsNat, SetsOfSlots, BodyFacts DEF StoreInv, TypeInv, TypeOK
<1>3. Cardinality(UnsentSlots) % CountMod = Cardinality(UnsentSlots)
  <2>1. PICK n \in Nat : n = Cardinality(UnsentSlots)
    BY <1>2
  <2>2. n \in 0 .. CountMod - 1 /\ CountMod \in Nat \ {0}
    BY <1>2, <2>1, BodyFacts, StoreAssumption DEF Countable
  <2>3. n % CountMod = n
    BY <2>2
  <2> QED BY <2>1, <2>3
<1>4. UnsentSlots # {} => Oldest \in UnsentSlots /\ flash[Oldest].id # Ones
  <2> SUFFICES ASSUME UnsentSlots # {} PROVE Oldest \in UnsentSlots /\ flash[Oldest].id # Ones
    OBVIOUS
  <2>1. Oldest \in UnsentSlots
    BY OldestExists DEF StoreInv, TypeInv, TypeOK
  <2>2. Oldest \in Slots /\ flash[Oldest] # Blank
    BY <2>1 DEF UnsentSlots, Unsent, Blank
  <2>3. flash[Oldest].id \in 1 .. stored
    BY <2>2, SlotIsWhole DEF Holds
  <2>4. Ones \notin 1 .. stored
    BY <1>2, BodyFacts, RingFacts DEF Regular
  <2> QED BY <2>1, <2>3, <2>4
<1> QED BY <1>1, <1>3, <1>4 DEF ReportInit

LEMMA CountInit ==
  ASSUME Regular, Countable, StoreInv, CountInv, FlashFree, NEW previous,
         ReportInit(previous), UNCHANGED <<flash, stored>>, StoreInv',
         put' \in {put, "idle"}, get' \in {get, "idle"}
  PROVE  CountInv'
<1>1. /\ curr' = curr /\ count' = Cardinality(UnsentSlots)
      /\ get_addr' = IF UnsentSlots = {} THEN curr.addr ELSE Oldest
      /\ UnsentSlots # {} => Oldest \in UnsentSlots
  BY InitCounts
<1>2. PICK U \in SUBSET Slots : U = UnsentSlots
  BY CountIsNat
<1>3. /\ Cardinality(U) \in Nat /\ Cardinality(U) <= stored /\ stored \in Nat
      /\ stored' = stored /\ Early' \in {0, 1}
  <2>1. Cardinality(U) \in Nat
    BY SetsOfSlots
  <2>2. Cardinality(U) <= stored /\ stored \in Nat
    BY <1>2, UnsentAreStored, CountIsNat
  <2> QED BY <2>1, <2>2 DEF Early
<1>4. PICK D \in SUBSET U : D = Counted'
  BY <1>2 DEF Counted, UnsentSlots, Unsent
<1>5. Cardinality(D) <= Cardinality(U) /\ Cardinality(D) \in Nat
  BY <1>4, SetsOfSlots
<1>6. count' + Early' >= Cardinality(Counted')
  BY <1>1, <1>2, <1>3, <1>4, <1>5
<1>7. count' + (IF Storing' THEN 1 ELSE 0) <= stored' + 1
  BY <1>1, <1>2, <1>3
<1>8. U # {} => get_addr' # End /\ stored' > 0
  <2>1. SUFFICES ASSUME U # {} PROVE get_addr' # End /\ stored' > 0
    OBVIOUS
  <2>2. Cardinality(U) > 0
    BY <2>1, SetsOfSlots
  <2>3. get_addr' \in Slots
    BY <1>1, <1>2, <2>1
  <2> QED BY <1>3, <2>2, <2>3, RingFacts
<1>9. U = {} => count' = 0 /\ get_addr' = curr.addr
  BY <1>1, <1>2, SetsOfSlots
<1>10. (stored > 0 => curr.addr # End) /\ (stored = 0 => curr.addr = End)
  BY RingFacts DEF StoreInv, CurrInv, NoReport, Record
<1>11. count' > 0 \/ get' = "wait" => get_addr' # End
  <2>1. CASE U # {}
    BY <1>8, <2>1
  <2>2. CASE U = {}
    <3>1. get' = "wait" => stored > 0
      BY DEF CountInv
    <3> QED BY <1>9, <1>10, <2>2, <3>1
  <2> QED BY <2>1, <2>2
<1>12. get_addr' # End => stored' > 0
  BY <1>3, <1>8, <1>9, <1>10
<1> QED BY <1>6, <1>7, <1>11, <1>12 DEF CountInv

LEMMA StepCount ==
  ASSUME Regular, Countable, StoreInv, CountInv, [Next]_vars, StoreInv'
  PROVE  CountInv'
<1>1. CASE Put /\ ~PutSend
  BY <1>1, CountPutBegin, CountPutWrite, CountPutCount DEF Put
<1>2. CASE PutSend
  <2>1. UNCHANGED <<flash, curr, stored, counters, get>> /\ put = "send" /\ put' = "idle"
    BY <1>2 DEF PutSend, ring, history
  <2>2. Counted' = Counted /\ Early' = 0 /\ Early = 0 /\ ~Storing' /\ ~Storing
    BY <2>1 DEF Counted, UnsentSlots, Unsent, BeingStored, Early, Storing
  <2> QED BY <2>1, <2>2 DEF CountInv, counters
<1>3. CASE Get
  BY <1>3, CountGet
<1>4. CASE Transmission
  BY <1>4, CountKept
  DEF Transmission, Send, Timeout, RemoveFirst, ring, threads, history
<1>5. CASE Authenticate \/ Authenticated
  BY <1>5, CountKept DEF Authenticate, Authenticated, ring, threads, history
<1>6. CASE Reinit
  <2>1. FlashFree /\ ReportInit(get_addr) /\ UNCHANGED <<flash, stored, put, get>>
    BY <1>6 DEF Reinit, history
  <2> QED BY <2>1, CountInit
<1>7. CASE Offline \/ TrackingEnds
  BY <1>7, CountKept DEF Offline, TrackingEnds, ring, threads, history
<1>8. CASE Restart
  <2>1. FlashFree /\ ReportInit(End) /\ UNCHANGED <<flash, stored>>
        /\ put' = "idle" /\ get' = "idle"
    BY <1>8 DEF Restart, Happens, Regular, history
  <2> QED BY <2>1, CountInit
<1>9. CASE \E ok \in BOOLEAN : Response(ok)
  BY <1>9, CountResponse
<1>10. CASE UNCHANGED vars
  BY <1>10, CountKept DEF vars, ring, threads, history
<1> QED
  BY <1>1, <1>2, <1>3, <1>4, <1>5, <1>6, <1>7, <1>8, <1>9, <1>10
  DEF Next, Session, Event

LEMMA InitCount ==
  ASSUME Init
  PROVE  CountInv
<1>1. /\ put = "idle" /\ get = "idle" /\ count = 0 /\ stored = 0 /\ get_addr = End
      /\ \A a \in Slots : ~flash[a].mn
  BY RingFacts DEF Init, Blank
<1>2. Counted = {} /\ Early = 0 /\ ~Storing
  BY <1>1 DEF Counted, UnsentSlots, Unsent, Early, Storing
<1>3. Cardinality(Counted) = 0
  BY <1>2, SetsOfSlots
<1> QED BY <1>1, <1>2, <1>3 DEF CountInv

THEOREM CountInvariant ==
  ASSUME Regular, Countable
  PROVE  Spec => [](StoreInv /\ CountInv)
<1>1. Init => StoreInv /\ CountInv
  BY InitStore, InitCount
<1>2. StoreInv /\ CountInv /\ [Next]_vars => (StoreInv /\ CountInv)'
  BY StepStore, StepCount
<1> QED BY <1>1, <1>2, PTL DEF Spec

(* The three threads that change report_count without a lock never lose a  *)
(* report from it, so that the gsm thread looks for every report.          *)
THEOREM ReportsAreNotForgotten ==
  ASSUME Regular, Countable
  PROVE  Spec => []NoneForgotten
<1>1. ASSUME StoreInv, CountInv PROVE NoneForgotten
  <2>1. SUFFICES ASSUME Counted # {} PROVE count > 0 \/ put = "count"
    BY DEF NoneForgotten, Counted
  <2>2. PICK C \in SUBSET Slots : C = Counted
    BY <1>1, CountIsNat
  <2>3. Cardinality(C) > 0 /\ Cardinality(C) \in Nat
    BY <2>1, <2>2, SetsOfSlots
  <2>4. count + Early >= Cardinality(C)
    BY <1>1, <2>2 DEF CountInv
  <2>5. count \in Nat /\ Early \in {0, 1}
    BY <1>1, CountIsNat
  <2>6. count > 0 \/ Early = 1
    BY <2>3, <2>4, <2>5
  <2> QED BY <2>6 DEF Early
<1> QED BY <1>1, CountInvariant, PTL

-----------------------------------------------------------------------------
(* The order of the reports, until the ring is full for the first time:    *)
(* the reports that are sent lie before those that are not, and neither    *)
(* report_get_addr nor a message of the list is behind one of these.       *)

FirstRound == stored <= End
NoneBefore(x) == \A a \in UnsentSlots : x <= a

OrderInv ==
  /\ ~tracking
  /\ FirstRound =>
       /\ stored > 0 => curr.addr = stored - 1
       /\ \A a, b \in Slots : a < b /\ Unsent(a) /\ flash[b].mn => Unsent(b)
       /\ get_addr # End => get_addr <= curr.addr /\ NoneBefore(get_addr)
       /\ \A i \in DOMAIN queue : NoneBefore(queue[i].addr)

(* Report n is in slot n - 1.                                              *)
LEMMA RoundPlace ==
  ASSUME StoreInv, OrderInv, FirstRound, NEW a \in Slots, flash[a] # Blank
  PROVE  /\ stored > 0 /\ curr.addr \in Slots /\ a <= curr.addr
         /\ a # curr.addr \/ FlashFree => flash[a].body = a + 1 /\ flash[a].id = a + 1
<1>1. stored \in Nat
  BY CountIsNat
<1>2. stored > 0
  <2>1. stored = 0 => a # curr.addr
    BY RingFacts DEF StoreInv, CurrInv, NoReport
  <2>2. stored = 0 => Place(a) \in 1 .. stored
    BY <2>1, SlotIsWhole
  <2> QED BY <1>1, <2>2
<1>3. curr.addr \in Slots /\ curr.addr = stored - 1
  BY <1>2 DEF StoreInv, CurrInv, Record, OrderInv
<1>4. PICK k \in Nat : k = stored
  BY <1>1
<1>5. Place(a) = IF a <= k - 1 THEN k - (k - 1 - a) ELSE k - (k - 1 + End - a)
  BY <1>3, <1>4 DEF Place
<1>6. a # curr.addr \/ FlashFree => Place(a) \in 1 .. k /\ Holds(flash[a], Place(a))
  BY <1>4, SlotIsWhole
<1>7. Place(a) \in 1 .. k => a <= k - 1 /\ Place(a) = a + 1
  BY <1>5, RingFacts
<1>8. a # curr.addr => a <= k - 1
  BY <1>6, <1>7
<1>9. a <= curr.addr
  BY <1>3, <1>4, <1>8, RingFacts
<1> QED BY <1>2, <1>3, <1>6, <1>7, <1>9 DEF Holds

LEMMA NoneBeforeCurr ==
  ASSUME StoreInv, OrderInv, FirstRound, NEW a \in UnsentSlots
  PROVE  a \in Slots /\ a <= curr.addr /\ flash[a] # Blank /\ curr.addr \in Slots
<1>1. a \in Slots /\ flash[a] # Blank
  BY DEF UnsentSlots, Unsent, Blank
<1> QED BY <1>1, RoundPlace

LEMMA OrderKept ==
  ASSUME OrderInv, UNCHANGED <<flash, curr, get_addr, stored, tracking>>,
         \A i \in DOMAIN queue' : \E j \in DOMAIN queue : queue'[i].addr = queue[j].addr
  PROVE  OrderInv'
<1>1. \A x : NoneBefore(x)' <=> NoneBefore(x)
  BY DEF NoneBefore, UnsentSlots, Unsent
<1>2. \A i \in DOMAIN queue : FirstRound => NoneBefore(queue[i].addr)
  BY DEF OrderInv
<1>3. \A i \in DOMAIN queue' : FirstRound => NoneBefore(queue[i].addr)'
  <2>1. \A i \in DOMAIN queue' : FirstRound => NoneBefore(queue'[i].addr)
    BY <1>2
  <2> QED BY <2>1 DEF NoneBefore, UnsentSlots, Unsent
<1>4. get_addr # End /\ FirstRound => get_addr <= curr.addr /\ NoneBefore(get_addr)'
  BY DEF OrderInv, NoneBefore, UnsentSlots, Unsent
<1> QED BY <1>3, <1>4 DEF OrderInv, FirstRound, NoneBefore, UnsentSlots, Unsent

(* Neither a transmission nor an answer puts a message into the queue.     *)
LEMMA AddressesKept ==
  ASSUME StoreInv, Transmission \/ (\E ok \in BOOLEAN : Response(ok))
  PROVE  \A i \in DOMAIN queue' : \E j \in DOMAIN queue : queue'[i].addr = queue[j].addr
<1>1. queue # <<>> /\ queue \in Seq(Waiting)
  BY DEF Transmission, Send, Timeout, RemoveFirst, Transmits, Response, Answered,
         StoreInv, TypeInv
<1>2. CASE queue' = Tail(queue)
  <2>1. \A i \in DOMAIN queue' : i + 1 \in DOMAIN queue /\ queue'[i] = queue[i + 1]
    BY <1>1, <1>2
  <2> QED BY <2>1
<1>3. ASSUME NEW e, e.addr = First.addr, queue' = [queue EXCEPT ![1] = e]
      PROVE  \A i \in DOMAIN queue' : i \in DOMAIN queue /\ queue'[i].addr = queue[i].addr
  BY <1>1, <1>3, QueueFacts
<1>4. First \in Waiting /\ queue[1] = First
  BY <1>1, QueueFacts
<1> DEFINE sent == [First EXCEPT !.state = "WAIT_ACK", !.tries = @ + 1]
           again == [First EXCEPT !.state = "IDLE"]
           answered == [First EXCEPT !.state = "ACK_OK"]
<1>5. sent.addr = First.addr /\ again.addr = First.addr /\ answered.addr = First.addr
  BY <1>4 DEF Waiting, Entry
<1>6. \/ queue' = Tail(queue)
      \/ queue' = [queue EXCEPT ![1] = sent]
      \/ queue' = [queue EXCEPT ![1] = again]
      \/ queue' = [queue EXCEPT ![1] = answered]
  BY <1>1, <1>4 DEF Transmission, Send, Timeout, RemoveFirst, Response
<1> HIDE DEF sent, again, answered
<1> QED BY <1>2, <1>3, <1>5, <1>6

-----------------------------------------------------------------------------
(* A new report comes behind all others.                                   *)
LEMMA OrderPutBegin ==
  ASSUME StoreInv, CountInv, OrderInv, PutBegin, StoreInv'
  PROVE  OrderInv'
<1>1. /\ stored' = stored + 1 /\ stored \in Nat /\ curr'.addr = NextSlot
      /\ UNCHANGED <<get_addr, tracking, queue>>
  BY CountIsNat DEF PutBegin, counters
<1>2. SUFFICES ASSUME FirstRound' PROVE OrderInv'
  BY <1>1 DEF OrderInv
<1>3. FirstRound /\ stored + 1 <= End
  BY <1>1, <1>2, RingFacts DEF FirstRound
<1>4. NextSlot = stored /\ (stored > 0 => curr.addr = stored - 1 /\ stored - 1 < stored)
  <2>1. CASE stored = 0
    BY <2>1, NextSlotIs
  <2>2. CASE stored > 0
    <3>1. curr.addr = stored - 1
      BY <1>3, <2>2 DEF OrderInv
    <3> QED BY <1>1, <1>3, <2>2, <3>1, NextSlotIs, RingFacts
  <2> QED BY <1>1, <2>1, <2>2
<1>5. \A a \in Slots : flash'[a] \in {Blank, flash[a]}
  BY ErasedRing DEF PutBegin
<1>6. UnsentSlots' \subseteq UnsentSlots
  BY <1>5 DEF UnsentSlots, Unsent, Blank
<1>7. stored' > 0 => curr'.addr = stored' - 1
  BY <1>1, <1>4
<1>8. ASSUME NEW a \in Slots, NEW b \in Slots, a < b, Unsent(a)', flash'[b].mn
      PROVE  Unsent(b)'
  <2>1. flash'[a] = flash[a] /\ flash'[b] = flash[b]
    BY <1>5, <1>8 DEF Unsent, Blank
  <2> QED BY <1>3, <1>8, <2>1 DEF OrderInv, Unsent
<1>9. ASSUME get_addr' # End
      PROVE  get_addr' <= curr'.addr /\ NoneBefore(get_addr)'
  <2>1. stored > 0 /\ get_addr <= curr.addr /\ NoneBefore(get_addr)
    BY <1>1, <1>3, <1>9 DEF OrderInv, CountInv
  <2>2. get_addr \in Slots
    BY <1>1, <1>9 DEF StoreInv, TypeInv, TypeOK
  <2>3. get_addr <= stored
    BY <1>1, <1>4, <2>1, <2>2, RingFacts
  <2> QED BY <1>1, <1>4, <1>6, <2>1, <2>3 DEF NoneBefore
<1>10. \A i \in DOMAIN queue' : NoneBefore(queue[i].addr)'
  <2>1. \A i \in DOMAIN queue : NoneBefore(queue[i].addr)
    BY <1>3 DEF OrderInv
  <2> QED BY <1>1, <1>6, <2>1 DEF NoneBefore
<1> QED BY <1>1, <1>7, <1>8, <1>9, <1>10 DEF OrderInv

LEMMA OrderPutWrite ==
  ASSUME StoreInv, OrderInv, PutMagic \/ PutHead \/ PutBody, StoreInv'
  PROVE  OrderInv'
<1>1. /\ ~FlashFree /\ UNCHANGED <<curr, stored, get_addr, tracking, queue>>
      /\ flash \in [0 .. End -> Slot]
  BY DEF PutMagic, PutHead, PutBody, FlashFree, counters, history, StoreInv, TypeInv, TypeOK
<1>2. SUFFICES ASSUME FirstRound PROVE OrderInv'
  BY <1>1 DEF OrderInv, FirstRound
<1>3. /\ curr.addr \in Slots /\ curr.size = 1 /\ stored > 0 /\ flash[curr.addr] = Begun
      /\ \A i \in DOMAIN queue : queue[i].addr # curr.addr
  BY <1>1, BegunFacts
<1>4. PICK c \in Slots : c = curr.addr
  BY <1>3
<1>5. \A a \in Slots \ {c} : flash'[a] = flash[a]
  <2>1. CASE PutMagic \/ PutHead
    BY <1>1, <1>4, <2>1, RingFacts DEF PutMagic, PutHead
  <2>2. CASE PutBody
    <3>1. \A a \in Slots, b \in Slots : a \in b .. b + 1 - 1 <=> a = b
      BY RingFacts
    <3> QED BY <1>1, <1>3, <1>4, <2>2, <3>1, RingFacts DEF PutBody
  <2> QED BY <2>1, <2>2
<1>6. flash'[c].unsent
  <2>1. Begun.unsent
    BY <1>1 DEF Begun, Blank, FlashFree
  <2>2. /\ \A slot \in Slot : WithMagic(slot).unsent = slot.unsent
        /\ \A slot \in Slot : WithBody(slot, stored).unsent = slot.unsent
        /\ \A slot \in Slot : WithHead(slot, curr.id, curr.size).unsent = slot.unsent
    BY DEF WithMagic, WithBody, WithHead, Slot
  <2>3. c \in 0 .. End /\ flash[c] \in Slot /\ flash[c].unsent
    BY <1>1, <1>3, <1>4, <2>1, RingFacts
  <2>4. \/ flash'[c] = WithMagic(flash[c])
        \/ flash'[c] = WithHead(flash[c], curr.id, curr.size)
        \/ flash'[c] = flash[c]
        \/ flash'[c] = WithBody(flash[c], stored)
    BY <1>1, <1>4, <2>3 DEF PutMagic, PutHead, PutBody
  <2> QED BY <2>2, <2>3, <2>4
<1>7. UnsentSlots' \subseteq UnsentSlots \cup {c}
  BY <1>5 DEF UnsentSlots, Unsent
<1>8. \A a \in Slots : a # c /\ flash[a].mn => a < c
  <2>1. \A a \in Slots : a # c /\ flash[a].mn => a <= c
    BY <1>2, <1>4, RoundPlace DEF Blank
  <2> QED BY <2>1, RingFacts
<1>9. ASSUME NEW a \in Slots, NEW b \in Slots, a < b, Unsent(a)', flash'[b].mn
      PROVE  Unsent(b)'
  <2>1. CASE b = c
    BY <1>6, <1>9, <2>1 DEF Unsent
  <2>2. CASE b # c
    <3>1. flash'[b] = flash[b] /\ b < c
      BY <1>5, <1>8, <1>9, <2>2
    <3>2. a # c
      BY <1>9, <3>1, RingFacts
    <3>3. flash'[a] = flash[a]
      BY <1>5, <3>2
    <3> QED BY <1>2, <1>9, <3>1, <3>3 DEF OrderInv, Unsent
  <2> QED BY <2>1, <2>2
<1>10. ASSUME get_addr # End PROVE get_addr <= curr.addr /\ NoneBefore(get_addr)'
  <2>1. get_addr <= c /\ NoneBefore(get_addr)
    BY <1>2, <1>4, <1>10 DEF OrderInv
  <2> QED BY <1>1, <1>4, <1>7, <2>1 DEF NoneBefore
<1>11. ASSUME NEW i \in DOMAIN queue PROVE NoneBefore(queue[i].addr)'
  <2>1. queue[i].addr \in Slots /\ flash[queue[i].addr].mn /\ queue[i].addr # c
    BY <1>3, <1>4 DEF StoreInv, QueueInv
  <2>2. queue[i].addr <= c
    BY <1>8, <2>1, RingFacts
  <2>3. NoneBefore(queue[i].addr)
    BY <1>2 DEF OrderInv
  <2> QED BY <1>1, <1>7, <2>2, <2>3 DEF NoneBefore
<1>12. \A i \in DOMAIN queue' : NoneBefore(queue[i].addr)'
  BY <1>1, <1>11 DEF NoneBefore
<1>13. stored > 0 => curr.addr = stored - 1
  BY <1>2 DEF OrderInv
<1> QED BY <1>1, <1>9, <1>10, <1>12, <1>13 DEF OrderInv

(* A report that is sent at once, or that report_get_addr is set to, is    *)
(* the only one that is not reported.                                      *)
LEMMA OnlyCurrent ==
  ASSUME StoreInv, CountInv, OrderInv, FirstRound, FlashFree, stored > 0,
         (put = "count" /\ count = 0) \/ (put = "send" /\ count = 1)
  PROVE  NoneBefore(curr.addr)
<1>1. curr.addr \in Slots /\ Holds(flash[curr.addr], stored)
  BY DEF StoreInv, CurrInv, Record, NewestInv
<1>2. PICK c \in Slots : c = curr.addr
  BY <1>1
<1> SUFFICES ASSUME NEW a \in UnsentSlots, ~(c <= a) PROVE FALSE
  BY <1>2 DEF NoneBefore
<1>3. a \in Slots /\ Unsent(a)
  BY DEF UnsentSlots
<1>4. a < c
  BY <1>3, RingFacts
<1>5. Unsent(c)
  BY <1>1, <1>2, <1>3, <1>4 DEF OrderInv, Holds
<1>6. PICK C \in SUBSET Slots : C = Counted
  BY CountIsNat
<1>7. count + Early >= Cardinality(C)
  BY <1>6 DEF CountInv
<1>8. Early = 0
  BY <1>2, <1>5 DEF Early, Unsent
<1>9. CASE put = "count" /\ count = 0
  <2>1. a \in C
    BY <1>2, <1>3, <1>4, <1>6, <1>9, RingFacts DEF Counted, BeingStored
  <2>2. Cardinality(C) > 0 /\ Cardinality(C) \in Nat
    BY <2>1, SetsOfSlots
  <2> QED BY <1>7, <1>8, <1>9, <2>2
<1>10. CASE put = "send" /\ count = 1
  <2>1. a \in C /\ c \in C /\ a # c
    BY <1>3, <1>4, <1>5, <1>6, <1>10, RingFacts DEF Counted, BeingStored, UnsentSlots
  <2>2. a \in C \ {c} /\ C \ {c} \in SUBSET Slots
    BY <2>1
  <2>3. Cardinality(C \ {c}) > 0 /\ Cardinality(C \ {c}) \in Nat
    BY <2>2, SetsOfSlots
  <2>4. Cardinality(C \ {c}) = Cardinality(C) - 1 /\ Cardinality(C) \in Nat
    BY <2>1, SetsOfSlots
  <2> QED BY <1>7, <1>8, <1>10, <2>3, <2>4
<1> QED BY <1>9, <1>10

LEMMA OrderPutCount ==
  ASSUME Countable, StoreInv, CountInv, OrderInv, PutCount, StoreInv'
  PROVE  OrderInv'
<1>1. /\ put = "count" /\ FlashFree /\ UNCHANGED <<flash, curr, stored, tracking, queue>>
      /\ count \in Nat /\ stored \in Nat
  BY CountIsNat DEF PutCount, FlashFree, ring, history
<1>2. CASE get_addr' = get_addr
  BY <1>1, <1>2, OrderKept
<1>3. CASE count' = 1 /\ get_addr' = curr.addr
  <2>1. count = 0
    BY <1>1, <1>3, CountPutCount
  <2>2. stored > 0 /\ curr.addr \in Slots
    BY <1>1 DEF StoreInv, CurrInv, Record
  <2>3. FirstRound => NoneBefore(curr.addr)
    BY <1>1, <2>1, <2>2, OnlyCurrent
  <2>4. UnsentSlots' = UnsentSlots
    BY <1>1 DEF UnsentSlots, Unsent
  <2>5. FirstRound' => get_addr' <= curr'.addr /\ NoneBefore(get_addr)'
    BY <1>1, <1>3, <2>2, <2>3, <2>4, RingFacts DEF FirstRound, NoneBefore
  <2>6. FirstRound' => \A i \in DOMAIN queue' : NoneBefore(queue[i].addr)'
    BY <1>1, <2>4 DEF OrderInv, FirstRound, NoneBefore
  <2> QED BY <1>1, <2>5, <2>6 DEF OrderInv, FirstRound, Unsent
<1> QED BY <1>2, <1>3 DEF PutCount

LEMMA OrderAppend ==
  ASSUME StoreInv, OrderInv, NEW a, NEW n, FirstRound => NoneBefore(a),
         queue' = Append(queue, Message(a, n)),
         UNCHANGED <<flash, curr, get_addr, stored, tracking>>
  PROVE  OrderInv'
<1>1. queue \in Seq(Waiting)
  BY DEF StoreInv, TypeInv
<1>2. /\ DOMAIN queue' = DOMAIN queue \cup {Len(queue) + 1}
      /\ queue'[Len(queue) + 1] = Message(a, n)
      /\ \A i \in DOMAIN queue : queue'[i] = queue[i]
  BY <1>1
<1>3. UnsentSlots' = UnsentSlots
  BY DEF UnsentSlots, Unsent
<1>4. \A i \in DOMAIN queue' : FirstRound => NoneBefore(queue'[i].addr)
  BY <1>2 DEF OrderInv, Message
<1>5. FirstRound' => \A i \in DOMAIN queue' : NoneBefore(queue[i].addr)'
  BY <1>3, <1>4 DEF FirstRound, NoneBefore
<1>6. FirstRound' /\ get_addr' # End => get_addr' <= curr'.addr /\ NoneBefore(get_addr)'
  BY <1>3 DEF OrderInv, FirstRound, NoneBefore
<1> QED BY <1>5, <1>6 DEF OrderInv, FirstRound, Unsent

LEMMA OrderPutSend ==
  ASSUME StoreInv, CountInv, OrderInv, PutSend
  PROVE  OrderInv'
<1>1. /\ put = "send" /\ FlashFree /\ UNCHANGED <<flash, curr, stored, get_addr, tracking>>
      /\ stored \in Nat
  BY CountIsNat DEF PutSend, FlashFree, ring, history, counters
<1>2. CASE queue' = queue
  BY <1>1, <1>2, OrderKept
<1>3. CASE count = 1 /\ queue' = Append(queue, Message(curr.addr, stored))
  <2>1. stored > 0
    BY <1>1 DEF StoreInv, CurrInv
  <2>2. FirstRound => NoneBefore(curr.addr)
    BY <1>1, <1>3, <2>1, OnlyCurrent
  <2> QED BY <1>1, <1>3, <2>2, OrderAppend
<1> QED BY <1>2, <1>3 DEF PutSend, OrderInv

(* The search meets the oldest report first.                               *)
LEMMA FirstFound ==
  ASSUME StoreInv, OrderInv, FirstRound, FlashFree, NEW a \in Candidates
  PROVE  NoneBefore(a)
<1>1. get_addr # End /\ a \in UnsentSlots
  BY CandidateIs
<1>2. PICK g \in Slots : g = get_addr
  BY <1>1 DEF StoreInv, TypeInv, TypeOK
<1>3. PICK k \in Hits : a = Visited[k] /\ \A j \in Hits : k <= j
  BY CandidateIs
<1>4. k \in Slots
  BY <1>3 DEF Hits
<1>5. a = Around(g + k)
  BY <1>2, <1>3, <1>4, SearchIs
<1> SUFFICES ASSUME NEW u \in UnsentSlots PROVE a <= u
  BY DEF NoneBefore
<1>6. u \in Slots /\ g <= u
  BY <1>1, <1>2 DEF OrderInv, NoneBefore, UnsentSlots
<1>7. u - g \in Slots /\ Around(g + (u - g)) = u
  BY <1>6, RingFacts DEF Around
<1>8. Visited[u - g] = u
  BY <1>2, <1>7, SearchIs
<1>9. u - g \in Hits
  BY <1>1, <1>7, <1>8 DEF Hits
<1>10. k <= u - g
  BY <1>3, <1>9
<1> QED BY <1>4, <1>5, <1>6, <1>10, RingFacts DEF Around

LEMMA OrderGet ==
  ASSUME StoreInv, OrderInv, Get
  PROVE  OrderInv'
<1>1. UNCHANGED <<flash, curr, stored, get_addr, tracking>>
  BY DEF Get, GetWait, GetEnd, ring, history, counters
<1>2. CASE queue' = queue
  BY <1>1, <1>2, OrderKept
<1>3. ASSUME FlashFree, NEW a \in Candidates,
             queue' = Append(queue, Message(a, flash[a].body))
      PROVE  OrderInv'
  <2>1. FirstRound => NoneBefore(a)
    BY <1>3, FirstFound
  <2> QED BY <1>1, <1>3, <2>1, OrderAppend
<1> QED BY <1>2, <1>3 DEF Get, GetWait, GetEnd, Search

(* The report that is marked is the oldest one.                            *)
LEMMA OrderResponse ==
  ASSUME StoreInv, OrderInv, NEW ok \in BOOLEAN, Response(ok)
  PROVE  OrderInv'
<1>1. UNCHANGED <<curr, stored, tracking>>
  BY DEF Response, history
<1>2. \A i \in DOMAIN queue' : \E j \in DOMAIN queue : queue'[i].addr = queue[j].addr
  BY AddressesKept
<1>3. CASE UNCHANGED <<flash, counters>>
  BY <1>1, <1>2, <1>3, OrderKept DEF counters
<1>4. CASE /\ Unsent(First.addr)
           /\ flash' = [flash EXCEPT ![First.addr] = AsReported(@)]
           /\ get_addr' = First.addr
  <2>1. queue # <<>> /\ queue \in Seq(Waiting)
    BY DEF Response, Answered, StoreInv, TypeInv
  <2>2. 1 \in DOMAIN queue /\ First = queue[1]
    BY <2>1, QueueFacts
  <2>3. PICK f \in Slots : f = First.addr
    BY <2>2 DEF StoreInv, QueueInv
  <2>4. flash \in [0 .. End -> Slot] /\ f \in 0 .. End /\ f # End /\ Slots \subseteq 0 .. End
    BY RingFacts DEF StoreInv, TypeInv, TypeOK
  <2>5. /\ f \in UnsentSlots /\ ~flash'[f].unsent /\ get_addr' = f
        /\ \A a \in Slots \ {f} : flash'[a] = flash[a]
    BY <1>4, <2>3, <2>4 DEF UnsentSlots, Unsent, AsReported, Slot
  <2>6. UnsentSlots' \subseteq UnsentSlots
    BY <2>5 DEF UnsentSlots, Unsent
  <2>7. SUFFICES ASSUME FirstRound PROVE OrderInv'
    BY <1>1 DEF OrderInv, FirstRound
  <2>8. NoneBefore(f)
    BY <2>2, <2>3, <2>7 DEF OrderInv
  <2>9. f <= curr.addr
    BY <2>5, <2>7, NoneBeforeCurr
  <2>10. ASSUME NEW a \in Slots, NEW b \in Slots, a < b, Unsent(a)', flash'[b].mn
         PROVE  Unsent(b)'
    <3>1. a # f /\ Unsent(a) /\ a \in UnsentSlots
      BY <2>5, <2>10 DEF Unsent, UnsentSlots
    <3>2. f <= a
      BY <2>8, <3>1 DEF NoneBefore
    <3>3. b # f
      BY <2>10, <3>2, RingFacts
    <3> QED BY <2>5, <2>7, <2>10, <3>1, <3>3 DEF OrderInv, Unsent
  <2>11. get_addr' <= curr'.addr /\ NoneBefore(get_addr)'
    BY <1>1, <2>5, <2>6, <2>8, <2>9 DEF NoneBefore
  <2>12. \A i \in DOMAIN queue' : NoneBefore(queue[i].addr)'
    <3>1. \A j \in DOMAIN queue : NoneBefore(queue[j].addr)
      BY <2>7 DEF OrderInv
    <3>2. \A i \in DOMAIN queue' : NoneBefore(queue'[i].addr)
      BY <1>2, <3>1
    <3> QED BY <2>6, <3>2 DEF NoneBefore
  <2>13. stored' > 0 => curr'.addr = stored' - 1
    BY <1>1, <2>7 DEF OrderInv
  <2> QED BY <1>1, <2>10, <2>11, <2>12, <2>13 DEF OrderInv
<1> QED BY <1>3, <1>4 DEF Response

LEMMA OrderInit ==
  ASSUME Regular, Countable, StoreInv, CountInv, OrderInv, FlashFree, NEW previous,
         ReportInit(previous), UNCHANGED <<flash, stored>>, queue' \in {queue, <<>>},
         tracking' \in {tracking, FALSE}
  PROVE  OrderInv'
<1>1. /\ curr' = curr
      /\ get_addr' = IF UnsentSlots = {} THEN curr.addr ELSE Oldest
      /\ UnsentSlots # {} => Oldest \in UnsentSlots
  BY InitCounts
<1>2. UnsentSlots' = UnsentSlots /\ ~tracking'
  <2>1. UnsentSlots' = UnsentSlots
    BY DEF UnsentSlots, Unsent
  <2>2. ~tracking
    BY DEF OrderInv
  <2>3. ~tracking'
    BY <2>2, Zenon
  <2> QED BY <2>1, <2>3
<1>3. SUFFICES ASSUME FirstRound PROVE OrderInv'
  BY <1>2 DEF OrderInv, FirstRound
<1>4. \A i \in DOMAIN queue' : NoneBefore(queue[i].addr)'
  <2>1. \A i \in DOMAIN queue : NoneBefore(queue[i].addr)
    BY <1>3 DEF OrderInv
  <2> QED BY <1>2, <2>1 DEF NoneBefore
<1>5. ASSUME get_addr' # End PROVE get_addr' <= curr'.addr /\ NoneBefore(get_addr)'
  <2>1. CASE UnsentSlots = {}
    <3>1. get_addr' = curr.addr /\ curr.addr \in Slots
      BY <1>1, <1>5, <2>1, CurrType DEF StoreInv, TypeInv
    <3> QED BY <1>1, <1>2, <2>1, <3>1, RingFacts DEF NoneBefore
  <2>2. CASE UnsentSlots # {}
    <3>1. PICK o \in UnsentSlots : o = Oldest
      BY <1>1, <2>2
    <3>2. \A b \in UnsentSlots : flash[b].id > flash[o].id
                              \/ (flash[b].id = flash[o].id /\ b >= o)
      BY <2>2, <3>1, OldestExists DEF StoreInv, TypeInv, TypeOK
    <3>3. \A b \in UnsentSlots : b \in Slots /\ flash[b].id = b + 1 /\ b <= curr.addr
      BY <1>3, NoneBeforeCurr, RoundPlace
    <3>4. \A b \in UnsentSlots : o <= b
      BY <3>2, <3>3, RingFacts
    <3> QED BY <1>1, <1>2, <2>2, <3>1, <3>3, <3>4 DEF NoneBefore
  <2> QED BY <2>1, <2>2
<1>6. /\ stored > 0 => curr.addr = stored - 1
      /\ \A a, b \in Slots : a < b /\ Unsent(a) /\ flash[b].mn => Unsent(b)
  BY <1>3 DEF OrderInv
<1> QED BY <1>1, <1>2, <1>4, <1>5, <1>6 DEF OrderInv, Unsent

LEMMA StepOrder ==
  ASSUME Regular, Countable, StoreInv, CountInv, OrderInv, [Next]_vars, StoreInv'
  PROVE  OrderInv'
<1>1. CASE Put
  BY <1>1, OrderPutBegin, OrderPutWrite, OrderPutCount, OrderPutSend DEF Put
<1>2. CASE Get
  BY <1>2, OrderGet
<1>3. CASE Transmission
  <2>1. UNCHANGED <<flash, curr, get_addr, stored, tracking>>
    BY <1>3 DEF Transmission, Send, Timeout, RemoveFirst, ring, counters, history
  <2> QED BY <1>3, <2>1, AddressesKept, OrderKept
<1>4. CASE Authenticate \/ Authenticated \/ Offline \/ UNCHANGED vars
  BY <1>4, OrderKept
  DEF Authenticate, Authenticated, Offline, vars, ring, counters, history
<1>5. CASE Reinit
  BY <1>5, OrderInit DEF Reinit, history
<1>6. CASE TrackingEnds
  BY <1>6 DEF TrackingEnds, OrderInv
<1>7. CASE Restart
  BY <1>7, OrderInit DEF Restart, Happens, Regular, history
<1>8. CASE \E ok \in BOOLEAN : Response(ok)
  BY <1>8, OrderResponse
<1> QED
  BY <1>1, <1>2, <1>3, <1>4, <1>5, <1>6, <1>7, <1>8 DEF Next, Session, Event

LEMMA InitOrder ==
  ASSUME "tracking" \notin Events, Init
  PROVE  OrderInv
<1>1. /\ ~tracking /\ stored = 0 /\ get_addr = End /\ queue = <<>>
      /\ \A a \in Slots : ~flash[a].mn
  <2>1. ~tracking
    BY Zenon DEF Init
  <2>2. /\ stored = 0 /\ get_addr = End /\ queue = <<>>
        /\ \A a \in Slots : ~flash[a].mn
    BY RingFacts DEF Init, Blank
  <2> QED BY <2>1, <2>2
<1> QED BY <1>1 DEF OrderInv, Unsent

(* Until the ring is full the reports are sent in the order in which they  *)
(* were put, whatever is lost, refused or answered late, and whenever the  *)
(* ring is searched anew.                                                  *)
THEOREM OldestIsSentFirst ==
  ASSUME Regular, Countable, "tracking" \notin Events
  PROVE  Spec => OldestFirst
<1>1. Init => StoreInv /\ CountInv /\ OrderInv
  BY InitStore, InitCount, InitOrder
<1>2. StoreInv /\ CountInv /\ OrderInv /\ [Next]_vars
        => (StoreInv /\ CountInv /\ OrderInv)'
  BY StepStore, StepCount, StepOrder
<1>3. ASSUME StoreInv, OrderInv, GetEnd, queue' # queue, stored <= End
      PROVE  \A a \in UnsentSlots : flash[a].body >= queue'[Len(queue')].body
  <2>1. PICK a \in Candidates : queue' = Append(queue, Message(a, flash[a].body))
    BY <1>3 DEF GetEnd, Search
  <2>2. queue \in Seq(Waiting) /\ FlashFree /\ FirstRound
    BY <1>3 DEF StoreInv, TypeInv, GetEnd, FirstRound
  <2>3. queue'[Len(queue')] = Message(a, flash[a].body)
    BY <2>1, <2>2
  <2>4. NoneBefore(a) /\ a \in UnsentSlots
    BY <1>3, <2>2, FirstFound, CandidateIs
  <2>5. \A b \in UnsentSlots : b \in Slots /\ flash[b].body = b + 1 /\ b <= curr.addr
    BY <1>3, <2>2, NoneBeforeCurr, RoundPlace
  <2>6. \A b \in UnsentSlots : flash[b].body >= flash[a].body
    BY <2>4, <2>5, RingFacts DEF NoneBefore
  <2> QED BY <2>3, <2>6 DEF Message
<1> QED BY <1>1, <1>2, <1>3, PTL DEF Spec, OldestFirst


=============================================================================
