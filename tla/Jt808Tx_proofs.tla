---------------------------- MODULE Jt808Tx_proofs ----------------------------
(***************************************************************************)
(* Theorems about Jt808Tx, for every value of its constants.               *)
(***************************************************************************)
EXTENDS Jt808Tx, GsmLink_proofs

-----------------------------------------------------------------------------
(* Every step of the session is a step of the link below it, so that what  *)
(* is proved of the link holds with the transmit list on top of it.        *)

LEMMA LinkBelow == [Next]_vars => [LinkNext]_linkvars
<1> SUFFICES ASSUME [Next]_vars PROVE [LinkNext]_linkvars
  OBVIOUS
<1> USE DEF linkvars, modem, sockets, session, vars, txvars, rxvars, platform
<1>1. CASE UNCHANGED vars
  BY <1>1 DEF vars
<1>2. CASE Modem
  BY <1>2 DEF Modem, LinkNext, GsmThread
<1>3. CASE TxDataProc
  BY <1>3 DEF TxDataProc, TxEmpty, TxReport, TxHold, TxSend, TxTimeout,
              TxTimeoutFlash, TxRemove, LinkNext, GsmThread
<1>4. CASE TxBlockedEnd
  BY <1>4 DEF TxBlockedEnd, TxSent, TxWriteFailed, TxReportEnd, TxTimeoutEnd,
              LinkNext, GsmThread
<1>5. CASE RxNothing \/ RxQuery \/ RxUnmatched \/ RxFind \/ RxNextPacket
           \/ SocketWait
  BY <1>5 DEF RxNothing, RxQuery, RxUnmatched, RxFind, RxNextPacket, SocketWait
<1>6. CASE RxAuth \/ RxApply
  BY <1>6 DEF RxAuth, RxApply, LinkNext
<1>7. CASE SocketStep
  BY <1>7 DEF SocketStep, LinkNext, SocketProc
<1>8. CASE AddCommand \/ PlatformAnswers \/ PlatformAsks
  BY <1>8 DEF AddCommand, PlatformAnswers, PlatformAsks
<1>9. CASE ConnectionLost
  BY <1>9 DEF ConnectionLost, LinkNext, Environment, Sockets
<1>10. CASE OtherLinkEvent
  BY <1>10 DEF OtherLinkEvent, LinkNext, Environment, Sockets
<1> QED
  BY <1>1, <1>2, <1>3, <1>4, <1>5, <1>6, <1>7, <1>8, <1>9, <1>10
  DEF Next, GsmProcess, Jt808Process

(* The session with its transmit list (jt808.c) runs on the link (m66.c)   *)
(* as GsmLink describes it.                                                *)
THEOREM SessionRefinesLink == Spec => LinkSpec
<1>1. Init => LinkInit
  BY DEF Init
<1> QED BY <1>1, LinkBelow, PTL DEF Spec, LinkSpec

(* What the jt808 thread takes for a connection when it sends is one of    *)
(* the modem, in the whole of the system.                                  *)
THEOREM SessionConnectionIsReal == Spec => []ConnectedIsOpen
<1> QED BY SessionRefinesLink, ConnectionIsReal, PTL

-----------------------------------------------------------------------------
(* The list and its blocks.  A block leaves the list from the front, with  *)
(* all that precedes it: this is sound because what comes in front of a    *)
(* block while it is handled is never a command, a report or what the      *)
(* platform asked for, and because no other thread takes a block out.      *)

(* The sequence links live blocks, each once, and every one of EndKinds. *)
Links(seq, blocks) ==
  /\ seq \in Seq(Node)
  /\ \A i \in DOMAIN seq : blocks[seq[i]].state # "FREE"
  /\ \A i, j \in DOMAIN seq : seq[i] = seq[j] => i = j
  /\ \A n \in Node : blocks[n].state # "FREE" /\ blocks[n].kind \in EndKinds
       => \E i \in DOMAIN seq : seq[i] = n

(* The block n is in the sequence, and none of EndKinds precedes it. *)
Leads(seq, blocks, n) ==
  \E i \in DOMAIN seq :
    seq[i] = n /\ \A j \in 1 .. i - 1 : blocks[seq[j]].kind \notin EndKinds

LEMMA NewBlockType ==
  ASSUME NEW kind \in Kinds, NEW sn \in Sn
  PROVE  /\ NewBlock(kind, sn) \in Block
         /\ NewBlock(kind, sn).state = "IDLE" /\ NewBlock(kind, sn).kind = kind
BY TxAssumption DEF NewBlock, Block, BlockStates, Sn

LEMMA FreeBlockType == FreeBlock \in Block /\ FreeBlock.state = "FREE"
BY TxAssumption DEF FreeBlock, Block, Kinds, EndKinds, Sn, BlockStates

(* Inserting a block moves what is behind its place. *)
LEMMA InsertedFacts ==
  ASSUME list \in Seq(Node), NEW kind \in Kinds, NEW n \in Node
  PROVE  \E p \in 1 .. Len(list) + 1 :
           /\ Inserted(kind, n) \in Seq(Node)
           /\ DOMAIN Inserted(kind, n) = 1 .. Len(list) + 1
           /\ \A k \in 1 .. Len(list) + 1 : Inserted(kind, n)[k] =
                IF k < p THEN list[k] ELSE IF k = p THEN n ELSE list[k - 1]
           /\ kind \in EndKinds => p = Len(list) + 1
<1> DEFINE p == Place(kind)
<1> DEFINE left == SubSeq(list, 1, p - 1)
<1> DEFINE right == SubSeq(list, p, Len(list))
<1>1. Len(list) \in Nat /\ (list # <<>> => Len(list) # 0)
  OBVIOUS
<1>2. p \in 1 .. Len(list) + 1 /\ (kind \in EndKinds => p = Len(list) + 1)
  <2>1. CASE kind \in EndKinds
    <3>1. p = Len(list) + 1
      BY <2>1 DEF Place, EndKinds
    <3> QED BY <3>1, <1>1
  <2>2. CASE kind \notin EndKinds
    <3>1. p = 1 \/ (p = 2 /\ list # <<>>)
      BY <2>2 DEF Place
    <3> QED BY <3>1, <2>2, <1>1
  <2> QED BY <2>1, <2>2
<1> HIDE DEF p
<1>3. /\ left \in Seq(Node) /\ Len(left) = p - 1
      /\ \A k \in 1 .. p - 1 : left[k] = list[k]
  BY <1>1, <1>2
<1>4. /\ right \in Seq(Node) /\ Len(right) = Len(list) + 1 - p
      /\ \A k \in 1 .. Len(list) + 1 - p : right[k] = list[p + k - 1]
  BY <1>1, <1>2
<1>5. Inserted(kind, n) = left \o <<n>> \o right
  BY DEF Inserted, p
<1> HIDE DEF left, right
<1>6. /\ left \o <<n>> \in Seq(Node) /\ Len(left \o <<n>>) = p
      /\ \A k \in 1 .. p : (left \o <<n>>)[k] = IF k < p THEN list[k] ELSE n
  BY <1>1, <1>2, <1>3
<1>7. /\ Inserted(kind, n) \in Seq(Node)
      /\ Len(Inserted(kind, n)) = Len(list) + 1
  BY <1>1, <1>2, <1>4, <1>5, <1>6
<1>8. ASSUME NEW k \in 1 .. Len(list) + 1
      PROVE  Inserted(kind, n)[k] =
               IF k < p THEN list[k] ELSE IF k = p THEN n ELSE list[k - 1]
  <2>1. CASE k <= p
    BY <2>1, <1>1, <1>2, <1>4, <1>5, <1>6
  <2>2. CASE k > p
    <3>1. k - p \in 1 .. Len(list) + 1 - p /\ p + (k - p) - 1 = k - 1
      BY <2>2, <1>1, <1>2
    <3>2. Inserted(kind, n)[k] = right[k - p]
      BY <3>1, <2>2, <1>1, <1>2, <1>4, <1>5, <1>6
    <3>3. right[k - p] = list[k - 1]
      BY <3>1, <1>4
    <3> QED BY <3>2, <3>3, <2>2, <1>2
  <2> QED BY <2>1, <2>2, <1>2
<1>9. DOMAIN Inserted(kind, n) = 1 .. Len(list) + 1
  BY <1>7
<1> QED BY <1>2, <1>7, <1>8, <1>9

(* A new block: what led the list still does, unless a block of EndKinds   *)
(* came in front of it, which is put at the end.                           *)
LEMMA InsertLinks ==
  ASSUME heap \in [Node -> Block], Links(list, heap), NEW kind \in Kinds,
         NEW n \in Node, heap[n].state = "FREE",
         NEW b \in Block, b.kind = kind, b.state # "FREE"
  PROVE  /\ Links(Inserted(kind, n), [heap EXCEPT ![n] = b])
         /\ \A m \in Node : Leads(list, heap, m)
              => Leads(Inserted(kind, n), [heap EXCEPT ![n] = b], m)
<1> DEFINE len == Len(list)
<1> DEFINE new == Inserted(kind, n)
<1> DEFINE blocks == [heap EXCEPT ![n] = b]
<1>1. /\ list \in Seq(Node) /\ len \in Nat /\ DOMAIN list = 1 .. len
      /\ \A k \in 1 .. len : list[k] \in Node /\ heap[list[k]].state # "FREE"
      /\ \A k, j \in 1 .. len : list[k] = list[j] => k = j
  BY DEF Links
<1>2. \A k \in 1 .. len : list[k] # n
  BY <1>1
<1>3. \A m \in Node : blocks[m] = IF m = n THEN b ELSE heap[m]
  OBVIOUS
<1>4. PICK p \in 1 .. len + 1 :
        /\ new \in Seq(Node) /\ DOMAIN new = 1 .. len + 1
        /\ \A k \in 1 .. len + 1 :
             new[k] = IF k < p THEN list[k] ELSE IF k = p THEN n ELSE list[k - 1]
        /\ kind \in EndKinds => p = len + 1
  BY <1>1, InsertedFacts
<1> HIDE DEF new, blocks
<1> DEFINE at(k) == IF k < p THEN k ELSE k + 1
<1> DEFINE from(k) == IF k < p THEN k ELSE k - 1
<1>5. \A k \in 1 .. len : at(k) \in 1 .. len + 1 /\ new[at(k)] = list[k]
  BY <1>1, <1>4
<1>6. \A k \in 1 .. len + 1 : k # p => from(k) \in 1 .. len /\ new[k] = list[from(k)]
  BY <1>1, <1>4
<1>7. \A k, j \in 1 .. len + 1 : k # p /\ j # p /\ from(k) = from(j) => k = j
  BY <1>1, <1>4
<1>8. new[p] = n
  BY <1>4
<1>9. Links(new, blocks)
  <2>1. ASSUME NEW k \in DOMAIN new PROVE blocks[new[k]].state # "FREE"
    <3>1. CASE k = p
      BY <3>1, <1>3, <1>8
    <3>2. CASE k # p
      <4>1. from(k) \in 1 .. len /\ new[k] = list[from(k)]
        BY <3>2, <1>4, <1>6
      <4> QED BY <4>1, <1>1, <1>2, <1>3
    <3> QED BY <3>1, <3>2
  <2>2. ASSUME NEW k \in DOMAIN new, NEW j \in DOMAIN new, new[k] = new[j] PROVE k = j
    <3>1. \A i \in 1 .. len + 1 : i # p => new[i] # n
      <4> SUFFICES ASSUME NEW i \in 1 .. len + 1, i # p PROVE new[i] # n
        OBVIOUS
      <4>1. from(i) \in 1 .. len /\ new[i] = list[from(i)]
        BY <1>6
      <4> QED BY <4>1, <1>2
    <3>2. CASE k = p \/ j = p
      BY <3>1, <3>2, <2>2, <1>4, <1>8
    <3>3. CASE k # p /\ j # p
      <4>1. from(k) \in 1 .. len /\ from(j) \in 1 .. len /\ list[from(k)] = list[from(j)]
        BY <3>3, <2>2, <1>4, <1>6
      <4>2. from(k) = from(j)
        BY <4>1, <1>1
      <4> QED BY <4>2, <3>3, <1>4, <1>7
    <3> QED BY <3>2, <3>3
  <2>3. ASSUME NEW m \in Node, blocks[m].state # "FREE", blocks[m].kind \in EndKinds
        PROVE  \E i \in DOMAIN new : new[i] = m
    <3>1. CASE m = n
      BY <3>1, <1>4, <1>8
    <3>2. CASE m # n
      <4>1. PICK i \in DOMAIN list : list[i] = m
        BY <3>2, <2>3, <1>3 DEF Links
      <4>2. at(i) \in DOMAIN new /\ new[at(i)] = m
        BY <4>1, <1>1, <1>4, <1>5
      <4> QED BY <4>2
    <3> QED BY <3>1, <3>2
  <2> QED BY <2>1, <2>2, <2>3, <1>4 DEF Links
<1>10. ASSUME NEW m \in Node, Leads(list, heap, m) PROVE Leads(new, blocks, m)
  <2>1. PICK i \in 1 .. len :
          list[i] = m /\ \A j \in 1 .. i - 1 : heap[list[j]].kind \notin EndKinds
    BY <1>1, <1>10 DEF Leads
  <2>2. at(i) \in DOMAIN new /\ new[at(i)] = m
    BY <2>1, <1>4, <1>5
  <2>3. ASSUME NEW j \in 1 .. at(i) - 1 PROVE blocks[new[j]].kind \notin EndKinds
    <3>1. j \in 1 .. len + 1
      BY <1>1, <1>4, <2>1
    <3>2. CASE j = p
      <4>1. kind \notin EndKinds
        BY <3>2, <1>1, <1>4, <2>1
      <4> QED BY <3>2, <4>1, <1>3, <1>8
    <3>3. CASE j # p
      <4>1. from(j) \in 1 .. len /\ from(j) \in 1 .. i - 1 /\ new[j] = list[from(j)]
        BY <3>1, <3>3, <1>1, <1>4, <1>6, <2>1
      <4> QED BY <4>1, <2>1, <1>1, <1>2, <1>3
    <3> QED BY <3>2, <3>3
  <2> QED BY <2>2, <2>3 DEF Leads
<1> QED BY <1>9, <1>10 DEF new, blocks

(* Taking out the block at place i leaves what is behind it. *)
LEMMA UnlinkedFacts ==
  ASSUME NEW seq \in Seq(Node), NEW i \in DOMAIN seq,
         \A k, j \in DOMAIN seq : seq[k] = seq[j] => k = j
  PROVE  /\ Unlinked(seq, seq[i]) \in Seq(Node)
         /\ DOMAIN Unlinked(seq, seq[i]) = 1 .. Len(seq) - i
         /\ \A k \in 1 .. Len(seq) - i : Unlinked(seq, seq[i])[k] = seq[i + k]
<1>1. DOMAIN seq = 1 .. Len(seq) /\ Len(seq) \in Nat
  OBVIOUS
<1>2. (CHOOSE j \in 1 .. Len(seq) : seq[j] = seq[i]) = i
  BY <1>1
<1>3. Unlinked(seq, seq[i]) = SubSeq(seq, i + 1, Len(seq))
  BY <1>2 DEF Unlinked
<1>4. \A k \in i + 1 .. Len(seq) : seq[k] \in Node
  BY <1>1
<1> QED BY <1>1, <1>3, <1>4

(* Freeing the block that leads the list. *)
LEMMA UnlinkLinks ==
  ASSUME NEW seq, NEW blocks \in [Node -> Block], Links(seq, blocks),
         NEW n \in Node, Leads(seq, blocks, n)
  PROVE  Links(Unlinked(seq, n), [blocks EXCEPT ![n] = FreeBlock])
<1> DEFINE len == Len(seq)
<1> DEFINE new == Unlinked(seq, n)
<1> DEFINE left == [blocks EXCEPT ![n] = FreeBlock]
<1>1. /\ seq \in Seq(Node) /\ len \in Nat /\ DOMAIN seq = 1 .. len
      /\ \A k \in 1 .. len : seq[k] \in Node /\ blocks[seq[k]].state # "FREE"
      /\ \A k, j \in DOMAIN seq : seq[k] = seq[j] => k = j
  BY DEF Links
<1>2. PICK i \in 1 .. len :
        seq[i] = n /\ \A j \in 1 .. i - 1 : blocks[seq[j]].kind \notin EndKinds
  BY <1>1 DEF Leads
<1>3. /\ new \in Seq(Node) /\ DOMAIN new = 1 .. len - i
      /\ \A k \in 1 .. len - i : new[k] = seq[i + k]
  <2>1. /\ Unlinked(seq, seq[i]) \in Seq(Node)
        /\ DOMAIN Unlinked(seq, seq[i]) = 1 .. len - i
        /\ \A k \in 1 .. len - i : Unlinked(seq, seq[i])[k] = seq[i + k]
    BY <1>1, UnlinkedFacts
  <2> QED BY <2>1, <1>2
<1>4. \A m \in Node : left[m] = IF m = n THEN FreeBlock ELSE blocks[m]
  OBVIOUS
<1> HIDE DEF new, left
<1>5. \A k \in 1 .. len - i : i + k \in DOMAIN seq /\ i + k # i
  BY <1>1
<1>6. ASSUME NEW k \in DOMAIN new PROVE left[new[k]].state # "FREE"
  <2>1. new[k] = seq[i + k] /\ seq[i + k] # n /\ i + k \in 1 .. len
    BY <1>1, <1>2, <1>3, <1>5
  <2> QED BY <2>1, <1>1, <1>4
<1>7. ASSUME NEW k \in DOMAIN new, NEW j \in DOMAIN new, new[k] = new[j] PROVE k = j
  BY <1>7, <1>1, <1>3, <1>5
<1>8. ASSUME NEW m \in Node, left[m].state # "FREE", left[m].kind \in EndKinds
      PROVE  \E k \in DOMAIN new : new[k] = m
  <2>1. m # n /\ left[m] = blocks[m]
    BY <1>4, <1>8, FreeBlockType
  <2>2. PICK j \in 1 .. len : seq[j] = m
    BY <2>1, <1>1, <1>8 DEF Links
  <2>3. ~(j \in 1 .. i - 1) /\ j # i
    BY <2>1, <2>2, <1>2, <1>8
  <2>4. j - i \in 1 .. len - i /\ i + (j - i) = j
    BY <2>2, <2>3, <1>1
  <2> QED BY <2>2, <2>4, <1>3
<1>9. Links(new, left)
  BY <1>3, <1>6, <1>7, <1>8 DEF Links
<1> QED BY <1>9 DEF new, left

(* Changing a live block in its other fields: an answer, a timeout, the    *)
(* count of a transmission.                                                *)
LEMMA EditLinks ==
  ASSUME NEW seq, NEW blocks \in [Node -> Block], Links(seq, blocks),
         NEW n \in Node, blocks[n].state # "FREE",
         NEW b \in Block, b.kind = blocks[n].kind, b.state # "FREE"
  PROVE  /\ Links(seq, [blocks EXCEPT ![n] = b])
         /\ \A m \in Node : Leads(seq, blocks, m)
              => Leads(seq, [blocks EXCEPT ![n] = b], m)
<1> DEFINE new == [blocks EXCEPT ![n] = b]
<1>1. \A m \in Node : /\ new[m].kind = blocks[m].kind
                      /\ new[m].state = "FREE" <=> blocks[m].state = "FREE"
  OBVIOUS
<1> HIDE DEF new
<1>2. seq \in Seq(Node) /\ \A i \in DOMAIN seq : seq[i] \in Node
  BY DEF Links
<1>3. Links(seq, new)
  BY <1>1, <1>2 DEF Links
<1>4. ASSUME NEW m \in Node, Leads(seq, blocks, m) PROVE Leads(seq, new, m)
  <2>1. PICK i \in DOMAIN seq :
          seq[i] = m /\ \A j \in 1 .. i - 1 : blocks[seq[j]].kind \notin EndKinds
    BY <1>4 DEF Leads
  <2>2. \A j \in 1 .. i - 1 : j \in DOMAIN seq
    BY <1>2
  <2>3. \A j \in 1 .. i - 1 : new[seq[j]].kind \notin EndKinds
    BY <2>1, <2>2, <1>1, <1>2
  <2> QED BY <2>1, <2>3 DEF Leads
<1> QED BY <1>3, <1>4 DEF new

-----------------------------------------------------------------------------
(* The invariant of the transmit list. *)

ListType ==
  /\ heap \in [Node -> Block]
  /\ txnode \in Node \cup {Nil} /\ tx_seq \in Sn

(* The block the gsm thread waits with is in the list, and what came in    *)
(* front of it meanwhile may go with it.                                   *)
PendingInv ==
  /\ gpc = "write" => txnode # Nil
  /\ txnode # Nil => gpc \in {"write", "flash"} /\ Leads(list, heap, txnode)

ListInv == ListType /\ Links(list, heap) /\ PendingInv

(* The mailbox, the jt808 thread and the platform. *)
MailInv ==
  /\ mbox \in Seq(Message) /\ Len(mbox) <= MboxSize
  /\ jpc \in {"recv", "apply", "sock"}
  /\ rx \in [node : Node \cup {Nil}, kind : Kinds, sn : Sn]
  /\ jpc = "apply" => rx.node \in Node
  /\ owed \subseteq [kind : Kinds, sn : Sn]
  /\ authed \in BOOLEAN

TxInv == LinkTypeOK /\ ListInv /\ MailInv

LEMMA InvFacts ==
  ASSUME TxInv
  PROVE  /\ TypeOK /\ ListIsLive /\ CommandsStayQueued
         /\ gpc \notin {"write", "flash"} => txnode = Nil
BY DEF TxInv, TypeOK, ListInv, ListType, Links, PendingInv, Leads, MailInv,
       ListIsLive, CommandsStayQueued, InList

LEMMA FirstFacts ==
  ASSUME TxInv, list # <<>>
  PROVE  /\ First \in Node /\ heap[First] \in Block /\ heap[First].state # "FREE"
         /\ Leads(list, heap, First)
<1>1. list \in Seq(Node) /\ \A i \in DOMAIN list : heap[list[i]].state # "FREE"
  BY DEF TxInv, ListInv, Links
<1>2. 1 \in DOMAIN list /\ First = list[1] /\ list[1] \in Node
  BY <1>1 DEF First
<1>3. \A j \in 1 .. 1 - 1 : heap[list[j]].kind \notin EndKinds
  OBVIOUS
<1> QED BY <1>1, <1>2, <1>3 DEF Leads, TxInv, ListInv, ListType

LEMMA PendingFacts ==
  ASSUME TxInv, txnode # Nil
  PROVE  /\ txnode \in Node /\ heap[txnode] \in Block /\ heap[txnode].state # "FREE"
         /\ Leads(list, heap, txnode)
BY DEF TxInv, ListInv, ListType, PendingInv, Leads, Links

LEMMA NotBlocked ==
  ASSUME NEW place \in AtWork \cup {"tx"}, NEW p \in WorkAfter(place)
  PROVE  p \notin {"write", "flash", "tx", "socket", "connect"}
BY WorkAfterType DEF AtWork

(* The gsm thread stays in its call, or has no block to wait with. *)
PendingKept == UNCHANGED <<gpc, txnode>> \/ (txnode' = Nil /\ gpc' # "write")

LEMMA ListKept ==
  ASSUME TxInv, UNCHANGED <<heap, list, tx_seq>>, PendingKept
  PROVE  ListInv'
BY TxAssumption
DEF TxInv, ListInv, ListType, Links, PendingInv, Leads, PendingKept

(* A write or a wait for the flash memory begins with the first block. *)
LEMMA BeginListInv ==
  ASSUME TxInv, list # <<>>, txnode' = First, gpc' \in {"write", "flash"},
         UNCHANGED <<heap, list, tx_seq>>
  PROVE  ListInv'
BY FirstFacts, TxAssumption DEF TxInv, ListInv, ListType, Links, PendingInv, Leads

LEMMA InsertListInv ==
  ASSUME TxInv, PendingKept, tx_seq' \in Sn,
         NEW kind \in Kinds, NEW n \in FreeNodes,
         NEW b \in Block, b.kind = kind, b.state # "FREE",
         heap' = [heap EXCEPT ![n] = b], list' = Inserted(kind, n)
  PROVE  ListInv'
<1>1. heap \in [Node -> Block] /\ Links(list, heap) /\ txnode \in Node \cup {Nil}
      /\ PendingInv
  BY DEF TxInv, ListInv, ListType
<1>2. n \in Node /\ heap[n].state = "FREE"
  BY DEF FreeNodes
<1>3. /\ Links(list', heap')
      /\ \A m \in Node : Leads(list, heap, m) => Leads(list', heap', m)
  BY <1>1, <1>2, InsertLinks
<1>4. heap' \in [Node -> Block]
  BY <1>1
<1>5. /\ gpc' = "write" => txnode' # Nil
      /\ txnode' # Nil => gpc' \in {"write", "flash"} /\ Leads(list', heap', txnode')
      /\ txnode' \in Node \cup {Nil}
  BY <1>1, <1>3 DEF PendingKept, PendingInv
<1> QED BY <1>3, <1>4, <1>5 DEF ListInv, ListType, Links, Leads, PendingInv

LEMMA AddListInv ==
  ASSUME TxInv, NEW kind \in Kinds, AddTx(kind), PendingKept
  PROVE  ListInv'
<1>1. CASE FreeNodes = {}
  BY <1>1, ListKept DEF AddTx
<1>2. CASE FreeNodes # {}
  <2> DEFINE sn == IF kind \in PagedKinds THEN 0 ELSE tx_seq
  <2>1. PICK n \in FreeNodes : /\ heap' = [heap EXCEPT ![n] = NewBlock(kind, sn)]
                               /\ list' = Inserted(kind, n)
    BY <1>2 DEF AddTx
  <2>2. sn \in Sn /\ tx_seq' \in Sn
    BY <1>2, TxAssumption DEF AddTx, TxInv, ListInv, ListType, Sn
  <2> HIDE DEF sn
  <2>3. /\ NewBlock(kind, sn) \in Block /\ NewBlock(kind, sn).kind = kind
        /\ NewBlock(kind, sn).state # "FREE"
    BY <2>2, NewBlockType
  <2> QED BY <2>1, <2>2, <2>3, InsertListInv
<1> QED BY <1>1, <1>2

LEMMA EditListInv ==
  ASSUME TxInv, PendingKept, NEW n \in Node, heap[n].state # "FREE",
         NEW b \in Block, b.kind = heap[n].kind, b.state # "FREE",
         heap' = [heap EXCEPT ![n] = b], UNCHANGED <<list, tx_seq>>
  PROVE  ListInv'
<1>1. heap \in [Node -> Block] /\ Links(list, heap) /\ txnode \in Node \cup {Nil}
      /\ PendingInv /\ tx_seq' \in Sn
  BY DEF TxInv, ListInv, ListType
<1>2. /\ Links(list', heap')
      /\ \A m \in Node : Leads(list, heap, m) => Leads(list', heap', m)
  BY <1>1, EditLinks
<1>3. heap' \in [Node -> Block]
  BY <1>1
<1>4. /\ gpc' = "write" => txnode' # Nil
      /\ txnode' # Nil => gpc' \in {"write", "flash"} /\ Leads(list', heap', txnode')
      /\ txnode' \in Node \cup {Nil}
  BY <1>1, <1>2 DEF PendingKept, PendingInv
<1> QED BY <1>1, <1>2, <1>3, <1>4 DEF ListInv, ListType, Links, Leads, PendingInv

LEMMA FreeListInv ==
  ASSUME TxInv, NEW n \in Node, Leads(list, heap, n), Free(n),
         txnode' = Nil, gpc' # "write", tx_seq' = tx_seq
  PROVE  ListInv'
<1>1. heap \in [Node -> Block] /\ Links(list, heap) /\ tx_seq' \in Sn
  BY DEF TxInv, ListInv, ListType
<1>2. Links(list', heap')
  BY <1>1, UnlinkLinks DEF Free
<1>3. heap' \in [Node -> Block]
  BY <1>1, FreeBlockType DEF Free
<1> QED BY <1>1, <1>2, <1>3 DEF ListInv, ListType, Links, PendingInv

(* The picture comes behind the first block before the announcement goes:  *)
(* it may be lost with it, the commands are not.                           *)
LEMMA FreeAnnouncementListInv ==
  ASSUME TxInv, txnode # Nil, FreeAnnouncement(txnode),
         txnode' = Nil, gpc' # "write", tx_seq' = tx_seq
  PROVE  ListInv'
<1>1. /\ heap \in [Node -> Block] /\ Links(list, heap) /\ tx_seq' \in Sn
      /\ txnode \in Node /\ heap[txnode].state # "FREE" /\ Leads(list, heap, txnode)
  BY PendingFacts DEF TxInv, ListInv, ListType
<1> DEFINE b == NewBlock("picture", 0)
<1>2. PICK m \in FreeNodes :
        /\ heap' = [heap EXCEPT ![m] = b, ![txnode] = FreeBlock]
        /\ list' = Unlinked(Inserted("picture", m), txnode)
  BY DEF FreeAnnouncement
<1>3. b \in Block /\ b.kind = "picture" /\ b.state # "FREE"
  BY NewBlockType, TxAssumption DEF Kinds, Sn
<1> HIDE DEF b
<1> DEFINE seq == Inserted("picture", m)
<1> DEFINE blocks == [heap EXCEPT ![m] = b]
<1>4. m \in Node /\ heap[m].state = "FREE"
  BY DEF FreeNodes
<1>5. Links(seq, blocks) /\ Leads(seq, blocks, txnode)
  BY <1>1, <1>3, <1>4, InsertLinks DEF Kinds
<1>6. blocks \in [Node -> Block]
  BY <1>1, <1>3
<1>7. heap' = [blocks EXCEPT ![txnode] = FreeBlock] /\ list' = Unlinked(seq, txnode)
  BY <1>1, <1>2
<1> HIDE DEF seq, blocks
<1>8. Links(list', heap') /\ heap' \in [Node -> Block]
  BY <1>1, <1>5, <1>6, <1>7, UnlinkLinks, FreeBlockType
<1> QED BY <1>1, <1>8 DEF ListInv, ListType, Links, PendingInv

(* An answer marks a live block, or nothing. *)
LEMMA AnsweredFacts ==
  ASSUME NEW blocks \in [Node -> Block], NEW n \in Node, NEW kind, NEW sn
  PROVE  \/ Answered(blocks, n, kind, sn) = blocks
         \/ /\ blocks[n].state # "FREE"
            /\ \E b \in Block :
                 /\ Answered(blocks, n, kind, sn) = [blocks EXCEPT ![n] = b]
                 /\ b.kind = blocks[n].kind /\ b.state = "ACK_OK"
                 /\ b.retry = blocks[n].retry /\ b.times = blocks[n].times
                 /\ b.acked => \/ blocks[n].acked
                               \/ /\ blocks[n].kind = kind
                                  /\ ~(gpc = "write" /\ n = txnode)
<1>1. CASE blocks[n].state # "FREE"
  <2> DEFINE mark == blocks[n].acked \/ (blocks[n].kind = kind /\ blocks[n].sn = sn
                                         /\ ~(gpc = "write" /\ n = txnode))
  <2> DEFINE b == [blocks[n] EXCEPT !.state = "ACK_OK", !.acked = mark]
  <2>1. mark \in BOOLEAN /\ blocks[n] \in Block
    BY DEF Block
  <2>2. Answered(blocks, n, kind, sn) = [blocks EXCEPT ![n] = b]
    BY <1>1 DEF Answered
  <2> HIDE DEF mark
  <2>3. /\ b \in Block /\ b.kind = blocks[n].kind /\ b.state = "ACK_OK"
        /\ b.retry = blocks[n].retry /\ b.times = blocks[n].times
        /\ b.acked = mark
    BY <2>1 DEF Block, BlockStates
  <2> HIDE DEF b
  <2>4. b.acked => \/ blocks[n].acked
                   \/ blocks[n].kind = kind /\ ~(gpc = "write" /\ n = txnode)
    BY <2>3 DEF mark
  <2> QED BY <1>1, <2>2, <2>3, <2>4
<1>2. CASE blocks[n].state = "FREE"
  BY <1>2 DEF Answered
<1> QED BY <1>1, <1>2

LEMMA AnswerListInv ==
  ASSUME TxInv, NEW n \in Node, NEW kind, NEW sn,
         heap' = Answered(heap, n, kind, sn),
         UNCHANGED <<list, txnode, tx_seq, gpc>>
  PROVE  ListInv'
<1>1. heap \in [Node -> Block]
  BY DEF TxInv, ListInv, ListType
<1>2. CASE heap' = heap
  BY <1>2, ListKept DEF PendingKept
<1>3. CASE heap' # heap
  <2>1. PICK b \in Block :
          /\ heap[n].state # "FREE" /\ heap' = [heap EXCEPT ![n] = b]
          /\ b.kind = heap[n].kind /\ b.state = "ACK_OK"
    BY <1>1, <1>3, AnsweredFacts
  <2> QED BY <2>1, EditListInv DEF PendingKept
<1> QED BY <1>2, <1>3

-----------------------------------------------------------------------------
(* The steps of the gsm thread keep the list. *)

(* A timeout with tries left. *)
LEMMA LimitFacts ==
  ASSUME NEW kind \in Kinds
  PROVE  RetryLimit(kind) \in Nat \ {0} /\ RetryLimit(kind) <= MaxRetry + 1
BY TxAssumption DEF RetryLimit

LEMMA RetryFacts ==
  ASSUME TxInv, list # <<>>, ~LastTime(First)
  PROVE  heap[First].retry + 1 < RetryLimit(heap[First].kind)
         /\ heap[First].retry + 1 \in 0 .. MaxRetry
<1>1. heap[First].kind \in Kinds /\ heap[First].retry \in Nat
  BY FirstFacts, TxAssumption DEF Block
<1>2. RetryLimit(heap[First].kind) \in Nat
      /\ RetryLimit(heap[First].kind) <= MaxRetry + 1
  BY <1>1, LimitFacts
<1> QED BY <1>1, <1>2, TxAssumption DEF LastTime

LEMMA TimeoutListInv ==
  ASSUME TxInv, TxTimeout
  PROVE  ListInv'
<1>1. /\ list # <<>> /\ txnode = Nil /\ txnode' = Nil /\ gpc' # "write"
      /\ tx_seq' = tx_seq
  BY InvFacts, NotBlocked DEF TxTimeout, TimedOut, TxPoll
<1>2. CASE LastTime(First)
  BY <1>1, <1>2, FirstFacts, FreeListInv DEF TxTimeout
<1>3. CASE ~LastTime(First)
  <2> DEFINE b == [heap[First] EXCEPT !.state = "IDLE", !.retry = heap[First].retry + 1]
  <2>1. First \in Node /\ heap[First] \in Block /\ heap[First].state # "FREE"
    BY <1>1, FirstFacts
  <2>2. b \in Block /\ b.kind = heap[First].kind /\ b.state # "FREE"
    BY <1>1, <1>3, <2>1, RetryFacts DEF Block, BlockStates
  <2>3. heap' = [heap EXCEPT ![First] = b] /\ list' = list
    BY <1>3, <2>1 DEF TxTimeout, Block, TxInv, ListInv, ListType
  <2> HIDE DEF b
  <2> QED BY <1>1, <2>1, <2>2, <2>3, EditListInv DEF PendingKept
<1> QED BY <1>2, <1>3

(* A pass over the list that does not block. *)
LEMMA PollListInv ==
  ASSUME TxInv, TxEmpty \/ TxHold \/ TxRemove
  PROVE  ListInv'
<1>1. txnode = Nil /\ gpc' # "write"
  BY InvFacts, NotBlocked DEF TxEmpty, TxHold, TxRemove, TxPoll
<1>2. CASE TxEmpty \/ TxHold
  BY <1>1, <1>2, ListKept DEF TxEmpty, TxHold, txvars, PendingKept
<1>3. CASE TxRemove
  BY <1>1, <1>3, FirstFacts, FreeListInv DEF TxRemove
<1> QED BY <1>2, <1>3

(* A pass that blocks, in a write or for the flash memory. *)
LEMMA BlockListInv ==
  ASSUME TxInv, TxReport \/ TxSend \/ TxTimeoutFlash
  PROVE  ListInv'
<1>1. CASE TxReport
  BY <1>1, InvFacts, ListKept DEF TxReport, TxFlash, txvars, PendingKept
<1>2. CASE TxSend \/ TxTimeoutFlash
  BY <1>2, BeginListInv DEF TxSend, WriteBegin, TxTimeoutFlash, TimedOut, TxFlash
<1> QED BY <1>1, <1>2

(* The end of a write frees an answer, whatever was put in front of it     *)
(* meanwhile, and leaves another message to wait for its answer.           *)
LEMMA SentListInv ==
  ASSUME TxInv, TxSent
  PROVE  ListInv'
<1>1. txnode # Nil /\ gpc' # "write" /\ txnode' = Nil /\ tx_seq' = tx_seq
  BY NotBlocked DEF TxInv, ListInv, PendingInv, TxSent, WriteEnd
<1>2. CASE heap[txnode].kind \in AckKinds
  BY <1>1, <1>2, PendingFacts, FreeListInv DEF TxSent
<1>3. CASE heap[txnode].kind \notin AckKinds
  <2> DEFINE times == IF heap[txnode].kind \in PagedKinds THEN heap[txnode].times
                      ELSE heap[txnode].times + 1
  <2> DEFINE b == [heap[txnode] EXCEPT !.state = "WAIT_ACK", !.times = times]
  <2>1. txnode \in Node /\ heap[txnode] \in Block /\ heap[txnode].state # "FREE"
    BY <1>1, PendingFacts
  <2>2. times \in Nat
    BY <2>1 DEF Block
  <2>3. heap' = [heap EXCEPT ![txnode] = b] /\ list' = list
    BY <1>3, <2>1 DEF TxSent, Block, TxInv, ListInv, ListType
  <2> HIDE DEF times
  <2>4. b \in Block /\ b.kind = heap[txnode].kind /\ b.state # "FREE"
    BY <2>1, <2>2 DEF Block, BlockStates
  <2> HIDE DEF b
  <2> QED BY <1>1, <2>1, <2>3, <2>4, EditListInv DEF PendingKept
<1> QED BY <1>2, <1>3

(* The wait for the flash memory ends: a report may have been found, or    *)
(* the block is freed, alone or with a picture queued, or sent again.      *)
LEMMA FlashListInv ==
  ASSUME TxInv, TxReportEnd \/ TxTimeoutEnd
  PROVE  ListInv'
<1>1. gpc' # "write"
  BY NotBlocked DEF TxReportEnd, TxTimeoutEnd, TxFlashEnd
<1>2. CASE TxReportEnd
  <2>1. PendingKept
    BY <1>1, <1>2 DEF TxReportEnd, PendingKept
  <2>2. "cmd" \in Kinds
    BY DEF Kinds, EndKinds
  <2> QED BY <1>2, <2>1, <2>2, AddListInv, ListKept DEF TxReportEnd
<1>3. CASE TxTimeoutEnd
  <2>1. txnode # Nil /\ txnode' = Nil /\ tx_seq' = tx_seq
    BY <1>3 DEF TxTimeoutEnd
  <2>2. CASE Free(txnode)
    BY <1>1, <2>1, <2>2, PendingFacts, FreeListInv
  <2>3. CASE FreeAnnouncement(txnode)
    BY <1>1, <2>1, <2>3, FreeAnnouncementListInv
  <2>4. CASE /\ list' = list
             /\ \E again \in {0, heap[txnode].retry} :
                  heap' = [heap EXCEPT ![txnode].state = "IDLE",
                                       ![txnode].retry = again]
    <3>1. PICK again \in {0, heap[txnode].retry} :
            heap' = [heap EXCEPT ![txnode].state = "IDLE", ![txnode].retry = again]
      BY <2>4
    <3> DEFINE b == [heap[txnode] EXCEPT !.state = "IDLE", !.retry = again]
    <3>2. txnode \in Node /\ heap[txnode] \in Block /\ heap[txnode].state # "FREE"
      BY <2>1, PendingFacts
    <3>3. again \in 0 .. MaxRetry
      BY <3>1, <3>2, TxAssumption DEF Block
    <3>4. b \in Block /\ b.kind = heap[txnode].kind /\ b.state # "FREE"
      BY <3>2, <3>3 DEF Block, BlockStates
    <3>5. heap' = [heap EXCEPT ![txnode] = b]
      BY <3>1, <3>2 DEF Block, TxInv, ListInv, ListType
    <3> HIDE DEF b
    <3> QED BY <1>1, <2>1, <2>4, <3>2, <3>4, <3>5, EditListInv DEF PendingKept
  <2> QED BY <1>3, <2>2, <2>3, <2>4 DEF TxTimeoutEnd
<1> QED BY <1>2, <1>3

LEMMA GsmListInv ==
  ASSUME TxInv, GsmProcess
  PROVE  ListInv'
<1>1. CASE Modem
  <2>1. gpc \notin {"write", "flash"} /\ gpc' # "write"
    BY <1>1, NotBlocked DEF Modem, ModemStep, Switch, SwitchTarget, PowerOnEnd,
      PowerOffEnd, CsqEnd, ModemConnects, GprsEnd, SocketEnd, ConnectError,
      AtBegin, AtEnd, AtRefused, AtWork, Busy
  <2> QED BY <1>1, <2>1, InvFacts, ListKept DEF Modem, txvars, PendingKept
<1>2. CASE TxWriteFailed
  <2>1. gpc' # "write"
    BY <1>2, NotBlocked DEF TxWriteFailed, WriteEnd
  <2> QED BY <1>2, <2>1, ListKept DEF TxWriteFailed, PendingKept
<1> QED
  BY <1>1, <1>2, TimeoutListInv, PollListInv, BlockListInv, SentListInv, FlashListInv
  DEF GsmProcess, TxDataProc, TxBlockedEnd

-----------------------------------------------------------------------------
(* The steps of the other threads keep the list. *)

(* The answer to an announcement may find its block freed meanwhile, and   *)
(* the picture in its place.                                               *)
LEMMA ApplyListInv ==
  ASSUME TxInv, RxApply
  PROVE  ListInv'
<1>1. /\ UNCHANGED <<txnode, tx_seq, gpc>> /\ rx.node \in Node
      /\ heap \in [Node -> Block] /\ tx_seq \in Sn
  BY DEF RxApply, SessionAnswer, linkvars, TxInv, MailInv, ListInv, ListType
<1>2. CASE heap' = Answered(heap, rx.node, rx.kind, rx.sn) /\ UNCHANGED list
  BY <1>1, <1>2, AnswerListInv
<1>3. CASE \E n \in FreeNodes :
             /\ heap' = Answered([heap EXCEPT ![n] = NewBlock("picture", 0)],
                                 rx.node, rx.kind, rx.sn)
             /\ list' = Inserted("picture", n)
  <2> DEFINE new == NewBlock("picture", 0)
  <2>1. PICK n \in FreeNodes :
          /\ heap' = Answered([heap EXCEPT ![n] = new], rx.node, rx.kind, rx.sn)
          /\ list' = Inserted("picture", n)
    BY <1>3
  <2>2. new \in Block /\ new.kind = "picture" /\ new.state # "FREE"
    BY NewBlockType, TxAssumption DEF Kinds, Sn
  <2> HIDE DEF new
  <2> DEFINE blocks == [heap EXCEPT ![n] = new]
  <2>3. n \in Node /\ heap[n].state = "FREE" /\ "picture" \in Kinds
    BY DEF FreeNodes, Kinds
  <2>4. /\ Links(list', blocks)
        /\ \A m \in Node : Leads(list, heap, m) => Leads(list', blocks, m)
    BY <1>1, <2>1, <2>2, <2>3, InsertLinks DEF TxInv, ListInv
  <2>5. blocks \in [Node -> Block] /\ heap' = Answered(blocks, rx.node, rx.kind, rx.sn)
    BY <1>1, <2>1, <2>2
  <2> HIDE DEF blocks
  <2>6. /\ heap' \in [Node -> Block] /\ Links(list', heap')
        /\ \A m \in Node : Leads(list', blocks, m) => Leads(list', heap', m)
    <3>1. CASE heap' = blocks
      BY <2>4, <2>5, <3>1
    <3>2. CASE heap' # blocks
      <4>1. PICK b \in Block :
              /\ blocks[rx.node].state # "FREE" /\ heap' = [blocks EXCEPT ![rx.node] = b]
              /\ b.kind = blocks[rx.node].kind /\ b.state = "ACK_OK"
        <5>1. \/ Answered(blocks, rx.node, rx.kind, rx.sn) = blocks
              \/ /\ blocks[rx.node].state # "FREE"
                 /\ \E b \in Block :
                      /\ Answered(blocks, rx.node, rx.kind, rx.sn)
                           = [blocks EXCEPT ![rx.node] = b]
                      /\ b.kind = blocks[rx.node].kind /\ b.state = "ACK_OK"
          <6>1. PICK n2 \in Node, k \in Kinds, sn \in Sn :
                  rx.node = n2 /\ rx.kind = k /\ rx.sn = sn
            BY <1>1 DEF TxInv, MailInv
          <6>2. \/ Answered(blocks, n2, k, sn) = blocks
                \/ /\ blocks[n2].state # "FREE"
                   /\ \E b \in Block :
                        /\ Answered(blocks, n2, k, sn) = [blocks EXCEPT ![n2] = b]
                        /\ b.kind = blocks[n2].kind /\ b.state = "ACK_OK"
            BY <2>5, AnsweredFacts
          <6> QED BY <6>1, <6>2
        <5> QED BY <5>1, <2>5, <3>2
      <4>2. heap' \in [Node -> Block]
        BY <4>1, <2>5
      <4>3. b.state # "FREE"
        BY <4>1
      <4>4. /\ Links(list', [blocks EXCEPT ![rx.node] = b])
            /\ \A m \in Node : Leads(list', blocks, m)
                 => Leads(list', [blocks EXCEPT ![rx.node] = b], m)
        BY <1>1, <2>4, <2>5, <4>1, <4>3, EditLinks
      <4> QED BY <4>1, <4>2, <4>4
    <3> QED BY <3>1, <3>2
  <2>7. PendingInv /\ txnode \in Node \cup {Nil}
    BY DEF TxInv, ListInv, ListType
  <2>8. /\ gpc' = "write" => txnode' # Nil
        /\ txnode' # Nil => gpc' \in {"write", "flash"} /\ Leads(list', heap', txnode')
    BY <1>1, <2>4, <2>6, <2>7 DEF PendingInv
  <2> QED
    BY <1>1, <2>6, <2>7, <2>8 DEF ListInv, ListType, Links, Leads, PendingInv
<1> QED BY <1>2, <1>3 DEF RxApply

LEMMA NextPacketListInv ==
  ASSUME TxInv, RxNextPacket
  PROVE  ListInv'
<1>1. /\ UNCHANGED <<list, txnode, tx_seq, gpc>> /\ rx.node \in Node
      /\ heap \in [Node -> Block]
  BY DEF RxNextPacket, linkvars, TxInv, MailInv, ListInv, ListType
<1>2. CASE heap' = heap
  BY <1>1, <1>2, ListKept DEF PendingKept
<1>3. CASE /\ heap[rx.node].state # "FREE"
           /\ \E state \in {"IDLE", "WAIT_ACK", "ACK_OK"}, retry \in {0, heap[rx.node].retry} :
                heap' = [heap EXCEPT ![rx.node] =
                           [heap[rx.node] EXCEPT !.state = state, !.retry = retry]]
  <2>1. PICK state \in {"IDLE", "WAIT_ACK", "ACK_OK"}, retry \in {0, heap[rx.node].retry} :
          heap' = [heap EXCEPT ![rx.node] =
                     [heap[rx.node] EXCEPT !.state = state, !.retry = retry]]
    BY <1>3
  <2> DEFINE b == [heap[rx.node] EXCEPT !.state = state, !.retry = retry]
  <2>2. heap[rx.node] \in Block /\ retry \in 0 .. MaxRetry
    BY <1>1, <2>1, TxAssumption DEF Block
  <2>3. b \in Block /\ b.kind = heap[rx.node].kind /\ b.state # "FREE"
    BY <2>1, <2>2 DEF Block, BlockStates
  <2>4. heap' = [heap EXCEPT ![rx.node] = b]
    BY <2>1
  <2> HIDE DEF b
  <2> QED BY <1>1, <1>3, <2>3, <2>4, EditListInv DEF PendingKept
<1>4. \/ heap' = heap
      \/ /\ heap[rx.node].state # "FREE"
         /\ \E state \in {"IDLE", "WAIT_ACK", "ACK_OK"}, retry \in {0, heap[rx.node].retry} :
              heap' = [heap EXCEPT ![rx.node] =
                         [heap[rx.node] EXCEPT !.state = state, !.retry = retry]]
  <2>1. heap[rx.node] \in Block
    BY <1>1
  <2>2. CASE heap[rx.node].state = "FREE"
    BY <2>2 DEF RxNextPacket
  <2>3. CASE heap[rx.node].state # "FREE"
           /\ heap' = [heap EXCEPT ![rx.node].state = "IDLE", ![rx.node].retry = 0]
    <3>1. heap' = [heap EXCEPT ![rx.node] = [heap[rx.node] EXCEPT !.state = "IDLE", !.retry = 0]]
      BY <1>1, <2>1, <2>3 DEF Block
    <3> QED BY <2>3, <3>1
  <2>4. CASE heap[rx.node].state # "FREE" /\ \E state \in {"WAIT_ACK", "ACK_OK"} :
           heap' = [heap EXCEPT ![rx.node].state = state]
    <3>1. PICK state \in {"WAIT_ACK", "ACK_OK"} :
            heap' = [heap EXCEPT ![rx.node].state = state]
      BY <2>4
    <3>2. heap' = [heap EXCEPT ![rx.node] = [heap[rx.node] EXCEPT
                     !.state = state, !.retry = heap[rx.node].retry]]
      BY <1>1, <2>1, <3>1 DEF Block
    <3> QED BY <2>4, <3>1, <3>2
  <2> QED BY <2>2, <2>3, <2>4 DEF RxNextPacket
<1> QED BY <1>2, <1>3, <1>4

LEMMA Jt808ListInv ==
  ASSUME TxInv, Jt808Process
  PROVE  ListInv'
<1>1. CASE RxNothing \/ RxUnmatched \/ RxFind \/ SocketWait
  BY <1>1, ListKept
  DEF RxNothing, RxUnmatched, RxFind, SocketWait, linkvars, txvars, PendingKept
<1>2. CASE RxQuery
  <2>1. PendingKept
    BY <1>2 DEF RxQuery, linkvars, PendingKept
  <2> QED BY <1>2, <2>1, ListKept, AddListInv DEF RxQuery, Kinds
<1>3. CASE RxAuth
  <2>1. UNCHANGED <<list, txnode, tx_seq, gpc>>
    BY <1>3 DEF RxAuth, SessionAnswer
  <2>2. PICK n \in Node : heap' = Answered(heap, n, Head(mbox).kind, Head(mbox).sn)
    BY <1>3 DEF RxAuth, Matches
  <2> QED BY <2>1, <2>2, AnswerListInv
<1>4. CASE SocketStep
  <2>1. PendingKept
    BY <1>4 DEF SocketStep, RequestPowerOn, RequestGprs, RequestConnect,
                ConnectFailed, MasterPassed, Connected, PendingKept
  <2>2. CASE UNCHANGED <<heap, list, tx_seq>>
    BY <2>1, <2>2, ListKept
  <2>3. CASE AddTx("register") \/ AddTx("auth") \/ AddTx("answer")
    BY <2>1, <2>3, AddListInv DEF Kinds
  <2>4. jt808_state \in SessionStates
    BY DEF TxInv, LinkTypeOK
  <2> QED BY <2>2, <2>3, <2>4, <1>4 DEF SocketStep, SessionStates
<1> QED
  BY <1>1, <1>2, <1>3, <1>4, ApplyListInv, NextPacketListInv DEF Jt808Process

LEMMA ListStep == ASSUME TxInv, [Next]_vars PROVE ListInv'
<1>1. CASE UNCHANGED vars
  BY <1>1, ListKept DEF vars, linkvars, txvars, PendingKept
<1>2. CASE AddCommand
  <2>1. PICK kind \in Queued : AddTx(kind)
    BY <1>2 DEF AddCommand
  <2>2. kind \in Kinds
    BY <2>1, TxAssumption DEF Kinds
  <2>3. PendingKept
    BY <1>2 DEF AddCommand, linkvars, PendingKept
  <2> QED BY <2>1, <2>2, <2>3, AddListInv
<1>3. CASE PlatformAnswers \/ PlatformAsks
  BY <1>3, ListKept
  DEF PlatformAnswers, PlatformAsks, linkvars, txvars, PendingKept
<1>4. CASE ConnectionLost \/ OtherLinkEvent
  BY <1>4, ListKept
  DEF ConnectionLost, OtherLinkEvent, Closed, SmsOpensAux, RequestPowerOff,
      txvars, PendingKept
<1> QED BY <1>1, <1>2, <1>3, <1>4, GsmListInv, Jt808ListInv DEF Next

-----------------------------------------------------------------------------
(* The mailbox and the platform. *)

LEMMA PostType ==
  ASSUME MailInv, NEW m \in Message, Post(m)
  PROVE  mbox' \in Seq(Message) /\ Len(mbox') <= MboxSize
<1>1. CASE Len(mbox) < MboxSize
  BY <1>1, TxAssumption DEF MailInv, Post
<1>2. CASE ~(Len(mbox) < MboxSize)
  BY <1>2 DEF MailInv, Post
<1> QED BY <1>1, <1>2

LEMMA TakeType ==
  ASSUME MailInv, mbox # <<>>
  PROVE  /\ Tail(mbox) \in Seq(Message) /\ Len(Tail(mbox)) <= MboxSize
         /\ Head(mbox) \in Message
BY TxAssumption DEF MailInv

LEMMA MailStep == ASSUME TxInv, [Next]_vars PROVE MailInv'
<1>0. MailInv
  BY DEF TxInv
<1>1. CASE UNCHANGED vars
  BY <1>0, <1>1 DEF vars, rxvars, platform, MailInv
<1>2. CASE Modem
  BY <1>0, <1>2 DEF Modem, rxvars, platform, MailInv
<1>3. CASE TxDataProc \/ TxReportEnd \/ TxTimeoutEnd
  BY <1>0, <1>3
  DEF TxDataProc, TxEmpty, TxReport, TxHold, TxSend, TxTimeout, TxTimeoutFlash,
      TxRemove, TxReportEnd, TxTimeoutEnd, rxvars, platform, MailInv
<1>4. CASE TxSent \/ TxWriteFailed
  <2>1. Arrives(txnode) /\ UNCHANGED <<rxvars, authed>> /\ gpc = "write"
    BY <1>4 DEF TxSent, TxWriteFailed, WriteEnd
  <2>2. txnode \in Node /\ heap[txnode] \in Block
    BY <2>1 DEF TxInv, ListInv, ListType, PendingInv
  <2>3. owed' \subseteq [kind : Kinds, sn : Sn]
    BY <1>0, <2>1, <2>2 DEF Arrives, MailInv, Block
  <2> QED BY <1>0, <2>1, <2>3 DEF rxvars, MailInv
<1>5. CASE RxNothing \/ SocketStep \/ SocketWait
  BY <1>0, <1>5 DEF RxNothing, SocketStep, SocketWait, platform, MailInv
<1>6. CASE RxQuery \/ RxUnmatched \/ RxAuth
  BY <1>0, <1>6, TakeType DEF RxQuery, RxUnmatched, RxAuth, platform, MailInv
<1>7. CASE RxFind
  BY <1>0, <1>7, TakeType DEF RxFind, Matches, Message, platform, MailInv
<1>8. CASE RxApply \/ RxNextPacket
  <2>1. NoAnswer \in [node : Node \cup {Nil}, kind : Kinds, sn : Sn]
    BY TxAssumption DEF NoAnswer, Kinds, EndKinds, Sn
  <2> QED BY <1>0, <1>8, <2>1 DEF RxApply, RxNextPacket, platform, MailInv
<1>9. CASE PlatformAnswers
  <2>1. PICK m \in owed, ok \in BOOLEAN :
          /\ owed' = owed \ {m} /\ Post(Answer(m, ok))
          /\ authed' = (authed \/ (m.kind = "auth" /\ ok))
    BY <1>9 DEF PlatformAnswers
  <2>2. Answer(m, ok) \in Message
    BY <1>0, <2>1 DEF MailInv, Answer, Message
  <2>3. authed' \in BOOLEAN
    BY <2>1
  <2>4. UNCHANGED <<jpc, rx>>
    BY <1>9 DEF PlatformAnswers
  <2>5. mbox' \in Seq(Message) /\ Len(mbox') <= MboxSize
    BY <1>0, <2>1, <2>2, PostType
  <2> QED BY <1>0, <2>1, <2>3, <2>4, <2>5 DEF MailInv
<1>10. CASE PlatformAsks
  <2>1. PICK type \in Queries : Post(Query(type))
    BY <1>10 DEF PlatformAsks
  <2>2. Query(type) \in Message
    BY TxAssumption DEF Query, Message, Kinds, Sn
  <2>3. mbox' \in Seq(Message) /\ Len(mbox') <= MboxSize
    BY <1>0, <2>1, <2>2, PostType
  <2> QED BY <1>0, <1>10, <2>3 DEF PlatformAsks, platform, MailInv
<1>11. CASE AddCommand \/ ConnectionLost \/ OtherLinkEvent
  BY <1>0, <1>11
  DEF AddCommand, ConnectionLost, OtherLinkEvent, rxvars, platform, MailInv
<1> QED BY <1>1, <1>2, <1>3, <1>4, <1>5, <1>6, <1>7, <1>8, <1>9, <1>10, <1>11
        DEF Next, GsmProcess, TxBlockedEnd, Jt808Process

-----------------------------------------------------------------------------
LEMMA TxInvInit == Init => TxInv
<1> SUFFICES ASSUME Init PROVE TxInv
  OBVIOUS
<1>1. LinkTypeOK /\ gpc # "write"
  BY LinkTypeInit DEF Init, LinkInit
<1>2. MailInv
  <2>1. NoAnswer \in [node : Node \cup {Nil}, kind : Kinds, sn : Sn]
    BY TxAssumption DEF NoAnswer, Kinds, EndKinds, Sn
  <2>2. <<>> \in Seq(Message) /\ Len(<<>>) = 0 /\ 0 <= MboxSize
    BY TxAssumption
  <2> QED BY <2>1, <2>2 DEF Init, MailInv
<1>3. ListInv
  BY <1>1, FreeBlockType, TxAssumption
  DEF Init, ListInv, ListType, Links, PendingInv, Sn
<1> QED BY <1>1, <1>2, <1>3 DEF TxInv

LEMMA TxInvStep == TxInv /\ [Next]_vars => TxInv'
<1> SUFFICES ASSUME TxInv, [Next]_vars PROVE TxInv'
  OBVIOUS
<1>1. LinkTypeOK'
  BY LinkBelow, LinkTypeStep DEF TxInv
<1>2. ListInv' /\ MailInv'
  BY ListStep, MailStep
<1> QED BY <1>1, <1>2 DEF TxInv

LEMMA TxInvariant == Spec => []TxInv
BY TxInvInit, TxInvStep, PTL DEF Spec

(* The variables of the session and of its transmit list keep their types: *)
(* among them the mailbox, which never holds more than its eight slots.    *)
THEOREM TypeInvariant == Spec => []TypeOK
<1>1. TxInv => TypeOK BY InvFacts
<1> QED BY <1>1, TxInvariant, PTL

(* Whatever the gsm and the jt808 thread do to the list in turns, it links *)
(* live blocks only, each once (jt808.c:1339-1401).                        *)
THEOREM ListStaysLive == Spec => []ListIsLive
<1>1. TxInv => ListIsLive BY InvFacts
<1> QED BY <1>1, TxInvariant, PTL

(* No message of the kinds put at the end of the list is unlinked with a   *)
(* message in front of it: the head of the list becomes node->next         *)
(* (jt808.c:1394), but what another thread put in front meanwhile is an    *)
(* answer, a registration or a picture (jt808.c:371-381).                  *)
THEOREM CommandsAreKept == Spec => []CommandsStayQueued
<1>1. TxInv => CommandsStayQueued BY InvFacts
<1> QED BY <1>1, TxInvariant, PTL

-----------------------------------------------------------------------------
(* What a step does to one block. *)

Writes(n) == gpc = "write" /\ n = txnode

(* The handler of a picture keeps the pointer to its block while it waits  *)
(* for the flash memory.                                                   *)
PagedRx ==
  rx.kind \in PagedKinds /\ rx.node \in Node
    => heap[rx.node].state = "FREE" \/ heap[rx.node].kind \in PagedKinds

Renewed(n) ==
  /\ heap'[n].state = "FREE" \/ n \in FreeNodes
  /\ heap'[n].kind \in Kinds
  /\ heap'[n].retry = 0 /\ heap'[n].times = 0 /\ ~heap'[n].acked

AnswerOf(n) ==
  /\ heap[n].state # "FREE"
  /\ heap'[n].kind = heap[n].kind /\ heap'[n].state = "ACK_OK"
  /\ heap'[n].retry = heap[n].retry /\ heap'[n].times = heap[n].times
  /\ heap'[n].acked =>
       heap[n].acked \/ (heap[n].kind \notin PagedKinds /\ ~Writes(n))

SentOnce(n) ==
  /\ heap[n].state # "FREE" /\ Writes(n) /\ ~Writes(n)'
  /\ heap'[n].kind = heap[n].kind /\ heap'[n].state = "WAIT_ACK"
  /\ heap'[n].retry = heap[n].retry /\ heap'[n].acked = heap[n].acked
  /\ heap'[n].times = IF heap[n].kind \in PagedKinds THEN heap[n].times
                      ELSE heap[n].times + 1

TriedAgain(n) ==
  /\ heap[n].state = "WAIT_ACK" /\ heap'[n].kind = heap[n].kind
  /\ heap[n].retry + 1 < RetryLimit(heap[n].kind)
  /\ heap'[n].retry = heap[n].retry + 1
  /\ heap'[n].times = heap[n].times /\ heap'[n].acked = heap[n].acked

NextPacket(n) ==
  /\ heap[n].kind \in PagedKinds /\ heap'[n].kind = heap[n].kind
  /\ heap'[n].retry \in {0, heap[n].retry}
  /\ heap'[n].times = heap[n].times /\ heap'[n].acked = heap[n].acked

BlockStep(n) ==
  \/ heap'[n] = heap[n]
  \/ Renewed(n) \/ AnswerOf(n) \/ SentOnce(n) \/ TriedAgain(n) \/ NextPacket(n)

LEMMA FreeSteps ==
  ASSUME TxInv, NEW n \in Node, heap' = [heap EXCEPT ![n] = FreeBlock]
  PROVE  \A m \in Node : BlockStep(m)
<1>1. \A m \in Node : heap'[m] = IF m = n THEN FreeBlock ELSE heap[m]
  BY DEF TxInv, ListInv, ListType
<1>2. Renewed(n)
  BY <1>1 DEF Renewed, FreeBlock, Kinds, EndKinds
<1> QED BY <1>1, <1>2 DEF BlockStep

LEMMA AddSteps ==
  ASSUME TxInv, NEW kind \in Kinds, AddTx(kind)
  PROVE  \A m \in Node : BlockStep(m)
<1>1. CASE heap' = heap
  BY <1>1 DEF BlockStep
<1>2. CASE \E n \in FreeNodes, sn \in Nat : heap' = [heap EXCEPT ![n] = NewBlock(kind, sn)]
  <2>1. PICK n \in FreeNodes, sn \in Nat : heap' = [heap EXCEPT ![n] = NewBlock(kind, sn)]
    BY <1>2
  <2>2. \A m \in Node : heap'[m] = IF m = n THEN NewBlock(kind, sn) ELSE heap[m]
    BY <2>1 DEF TxInv, ListInv, ListType
  <2>3. n \in Node => Renewed(n)
    BY <2>2 DEF Renewed, NewBlock
  <2> QED BY <2>2, <2>3 DEF BlockStep
<1>3. heap' = heap \/ \E n \in FreeNodes, sn \in Nat : heap' = [heap EXCEPT ![n] = NewBlock(kind, sn)]
  BY TxAssumption DEF AddTx, TxInv, ListInv, ListType, Sn
<1> QED BY <1>1, <1>2, <1>3

LEMMA AnswerSteps ==
  ASSUME TxInv, NEW n \in Node, NEW kind, NEW sn, kind \notin PagedKinds,
         heap' = Answered(heap, n, kind, sn)
  PROVE  \A m \in Node : BlockStep(m)
<1>1. heap \in [Node -> Block]
  BY DEF TxInv, ListInv, ListType
<1>2. CASE heap' = heap
  BY <1>2 DEF BlockStep
<1>3. CASE heap' # heap
  <2>1. PICK b \in Block :
          /\ heap[n].state # "FREE" /\ heap' = [heap EXCEPT ![n] = b]
          /\ b.kind = heap[n].kind /\ b.state = "ACK_OK"
          /\ b.retry = heap[n].retry /\ b.times = heap[n].times
          /\ b.acked => \/ heap[n].acked
                        \/ heap[n].kind = kind /\ ~(gpc = "write" /\ n = txnode)
    BY <1>1, <1>3, AnsweredFacts
  <2>2. \A m \in Node : heap'[m] = IF m = n THEN b ELSE heap[m]
    BY <1>1, <2>1
  <2>3. AnswerOf(n)
    BY <2>1, <2>2 DEF AnswerOf, Writes
  <2> QED BY <2>2, <2>3 DEF BlockStep
<1> QED BY <1>2, <1>3

(* A write begins in TxSend only. *)
LEMMA WriteBegins ==
  ASSUME TxInv, [Next]_vars, gpc' = "write"
  PROVE  TxSend \/ UNCHANGED <<gpc, txnode>>
<1>1. CASE UNCHANGED vars
  BY <1>1 DEF vars, linkvars, txvars
<1>2. CASE Modem
  <2>1. gpc' # "write"
    BY <1>2, NotBlocked DEF Modem, ModemStep, Switch, SwitchTarget, PowerOnEnd,
      PowerOffEnd, CsqEnd, ModemConnects, GprsEnd, SocketEnd, AtBegin, AtEnd,
      AtRefused, AtWork, Busy
  <2> QED BY <2>1
<1>3. CASE TxDataProc
  <2>1. CASE TxSend
    BY <2>1
  <2>2. CASE ~TxSend
    <3>1. gpc' # "write"
      BY <1>3, <2>2, NotBlocked
      DEF TxDataProc, TxEmpty, TxReport, TxHold, TxTimeout, TxTimeoutFlash,
          TxRemove, TxPoll, TxFlash
    <3> QED BY <3>1
  <2> QED BY <2>1, <2>2
<1>4. CASE TxBlockedEnd
  <2>1. gpc' # "write"
    BY <1>4, NotBlocked
    DEF TxBlockedEnd, TxSent, TxWriteFailed, TxReportEnd, TxTimeoutEnd,
        WriteEnd, TxFlashEnd
  <2> QED BY <2>1
<1>5. CASE Jt808Process
  BY <1>5
  DEF Jt808Process, RxNothing, RxQuery, RxUnmatched, RxAuth, RxFind, RxApply,
      RxNextPacket, SocketStep, SocketWait, RequestPowerOn, RequestGprs,
      RequestConnect, ConnectFailed, MasterPassed, Connected, SessionAnswer,
      linkvars, txvars
<1>6. CASE AddCommand \/ PlatformAnswers \/ PlatformAsks
  BY <1>6 DEF AddCommand, PlatformAnswers, PlatformAsks, linkvars, txvars
<1>7. CASE ConnectionLost \/ OtherLinkEvent
  BY <1>7 DEF ConnectionLost, OtherLinkEvent, Closed, SmsOpensAux,
              RequestPowerOff, txvars
<1> QED BY <1>1, <1>2, <1>3, <1>4, <1>5, <1>6, <1>7 DEF Next, GsmProcess

LEMMA WritesKept ==
  ASSUME TxInv, [Next]_vars, ~TxSend
  PROVE  \A n \in Node : Writes(n)' => Writes(n)
BY WriteBegins DEF Writes

LEMMA TimeoutSteps ==
  ASSUME TxInv, TxTimeout
  PROVE  \A m \in Node : BlockStep(m)
<1>1. list # <<>> /\ heap[First].state = "WAIT_ACK"
  BY DEF TxTimeout, TimedOut
<1>2. First \in Node /\ heap[First] \in Block /\ heap \in [Node -> Block]
  BY <1>1, FirstFacts DEF TxInv, ListInv, ListType
<1>3. CASE LastTime(First)
  BY <1>2, <1>3, FreeSteps DEF TxTimeout, Free
<1>4. CASE ~LastTime(First)
  <2>1. heap' = [heap EXCEPT ![First].state = "IDLE", ![First].retry = @ + 1]
    BY <1>4 DEF TxTimeout
  <2>2. \A m \in Node : m # First => heap'[m] = heap[m]
    BY <1>2, <2>1
  <2>3. TriedAgain(First)
    BY <1>1, <1>2, <1>4, <2>1, RetryFacts DEF TriedAgain, Block
  <2> QED BY <2>2, <2>3 DEF BlockStep
<1> QED BY <1>3, <1>4

LEMMA SentSteps ==
  ASSUME TxInv, TxSent
  PROVE  \A m \in Node : BlockStep(m)
<1>1. /\ gpc = "write" /\ gpc' # "write" /\ txnode # Nil
      /\ heap \in [Node -> Block]
  BY NotBlocked DEF TxInv, ListInv, ListType, PendingInv, TxSent, WriteEnd
<1>2. txnode \in Node /\ heap[txnode] \in Block /\ heap[txnode].state # "FREE"
  BY <1>1, PendingFacts
<1>3. CASE heap[txnode].kind \in AckKinds
  BY <1>2, <1>3, FreeSteps DEF TxSent, Free
<1>4. CASE heap[txnode].kind \notin AckKinds
  <2>1. heap' = [heap EXCEPT ![txnode].state = "WAIT_ACK", ![txnode].times =
                   IF heap[txnode].kind \in PagedKinds THEN @ ELSE @ + 1]
    BY <1>4 DEF TxSent
  <2>2. \A m \in Node : m # txnode => heap'[m] = heap[m]
    BY <1>1, <2>1
  <2>3. /\ heap'[txnode].kind = heap[txnode].kind
        /\ heap'[txnode].state = "WAIT_ACK"
        /\ heap'[txnode].retry = heap[txnode].retry
        /\ heap'[txnode].acked = heap[txnode].acked
        /\ heap'[txnode].times = IF heap[txnode].kind \in PagedKinds
             THEN heap[txnode].times ELSE heap[txnode].times + 1
    BY <1>1, <1>2, <2>1 DEF Block
  <2>4. ASSUME NEW m \in Node, m = txnode PROVE SentOnce(m)
    BY <1>1, <1>2, <2>3, <2>4 DEF SentOnce, Writes
  <2> QED BY <2>2, <2>4 DEF BlockStep
<1> QED BY <1>3, <1>4

LEMMA TimeoutEndSteps ==
  ASSUME TxInv, TxTimeoutEnd
  PROVE  \A m \in Node : BlockStep(m)
<1>1. /\ txnode \in Node /\ heap[txnode] \in Block /\ heap[txnode].state # "FREE"
      /\ heap \in [Node -> Block]
  BY PendingFacts DEF TxTimeoutEnd, TxInv, ListInv, ListType
<1>2. CASE Free(txnode)
  BY <1>1, <1>2, FreeSteps DEF Free
<1>3. CASE FreeAnnouncement(txnode)
  <2>1. PICK n \in FreeNodes :
          heap' = [heap EXCEPT ![n] = NewBlock("picture", 0), ![txnode] = FreeBlock]
    BY <1>3 DEF FreeAnnouncement
  <2>2. n \in Node /\ n # txnode
    BY <1>1 DEF FreeNodes
  <2>3. \A m \in Node : heap'[m] = IF m = txnode THEN FreeBlock
          ELSE IF m = n THEN NewBlock("picture", 0) ELSE heap[m]
    BY <1>1, <2>1, <2>2
  <2>4. Renewed(n)
    BY <2>2, <2>3 DEF Renewed, NewBlock, Kinds
  <2>5. ASSUME NEW m \in Node, m = txnode PROVE Renewed(m)
    BY <2>3, <2>5 DEF Renewed, FreeBlock, Kinds, EndKinds
  <2> QED BY <2>3, <2>4, <2>5 DEF BlockStep
<1>4. CASE /\ heap[txnode].kind \in PagedKinds
           /\ \E again \in {0, heap[txnode].retry} :
                heap' = [heap EXCEPT ![txnode].state = "IDLE",
                                     ![txnode].retry = again]
  <2>1. PICK again \in {0, heap[txnode].retry} :
          heap' = [heap EXCEPT ![txnode].state = "IDLE", ![txnode].retry = again]
    BY <1>4
  <2>2. \A m \in Node : m # txnode => heap'[m] = heap[m]
    BY <1>1, <2>1
  <2>3. NextPacket(txnode)
    BY <1>1, <1>4, <2>1 DEF NextPacket, Block
  <2>4. ASSUME NEW m \in Node, m = txnode PROVE NextPacket(m)
    BY <2>3, <2>4 DEF NextPacket
  <2> QED BY <2>2, <2>4 DEF BlockStep
<1> QED BY <1>2, <1>3, <1>4 DEF TxTimeoutEnd

LEMMA ApplySteps ==
  ASSUME TxInv, RxApply
  PROVE  \A m \in Node : BlockStep(m)
<1>1. heap \in [Node -> Block] /\ rx.kind \notin PagedKinds
  BY DEF RxApply, TxInv, ListInv, ListType
<1>2. PICK node \in Node, kind \in Kinds, sn \in Sn :
        rx.node = node /\ rx.kind = kind /\ rx.sn = sn
  BY DEF RxApply, TxInv, MailInv
<1>3. CASE heap' = Answered(heap, rx.node, rx.kind, rx.sn)
  BY <1>1, <1>2, <1>3, AnswerSteps
<1>4. CASE \E n \in FreeNodes :
             heap' = Answered([heap EXCEPT ![n] = NewBlock("picture", 0)],
                              rx.node, rx.kind, rx.sn)
  <2> DEFINE new == NewBlock("picture", 0)
  <2>1. PICK n \in FreeNodes :
          heap' = Answered([heap EXCEPT ![n] = new], node, kind, sn)
    BY <1>2, <1>4
  <2>2. /\ new \in Block /\ new.kind = "picture" /\ new.state # "FREE"
        /\ new.retry = 0 /\ new.times = 0 /\ new.acked = FALSE
    BY NewBlockType, TxAssumption DEF Kinds, Sn, NewBlock
  <2> HIDE DEF new
  <2> DEFINE blocks == [heap EXCEPT ![n] = new]
  <2>3. blocks \in [Node -> Block] /\ n \in Node
    BY <1>1, <2>2 DEF FreeNodes
  <2>4. \A m \in Node : blocks[m] = IF m = n THEN new ELSE heap[m]
    BY <1>1
  <2>5. heap' = Answered(blocks, node, kind, sn) /\ kind \notin PagedKinds
    BY <1>1, <1>2, <2>1
  <2> HIDE DEF blocks
  <2>6. CASE heap' = blocks
    <3>1. Renewed(n)
      BY <2>2, <2>3, <2>4, <2>6 DEF Renewed, Kinds
    <3> QED BY <2>4, <2>6, <3>1 DEF BlockStep
  <2>7. CASE heap' # blocks
    <3>1. PICK b \in Block :
            /\ blocks[node].state # "FREE" /\ heap' = [blocks EXCEPT ![node] = b]
            /\ b.kind = blocks[node].kind /\ b.state = "ACK_OK"
            /\ b.retry = blocks[node].retry /\ b.times = blocks[node].times
            /\ b.acked => \/ blocks[node].acked
                          \/ /\ blocks[node].kind = kind
                             /\ ~(gpc = "write" /\ node = txnode)
      BY <2>3, <2>5, <2>7, AnsweredFacts
    <3>2. \A m \in Node : heap'[m] = IF m = node THEN b ELSE blocks[m]
      BY <2>3, <3>1
    <3>3. CASE node = n
      <4>1. ~b.acked
        BY <2>2, <2>4, <2>5, <3>1, <3>3 DEF PagedKinds
      <4>2. Renewed(n)
        BY <2>2, <2>3, <2>4, <3>1, <3>2, <3>3, <4>1 DEF Renewed, Kinds
      <4> QED BY <2>4, <3>2, <3>3, <4>2 DEF BlockStep
    <3>4. CASE node # n
      <4>1. AnswerOf(node)
        BY <2>4, <2>5, <3>1, <3>2, <3>4 DEF AnswerOf, Writes
      <4>2. Renewed(n)
        BY <2>2, <2>3, <2>4, <3>2, <3>4 DEF Renewed, Kinds
      <4> QED BY <2>4, <3>2, <4>1, <4>2 DEF BlockStep
    <3> QED BY <3>3, <3>4
  <2> QED BY <2>6, <2>7
<1> QED BY <1>3, <1>4 DEF RxApply

LEMMA NextPacketSteps ==
  ASSUME TxInv, PagedRx, RxNextPacket
  PROVE  \A m \in Node : BlockStep(m)
<1>1. heap \in [Node -> Block] /\ rx.kind \in PagedKinds
  BY DEF RxNextPacket, TxInv, ListInv, ListType
<1>2. PICK n \in Node : rx.node = n
  BY DEF RxNextPacket, TxInv, MailInv
<1>3. CASE heap[n].state = "FREE"
  BY <1>2, <1>3 DEF RxNextPacket, BlockStep
<1>4. CASE heap[n].state # "FREE"
  <2>1. heap[n].kind \in PagedKinds /\ heap[n] \in Block
    BY <1>1, <1>2, <1>4 DEF PagedRx
  <2>2. \A m \in Node : m # n => heap'[m] = heap[m]
    BY <1>1, <1>2, <1>4 DEF RxNextPacket
  <2>3. NextPacket(n)
    <3>1. CASE heap' = [heap EXCEPT ![n].state = "IDLE", ![n].retry = 0]
      BY <1>1, <2>1, <3>1 DEF NextPacket, Block
    <3>2. CASE \E state \in {"WAIT_ACK", "ACK_OK"} :
                 heap' = [heap EXCEPT ![n].state = state]
      BY <1>1, <2>1, <3>2 DEF NextPacket, Block
    <3> QED BY <1>2, <1>4, <3>1, <3>2 DEF RxNextPacket
  <2> QED BY <2>2, <2>3 DEF BlockStep
<1> QED BY <1>3, <1>4

LEMMA BlockSteps ==
  ASSUME TxInv, PagedRx, [Next]_vars
  PROVE  \A m \in Node : BlockStep(m)
<1>1. CASE heap' = heap
  BY <1>1 DEF BlockStep
<1>2. CASE heap' # heap
  <2>1. CASE GsmProcess
    <3>1. CASE TxTimeout \/ TxSent \/ TxTimeoutEnd
      BY <3>1, TimeoutSteps, SentSteps, TimeoutEndSteps
    <3>2. CASE TxRemove
      BY <3>2, FirstFacts, FreeSteps DEF TxRemove, Free
    <3>3. CASE TxReportEnd
      <4>1. AddTx("cmd") /\ "cmd" \in Kinds
        BY <1>2, <3>3 DEF TxReportEnd, Kinds, EndKinds
      <4> QED BY <4>1, AddSteps
    <3>4. CASE Modem \/ TxEmpty \/ TxReport \/ TxHold \/ TxSend \/ TxTimeoutFlash
               \/ TxWriteFailed
      BY <1>2, <3>4
      DEF Modem, TxEmpty, TxReport, TxHold, TxSend, TxTimeoutFlash,
          TxWriteFailed, txvars
    <3> QED
      BY <2>1, <3>1, <3>2, <3>3, <3>4 DEF GsmProcess, TxDataProc, TxBlockedEnd
  <2>2. CASE Jt808Process
    <3>1. CASE RxApply \/ RxNextPacket
      BY <3>1, ApplySteps, NextPacketSteps
    <3>2. CASE RxQuery
      <4>1. AddTx("answer") /\ "answer" \in Kinds
        BY <1>2, <3>2 DEF RxQuery, Kinds
      <4> QED BY <4>1, AddSteps
    <3>3. CASE RxAuth
      <4>1. PICK n \in Node : heap' = Answered(heap, n, Head(mbox).kind, Head(mbox).sn)
        BY <3>3 DEF RxAuth, Matches
      <4>2. Head(mbox).kind \notin PagedKinds
        BY <3>3 DEF RxAuth, PagedKinds
      <4> QED BY <4>1, <4>2, AnswerSteps
    <3>4. CASE SocketStep
      <4>1. jt808_state \in SessionStates
        BY DEF TxInv, LinkTypeOK
      <4>2. AddTx("register") \/ AddTx("auth") \/ AddTx("answer")
        BY <1>2, <3>4, <4>1 DEF SocketStep, SessionStates
      <4> QED BY <4>2, AddSteps DEF Kinds
    <3>5. CASE RxNothing \/ RxUnmatched \/ RxFind \/ SocketWait
      BY <1>2, <3>5 DEF RxNothing, RxUnmatched, RxFind, SocketWait, txvars
    <3> QED BY <2>2, <3>1, <3>2, <3>3, <3>4, <3>5 DEF Jt808Process
  <2>3. CASE AddCommand
    <3>1. PICK kind \in Kinds : AddTx(kind)
      BY <2>3, TxAssumption DEF AddCommand, Kinds
    <3> QED BY <3>1, AddSteps
  <2>4. CASE PlatformAnswers \/ PlatformAsks \/ ConnectionLost \/ OtherLinkEvent
             \/ UNCHANGED vars
    BY <1>2, <2>4
    DEF PlatformAnswers, PlatformAsks, ConnectionLost, OtherLinkEvent, txvars, vars
  <2> QED BY <2>1, <2>2, <2>3, <2>4 DEF Next
<1> QED BY <1>1, <1>2

LEMMA PagedRxStep ==
  ASSUME TxInv, PagedRx, [Next]_vars
  PROVE  PagedRx'
<1>1. CASE rx' = rx
  <2> SUFFICES ASSUME rx.kind \in PagedKinds, rx.node \in Node
               PROVE  \/ heap'[rx.node].state = "FREE"
                      \/ heap'[rx.node].kind \in PagedKinds
    BY <1>1 DEF PagedRx
  <2>1. rx.node \notin FreeNodes \/ heap'[rx.node].state = "FREE"
    BY DEF FreeNodes
  <2>2. BlockStep(rx.node)
    BY BlockSteps
  <2>3. heap[rx.node].state = "FREE" \/ heap[rx.node].kind \in PagedKinds
    BY DEF PagedRx
  <2> QED
    BY <2>1, <2>2, <2>3
    DEF BlockStep, Renewed, AnswerOf, SentOnce, TriedAgain, NextPacket
<1>2. CASE rx' # rx
  <2>1. CASE RxFind
    BY <2>1 DEF RxFind, Matches, PagedRx, txvars
  <2>2. CASE RxApply \/ RxNextPacket
    BY <2>2 DEF RxApply, RxNextPacket, NoAnswer, PagedRx, PagedKinds
  <2> QED
    BY <1>2, <2>1, <2>2
    DEF Next, vars, GsmProcess, Modem, TxDataProc, TxEmpty, TxReport, TxHold,
        TxSend, TxTimeout, TxTimeoutFlash, TxRemove, TxBlockedEnd, TxSent,
        TxWriteFailed, TxReportEnd, TxTimeoutEnd, Jt808Process, RxNothing, RxQuery,
        RxUnmatched, RxAuth, SocketStep, SocketWait, AddCommand, PlatformAnswers,
        PlatformAsks, ConnectionLost, OtherLinkEvent, rxvars
<1> QED BY <1>1, <1>2

-----------------------------------------------------------------------------
(* A message is sent once for each of its tries.  The answer to an earlier *)
(* try may mark the block while it is being written, and the end of that   *)
(* write then makes it wait again (jt808.c:1361): the tries still bound    *)
(* the transmissions, because one write counts one of them.  A block for   *)
(* several packets counts none: its tries begin anew with every packet.    *)

Tried(b, writing) ==
  /\ b.retry < RetryLimit(b.kind)
  /\ b.times <= b.retry + 1
  /\ b.state = "IDLE" \/ writing => b.times <= b.retry
  /\ b.kind \in PagedKinds => b.times = 0

(* A block whose answer was handled while it was not written stays ACK_OK  *)
(* until it is freed: the timeout leaves it alone, and the gsm thread does *)
(* not begin to write it.                                                  *)
Marked(b, writing) ==
  b.acked => b.state = "ACK_OK" /\ ~writing /\ b.kind \notin PagedKinds

BlockInv ==
  PagedRx /\ \A n \in Node : Tried(heap[n], Writes(n)) /\ Marked(heap[n], Writes(n))

LEMMA BlockInvInit == Init => BlockInv
<1> SUFFICES ASSUME Init PROVE BlockInv
  OBVIOUS
<1>1. FreeBlock.kind \in Kinds
  BY DEF FreeBlock, Kinds, EndKinds
<1>2. \A w \in BOOLEAN : Tried(FreeBlock, w) /\ Marked(FreeBlock, w)
  BY <1>1, LimitFacts DEF Tried, Marked, FreeBlock
<1>3. \A n \in Node : heap[n] = FreeBlock /\ Writes(n) \in BOOLEAN
  BY DEF Init, Writes
<1>4. PagedRx
  BY DEF Init, PagedRx, NoAnswer, PagedKinds
<1> QED BY <1>2, <1>3, <1>4 DEF BlockInv

(* No other step makes a block written that was not. *)
LEMMA BlockKept ==
  ASSUME TxInv, NEW n \in Node, BlockStep(n), Writes(n)' => Writes(n),
         Tried(heap[n], Writes(n)), Marked(heap[n], Writes(n))
  PROVE  Tried(heap'[n], Writes(n)') /\ Marked(heap'[n], Writes(n)')
<1>1. heap[n] \in Block /\ heap[n].retry \in Nat /\ heap[n].times \in Nat
  BY TxAssumption DEF TxInv, ListInv, ListType, Block
<1>2. RetryLimit(heap[n].kind) \in Nat \ {0}
  BY <1>1, LimitFacts DEF Block
<1>3. Writes(n) \in BOOLEAN /\ Writes(n)' \in BOOLEAN
  BY DEF Writes
<1>4. CASE heap'[n] = heap[n]
  BY <1>4 DEF Tried, Marked
<1>5. CASE Renewed(n)
  <2>1. RetryLimit(heap'[n].kind) \in Nat \ {0}
    BY <1>5, LimitFacts DEF Renewed
  <2> QED BY <2>1, <1>5 DEF Renewed, Tried, Marked
<1>6. CASE AnswerOf(n)
  BY <1>1, <1>6 DEF AnswerOf, Tried, Marked
<1>7. CASE SentOnce(n)
  BY <1>1, <1>7 DEF SentOnce, Tried, Marked
<1>8. CASE TriedAgain(n)
  BY <1>1, <1>2, <1>8 DEF TriedAgain, Tried, Marked
<1>9. CASE NextPacket(n)
  BY <1>1, <1>2, <1>9 DEF NextPacket, Tried, Marked
<1> QED BY <1>4, <1>5, <1>6, <1>7, <1>8, <1>9 DEF BlockStep

LEMMA BlockInvStep == TxInv /\ BlockInv /\ [Next]_vars => BlockInv'
<1> SUFFICES ASSUME TxInv, BlockInv, [Next]_vars PROVE BlockInv'
  OBVIOUS
<1>1. PagedRx'
  BY PagedRxStep DEF BlockInv
<1>2. CASE TxSend
  <2>1. /\ heap' = heap /\ txnode' = First /\ heap[First].state = "IDLE"
        /\ list # <<>> /\ gpc = "tx"
    BY <1>2 DEF TxSend, WriteBegin
  <2>2. ASSUME NEW n \in Node
        PROVE  Tried(heap[n], Writes(n)') /\ Marked(heap[n], Writes(n)')
    <3>1. Tried(heap[n], Writes(n)) /\ Marked(heap[n], Writes(n)) /\ ~Writes(n)
      BY <2>1 DEF BlockInv, Writes
    <3>2. Writes(n)' => n = First
      BY <2>1 DEF Writes
    <3> QED BY <2>1, <3>1, <3>2 DEF Tried, Marked
  <2> QED BY <1>1, <2>1, <2>2 DEF BlockInv
<1>3. CASE ~TxSend
  <2>1. ASSUME NEW n \in Node
        PROVE  Tried(heap'[n], Writes(n)') /\ Marked(heap'[n], Writes(n)')
    <3>1. BlockStep(n) /\ (Writes(n)' => Writes(n))
      BY <1>3, BlockSteps, WritesKept DEF BlockInv
    <3> QED BY <3>1, BlockKept DEF BlockInv
  <2> QED BY <1>1, <2>1 DEF BlockInv
<1> QED BY <1>2, <1>3

LEMMA BlockInvariant == Spec => []BlockInv
<1>1. TxInv /\ BlockInv /\ [Next]_vars => BlockInv'
  BY BlockInvStep
<1> QED BY <1>1, BlockInvInit, TxInvariant, PTL DEF Spec

(* No single message is transmitted more often than its max_retry allows   *)
(* (jt808.c:281), whatever timeouts, answers, failed writes and            *)
(* reconnections come in between.                                          *)
THEOREM SendsAreBounded == Spec => []RetryBound
<1>1. TxInv /\ BlockInv => RetryBound
  <2> SUFFICES ASSUME TxInv, BlockInv, NEW n \in Node
               PROVE  heap[n].times <= RetryLimit(heap[n].kind)
    BY DEF RetryBound
  <2>1. heap[n] \in Block /\ Tried(heap[n], Writes(n))
    BY DEF TxInv, ListInv, ListType, BlockInv
  <2>2. RetryLimit(heap[n].kind) \in Nat /\ heap[n].retry \in Nat /\ heap[n].times \in Nat
    BY <2>1, LimitFacts, TxAssumption DEF Block
  <2> QED BY <2>1, <2>2 DEF Tried
<1> QED BY <1>1, TxInvariant, BlockInvariant, PTL

(* A single message is not sent again after its answer was handled         *)
(* (jt808.c:447, 1372), unless that happened while it was being written.   *)
THEOREM AnsweredIsNotSentAgain == Spec => AckedNotSentAgain
<1>1. TxInv /\ BlockInv /\ [Next]_vars
      => [gpc # "write" /\ gpc' = "write" => ~heap[txnode'].acked]_vars
  <2> SUFFICES ASSUME TxInv, BlockInv, Next, gpc # "write", gpc' = "write"
               PROVE  ~heap[txnode'].acked
    OBVIOUS
  <2>1. TxSend
    BY WriteBegins
  <2>2. First \in Node /\ txnode' = First /\ heap[First].state = "IDLE"
    BY <2>1, FirstFacts DEF TxSend
  <2> QED BY <2>2 DEF BlockInv, Marked
<1> QED BY <1>1, TxInvariant, BlockInvariant, PTL DEF Spec, AckedNotSentAgain

-----------------------------------------------------------------------------
(* Reports are sent on an authenticated connection.  The session is in     *)
(* REPORT only on a connection the platform accepted: the acceptance the   *)
(* jt808 thread takes from the mailbox is the one of the connection at     *)
(* hand, since every way a connection ends leaves no such answer behind    *)
(* unless answers may go stale.                                            *)

Accepts(m) == m.type = "answer" /\ m.kind = "auth" /\ m.ok

DialsUnconnected ==
  gpc \in {"socket", "connect"} /\ dial = "master" => sock # "CONNECTED"
MailIsOfConnection == SessionMail => sock = "CONNECTED"
AcceptanceIsOfConnection ==
  \A i \in DOMAIN mbox : Accepts(mbox[i]) => authed
ReportIsAccepted == jt808_state = "REPORT" => sock = "CONNECTED" /\ authed

AuthInv ==
  /\ DialsUnconnected /\ MailIsOfConnection
  /\ AcceptanceIsOfConnection /\ ReportIsAccepted

(* A step that changes neither the connection nor the session. *)
LEMMA AuthKept ==
  ASSUME AuthInv, UNCHANGED <<sock, jt808_state, mbox, rx, authed>>,
         gpc' \in {"socket", "connect"} => gpc' = gpc /\ dial' = dial
  PROVE  AuthInv'
BY DEF AuthInv, DialsUnconnected, MailIsOfConnection, SessionMail,
       AcceptanceIsOfConnection, ReportIsAccepted

(* A step that ends a connection, with no answer to the session waiting,   *)
(* or that does not touch one.                                             *)
LEMMA AuthReset ==
  ASSUME AuthInv, ~SessionMail, UNCHANGED <<mbox, rx>>,
         sock' # "CONNECTED", jt808_state' # "REPORT"
  PROVE  AuthInv'
<1>1. ~SessionMail'
  BY DEF SessionMail
<1>2. \A i \in DOMAIN mbox' : ~Accepts(mbox'[i])
  BY <1>1 DEF SessionMail, Accepts
<1> QED
  BY <1>1, <1>2 DEF AuthInv, DialsUnconnected, MailIsOfConnection,
     AcceptanceIsOfConnection, ReportIsAccepted

(* Taking the first message leaves answers that were there. *)
LEMMA TakenMail ==
  ASSUME mbox \in Seq(Message), mbox # <<>>
  PROVE  \A i \in DOMAIN Tail(mbox) : \E j \in DOMAIN mbox : Tail(mbox)[i] = mbox[j]
<1>1. ASSUME NEW i \in DOMAIN Tail(mbox) PROVE Tail(mbox)[i] = mbox[i + 1] /\ i + 1 \in DOMAIN mbox
  OBVIOUS
<1> QED BY <1>1

LEMMA AuthTaken ==
  ASSUME AuthInv, mbox \in Seq(Message), mbox # <<>>, mbox' = Tail(mbox),
         UNCHANGED <<sock, authed, gpc, dial>>,
         jt808_state' = "REPORT" => sock = "CONNECTED" /\ authed,
         \/ rx' = rx
         \/ rx'.kind = "register" => Head(mbox).kind = "register"
  PROVE  AuthInv'
<1>1. \A i \in DOMAIN mbox' : \E j \in DOMAIN mbox : mbox'[i] = mbox[j]
  BY TakenMail
<1>2. Head(mbox) = mbox[1] /\ 1 \in DOMAIN mbox
  OBVIOUS
<1>3. SessionMail' => SessionMail
  BY <1>1, <1>2 DEF SessionMail
<1> QED
  BY <1>1, <1>3 DEF AuthInv, DialsUnconnected, MailIsOfConnection,
     AcceptanceIsOfConnection, ReportIsAccepted

(* A message that arrives: of the session only on a connection the         *)
(* terminal believes in, an acceptance only with what it accepts.          *)
LEMMA AuthPosted ==
  ASSUME AuthInv, mbox \in Seq(Message), NEW m, Post(m),
         UNCHANGED <<sock, jt808_state, rx, gpc, dial>>,
         authed => authed', Accepts(m) => authed',
         m.kind \in {"register", "auth"} => sock = "CONNECTED"
  PROVE  AuthInv'
<1>1. \A i \in DOMAIN mbox' : mbox'[i] = m \/ \E j \in DOMAIN mbox : mbox'[i] = mbox[j]
  <2>1. CASE mbox' = mbox
    BY <2>1
  <2>2. CASE mbox' = Append(mbox, m)
    <3>1. DOMAIN mbox' = 1 .. Len(mbox) + 1 /\ Len(mbox) \in Nat
      BY <2>2
    <3>2. ASSUME NEW i \in 1 .. Len(mbox) + 1
          PROVE  mbox'[i] = IF i = Len(mbox) + 1 THEN m ELSE mbox[i]
      BY <2>2
    <3> QED BY <3>1, <3>2
  <2> QED BY <2>1, <2>2 DEF Post
<1>2. SessionMail' => SessionMail \/ m.kind \in {"register", "auth"}
  BY <1>1 DEF SessionMail
<1> QED
  BY <1>1, <1>2 DEF AuthInv, DialsUnconnected, MailIsOfConnection,
     AcceptanceIsOfConnection, ReportIsAccepted

(* The modem: only SocketEnd writes gsm_socket[0], and what it was to      *)
(* connect was not connected; a modem without power has no connection.     *)
LEMMA AuthModem ==
  ASSUME TxInv, ConnectionInv, ConnectionInv', AuthInv, Modem
  PROVE  AuthInv'
<1>1. ModemStep /\ UNCHANGED <<mbox, rx, jt808_state>>
  <2>1. ModemStep => UNCHANGED jt808_state
    BY DEF ModemStep, Switch, PowerOnEnd, PowerOffEnd, CsqEnd, ModemConnects,
           GprsEnd, SocketEnd, AtBegin, AtEnd, AtRefused, session
  <2> QED BY <2>1 DEF Modem, rxvars
<1>2. DialInv /\ ConnectedIsOpen' /\ LinkTypeOK
  BY DEF ConnectionInv
<1>3. sock = "CONNECTED" => sock' = "CONNECTED"
  <2>1. CASE \E ok \in BOOLEAN : SocketEnd(ok)
    <3>1. gpc \in {"socket", "connect"}
      BY <2>1 DEF SocketEnd, ConnectError
    <3> QED BY <2>1, <3>1, <1>2 DEF SocketEnd, DialInv, AuthInv, DialsUnconnected
  <2>2. CASE ~\E ok \in BOOLEAN : SocketEnd(ok)
    <3>1. UNCHANGED sock
      BY <1>1, <2>2 DEF ModemStep, Switch, PowerOnEnd, PowerOffEnd, CsqEnd,
         ModemConnects, GprsEnd, AtBegin, AtEnd, AtRefused, sockets
    <3> QED BY <3>1
  <2> QED BY <2>1, <2>2
<1>4. DialsUnconnected'
  <2>1. CASE Switch
    <3>1. gpc' = "socket" => PcurrState = "PEER" /\ dial' = pcurr
      BY <2>1 DEF Switch, SwitchTarget
    <3>2. gpc' # "connect" /\ sock' = sock
      BY <2>1 DEF Switch, SwitchTarget, sockets
    <3> QED BY <3>1, <3>2 DEF DialsUnconnected, PcurrState
  <2>2. CASE ModemConnects
    BY <2>2 DEF ModemConnects, AuthInv, DialsUnconnected, sockets
  <2>3. CASE ~Switch /\ ~ModemConnects
    <3>1. \A place \in AtWork \cup {"tx"} : WorkAfter(place) \subseteq AtWork \cup {"delay"}
      BY WorkAfterType
    <3>2. gpc' \notin {"socket", "connect"}
      BY <2>3, <1>1, <3>1 DEF ModemStep, PowerOnEnd, PowerOffEnd, CsqEnd,
         GprsEnd, SocketEnd, AtBegin, AtEnd, AtRefused, AtWork, Busy
    <3> QED BY <3>2 DEF DialsUnconnected
  <2> QED BY <2>1, <2>2, <2>3
<1>5. sock = "CONNECTED" => authed' = authed
  <2>1. sock = "CONNECTED" => mopen' # {}
    BY <1>2, <1>3 DEF ConnectedIsOpen
  <2> QED BY <2>1 DEF Modem, platform
<1>6. SessionMail' <=> SessionMail
  BY <1>1 DEF SessionMail
<1>7. ASSUME NEW i \in DOMAIN mbox', Accepts(mbox'[i]) PROVE authed'
  <2>1. i \in DOMAIN mbox /\ Accepts(mbox[i])
    BY <1>1, <1>7
  <2>2. authed /\ SessionMail
    BY <2>1 DEF AuthInv, AcceptanceIsOfConnection, SessionMail, Accepts
  <2> QED BY <2>2, <1>5 DEF AuthInv, MailIsOfConnection
<1>8. ReportIsAccepted'
  BY <1>1, <1>3, <1>5 DEF AuthInv, ReportIsAccepted
<1> QED
  BY <1>3, <1>4, <1>6, <1>7, <1>8
  DEF AuthInv, MailIsOfConnection, AcceptanceIsOfConnection

LEMMA AuthStep ==
  ASSUME "stale" \notin Disturbances
  PROVE  TxInv /\ ConnectionInv /\ ConnectionInv' /\ AuthInv /\ [Next]_vars => AuthInv'
<1> SUFFICES ASSUME TxInv, ConnectionInv, ConnectionInv', AuthInv, [Next]_vars
             PROVE  AuthInv'
  OBVIOUS
<1>0. mbox \in Seq(Message) /\ OnlineInv /\ LinkTypeOK
  BY DEF TxInv, MailInv, ConnectionInv
<1>1. CASE UNCHANGED vars
  BY <1>1, AuthKept DEF vars, linkvars, sockets, session, modem, rxvars, platform
<1>2. CASE Modem
  BY <1>2, AuthModem
<1>3. CASE TxDataProc
  <2>1. /\ gpc' \notin {"socket", "connect"} /\ UNCHANGED <<sock, mbox, rx, authed>>
    BY <1>3, NotBlocked
    DEF TxDataProc, TxEmpty, TxReport, TxHold, TxSend, TxTimeout, TxTimeoutFlash,
        TxRemove, TxPoll, TxFlash, WriteBegin, rxvars, platform, sockets
  <2>2. jt808_state' = jt808_state \/ jt808_state' # "REPORT"
    BY <1>3
    DEF TxDataProc, TxEmpty, TxReport, TxHold, TxSend, TxTimeout, TxTimeoutFlash,
        TxRemove, TxPoll, TxFlash, WriteBegin, session
  <2> QED
    BY <2>1, <2>2 DEF AuthInv, DialsUnconnected, MailIsOfConnection, SessionMail,
       AcceptanceIsOfConnection, ReportIsAccepted
<1>4. CASE TxSent \/ TxReportEnd \/ TxTimeoutEnd
  <2>1. /\ gpc' \notin {"socket", "connect"}
        /\ UNCHANGED <<sock, jt808_state, mbox, rx, authed>>
    BY <1>4, NotBlocked
    DEF TxSent, TxReportEnd, TxTimeoutEnd, WriteEnd, TxFlashEnd, Gsmstate,
        rxvars, platform, sockets, session
  <2> QED BY <2>1, AuthKept
<1>5. CASE TxWriteFailed
  <2>1. ~SessionMail /\ UNCHANGED <<mbox, rx>>
    BY <1>5 DEF TxWriteFailed, MailMayGoStale, rxvars
  <2>2. sock' = "IDLE" /\ jt808_state' = FirstSession
    BY <1>5 DEF TxWriteFailed, WriteEnd, Gsmstate, SocketParaInit
  <2> QED BY <2>1, <2>2, AuthReset DEF FirstSession
<1>6. CASE RxNothing \/ SocketWait \/ AddCommand
  BY <1>6, AuthKept
  DEF RxNothing, SocketWait, AddCommand, linkvars, sockets, session, modem,
      rxvars, platform
<1>7. CASE RxQuery \/ RxUnmatched
  <2>1. /\ mbox # <<>> /\ mbox' = Tail(mbox) /\ rx' = rx
        /\ UNCHANGED <<sock, jt808_state, authed, gpc, dial>>
    BY <1>7 DEF RxQuery, RxUnmatched, linkvars, sockets, session, modem,
                txvars, platform
  <2> QED BY <2>1, <1>0, AuthTaken DEF AuthInv, ReportIsAccepted
<1>8. CASE RxFind
  <2>1. /\ mbox # <<>> /\ mbox' = Tail(mbox) /\ rx'.kind = Head(mbox).kind
        /\ UNCHANGED <<sock, jt808_state, authed, gpc, dial>>
    BY <1>8 DEF RxFind, linkvars, sockets, session, modem, platform
  <2> QED BY <2>1, <1>0, AuthTaken DEF AuthInv, ReportIsAccepted
<1>9. CASE RxAuth
  <2>1. /\ mbox # <<>> /\ mbox' = Tail(mbox) /\ rx' = rx
        /\ UNCHANGED <<sock, authed, gpc, dial>>
    BY <1>9 DEF RxAuth, SessionAnswer, sockets, modem, platform
  <2>2. sock = "CONNECTED"
    BY <1>9 DEF RxAuth, SessionAnswer, Disturb
  <2>3. jt808_state' = "REPORT" => authed
    <3> SUFFICES ASSUME jt808_state' = "REPORT" PROVE authed
      OBVIOUS
    <3>1. Accepts(Head(mbox))
      BY <1>9 DEF RxAuth, AuthAnswered, Accepts
    <3>2. Head(mbox) = mbox[1] /\ 1 \in DOMAIN mbox
      BY <2>1, <1>0
    <3> QED BY <3>1, <3>2 DEF AuthInv, AcceptanceIsOfConnection
  <2> QED BY <2>1, <2>2, <2>3, <1>0, AuthTaken
<1>10. CASE RxApply \/ RxNextPacket
  <2>1. /\ rx' = NoAnswer /\ UNCHANGED <<sock, mbox, authed, gpc, dial>>
        /\ jt808_state' = "AUTH" \/ jt808_state' = jt808_state
    BY <1>10 DEF RxApply, RxNextPacket, SessionAnswer, Registered, linkvars, sockets,
                 session, modem, platform
  <2>2. SessionMail' => SessionMail
    BY <2>1 DEF SessionMail, NoAnswer
  <2> QED
    BY <2>1, <2>2 DEF AuthInv, DialsUnconnected, MailIsOfConnection,
       AcceptanceIsOfConnection, ReportIsAccepted
<1>11. CASE SocketStep
  <2>1. UNCHANGED <<mbox, rx, authed, gpc, dial>>
    BY <1>11 DEF SocketStep, RequestPowerOn, RequestGprs, RequestConnect,
       ConnectFailed, MasterPassed, Connected, modem, platform
  <2>2. CASE RequestPowerOn \/ RequestConnect \/ ConnectFailed
    <3>1. sock # "CONNECTED"
      BY <2>2, <1>0 DEF RequestPowerOn, RequestConnect, ConnectFailed, OnlineInv,
                        SomeConnected
    <3>2. ~SessionMail /\ jt808_state # "REPORT"
      BY <3>1 DEF AuthInv, MailIsOfConnection, ReportIsAccepted
    <3>3. sock' # "CONNECTED" /\ jt808_state' # "REPORT"
      BY <2>2, <3>1, <3>2 DEF RequestPowerOn, RequestConnect, ConnectFailed, Gsmstate,
                  SocketParaInit, FirstSession
    <3> QED BY <2>1, <3>2, <3>3, AuthReset
  <2>3. CASE RequestGprs \/ MasterPassed
    BY <2>1, <2>3, AuthKept DEF RequestGprs, MasterPassed, sockets, session
  <2>4. CASE Connected
    <3>1. sock' = sock /\ (jt808_state' = "REPORT" => jt808_state = "REPORT")
      BY <2>4 DEF Connected
    <3> QED
      BY <2>1, <3>1 DEF AuthInv, DialsUnconnected, MailIsOfConnection,
         SessionMail, AcceptanceIsOfConnection, ReportIsAccepted
  <2> QED BY <1>11, <2>2, <2>3, <2>4 DEF SocketStep
<1>12. CASE PlatformAnswers
  <2>1. PICK m \in owed, ok \in BOOLEAN :
          /\ m.kind \notin DataKinds => sock = "CONNECTED"
          /\ Post(Answer(m, ok))
          /\ authed' = (authed \/ (m.kind = "auth" /\ ok))
    BY <1>12 DEF PlatformAnswers
  <2>2. UNCHANGED <<sock, jt808_state, rx, gpc, dial>>
    BY <1>12 DEF PlatformAnswers, linkvars, sockets, session, modem
  <2>3. /\ Answer(m, ok).kind = m.kind
        /\ Accepts(Answer(m, ok)) => m.kind = "auth" /\ ok
    BY DEF Answer, Accepts
  <2> QED BY <2>1, <2>2, <2>3, <1>0, AuthPosted DEF DataKinds
<1>13. CASE PlatformAsks
  <2>1. PICK type \in Queries : Post(Query(type))
    BY <1>13 DEF PlatformAsks
  <2>2. UNCHANGED <<sock, jt808_state, rx, gpc, dial, authed>>
    BY <1>13 DEF PlatformAsks, linkvars, sockets, session, modem, platform
  <2>3. Query(type).kind = "answer" /\ ~Accepts(Query(type))
    BY DEF Query, Accepts
  <2> QED BY <2>1, <2>2, <2>3, <1>0, AuthPosted
<1>14. CASE ConnectionLost
  BY <1>14, AuthReset DEF ConnectionLost, MailMayGoStale, Closed, rxvars
<1>15. CASE OtherLinkEvent
  <2>1. UNCHANGED <<mbox, rx, authed, gpc, dial>>
    BY <1>15 DEF OtherLinkEvent, SmsOpensAux, Closed, RequestPowerOff, modem,
                 rxvars, platform
  <2>2. CASE SmsOpensAux \/ Closed("aux")
    <3>1. UNCHANGED <<sock, jt808_state>>
      BY <2>2 DEF SmsOpensAux, Closed, session
    <3> QED BY <2>1, <3>1, AuthKept
  <2>3. CASE RequestPowerOff /\ MailMayGoStale
    BY <2>1, <2>3, AuthReset
    DEF MailMayGoStale, RequestPowerOff, Gsmstate, SocketParaInit, FirstSession
  <2> QED BY <1>15, <2>2, <2>3 DEF OtherLinkEvent
<1> QED BY <1>1, <1>2, <1>3, <1>4, <1>5, <1>6, <1>7, <1>8, <1>9, <1>10, <1>11,
           <1>12, <1>13, <1>14, <1>15
        DEF Next, GsmProcess, TxBlockedEnd, Jt808Process

(* Messages other than registration and authentication are sent only on a  *)
(* connection on which the platform accepted an authentication             *)
(* (jt808.c:1037), if no answer outlives the connection it came on.        *)
THEOREM DataIsAuthenticated ==
  ASSUME "stale" \notin Disturbances
  PROVE  Spec => DataAfterAuth
<1>1. Init => AuthInv
  <2> SUFFICES ASSUME Init PROVE AuthInv
    OBVIOUS
  <2>1. mbox = <<>> /\ rx.node = Nil /\ gpc = "delay" /\ jt808_state # "REPORT"
    BY DEF Init, LinkInit, FirstSession, NoAnswer
  <2> QED
    BY <2>1 DEF AuthInv, DialsUnconnected, MailIsOfConnection, SessionMail,
       AcceptanceIsOfConnection, ReportIsAccepted
<1>2. Init => ConnectionInv
  BY ConnectionInit DEF Init
<1>3. ConnectionInv /\ [Next]_vars => ConnectionInv'
  BY LinkBelow, ConnectionStep
<1>4. TxInv /\ TxInv' /\ AuthInv /\ [Next]_vars
      => [gpc # "write" /\ gpc' = "write" /\ heap[txnode'].kind \in DataKinds
          => authed]_vars
  <2> SUFFICES ASSUME TxInv, TxInv', AuthInv, Next, gpc # "write", gpc' = "write",
                      heap[txnode'].kind \in DataKinds
               PROVE  authed
    OBVIOUS
  <2>1. TxSend
    BY WriteBegins
  <2> QED BY <2>1 DEF TxSend, MaySend, AuthInv, ReportIsAccepted
<1> QED BY <1>1, <1>2, <1>3, <1>4, AuthStep, TxInvariant, PTL DEF Spec, DataAfterAuth

=============================================================================
