-------------------------- MODULE MultiPacketRx_proofs --------------------------
(***************************************************************************)
(* Theorems about MultiPacketRx, for every size of the buffer, the marks   *)
(* and the packets, and every number of messages, losses and repetitions.  *)
(***************************************************************************)
EXTENDS MultiPacketRx, TLAPS

(* A packet in the buffer: its message and its number.                     *)
Part == [no : Nat, num : Nat \ {0}]
Rx == [id : Ids \cup {Nobody}, total : 0 .. MaxTotal, last : Nat,
       wr : 0 .. BufSize - 1, mark : SUBSET (1 .. MarkBits - 1), buf : Seq(Part)]

(* The first packet of a message is the first one in the buffer; what is   *)
(* behind it is of that message or a later one.                            *)
Ordered(buf, no) ==
  \A k \in DOMAIN buf :
    /\ buf[k].num = 1 => k = 1
    /\ buf[1].no <= buf[k].no /\ buf[k].no <= no

TypeInv ==
  /\ rx \in Rx /\ rx.last = Len(rx.buf)
  /\ message \in Message /\ next \in 1 .. MaxTotal + 1
  /\ intact \in BOOLEAN /\ events \in 0 .. MaxEvents
  /\ handed \in Seq(Seq(Part))

OrderInv == Ordered(rx.buf, message.no)

PacketInv == TypeInv /\ OrderInv /\ HandedIsUnmixed

LEMMA PartNumbers ==
  ASSUME NEW buf \in Seq(Part), NEW k \in DOMAIN buf
  PROVE  buf[k].no \in Nat
<1>1. buf[k] \in Part
  OBVIOUS
<1> QED BY <1>1 DEF Part

-----------------------------------------------------------------------------
(* A message with its packets joined in this order is whole.               *)

LEMMA OrderedIsWhole ==
  ASSUME NEW buf \in Seq(Part), buf # <<>>, NEW no \in Nat, Ordered(buf, no),
         buf[Len(buf)].no = no,
         NEW j \in DOMAIN buf, buf[j] = [no |-> no, num |-> 1],
         NEW k \in DOMAIN buf
  PROVE  buf[k].no = no
<1>1. j = 1 /\ buf[1].no = no
  BY DEF Ordered
<1>2. buf[k].no \in Nat
  BY PartNumbers
<1> QED BY <1>1, <1>2 DEF Ordered

LEMMA OrderedAppend ==
  ASSUME NEW buf \in Seq(Part), NEW no \in Nat, Ordered(buf, no),
         NEW n \in Nat \ {0}, n = 1 => buf = <<>>
  PROVE  Ordered(Append(buf, [no |-> no, num |-> n]), no)
<1> DEFINE p == [no |-> no, num |-> n]
           longer == Append(buf, p)
<1>1. /\ DOMAIN longer = 1 .. Len(buf) + 1 /\ longer[Len(buf) + 1] = p
      /\ \A k \in 1 .. Len(buf) : longer[k] = buf[k] /\ k \in DOMAIN buf
      /\ Len(buf) \in Nat
  OBVIOUS
<1>2. longer[1].no <= no
  <2>1. CASE buf = <<>>
    BY <1>1, <2>1
  <2>2. CASE buf # <<>>
    BY <1>1, <2>2 DEF Ordered
  <2> QED BY <2>1, <2>2
<1>3. ASSUME NEW k \in DOMAIN longer
      PROVE  /\ longer[k].num = 1 => k = 1
             /\ longer[1].no <= longer[k].no /\ longer[k].no <= no
  <2>1. CASE k = Len(buf) + 1
    BY <1>1, <1>2, <2>1
  <2>2. CASE k \in 1 .. Len(buf)
    <3>1. 1 \in DOMAIN buf /\ longer[1] = buf[1] /\ longer[k] = buf[k] /\ k \in DOMAIN buf
      BY <1>1, <2>2
    <3> QED BY <3>1 DEF Ordered
  <2> QED BY <1>1, <1>3, <2>1, <2>2
<1> QED BY <1>3 DEF Ordered

-----------------------------------------------------------------------------
(* jt808_rx_proc for a packet.                                             *)

LEMMA BegunType ==
  ASSUME TypeInv, OrderInv, NEW n \in Nat \ {0}
  PROVE  /\ Begun(n) \in Rx /\ Begun(n).last = Len(Begun(n).buf)
         /\ Ordered(Begun(n).buf, message.no)
         /\ n = 1 => Begun(n).buf = <<>>
<1>1. CASE StartsOver(n)
  <2>1. Begun(n) = RxStart(message.id, message.total)
    BY <1>1 DEF Begun
  <2>2. HeadSize \in 0 .. BufSize - 1
    BY PacketAssumption
  <2>3. message.id \in Ids /\ message.total \in 0 .. MaxTotal
    BY PacketAssumption DEF TypeInv, Message
  <2>4. RxStart(message.id, message.total) \in Rx
    BY <2>2, <2>3 DEF RxStart, Rx
  <2>5. Begun(n).buf = <<>> /\ Begun(n).last = 0
    BY <2>1 DEF RxStart
  <2> QED BY <2>1, <2>4, <2>5 DEF Ordered
<1>2. CASE ~StartsOver(n)
  BY <1>2 DEF Begun, TypeInv, OrderInv, StartsOver
<1> QED BY <1>1, <1>2

LEMMA StoredType ==
  ASSUME TypeInv, OrderInv, NEW n \in Nat \ {0}, Fits(n)
  PROVE  /\ Stored(n) \in Rx /\ Stored(n).last = Len(Stored(n).buf)
         /\ Ordered(Stored(n).buf, message.no)
         /\ Stored(n).buf # <<>> /\ Stored(n).buf[Len(Stored(n).buf)].no = message.no
<1> DEFINE b == Begun(n)
           p == [no |-> message.no, num |-> n]
<1>1. /\ b \in Rx /\ b.last = Len(b.buf) /\ Ordered(b.buf, message.no)
      /\ n = 1 => b.buf = <<>>
  BY BegunType
<1>2. message.no \in Nat /\ message.size \in Nat
  BY PacketAssumption DEF TypeInv, Message
<1>3. p \in Part /\ b.buf \in Seq(Part) /\ b.last \in Nat /\ b.wr \in 0 .. BufSize - 1
  BY <1>1, <1>2 DEF Part, Rx
<1>4. b.wr + message.size \in 0 .. BufSize - 1
  BY <1>2, <1>3, PacketAssumption DEF Fits
<1>5. /\ Stored(n).buf = Append(b.buf, p) /\ Stored(n).last = b.last + 1
      /\ Stored(n).wr = b.wr + message.size
  BY <1>1 DEF Stored, TakenFor, Rx
<1>6. Append(b.buf, p) \in Seq(Part) /\ Len(Append(b.buf, p)) = Len(b.buf) + 1
      /\ Append(b.buf, p)[Len(b.buf) + 1] = p
  BY <1>3
<1>7. Stored(n) \in Rx
  <2> DEFINE wr == b.wr + message.size
             last == TakenFor(n)
             marks == b.mark \cup ({TakenFor(n)} \cap 1 .. MarkBits - 1)
             buf == Append(b.buf, p)
  <2>1. /\ wr \in 0 .. BufSize - 1 /\ last \in Nat
        /\ marks \in SUBSET (1 .. MarkBits - 1) /\ buf \in Seq(Part)
    BY <1>1, <1>3, <1>4, <1>6 DEF Rx, TakenFor
  <2>2. Stored(n) = [b EXCEPT !.wr = wr, !.last = last, !.mark = marks, !.buf = buf]
    BY DEF Stored
  <2> HIDE DEF b, wr, last, marks, buf
  <2> QED BY <1>1, <2>1, <2>2 DEF Rx
<1>8. Ordered(Stored(n).buf, message.no)
  BY <1>1, <1>2, <1>3, <1>5, OrderedAppend
<1> QED BY <1>1, <1>3, <1>5, <1>6, <1>7, <1>8

LEMMA PacketKeeps ==
  ASSUME PacketInv, NEW n \in Nat \ {0}, jt808_rx_proc(n), UNCHANGED message
  PROVE  /\ rx' \in Rx /\ rx'.last = Len(rx'.buf) /\ OrderInv'
         /\ handed' \in Seq(Seq(Part)) /\ HandedIsUnmixed'
<1>1. TypeInv /\ OrderInv /\ HandedIsUnmixed /\ message.no \in Nat
  BY DEF PacketInv, TypeInv, Message
<1>2. rx' \in Rx /\ rx'.last = Len(rx'.buf) /\ Ordered(rx'.buf, message.no)
  BY <1>1, BegunType, StoredType DEF jt808_rx_proc
<1>3. CASE handed' = handed
  BY <1>1, <1>2, <1>3 DEF OrderInv, HandedIsUnmixed, TypeInv
<1>4. CASE Fits(n) /\ handed' = Append(handed, Stored(n).buf)
  <2> DEFINE buf == Stored(n).buf
  <2>1. buf \in Seq(Part) /\ buf # <<>> /\ Ordered(buf, message.no)
        /\ buf[Len(buf)].no = message.no
    BY <1>1, <1>4, StoredType DEF Rx
  <2>2. \A j, k \in DOMAIN buf :
          buf[j] = [no |-> message.no, num |-> 1] => buf[k].no = message.no
    BY <1>1, <2>1, OrderedIsWhole
  <2>3. handed \in Seq(Seq(Part))
    BY <1>1 DEF TypeInv
  <2> HIDE DEF buf
  <2>4. /\ handed' \in Seq(Seq(Part)) /\ DOMAIN handed' = 1 .. Len(handed) + 1
        /\ handed'[Len(handed) + 1] = buf
        /\ \A i \in 1 .. Len(handed) : handed'[i] = handed[i] /\ i \in DOMAIN handed
    BY <1>4, <2>1, <2>3 DEF buf
  <2>5. HandedIsUnmixed'
    <3> SUFFICES ASSUME NEW i \in 1 .. Len(handed) + 1,
                        NEW j \in DOMAIN handed'[i],
                        handed'[i][j]
                          = [no |-> handed'[i][Len(handed'[i])].no, num |-> 1],
                        NEW k \in DOMAIN handed'[i]
                 PROVE  handed'[i][k].no = handed'[i][Len(handed'[i])].no
      BY <2>4 DEF HandedIsUnmixed
    <3>1. CASE i \in 1 .. Len(handed)
      BY <1>1, <2>4, <3>1 DEF HandedIsUnmixed
    <3>2. CASE i = Len(handed) + 1
      BY <2>1, <2>2, <2>4, <3>2
    <3> QED BY <2>3, <3>1, <3>2
  <2> QED BY <1>2, <2>4, <2>5 DEF OrderInv
<1> QED BY <1>3, <1>4 DEF jt808_rx_proc, Whole

LEMMA HappensType ==
  ASSUME TypeInv, NEW kind, Happens(kind)
  PROVE  events' \in 0 .. MaxEvents
BY PacketAssumption DEF TypeInv, Happens

LEMMA InitPacket ==
  ASSUME Init
  PROVE  PacketInv
<1>1. rx \in Rx /\ rx.last = Len(rx.buf) /\ rx.buf = <<>>
  <2>1. rx = [id |-> Nobody, total |-> 0, last |-> 0, wr |-> 0, mark |-> {}, buf |-> <<>>]
    BY DEF Init, RxStart
  <2>2. 0 \in 0 .. MaxTotal /\ 0 \in 0 .. BufSize - 1
    BY PacketAssumption
  <2>3. <<>> \in Seq(Part) /\ Len(<<>>) = 0
    OBVIOUS
  <2> QED BY <2>1, <2>2, <2>3 DEF Rx
<1>2. message \in Message /\ next \in 1 .. MaxTotal + 1 /\ events \in 0 .. MaxEvents
  BY PacketAssumption DEF Init, Message
<1>3. OrderInv
  BY <1>1 DEF OrderInv, Ordered
<1> QED BY <1>1, <1>2, <1>3 DEF Init, PacketInv, TypeInv, HandedIsUnmixed

LEMMA StepPacket ==
  ASSUME PacketInv, [Next]_vars
  PROVE  PacketInv'
<1>1. TypeInv /\ OrderInv /\ HandedIsUnmixed /\ next \in 1 .. MaxTotal + 1
      /\ message.total \in 1 .. MaxTotal
  BY DEF PacketInv, TypeInv, Message
<1>2. next <= message.total => next + 1 \in 1 .. MaxTotal + 1
  BY <1>1, PacketAssumption
<1>3. CASE Packet
  <2>1. next \in Nat \ {0}
    BY <1>1
  <2>2. /\ rx' \in Rx /\ rx'.last = Len(rx'.buf) /\ OrderInv'
        /\ handed' \in Seq(Seq(Part)) /\ HandedIsUnmixed'
    BY <1>3, <2>1, PacketKeeps DEF Packet
  <2> QED BY <1>1, <1>2, <1>3, <2>2 DEF Packet, PacketInv, TypeInv
<1>4. CASE Lost
  <2>1. events' \in 0 .. MaxEvents
    BY <1>1, <1>4, HappensType DEF Lost
  <2> QED
    BY <1>1, <1>2, <1>4, <2>1 DEF Lost, PacketInv, TypeInv, OrderInv, HandedIsUnmixed
<1>5. CASE Again
  <2>1. PICK n \in 1 .. next - 1 : jt808_rx_proc(n)
    BY <1>5 DEF Again
  <2>2. n \in Nat \ {0}
    BY <1>1
  <2>3. /\ rx' \in Rx /\ rx'.last = Len(rx'.buf) /\ OrderInv'
        /\ handed' \in Seq(Seq(Part)) /\ HandedIsUnmixed'
    BY <1>5, <2>1, <2>2, PacketKeeps DEF Again
  <2>4. events' \in 0 .. MaxEvents
    BY <1>1, <1>5, HappensType DEF Again
  <2> QED BY <1>1, <1>5, <2>3, <2>4 DEF Again, PacketInv, TypeInv
<1>6. CASE NextMessage
  <2>1. PICK id \in Ids, total \in 1 .. MaxTotal, size \in Sizes :
          message' = [no |-> message.no + 1, id |-> id, total |-> total, size |-> size]
    BY <1>6 DEF NextMessage
  <2>2. message.no \in Nat
    BY <1>1 DEF TypeInv, Message
  <2>3. message' \in Message /\ message'.no = message.no + 1
    BY <2>1, <2>2 DEF Message
  <2>4. events' \in 0 .. MaxEvents
    BY <1>1, <1>6, HappensType DEF NextMessage, TypeInv
  <2>5. OrderInv'
    <3>1. rx' = rx /\ rx.buf \in Seq(Part)
      BY <1>1, <1>6 DEF NextMessage, TypeInv, Rx
    <3>2. \A k \in DOMAIN rx.buf : rx.buf[k].no \in Nat
      BY <3>1, PartNumbers
    <3>3. \A k \in DOMAIN rx.buf : rx.buf[k].no <= message.no => rx.buf[k].no <= message.no + 1
      BY <2>2, <3>2
    <3> QED BY <1>1, <2>3, <3>1, <3>3 DEF OrderInv, Ordered
  <2> QED
    BY <1>1, <1>6, <2>3, <2>4, <2>5, PacketAssumption
    DEF NextMessage, PacketInv, TypeInv, HandedIsUnmixed
<1>7. CASE UNCHANGED vars
  BY <1>1, <1>7 DEF vars, PacketInv, TypeInv, OrderInv, HandedIsUnmixed
<1> QED BY <1>3, <1>4, <1>5, <1>6, <1>7 DEF Next

LEMMA PacketInvariant == Spec => []PacketInv
<1>1. Init => PacketInv
  BY InitPacket
<1>2. PacketInv /\ [Next]_vars => PacketInv'
  BY StepPacket
<1> QED BY <1>1, <1>2, PTL DEF Spec

(* Nothing is written behind the end of jt808_rx_buf and no bit beyond the *)
(* width of multi_pack_mark is set, whatever the platform sends.           *)
THEOREM PacketTypeInvariant == Spec => []TypeOK
<1>1. PacketInv => TypeOK
  BY DEF PacketInv, TypeInv, Rx, TypeOK
<1> QED BY <1>1, PacketInvariant, PTL

(* Whatever was broken off, lost or repeated before, a handler that gets   *)
(* the first packet of the message that completes gets no packet of        *)
(* another message with it (jt808.c:1246-1268).                            *)
THEOREM HandlersGetUnmixedMessages == Spec => []HandedIsUnmixed
<1>1. PacketInv => HandedIsUnmixed
  BY DEF PacketInv
<1> QED BY <1>1, PacketInvariant, PTL

-----------------------------------------------------------------------------
(* A message whose packets come once and in their order.  Its first packet *)
(* starts over, whatever was in the buffer; from then on jt808_rx_proc has *)
(* exactly the packets that came.                                          *)

Suits == /\ message.total < MarkBits
         /\ HeadSize + message.total * message.size < BufSize

(* The buffer and the marks after n packets of the message.                *)
Joined(n) == [k \in 1 .. n |-> [no |-> message.no, num |-> k]]
After(n) ==
  [id |-> message.id, total |-> message.total, last |-> n,
   wr |-> HeadSize + n * message.size, mark |-> 1 .. n, buf |-> Joined(n)]

IntactInv == intact /\ Suits /\ next > 1 => rx = After(next - 1)

LEMMA Products ==
  /\ \A n, b \in Nat : n * b \in Nat /\ (n + 1) * b = n * b + b
  /\ \A n, m, b \in Nat : n <= m => n * b <= m * b
<1>1. \A n, b \in Nat : n * b \in Nat /\ (n + 1) * b = n * b + b
  OBVIOUS
<1>2. ASSUME NEW n \in Nat, NEW m \in Nat, NEW b \in Nat, n <= m
      PROVE  n * b <= m * b
  <2>1. PICK d \in Nat : m = n + d
    <3>1. m - n \in Nat /\ m = n + (m - n)
      BY <1>2
    <3> QED BY <3>1
  <2>2. m * b = n * b + d * b /\ d * b \in Nat /\ n * b \in Nat
    BY <2>1
  <2>3. \A x, y \in Nat : x <= x + y
    OBVIOUS
  <2> QED BY <2>2, <2>3
<1> QED BY <1>1, <1>2

LEMMA JoinedNext ==
  ASSUME NEW n \in Nat
  PROVE  Append(Joined(n), [no |-> message.no, num |-> n + 1]) = Joined(n + 1)
<1> DEFINE p(k) == [no |-> message.no, num |-> k]
<1>1. Joined(n) \in Seq({p(k) : k \in 1 .. n}) /\ Len(Joined(n)) = n
  BY DEF Joined
<1>2. Append(Joined(n), p(n + 1))
        = [k \in 1 .. n + 1 |-> IF k = n + 1 THEN p(n + 1) ELSE Joined(n)[k]]
  BY <1>1
<1>3. \A k \in 1 .. n + 1 : (IF k = n + 1 THEN p(n + 1) ELSE Joined(n)[k]) = p(k)
  BY DEF Joined
<1> QED BY <1>2, <1>3 DEF Joined

(* The packet that is expected next is stored behind the ones before it.   *)
LEMMA IntactStored ==
  ASSUME PacketInv, IntactInv, intact, Suits, next <= message.total
  PROVE  Fits(next) /\ TakenFor(next) = next /\ Stored(next) = After(next)
<1>1. /\ message.no \in Nat /\ message.total \in 1 .. MaxTotal
      /\ message.size \in Nat /\ next \in Nat /\ next >= 1
      /\ HeadSize \in Nat /\ BufSize \in Nat /\ MarkBits \in Nat /\ MaxTotal \in Nat
  <2>1. message \in Message /\ next \in 1 .. MaxTotal + 1
    BY DEF PacketInv, TypeInv
  <2>2. HeadSize \in Nat /\ BufSize \in Nat /\ MarkBits \in Nat /\ MaxTotal \in Nat
    BY PacketAssumption
  <2>3. message.size \in Nat
    BY <2>1, PacketAssumption DEF Message
  <2> QED BY <2>1, <2>2, <2>3 DEF Message
<1>2. Begun(next) = After(next - 1)
  <2>1. CASE next = 1
    <3>1. Begun(next) = RxStart(message.id, message.total)
      BY <2>1 DEF Begun, StartsOver
    <3>2. 0 \in Nat /\ Joined(0) = <<>> /\ 1 .. 0 = {}
      BY DEF Joined
    <3>3. HeadSize + 0 * message.size = HeadSize
      BY <1>1
    <3> QED BY <2>1, <3>1, <3>2, <3>3 DEF RxStart, After
  <2>2. CASE next > 1
    <3>1. rx = After(next - 1)
      BY <2>2 DEF IntactInv
    <3>2. rx.id = message.id /\ rx.total = message.total
      BY <3>1 DEF After
    <3>3. ~StartsOver(next)
      BY <1>1, <2>2, <3>2 DEF StartsOver, Suits
    <3> QED BY <3>1, <3>3 DEF Begun
  <2> QED BY <1>1, <2>1, <2>2
<1>3. PICK n \in Nat : next = n + 1
  <2>1. next - 1 \in Nat /\ next = (next - 1) + 1
    BY <1>1
  <2> QED BY <2>1
<1>4. Begun(next) = After(n)
  BY <1>2, <1>3
<1>5. /\ Begun(next).wr = HeadSize + n * message.size /\ Begun(next).last = n
      /\ Begun(next).mark = 1 .. n /\ Begun(next).buf = Joined(n)
  BY <1>4 DEF After
<1>6. /\ n * message.size \in Nat
      /\ (n + 1) * message.size = n * message.size + message.size
      /\ (n + 1) * message.size <= message.total * message.size
      /\ message.total * message.size \in Nat
  BY <1>1, <1>3, Products
<1>7. Fits(next)
  <2>1. \A h, a, size, b, c, limit \in Nat :
          b = a + size /\ b <= c /\ h + c < limit => (h + a) + size < limit
    OBVIOUS
  <2>2. (HeadSize + n * message.size) + message.size < BufSize
    BY <2>1, <1>1, <1>6 DEF Suits
  <2> QED BY <2>2, <1>5 DEF Fits
<1>8. TakenFor(next) = n + 1 /\ n + 1 \in 1 .. MarkBits - 1
  BY <1>1, <1>3, <1>5 DEF TakenFor, Suits
<1>9. /\ Begun(next).wr + message.size = HeadSize + (n + 1) * message.size
      /\ Begun(next).mark \cup ({TakenFor(next)} \cap 1 .. MarkBits - 1) = 1 .. n + 1
      /\ Append(Begun(next).buf, [no |-> message.no, num |-> next]) = Joined(n + 1)
  <2>1. Begun(next).wr + message.size = HeadSize + (n + 1) * message.size
    BY <1>1, <1>5, <1>6
  <2>2. (1 .. n) \cup {n + 1} = 1 .. n + 1
    OBVIOUS
  <2>3. {TakenFor(next)} \cap 1 .. MarkBits - 1 = {n + 1}
    BY <1>8
  <2>4. Append(Begun(next).buf, [no |-> message.no, num |-> next]) = Joined(n + 1)
    BY <1>3, <1>5, JoinedNext
  <2> QED BY <1>5, <2>1, <2>2, <2>3, <2>4
<1>10. Stored(next) = After(n + 1)
  <2> DEFINE b == Begun(next)
             wr == b.wr + message.size
             last == TakenFor(next)
             marks == b.mark \cup ({TakenFor(next)} \cap 1 .. MarkBits - 1)
             buf == Append(b.buf, [no |-> message.no, num |-> next])
  <2>0. b \in Rx
    <3>1. TypeInv /\ OrderInv /\ next \in Nat \ {0}
      BY <1>1 DEF PacketInv
    <3> QED BY <3>1, BegunType
  <2>1. Stored(next) = [b EXCEPT !.wr = wr, !.last = last, !.mark = marks, !.buf = buf]
    BY <2>0 DEF Stored, Rx
  <2> HIDE DEF b, wr, last, marks, buf
  <2>2. Stored(next) = [id |-> b.id, total |-> b.total, last |-> last,
                        wr |-> wr, mark |-> marks, buf |-> buf]
    BY <2>0, <2>1 DEF Rx
  <2>3. b.id = message.id /\ b.total = message.total
    BY <1>4 DEF After, b
  <2>4. /\ wr = HeadSize + (n + 1) * message.size /\ last = n + 1
        /\ marks = 1 .. n + 1 /\ buf = Joined(n + 1)
    BY <1>8, <1>9 DEF b, wr, last, marks, buf
  <2> QED BY <2>2, <2>3, <2>4 DEF After
<1> QED BY <1>3, <1>7, <1>8, <1>10

LEMMA IntactStep ==
  ASSUME PacketInv, IntactInv, [Next]_vars
  PROVE  IntactInv'
<1>1. next \in Nat /\ next >= 1 /\ message.total \in Nat
  BY PacketAssumption DEF PacketInv, TypeInv, Message
<1>2. CASE Packet
  <2>1. /\ next <= message.total /\ next' = next + 1 /\ message' = message
        /\ intact' = intact /\ jt808_rx_proc(next)
    BY <1>2 DEF Packet
  <2>2. ASSUME intact, Suits PROVE rx' = After(next)
    BY <2>1, <2>2, IntactStored DEF jt808_rx_proc
  <2>3. Suits' = Suits /\ next' - 1 = next /\ After(next)' = After(next')
    BY <1>1, <2>1 DEF Suits, After, Joined
  <2> QED BY <1>1, <2>1, <2>2, <2>3 DEF IntactInv, After, Joined
<1>3. CASE Lost \/ Again
  BY <1>3 DEF Lost, Again, IntactInv
<1>4. CASE NextMessage
  BY <1>4 DEF NextMessage, IntactInv
<1>5. CASE UNCHANGED vars
  BY <1>5 DEF vars, IntactInv, Suits, After, Joined
<1> QED BY <1>2, <1>3, <1>4, <1>5 DEF Next

(* A message whose packets come once and in their order, and that suits    *)
(* the buffer and the marks, is handed to its handler as the platform sent *)
(* it (jt808.c:1246), whatever the messages before it left behind.         *)
THEOREM IntactMessagesAreHanded == Spec => IntactIsHanded
<1>1. Init => IntactInv
  BY DEF Init, IntactInv
<1>2. PacketInv /\ IntactInv /\ [Next]_vars
      => [/\ next = message.total /\ next' = next + 1 /\ intact'
          /\ message.id \in Handled /\ message.total < MarkBits
          /\ HeadSize + message.total * message.size < BufSize
          => handed' = Append(handed,
               [k \in 1 .. message.total |-> [no |-> message.no, num |-> k]])]_vars
  <2> SUFFICES ASSUME PacketInv, IntactInv, Next, next = message.total,
                      next' = next + 1, intact', message.id \in Handled, Suits
               PROVE  handed' = Append(handed, Joined(message.total))
    BY DEF Suits, Joined
  <2>1. next \in Nat /\ message.total \in Nat
    BY PacketAssumption DEF PacketInv, TypeInv, Message
  <2>2. Packet
    <3>1. ~NextMessage
      <4>1. ASSUME NextMessage PROVE FALSE
        <5>1. next' = 1 /\ next >= 1
          BY <4>1 DEF NextMessage, PacketInv, TypeInv, Message
        <5> QED BY <5>1, <2>1
      <4> QED BY <4>1
    <3> QED BY <3>1 DEF Next, Lost, Again
  <2>3. intact /\ jt808_rx_proc(next)
    BY <2>2 DEF Packet
  <2>4. Fits(next) /\ TakenFor(next) = next /\ Stored(next) = After(next)
    BY <2>1, <2>3, IntactStored
  <2>5. Whole(next)
    BY <2>4 DEF Whole, After
  <2>6. Stored(next).buf = Joined(message.total)
    BY <2>4 DEF After
  <2> QED BY <2>3, <2>5, <2>6 DEF jt808_rx_proc
<1> QED BY <1>1, <1>2, IntactStep, PacketInvariant, PTL DEF Spec, IntactIsHanded

=============================================================================
