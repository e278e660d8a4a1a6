---------------------------- MODULE MultiPacketRx ----------------------------
(***************************************************************************)
(* The joining of a message the platform sends in several packets          *)
(* (jt808_rx_proc, jt808.c): the packets are collected in jt808_rx_buf     *)
(* with a mark for each, and the last one hands the whole message to its   *)
(* handler.  Each packet is answered with 0x0001.  One thread does all of  *)
(* it; what is hard is what the platform and the connection do: messages   *)
(* broken off, packets lost or repeated, messages too long for the buffer. *)
(***************************************************************************)
EXTENDS Naturals, Sequences

CONSTANTS
  Ids,        \* the messages that come in packets
  Handled,    \* those handle_rx_msg has a handler for
  MaxTotal,   \* bound: packets of a message
  Sizes,      \* the size of a packet's content, the same in all of a message
  HeadSize,   \* 12: what a packet's head takes in jt808_rx_buf
  BufSize,    \* 2048: jt808_rx_buf
  MarkBits,   \* 32: the width of multi_pack_mark
  Messages,   \* bound: the messages the platform sends
  MaxEvents,  \* bound: events of a behaviour
  Events      \* which of them occur: a subset of EventKinds

(* The platform breaks a message off (or a connection ends), a packet is   *)
(* lost (mb_gprsrx is full, jt808.c:1879), the platform sends a packet     *)
(* again, whose answer it did not get.                                     *)
EventKinds == {"broken_off", "lost", "again"}

ASSUME PacketAssumption ==
  /\ Handled \subseteq Ids /\ "0x0000" \notin Ids
  /\ MaxTotal \in Nat \ {0} /\ Sizes \subseteq Nat
  /\ HeadSize \in Nat \ {0} /\ BufSize \in Nat /\ HeadSize < BufSize
  /\ MarkBits \in Nat \ {0} /\ Messages \in Nat /\ MaxEvents \in Nat
  /\ Events \subseteq EventKinds

VARIABLES
  rx,        \* the static variables of jt808_rx_proc
  message,   \* the message the platform is sending
  next,      \* the number of its next packet
  intact,    \* history: its packets arrived so far in their order, each once
  handed,    \* history: the messages handed to their handlers
  events     \* events left

vars == <<rx, message, next, intact, handed, events>>

Message == [no : Nat, id : Ids, total : 1 .. MaxTotal, size : Sizes]

(* A packet is the message it belongs to and its number. *)
Numbers == 1 .. MaxTotal
Nobody == "0x0000" \* last_id at first

(* buf has the numbers of the packets and their messages, wr is            *)
(* jt808_rx_buf_wr, last last_package_num, mark the bits of                *)
(* multi_pack_mark that are set.                                           *)
RxStart(id, total) ==
  [id |-> id, total |-> total, last |-> 0, wr |-> HeadSize, mark |-> {}, buf |-> <<>>]

TypeOK ==
  /\ rx.id \in Ids \cup {Nobody} /\ rx.total \in 0 .. MaxTotal
  /\ rx.last \in Nat /\ rx.last = Len(rx.buf)
  /\ rx.mark \subseteq 1 .. MarkBits - 1
  /\ rx.wr \in 0 .. BufSize - 1
  /\ message \in Message /\ next \in 1 .. MaxTotal + 1
  /\ intact \in BOOLEAN
  /\ events \in 0 .. MaxEvents

Init ==
  /\ rx = [RxStart(Nobody, 0) EXCEPT !.wr = 0]
  /\ \E id \in Ids, total \in 1 .. MaxTotal, size \in Sizes :
       message = [no |-> 1, id |-> id, total |-> total, size |-> size]
  /\ next = 1 /\ intact = TRUE
  /\ handed = <<>>
  /\ events = MaxEvents

Happens(kind) ==
  /\ kind \in Events /\ events > 0
  /\ events' = events - 1

-----------------------------------------------------------------------------
(* jt808_rx_proc for a packet. *)

(* A mutant of StartsOver: only another message starts over. *)
StartsOverByIdOnly(n) == rx.id # message.id \/ n >= MarkBits \/ rx.total # message.total

StartsOver(n) ==
  n = 1 \/ rx.id # message.id \/ n >= MarkBits \/ rx.total # message.total

(* A mutant of Begun: the number of the last packet is not cleared. *)
BegunKeepsLast(n) ==
  IF StartsOver(n) THEN [RxStart(message.id, message.total) EXCEPT !.last = rx.last]
  ELSE rx

Begun(n) == IF StartsOver(n) THEN RxStart(message.id, message.total) ELSE rx

(* "cur_package_num = last_package_num+1", an assignment in the condition: *)
(* whichever packet this is, it is taken for the next one.                 *)
TakenFor(n) == Begun(n).last + 1

(* A mutant of Fits: a packet may fill the buffer. *)
FitsOneMore(n) == Begun(n).wr + message.size <= BufSize

Fits(n) == Begun(n).wr + message.size < BufSize

Stored(n) ==
  [Begun(n) EXCEPT !.wr = @ + message.size, !.last = TakenFor(n),
                   !.mark = @ \cup ({TakenFor(n)} \cap 1 .. MarkBits - 1),
                   !.buf = Append(@, [no |-> message.no, num |-> n])]

(* The mark of a packet beyond the width of the marks is never set. *)
Whole(n) ==
  /\ Fits(n) /\ TakenFor(n) = message.total
  /\ 1 .. message.total \subseteq Stored(n).mark

jt808_rx_proc(n) ==
  /\ rx' = IF Fits(n) THEN Stored(n) ELSE Begun(n)
  /\ handed' = IF Whole(n) /\ message.id \in Handled
               THEN Append(handed, Stored(n).buf) ELSE handed

-----------------------------------------------------------------------------
(* The platform and the connection. *)

Packet ==
  /\ next <= message.total
  /\ jt808_rx_proc(next)
  /\ next' = next + 1
  /\ UNCHANGED <<message, intact, events>>

Lost ==
  /\ next <= message.total /\ Happens("lost")
  /\ next' = next + 1 /\ intact' = FALSE
  /\ UNCHANGED <<rx, message, handed>>

Again ==
  /\ Happens("again")
  /\ \E n \in 1 .. next - 1 : jt808_rx_proc(n)
  /\ intact' = FALSE
  /\ UNCHANGED <<message, next>>

NextMessage ==
  /\ message.no < Messages
  /\ IF next > message.total THEN UNCHANGED events ELSE Happens("broken_off")
  /\ \E id \in Ids, total \in 1 .. MaxTotal, size \in Sizes :
       message' = [no |-> message.no + 1, id |-> id, total |-> total, size |-> size]
  /\ next' = 1 /\ intact' = TRUE
  /\ UNCHANGED <<rx, handed>>

Next == Packet \/ Lost \/ Again \/ NextMessage

Spec == Init /\ [][Next]_vars

-----------------------------------------------------------------------------
(* Properties. *)

(* Messages are not mixed in what is handed to a handler                   *)
(* (jt808.c:1246-1268), whatever was broken off, lost or repeated before:  *)
(* with the first packet of the message that completes it comes no packet  *)
(* of another one.  (Whether every packet of it is there is not said here: *)
(* after a repeated packet one may be there twice and another not at all,  *)
(* see MarkIsReceived.  And nothing else tells two messages of one id      *)
(* apart: when that first packet is lost, the others are joined to the     *)
(* remainder of the message before.)                                       *)
HandedIsUnmixed ==
  \A i \in DOMAIN handed :
    LET packets == handed[i]
        no == packets[Len(packets)].no
    IN (\E k \in DOMAIN packets : packets[k] = [no |-> no, num |-> 1])
         => \A k \in DOMAIN packets : packets[k].no = no

(* jt808.c:1172 "for a mark of 1 the packet was received": a packet with a *)
(* mark is in the buffer, the one with that number.                        *)
MarkIsReceived ==
  \A n \in rx.mark : n \in DOMAIN rx.buf /\ rx.buf[n].num = n

(* A message whose packets all arrive once and in their order is handed to *)
(* its handler when it fits the buffer and the marks, whatever came before *)
(* it: no remainder of a message that was broken off, too long or of too   *)
(* many packets spoils the next one.                                       *)
IntactIsHanded ==
  [][/\ next = message.total /\ next' = next + 1 /\ intact'
     /\ message.id \in Handled /\ message.total < MarkBits
     /\ HeadSize + message.total * message.size < BufSize
     => handed' = Append(handed,
                    [k \in 1 .. message.total |-> [no |-> message.no, num |-> k]])]_vars

=============================================================================
