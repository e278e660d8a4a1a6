------------------------------ MODULE PictureTx ------------------------------
(***************************************************************************)
(* The transmission of pictures (jt808_camera.c) on top of the pictures in *)
(* the flash memory.  A picture is announced with 0x0800; when that is     *)
(* answered, or given up, a message 0x0801 is put into the list, a block   *)
(* that is filled with one packet of the picture after the other: with the *)
(* next one when the platform acknowledged a packet or when it was sent    *)
(* often enough.  With 0x8800 the platform confirms the picture or asks    *)
(* for packets again.  The gsm thread (priority 7) sends, times out and    *)
(* frees the first block of the list, the rs485 thread (9) takes pictures, *)
(* the jt808 thread (10) handles what the platform sent.                   *)
(***************************************************************************)
EXTENDS PictureStore, Sequences

CONSTANTS
  Node,       \* the blocks of the heap that fit a message
  Nil,        \* RT_NULL
  PerSector,  \* the packets for the data of one sector
  MaxSn,      \* bound: the numbers of the messages that are compared
  MaxEvents,  \* bound: events of a behaviour
  Events      \* which of them occur: a subset of EventKinds

(* The loss of the connection, a lost packet or answer, a timeout that the *)
(* platform's answer races with, an answer that is handled while the block *)
(* is being written, a refused announcement, a picture the platform asks   *)
(* for, a restart of the terminal, one in the middle of storing a picture. *)
EventKinds ==
  {"offline", "loss", "late", "overlap", "refused", "asked", "restart", "cut"}

ASSUME PictureAssumption ==
  /\ IsFiniteSet(Node) /\ Nil \notin Node
  /\ PerSector \in Nat \ {0}
  /\ MaxSn \in Nat /\ Sectors * PerSector <= MaxSn
  /\ MaxEvents \in Nat /\ Events \subseteq EventKinds

VARIABLES
  heap,    \* the blocks: JT808_TX_NODEDATA with TypePicMultTransPara, or free
  list,    \* list_jt808_tx, from first to last
  gpc,     \* where the gsm thread is in jt808_tx_data_proc
  wire,    \* the message in tag_data when the gsm thread began to write it
  rx,      \* the block whose cb_tx_response is running, and the answer
  online,  \* connected and JT808_REPORT (GsmLink, Jt808Tx)
  owed,    \* answers of the platform that are under way
  due,     \* the pictures the platform has to answer with 0x8800
  got,     \* the packets the platform has of each picture
  events   \* events left

txvars == <<heap, list, gpc, wire>>
platform == <<owed, due, got>>
vars == <<storevars, txvars, rx, online, platform, events>>

(* The packets of a picture: packet_num and, marked in Pack_Mark, each.    *)
PacketNum(id) == size[id] * PerSector
Packets(id) == 1 .. PacketNum(id)
AnyPacket == 1 .. Sectors * PerSector

(* head_sn: tx_seq for an announcement, 0xF000 + the packet for a packet.  *)
(* retry counts on after the last value it is compared with, 3.            *)
Sn == 0 .. MaxSn
Block == [cmd : {"none", "announce", "data"}, pic : 0 .. MaxPics, sn : Sn,
          state : {"FREE", "IDLE", "WAIT_ACK", "ACK_OK"}, retry : 0 .. 3,
          no : 0 .. Sectors * PerSector + 1, marks : SUBSET AnyPacket,
          para : {"none", "held", "freed"}]
FreeBlock == [cmd |-> "none", pic |-> 0, sn |-> 0, state |-> "FREE", retry |-> 0,
              no |-> 0, marks |-> {}, para |-> "none"]

Message == [cmd : {"none", "announce", "data"}, pic : 0 .. MaxPics, sn : Sn]
Content(n) == [cmd |-> heap[n].cmd, pic |-> heap[n].pic, sn |-> heap[n].sn]
NoMessage == [cmd |-> "none", pic |-> 0, sn |-> 0]

(* 0x8001 tells a message by its type and number, 0x8800 a picture by its  *)
(* number and lists the packets that are missing.                          *)
Ack(m, ok) == [type |-> m.cmd, pic |-> 0, sn |-> m.sn, ok |-> ok, missing |-> {}]
Ack8800(id, missing) ==
  [type |-> "8800", pic |-> id, sn |-> 0, ok |-> TRUE, missing |-> missing]
Answer == [type : {"announce", "data", "8800"}, pic : 0 .. MaxPics, sn : Sn,
           ok : BOOLEAN, missing : SUBSET AnyPacket]

GsmSteps == {"idle", "write", "timeout", "free"}
NoRx == [node |-> Nil, msg |-> Nil]

TypeOK ==
  /\ StoreTypeOK
  /\ heap \in [Node -> Block]
  /\ list \in Seq(Node)
  /\ gpc \in GsmSteps
  /\ wire \in Message
  /\ rx = NoRx \/ rx \in [node : Node, msg : Answer]
  /\ online \in BOOLEAN
  /\ owed \subseteq Answer
  /\ due \subseteq Ids
  /\ got \in [Ids -> SUBSET AnyPacket]
  /\ events \in 0 .. MaxEvents

Init ==
  /\ StoreInit
  /\ heap = [n \in Node |-> FreeBlock]
  /\ list = <<>> /\ gpc = "idle" /\ wire = NoMessage /\ rx = NoRx
  /\ online = FALSE
  /\ owed = {} /\ due = {} /\ got = [id \in Ids |-> {}]
  /\ events = MaxEvents

Happens(kind) == kind \in Events /\ events > 0 /\ events' = events - 1

-----------------------------------------------------------------------------
(* The list, its blocks and the packets. *)

First == Head(list)

(* A block that is freed while a handler runs on it is not used again      *)
(* before the handler ends.                                                *)
FreeNodes == {n \in Node : heap[n].state = "FREE" /\ n # rx.node}

(* tx_seq does not repeat among the announcements that are still compared. *)
SnInUse ==
  {heap[n].sn : n \in {n \in Node : heap[n].cmd = "announce"}}
    \cup {a.sn : a \in {a \in owed \cup {rx.msg} : a # Nil /\ a.type = "announce"}}
NewSn(sn) == sn \in Sn \ SnInUse /\ \A s \in Sn \ SnInUse : sn <= s

(* Cam_jt808_0x0800: at the end of the list. *)
Announce(id) ==
  IF FindPicID(id) /\ FreeNodes # {}
  THEN \E n \in FreeNodes, sn \in Sn :
         /\ NewSn(sn)
         /\ heap' = [heap EXCEPT ![n] =
              [FreeBlock EXCEPT !.cmd = "announce", !.pic = id, !.sn = sn,
                                !.state = "IDLE", !.para = "held"]]
         /\ list' = Append(list, n)
  ELSE UNCHANGED <<heap, list>>

(* Cam_add_tx_pic_getdata on a picture that is there: the first packet     *)
(* that is marked, or nothing.                                             *)
NextPacket(b) ==
  IF b.marks = {} THEN b
  ELSE LET p == CHOOSE p \in b.marks : \A q \in b.marks : p <= q
       IN [b EXCEPT !.sn = p, !.no = p, !.marks = @ \ {p}, !.retry = 0,
                    !.state = "IDLE"]

(* The block of a new message 0x0801, with its first packet. *)
Loaded(id) ==
  NextPacket([FreeBlock EXCEPT !.cmd = "data", !.pic = id, !.state = "IDLE",
                               !.marks = Packets(id), !.para = "held"])

(* The handlers of an announcement: Cam_jt808_0x0801 puts the data behind  *)
(* the first message of the list, and the announcement is done with.       *)
StartData(n) ==
  LET id == heap[n].pic
      done == [heap EXCEPT ![n] = IF @.state = "FREE" THEN FreeBlock
                                  ELSE [@ EXCEPT !.state = "ACK_OK"]]
  IN IF FindPicID(id) /\ FreeNodes # {}
     THEN \E m \in FreeNodes :
            /\ heap' = [done EXCEPT ![m] = Loaded(id)]
            /\ list' = IF list = <<>> THEN <<m>> ELSE <<First, m>> \o Tail(list)
     ELSE heap' = done /\ UNCHANGED list

-----------------------------------------------------------------------------
(* The gsm thread: jt808_tx_data_proc.  It waits while the rs485 thread    *)
(* stores a picture; what it has read of the summary does not change then. *)

FlashFree == ~Storing

(* Cam_jt808_get, with an empty list. *)
GetPicture ==
  /\ gpc = "idle" /\ list = <<>> /\ online
  /\ number # 0 /\ notsend # 0 /\ FlashFree
  /\ IF Hits # {}
     THEN Announce(flash[SearchPicHead].id) /\ UNCHANGED notsend
     ELSE notsend' = 0 /\ UNCHANGED <<heap, list>>
  /\ UNCHANGED <<flash, number, first, last, save, size, gpc, wire, rx, online,
                 platform, events>>

SendBegin ==
  /\ gpc = "idle" /\ list # <<>>
  /\ heap[First].state = "IDLE" /\ online
  /\ gpc' = "write" /\ wire' = Content(First)
  /\ UNCHANGED <<storevars, heap, list, rx, online, platform, events>>

(* The platform gets a message and answers it; once it has the last packet *)
(* of a picture it confirms the picture as well or asks for the rest.      *)
Arrives(m) ==
  /\ \/ owed' = owed \cup {Ack(m, TRUE)} /\ UNCHANGED events
     \/ m.cmd = "announce" /\ Happens("refused") /\ owed' = owed \cup {Ack(m, FALSE)}
  /\ IF m.cmd = "data"
     THEN /\ got' = [got EXCEPT ![m.pic] = @ \cup {m.sn}]
          /\ due' = IF PacketNum(m.pic) \in got'[m.pic] THEN due \cup {m.pic} ELSE due
     ELSE UNCHANGED <<got, due>>

(* The jt808 thread may have changed the block while it was being written. *)
SendEnd ==
  /\ gpc = "write"
  /\ \/ /\ heap' = [heap EXCEPT ![First].state = "WAIT_ACK"]
        /\ \/ online /\ \E m \in {wire, Content(First)} : Arrives(m)
           \/ online /\ Happens("loss") /\ UNCHANGED platform
           \/ ~online /\ UNCHANGED <<platform, events>>
     \/ ~online /\ UNCHANGED <<heap, platform, events>>
  /\ gpc' = "idle" /\ wire' = NoMessage
  /\ UNCHANGED <<storevars, list, rx, online>>

(* An answer that the first message waits for is under way. *)
AnswerUnderWay(n) ==
  \/ rx.node = n
  \/ heap[n].pic \in due
  \/ \E a \in owed : \/ a.type = heap[n].cmd /\ a.sn = heap[n].sn
                     \/ a.type = "8800" /\ heap[n].cmd = "data"

RetryLimit(cmd) == IF cmd = "announce" THEN 3 ELSE 2

(* jt808_tx_proc and, where it does not need the flash, Cam_jt808_timeout. *)
Timeout ==
  /\ gpc = "idle" /\ list # <<>>
  /\ heap[First].state = "WAIT_ACK"
  /\ IF AnswerUnderWay(First) THEN Happens("late") ELSE UNCHANGED events
  /\ LET b == heap[First]
         retry == IF b.retry < 3 THEN b.retry + 1 ELSE 3
         again == retry < RetryLimit(b.cmd)
         sent == b.cmd = "data" /\ b.no = PacketNum(b.pic)
     IN /\ heap' = [heap EXCEPT ![First].retry = retry,
                      ![First].state = IF again THEN "IDLE"
                                       ELSE IF sent THEN "ACK_OK" ELSE @]
        /\ gpc' = IF again THEN "idle" ELSE IF sent THEN "free" ELSE "timeout"
  /\ UNCHANGED <<storevars, list, wire, rx, online, platform>>

(* The rest of Cam_jt808_timeout. *)
TimeoutEnd ==
  /\ gpc = "timeout" /\ FlashFree
  /\ IF heap[First].cmd = "announce"
     THEN StartData(First) /\ gpc' = "free"
     ELSE IF FindPicID(heap[First].pic)
     THEN /\ heap' = [heap EXCEPT ![First] = [NextPacket(@) EXCEPT !.state = "IDLE"]]
          /\ gpc' = "idle" /\ UNCHANGED list
     ELSE /\ heap' = [heap EXCEPT ![First].state = "ACK_OK"]
          /\ gpc' = "free" /\ UNCHANGED list
  /\ UNCHANGED <<storevars, wire, rx, online, platform, events>>

(* The processor starts again, by itself or by the watchdog. *)
Reset ==
  /\ StoreRestart
  /\ heap' = [n \in Node |-> FreeBlock]
  /\ list' = <<>> /\ gpc' = "idle" /\ wire' = NoMessage /\ rx' = NoRx
  /\ online' = FALSE
  /\ owed' = {} /\ due' = {} /\ UNCHANGED got

(* The end of jt808_tx_proc.  It frees the parameters of the picture again *)
(* when a handler has done so: rt_free asserts that the memory is in use,  *)
(* or frees what uses it by then.                                          *)
Remove ==
  /\ gpc \in {"idle", "free"} /\ list # <<>>
  /\ heap[First].state = "ACK_OK"
  /\ \/ /\ heap' = [heap EXCEPT ![First] = IF rx.node = First
                                            THEN [@ EXCEPT !.state = "FREE"]
                                            ELSE FreeBlock]
        /\ list' = Tail(list) /\ gpc' = "idle"
        /\ UNCHANGED <<storevars, wire, rx, online, platform>>
     \/ /\ heap[First].para = "freed" /\ Reset
        /\ Storing => "cut" \in Events
  /\ UNCHANGED events

GsmProcess == GetPicture \/ SendBegin \/ SendEnd \/ Timeout \/ TimeoutEnd \/ Remove

-----------------------------------------------------------------------------
(* The jt808 thread, between the steps of the others.                      *)

(* handle_rx_0x8001 and handle_rx_0x8800: the first message of the list    *)
(* with the number of the answer, or the first data.                       *)
IsFor(a, n) ==
  IF a.type = "8800" THEN heap[n].cmd = "data"
  ELSE heap[n].cmd = a.type /\ heap[n].sn = a.sn

RxFind(a) ==
  /\ rx = NoRx /\ save.pc = "idle" /\ gpc \in {"idle", "write"}
  /\ a \in owed
  /\ owed' = owed \ {a}
  /\ LET for == {i \in DOMAIN list : IsFor(a, list[i])}
     IN rx' = IF for = {} THEN NoRx
              ELSE [node |-> list[CHOOSE i \in for : \A j \in for : i <= j], msg |-> a]
  /\ UNCHANGED <<storevars, txvars, online, due, got, events>>

(* The handler writes to its block even if it was freed meanwhile. *)
Becomes(n, b) ==
  heap' = [heap EXCEPT ![n] = IF @.state = "FREE" THEN FreeBlock ELSE b]

(* Cam_jt808_0x0800_response: a refused announcement is sent again. *)
AnnounceAnswered(n, ok) ==
  IF ok THEN StartData(n)
  ELSE Becomes(n, [heap[n] EXCEPT !.state = "IDLE"]) /\ UNCHANGED list

(* The next packet; the parameters of a picture that is gone are freed.    *)
Resumed(b) ==
  IF FindPicID(b.pic) THEN [NextPacket(b) EXCEPT !.state = "IDLE"]
  ELSE [b EXCEPT !.state = "ACK_OK", !.para = "freed"]

(* Cam_jt808_0x0801_response to a general answer. *)
PacketAnswered(n, sn) ==
  LET b == heap[n]
  IN Becomes(n,
       IF sn # b.sn THEN [b EXCEPT !.state = "WAIT_ACK"]
       ELSE IF b.no = PacketNum(b.pic)
       THEN [b EXCEPT !.state = "WAIT_ACK", !.no = @ + 1]
       ELSE IF b.no > PacketNum(b.pic) THEN [b EXCEPT !.state = "ACK_OK"]
       ELSE Resumed(b))

(* A mutant of Confirmed: the picture in the answer is not compared. *)
ConfirmedUnchecked(n, a) ==
  LET b == heap[n]
  IN /\ IF a.missing = {} THEN TransOkSet(b.pic) ELSE UNCHANGED <<flash, notsend>>
     /\ Becomes(n, IF a.missing = {} THEN [b EXCEPT !.state = "ACK_OK"]
                   ELSE Resumed([b EXCEPT !.marks = a.missing \cap Packets(b.pic)]))

(* Cam_jt808_0x0801_response to 0x8800. *)
Confirmed(n, a) ==
  LET b == heap[n]
      done == a.pic # b.pic \/ a.missing = {}
  IN /\ IF a.pic = b.pic /\ a.missing = {} THEN TransOkSet(b.pic)
                                           ELSE UNCHANGED <<flash, notsend>>
     /\ Becomes(n, IF done THEN [b EXCEPT !.state = "ACK_OK"]
                   ELSE Resumed([b EXCEPT !.marks = a.missing \cap Packets(b.pic)]))

(* The handler needs the flash memory: the rs485 thread has come to its    *)
(* end, or waits because the handler has the flash memory already.         *)
RxApply ==
  /\ rx # NoRx /\ gpc # "free"
  /\ save.pc = "idle" \/ (save.pc = "erase" /\ save.left = size[last.id])
  /\ CASE rx.msg.type = "announce" ->
            AnnounceAnswered(rx.node, rx.msg.ok) /\ UNCHANGED <<flash, notsend>>
       [] rx.msg.type = "data" ->
            PacketAnswered(rx.node, rx.msg.sn) /\ UNCHANGED <<flash, notsend, list>>
       [] rx.msg.type = "8800" ->
            Confirmed(rx.node, rx.msg) /\ UNCHANGED list
  /\ IF gpc = "write" THEN Happens("overlap") ELSE UNCHANGED events
  /\ rx' = NoRx
  /\ UNCHANGED <<number, first, last, save, size, gpc, wire, online, platform>>

(* Cam_jt808_0x8803, 0x8805: the platform asks for stored pictures. *)
Asked ==
  /\ rx = NoRx /\ save.pc = "idle" /\ gpc \in {"idle", "write"}
  /\ online /\ Happens("asked")
  /\ \E id \in Ids : Announce(id)
  /\ UNCHANGED <<storevars, gpc, wire, rx, online, platform>>

-----------------------------------------------------------------------------
(* The rs485 thread, the platform, the link. *)

Save ==
  /\ SaveBegin \/ SaveStep
  /\ UNCHANGED <<txvars, rx, online, platform, events>>

(* cam_ok or Cam_response_ok: not every picture is announced at once. *)
SaveTaken ==
  /\ save.pc = "taken"
  /\ Announce(last.id) \/ UNCHANGED <<heap, list>>
  /\ save' = Idle
  /\ UNCHANGED <<flash, para, size, gpc, wire, rx, online, platform, events>>

PlatformConfirms ==
  /\ online
  /\ \E id \in due :
       /\ due' = due \ {id}
       /\ owed' = owed \cup {Ack8800(id, Packets(id) \ got[id])}
  /\ UNCHANGED <<storevars, txvars, rx, online, got, events>>

AnswerLost ==
  /\ Happens("loss")
  /\ \E a \in owed : owed' = owed \ {a}
  /\ UNCHANGED <<storevars, txvars, rx, online, due, got>>

GoesOnline ==
  /\ ~online /\ online' = TRUE
  /\ UNCHANGED <<storevars, txvars, rx, platform, events>>

GoesOffline ==
  /\ online /\ online' = FALSE
  /\ Happens("offline")
  /\ UNCHANGED <<owed, due>> \/ (owed' = {} /\ due' = {})
  /\ UNCHANGED <<storevars, txvars, rx, got>>

Restart == Happens(IF Storing THEN "cut" ELSE "restart") /\ Reset

Next ==
  \/ GsmProcess
  \/ \E a \in owed : RxFind(a)
  \/ RxApply \/ Asked
  \/ Save \/ SaveTaken
  \/ PlatformConfirms \/ AnswerLost \/ GoesOnline \/ GoesOffline \/ Restart

Spec == Init /\ [][Next]_vars

(* The threads go on, the platform answers, and the terminal gets back to  *)
(* the platform.  Nothing obliges anyone to take a picture.                *)
FairSpec ==
  /\ Spec
  /\ WF_vars(GsmProcess) /\ SF_vars(Remove)
  /\ SF_vars(\E a \in owed : a.type # "8800" /\ RxFind(a))
  /\ SF_vars(\E a \in owed : a.type = "8800" /\ RxFind(a))
  /\ WF_vars(RxApply)
  /\ WF_vars(save.pc # "idle" /\ Save) /\ WF_vars(SaveTaken)
  /\ WF_vars(PlatformConfirms) /\ WF_vars(GoesOnline)

-----------------------------------------------------------------------------
(* Properties. *)

(* A picture is marked as transmitted only when the platform has every     *)
(* packet of it, whichever message an answer is handed to and whatever is  *)
(* lost, late or repeated (jt808_camera.c:241, jt808.c:866).               *)
MarkedIsReceived ==
  \A a \in Sector : IsHead(a) /\ ~flash[a].unsent
                     => Packets(flash[a].id) \subseteq got[flash[a].id]

(* While a picture waits that a search would find, the counter that starts *)
(* the search is not zero: it is set to zero by a search that found        *)
(* nothing, counted down by the jt808 thread and cleared by the rs485      *)
(* thread, without a lock (jt808_camera.c:829, camera.c:466, camera.c:139).*)
WaitingIsCounted == save.pc = "idle" /\ Hits # {} => notsend # 0

(* Every picture that a search finds is confirmed by the platform in the   *)
(* end or overwritten (jt808_camera.c:792 "look for pictures that have to  *)
(* be sent; if there is one, send it").                                    *)
AllReachableSent == <>[](Hits = {})

=============================================================================
