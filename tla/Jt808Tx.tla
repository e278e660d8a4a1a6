------------------------------- MODULE Jt808Tx -------------------------------
(***************************************************************************)
(* The transmit list of JT/T 808 on top of the data link.  Messages are    *)
(* heap blocks linked into list_jt808_tx: registrations, authentications   *)
(* and answers are put in front, the packets of a picture behind the first *)
(* block, commands, reports and what the platform asked for at the end.    *)
(* The gsm thread handles the first block only (jt808_tx_proc): it sends   *)
(* it, waits for its answer, sends it again after a timeout, and frees it. *)
(* The jt808 thread takes what the platform sent from a mailbox and marks  *)
(* the block an answer is for.  Nothing locks the list or the blocks, and  *)
(* the gsm thread blocks in the middle of jt808_tx_proc while it writes,   *)
(* and while a timeout or a report waits for the flash memory.             *)
(***************************************************************************)
EXTENDS GsmLink, Sequences, FiniteSets

CONSTANTS
  Node,      \* the blocks of the heap that fit a message
  Nil,       \* RT_NULL
  MaxRetry,  \* 3: times a command is sent
  MaxSn,     \* bound: the messages of a behaviour, the value tx_seq reaches
  MboxSize,  \* MB_GPRSDATA_POOL_SIZE / 4
  Queued,    \* what other threads put at the end: a subset of EndKinds
  Queries    \* what the platform asks: a subset of QueryTypes

(* A registration 0x0100, an authentication 0x0102 (both SINGLE_REGISTER), *)
(* an answer or heartbeat (SINGLE_FIRST), a command, report or picture     *)
(* announcement (SINGLE_CMD), the parameters asked for (SINGLE_ACK), the   *)
(* packets of a picture (0x0801), the pages of all parameters or of the    *)
(* driving record (0x0104 and 0x0700).                                     *)
EndKinds == {"cmd", "reply", "pages"}
Kinds == {"register", "auth", "answer", "picture"} \cup EndKinds
DataKinds == Kinds \ {"register", "auth"}

(* Sent once, nothing answers it; and one block for several packets, which *)
(* its handlers fill again with the next one.                              *)
AckKinds == {"answer", "reply"}
PagedKinds == {"picture", "pages"}

(* A command of the platform is confirmed by jt808_tx_0x0001, an inquiry   *)
(* answered by jt808_tx_ack.                                               *)
QueryTypes == {"command", "inquiry"}

ASSUME TxAssumption ==
  /\ IsFiniteSet(Node) /\ Nil \notin Node
  /\ MaxRetry \in Nat \ {0} /\ MaxSn \in Nat /\ MboxSize \in Nat
  /\ Queries \subseteq QueryTypes
  /\ Queued \subseteq EndKinds

VARIABLES
  heap,    \* the blocks: JT808_TX_NODEDATA, or free
  list,    \* list_jt808_tx, from first to last
  txnode,  \* the block jt808_tx_proc is blocked with
  tx_seq,  \* the number of the next message
  mbox,    \* mb_gprsrx
  jpc,     \* where the jt808 thread is in its loop
  rx,      \* the block whose cb_tx_response is running
  owed,    \* messages the platform has received and not answered
  authed   \* the platform accepted an authentication on this connection

txvars == <<heap, list, txnode, tx_seq>>
rxvars == <<mbox, jpc, rx>>
platform == <<owed, authed>>
vars == <<linkvars, txvars, rxvars, platform>>

Sn == 0 .. MaxSn
BlockStates == {"FREE", "IDLE", "WAIT_ACK", "ACK_OK"}

(* times and acked are history of a single message: how often it was       *)
(* written with success, and whether its answer was handled while it was   *)
(* not written.                                                            *)
Block == [kind : Kinds, sn : Sn, state : BlockStates, retry : 0 .. MaxRetry,
          times : Nat, acked : BOOLEAN]
NewBlock(kind, sn) == [kind |-> kind, sn |-> sn, state |-> "IDLE", retry |-> 0,
                       times |-> 0, acked |-> FALSE]
FreeBlock == [kind |-> "cmd", sn |-> 0, state |-> "FREE", retry |-> 0,
              times |-> 0, acked |-> FALSE]
NoAnswer == [node |-> Nil, kind |-> "cmd", sn |-> 0]

Query(type) == [type |-> type, kind |-> "answer", sn |-> 0, ok |-> TRUE]
Answer(m, ok) == [type |-> "answer", kind |-> m.kind, sn |-> m.sn, ok |-> ok]
Message == [type : QueryTypes \cup {"answer"}, kind : Kinds, sn : Sn,
            ok : BOOLEAN]

TypeOK ==
  /\ LinkTypeOK
  /\ heap \in [Node -> Block]
  /\ list \in Seq(Node)
  /\ txnode \in Node \cup {Nil}
  /\ tx_seq \in Sn
  /\ mbox \in Seq(Message) /\ Len(mbox) <= MboxSize
  /\ jpc \in {"recv", "apply", "sock"}
  /\ rx \in [node : Node \cup {Nil}, kind : Kinds, sn : Sn]
  /\ owed \subseteq [kind : Kinds, sn : Sn]
  /\ authed \in BOOLEAN

Init ==
  /\ LinkInit
  /\ heap = [n \in Node |-> FreeBlock]
  /\ list = <<>> /\ txnode = Nil /\ tx_seq = 0
  /\ mbox = <<>> /\ jpc = "recv" /\ rx = NoAnswer
  /\ owed = {} /\ authed = FALSE

-----------------------------------------------------------------------------
(* The list and its blocks. *)

(* A block that was freed while the handler of a picture waits with it is  *)
(* not used again before the handler ends.                                 *)
FreeNodes ==
  {n \in Node : heap[n].state = "FREE"
                /\ ~(n = rx.node /\ rx.kind \in PagedKinds)}

(* max_retry; node_begin sets it by the type, the pictures for themselves. *)
RetryLimit(kind) ==
  CASE kind \in AckKinds \cup {"pages"} -> 1 [] kind = "picture" -> 2
    [] OTHER -> MaxRetry

(* A mutant of Place: every message is put in front. *)
PlaceInFront(kind) == 1

(* msglist_prepend, msglist_prepend_next, msglist_append. *)
Place(kind) ==
  CASE kind \in EndKinds -> Len(list) + 1
    [] kind = "picture"  -> IF list = <<>> THEN 1 ELSE 2
    [] OTHER             -> 1

Inserted(kind, n) ==
  SubSeq(list, 1, Place(kind) - 1) \o <<n>> \o SubSeq(list, Place(kind), Len(list))

(* jt808_add_tx: without memory the message is lost and the list stays.    *)
(* The packets of a picture or of pages have numbers of their own (0x0104  *)
(* takes one of tx_seq, which is left out).                                *)
AddTx(kind) ==
  IF FreeNodes = {}
  THEN UNCHANGED <<heap, list, tx_seq>>
  ELSE /\ \E n \in FreeNodes :
            /\ heap' = [heap EXCEPT ![n] = NewBlock(kind,
                          IF kind \in PagedKinds THEN 0 ELSE tx_seq)]
            /\ list' = Inserted(kind, n)
       /\ IF kind \in PagedKinds THEN UNCHANGED tx_seq
          ELSE tx_seq < MaxSn /\ tx_seq' = tx_seq + 1

(* A mutant of Unlinked: it drops the head of the list. *)
UnlinkedHead(seq, n) == Tail(seq)

(* The end of jt808_tx_proc: the head of the list becomes node->next,      *)
(* whatever precedes the node by then.                                     *)
Unlinked(seq, n) ==
  LET i == CHOOSE i \in 1 .. Len(seq) : seq[i] = n
  IN SubSeq(seq, i + 1, Len(seq))

Free(n) ==
  /\ heap' = [heap EXCEPT ![n] = FreeBlock]
  /\ list' = Unlinked(list, n)

(* The same when the timeout of an announcement has queued the picture. *)
FreeAnnouncement(n) ==
  \E m \in FreeNodes :
    /\ heap' = [heap EXCEPT ![m] = NewBlock("picture", 0), ![n] = FreeBlock]
    /\ list' = Unlinked(Inserted("picture", m), n)

-----------------------------------------------------------------------------
(* The gsm thread: jt808_tx_data_proc. *)

First == Head(list)

(* A mutant of MaySend: the state of the session is not looked at. *)
MaySendUnauthenticated(n) == gsm_state = "TCPIP" /\ sock = "CONNECTED"

MaySend(n) ==
  /\ gsm_state = "TCPIP" /\ sock = "CONNECTED"
  /\ heap[n].kind \in DataKinds => jt808_state = "REPORT"

TxEmpty ==
  /\ list = <<>>
  /\ TxPoll /\ UNCHANGED jt808_state
  /\ UNCHANGED <<txvars, rxvars, platform>>

(* With an empty list jt808_report_get looks for a stored position, and    *)
(* Cam_jt808_get for a stored picture.  What it finds is queued whatever   *)
(* was queued while it waited.                                             *)
TxReport ==
  /\ list = <<>> /\ sock = "CONNECTED" /\ jt808_state = "REPORT"
  /\ TxFlash
  /\ UNCHANGED <<txvars, rxvars, platform>>

TxReportEnd ==
  /\ TxFlashEnd /\ txnode = Nil
  /\ AddTx("cmd") \/ UNCHANGED <<heap, list, tx_seq>>
  /\ UNCHANGED <<txnode, rxvars, platform>>

TxHold ==
  /\ list # <<>>
  /\ \/ heap[First].state = "IDLE" /\ ~MaySend(First)
     \/ heap[First].state = "WAIT_ACK"
  /\ TxPoll /\ UNCHANGED jt808_state
  /\ UNCHANGED <<txvars, rxvars, platform>>

TxSend ==
  /\ list # <<>>
  /\ heap[First].state = "IDLE" /\ MaySend(First)
  /\ WriteBegin
  /\ txnode' = First
  /\ UNCHANGED <<heap, list, tx_seq, rxvars, platform>>

(* The platform may get the message, confirmed by the modem or not.  It    *)
(* answers everything but an answer.                                       *)
Arrives(n) ==
  \/ UNCHANGED owed
  \/ /\ heap[n].kind \notin AckKinds /\ "master" \in mopen
     /\ owed' = owed \cup {[kind |-> heap[n].kind, sn |-> heap[n].sn]}

TxSent ==
  /\ WriteEnd(TRUE)
  /\ IF heap[txnode].kind \in AckKinds
     THEN Free(txnode)
     ELSE /\ heap' = [heap EXCEPT ![txnode].state = "WAIT_ACK", ![txnode].times =
                        IF heap[txnode].kind \in PagedKinds THEN @ ELSE @ + 1]
          /\ UNCHANGED list
  /\ Arrives(txnode)
  /\ txnode' = Nil
  /\ UNCHANGED <<tx_seq, rxvars, authed>>

(* An answer to a registration or authentication is in the terminal.  In a *)
(* run without the disturbance "stale" it comes while the terminal         *)
(* believes in the connection, and is handled before the connection ends.  *)
SessionMail ==
  \/ rx.node # Nil /\ rx.kind = "register"
  \/ \E i \in DOMAIN mbox : mbox[i].kind \in {"register", "auth"}
MailMayGoStale == "stale" \in Disturbances \/ ~SessionMail

TxWriteFailed ==
  /\ WriteEnd(FALSE) /\ MailMayGoStale
  /\ Arrives(txnode)
  /\ txnode' = Nil
  /\ UNCHANGED <<heap, list, tx_seq, rxvars, authed>>

(* jt808_tx_timeout and jt808_report_timeout give the message up. *)
TimeoutSession(kind) ==
  CASE kind = "register" -> "REGISTER" [] kind = "auth" -> "AUTH"
    [] OTHER -> jt808_state

(* A mutant of LastTime: one time too many. *)
LastTimeLate(n) == heap[n].retry + 1 > RetryLimit(heap[n].kind)

LastTime(n) == heap[n].retry + 1 >= RetryLimit(heap[n].kind)

(* A mutant of TimedOut: an answered message is timed out as well. *)
TimedOutAnswered == list # <<>> /\ heap[First].state \in {"WAIT_ACK", "ACK_OK"}

TimedOut == list # <<>> /\ heap[First].state = "WAIT_ACK"

TxTimeout ==
  /\ TimedOut
  /\ TxPoll
  /\ IF LastTime(First)
     THEN /\ heap[First].kind \notin PagedKinds
          /\ jt808_state' = TimeoutSession(heap[First].kind)
          /\ Free(First)
     ELSE /\ heap' = [heap EXCEPT ![First].state = "IDLE",
                                  ![First].retry = @ + 1]
          /\ UNCHANGED <<jt808_state, list>>
  /\ UNCHANGED <<txnode, tx_seq, rxvars, platform>>

(* The last timeout of an announcement looks for its picture, the one of   *)
(* several packets reads the next.                                         *)
TxTimeoutFlash ==
  /\ TimedOut /\ LastTime(First)
  /\ heap[First].kind \in PagedKinds \cup {"cmd"}
  /\ TxFlash
  /\ txnode' = First
  /\ UNCHANGED <<heap, list, tx_seq, rxvars, platform>>

TxTimeoutEnd ==
  /\ TxFlashEnd /\ txnode # Nil
  /\ \/ Free(txnode)
     \/ heap[txnode].kind = "cmd" /\ FreeAnnouncement(txnode)
     \/ /\ heap[txnode].kind \in PagedKinds
        /\ \E again \in {0, heap[txnode].retry} :
             heap' = [heap EXCEPT ![txnode].state = "IDLE",
                                  ![txnode].retry = again]
        /\ UNCHANGED list
  /\ txnode' = Nil
  /\ UNCHANGED <<tx_seq, rxvars, platform>>

TxRemove ==
  /\ list # <<>> /\ heap[First].state = "ACK_OK"
  /\ TxPoll /\ UNCHANGED jt808_state
  /\ Free(First)
  /\ UNCHANGED <<txnode, tx_seq, rxvars, platform>>

(* The rest of the gsm thread does not touch the list. *)
Modem ==
  /\ ModemStep
  /\ IF mopen' = {} THEN owed' = {} /\ authed' = FALSE ELSE UNCHANGED platform
  /\ UNCHANGED <<txvars, rxvars>>

TxDataProc ==
  \/ TxEmpty \/ TxReport \/ TxHold \/ TxSend \/ TxTimeout \/ TxTimeoutFlash
  \/ TxRemove
TxBlockedEnd == TxSent \/ TxWriteFailed \/ TxReportEnd \/ TxTimeoutEnd
GsmProcess == Modem \/ TxDataProc \/ TxBlockedEnd

-----------------------------------------------------------------------------
(* The jt808 thread: one message of the mailbox, then jt808_socket_proc. *)

RxNothing ==
  /\ GsmBlocked /\ jpc = "recv" /\ mbox = <<>>
  /\ jpc' = "sock"
  /\ UNCHANGED <<linkvars, txvars, mbox, rx, platform>>

RxQuery ==
  /\ GsmBlocked /\ jpc = "recv" /\ mbox # <<>>
  /\ Head(mbox).type \in QueryTypes
  /\ IF Head(mbox).type = "command" /\ (sock # "CONNECTED" \/ jt808_state # "REPORT")
     THEN UNCHANGED <<heap, list, tx_seq>>
     ELSE AddTx("answer")
  /\ mbox' = Tail(mbox) /\ jpc' = "sock"
  /\ UNCHANGED <<linkvars, txnode, rx, platform>>

(* The blocks an answer is for: the ones with its message id and number. *)
Matches(m) ==
  {n \in Node : /\ \E i \in DOMAIN list : list[i] = n
                /\ heap[n].kind = m.kind /\ heap[n].sn = m.sn}

(* Nothing in the list is waiting for it, or the registration was refused. *)
RxUnmatched ==
  /\ GsmBlocked /\ jpc = "recv" /\ mbox # <<>>
  /\ LET m == Head(mbox)
     IN m.type = "answer" /\ (Matches(m) = {} \/ (m.kind = "register" /\ ~m.ok))
  /\ mbox' = Tail(mbox) /\ jpc' = "sock"
  /\ UNCHANGED <<linkvars, txvars, rx, platform>>

(* The handler writes through its pointer even when the block was freed,   *)
(* or used for another message, since it was found.                        *)
Answered(blocks, n, kind, sn) ==
  IF blocks[n].state = "FREE" THEN blocks
  ELSE [blocks EXCEPT ![n].state = "ACK_OK", ![n].acked =
          @ \/ (blocks[n].kind = kind /\ blocks[n].sn = sn
                /\ ~(gpc = "write" /\ n = txnode))]

(* handle_rx_0x8001 on an authentication. *)
RxAuth ==
  /\ jpc = "recv" /\ mbox # <<>>
  /\ LET m == Head(mbox)
     IN /\ m.type = "answer" /\ m.kind = "auth"
        /\ SessionAnswer /\ AuthAnswered(m.ok)
        /\ \E n \in Matches(m) : heap' = Answered(heap, n, m.kind, m.sn)
  /\ mbox' = Tail(mbox) /\ jpc' = "sock"
  /\ UNCHANGED <<list, txnode, tx_seq, rx, platform>>

(* The other handlers wait for the flash memory between finding the block  *)
(* and marking it: param_save in handle_rx_0x8100, jt808_report_response,  *)
(* Cam_jt808_0x0800_response and the handlers of several packets.          *)
RxFind ==
  /\ GsmBlocked /\ jpc = "recv" /\ mbox # <<>>
  /\ LET m == Head(mbox)
     IN /\ m.type = "answer" /\ m.kind # "auth" /\ (m.kind = "register" => m.ok)
        /\ \E n \in Matches(m) : rx' = [node |-> n, kind |-> m.kind, sn |-> m.sn]
  /\ mbox' = Tail(mbox) /\ jpc' = "apply"
  /\ UNCHANGED <<linkvars, txvars, platform>>

(* The answer to a picture announcement may queue the picture, before the  *)
(* announcement is marked.                                                 *)
RxApply ==
  /\ GsmBlocked /\ jpc = "apply" /\ rx.kind \notin PagedKinds
  /\ IF rx.kind = "register" THEN SessionAnswer /\ Registered
                             ELSE UNCHANGED linkvars
  /\ \/ heap' = Answered(heap, rx.node, rx.kind, rx.sn) /\ UNCHANGED list
     \/ /\ rx.kind = "cmd"
        /\ \E n \in FreeNodes :
             /\ heap' = Answered([heap EXCEPT ![n] = NewBlock("picture", 0)],
                                 rx.node, rx.kind, rx.sn)
             /\ list' = Inserted("picture", n)
  /\ rx' = NoAnswer /\ jpc' = "sock"
  /\ UNCHANGED <<txnode, tx_seq, mbox, platform>>

(* The answer to one of several packets: the next one is read, the last    *)
(* was sent, or the block waits for more.                                  *)
RxNextPacket ==
  /\ GsmBlocked /\ jpc = "apply" /\ rx.kind \in PagedKinds
  /\ IF heap[rx.node].state = "FREE" THEN UNCHANGED heap
     ELSE \/ heap' = [heap EXCEPT ![rx.node].state = "IDLE", ![rx.node].retry = 0]
          \/ \E state \in {"WAIT_ACK", "ACK_OK"} :
               heap' = [heap EXCEPT ![rx.node].state = state]
  /\ rx' = NoAnswer /\ jpc' = "sock"
  /\ UNCHANGED <<linkvars, list, txnode, tx_seq, mbox, platform>>

(* jt808_socket_proc; on a connected socket it queues the registration or  *)
(* the authentication, or now and then a heartbeat.                        *)
SocketStep ==
  /\ jpc = "sock" /\ jpc' = "recv"
  /\ \/ /\ \/ RequestPowerOn \/ RequestGprs \/ RequestConnect
           \/ ConnectFailed \/ MasterPassed
        /\ UNCHANGED <<heap, list, tx_seq>>
     \/ /\ Connected
        /\ CASE jt808_state = "REGISTER" -> AddTx("register")
             [] jt808_state = "AUTH" -> AddTx("auth")
             [] jt808_state = "REPORT" -> AddTx("answer") \/ UNCHANGED <<heap, list, tx_seq>>
             [] jt808_state = "WAIT" -> UNCHANGED <<heap, list, tx_seq>>
  /\ UNCHANGED <<txnode, mbox, rx, platform>>

SocketWait ==
  /\ GsmBlocked /\ jpc = "sock" /\ jpc' = "recv"
  /\ gsm_state \notin {"IDLE", "AT", "TCPIP"}
  /\ UNCHANGED <<linkvars, txvars, mbox, rx, platform>>

Jt808Process ==
  RxNothing \/ RxQuery \/ RxUnmatched \/ RxAuth \/ RxFind \/ RxApply
  \/ RxNextPacket \/ SocketStep \/ SocketWait

-----------------------------------------------------------------------------
(* Other threads, the platform and the disturbances of the link. *)

(* jt808_tx of another thread, for a driver's card, a position or the      *)
(* announcement of a picture, or the answer to an inquiry of the platform. *)
AddCommand ==
  /\ GsmBlocked /\ \E kind \in Queued : AddTx(kind)
  /\ UNCHANGED <<linkvars, txnode, rxvars, platform>>

(* A mutant of Post: the mailbox has no limit. *)
PostUnbounded(m) == mbox' = Append(mbox, m)

(* A message that finds the mailbox full is lost. *)
Post(m) == mbox' = IF Len(mbox) < MboxSize THEN Append(mbox, m) ELSE mbox

PlatformAnswers ==
  /\ "master" \in mopen
  /\ \E m \in owed, ok \in BOOLEAN :
       /\ m.kind \in DataKinds => ok
       /\ m.kind \notin DataKinds => sock = "CONNECTED" \/ "stale" \in Disturbances
       /\ owed' = owed \ {m}
       /\ Post(Answer(m, ok))
       /\ authed' = (authed \/ (m.kind = "auth" /\ ok))
  /\ UNCHANGED <<linkvars, txvars, jpc, rx>>

PlatformAsks ==
  /\ "master" \in mopen /\ authed
  /\ \E type \in Queries : Post(Query(type))
  /\ UNCHANGED <<linkvars, txvars, jpc, rx, platform>>

ConnectionLost ==
  /\ MailMayGoStale
  /\ Closed("master")
  /\ owed' = {} /\ authed' = FALSE
  /\ UNCHANGED <<txvars, rxvars>>

OtherLinkEvent ==
  /\ \/ SmsOpensAux \/ Closed("aux")
     \/ RequestPowerOff /\ MailMayGoStale
  /\ UNCHANGED <<txvars, rxvars, platform>>

Next ==
  \/ GsmProcess \/ Jt808Process \/ AddCommand
  \/ PlatformAnswers \/ PlatformAsks \/ ConnectionLost \/ OtherLinkEvent

Spec == Init /\ [][Next]_vars

-----------------------------------------------------------------------------
(* Properties. *)

InList(n) == \E i \in DOMAIN list : list[i] = n

(* The list links live blocks, each once: no removal frees a block that is *)
(* still linked, whatever was put in front during the write (jt808.c:1393, *)
(* jt808.c:1398).                                                          *)
ListIsLive ==
  /\ \A i \in DOMAIN list : heap[list[i]].state # "FREE"
  /\ \A i, j \in DOMAIN list : list[i] = list[j] => i = j
  /\ txnode # Nil => InList(txnode)

(* A message put at the end of the list (a command, a report, an           *)
(* announcement, the parameters or pages the platform asked for) stays in  *)
(* it until its answer or its last timeout frees it: no removal of another *)
(* message unlinks it (jt808.c:1394), however the threads interleave.  It  *)
(* is about these kinds only: an answer in front of the block that is      *)
(* written, or a picture put behind that answer (jt808.c:375), goes out of *)
(* the list with the block.                                                *)
CommandsStayQueued ==
  \A n \in Node : heap[n].state # "FREE" /\ heap[n].kind \in EndKinds => InList(n)

(* No single message is sent more often than its max_retry allows,         *)
(* whatever answers, timeouts and reconnections happen in between          *)
(* (jt808.c:281).                                                          *)
RetryBound ==
  \A n \in Node : heap[n].times <= RetryLimit(heap[n].kind)

(* Messages other than registration and authentication are sent only on a  *)
(* connection on which the platform accepted an authentication             *)
(* (jt808.c:1037 "a new connection must be authenticated again").          *)
DataAfterAuth ==
  [][gpc # "write" /\ gpc' = "write" /\ heap[txnode'].kind \in DataKinds
     => authed]_vars

(* A single message is not sent again once its answer was handled, unless  *)
(* that happened while it was being written, which forgets the answer      *)
(* (jt808.c:447 "general answer of the platform: the message was received, *)
(* stop sending"; jt808.c:1372).                                           *)
AckedNotSentAgain ==
  [][gpc # "write" /\ gpc' = "write" => ~heap[txnode'].acked]_vars

=============================================================================
