------------------------------- MODULE GsmLink -------------------------------
(***************************************************************************)
(* The data link of the terminal: the modem state gsm_state, the sockets   *)
(* gsm_socket[0] (the platform) and gsm_socket[2] (opened on demand for an *)
(* upgrade), and the JT/T 808 session state jt808_state, as they are       *)
(* changed by                                                              *)
(*   - the gsm thread (m66.c), priority 7, which drives the modem and is   *)
(*     the only one that waits for its answers;                            *)
(*   - the jt808 thread (jt808.c), priority 10, which asks for the next    *)
(*     step of the connection;                                             *)
(*   - the gsm_rx thread (m66.c), priority 6, which reports that the modem *)
(*     closed a connection;                                                *)
(*   - whoever asks for a power cycle with gsmstate(GSM_POWEROFF).         *)
(* The variables are plain C globals, without a lock.                      *)
(***************************************************************************)
EXTENDS Naturals

CONSTANTS
  IndexLimit,   \* 20: failed attempts after which the modem is power cycled
  ServerHalf,   \* 5: attempts on a server before the other one is tried
  IndexMod,     \* 256: the width of GSM_SOCKET.index
  MaxFaults,    \* bound: disturbances in a behaviour
  Disturbances, \* which of them occur: a subset of DisturbanceKinds
  Background    \* the modem work besides JT/T 808: a subset of BackgroundWork

BackgroundWork == {"csq", "sms", "tts", "at"}

(* A step that fails, a CONNECT after its time-out, a close of a           *)
(* connection, the short message that opens the second socket, a power-off *)
(* request, an answer of the platform processed when the connection it     *)
(* came on is gone.                                                        *)
DisturbanceKinds ==
  {"failure", "late", "close", "aux", "power_off", "stale"}

ASSUME LinkAssumption ==
  /\ IndexLimit \in Nat \ {0} /\ ServerHalf \in Nat \ {0}
  /\ IndexMod \in Nat /\ IndexMod > IndexLimit /\ ServerHalf < IndexMod
  /\ MaxFaults \in Nat
  /\ Disturbances \subseteq DisturbanceKinds
  /\ Background \subseteq BackgroundWork

VARIABLES
  gsm_state,    \* T_GSM_STATE, written by every thread
  sock,         \* gsm_socket[0].state
  aux,          \* gsm_socket[2].state
  pcurr,        \* the socket pcurr_socket points at, "none" for RT_NULL
  index,        \* gsm_socket[0].index, the connection attempts
  jt808_state,  \* JT808_STATE
  authcode,     \* is an authentication code stored (id_0xF003 not empty)
  gpc,          \* where the gsm thread is in its loop
  oldstate,     \* the local oldstate of sms_proc, tts_proc and at_cmd_proc
  mopen,        \* the connections the modem has open
  dial,         \* the one it was asked to open last
  faults        \* disturbances left

modem == <<mopen, dial>>
sockets == <<sock, aux, pcurr>>
session == <<index, jt808_state, authcode>>
linkvars == <<gsm_state, sockets, session, gpc, oldstate, modem, faults>>

Sockets == {"master", "aux"}
GsmStates == {"IDLE", "POWERON", "AT", "AT_SEND", "GPRS", "TCPIP",
              "SOCKET_PROC", "POWEROFF"}
ConnStates == {"NONE", "IDLE", "PEER", "CONNECTED", "ERROR"}
SessionStates == {"REGISTER", "AUTH", "REPORT", "WAIT"}

(* The calls in which the gsm thread blocks: its delay, the exchanges with *)
(* the modem, and "flash", the wait for the semaphore of the flash memory. *)
(* In "connect" the answer CONNECT is in its mailbox.                      *)
Blocking == {"delay", "poweron", "poweroff", "gprs", "socket", "connect",
             "csq", "flash", "write", "sms_busy", "tts_busy", "at_busy"}
GsmLocations == Blocking \cup {"tx", "sms", "tts", "at"}

LinkTypeOK ==
  /\ gsm_state \in GsmStates
  /\ sock \in ConnStates
  /\ aux \in ConnStates
  /\ pcurr \in Sockets \cup {"none"}
  /\ index \in 0 .. IndexMod - 1
  /\ jt808_state \in SessionStates
  /\ authcode \in BOOLEAN
  /\ gpc \in GsmLocations
  /\ oldstate \in GsmStates
  /\ mopen \subseteq Sockets
  /\ dial \in Sockets
  /\ faults \in 0 .. MaxFaults

FirstSession == IF authcode THEN "AUTH" ELSE "REGISTER"

LinkInit ==
  /\ gsm_state = "IDLE"
  /\ sock = "IDLE" /\ aux = "NONE" /\ pcurr = "none"
  /\ authcode \in BOOLEAN
  /\ index = 0 /\ jt808_state = FirstSession
  /\ gpc = "delay"
  /\ oldstate = "IDLE"
  /\ mopen = {} /\ dial = "master"
  /\ faults = MaxFaults

-----------------------------------------------------------------------------
(* The scheduler is preemptive with fixed priorities: a thread of lower    *)
(* priority than the gsm thread runs while the gsm thread is blocked.      *)
GsmBlocked == gpc \in Blocking

(* The work the gsm thread may find behind a point of its loop.  A queue   *)
(* that is empty is passed over.                                           *)
AtWork == {"sms", "tts", "at"}
Busy == [sms |-> "sms_busy", tts |-> "tts_busy", at |-> "at_busy"]
Behind == [tx |-> AtWork, sms |-> {"tts", "at"}, tts |-> {"at"}, at |-> {}]
WorkAfter(place) == (Behind[place] \cap Background) \cup {"delay"}

Disturb(kind) ==
  /\ kind \in Disturbances
  /\ faults > 0
  /\ faults' = faults - 1

(* A mutant of SocketParaInit: gsm_socket[0].state is not reset. *)
SocketParaInitKeepsSocket ==
  /\ aux' = "NONE"
  /\ jt808_state' = FirstSession
  /\ UNCHANGED <<sock, pcurr, index, authcode>>

(* socket_para_init: pcurr_socket and index keep their values. *)
SocketParaInit ==
  /\ sock' = "IDLE" /\ aux' = "NONE"
  /\ jt808_state' = FirstSession
  /\ UNCHANGED <<pcurr, index, authcode>>

Gsmstate(cmd) ==
  /\ gsm_state' = cmd
  /\ IF cmd \in {"POWEROFF", "POWERON", "IDLE"}
     THEN SocketParaInit
     ELSE UNCHANGED <<sockets, session>>

-----------------------------------------------------------------------------
(* The gsm thread: one turn of its loop goes from "delay" to "delay". *)

PcurrState == CASE pcurr = "master" -> sock [] pcurr = "aux" -> aux
                [] OTHER -> "NONE"

(* What the switch of the loop starts in each gsm_state.  A request for a  *)
(* socket with pcurr_socket = RT_NULL returns at once.                     *)
SwitchTarget ==
  CASE gsm_state = "POWERON"  -> {"poweron"}
    [] gsm_state = "POWEROFF" -> {"poweroff"}
    [] gsm_state = "GPRS"     -> {"gprs"}
    [] gsm_state = "SOCKET_PROC" ->
         IF PcurrState = "PEER" THEN {"socket"} ELSE {"tx"}
    [] gsm_state = "TCPIP"    -> {"tx"} \cup (Background \cap {"csq"})
    [] OTHER                  -> {"tx"}

(* A request for a socket that is no longer in CONNECT_PEER falls through  *)
(* to the end of the procedure, which returns to TCPIP.                    *)
Switch ==
  /\ gpc = "delay"
  /\ gpc' \in SwitchTarget
  /\ gsm_state' = IF gsm_state = "SOCKET_PROC" /\ pcurr # "none"
                     /\ PcurrState # "PEER"
                  THEN "TCPIP" ELSE gsm_state
  /\ dial' = IF gpc' = "socket" THEN pcurr ELSE dial
  /\ UNCHANGED <<sockets, session, oldstate, mopen, faults>>

PowerOnEnd ==
  /\ gpc = "poweron"
  /\ gsm_state' = "AT"
  /\ gpc' = "tx"
  /\ UNCHANGED <<sockets, session, oldstate, modem, faults>>

PowerOffEnd ==
  /\ gpc = "poweroff"
  /\ gsm_state' = "IDLE"
  /\ mopen' = {}
  /\ gpc' = "tx"
  /\ UNCHANGED <<sockets, session, oldstate, dial, faults>>

GprsEnd(ok) ==
  /\ gpc = "gprs"
  /\ IF ok THEN gsm_state' = "TCPIP" /\ UNCHANGED faults
           ELSE gsm_state' = "POWEROFF" /\ Disturb("failure")
  /\ gpc' = "tx"
  /\ UNCHANGED <<sockets, session, oldstate, modem>>

ModemConnects ==
  /\ gpc = "socket" /\ dial \notin mopen
  /\ mopen' = mopen \cup {dial}
  /\ gpc' = "connect"
  /\ UNCHANGED <<gsm_state, sockets, session, oldstate, dial, faults>>

(* No CONNECT: the modem refuses (it still has the connection), it does    *)
(* not reach the server, or it answers after the time-out.                 *)
ConnectError ==
  \/ gpc = "socket" /\ dial \in mopen /\ UNCHANGED faults
  \/ gpc = "socket" /\ dial \notin mopen /\ Disturb("failure")
  \/ gpc = "connect" /\ Disturb("late")

(* The thread stores the outcome through pcurr_socket.  The gsm_rx thread  *)
(* may have set it to RT_NULL since: that store is undefined, and here it  *)
(* does not reach a socket.                                                *)
SocketEnd(ok) ==
  LET outcome == IF ok THEN "CONNECTED" ELSE "ERROR"
  IN /\ IF ok THEN gpc = "connect" /\ UNCHANGED faults ELSE ConnectError
     /\ sock' = IF pcurr = "master" THEN outcome ELSE sock
     /\ aux' = IF pcurr = "aux" THEN outcome ELSE aux
     /\ gsm_state' = "TCPIP"
     /\ gpc' = "tx"
     /\ UNCHANGED <<pcurr, session, oldstate, modem>>

CsqEnd ==
  /\ gpc = "csq"
  /\ gpc' = "tx"
  /\ UNCHANGED <<gsm_state, sockets, session, oldstate, modem, faults>>

(* socket_write, called for a message that may be sent; a failed one cuts  *)
(* the power of the modem.                                                 *)
WriteBegin ==
  /\ gpc = "tx"
  /\ gsm_state = "TCPIP" /\ sock = "CONNECTED"
  /\ gsm_state' = "AT_SEND"
  /\ gpc' = "write"
  /\ UNCHANGED <<sockets, session, oldstate, modem, faults>>

WriteEnd(ok) ==
  /\ gpc = "write"
  /\ IF ok THEN Gsmstate("TCPIP") /\ UNCHANGED faults
           ELSE Gsmstate("POWEROFF") /\ Disturb("failure")
  /\ gpc' \in WorkAfter("tx")
  /\ UNCHANGED <<oldstate, modem>>

(* A pass over the transmit list without a write may end the registration  *)
(* or the authentication with a timeout.                                   *)
TxPoll ==
  /\ gpc = "tx"
  /\ jt808_state' \in {jt808_state, "REGISTER", "AUTH"}
  /\ gpc' \in WorkAfter("tx")
  /\ UNCHANGED <<gsm_state, sockets, index, authcode, oldstate, modem, faults>>

(* The report or the picture that may follow is looked for in the flash    *)
(* memory, which another thread may hold (jt808_gps.c:588).                *)
TxFlash ==
  /\ gpc = "tx"
  /\ gpc' = "flash"
  /\ UNCHANGED <<gsm_state, sockets, session, oldstate, modem, faults>>

TxFlashEnd ==
  /\ gpc = "flash"
  /\ gpc' \in WorkAfter("tx")
  /\ UNCHANGED <<gsm_state, sockets, session, oldstate, modem, faults>>

(* The rest of the turn: a short message, an announcement and an AT        *)
(* command, each if there is one and the modem is on.                      *)
AtAllowed(work) == work = "at" \/ gsm_state \notin {"IDLE", "POWERON", "POWEROFF"}

AtBegin(work) ==
  /\ gpc = work
  /\ AtAllowed(work)
  /\ oldstate' = gsm_state
  /\ gsm_state' = "AT_SEND"
  /\ gpc' = Busy[work]
  /\ UNCHANGED <<sockets, session, modem, faults>>

(* The ISP short message, executed by the gsm thread, opens socket 3. *)
SmsOpensAux ==
  /\ gpc = "sms_busy" /\ Disturb("aux")
  /\ aux' = "IDLE"
  /\ UNCHANGED <<gsm_state, sock, pcurr, session, gpc, oldstate, modem>>

(* tts_proc restores the state it found whatever happened since. *)
AtEnd(work) ==
  /\ gpc = Busy[work]
  /\ gsm_state' = IF work = "tts" \/ gsm_state = "AT_SEND"
                  THEN oldstate ELSE gsm_state
  /\ gpc' \in WorkAfter(work)
  /\ UNCHANGED <<sockets, session, oldstate, modem, faults>>

AtRefused(work) ==
  /\ gpc = work /\ ~AtAllowed(work)
  /\ gpc' \in WorkAfter(work)
  /\ UNCHANGED <<gsm_state, sockets, session, oldstate, modem, faults>>

ModemStep ==
  \/ Switch \/ PowerOnEnd \/ PowerOffEnd \/ CsqEnd \/ ModemConnects
  \/ \E ok \in BOOLEAN : GprsEnd(ok) \/ SocketEnd(ok)
  \/ \E work \in AtWork : AtBegin(work) \/ AtEnd(work) \/ AtRefused(work)

GsmThread ==
  \/ ModemStep \/ WriteBegin \/ TxPoll \/ TxFlash \/ TxFlashEnd
  \/ \E ok \in BOOLEAN : WriteEnd(ok)

-----------------------------------------------------------------------------
(* The jt808 thread: one pass of jt808_socket_proc. *)

RequestPowerOn ==
  /\ GsmBlocked /\ gsm_state = "IDLE"
  /\ Gsmstate("POWERON")
  /\ UNCHANGED <<gpc, oldstate, modem, faults>>

RequestGprs ==
  /\ GsmBlocked /\ gsm_state = "AT"
  /\ gsm_state' = "GPRS"
  /\ UNCHANGED <<sockets, session, gpc, oldstate, modem, faults>>

RequestConnect ==
  /\ GsmBlocked /\ gsm_state = "TCPIP" /\ sock = "IDLE"
  /\ sock' = "PEER" /\ pcurr' = "master"
  /\ gsm_state' = "SOCKET_PROC"
  /\ jt808_state' = "AUTH"
  /\ UNCHANGED <<aux, index, authcode, gpc, oldstate, modem, faults>>

(* The pass goes on to socket_iccard_iap_proc while gsm_state is TCPIP;    *)
(* current is the pcurr_socket that the master socket left.                *)
AuxProc(current) ==
  IF aux = "IDLE"
  THEN aux' = "PEER" /\ pcurr' = "aux" /\ gsm_state' = "SOCKET_PROC"
  ELSE pcurr' = current /\ UNCHANGED <<aux, gsm_state>>

(* A mutant of ConnectFailed: it never gives the modem up. *)
ConnectFailedWithoutLimit ==
  /\ GsmBlocked /\ gsm_state = "TCPIP" /\ sock = "ERROR"
  /\ sock' = "IDLE"
  /\ index' = (index + 1) % IndexMod
  /\ AuxProc(pcurr)
  /\ UNCHANGED <<jt808_state, authcode, gpc, oldstate, modem, faults>>

ConnectFailed ==
  /\ GsmBlocked /\ gsm_state = "TCPIP" /\ sock = "ERROR"
  /\ LET next == (index + 1) % IndexMod
     IN IF next >= IndexLimit
        THEN /\ gsm_state' = "POWEROFF"
             /\ sock' = "IDLE" /\ aux' = "NONE" /\ jt808_state' = FirstSession
             /\ index' = 0
             /\ UNCHANGED pcurr
        ELSE /\ sock' = "IDLE"
             /\ index' = next
             /\ UNCHANGED jt808_state
             /\ AuxProc(pcurr)
  /\ UNCHANGED <<authcode, gpc, oldstate, modem, faults>>

(* On a connected socket the thread queues a registration or an            *)
(* authentication and waits for the outcome.                               *)
Connected ==
  /\ GsmBlocked /\ gsm_state = "TCPIP" /\ sock = "CONNECTED"
  /\ jt808_state' = IF jt808_state \in {"REGISTER", "AUTH"}
                    THEN "WAIT" ELSE jt808_state
  /\ AuxProc("none")
  /\ UNCHANGED <<sock, index, authcode, gpc, oldstate, modem, faults>>

(* A first socket that waits for its connection has nothing to ask for:    *)
(* only the second one is looked at.                                       *)
MasterPassed ==
  /\ GsmBlocked /\ gsm_state = "TCPIP" /\ sock \in {"NONE", "PEER"}
  /\ AuxProc(pcurr)
  /\ UNCHANGED <<sock, session, gpc, oldstate, modem, faults>>

SocketProc ==
  \/ RequestPowerOn \/ RequestGprs \/ RequestConnect \/ ConnectFailed
  \/ Connected \/ MasterPassed

(* jt808_tx_response on an authentication: an accepted one returns to the  *)
(* first attempt on the server in use.                                     *)
AuthAnswered(ok) ==
  /\ jt808_state' = IF ok THEN "REPORT" ELSE "REGISTER"
  /\ index' = IF ~ok THEN index
              ELSE IF index % (2 * ServerHalf) < ServerHalf
                   THEN 0 ELSE ServerHalf
  /\ UNCHANGED authcode

(* handle_rx_0x8100: the platform registered the terminal. *)
Registered ==
  /\ jt808_state' = "AUTH"
  /\ authcode' = TRUE
  /\ UNCHANGED index

SessionAnswer ==
  /\ GsmBlocked
  /\ Registered \/ \E ok \in BOOLEAN : AuthAnswered(ok)
  /\ IF sock = "CONNECTED" THEN UNCHANGED faults ELSE Disturb("stale")
  /\ UNCHANGED <<gsm_state, sockets, gpc, oldstate, modem>>

-----------------------------------------------------------------------------
(* A mutant of Closed: pcurr_socket is left. *)
ClosedKeepsRequest(cid) ==
  /\ cid \in mopen /\ Disturb("close")
  /\ mopen' = mopen \ {cid}
  /\ IF cid = "master"
     THEN /\ sock' = "IDLE" /\ UNCHANGED aux
          /\ index' = (index + 1) % IndexMod
          /\ jt808_state' = "AUTH"
     ELSE aux' = "IDLE" /\ UNCHANGED <<sock, index, jt808_state>>
  /\ UNCHANGED <<pcurr, gsm_state, authcode, gpc, oldstate, dial>>

(* A mutant of Closed: the attempts are counted without a width. *)
ClosedCountsOn(cid) ==
  /\ cid = "master" /\ cid \in mopen /\ Disturb("close")
  /\ mopen' = mopen \ {cid}
  /\ sock' = "IDLE" /\ jt808_state' = "AUTH" /\ pcurr' = "none"
  /\ index' = index + 1
  /\ UNCHANGED <<aux, gsm_state, authcode, gpc, oldstate, dial>>

(* The gsm_rx thread: cb_socket_close. *)
Closed(cid) ==
  /\ cid \in mopen /\ Disturb("close")
  /\ mopen' = mopen \ {cid}
  /\ IF cid = "master"
     THEN /\ sock' = "IDLE" /\ UNCHANGED aux
          /\ index' = (index + 1) % IndexMod
          /\ jt808_state' = "AUTH"
     ELSE aux' = "IDLE" /\ UNCHANGED <<sock, index, jt808_state>>
  /\ pcurr' = "none"
  /\ UNCHANGED <<gsm_state, authcode, gpc, oldstate, dial>>

(* gsmstate(GSM_POWEROFF) of another thread or of the gsm_rx thread: the   *)
(* update timer, the radio-off command, a menu, +PDP DEACT.                *)
RequestPowerOff ==
  /\ Disturb("power_off")
  /\ Gsmstate("POWEROFF")
  /\ UNCHANGED <<gpc, oldstate, modem>>

Environment ==
  SmsOpensAux \/ RequestPowerOff \/ \E cid \in Sockets : Closed(cid)

LinkNext == GsmThread \/ SocketProc \/ SessionAnswer \/ Environment

LinkSpec == LinkInit /\ [][LinkNext]_linkvars

(* Every wait of the gsm thread for the modem is bounded by a timeout, and *)
(* both threads poll every 50 ms; the jt808 thread gets the processor each *)
(* time the gsm thread blocks.                                             *)
LinkFairSpec ==
  LinkSpec /\ WF_linkvars(GsmThread) /\ SF_linkvars(SocketProc)

-----------------------------------------------------------------------------
(* Properties. *)

(* The gsm thread is asked for a connection, or will be when its exchange  *)
(* ends.                                                                   *)
SocketRequested ==
  \/ gsm_state = "SOCKET_PROC"
  \/ /\ oldstate = "SOCKET_PROC"
     /\ \/ gpc \in {"sms_busy", "at_busy"} /\ gsm_state = "AT_SEND"
        \/ gpc = "tts_busy"

(* The gsm thread is asked for a socket that pcurr_socket does not name    *)
(* (m66.c:1722), or gsm_socket[0] waits for a connection that the gsm      *)
(* thread is not asked for, now or when its exchange ends: nothing would   *)
(* ever connect it.                                                        *)
RequestLost ==
  \/ SocketRequested /\ pcurr = "none"
  \/ sock = "PEER" /\ ~(SocketRequested /\ pcurr = "master")

(* Only a close loses a request: no interleaving of power-off requests,    *)
(* announcements, failures and requests for the two sockets leaves a       *)
(* socket in CONNECT_PEER without the gsm thread on its way to connect it, *)
(* except a close that meets a pending request (jt808.c:1516, jt808.c:1064, *)
(* m66.c:1776, 2161).                                                      *)
OnlyCloseLosesRequest ==
  [][~RequestLost /\ RequestLost'
     => \E cid \in mopen : mopen' = mopen \ {cid}]_linkvars

(* The terminal believes in a connection only while the modem has it: a    *)
(* close that arrives while the gsm thread waits for CONNECT is not        *)
(* overwritten by the answer it had already got (m66.c:1770, jt808.c:1036). *)
ConnectedIsOpen ==
  /\ sock = "CONNECTED" => "master" \in mopen
  /\ aux = "CONNECTED" => "aux" \in mopen

(* The power of the modem is cut only when the sockets are given up: no    *)
(* message is sent to, and no session kept on, a modem that was switched   *)
(* off, whoever asked for it (m66.c:1341, jt808.c:1787).                   *)
PowerCutDisconnected == gpc = "poweroff" => sock # "CONNECTED"

(* Once the network and the platform stop failing, the terminal gets back  *)
(* to a connected master socket and keeps it: no failure of a step, late   *)
(* answer, power-off or close at any moment leaves the two threads waiting *)
(* for each other, except a close that meets a pending request.            *)
Online == sock = "CONNECTED" /\ gsm_state \in {"TCPIP", "AT_SEND"}
Reconnects == <>[](Online \/ RequestLost)

(* The comment at jt808.c:1516: gsm_state "is now GSM_SOCKET_PROC, returns *)
(* to GSM_TCPIP when connected".                                           *)
SocketProcReturns == gsm_state = "SOCKET_PROC" ~> gsm_state = "TCPIP"

=============================================================================
