---------------------------- MODULE GsmLink_proofs ----------------------------
(***************************************************************************)
(* Theorems about GsmLink, for every value of its constants.               *)
(***************************************************************************)
EXTENDS GsmLink, TLAPS

USE DEF linkvars, modem, sockets, session

LEMMA FirstSessionType == FirstSession \in SessionStates
BY DEF FirstSession, SessionStates

(* gsmstate(cmd) keeps the variables in their types. *)
LEMMA GsmstateType ==
  ASSUME LinkTypeOK, NEW cmd \in GsmStates, Gsmstate(cmd)
  PROVE  /\ gsm_state' \in GsmStates
         /\ sock' \in ConnStates /\ aux' \in ConnStates
         /\ pcurr' \in Sockets \cup {"none"} /\ index' \in 0 .. IndexMod - 1
         /\ jt808_state' \in SessionStates /\ authcode' \in BOOLEAN
BY FirstSessionType DEF LinkTypeOK, Gsmstate, SocketParaInit, ConnStates

LEMMA DisturbType ==
  ASSUME LinkTypeOK, NEW kind, Disturb(kind)
  PROVE  faults' \in 0 .. MaxFaults
BY LinkAssumption DEF LinkTypeOK, Disturb

LEMMA WorkAfterType ==
  ASSUME NEW place \in AtWork \cup {"tx"}
  PROVE  WorkAfter(place) \subseteq AtWork \cup {"delay"}
BY DEF WorkAfter, Behind, AtWork

(* The width of GSM_SOCKET.index is respected by every count. *)
LEMMA IndexType ==
  ASSUME index \in 0 .. IndexMod - 1
  PROVE  (index + 1) % IndexMod \in 0 .. IndexMod - 1
BY LinkAssumption

LEMMA LinkTypeInit == LinkInit => LinkTypeOK
BY FirstSessionType, LinkAssumption
DEF LinkInit, LinkTypeOK, GsmStates, ConnStates, Sockets, GsmLocations, Blocking

LEMMA LinkTypeStep == LinkTypeOK /\ [LinkNext]_linkvars => LinkTypeOK'
<1> SUFFICES ASSUME LinkTypeOK, [LinkNext]_linkvars PROVE LinkTypeOK'
  OBVIOUS
<1>1. CASE UNCHANGED linkvars
  BY <1>1 DEF LinkTypeOK
<1>2. CASE ModemStep
  <2>1. CASE Switch
    BY <2>1 DEF Switch, SwitchTarget, LinkTypeOK, GsmStates, GsmLocations,
                Blocking, Sockets, PcurrState
  <2>2. CASE PowerOnEnd \/ PowerOffEnd \/ CsqEnd \/ ModemConnects
    BY <2>2 DEF PowerOnEnd, PowerOffEnd, CsqEnd, ModemConnects, LinkTypeOK,
                GsmStates, GsmLocations, Blocking, Sockets
  <2>3. CASE \E ok \in BOOLEAN : GprsEnd(ok)
    BY <2>3, DisturbType DEF GprsEnd, LinkTypeOK, GsmStates, GsmLocations, Blocking
  <2>4. CASE \E ok \in BOOLEAN : SocketEnd(ok)
    <3>1. PICK ok \in BOOLEAN : SocketEnd(ok) BY <2>4
    <3>2. faults' \in 0 .. MaxFaults
      BY <3>1, DisturbType DEF SocketEnd, ConnectError, LinkTypeOK
    <3> QED
      BY <3>1, <3>2 DEF SocketEnd, LinkTypeOK, GsmStates, GsmLocations,
                        Blocking, ConnStates
  <2>5. CASE \E work \in AtWork : AtBegin(work) \/ AtEnd(work) \/ AtRefused(work)
    <3>1. PICK work \in AtWork : AtBegin(work) \/ AtEnd(work) \/ AtRefused(work)
      BY <2>5
    <3>2. WorkAfter(work) \subseteq GsmLocations /\ Busy[work] \in GsmLocations
      BY WorkAfterType DEF Busy, AtWork, GsmLocations, Blocking
    <3> QED
      BY <3>1, <3>2 DEF AtBegin, AtEnd, AtRefused, LinkTypeOK, GsmStates
  <2> QED BY <1>2, <2>1, <2>2, <2>3, <2>4, <2>5 DEF ModemStep
<1>3. CASE WriteBegin
  BY <1>3 DEF WriteBegin, LinkTypeOK, GsmStates, GsmLocations, Blocking
<1>4. CASE TxPoll \/ TxFlash \/ TxFlashEnd
  BY <1>4, WorkAfterType
  DEF TxPoll, TxFlash, TxFlashEnd, LinkTypeOK, SessionStates, AtWork, GsmLocations, Blocking
<1>5. CASE \E ok \in BOOLEAN : WriteEnd(ok)
  <2>1. PICK ok \in BOOLEAN : WriteEnd(ok) BY <1>5
  <2>2. \E cmd \in GsmStates : Gsmstate(cmd)
    BY <2>1 DEF WriteEnd, GsmStates
  <2>3. faults' \in 0 .. MaxFaults
    BY <2>1, DisturbType DEF WriteEnd, LinkTypeOK
  <2> QED
    BY <2>1, <2>2, <2>3, GsmstateType, WorkAfterType
    DEF WriteEnd, LinkTypeOK, AtWork, GsmLocations, Blocking
<1>6. CASE SocketProc
  <2>1. CASE RequestPowerOn
    BY <2>1, GsmstateType DEF RequestPowerOn, LinkTypeOK, GsmStates
  <2>2. CASE RequestGprs \/ RequestConnect
    BY <2>2 DEF RequestGprs, RequestConnect, LinkTypeOK, GsmStates, ConnStates,
                Sockets, SessionStates
  <2>3. CASE ConnectFailed
    BY <2>3, FirstSessionType, IndexType, LinkAssumption
    DEF ConnectFailed, AuxProc, LinkTypeOK, GsmStates, ConnStates, Sockets
  <2>4. CASE Connected
    BY <2>4 DEF Connected, AuxProc, LinkTypeOK, GsmStates, ConnStates, Sockets,
                SessionStates
  <2>5. CASE MasterPassed
    BY <2>5 DEF MasterPassed, AuxProc, LinkTypeOK, GsmStates, ConnStates, Sockets
  <2> QED BY <1>6, <2>1, <2>2, <2>3, <2>4, <2>5 DEF SocketProc
<1>7. CASE SessionAnswer
  <2>1. faults' \in 0 .. MaxFaults
    BY <1>7, DisturbType DEF SessionAnswer, LinkTypeOK
  <2>2. index' \in {index, 0, ServerHalf}
    BY <1>7 DEF SessionAnswer, Registered, AuthAnswered
  <2>3. jt808_state' \in SessionStates /\ authcode' \in BOOLEAN
    BY <1>7 DEF SessionAnswer, Registered, AuthAnswered, SessionStates, LinkTypeOK
  <2>4. index' \in 0 .. IndexMod - 1
    BY <2>2, LinkAssumption DEF LinkTypeOK
  <2> QED
    BY <1>7, <2>1, <2>3, <2>4 DEF SessionAnswer, LinkTypeOK
<1>8. CASE SmsOpensAux
  BY <1>8, DisturbType DEF SmsOpensAux, LinkTypeOK, ConnStates
<1>9. CASE RequestPowerOff
  BY <1>9, DisturbType, GsmstateType DEF RequestPowerOff, LinkTypeOK, GsmStates
<1>10. CASE \E cid \in Sockets : Closed(cid)
  BY <1>10, DisturbType, IndexType
  DEF Closed, LinkTypeOK, ConnStates, SessionStates, Sockets
<1> QED
  BY <1>1, <1>2, <1>3, <1>4, <1>5, <1>6, <1>7, <1>8, <1>9, <1>10
  DEF LinkNext, GsmThread, Environment

(* The variables of the link keep their types, whatever the bounds, the    *)
(* disturbances and the background work; in particular the width of index  *)
(* covers every count of attempts.                                         *)
THEOREM LinkTypeInvariant == LinkSpec => []LinkTypeOK
<1> QED BY LinkTypeInit, LinkTypeStep, PTL DEF LinkSpec

-----------------------------------------------------------------------------
(* Why a connection is never believed in without the modem.  The states    *)
(* TCPIP, SOCKET_PROC and AT_SEND are the ones of a modem that is on the   *)
(* network; only the gsm thread makes a socket CONNECTED, at the end of    *)
(* "connect", and every step that leaves these states for good resets the  *)
(* sockets first.                                                          *)

AtBusy == {"sms_busy", "tts_busy", "at_busy"}
SomeConnected == sock = "CONNECTED" \/ aux = "CONNECTED"

(* AT_SEND is the state of an exchange of the gsm thread, never the one to *)
(* return to.                                                              *)
AtSendInv ==
  /\ gsm_state = "AT_SEND" => gpc \in AtBusy \cup {"write"}
  /\ gpc \in AtBusy => /\ gsm_state \in {"AT_SEND", "POWEROFF"}
                       /\ oldstate # "AT_SEND"

(* A connected socket keeps the modem out of the states that power it on   *)
(* or off or attach it to the network, and out of the return to them.      *)
OnlineInv ==
  SomeConnected =>
    /\ gsm_state \in {"TCPIP", "SOCKET_PROC", "AT_SEND"}
    /\ gpc \notin {"poweron", "poweroff", "gprs"}
    /\ gpc \in AtBusy => oldstate \in {"TCPIP", "SOCKET_PROC"}

(* While the modem connects, pcurr_socket is the socket it was asked for,  *)
(* or RT_NULL after a close.                                               *)
DialInv ==
  gpc \in {"socket", "connect"} =>
    /\ gsm_state \in {"SOCKET_PROC", "POWEROFF"}
    /\ pcurr \in {dial, "none"}
    /\ gpc = "connect" /\ pcurr # "none" => dial \in mopen

ConnectionInv ==
  LinkTypeOK /\ AtSendInv /\ OnlineInv /\ DialInv /\ ConnectedIsOpen

LEMMA ConnectionInit == LinkInit => ConnectionInv
BY LinkTypeInit
DEF LinkInit, ConnectionInv, AtSendInv, OnlineInv, DialInv, ConnectedIsOpen,
    SomeConnected, AtBusy

LEMMA ConnectionStep ==
  ASSUME ConnectionInv, [LinkNext]_linkvars
  PROVE  ConnectionInv'
<1> USE DEF AtBusy, SomeConnected
<1>1. LinkTypeOK /\ LinkTypeOK'
  BY LinkTypeStep DEF ConnectionInv
<1> SUFFICES AtSendInv' /\ OnlineInv' /\ DialInv' /\ ConnectedIsOpen'
  BY <1>1 DEF ConnectionInv
<1> USE DEF ConnectionInv, AtSendInv, OnlineInv, DialInv, ConnectedIsOpen
<1>2. CASE UNCHANGED linkvars
  BY <1>2
<1>3. CASE Switch
  BY <1>3 DEF Switch, SwitchTarget, PcurrState
<1>4. CASE PowerOnEnd \/ PowerOffEnd \/ CsqEnd \/ ModemConnects
  BY <1>4 DEF PowerOnEnd, PowerOffEnd, CsqEnd, ModemConnects
<1>5. CASE \E ok \in BOOLEAN : GprsEnd(ok)
  BY <1>5 DEF GprsEnd
<1>6. CASE \E ok \in BOOLEAN : SocketEnd(ok)
  BY <1>6, <1>1 DEF SocketEnd, ConnectError, LinkTypeOK, Sockets
<1>7. CASE \E work \in AtWork : AtBegin(work) \/ AtEnd(work) \/ AtRefused(work)
  BY <1>7 DEF AtBegin, AtEnd, AtRefused, AtAllowed, AtWork, Busy, WorkAfter, Behind
<1>8. CASE WriteBegin \/ TxPoll \/ TxFlash \/ TxFlashEnd
  BY <1>8, WorkAfterType DEF WriteBegin, TxPoll, TxFlash, TxFlashEnd, AtWork
<1>9. CASE \E ok \in BOOLEAN : WriteEnd(ok)
  BY <1>9, WorkAfterType DEF WriteEnd, Gsmstate, SocketParaInit, AtWork
<1>10. CASE RequestPowerOn \/ RequestGprs \/ RequestConnect
  BY <1>10 DEF RequestPowerOn, RequestGprs, RequestConnect, Gsmstate, SocketParaInit
<1>11. CASE ConnectFailed \/ Connected \/ MasterPassed
  BY <1>11 DEF ConnectFailed, Connected, MasterPassed, AuxProc
<1>12. CASE SessionAnswer
  BY <1>12 DEF SessionAnswer
<1>13. CASE SmsOpensAux \/ RequestPowerOff
  BY <1>13 DEF SmsOpensAux, RequestPowerOff, Gsmstate, SocketParaInit
<1>14. CASE \E cid \in Sockets : Closed(cid)
  BY <1>14 DEF Closed, Sockets
<1> QED
  BY <1>2, <1>3, <1>4, <1>5, <1>6, <1>7, <1>8, <1>9, <1>10, <1>11, <1>12,
     <1>13, <1>14
  DEF LinkNext, GsmThread, ModemStep, SocketProc, Environment

(* The terminal believes in a connection only while the modem has it,      *)
(* however closes, time-outs and power-off requests interleave with the    *)
(* gsm thread that waits for CONNECT (m66.c:1770).                         *)
THEOREM ConnectionIsReal == LinkSpec => []ConnectedIsOpen
<1>1. ConnectionInv => ConnectedIsOpen
  BY DEF ConnectionInv
<1> QED BY <1>1, ConnectionInit, ConnectionStep, PTL DEF LinkSpec

(* The power of the modem is cut only when gsm_socket[0] was given up, for *)
(* every sequence of requests (m66.c:1341).                                *)
THEOREM PowerIsCutCold == LinkSpec => []PowerCutDisconnected
<1>1. ConnectionInv => PowerCutDisconnected
  BY DEF ConnectionInv, OnlineInv, SomeConnected, PowerCutDisconnected
<1> QED BY <1>1, ConnectionInit, ConnectionStep, PTL DEF LinkSpec

-----------------------------------------------------------------------------
(* Why only a close loses a request.  The jt808 thread asks for a          *)
(* connection in TCPIP only.  The exchanges whose end writes gsm_state     *)
(* without looking at it are running in other states, and those that may   *)
(* run in TCPIP leave it or restore it.                                    *)

(* The states in which the jt808 thread sees something to ask for, and the *)
(* one in which the gsm thread sees what it asked for.                     *)
Asking == {"IDLE", "AT", "TCPIP", "SOCKET_PROC"}

ExchangeInv ==
  gpc \in {"poweron", "poweroff", "gprs", "write"} => gsm_state \notin Asking

RequestInv == ConnectionInv /\ ExchangeInv

LEMMA RequestInit == LinkInit => RequestInv
BY ConnectionInit DEF LinkInit, RequestInv, ExchangeInv

LEMMA RequestStep ==
  ASSUME RequestInv, [LinkNext]_linkvars
  PROVE  RequestInv'
<1>1. ConnectionInv /\ ConnectionInv'
  BY ConnectionStep DEF RequestInv
<1>2. AtSendInv /\ DialInv
  BY <1>1 DEF ConnectionInv
<1> SUFFICES ExchangeInv'
  BY <1>1 DEF RequestInv
<1> USE DEF RequestInv, ExchangeInv, Asking, AtSendInv, DialInv, AtBusy
<1>3. CASE UNCHANGED linkvars
  BY <1>3
<1>4. CASE Switch
  BY <1>4 DEF Switch, SwitchTarget
<1>5. CASE PowerOnEnd \/ PowerOffEnd \/ CsqEnd \/ ModemConnects
  BY <1>5 DEF PowerOnEnd, PowerOffEnd, CsqEnd, ModemConnects
<1>6. CASE \E ok \in BOOLEAN : GprsEnd(ok) \/ SocketEnd(ok)
  BY <1>6 DEF GprsEnd, SocketEnd
<1>7. CASE \E work \in AtWork : AtBegin(work) \/ AtEnd(work) \/ AtRefused(work)
  BY <1>7 DEF AtBegin, AtEnd, AtRefused, AtWork, Busy, WorkAfter, Behind
<1>8. CASE WriteBegin \/ TxPoll \/ TxFlash \/ TxFlashEnd
  BY <1>8, WorkAfterType DEF WriteBegin, TxPoll, TxFlash, TxFlashEnd, AtWork
<1>9. CASE \E ok \in BOOLEAN : WriteEnd(ok)
  BY <1>9, WorkAfterType DEF WriteEnd, AtWork
<1>10. CASE RequestPowerOn \/ RequestGprs \/ RequestConnect
  BY <1>10 DEF RequestPowerOn, RequestGprs, RequestConnect, Gsmstate
<1>11. CASE ConnectFailed \/ Connected \/ MasterPassed
  BY <1>11 DEF ConnectFailed, Connected, MasterPassed, AuxProc
<1>12. CASE SessionAnswer \/ SmsOpensAux \/ RequestPowerOff
  BY <1>12 DEF SessionAnswer, SmsOpensAux, RequestPowerOff, Gsmstate
<1>13. CASE \E cid \in Sockets : Closed(cid)
  BY <1>13 DEF Closed
<1> QED
  BY <1>3, <1>4, <1>5, <1>6, <1>7, <1>8, <1>9, <1>10, <1>11, <1>12, <1>13
  DEF LinkNext, GsmThread, ModemStep, SocketProc, Environment

LEMMA OnlyCloseLosesStep ==
  ASSUME RequestInv, [LinkNext]_linkvars, ~RequestLost, RequestLost'
  PROVE  \E cid \in mopen : mopen' = mopen \ {cid}
<1>1. ConnectionInv /\ AtSendInv /\ DialInv /\ LinkTypeOK
  BY DEF RequestInv, ConnectionInv
<1> SUFFICES ASSUME ~ \E cid \in Sockets : Closed(cid) PROVE FALSE
  BY DEF Closed
<1> USE DEF RequestInv, ExchangeInv, Asking, SocketRequested, RequestLost,
            AtSendInv, AtBusy
<1>2. CASE UNCHANGED linkvars
  BY <1>2
<1>3. CASE Switch
  BY <1>3, <1>1 DEF Switch, SwitchTarget, PcurrState
<1>4. CASE PowerOnEnd \/ PowerOffEnd \/ CsqEnd \/ ModemConnects
  BY <1>4 DEF PowerOnEnd, PowerOffEnd, CsqEnd, ModemConnects
<1>5. CASE \E ok \in BOOLEAN : GprsEnd(ok)
  BY <1>5 DEF GprsEnd
<1>6. CASE \E ok \in BOOLEAN : SocketEnd(ok)
  BY <1>6 DEF SocketEnd, ConnectError
<1>7. CASE \E work \in AtWork : AtBegin(work) \/ AtEnd(work) \/ AtRefused(work)
  BY <1>7, <1>1 DEF AtBegin, AtEnd, AtRefused, AtWork, Busy, WorkAfter, Behind
<1>8. CASE WriteBegin \/ TxPoll \/ TxFlash \/ TxFlashEnd
  BY <1>8, WorkAfterType DEF WriteBegin, TxPoll, TxFlash, TxFlashEnd, AtWork
<1>9. CASE \E ok \in BOOLEAN : WriteEnd(ok)
  BY <1>9, WorkAfterType DEF WriteEnd, Gsmstate, SocketParaInit, AtWork
<1>10. CASE RequestPowerOn \/ RequestGprs \/ RequestConnect
  BY <1>10, <1>1 DEF RequestPowerOn, RequestGprs, RequestConnect, Gsmstate,
                     SocketParaInit
<1>11. CASE ConnectFailed \/ Connected \/ MasterPassed
  BY <1>11, <1>1 DEF ConnectFailed, Connected, MasterPassed, AuxProc
<1>12. CASE SessionAnswer \/ SmsOpensAux \/ RequestPowerOff
  BY <1>12 DEF SessionAnswer, SmsOpensAux, RequestPowerOff, Gsmstate,
               SocketParaInit
<1> QED
  BY <1>2, <1>3, <1>4, <1>5, <1>6, <1>7, <1>8, <1>9, <1>10, <1>11, <1>12
  DEF LinkNext, GsmThread, ModemStep, SocketProc, Environment

(* A request for a socket is taken away by a close only: gsm_socket[0] is  *)
(* never left waiting for a connection that the gsm thread is not asked    *)
(* for by anything else (jt808.c:1516, jt808.c:1064, m66.c:1722).          *)
THEOREM OnlyACloseLosesARequest == LinkSpec => OnlyCloseLosesRequest
<1>1. RequestInv /\ [LinkNext]_linkvars
        => [~RequestLost /\ RequestLost'
            => \E cid \in mopen : mopen' = mopen \ {cid}]_linkvars
  BY OnlyCloseLosesStep
<1> QED
  BY <1>1, RequestInit, RequestStep, PTL DEF LinkSpec, OnlyCloseLosesRequest

=============================================================================
