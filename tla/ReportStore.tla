----------------------------- MODULE ReportStore -----------------------------
(***************************************************************************)
(* The position reports 0x0200 in the flash memory (jt808_gps.c).  Every   *)
(* report is written into a ring of flash slots with a header that says    *)
(* whether it is reported, and leaves the terminal from there:             *)
(*   - the gps thread (priority 11) stores a report, and sends it at once  *)
(*     when it is the only one not reported: jt808_report_put;             *)
(*   - the gsm thread (7) sends the next stored one when its transmit list *)
(*     is empty: jt808_report_get;                                         *)
(*   - the jt808 thread (10) marks the one the platform answered:          *)
(*     jt808_report_response, and searches the ring again when it          *)
(*     authenticates: jt808_report_init.                                   *)
(* The flash memory is guarded by sem_dataflash; the counter report_count  *)
(* and the addresses are not.                                              *)
(***************************************************************************)
EXTENDS Naturals, Sequences, FiniteSets

CONSTANTS
  SectorSlots, \* 64: slots of 64 bytes in a sector, which is erased as a whole
  Sectors,     \* ADDR_DF_POSTREPORT_SECT
  Sizes,       \* the slots a report takes: 1, or 2 with two area alarms
  IdMod,       \* 2^32: the number of ids
  BitAnd(_, _), \* the bits that two ids have in common
  CountMod,    \* 65536: the width of report_count
  TornSize,    \* the slots a report of length 0xFFFF is believed to take
  MaxRetry,    \* 3: times a report is sent
  MaxPuts,     \* bound: the reports of a behaviour
  MaxEvents,   \* bound: events of a behaviour
  Events       \* which of them occur: a subset of EventKinds

(* The loss of the connection, a lost message or answer, a refused report, *)
(* a restart while the flash memory is not being written ("reset") or at   *)
(* any moment ("restart"), the tracking mode of the platform, and a report *)
(* overwritten in the ring while its message waits for a connection.       *)
EventKinds ==
  {"offline", "loss", "refused", "reset", "restart", "tracking", "lapped"}

ASSUME StoreAssumption ==
  /\ SectorSlots \in Nat \ {0} /\ Sectors \in Nat \ {0}
  /\ Sizes \subseteq 1 .. SectorSlots /\ TornSize \in Nat \ {0}
  /\ IdMod \in Nat \ {0} /\ CountMod \in Nat \ {0}
  /\ \A a, b \in 0 .. IdMod - 1 : BitAnd(a, b) \in 0 .. IdMod - 1
  /\ \A a \in 0 .. IdMod - 1 : BitAnd(IdMod - 1, a) = a
  /\ MaxRetry \in Nat \ {0} /\ MaxPuts \in Nat /\ MaxEvents \in Nat
  /\ Events \subseteq EventKinds

VARIABLES
  flash,     \* the slots of the ring and the first one after its end
  curr,      \* report_curr: the slot, the id and the size of the last report
  get_addr,  \* report_get_addr
  count,     \* report_count
  link,      \* the session: "off", "auth" or "report" (GsmLink, Jt808Tx)
  tracking,  \* jt808_8202_track_duration is not 0
  queue,     \* the 0x0200 messages of list_jt808_tx, from first to last
  put,       \* where the gps thread is in jt808_report_put
  get,       \* where the gsm thread is in jt808_report_get
  reinit,    \* jt808_report_init is to be called
  stored,    \* history: the number of reports put so far
  received,  \* history: the reports the platform has
  events     \* events left

ring == <<flash, curr>>
counters == <<get_addr, count>>
threads == <<put, get, reinit>>
history == <<stored, received>>
vars == <<ring, counters, link, tracking, queue, threads, history, events>>

Slots == 0 .. SectorSlots * Sectors - 1
End == SectorSlots * Sectors
Ones == IdMod - 1

(* A slot: mn says that it begins with the magic number of a header, with  *)
(* id, attr (is bit 7 set: not reported) and size, and body which report's *)
(* payload it holds: 0 none, Mixed the traces of several.                  *)
Mixed == MaxPuts + 1
Slot == [mn : BOOLEAN, id : 0 .. Ones, unsent : BOOLEAN,
         size : Sizes \cup {TornSize}, body : 0 .. Mixed]
Blank == [mn |-> FALSE, id |-> Ones, unsent |-> TRUE, size |-> TornSize, body |-> 0]

Entry == [addr : Slots \cup {End}, body : 0 .. Mixed, tries : 0 .. MaxRetry,
          state : {"IDLE", "WAIT_ACK", "ACK_OK"}]

(* Address 0 of the code, "no record yet", is End here. *)
NoReport == [addr |-> End, id |-> 0, size |-> 0]

PutSteps == {"idle", "magic", "head", "body", "count", "send"}

TypeOK ==
  /\ flash \in [0 .. End -> Slot]
  /\ curr \in {NoReport} \cup [addr : Slots, id : 0 .. Ones, size : Sizes \cup {TornSize}]
  /\ get_addr \in Slots \cup {End}
  /\ count \in 0 .. CountMod - 1
  /\ link \in {"off", "auth", "report"}
  /\ tracking \in BOOLEAN
  /\ queue \in Seq(Entry)
  /\ put \in PutSteps /\ get \in {"idle", "wait"} /\ reinit \in BOOLEAN
  /\ stored \in 0 .. MaxPuts
  /\ received \subseteq 1 .. MaxPuts
  /\ events \in 0 .. MaxEvents

Init ==
  /\ flash = [a \in 0 .. End |-> Blank]
  /\ curr = NoReport
  /\ get_addr = End /\ count = 0
  /\ link = "off"
  /\ tracking \in {FALSE, "tracking" \in Events}
  /\ queue = <<>>
  /\ put = "idle" /\ get = "idle" /\ reinit = FALSE
  /\ stored = 0 /\ received = {}
  /\ events = MaxEvents

Happens(kind) ==
  /\ kind \in Events /\ events > 0
  /\ events' = events - 1

-----------------------------------------------------------------------------
(* The flash memory: writing turns 1 to 0 and never back. *)

MixedBody(old, new) == IF old \in {0, new} THEN new ELSE Mixed

(* Writing the magic number over a payload gives neither. *)
WithMagic(slot) == [slot EXCEPT !.mn = slot.body = 0 \/ slot.mn]
WithHead(slot, id, size) ==
  IF ~slot.mn THEN slot
  ELSE [slot EXCEPT !.id = BitAnd(slot.id, id),
                    !.size = IF slot.size = TornSize THEN size ELSE slot.size]
WithBody(slot, body) == [slot EXCEPT !.body = MixedBody(slot.body, body)]
AsReported(slot) == [slot EXCEPT !.unsent = FALSE]

SectorOf(a) == a \div SectorSlots
Erased(a) == [s \in 0 .. End |->
                IF s < End /\ SectorOf(s) = SectorOf(a) THEN Blank ELSE flash[s]]

(* sem_dataflash is held by the gps thread while it stores a report. *)
FlashFree == put \notin {"magic", "head", "body"}

(* The gps thread has the lowest priority: it runs when the others have    *)
(* nothing to do with the flash memory, or wait for it.                    *)
GpsRuns == FlashFree => ~reinit /\ get = "idle"

Unsent(a) == flash[a].mn /\ flash[a].unsent
UnsentSlots == {a \in Slots : Unsent(a)}
Online == link = "report"

-----------------------------------------------------------------------------
(* jt808_report_put, in the gps thread. *)

Wrapped(a) == IF a >= End THEN 0 ELSE a

(* A mutant of NextSlot: the ring is left at its end. *)
NextSlotUnwrapped == IF curr.addr = End THEN 0 ELSE curr.addr + curr.size

NextSlot == IF curr.addr = End THEN 0 ELSE Wrapped(curr.addr + curr.size)

(* A mutant of PutErase: the sector is not erased. *)
PutEraseNothing(a) == flash

PutErase(a) == IF a % SectorSlots = 0 THEN Erased(a) ELSE flash

Queued(a) == \E i \in DOMAIN queue : queue[i].addr = a

PutBegin ==
  /\ put = "idle" /\ GpsRuns /\ stored < MaxPuts
  /\ \E size \in Sizes :
       curr' = [addr |-> NextSlot, id |-> (curr.id + 1) % IdMod, size |-> size]
  /\ flash' = PutErase(NextSlot)
  /\ IF \E a \in Slots : Queued(a) /\ flash'[a] # flash[a]
     THEN ~Online /\ Happens("lapped") ELSE UNCHANGED events
  /\ stored' = stored + 1
  /\ put' = "magic"
  /\ UNCHANGED <<counters, link, tracking, queue, get, reinit, received>>

(* The header is written from its first byte to its last, then the         *)
(* payload, which may fill a second slot.                                  *)
PutMagic ==
  /\ put = "magic"
  /\ flash' = [flash EXCEPT ![curr.addr] = WithMagic(@)]
  /\ put' = "head"
  /\ UNCHANGED <<curr, counters, link, tracking, queue, get, reinit, history, events>>

PutHead ==
  /\ put = "head"
  /\ flash' = [flash EXCEPT ![curr.addr] = WithHead(@, curr.id, curr.size)]
  /\ put' = "body"
  /\ UNCHANGED <<curr, counters, link, tracking, queue, get, reinit, history, events>>

PutBody ==
  /\ put = "body"
  /\ flash' = [a \in 0 .. End |->
                 IF a \in curr.addr .. curr.addr + curr.size - 1
                 THEN WithBody(flash[a], stored) ELSE flash[a]]
  /\ put' = "count"
  /\ UNCHANGED <<curr, counters, link, tracking, queue, get, reinit, history, events>>

(* The semaphore is released: a thread that waited for it runs first. *)
PutCount ==
  /\ put = "count" /\ GpsRuns
  /\ count' = (count + 1) % CountMod
  /\ get_addr' = IF count' = 1 THEN curr.addr ELSE get_addr
  /\ put' = "send"
  /\ UNCHANGED <<ring, link, tracking, queue, get, reinit, history, events>>

Message(a, body) == [addr |-> a, body |-> body, tries |-> 0, state |-> "IDLE"]

PutSend ==
  /\ put = "send" /\ GpsRuns
  /\ queue' = IF (count = 1 \/ tracking) /\ Online
              THEN Append(queue, Message(curr.addr, stored)) ELSE queue
  /\ put' = "idle"
  /\ UNCHANGED <<ring, counters, link, tracking, get, reinit, history, events>>

Put == PutBegin \/ PutMagic \/ PutHead \/ PutBody \/ PutCount \/ PutSend

-----------------------------------------------------------------------------
(* jt808_report_get, in the gsm thread. *)

(* The slots the search looks at in turn, and the turns at which it meets  *)
(* a report to be sent; a search that never got an address looks elsewhere. *)
SearchStep(a) == Wrapped(a + (IF flash[a].mn THEN flash[a].size ELSE 1))
Visited ==
  LET at[k \in Slots] == IF k = 0 THEN get_addr ELSE SearchStep(at[k - 1]) IN at
Hits == {k \in Slots : get_addr # End /\ Visited[k] \in UnsentSlots}

(* A mutant of Candidates: the search ends at the end of the ring. *)
CandidatesAhead ==
  {Visited[k] : k \in {k \in Hits : Visited[k] >= get_addr /\ \A j \in Hits : k <= j}}

(* The report the search stops at, if there is one. *)
Candidates == {Visited[k] : k \in {k \in Hits : \A j \in Hits : k <= j}}

(* A report that does not fit a message ends the search without a result.  *)
Sendable(a) == flash[a].size # TornSize

Search ==
  \/ \E a \in Candidates :
       /\ Sendable(a)
       /\ queue' = Append(queue, Message(a, flash[a].body))
       /\ UNCHANGED count
  \/ /\ \A a \in Candidates : ~Sendable(a)
     /\ count' = 0 /\ UNCHANGED queue

(* A thread that has to wait for the flash memory decided before. *)
GetWait ==
  /\ get = "idle" /\ ~FlashFree
  /\ queue = <<>> /\ count > 0 /\ Online
  /\ get' = "wait"
  /\ UNCHANGED <<ring, counters, link, tracking, queue, put, reinit, history, events>>

GetEnd ==
  /\ FlashFree
  /\ get = "wait" \/ (queue = <<>> /\ count > 0 /\ Online)
  /\ Search
  /\ get' = "idle"
  /\ UNCHANGED <<ring, get_addr, link, tracking, put, reinit, history, events>>

Get == GetWait \/ GetEnd

-----------------------------------------------------------------------------
(* The transmission of the first message, in the gsm thread (Jt808Tx). *)

First == Head(queue)
Transmits == queue # <<>> /\ get = "idle"

Send ==
  /\ Transmits /\ First.state = "IDLE" /\ Online
  /\ queue' = [queue EXCEPT ![1].state = "WAIT_ACK", ![1].tries = @ + 1]
  /\ \/ received' = received \cup ({First.body} \ {0, Mixed}) /\ UNCHANGED events
     \/ UNCHANGED received /\ Happens("loss")
  /\ UNCHANGED <<ring, counters, link, tracking, threads, stored>>

(* jt808_report_timeout leaves the report in the ring as it is. *)
Timeout ==
  /\ Transmits /\ First.state = "WAIT_ACK"
  /\ IF Online /\ First.body \in received THEN Happens("loss") ELSE UNCHANGED events
  /\ queue' = IF First.tries >= MaxRetry THEN Tail(queue)
              ELSE [queue EXCEPT ![1].state = "IDLE"]
  /\ UNCHANGED <<ring, counters, link, tracking, threads, history>>

RemoveFirst ==
  /\ Transmits /\ First.state = "ACK_OK"
  /\ queue' = Tail(queue)
  /\ UNCHANGED <<ring, counters, link, tracking, threads, history, events>>

Answered ==
  /\ queue # <<>> /\ First.state # "ACK_OK" /\ First.tries > 0
  /\ Online /\ First.body \in received \cup {0, Mixed}

(* A mutant of Response: the report at report_get_addr is marked. *)
ResponseAtCursor(ok) ==
  /\ Answered /\ FlashFree /\ ~reinit
  /\ IF ok THEN UNCHANGED events ELSE Happens("refused")
  /\ IF ok /\ get_addr # End /\ Unsent(get_addr)
     THEN /\ flash' = [flash EXCEPT ![get_addr] = AsReported(@)]
          /\ get_addr' = First.addr
          /\ count' = IF count > 0 THEN count - 1 ELSE 0
     ELSE UNCHANGED <<flash, counters>>
  /\ queue' = [queue EXCEPT ![1].state = "ACK_OK"]
  /\ UNCHANGED <<curr, link, tracking, threads, history>>

(* jt808_report_response, in the jt808 thread: what the ring holds at the  *)
(* address of the message is marked.                                       *)
Response(ok) ==
  /\ Answered /\ FlashFree /\ ~reinit
  /\ IF ok THEN UNCHANGED events ELSE Happens("refused")
  /\ IF ok /\ Unsent(First.addr)
     THEN /\ flash' = [flash EXCEPT ![First.addr] = AsReported(@)]
          /\ get_addr' = First.addr
          /\ count' = IF count > 0 THEN count - 1 ELSE 0
     ELSE UNCHANGED <<flash, counters>>
  /\ queue' = [queue EXCEPT ![1].state = "ACK_OK"]
  /\ UNCHANGED <<curr, link, tracking, threads, history>>

-----------------------------------------------------------------------------
(* jt808_report_init. *)

Heads == {a \in Slots : flash[a].mn}

(* A mutant of Newest: the last header of the ring. *)
NewestInPlace == CHOOSE a \in Heads : \A b \in Heads : b <= a

(* A mutant of Oldest: the last of the greatest id. *)
OldestIsNewest ==
  CHOOSE a \in UnsentSlots : \A b \in UnsentSlots : flash[b].id <= flash[a].id

(* The last one of the greatest id, and the first one of the smallest that *)
(* is not reported.                                                        *)
Newest ==
  CHOOSE a \in Heads : \A b \in Heads :
    flash[b].id < flash[a].id \/ (flash[b].id = flash[a].id /\ b <= a)
Oldest ==
  CHOOSE a \in UnsentSlots : \A b \in UnsentSlots :
    flash[b].id > flash[a].id \/ (flash[b].id = flash[a].id /\ b >= a)

Report(a) == [addr |-> a, id |-> flash[a].id, size |-> flash[a].size]

(* With read_id = 0xFFFFFFFF at first, a report of that id is not taken. *)
ReportInit(previous) ==
  /\ curr' = IF Heads = {} THEN NoReport ELSE Report(Newest)
  /\ count' = Cardinality(UnsentSlots) % CountMod
  /\ get_addr' = IF UnsentSlots = {} THEN curr'.addr
                 ELSE IF flash[Oldest].id = Ones THEN previous ELSE Oldest

(* The jt808 thread authenticates: jt808_tx_auth, then jt808_report_init.  *)
Authenticate ==
  /\ link = "off"
  /\ link' = "auth" /\ reinit' = TRUE
  /\ UNCHANGED <<ring, counters, tracking, queue, put, get, history, events>>

Reinit ==
  /\ reinit /\ FlashFree
  /\ ReportInit(get_addr)
  /\ reinit' = FALSE
  /\ UNCHANGED <<flash, link, tracking, queue, put, get, history, events>>

Authenticated ==
  /\ link = "auth" /\ ~reinit
  /\ link' = "report"
  /\ UNCHANGED <<ring, counters, tracking, queue, threads, history, events>>

-----------------------------------------------------------------------------
Offline ==
  /\ link # "off" /\ Happens("offline")
  /\ link' = "off"
  /\ UNCHANGED <<ring, counters, tracking, queue, threads, history>>

TrackingEnds ==
  /\ tracking /\ tracking' = FALSE
  /\ UNCHANGED <<ring, counters, link, queue, threads, history, events>>

(* A reset of the processor or a loss of power: the flash memory stays,    *)
(* jt808_gps_init calls jt808_report_init before the threads start.        *)
Restart ==
  /\ (FlashFree /\ Happens("reset")) \/ Happens("restart")
  /\ put' = "idle" /\ get' = "idle" /\ reinit' = FALSE
  /\ queue' = <<>> /\ link' = "off" /\ tracking' = FALSE
  /\ ReportInit(End)
  /\ UNCHANGED <<flash, history>>

Session == Authenticate \/ Reinit \/ Authenticated
Transmission == Send \/ Timeout \/ RemoveFirst
Event == Offline \/ TrackingEnds \/ Restart

Next ==
  \/ Put \/ Get \/ Transmission \/ Session \/ Event
  \/ \E ok \in BOOLEAN : Response(ok)

Spec == Init /\ [][Next]_vars

(* All threads poll, the platform answers what it receives.  No fairness   *)
(* on PutBegin: the vehicle may stop reporting.                            *)
FairSpec ==
  /\ Spec
  /\ WF_vars(put # "idle" /\ Put) /\ WF_vars(Get) /\ WF_vars(Transmission)
  /\ WF_vars(Session) /\ WF_vars(\E ok \in BOOLEAN : Response(ok))

-----------------------------------------------------------------------------
(* Properties. *)

(* The slots of the report jt808_report_put is storing. *)
BeingStored ==
  IF put \in {"magic", "head", "body", "count"} THEN {curr.addr} ELSE {}

(* ATTR_REPORTED, "already reported" (jt808_gps.c:276): a complete report  *)
(* marked in the ring has reached the platform; no answer marks another    *)
(* one.                                                                    *)
ReportedIsReceived ==
  \A a \in Slots :
    flash[a].mn /\ ~flash[a].unsent => flash[a].body \in received \cup {0, Mixed}

(* On a connection report_count is not 0 while a report waits in the ring, *)
(* so that jt808_report_get does look for it (jt808_gps.c:302, 578): the   *)
(* counting of the three threads, without a lock, misses none.  A report   *)
(* answered before the gps thread has counted it may make it 0 too early,  *)
(* until the gps thread adds it.                                           *)
NoneForgotten ==
  Online /\ UnsentSlots \ BeingStored # {} => count > 0 \/ put = "count"

(* jt808_gps.c:445 "a valid record": a slot with the magic number holds a  *)
(* whole report.                                                           *)
ValidIsComplete ==
  \A a \in Slots \ BeingStored :
    flash[a].mn => /\ flash[a].body \in 1 .. MaxPuts
                   /\ \A k \in 0 .. flash[a].size - 1 :
                        a + k < End /\ flash[a + k].body = flash[a].body

(* jt808_gps.c:447 "find the most recent record, the current position of   *)
(* writing": report_curr is the last report put.                           *)
NewestIsCurrent ==
  put = "idle" /\ ~reinit =>
    \A a \in Heads : curr.addr # End /\ flash[a].body <= flash[curr.addr].body

(* jt808_gps.c:300 "the address of the unreported record of the smallest   *)
(* id": the stored reports are sent in the order in which they were put,   *)
(* until the ring is full and the report at that address is overwritten.   *)
OldestFirst ==
  [][GetEnd /\ queue' # queue /\ stored <= End =>
       \A a \in UnsentSlots : flash[a].body >= queue'[Len(queue')].body]_vars

(* Every report that stays in the ring reaches the platform and is marked  *)
(* once the connection stays: none is left behind by a loss, a refusal, a  *)
(* new connection or a restart.                                            *)
AllReported == <>[](UnsentSlots = {})

(* What the ring promises (ReportDelivery): a stored report waits in it    *)
(* until the platform has it and confirms it, or until the oldest ones are *)
(* overwritten.                                                            *)
Stored == {flash[a].body : a \in UnsentSlots} \ {0, Mixed}
Delivery == INSTANCE ReportDelivery WITH
  waiting <- Stored,
  seen <- IF FlashFree THEN 1 .. stored ELSE 1 .. stored - 1,
  delivered <- received

Delivers == Delivery!Spec

=============================================================================
