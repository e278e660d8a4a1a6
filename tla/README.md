# TW705: a TLA+ verification of the terminal's communication core

The repository holds the firmware of the TW705, a vehicle terminal for the
Chinese standard JT/T 808: an STM32F4 with an M66 or M50 GSM modem, a GPS
receiver, an SST25 flash memory and a small display, on RT-Thread.  The
program itself is `src/GPS_TW705_V01/bsp/stm32f40x_car/applications` and
`.../drivers`; the rest of the tree is the kernel, its components, device
libraries, and projects of the tool chains.  In this file `jt808.c`, `m66.c`,
`jt808_gps.c`, `msglist.c` are files of these two directories.

The modules here describe how the terminal gets and keeps its connection,
authenticates, sends messages and repeats them, stores position reports until
the platform has confirmed them, stores and transmits pictures, takes a new
program from the platform, and puts together what it receives.  TLC checks the
modules on small instances; TLAPS proves the invariants of the link, of the
transmit list, of the ring of reports, of the joining of packets, of the pictures
and of the update for every value of the constants.

## 1. Inventory

### 1.1 Threads

RT-Thread schedules by fixed priority, preemptively; a smaller number is more
urgent.  There is one processor and nothing locks the data below, except the
flash memory (`sem_dataflash`).

| thread | priority | what it does here |
|---|---|---|
| gsm_rx (`m66.c`) | 6 | reads the modem's lines: answers, `+PDP DEACT`, closed connections (`cb_socket_close`), data (`gprs_rx`) |
| app/init (`application.c`) | 6 | starts the others, supervises them; its update timer asks for a power-off |
| gsm (`m66.c`) | 7 | every 50 ms: the step `gsm_state` asks for, one pass of the transmit list, a telephone call, a short message, an announcement, an AT command |
| hmi (`hmi.c`) | 8 | menus; sends messages of the driver, may ask for a power-off |
| jt808 (`jt808.c`) | 10 | every 50 ms: one received mail, one step of the connection, timers |
| rs485 (`rs485.c`, `camera.c`) | 9 | takes pictures and stores them |
| gps (`gps.c`, `jt808_gps.c`) | 11 | evaluates positions, stores and sends reports |

The gsm thread blocks in each exchange with the modem, and only there and in
its delay do the less urgent threads get the processor.

### 1.2 Components

| component | state | operations | hard behaviour | what makes it correct |
|---|---|---|---|---|
| data link: `m66.c`, `jt808_socket_proc` | `gsm_state`, `gsm_socket[]`, `pcurr_socket`, `index` | power on/off, attach, connect, write, close | four threads write plain globals; a request may cross an exchange with the modem | a socket is connected only while the modem has it; the terminal always reconnects |
| session: `jt808.c` | `jt808_state`, the authentication code | register, authenticate, wait | answers of an old connection, timeouts | nothing is sent before the authentication |
| transmit list: `jt808.c`, `msglist.c` | `list_jt808_tx`, heap blocks | add in front / behind / at the end, send, repeat, remove | the gsm thread keeps a pointer across a blocking write; insertions are preempted | no block freed while linked, no command lost, no message too often |
| frames: `gprs_rx`, `jt808_rx_proc` | `gprs_rx_buf`, `mb_gprsrx` | join chunks, take frames apart | any split of the stream, two links, full buffers | every frame once and in its order |
| packets: `jt808_rx_proc` | `jt808_rx_buf`, `multi_pack_mark` | join the packets of a message | lost, repeated, broken off | the packets of two messages are not mixed; nothing blocks the next message |
| reports: `jt808_gps.c` | the flash ring, `report_curr`, `report_get_addr`, `report_count` | put, get, response, init | three threads and counters without a lock; loss of power; wrap-around | no report forgotten or marked for another; the order |
| packed positions: `jt808_gps_pack.c` | a second flash ring | pack, store, search | restart | not modelled yet |
| pictures: `camera.c`, `jt808_camera.c` | the flash ring, `DF_PicParam`, a block with `user_para` | store, announce, send packets, resend those asked for, mark | a summary that three threads change without a lock; pictures overwritten while they are sent; answers of three kinds in any order | marked only when the platform has all of it; each one found is sent in the end |
| remote update: `jt808_update.c` | header, packages and parameters in flash | packages of 0x8108 | loss of power between two writes; packages of another file; lost results | only a whole file is installed; a file that is sent long enough is installed |
| recorder GB/T 19056: `vdr.c` | sector rings | record, read | restart | not modelled yet |
| parameters, areas: `jt808_param.c`, `jt808_area.c` | tables in flash | set, query, geometry | two copies | not modelled yet |
| device control: `jt808.c:1968-2065` | countdowns | radio off, reset, update | two threads count | only its power-off |
| short messages: `jt808_sms.c` | - | commands as text | executed by the gsm thread | its effect on the link only |
| text, phone book, menus, vehicle signals | tables | one command each | - | not modelled |
| flash driver, GPS, card, printer, sensors, clock, USB, SD card | device I/O | - | - | not modelled |
| RT-Thread, STM32 libraries | - | - | third-party | assumptions only |

`PROJECT.json` lists each with its files, and the places where the code is
hard to test (`hazards`).

### 1.3 How they interact

- The jt808 thread *asks* by writing `gsm_state` (`POWERON`, `GPRS`,
  `SOCKET_PROC`); the gsm thread *serves* and writes the next state (`AT`,
  `TCPIP`, `IDLE`).  Anyone may write `POWEROFF`.
- `gsmstate()` with `POWEROFF`, `POWERON` or `IDLE` also resets the sockets and
  the session (`socket_para_init`); most assignments to `gsm_state` do not go
  through it.
- `cb_socket_close` runs in gsm_rx and resets a socket, and `pcurr_socket` for
  any socket.
- All threads insert into `list_jt808_tx`, in front, behind the first block or at the
  end; only the gsm thread removes, and only what was the first block when it began
  with it.  The jt808 thread marks blocks as answered through pointers it found in
  the list.
- Received data goes gsm_rx -> `mb_gprsrx` (8 mails) -> jt808.
- Reports go gps -> flash ring -> gsm (`jt808_report_get`) -> list, and their
  answers jt808 -> flash ring.
- Pictures go rs485 -> flash ring -> gsm (`Cam_jt808_get`) -> list; the jt808
  thread loads the next packet into the block and marks the picture.
- Packages of 0x8108 go jt808 -> flash memory -> boot loader.

## 2. Modules

| module | lines of code it models | what it is |
|---|---|---|
| `GsmLink` | `m66.c`, `jt808.c` | the link as four threads and the environment drive it |
| `Jt808Tx` | `jt808.c` | EXTENDS `GsmLink`: transmit list, session, mailbox, platform |
| `MsgList` | `msglist.c` | the list at the level of its pointers |
| `MessageQueue` | - | abstract: what the list is for its users |
| `ReportStore` | `jt808_gps.c` | the ring of reports, its three threads, the flash memory |
| `ReportDelivery` | - | abstract: store-and-forward delivery |
| `FrameRx` | `jt808.c` | from the stream to frames |
| `MultiPacketRx` | `jt808.c` | from packets to messages |
| `PictureStore` | `camera.c` | the ring of pictures in the flash memory and its summary |
| `PictureTx` | `jt808_camera.c`, `jt808.c` | EXTENDS `PictureStore`: announcements, packets, answers |
| `RemoteUpdate` | `jt808_update.c` | the handler of 0x8108 write by write, the platform, the boot loader |
| `*_proofs` | - | theorems and proofs (section 4) |
| `MC*` | - | instances: symmetry, and the sets the configurations name |

### 2.1 GsmLink

One action is what a thread does between two points where it blocks.  `gpc` is
the point of the gsm thread's loop; `"delay"`, `"poweron"`, `"gprs"`,
`"socket"`, `"connect"`, `"write"`, `"flash"`, `"sms_busy"`... are those where it waits
(`GsmBlocked`), and only there may the jt808 thread take a step.  gsm_rx and a
power-off request may come at any point.  An exchange with the modem (a dozen
AT commands) is one wait with an outcome; CONNECT is a step of its own
(`ModemConnects`) before the gsm thread sees it, since a close can come
between.

`SocketProc` is one pass of `jt808_socket_proc`, with the disjuncts of its
`switch`; the pass goes on to the third socket (`AuxProc`) unless the first one has
just changed `gsm_state`.  `MasterPassed` is the pass in which the first socket has
nothing to ask for, as its state is `PEER` or `NONE`, and only the third one is looked
at.  `TxPoll` stands for a pass of the transmit list without a write, `TxFlash` and
`TxFlashEnd` for one that waits for the flash memory (it looks for a report or a
picture); `Jt808Tx` replaces them by the passes there are.  `oldstate` is the local variable in which `sms_proc`,
`tts_proc` and `at_cmd_proc` keep `gsm_state`; the announcement restores it
unconditionally, the others only when it was not changed.

`SocketEnd` when `pcurr_socket` is `RT_NULL` stores through a null pointer
(`m66.c:1771`): undefined, here without effect on the sockets.

Left out: a missing SIM card, telephone calls, and the dialogue with each modem
(for M50 and M66 the same states are assumed).

### 2.2 Jt808Tx

A heap block is an element of `Node`; `list` is the order of the links, which is
what the code sees between two insertions (`MsgList` has the pointers).
The kinds of messages are told apart by where they go and how they end: `Place` is
the three insertions of `node_end` (answers, registrations and authentications in
front; the packets of a picture behind the first block; `EndKinds` at the end),
`AckKinds` are sent once and not answered, `PagedKinds` are blocks that their handlers
fill again with the next packet.
`jt808_add_tx` (`AddTx`) fails without memory and the caller does not notice.
`TxSend` starts the write of the first block and remembers it in `txnode`, as
the code does in its local `node`; `TxSent` and `TxWriteFailed` continue with it,
whatever the list has become.  So do the last timeouts that wait for the flash memory
(`TxTimeoutFlash`, `TxTimeoutEnd`): the one of an announcement may queue the packets
of its picture first (`FreeAnnouncement`), the one of several packets reads the next.
`Unlinked` is the assignment `list_jt808_tx->first = node->next`.  The search for a
report or a picture to send, which an empty list starts, is two steps as well
(`TxReport`, `TxReportEnd`): what it finds is queued whatever came meanwhile.  An
answer is handled in two steps (`RxFind`, then `RxApply` or `RxNextPacket`) where its
handler waits for the flash memory with the pointer in hand, and in one for an
authentication.

The packets of a picture are one kind with one behaviour here; which of them is sent
next is in `PictureTx`, where an announcement may also be refused.  A block that is
freed while the handler of a picture runs on it is not used again before the handler
ends.  That a picture or the pages of `0x0104` and `0x0700` have numbers of their own
is kept; that `0x0104` also takes one of `tx_seq` is left out.

`SocketProc` of the link and the queueing of a registration or authentication
are one step (`SocketStep`).  The threads' order in a pass is in `jpc`.

The platform answers each message it got once, in any order and at any time; it
may never do so.  It sends commands only after it accepted an authentication.

`authed`, `times` and `acked` are history: they record what the platform and
the threads have done and are read by the properties only.

### 2.3 MsgList and MessageQueue

`msglist_prepend`, `msglist_prepend_next` and `msglist_append` in the steps
between which a more urgent thread may run: the test of `first` (`Check`) and the
second read of it (`TakeFirst`), the test of the loop (`Walk`) and the second read of
the neighbour (`Advance`), the linking, the publication.  A thread that has read
`RT_NULL` the second time goes no further: what it would do is undefined.  The gsm
thread's removal and appending are one step each, as it is the most urgent of the
threads on the list; but between finding the list empty and appending a report it
waits for the flash memory (`ReadReport`, `AddReport`), and the list may get other
messages then.  `Preempt` says whether a thread may be interrupted within an
insertion.

### 2.4 ReportStore and ReportDelivery

A slot has 64 bytes in the code; a report takes one, or two with two area
alarms (40 bytes plus 7 for each and a header).  A sector is erased when a
report begins at its first slot (`PutErase`).  The three pieces of a write are
three steps (`PutMagic`, `PutHead`, `PutBody`), as the power may fail between
them; other threads wait for `sem_dataflash` meanwhile (`FlashFree`), and the
counter and the address of the search are changed after its release
(`PutCount`).  Writing flash memory clears bits and never sets them: the
operator constant `BitAnd` for an id written over another, `Mixed` for a payload
over another.  The search is the function `SearchStep` over the ring; what it
passes are `Visited`, what it finds `Hits`.
`jt808_report_get` decides before it takes the semaphore (`GetWait`) and
searches after it.

The transmit list holds at most the reports here, and the session is `link`;
`Jt808Tx` has both in full.  The refinement to `ReportDelivery` maps the ring to
the set of reports waiting.

This build defines no `GPS_GGHYPT`: the batch message 0x0704 is never sent and
each 0x0200 has one report.  Left out: the decision when a report is due, the
factory reset of the ring, the early return of `jt808_report_put` when the
memory of the message is missing (`jt808_gps.c:485-489`), `report_trans_normal`,
which has no effect.

### 2.5 FrameRx and MultiPacketRx

`FrameRx` splits the streams of the links into chunks of every size and at every
place.  `Kept` is the test of `gprs_rx` on the first byte and the length of a
chunk; `Scan` is the loop of `jt808_rx_proc` over a mail.  The byte stuffing and
the content are left out, the checksum is right for whole frames only (a
checksum of 0x7E or 0x7D, which the loop at `jt808.c:1190` takes for the byte
itself, is not distinguished).

`MultiPacketRx` is the joining of packets, with the assignment in the condition
of `jt808.c:1244` as it stands (`TakenFor`).  The answer 0x0001 to each packet is
left out.

### 2.6 PictureStore and PictureTx

A sector of the ring has a header when a picture begins there; the sectors of a
picture are `size`, and the rest of a picture is not told apart from garbage,
as the code does not.  `Steps(a)` is the sequence of addresses that
`Cam_Flash_InitPara`, `FindPicID` and `SearchPicHead` read from `a` on: behind a
picture when there is a header, else the next sector.  `SavePic` is the steps
`SaveBegin` (the summary, before the semaphore), an erasure and a write for each
sector, the clearing of the summary and the scan.

`PictureTx` has the transmit list with announcements (0x0800) and data (0x0801)
only.  A block of data is filled again with the next marked packet
(`NextPacket`); `para` tells whether the parameters of its picture are still
held.  The gsm thread's writes are two steps (`SendBegin`, `SendEnd`), between
which the jt808 thread may handle an answer (the event `overlap`) that changes
the block under the write.  An answer is handled in two steps (`RxFind`,
`RxApply`), since its handler waits for the flash memory with the pointer in
hand.  The platform acknowledges each message it gets, confirms a picture when it
has its last packet, or asks for what is missing.  The link is the variable
`online`; `GsmLink` and `Jt808Tx` have it in full.

A block that is freed while a handler runs on it is not reused before the
handler ends.  Left out: the dialogue with the camera, deletion, the lists of
0x0802 and 0x0805.

### 2.7 RemoteUpdate

A file is a model value and its packages are the file each was sent from, so
that `Whole` is the checksum: all packages belong to the file of the header.
Each write to the flash memory is a step (`EraseHead`, `WriteHead`, `ClearPages`,
`WritePara`, `MarkPackage`, `Complete`), and the power may fail before each.  The
first package decides (`Refuse`, `AlreadyUpdated`, `Continue`, `StartAgain`), the
others are stored by their number (`Store`) or refused (`Cancel`).  `Boot` is
the boot loader, which is not part of the repository: the handler relies on it to
install the file when the flag is set, and to clear the flag.

Left out: attached devices (`updata_ack_ok` for them), the packages' length, the
limit of 256 KB, running out of memory, and the rewrite of the parameters when a
known file continues under another sequence number (`jt808_update.c:744-748`): a loss
of power in it makes the file start again, as `StartAgain` does.

### 2.8 Bounds and abstractions

- `IndexLimit`, `ServerHalf`, `IndexMod`: 20, 5 and 256 in the code; 3, 1 and 4 in
  the runs keep their order, so that the limit, both servers and the
  wrap-around occur.
- `tx_list`: commands only, the blocks are three, a message is sent twice at most, the
  mailbox takes one mail, a failed connection power cycles the modem (`IndexLimit =
  1`).  Two blocks are used at a time, and the third one beside a picture as long as
  nothing was disturbed, the platform owes two answers at most, one after the
  disturbance (`Explored`).  So the list can become [answer, picture, block being
  written], and the picture goes out of the list with the block.  A terminal that is
  not registered is disturbed only once it is.
- `MaxFaults`, `MaxEvents`, `MaxPuts`, `MaxSn`, `Frames`, `Messages`, `MaxCuts`
  bound a behaviour.  A disturbance is a fault of the surroundings; four in a
  row reach the power cycle of the modem and the recovery from it.
- The ring has two sectors of two slots and takes six reports: it wraps around
  and a sector is erased while reports of it still wait.
- `IdMod` is 2^32 in the code and 16 in the runs of `ReportStore`: "all ones" is a
  value that 6 reports do not reach by counting.
- `pictures`: three sectors and two pictures of one or two sectors each, so that the
  second one wraps around and overwrites the first; two blocks, so that the memory
  runs out; one event of any kind.  A packet for each sector gives pictures of one
  and of two packets, the last of which is special in the code.
- `update`: files of three packages (a first, a last and one between), four files in
  turn: for another product, new, another of the same length, that one again with
  another version text.
- Timeouts are nondeterministic: a timeout may come at any time after a
  message was sent.  Ticks and their wrap-around are not modelled.
- `tx_seq` is incremented with the block's creation in one step.

## 3. What TLC checks

| run | properties | result and size |
|---|---|---|
| `link_recovers` | `LinkTypeOK`, `ConnectedIsOpen`, `PowerCutDisconnected`, `OnlyCloseLosesRequest`, `Reconnects` | pass, 277 thousand states: any four disturbances, all background work |
| `link_stuck` | `SocketProcReturns` | violated (section 5) |
| `tx_list` | `TypeOK`, `ListIsLive`, `CommandsStayQueued`, `RetryBound`, `DataAfterAuth`, `AckedNotSentAgain` | pass, 926 thousand states: three blocks, two tries, one disturbance that ends a connection |
| `report_ring` | `TypeOK`, `NoneForgotten`, `ValidIsComplete`, `NewestIsCurrent`, `ReportedIsReceived`, `AllReported`, `Delivers`, `OldestFirst` | pass, 100 thousand states: lost connections, losses, refusals, resets between two writes |
| `report_marks` | `ReportedIsReceived` | pass, 277 thousand states: a loss of power at any step, the tracking mode |
| `frame_links` | `TypeOK`, `HandledInOrder`, `NothingMissed`, `FreshFrameIsHandled` | pass, 806 thousand states: two links, three frames each, one cut next to a flag |
| `packet_recovers` | `TypeOK`, `HandedIsUnmixed`, `IntactIsHanded` | pass, 136 thousand states: three messages of one to four packets, three events |
| `packet_mark` | `MarkIsReceived` | violated |
| `list_queue` | `TypeOK`, `NoNodeLost`, `IsQueue` | pass, 12 thousand states: four nodes, the threads hmi and jt808, whole insertions |
| `list_preempted` | `NoNodeLost` | violated |
| `pictures` | `TypeOK`, `MarkedIsReceived`, `WaitingIsCounted`, `AllReachableSent` | pass, 243 thousand states: one loss, late answer, overlap, refusal, request, restart or lost connection |
| `update` | `TypeOK`, `InstalledIsWhole`, `UpToDateIsWhole`, `UpToDateIsInstalled`, `UpdateCompletes` | pass, 14 thousand states: losses of packages, results and power |

Each property of a passing run has a mutant, an operator in the module that
changes a definition the way a plausible bug would; with it TLC finds the
property violated.

What the properties say:

- `ConnectedIsOpen`: no interleaving of CONNECT, its time-out and a close makes
  the terminal believe in a connection the modem has not.  It holds because the
  gsm thread writes the outcome through `pcurr_socket`, which a close clears.
- `OnlyCloseLosesRequest`: a socket that waits for its connection has a request on its
  way, and a request names its socket; otherwise (`RequestLost`) nothing would ever
  connect it.  Power-off requests, announcements, failures and the two sockets'
  requests do not lose one however they interleave; only a close does (section 5).
- `Reconnects`: liveness of the whole link under every disturbance,
  `<>[](Online \/ RequestLost)`: but for a lost request the terminal is connected in
  the end.
- `ListIsLive`, `CommandsStayQueued`: the removal through a stale pointer frees no
  linked block and loses none of the messages put at the end (`EndKinds`), because
  what the threads put in front of the block under write, or behind the first
  block, is never one of these.  Answers and pictures in front go out of the list with
  the block (section 5).
- `RetryBound`: a single message is not written more often than its limit, whatever
  answers, timeouts and reconnections come.
- `NoneForgotten`, `AllReported`, `OldestFirst`: the counter and the search address,
  set by three threads, never stop the search while a report waits, nor
  reorder.  `Delivers` is the refinement.
- `AckedNotSentAgain`: no timeout, reconnection or later answer sends a message again
  whose answer was handled while it was not being written.
- `MarkedIsReceived`: the confirmation of one picture may be handed to the block of
  another, and the picture may be overwritten meanwhile; still no picture is marked
  that the platform does not have.
- `WaitingIsCounted`, `AllReachableSent`: the counter that starts the search never
  hides a picture, and all restarts, losses and refusals end with the picture
  confirmed or overwritten.
- `InstalledIsWhole`: the boot loader never installs a mixture, wherever the power
  fails.  `UpToDateIsWhole`, `UpToDateIsInstalled` and `UpdateCompletes`: the terminal
  does not refuse a file it does not have or does not run, and takes it in the end.
- `IntactIsHanded`, `FreshFrameIsHandled`: recovery; what was broken before does not
  spoil what comes whole.

### Fairness

`LinkFairSpec` has weak fairness of the gsm thread: each of its waits for the modem
ends by an answer or a timeout, and its loop has a delay of 50 ms.  The jt808
thread has strong fairness: it runs only while the gsm thread is blocked, which
is again and again but not continuously.  Nothing is assumed of the network and
the platform but that the disturbances end.  `FairSpec` of `ReportStore` has weak
fairness of each thread and of the platform's answers, and none of the gps
thread's decision to store a report.

`FairSpec` of `PictureTx`: weak fairness of the gsm and rs485 threads, of the handler
that runs, of the platform's confirmations and of the reconnection.  Strong
fairness of `Remove` (the jt808 thread does not for ever handle two answers
between two passes of the gsm thread) and of each of the two kinds of answers
(the jt808 thread handles its mails in their order, and gets the processor while
the gsm thread writes or waits).  Nobody is obliged to take a picture.
`FairSpec` of `RemoteUpdate`: the handler goes on, and the platform sends the file
again until it knows that it was installed, one package after the other.

Deadlock is checked in the link's and the transmit list's runs.  The other runs
stop when their bound is reached (`CHECK_DEADLOCK FALSE`), or when all pictures are
sent and the update is done.

### Assumptions of the passing runs

- `tx_list`: no announcement is refused, and there are no blocks of pages
  (`Queued = {"cmd"}`); the theorems have them.  A block that is freed under a running
  picture handler is not used again before the handler ends.
- `tx_list`: an answer to a registration or authentication comes while the terminal
  believes in the connection and is handled before the connection ends
  (`MailMayGoStale`, `PlatformAnswers`).  Without it `DataAfterAuth` does not hold
  (section 5).
- `report_ring`: resets happen between two writes; reports have one slot; no tracking
  mode.
- Both report runs: no report is overwritten in the ring while its message waits in
  the transmit list (the event `lapped`).
- `report_marks`: one event.  With two losses of power in the middle of a write a
  slot is written twice, and a report of blank bytes under way is confirmed for
  the second one.
- `list_queue`: an insertion is not interrupted.  This is also what the last part of
  its `TypeOK` (no thread goes on from `RT_NULL`) is about.
- `pictures`: the processor does not restart in the middle of storing a picture (the
  event `cut`).
- `update`: the power does not fail between the writes of header, erasure and
  parameters, nor between the last mark and the flag (the event `torn`); `InstalledIsWhole` holds with it too.
  The platform does not return to a file after it has offered another one
  (`NeverReturns`; section 5 says what happens otherwise).
- `HandledInOrder` and `NothingMissed` say nothing once a chunk ended within two bytes
  behind the first flag of a frame or just before its last one.

## 4. What is proved

A theorem holds for every value of the constants that the `ASSUME`s of its module
allow: the limits are positive, `IndexMod` is larger than `IndexLimit`, the sets of
blocks are finite and do not have `Nil`, sizes fit their buffers.  The `ASSUME`
of `ReportStore` asks of `BitAnd` only that it stays in range and that writing over a
value of all ones gives the value written.

| module | theorem | states |
|---|---|---|
| `GsmLink_proofs` | `LinkTypeInvariant` | `LinkSpec => []LinkTypeOK` |
| | `ConnectionIsReal` | `LinkSpec => []ConnectedIsOpen` |
| | `PowerIsCutCold` | `LinkSpec => []PowerCutDisconnected` |
| | `OnlyACloseLosesARequest` | `LinkSpec => OnlyCloseLosesRequest`, an action property |
| `Jt808Tx_proofs` | `SessionRefinesLink` | `Spec => LinkSpec`: the composed system implements the link |
| | `SessionConnectionIsReal` | `Spec => []ConnectedIsOpen` |
| | `TypeInvariant` | `Spec => []TypeOK` |
| | `ListStaysLive` | `Spec => []ListIsLive` |
| | `CommandsAreKept` | `Spec => []CommandsStayQueued` |
| | `SendsAreBounded` | `Spec => []RetryBound` |
| | `AnsweredIsNotSentAgain` | `Spec => AckedNotSentAgain`, an action property |
| | `DataIsAuthenticated` | without `"stale"`, `Spec => DataAfterAuth`, an action property |
| `MsgList_proofs` | `ListTypeInvariant` | without preemption, `Spec => []TypeOK` |
| | `NodesAreKept` | without preemption, `Spec => []NoNodeLost` |
| | `ListIsQueue` | without preemption, `Spec => IsQueue`: the pointers implement `MessageQueue` |
| `ReportStore_proofs` | `StoreTypeInvariant` | `Spec => []TypeOK` |
| | `OnlyReceivedIsMarked` | `Regular`, `Spec => []ReportedIsReceived` |
| | `HeadersAreOfReports` | `Regular`, `Spec => []ValidIsComplete` |
| | `CurrentIsNewest` | `Regular`, `Spec => []NewestIsCurrent` |
| | `RingDelivers` | `Regular`, `Spec => Delivers`: the ring implements `ReportDelivery` |
| | `ReportsAreNotForgotten` | `Regular`, `Countable`, `Spec => []NoneForgotten` |
| | `OldestIsSentFirst` | `Regular`, `Countable`, no tracking mode, `Spec => OldestFirst`, an action property |
| `FrameRx_proofs` | `FrameTypeInvariant` | `Spec => []TypeOK` |
| | `FramesInOrder` | `Spec => []HandledInOrder` |
| | `FramesAreNotMissed` | `Spec => []NothingMissed` |
| | `FreshFrameIsFound` | `Spec => FreshFrameIsHandled`, an action property |
| `MultiPacketRx_proofs` | `PacketTypeInvariant` | `Spec => []TypeOK` |
| | `HandlersGetUnmixedMessages` | `Spec => []HandedIsUnmixed` |
| | `IntactMessagesAreHanded` | `Spec => IntactIsHanded`, an action property |
| `PictureTx_proofs` | `PictureTypeInvariant` | `Spec => []TypeOK` |
| | `OnlySentIsMarked` | `Spec => []MarkedIsReceived` |
| | `WaitingStaysCounted` | `Spec => []WaitingIsCounted` |
| `RemoteUpdate_proofs` | `UpdateTypeInvariant` | `Spec => []TypeOK` |
| | `OnlyWholeFilesAreInstalled` | `Spec => []InstalledIsWhole` |
| | `UpToDateIsTrue` | without `"torn"`, `NeverReturns`, `Spec => UpToDateIsWhole` |
| | `UpToDateIsRunning` | the same, `Spec => UpToDateIsInstalled` |

**The link.**  `ConnectedIsOpen` is not inductive: the step that could break it is
`SocketEnd(TRUE)`, which writes CONNECTED through `pcurr_socket`.  `ConnectionInv` adds
that while the gsm thread waits for CONNECT `pcurr_socket` is the socket it dialled or
none, and the modem has that socket (`DialInv`): a close clears `pcurr_socket` (this
is what its mutant leaves out), and the jt808 thread cannot set it in `SOCKET_PROC`.
For that `AtSendInv` and `OnlineInv` say in which modem states the gsm thread can be
at each of its points, so that an announcement that restores its old `gsm_state`
restores a harmless one; and `PowerIsCutCold` follows because every way into the
power-off resets the socket.  `OnlyACloseLosesARequest` needs `ExchangeInv` besides: in the
exchanges whose end writes another state, `gsm_state` is none of those in which the
other threads ask for something, so that nobody asks behind the gsm thread's back.
With `RequestInv` only `Closed` can then take the socket or `pcurr_socket` from a request.

**The list.**  `TxInv` adds three things to the link's types.  `ListInv`: the list
links the live blocks, once each (`Links`), and while the gsm thread waits with a
block, that block is in the list and nothing of `EndKinds` precedes it (`Leads`).  The
other threads preserve it since they insert in front of it, behind the first block or
at the end and never free; what they insert in front of it is none of `EndKinds`,
pictures included.  So `Unlinked` drops only answers, registrations, authentications and
pictures besides the block itself.  `MailInv` is about the types of what waits in the
mailbox.  Each step changes a block in one of a few ways (`BlockStep`: `Renewed`,
`AnswerOf`, `SentOnce`, `TriedAgain`, `NextPacket`), and these preserve `BlockInv`: the
counter is below the limit, and `times <= retry + 1`, `times <= retry` when the block is
idle or being written (`Tried`, for `SendsAreBounded`); a single message whose answer was
handled while it was not being written is `ACK_OK` (`Marked`, for
`AnsweredIsNotSentAgain`), and no step but the freeing takes it out of that state,
while a write begins only in `IDLE`.  `AuthInv` is about the session: an answer to it
that waits in the mailbox or is being handled is of the present connection
(`MailIsOfConnection`), one that accepts the terminal means that the platform did
(`AcceptanceIsOfConnection`), and `REPORT` means a connection and an acceptance
(`ReportIsAccepted`); a socket being dialled is not `CONNECTED` yet
(`DialsUnconnected`).  It is where `"stale"` has to be excluded.  `SessionRefinesLink` has
a step for each action: each is a step of the link or leaves the link's variables alone.

**The pointers of the list.**  `ListInv` says that there is a sequence of nodes without
repetition that `first` and `next` follow to the end (`Follows`), that it has all the
allocated nodes but those a thread is inserting, and where each insertion under way
stands relative to it (`Inserting`).  That the sequence has no repetition needs that
there are only finitely many nodes: a chain no longer than the number of nodes is
the whole chain (`ChainFound`).  An insertion that is not interrupted changes one
pointer at a time and the sequence in one of them, which is the step of the queue;
`list_preempted` shows that `~Preempt` is needed.  That no thread goes on from `RT_NULL`
(`NoNullFollowed`, a part of `TypeOK`) follows from it too: without an interruption the
second read finds what the test has found.

**The reports.**  `StoreTypeInvariant` holds under every event; it needs that a message
waiting to be sent has tries left, and that the report being stored is a record.
The others assume `Regular`: reports of one slot, no report overwritten under its
message, no loss of power in the middle of a write, fewer reports than 2^32.  Without
these the properties do not hold (section 5).  `StoreInv` says what the ring contains:
the slot at `report_curr` holds the report stored last (`NewestInv`), a slot at the
distance d behind it is blank or holds the report stored d before (`RingInv` with
`Place`), what lies before it in its sector is erased (`BehindInv`), a message's slot
holds the message's report (`QueueInv`), and a marked report is received
(`MarkedInv`).  The search for the most recent report after a restart is then the
search for the greatest id.  `RingDelivers` maps each write to the flash memory to a
step of `ReportDelivery` or to none.

`CountInv` relates `report_count` to the ring: with the one report that was answered
before the gps thread has counted it (`Early`), the counter is not less than the
number of reports that wait (`Counted`).  It can be more: reports are overwritten
without being counted down, and a new count takes in the report that is being stored,
which is then counted again.  So it is only bounded by the number of reports put, and
`Countable` asks that this does not reach the width of the counter; with
`CountMod = 4` and three reports TLC shows the wrap-around to 0 with reports waiting.
In the code it takes some 59000 reports without an answer on one connection.  That
the search gives up only when nothing waits is `SearchFinds`: its k-th step looks at
the k-th slot after `report_get_addr` around the ring (`SearchIs`, an induction), so
that it has looked at all of them in the end.  `Countable` also asks that a torn size
is no report's, for such a slot ends the search.

`OrderInv` is about the first round of the ring, to which `OldestFirst` is limited:
report n lies in slot n - 1, the reports marked lie before those waiting, and neither
the search address nor the address of a message in the list is behind a waiting
report.  An answer then marks the oldest one.  That a report which is sent at once,
or to which the search address is set, is the only one waiting follows from `CountInv`
(`OnlyCurrent`): this is where the order depends on the counting.

**The packets.**  `OrderInv`: the first packet of a message is only at the first
position of the buffer, and everything behind is of that message or of a later
one; a handler that gets a first packet then gets its message alone.  `IntactInv`: while
the packets of a message come in order and once each, the buffer is what the packets
so far make of it (`After`), whatever it was before the first one; the last one then
hands it over.

**The frames.**  The scan of a chunk is a function defined by recursion over its bytes.
For a stretch of the stream without a cut `FramesOfStretch` gives its result in closed
form, by induction over the bytes: the frames whose two flags the stretch has, and
what remains behind the last of them.  `BufferInv` says that the buffer is such a
stretch, which ends where the link's stream was delivered to, so that each chunk makes
a longer stretch.  `Ordered` says of the frames handled and of those in the mailbox that
for each link they come in the order of the stream and end before what the buffer
holds; `FramesInOrder` is a part of it.  `ReachedInv`: as long as nothing was lost to
a full buffer, a full mailbox or another link, the buffer begins at the border of a
frame, and every frame before it was handled or is in the mailbox.  After a cut these
say nothing, as the properties do.

**The pictures.**  `ListInv`: the list links live blocks, once each, each block has a
picture that exists, and a block of data one of its packets (`GoodBlock`); `WireInv`
the same for the message being written; `AnswerInv` with `Confirms`: a confirmation
on its way, or in the hands of a handler, is of a picture that the platform has
completely.  A header is marked only where the picture of the confirmation and of
the block are the same one, and what the platform has never becomes less; that the
block may be another one by then does no harm.

`CountedInv` is behind `WaitingStaysCounted`: between two pictures the oldest picture's
address is one at which a header is found, and if the search would find a waiting
picture then `NotSendCounter` is not less than the number of those that wait.  Most of
the proof is about storing: which headers the new picture overwrites, which of them
were waiting, and that the address of the oldest picture moves past exactly these.

**The update.**  `FlagInv`: the flag that makes the boot loader install is set only
while the handler waits for the restart, and then the file is whole.  `DateInv`: every
package marked as received is stored and of the file in the header, once header and
parameters agree (`MarkedAreStored`); if that is the file being sent and no package of
it is missing, it runs or is about to be installed (`CompleteIsInstalled`).  The packages are
stored by their number alone, so this needs that the file in the header is still the
one being sent or is never sent again: `NeverReturns`, which the plan of the run
`update` satisfies, and no loss of power in the gaps (`"torn"`).

Only model-checked is liveness (`Reconnects`, `AllReported`, `AllReachableSent`,
`UpdateCompletes`), which is out of the prover's reach; every invariant and every other
property of a passing run is stated by a theorem above.  Of these, what is
checked on the runs without the hypotheses of its theorem: `ReportedIsReceived` with
losses of power at any step and the tracking mode, in `report_marks`.  Not proved
in general is what the models exclude by constants (section 5).

## 5. Where code and comments disagree

Shown by runs:

- `link_stuck`: `cb_socket_close` clears `pcurr_socket` for any socket
  (`jt808.c:1064`); a pending request then returns at once (`m66.c:1722`) and
  `gsm_state` stays `GSM_SOCKET_PROC`, in which no thread does anything.
- `packet_mark`: `cur_package_num = last_package_num+1` assigns (`jt808.c:1244`).
- `list_preempted`: an insertion the gsm thread interrupts links its node to a freed
  one, or overwrites a node (`msglist.c:53-126`); or it goes on from `RT_NULL`, when
  the removal comes between the test and the second read of a pointer
  (`msglist.c:84` and `90`, `91` and `93`, `119` and `121`).

Seen in the models with other constants; the passing runs exclude them:

- An answer handled during the second write of its message is overwritten by
  `WAIT_ACK` when the write ends (`jt808.c:1361`), and the message is sent again.
- A block put in front of the one being written is unlinked with it and never
  freed (`jt808.c:1394`), an answer as well as the packets of a picture that were put
  behind that answer; visible in `tx_list` as a live block outside `list`.
- When the second connection is closed while the first one is being dialled, the
  outcome of the dial is lost (`jt808.c:1064`, `m66.c:1771`) and the first socket
  stays in `CONNECT_PEER` for ever: `jt808_socket_proc` then passes it over and
  requests only the second one again (`jt808.c:1577-1596`, `1656-1667`).  This is the
  second part of `RequestLost` in `link_recovers`.
- An authentication answer of an old connection opens the new session
  (`jt808.c:161`; `Disturbances` with `"stale"` violates `DataAfterAuth`, against
  the comment at `jt808.c:1037`).
- A power-off request during an exchange with the modem is overwritten by the
  exchange's end (`m66.c:1336`, `1521`, `1776`, `2103`, `2161`); the radio-off
  command of `jt808.c:2055` asks once.
- A report overwritten while its message waits is marked by the answer to the old
  one: id and content are not compared (`jt808_gps.c:365`; `Events` with
  `"lapped"` violates `ReportedIsReceived`).
- In the tracking mode the answer to a newer report moves the search past older
  ones (`jt808_gps.c:369`; `"tracking"` violates `OldestFirst`).
- A report of two slots may begin in the last slot of a sector, where its second
  slot is not erased (`jt808_gps.c:506`; `Sizes = {1, 2}` violates
  `ValidIsComplete`).
- After a loss of power between header and payload a header without a report counts
  as one (`jt808_gps.c:528`, `"restart"` violates `ValidIsComplete`), and a header
  of id 0xFFFFFFFF stays the most recent (`447`, `NewestIsCurrent`); a search that
  meets a torn length stops and sets `report_count` to 0 (`NoneForgotten`).
- A stream cut next to a flag repeats or loses a frame (`jt808.c:1851`), or hands it
  to a handler chosen by an uninitialized pointer (`1193`).
- When the first packet of a message is lost the others may be joined to the
  remainder of an earlier message of the same id and number of packets; a packet
  that does not fit the buffer is answered with success (`jt808.c:1284`).

- A loss of power while a picture is stored that wraps around the end of the ring
  (the event `cut`) leaves half of it; the next picture is stored inside, and no
  search finds it (`camera.c:133-195`, `218-257`; violates `AllReachableSent`).
- After a loss of power between the last mark of a package and the flag, or a wrong
  checksum with all packages marked, the terminal takes the file for installed
  (`jt808_update.c:282`; the event `torn` violates `UpToDateIsWhole`); between the
  erasure of the header and its write, every later file is refused.
- The same without any fault of the terminal, when the platform begins a file, changes
  to another one whose first package is lost, and returns to the first file: the
  packages of the other file are stored and marked under its header
  (`jt808_update.c:821` compares their number only), nothing is missing then, the
  checksum is wrong, and the file is refused as installed for ever
  (`jt808_update.c:284` does not look at the checksum).  A plan that returns violates
  `UpToDateIsInstalled`.

Seen in the code, in or next to what the models have:

- Pictures.  `SearchPicHead` does not go on at the start of the ring (`camera.c:515`)
  and a search that finds nothing sets `NotSendCounter` to 0 (`jt808_camera.c:829`):
  pictures behind the end wait for ever.  The acknowledgement of a packet sent twice
  moves on to the next one a second time, and a request for packets handled during
  that write is overwritten by `WAIT_ACK`.  `user_para` is freed twice when the
  picture is gone (`jt808_camera.c:234`, `281`, `jt808.c:1391`).  After the last packet
  was acknowledged a silent platform gets it again without end, as a refused
  announcement is sent again without end.  A picture that wraps around is read
  beyond the end of the ring.  The summary is cleared before the semaphore is taken.
- Pages.  The block of `0x8104` is never removed: `jt808_param.c:1700-1726` marks it
  answered after the last page and then fills it again and returns `IDLE`.
- Update.  The packages 2..N of another file with the same number of packages are
  stored over the present one.  `goto UPDATA_END` before the semaphore is taken
  releases it (`jt808_update.c:621`, `636`).  The check of what was written never
  fails (`i == 5` within `i < 5`, lines 95, 160, 216).  When the result is lost, each
  repetition of the installed file restarts the terminal.
- Positions.  `area_get_alarm` gets `palarmdata` by value (`jt808_gps.c:715`);
  `jt808_gps_pack.c:420` searches in a buffer other than the one it has read.

## 6. Plan

Done, in this order: `GsmLink` (the link decides whether anything else works),
`Jt808Tx` on top of it, `ReportStore`, `FrameRx`, `MultiPacketRx`, `MsgList`,
`PictureStore` with `PictureTx`, `RemoteUpdate`.

Next, by importance:

1. `Jt808Tx`: progress of the list's head (an answer in front of an unsent
   authentication), a full heap during registration (`jt808.c:1457`, `1483`),
   `tx_seq` in two steps; the pointers of `MsgList` under it.
2. `sem_dataflash` with all its users and their time-outs, on the error paths too.
3. Device control (`jt808.c:1968-2065`) and the watchdog counters.
4. Packed positions (`jt808_gps_pack.c`), parameters with their two copies, the
   recorder's sectors.

Proofs to come, with the models above: the session's progress conditions, the order of
the reports beyond the first round of the ring, reports of two slots in sectors of an
even number.

## 7. Not modelled

- Third-party code, which is most of the repository: RT-Thread with its components,
  the STM32 libraries, fonts and code pages, the projects of the tool chains.  What
  the application relies on (priorities, mailboxes, the heap, semaphores) is in the
  models as far as it is used.  The share of the lines that the map covers is
  small for this reason; of the application's own code it is the parts with
  concurrency, persistence and protocol.
- Drivers that only move data: display, printer, card, sensors, clock, USB, SD card,
  serial lines, the SST25 itself (a write is a step that clears bits; an erasure sets
  them).  The dialogues with each modem are one exchange with an outcome.
- Code that computes and keeps no state between calls: menus, text, phone book, areas
  and their geometry, the formatting of messages, byte stuffing and checksums.
- Timing: time-outs are nondeterministic, ticks do not wrap around.
- Not yet: see the plan.
