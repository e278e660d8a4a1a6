------------------------------- MODULE FrameRx -------------------------------
(***************************************************************************)
(* The way of a message of the platform from the connection to its handler *)
(* (jt808.c).  The modem hands over the stream of a link in chunks of any  *)
(* size; the gsm_rx thread collects them until one ends with the flag 0x7E *)
(* (gprs_rx) and posts what it has to mb_gprsrx; the jt808 thread takes    *)
(* the mail and hands each frame in it to its handler (jt808_rx_proc).     *)
(*                                                                         *)
(* A byte is the flag or <<k, i>>, byte i of frame k of its link; the      *)
(* stuffing 0x7D and the message in a frame are left out, and a checksum   *)
(* is right for the bytes of a whole frame only.                           *)
(***************************************************************************)
EXTENDS Naturals, Sequences, FiniteSets, SequencesExt

CONSTANTS
  Links,     \* the links of the modem in use
  Frames,    \* bound: the frames the platform sends on a link
  BodySize,  \* the bytes of a frame between its flags
  MaxChunk,  \* bound: the bytes of a chunk
  BufSize,   \* 1280: gprs_rx_buf
  MailSlots, \* 8: the slots of mb_gprsrx
  MaxCuts    \* bound: the chunks of a behaviour that end next to a flag

ASSUME FrameAssumption ==
  /\ Links \subseteq Nat \ {0}
  /\ Frames \in Nat /\ BodySize \in Nat \ {0} /\ MaxChunk \in Nat \ {0}
  /\ BufSize \in Nat /\ MailSlots \in Nat \ {0} /\ MaxCuts \in Nat

VARIABLES
  sent,      \* the bytes of the stream of a link handed over so far
  last_link, \* last_linkno of gprs_rx
  buf,       \* gprs_rx_buf, gprs_rx_buf_wr bytes of it
  mail,      \* mb_gprsrx
  handled,   \* the frames handed to their handlers: <<link, k>>
  dropped,   \* history: a chunk did not fit the buffer or the mailbox, or the
             \* rest of a frame was given up for another link
  cuts       \* history: the chunks that ended next to a flag, in a frame

vars == <<sent, last_link, buf, mail, handled, dropped, cuts>>

FrameSize == BodySize + 2
StreamSize == Frames * FrameSize
Flag == <<0, 0>>
Body(k) == [i \in 1 .. BodySize |-> <<k, i>>]
Byte(p) ==
  LET k == (p - 1) \div FrameSize + 1
      i == (p - 1) % FrameSize
  IN IF i \in {0, BodySize + 1} THEN Flag ELSE <<k, i>>

Bytes == {Flag} \cup ((1 .. Frames) \X (1 .. BodySize))
Mail == [link : Links, bytes : Seq(Bytes)]
NoLink == 0 \* last_linkno at first

(* A frame whose checksum is right but whose header was never found: the   *)
(* handler is chosen by a pointer that has no value.                       *)
Astray == 0

TypeOK ==
  /\ sent \in [Links -> 0 .. StreamSize]
  /\ last_link \in Links \cup {NoLink}
  /\ buf \in Seq(Bytes) /\ Len(buf) <= BufSize
  /\ mail \in Seq(Mail) /\ Len(mail) <= MailSlots
  /\ handled \in Seq(Links \X (0 .. Frames))
  /\ dropped \in BOOLEAN /\ cuts \in 0 .. MaxCuts

Init ==
  /\ sent = [link \in Links |-> 0]
  /\ last_link = NoLink
  /\ buf = <<>> /\ mail = <<>> /\ handled = <<>>
  /\ dropped = FALSE /\ cuts = 0

-----------------------------------------------------------------------------
(* gprs_rx, in the gsm_rx thread. *)

(* The chunks the connection may hand over next.  The stream is cut at a   *)
(* flag when a chunk ends within two bytes after the first flag of a frame *)
(* or just before its last one.                                            *)
InFrame(p) == p % FrameSize
CutAtFlag(p) == InFrame(p) \in {1, 2, FrameSize - 1}
Chunk(link, n) == [i \in 1 .. n |-> Byte(sent[link] + i)]

(* A mutant of Kept: every chunk begins a frame. *)
KeptNever(link, chunk) == <<>>

(* A mutant of Kept: a chunk never begins a frame. *)
KeptAlways(link, chunk) == IF last_link # link THEN <<>> ELSE buf

(* What stays in the buffer: nothing of another link, and nothing when the *)
(* chunk begins with a flag and has more than two bytes.                   *)
Kept(link, chunk) ==
  IF last_link # link \/ (Head(chunk) = Flag /\ Len(chunk) > 2) THEN <<>> ELSE buf

Joined(link, chunk) == Kept(link, chunk) \o chunk
Fits(bytes) == Len(bytes) <= BufSize

(* A mutant of Posted: the buffer is not bounded. *)
PostedUnbounded(link, chunk) == Joined(link, chunk)

Posted(link, chunk) ==
  IF Fits(Joined(link, chunk)) THEN Joined(link, chunk) ELSE <<>>

(* The buffer is not emptied once its bytes are posted. *)
gprs_rx(link, chunk) ==
  /\ last_link' = link
  /\ buf' = Posted(link, chunk)
  /\ mail' = IF Last(chunk) = Flag /\ Len(mail) < MailSlots
             THEN Append(mail, [link |-> link, bytes |-> buf']) ELSE mail

Lost(link, chunk) ==
  \/ ~Fits(Joined(link, chunk))
  \/ Last(chunk) = Flag /\ Len(mail) = MailSlots
  \/ last_link \in Links \ {link} /\ InFrame(sent[last_link]) # 0

Receive(link) ==
  \E n \in 1 .. MaxChunk :
    /\ sent[link] + n <= StreamSize
    /\ gprs_rx(link, Chunk(link, n))
    /\ sent' = [sent EXCEPT ![link] = @ + n]
    /\ dropped' = (dropped \/ Lost(link, Chunk(link, n)))
    /\ IF CutAtFlag(sent[link] + n) THEN cuts < MaxCuts /\ cuts' = cuts + 1
                                     ELSE UNCHANGED cuts
    /\ UNCHANGED handled

-----------------------------------------------------------------------------
(* jt808_rx_proc, in the jt808 thread. *)

RightChecksum(bytes) == \E k \in 1 .. Frames : bytes = Body(k)

(* The bytes between two flags; open: a flag came before them. *)
AtFlag(scan) ==
  [frames |-> IF RightChecksum(scan.bytes)
              THEN Append(scan.frames, IF scan.open THEN Head(scan.bytes)[1] ELSE Astray)
              ELSE scan.frames,
   bytes |-> <<>>, open |-> TRUE]

Scan(scan, byte) ==
  IF byte = Flag THEN AtFlag(scan) ELSE [scan EXCEPT !.bytes = Append(@, byte)]

NothingScanned == [frames |-> <<>>, bytes |-> <<>>, open |-> FALSE]

(* The scan of the first n bytes of a mail. *)
Scanned(bytes) ==
  LET at[n \in 0 .. Len(bytes)] ==
        IF n = 0 THEN NothingScanned ELSE Scan(at[n - 1], bytes[n])
  IN at

FramesIn(bytes) == Scanned(bytes)[Len(bytes)].frames

jt808_rx_proc ==
  /\ mail # <<>>
  /\ mail' = Tail(mail)
  /\ LET first == Head(mail)
         found == FramesIn(first.bytes)
     IN handled' = handled \o [i \in DOMAIN found |-> <<first.link, found[i]>>]
  /\ UNCHANGED <<sent, last_link, buf, dropped, cuts>>

Next == jt808_rx_proc \/ \E link \in Links : Receive(link)

Spec == Init /\ [][Next]_vars

-----------------------------------------------------------------------------
(* Properties. *)

(* A frame is handed to its handler once, the frames of a link in the      *)
(* order in which the platform sent them, and none without its header:     *)
(* the joining of split frames repeats, swaps and invents nothing          *)
(* (jt808.c:1847-1859, 1879), until the stream is cut at a flag, which     *)
(* gprs_rx takes for the beginning or the end of another frame.            *)
HandledInOrder ==
  cuts = 0 =>
    \A i, j \in DOMAIN handled :
      /\ handled[i][2] # Astray
      /\ i < j /\ handled[i][1] = handled[j][1] => handled[i][2] < handled[j][2]

(* A frame is lost only to a full buffer, a full mailbox, another link or  *)
(* a cut at a flag: once all mail is taken and the stream stands between   *)
(* two frames, every frame before was handled, however the stream was      *)
(* split.  (A frame that shares its last chunk with the beginning of the   *)
(* next one waits in the buffer for the end of that.)                      *)
NothingMissed ==
  ~dropped /\ cuts = 0 /\ mail = <<>> =>
    \A link \in Links :
      InFrame(sent[link]) = 0 =>
        \A k \in 1 .. sent[link] \div FrameSize : Contains(handled, <<link, k>>)

(* After a loss or a cut the next frame that comes as one chunk is         *)
(* handled, and nothing else with it: no remainder in the buffer spoils    *)
(* the following ones for ever.                                            *)
FreshFrameIsHandled ==
  [][\A link \in Links :
       InFrame(sent[link]) = 0 /\ sent'[link] = sent[link] + FrameSize
         /\ Len(mail) < MailSlots /\ FrameSize <= BufSize
       => FramesIn(Last(mail').bytes) = <<sent'[link] \div FrameSize>>]_vars

=============================================================================
