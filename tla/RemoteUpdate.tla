----------------------------- MODULE RemoteUpdate -----------------------------
(***************************************************************************)
(* The remote update (jt808_update.c).  The platform sends a program file  *)
(* in the packages of messages 0x8108, which updata_jt808_0x8108 stores in *)
(* the flash memory as they come: the first one holds the header of the    *)
(* file and decides whether the file is taken from the start, continued or *)
(* refused; the parameters next to it mark the packages that are missing.  *)
(* When none is missing and the checksum is right, the flag in the header  *)
(* tells the boot loader to install the file.  The power may fail between  *)
(* any two writes.                                                         *)
(***************************************************************************)
EXTENDS Naturals, Sequences

CONSTANTS
  Files,      \* program files
  NoFile,     \* what an erased header or package holds
  Factory,    \* the file a new terminal holds and runs
  Foreign,    \* files for another product
  MaxTotal,   \* 1024: the packages Pack_Mark has a bit for
  Total,      \* the packages of each file
  Plan,       \* what the platform sends in turn: a file and a version text
  MaxEvents,  \* bound: events of a behaviour
  Events      \* which of them occur: a subset of EventKinds

(* A package or result is lost, the platform goes on to the next file, the *)
(* power fails, or fails where the header and the parameters do not agree. *)
EventKinds == {"loss", "switch", "power", "torn"}

Campaign == [file : Files, ver : Nat]

ASSUME UpdateAssumption ==
  /\ NoFile \notin Files /\ "mixed" \notin Files /\ Factory \in Files
  /\ Foreign \subseteq Files /\ Factory \notin Foreign
  /\ MaxTotal \in Nat /\ Total \in [Files -> 2 .. MaxTotal]
  /\ Plan \in Seq(Campaign) /\ Len(Plan) > 0
  /\ MaxEvents \in Nat /\ Events \subseteq EventKinds

VARIABLES
  head,       \* the header in flash: the file it belongs to and its flag
  pages,      \* the packages in flash: the file each is from
  para,       \* STYLE_UPDATA_STATE: in flash, and once read in updata_state
  version,    \* jt808_param.id_0xF010
  pc,         \* where the jt808 thread is in updata_jt808_0x8108
  pkg,        \* the package it handles
  installed,  \* the file the terminal runs
  turn,       \* the file of Plan the platform sends
  next,       \* the package it sends next
  done,       \* the platform knows that the update has succeeded
  events      \* events left

platform == <<turn, next, done>>
vars == <<head, pages, para, version, pc, pkg, installed, platform, events>>

Package == 1 .. MaxTotal

(* Erased parameters match no file. *)
Erased == [total |-> MaxTotal + 1, missing |-> Package]
Missing == {p \in para.missing : p <= para.total}

Steps == {"idle", "erase", "head", "clear", "para", "mark", "check", "reset"}

TypeOK ==
  /\ head \in [file : Files \cup {NoFile}, flag : BOOLEAN]
  /\ pages \in [Package -> Files \cup {NoFile}]
  /\ para \in [total : 2 .. MaxTotal + 1, missing : SUBSET Package]
  /\ version \in Nat
  /\ pc \in Steps /\ pkg \in Package
  /\ installed \in Files \cup {"mixed"}
  /\ turn \in DOMAIN Plan
  /\ next \in 1 .. MaxTotal + 1
  /\ done \in BOOLEAN
  /\ events \in 0 .. MaxEvents

Init ==
  /\ head = [file |-> Factory, flag |-> FALSE]
  /\ pages = [p \in Package |-> IF p <= Total[Factory] THEN Factory ELSE NoFile]
  /\ para \in {Erased, [total |-> Total[Factory], missing |-> {}]}
  /\ version = 0
  /\ pc = "idle" /\ pkg = 1
  /\ installed = Factory
  /\ turn = 1 /\ next = 1 /\ done = FALSE
  /\ events = MaxEvents

Target == Plan[turn].file

(* The files of the platform in their order, after the one the terminal    *)
(* came with: it does not return to a file after another one.              *)
FileAt(i) == IF i = 0 THEN Factory ELSE Plan[i].file
NeverReturns ==
  \A i, j, k \in 0 .. Len(Plan) :
    i < j /\ j < k /\ FileAt(i) = FileAt(k) => FileAt(j) = FileAt(i)

Happens(kind) == kind \in Events /\ events > 0 /\ events' = events - 1

(* What the checksum is over: all of the file is stored. *)
Whole == head.file \in Files /\ \A p \in 1 .. Total[head.file] : pages[p] = head.file

-----------------------------------------------------------------------------
(* A mutant of Arrives: the number is not compared with the total. *)
ArrivesUnchecked ==
  /\ pc = "idle" /\ ~done
  /\ next' = next + 1 /\ pkg' = next
  /\ UNCHANGED <<installed, turn, done, events>>

(* A package arrives; the platform sends them in order. *)
Arrives ==
  /\ pc = "idle" /\ ~done
  /\ next <= Total[Target] /\ next' = next + 1 /\ pkg' = next
  /\ UNCHANGED <<installed, turn, done, events>>

(* A mutant of Comparable: the version must match as well. *)
ComparableExactly == head.file = Target

(* updata_comp_file: an erased header belongs to no product. *)
Comparable == head.file # NoFile /\ Target \notin Foreign
Same == Comparable /\ head.file = Target

(* The first package, and what is done with the file.  A version text that *)
(* differs from the last one is kept at once, even if the file is refused. *)
Refuse ==
  /\ Arrives /\ next = 1
  /\ ~Comparable
  /\ version' = Plan[turn].ver
  /\ UNCHANGED <<head, pages, para, pc>>

AlreadyUpdated ==
  /\ Arrives /\ next = 1
  /\ Same /\ Missing = {} /\ version = Plan[turn].ver
  /\ pc' = "reset"
  /\ UNCHANGED <<head, pages, para, version>>

(* The sequence number of the first package, which no comparison reads, is *)
(* left out.  When it is new the parameters are erased and written as they *)
(* were (jt808_update.c:744-748); a loss of power in between, which is     *)
(* left out as well, leaves them erased: the next first package starts     *)
(* again (StartAgain).                                                     *)
Continue ==
  /\ Arrives /\ next = 1
  /\ Same /\ Missing # {} /\ para.total = Total[Target]
  /\ version' = Plan[turn].ver
  /\ UNCHANGED <<head, pages, para, pc>>

StartAgain ==
  /\ Arrives /\ next = 1
  /\ Comparable
  /\ \/ head.file # Target
     \/ Missing = {} /\ version # Plan[turn].ver
     \/ Missing # {} /\ para.total # Total[Target]
  /\ version' = Plan[turn].ver /\ pc' = "erase"
  /\ UNCHANGED <<head, pages, para>>

(* Another package is refused or stored by its number alone. *)
Cancel ==
  /\ Arrives /\ next # 1
  /\ para.total # Total[Target]
  /\ UNCHANGED <<head, pages, para, version, pc>>

Store ==
  /\ Arrives /\ next # 1
  /\ para.total = Total[Target]
  /\ pages' = [pages EXCEPT ![next] = Target]
  /\ pc' = "mark"
  /\ UNCHANGED <<head, para, version>>

-----------------------------------------------------------------------------
(* The rest of the handler, one write to the flash memory after the other. *)

Goes(from, to) ==
  /\ pc = from /\ pc' = to
  /\ UNCHANGED <<version, pkg, installed, turn, next>>

(* updata_flash_wr_filehead, then updata_flash_write_para. *)
EraseHead ==
  /\ Goes("erase", "head")
  /\ head' = [file |-> NoFile, flag |-> FALSE]
  /\ pages' = [pages EXCEPT ![1] = NoFile]
  /\ UNCHANGED <<para, done, events>>

WriteHead ==
  /\ Goes("head", "clear")
  /\ head' = [head EXCEPT !.file = Target]
  /\ pages' = [pages EXCEPT ![1] = Target]
  /\ UNCHANGED <<para, done, events>>

ClearPages ==
  /\ Goes("clear", "para")
  /\ pages' = [p \in Package |-> IF p = 1 THEN pages[1] ELSE NoFile]
  /\ UNCHANGED <<head, para, done, events>>

(* A mutant of WritePara: the packages that were marked stay so. *)
WriteParaOver ==
  /\ Goes("para", "idle")
  /\ para' = [total |-> Total[Target], missing |-> para.missing \ {1}]
  /\ UNCHANGED <<head, pages, done, events>>

WritePara ==
  /\ Goes("para", "idle")
  /\ para' = [total |-> Total[Target], missing |-> Package \ {1}]
  /\ UNCHANGED <<head, pages, done, events>>

MarkPackage ==
  /\ Goes("mark", "check")
  /\ para' = [para EXCEPT !.missing = @ \ {pkg}]
  /\ UNCHANGED <<head, pages, done, events>>

NotComplete ==
  /\ Goes("check", "idle")
  /\ Missing # {} \/ ~Whole
  /\ UNCHANGED <<head, pages, para, done, events>>

(* A mutant of Complete: the checksum is not compared. *)
CompleteUnchecked ==
  /\ Goes("check", "reset")
  /\ Missing = {}
  /\ head' = [head EXCEPT !.flag = TRUE]
  /\ done' = TRUE /\ UNCHANGED events
  /\ UNCHANGED <<pages, para>>

(* updata_ack tells the boot loader and the platform. *)
Complete ==
  /\ Goes("check", "reset")
  /\ Missing = {} /\ Whole
  /\ head' = [head EXCEPT !.flag = TRUE]
  /\ \/ done' = TRUE /\ UNCHANGED events
     \/ Happens("loss") /\ UNCHANGED done
  /\ UNCHANGED <<pages, para>>

(* The boot loader is not part of the repository.  The handlers rely on it *)
(* to install the file when the flag is set, and to clear the flag.        *)
Boot ==
  /\ installed' = IF ~head.flag THEN installed ELSE IF Whole THEN head.file ELSE "mixed"
  /\ head' = [head EXCEPT !.flag = FALSE]
  /\ pc' = "idle"

ResetAfterUpdate ==
  /\ pc = "reset" /\ Boot
  /\ UNCHANGED <<pages, para, version, pkg, platform, events>>

Handler ==
  EraseHead \/ WriteHead \/ ClearPages \/ WritePara \/ MarkPackage
  \/ NotComplete \/ Complete \/ ResetAfterUpdate

-----------------------------------------------------------------------------
(* The platform and the disturbances. *)

Package8108 == Refuse \/ AlreadyUpdated \/ Continue \/ StartAgain \/ Cancel \/ Store

PackageLost ==
  /\ ~done /\ next <= Total[Target] /\ next' = next + 1
  /\ Happens("loss")
  /\ UNCHANGED <<head, pages, para, version, pc, pkg, installed, turn, done>>

SendAgain ==
  /\ ~done /\ next > Total[Target] /\ next' = 1
  /\ UNCHANGED <<head, pages, para, version, pc, pkg, installed, turn, done, events>>

NextFile ==
  /\ pc = "idle" /\ turn < Len(Plan)
  /\ IF done THEN UNCHANGED events ELSE Happens("switch")
  /\ turn' = turn + 1 /\ next' = 1 /\ done' = FALSE
  /\ UNCHANGED <<head, pages, para, version, pc, pkg, installed>>

(* Between these writes the header and the parameters do not agree, or the *)
(* parameters say that all of the file is there and the flag does not.     *)
Torn == pc \in {"head", "clear", "para"} \/ (pc = "check" /\ Missing = {})

(* The platform goes on with the next package or starts again. *)
PowerFails ==
  /\ Happens(IF Torn THEN "torn" ELSE "power")
  /\ Boot
  /\ next' \in {1, next}
  /\ UNCHANGED <<pages, para, version, pkg, turn, done>>

Next ==
  Package8108 \/ Handler \/ PackageLost \/ SendAgain \/ NextFile \/ PowerFails

Spec == Init /\ [][Next]_vars

(* The thread goes on; the platform sends the file until it has succeeded. *)
FairSpec ==
  Spec /\ WF_vars(Handler) /\ WF_vars(Package8108) /\ WF_vars(SendAgain)

-----------------------------------------------------------------------------
(* Properties. *)

(* The boot loader installs a file only when every package of it is in the *)
(* flash memory and from that file, whatever else was stored over it, lost *)
(* or interrupted (jt808_update.c:171, 441).                               *)
InstalledIsWhole == installed # "mixed"

(* The platform is told that the terminal is up to date only when the file *)
(* it sends is there as a whole (jt808_update.c:281).                      *)
UpToDateIsWhole == [][AlreadyUpdated => Whole]_vars

(* jt808_update.c:282 "the program was updated successfully before, there  *)
(* is no need to update again": the terminal refuses a file as up to date  *)
(* only when it runs that file.                                            *)
UpToDateIsInstalled == [][AlreadyUpdated => installed = Target]_vars

(* A file for this product that the platform goes on sending is installed, *)
(* however its first packages were lost, repeated or cut off by a loss of  *)
(* power, and whatever file came before (jt808_update.c:747).              *)
UpdateCompletes == <>[](Target \in Foreign \/ installed = Target)

=============================================================================
