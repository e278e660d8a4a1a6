-------------------------- MODULE RemoteUpdate_proofs --------------------------
(***************************************************************************)
(* Theorems about RemoteUpdate, for every value of its constants.          *)
(***************************************************************************)
EXTENDS RemoteUpdate, TLAPS

LEMMA PlanFacts ==
  ASSUME turn \in DOMAIN Plan
  PROVE  /\ Target \in Files /\ Plan[turn].ver \in Nat
         /\ Total[Target] \in 2 .. MaxTotal
<1>1. Plan[turn] \in Campaign
  BY UpdateAssumption
<1> QED BY <1>1, UpdateAssumption DEF Target, Campaign

LEMMA EventsType ==
  ASSUME TypeOK, NEW kind, Happens(kind)
  PROVE  events' \in 0 .. MaxEvents
BY UpdateAssumption DEF TypeOK, Happens

LEMMA TypeInit == Init => TypeOK
<1> SUFFICES ASSUME Init PROVE TypeOK
  OBVIOUS
<1> USE UpdateAssumption DEF Init
<1>1. Total[Factory] \in 2 .. MaxTotal
  OBVIOUS
<1>2. pages \in [Package -> Files \cup {NoFile}]
  OBVIOUS
<1>3. para \in [total : 2 .. MaxTotal + 1, missing : SUBSET Package]
  BY <1>1 DEF Erased
<1>4. 1 \in Package /\ 1 \in DOMAIN Plan /\ next \in 1 .. MaxTotal + 1
  BY <1>1 DEF Package
<1>5. head \in [file : Files \cup {NoFile}, flag : BOOLEAN]
  OBVIOUS
<1>6. pc \in Steps /\ installed \in Files \cup {"mixed"} /\ done \in BOOLEAN
  BY DEF Steps
<1>7. version \in Nat /\ events \in 0 .. MaxEvents
  OBVIOUS
<1>8. pkg \in Package /\ turn \in DOMAIN Plan
  BY <1>4
<1> QED BY <1>2, <1>3, <1>4, <1>5, <1>6, <1>7, <1>8 DEF TypeOK

(* The handler of a package, from its first test to its first write.       *)
LEMMA PackageType ==
  ASSUME TypeOK, Package8108
  PROVE  TypeOK'
<1> DEFINE file == Target
<1>1. /\ Target \in Files /\ Plan[turn].ver \in Nat /\ Total[Target] \in 2 .. MaxTotal
  BY PlanFacts DEF TypeOK
<1>2. Arrives
  BY DEF Package8108, Refuse, AlreadyUpdated, Continue, StartAgain, Cancel, Store
<1>3. /\ next \in Package /\ next' \in 1 .. MaxTotal + 1 /\ pkg' \in Package
      /\ installed' \in Files \cup {"mixed"} /\ turn' \in DOMAIN Plan
      /\ done' \in BOOLEAN /\ events' \in 0 .. MaxEvents
  BY <1>1, <1>2, UpdateAssumption DEF Arrives, TypeOK, Package
<1>4. version' \in Nat /\ pc' \in Steps
  BY <1>1, <1>2
  DEF Package8108, Refuse, AlreadyUpdated, Continue, StartAgain, Cancel, Store,
      Arrives, TypeOK, Steps
<1>5. pages' \in [Package -> Files \cup {NoFile}]
  BY <1>1, <1>3
  DEF Package8108, Refuse, AlreadyUpdated, Continue, StartAgain, Cancel, Store, TypeOK
<1>6. head' = head /\ para' = para
  BY DEF Package8108, Refuse, AlreadyUpdated, Continue, StartAgain, Cancel, Store
<1> QED BY <1>3, <1>4, <1>5, <1>6 DEF TypeOK

(* The rest of the handler.                                                *)
LEMMA HandlerType ==
  ASSUME TypeOK, Handler
  PROVE  TypeOK'
<1>1. /\ Target \in Files /\ Total[Target] \in 2 .. MaxTotal
  BY PlanFacts DEF TypeOK
<1>2. 1 \in Package /\ Total[Target] \in 2 .. MaxTotal + 1
  BY <1>1, UpdateAssumption DEF Package
<1>3. CASE EraseHead
  BY <1>3, <1>2 DEF EraseHead, Goes, TypeOK, Steps
<1>4. CASE WriteHead
  BY <1>4, <1>1, <1>2 DEF WriteHead, Goes, TypeOK, Steps
<1>5. CASE ClearPages
  BY <1>5, <1>2 DEF ClearPages, Goes, TypeOK, Steps
<1>6. CASE WritePara
  BY <1>6, <1>2 DEF WritePara, Goes, TypeOK, Steps
<1>7. CASE MarkPackage
  BY <1>7 DEF MarkPackage, Goes, TypeOK, Steps
<1>8. CASE NotComplete
  BY <1>8 DEF NotComplete, Goes, TypeOK, Steps
<1>9. CASE Complete
  BY <1>9, EventsType DEF Complete, Goes, TypeOK, Steps
<1>10. CASE ResetAfterUpdate
  <2>1. installed' \in Files \cup {"mixed"}
    BY <1>10 DEF ResetAfterUpdate, Boot, Whole, TypeOK
  <2> QED BY <1>10, <2>1 DEF ResetAfterUpdate, Boot, platform, TypeOK, Steps
<1> QED BY <1>3, <1>4, <1>5, <1>6, <1>7, <1>8, <1>9, <1>10 DEF Handler

LEMMA PlatformType ==
  ASSUME TypeOK, PackageLost \/ SendAgain \/ NextFile \/ PowerFails
  PROVE  TypeOK'
<1>1. Total[Target] \in 2 .. MaxTotal /\ 1 \in 1 .. MaxTotal + 1
  BY PlanFacts, UpdateAssumption DEF TypeOK
<1>2. CASE PackageLost
  <2>1. next' \in 1 .. MaxTotal + 1
    BY <1>2, <1>1, UpdateAssumption DEF PackageLost, TypeOK
  <2>2. events' \in 0 .. MaxEvents
    BY <1>2, EventsType DEF PackageLost
  <2> QED BY <1>2, <2>1, <2>2 DEF PackageLost, TypeOK
<1>3. CASE SendAgain
  BY <1>3, <1>1 DEF SendAgain, TypeOK
<1>4. CASE NextFile
  <2>1. turn' \in DOMAIN Plan
    <3>1. DOMAIN Plan = 1 .. Len(Plan) /\ Len(Plan) \in Nat
      BY UpdateAssumption
    <3> QED BY <3>1, <1>4 DEF NextFile, TypeOK
  <2>2. events' \in 0 .. MaxEvents
    BY <1>4, EventsType DEF NextFile, TypeOK
  <2> QED BY <1>4, <1>1, <2>1, <2>2 DEF NextFile, TypeOK
<1>5. CASE PowerFails
  <2>1. installed' \in Files \cup {"mixed"}
    BY <1>5 DEF PowerFails, Boot, Whole, TypeOK
  <2>2. head' \in [file : Files \cup {NoFile}, flag : BOOLEAN]
    BY <1>5 DEF PowerFails, Boot, TypeOK
  <2>3. events' \in 0 .. MaxEvents
    BY <1>5, EventsType DEF PowerFails
  <2>4. next' \in 1 .. MaxTotal + 1
    BY <1>5, <1>1 DEF PowerFails, TypeOK
  <2> QED BY <1>5, <2>1, <2>2, <2>3, <2>4 DEF PowerFails, Boot, TypeOK, Steps
<1> QED BY <1>2, <1>3, <1>4, <1>5

LEMMA TypeStep == TypeOK /\ [Next]_vars => TypeOK'
<1>1. TypeOK /\ UNCHANGED vars => TypeOK'
  BY DEF vars, platform, TypeOK
<1> QED BY <1>1, PackageType, HandlerType, PlatformType DEF Next

(* The header, the packages and the marks of the file keep their types:    *)
(* no number of a package is beyond the marks, whichever file it is of.    *)
THEOREM UpdateTypeInvariant == Spec => []TypeOK
BY TypeInit, TypeStep, PTL DEF Spec

-----------------------------------------------------------------------------
(* Only a file that is whole is installed.  The flag in the header is set  *)
(* last, by a thread that then resets the terminal: until the boot loader  *)
(* has seen and cleared it, no package is stored.                          *)

FlagInv == head.flag => pc = "reset" /\ Whole

InstallInv == TypeOK /\ FlagInv /\ InstalledIsWhole

LEMMA InstallInit == Init => InstallInv
BY TypeInit, UpdateAssumption DEF Init, InstallInv, FlagInv, InstalledIsWhole

(* The boot loader finds the flag with a whole file, or no flag.           *)
LEMMA BootInstalls ==
  ASSUME InstallInv, Boot
  PROVE  head'.flag = FALSE /\ InstalledIsWhole'
<1>1. head'.flag = FALSE
  BY DEF Boot, InstallInv, TypeOK
<1>2. CASE ~head.flag
  BY <1>2, <1>1 DEF Boot, InstallInv, InstalledIsWhole
<1>3. CASE head.flag
  <2>1. Whole /\ head.file \in Files
    BY <1>3 DEF InstallInv, FlagInv, Whole
  <2> QED BY <2>1, <1>1, <1>3, UpdateAssumption DEF Boot, InstalledIsWhole
<1> QED BY <1>2, <1>3

LEMMA InstallStep == InstallInv /\ [Next]_vars => InstallInv'
<1> SUFFICES ASSUME InstallInv, [Next]_vars PROVE InstallInv'
  OBVIOUS
<1>1. TypeOK /\ TypeOK' /\ FlagInv /\ InstalledIsWhole
  BY TypeStep DEF InstallInv
<1> SUFFICES FlagInv' /\ InstalledIsWhole'
  BY <1>1 DEF InstallInv
<1>2. CASE UNCHANGED vars
  BY <1>1, <1>2 DEF vars, FlagInv, Whole, InstalledIsWhole
<1>3. CASE Package8108
  <2>1. head' = head /\ installed' = installed /\ pc = "idle"
    BY <1>3 DEF Package8108, Refuse, AlreadyUpdated, Continue, StartAgain,
                Cancel, Store, Arrives
  <2> QED BY <2>1, <1>1 DEF FlagInv, InstalledIsWhole
<1>4. CASE EraseHead \/ WriteHead \/ ClearPages \/ WritePara \/ MarkPackage
           \/ NotComplete
  <2>1. pc # "reset" /\ installed' = installed
    BY <1>4 DEF EraseHead, WriteHead, ClearPages, WritePara, MarkPackage,
                NotComplete, Goes
  <2>2. ~head.flag
    BY <2>1, <1>1 DEF FlagInv
  <2>3. ~head'.flag
    BY <2>2, <1>4, <1>1 DEF EraseHead, WriteHead, ClearPages, WritePara,
                            MarkPackage, NotComplete, TypeOK
  <2> QED BY <2>1, <2>3, <1>1 DEF FlagInv, InstalledIsWhole
<1>5. CASE Complete
  <2>1. /\ Whole /\ pc' = "reset" /\ installed' = installed
        /\ head'.file = head.file /\ pages' = pages
    BY <1>5, <1>1 DEF Complete, Goes, TypeOK
  <2> QED BY <2>1, <1>1 DEF FlagInv, Whole, InstalledIsWhole
<1>6. CASE ResetAfterUpdate \/ PowerFails
  <2>1. Boot
    BY <1>6 DEF ResetAfterUpdate, PowerFails
  <2> QED BY <2>1, BootInstalls DEF FlagInv
<1>7. CASE PackageLost \/ SendAgain \/ NextFile
  BY <1>7, <1>1 DEF PackageLost, SendAgain, NextFile, FlagInv, Whole, InstalledIsWhole
<1> QED BY <1>2, <1>3, <1>4, <1>5, <1>6, <1>7 DEF Next, Handler

(* Whatever is lost, repeated, stored over the file or cut off by a loss   *)
(* of power, the boot loader installs only files of which every package is *)
(* in the flash memory (jt808_update.c:441).                               *)
THEOREM OnlyWholeFilesAreInstalled == Spec => []InstalledIsWhole
<1>1. InstallInv => InstalledIsWhole
  BY DEF InstallInv
<1> QED BY <1>1, InstallInit, InstallStep, PTL DEF Spec

-----------------------------------------------------------------------------
(* Only a file that is there is refused as up to date.  Packages are       *)
(* stored by their number alone: those of another file may be among the    *)
(* ones that are marked, but then the platform has left the file in the    *)
(* header, to which it does not return.                                    *)

Preparing == {"head", "clear", "para"}

MarkedAreStored ==
  pc \notin Preparing /\ head.file = Target =>
    /\ para.total >= Total[Target]
    /\ \A p \in (1 .. Total[Target]) \ para.missing : pages[p] = Target

FirstIsStored ==
  pc \in {"clear", "para"} => head.file = Target /\ pages[1] = Target

PackageIsStored == pc = "mark" => pages[pkg] = Target

CompleteIsInstalled ==
  pc \notin Preparing \cup {"check"} /\ head.file = Target /\ Missing = {} =>
    installed = Target \/ (head.flag /\ pc = "reset")

HeadIsSent == head.file = NoFile \/ \E i \in 0 .. turn : head.file = FileAt(i)

StoredInv == MarkedAreStored /\ FirstIsStored /\ PackageIsStored
DateInv == InstallInv /\ StoredInv /\ CompleteIsInstalled /\ HeadIsSent

(* Without a missing package the file in the header is whole.              *)
LEMMA NoneMissing ==
  ASSUME TypeOK, MarkedAreStored, pc \notin Preparing, head.file = Target, Missing = {}
  PROVE  Whole
<1>1. Target \in Files /\ Total[Target] \in 2 .. MaxTotal /\ MaxTotal \in Nat
  BY PlanFacts, UpdateAssumption DEF TypeOK
<1>2. ASSUME NEW p \in 1 .. Total[Target] PROVE pages[p] = Target
  <2>1. p <= para.total
    BY <1>1 DEF MarkedAreStored, TypeOK
  <2>2. p \notin para.missing
    BY <2>1 DEF Missing
  <2> QED BY <2>2 DEF MarkedAreStored
<1> QED BY <1>1, <1>2 DEF Whole

LEMMA DateInit == Init => DateInv
<1> SUFFICES ASSUME Init PROVE DateInv
  OBVIOUS
<1>1. InstallInv /\ TypeOK
  BY InstallInit, TypeInit
<1>2. /\ pc = "idle" /\ turn = 1 /\ installed = Factory
      /\ head.file = Factory
      /\ pages = [p \in Package |-> IF p <= Total[Factory] THEN Factory ELSE NoFile]
      /\ para \in {Erased, [total |-> Total[Factory], missing |-> {}]}
  BY DEF Init
<1>3. Total[Factory] \in 2 .. MaxTotal /\ MaxTotal \in Nat
  BY UpdateAssumption
<1>4. \A p \in 1 .. Total[Factory] : pages[p] = Factory
  BY <1>2, <1>3 DEF Package
<1>5. para.total >= Total[Factory]
  BY <1>2, <1>3 DEF Erased
<1>6. StoredInv
  BY <1>2, <1>4, <1>5
  DEF StoredInv, MarkedAreStored, FirstIsStored, PackageIsStored, Preparing
<1>7. CompleteIsInstalled /\ HeadIsSent
  BY <1>2 DEF CompleteIsInstalled, HeadIsSent, FileAt
<1> QED BY <1>1, <1>6, <1>7 DEF DateInv

(* A step that only the platform takes, with the same file.                *)
LEMMA DateKept ==
  ASSUME DateInv, InstallInv', turn' = turn,
         head'.file = head.file, UNCHANGED <<pages, para, installed>>,
         pc' \notin Preparing \cup {"mark", "check"},
         pc \notin Preparing,
         pc = "check" /\ head.file = Target /\ Missing = {} => head'.flag /\ pc' = "reset",
         head.flag /\ pc = "reset" => head'.flag /\ pc' = "reset"
  PROVE  DateInv'
<1>1. Target' = Target /\ Missing' = Missing
  BY DEF Target, Missing
<1>2. StoredInv'
  BY <1>1 DEF DateInv, StoredInv, MarkedAreStored, FirstIsStored, PackageIsStored, Preparing
<1>3. CompleteIsInstalled'
  BY <1>1 DEF DateInv, CompleteIsInstalled, Preparing
<1>4. HeadIsSent'
  BY DEF DateInv, HeadIsSent, FileAt
<1> QED BY <1>2, <1>3, <1>4 DEF DateInv

LEMMA DatePackage ==
  ASSUME DateInv, InstallInv', Package8108
  PROVE  DateInv'
<1>1. /\ pc = "idle" /\ turn' = turn /\ head' = head /\ para' = para
      /\ installed' = installed /\ pkg' = next
  BY DEF Package8108, Refuse, AlreadyUpdated, Continue, StartAgain, Cancel, Store, Arrives
<1>2. CASE ~Store
  <2>1. pages' = pages /\ pc' \in {"idle", "reset", "erase"}
    BY <1>1, <1>2
    DEF Package8108, Refuse, AlreadyUpdated, Continue, StartAgain, Cancel
  <2> QED BY <1>1, <2>1, DateKept DEF Preparing
<1>3. CASE Store
  <2>1. TypeOK /\ next \in Package /\ pc' = "mark"
        /\ pages' = [pages EXCEPT ![next] = Target]
    <3>1. TypeOK /\ next \in 1 .. Total[Target] /\ Total[Target] \in 2 .. MaxTotal
      BY <1>3, PlanFacts DEF Store, Arrives, DateInv, InstallInv, TypeOK
    <3> QED BY <1>3, <3>1, UpdateAssumption DEF Store, Package
  <2>2. Target' = Target /\ Missing' = Missing
    BY <1>1 DEF Target, Missing
  <2>3. /\ \A p \in Package : pages'[p] = IF p = next THEN Target ELSE pages[p]
        /\ 1 .. Total[Target] \subseteq Package
    BY <2>1, PlanFacts, UpdateAssumption DEF TypeOK, Package
  <2>4. MarkedAreStored'
    BY <1>1, <2>2, <2>3 DEF DateInv, StoredInv, MarkedAreStored, Preparing
  <2>5. FirstIsStored' /\ PackageIsStored'
    BY <1>1, <2>1, <2>2, <2>3 DEF FirstIsStored, PackageIsStored
  <2>6. CompleteIsInstalled' /\ HeadIsSent'
    BY <1>1, <2>2 DEF DateInv, CompleteIsInstalled, HeadIsSent, Preparing, FileAt
  <2> QED BY <2>4, <2>5, <2>6 DEF DateInv, StoredInv
<1> QED BY <1>2, <1>3

LEMMA DateHandler ==
  ASSUME DateInv, InstallInv', Handler
  PROVE  DateInv'
<1>1. TypeOK /\ Target \in Files /\ Total[Target] \in 2 .. MaxTotal /\ MaxTotal \in Nat
  BY PlanFacts, UpdateAssumption DEF DateInv, InstallInv, TypeOK
<1>2. turn' = turn /\ Target' = Target
  BY DEF Handler, EraseHead, WriteHead, ClearPages, WritePara, MarkPackage,
         NotComplete, Complete, ResetAfterUpdate, Goes, platform, Target
<1>3. 1 \in Package /\ 2 \in Package /\ 1 .. Total[Target] \subseteq Package
  BY <1>1 DEF Package
<1>4. CASE EraseHead
  <2>1. pc' = "head" /\ head'.file = NoFile
    BY <1>4 DEF EraseHead, Goes
  <2> QED
    BY <2>1 DEF DateInv, StoredInv, MarkedAreStored, FirstIsStored, PackageIsStored,
       CompleteIsInstalled, HeadIsSent, Preparing
<1>5. CASE WriteHead
  <2>1. pc' = "clear" /\ head'.file = Target /\ pages'[1] = Target
    BY <1>1, <1>3, <1>5 DEF WriteHead, Goes, TypeOK
  <2>2. HeadIsSent'
    <3>1. turn \in 1 .. Len(Plan) /\ Len(Plan) \in Nat
      BY <1>1, UpdateAssumption DEF TypeOK
    <3>2. turn \in 0 .. turn /\ FileAt(turn) = Target
      BY <3>1 DEF FileAt, Target
    <3> QED BY <2>1, <3>2, <1>2 DEF HeadIsSent, FileAt
  <2> QED
    BY <2>1, <2>2, <1>2 DEF DateInv, StoredInv, MarkedAreStored, FirstIsStored,
       PackageIsStored, CompleteIsInstalled, Preparing
<1>6. CASE ClearPages
  <2>1. /\ pc = "clear" /\ pc' = "para" /\ head' = head /\ pages'[1] = pages[1]
    BY <1>3, <1>6 DEF ClearPages, Goes
  <2> QED
    BY <2>1, <1>2 DEF DateInv, StoredInv, MarkedAreStored, FirstIsStored,
       PackageIsStored, CompleteIsInstalled, HeadIsSent, Preparing, FileAt
<1>7. CASE WritePara
  <2>1. /\ pc = "para" /\ pc' = "idle" /\ head' = head /\ pages' = pages
        /\ para' = [total |-> Total[Target], missing |-> Package \ {1}]
    BY <1>7 DEF WritePara, Goes
  <2>2. \A p \in (1 .. Total[Target]) \ para'.missing : p = 1
    BY <1>3, <2>1
  <2>3. MarkedAreStored'
    BY <1>1, <1>2, <2>1, <2>2 DEF DateInv, StoredInv, FirstIsStored, MarkedAreStored
  <2>4. 2 \in Missing'
    BY <1>1, <1>3, <2>1 DEF Missing
  <2> QED
    BY <2>1, <2>3, <2>4, <1>2 DEF DateInv, StoredInv, FirstIsStored,
       PackageIsStored, CompleteIsInstalled, HeadIsSent, FileAt
<1>8. CASE MarkPackage
  <2>1. /\ pc = "mark" /\ pc' = "check" /\ head' = head /\ pages' = pages
        /\ para'.total = para.total /\ para'.missing = para.missing \ {pkg}
    BY <1>1, <1>8 DEF MarkPackage, Goes, TypeOK
  <2>2. MarkedAreStored'
    BY <1>2, <2>1 DEF DateInv, StoredInv, PackageIsStored, MarkedAreStored, Preparing
  <2> QED
    BY <2>1, <2>2, <1>2 DEF DateInv, StoredInv, FirstIsStored,
       PackageIsStored, CompleteIsInstalled, HeadIsSent, Preparing, FileAt
<1>9. CASE NotComplete
  <2>1. /\ pc = "check" /\ pc' = "idle" /\ UNCHANGED <<head, pages, para, installed>>
        /\ Missing # {} \/ ~Whole
    BY <1>9 DEF NotComplete, Goes
  <2>2. ~(head.file = Target /\ Missing = {})
    BY <1>1, <2>1, NoneMissing DEF DateInv, StoredInv, Preparing
  <2> QED BY <1>2, <2>1, <2>2, DateKept DEF Preparing
<1>10. CASE Complete
  <2>1. /\ pc = "check" /\ pc' = "reset" /\ UNCHANGED <<pages, para, installed>>
        /\ head'.file = head.file /\ head'.flag
    BY <1>1, <1>10 DEF Complete, Goes, TypeOK
  <2> QED BY <1>2, <2>1, DateKept DEF Preparing
<1>11. CASE ResetAfterUpdate
  <2>1. /\ pc = "reset" /\ pc' = "idle" /\ UNCHANGED <<pages, para>>
        /\ head'.file = head.file
        /\ installed' = IF ~head.flag THEN installed
                        ELSE IF Whole THEN head.file ELSE "mixed"
    BY <1>1, <1>11 DEF ResetAfterUpdate, Boot, TypeOK
  <2>2. Missing' = Missing
    BY <2>1 DEF Missing
  <2>3. CompleteIsInstalled'
    BY <1>2, <2>1, <2>2
    DEF DateInv, InstallInv, FlagInv, CompleteIsInstalled, Preparing
  <2> QED
    BY <2>1, <2>3, <1>2 DEF DateInv, StoredInv, MarkedAreStored, FirstIsStored,
       PackageIsStored, HeadIsSent, Preparing, FileAt
<1> QED BY <1>4, <1>5, <1>6, <1>7, <1>8, <1>9, <1>10, <1>11 DEF Handler

(* The platform goes on to a file that it has not sent before, or that it  *)
(* has not left.                                                           *)
LEMMA NextTarget ==
  ASSUME NeverReturns, TypeOK, HeadIsSent, turn < Len(Plan), turn' = turn + 1,
         head' = head, head.file = Target'
  PROVE  head.file = Target
<1>1. turn \in 1 .. Len(Plan) /\ Len(Plan) \in Nat
  BY UpdateAssumption DEF TypeOK
<1>2. /\ FileAt(turn + 1) = Target' /\ FileAt(turn) = Target
      /\ turn + 1 \in 0 .. Len(Plan) /\ turn \in 0 .. Len(Plan)
  BY <1>1 DEF FileAt, Target
<1>3. head.file # NoFile
  <2>1. Plan[turn + 1] \in Campaign
    BY <1>1, UpdateAssumption
  <2> QED BY <2>1, UpdateAssumption DEF Target, Campaign
<1>4. PICK i \in 0 .. turn : head.file = FileAt(i)
  BY <1>3 DEF HeadIsSent
<1>5. CASE i = turn
  BY <1>2, <1>4, <1>5
<1>6. CASE i < turn
  <2>1. i \in 0 .. Len(Plan) /\ turn < turn + 1
    BY <1>1
  <2> QED BY <1>2, <1>4, <1>6, <2>1 DEF NeverReturns
<1> QED BY <1>1, <1>5, <1>6

LEMMA DateStep ==
  ASSUME "torn" \notin Events, NeverReturns
  PROVE  DateInv /\ [Next]_vars => DateInv'
<1> SUFFICES ASSUME DateInv, [Next]_vars PROVE DateInv'
  OBVIOUS
<1>1. InstallInv' /\ TypeOK /\ FlagInv
  BY InstallStep DEF DateInv, InstallInv
<1>2. CASE Package8108
  BY <1>1, <1>2, DatePackage
<1>3. CASE Handler
  BY <1>1, <1>3, DateHandler
<1>4. CASE PackageLost \/ SendAgain \/ UNCHANGED vars
  <2>1. UNCHANGED <<head, pages, para, pc, pkg, installed, turn>>
    BY <1>4 DEF PackageLost, SendAgain, vars, platform
  <2>2. Target' = Target /\ Missing' = Missing
    BY <2>1 DEF Target, Missing
  <2> QED
    BY <1>1, <2>1, <2>2 DEF DateInv, StoredInv, MarkedAreStored, FirstIsStored,
       PackageIsStored, CompleteIsInstalled, HeadIsSent, FileAt
<1>5. CASE NextFile
  <2>1. /\ pc = "idle" /\ turn < Len(Plan) /\ turn' = turn + 1
        /\ UNCHANGED <<head, pages, para, pc, installed>>
    BY <1>5 DEF NextFile
  <2>2. head.file = Target' => head.file = Target
    BY <1>1, <2>1, NextTarget DEF DateInv
  <2>3. Missing' = Missing
    BY <2>1 DEF Missing
  <2>4. StoredInv' /\ CompleteIsInstalled'
    BY <2>1, <2>2, <2>3
    DEF DateInv, StoredInv, MarkedAreStored, FirstIsStored, PackageIsStored,
        CompleteIsInstalled
  <2>5. HeadIsSent'
    <3>1. turn \in Nat /\ 0 .. turn \subseteq 0 .. turn + 1
      BY <1>1, UpdateAssumption DEF TypeOK
    <3> QED BY <2>1, <3>1 DEF DateInv, HeadIsSent, FileAt
  <2> QED BY <1>1, <2>4, <2>5 DEF DateInv
<1>6. CASE PowerFails
  <2>1. ~Torn
    BY <1>6 DEF PowerFails, Happens
  <2>2. /\ pc \notin Preparing /\ ~(pc = "check" /\ Missing = {})
        /\ pc' = "idle" /\ UNCHANGED <<pages, para, turn>>
        /\ head'.file = head.file
        /\ installed' = IF ~head.flag THEN installed
                        ELSE IF Whole THEN head.file ELSE "mixed"
    BY <1>1, <1>6, <2>1 DEF PowerFails, Boot, Torn, Preparing, TypeOK
  <2>3. Target' = Target /\ Missing' = Missing
    BY <2>2 DEF Target, Missing
  <2>4. CompleteIsInstalled'
    BY <1>1, <2>2, <2>3 DEF DateInv, FlagInv, CompleteIsInstalled, Preparing
  <2> QED
    BY <1>1, <2>2, <2>3, <2>4
    DEF DateInv, StoredInv, MarkedAreStored, FirstIsStored, PackageIsStored,
        HeadIsSent, Preparing, FileAt
<1> QED BY <1>2, <1>3, <1>4, <1>5, <1>6 DEF Next

LEMMA UpToDateHasAll ==
  ASSUME DateInv, AlreadyUpdated
  PROVE  Whole /\ installed = Target
<1>1. pc = "idle" /\ head.file = Target /\ Missing = {}
  BY DEF AlreadyUpdated, Arrives, Same
<1> QED
  BY <1>1, NoneMissing
  DEF DateInv, InstallInv, StoredInv, CompleteIsInstalled, Preparing

(* The platform is told that the terminal is up to date only when all of   *)
(* the file it sends is in the flash memory (jt808_update.c:282), if the   *)
(* power does not fail while the header and the parameters disagree and    *)
(* the platform does not return to a file after a part of another one.     *)
THEOREM UpToDateIsTrue ==
  ASSUME "torn" \notin Events, NeverReturns
  PROVE  Spec => UpToDateIsWhole
<1>1. DateInv /\ [Next]_vars => [AlreadyUpdated => Whole]_vars
  BY UpToDateHasAll
<1> QED BY <1>1, DateInit, DateStep, PTL DEF Spec, UpToDateIsWhole

(* And, on the same conditions, only when the terminal runs that file: an  *)
(* update is never refused that was not installed.                         *)
THEOREM UpToDateIsRunning ==
  ASSUME "torn" \notin Events, NeverReturns
  PROVE  Spec => UpToDateIsInstalled
<1>1. DateInv /\ [Next]_vars => [AlreadyUpdated => installed = Target]_vars
  BY UpToDateHasAll
<1> QED BY <1>1, DateInit, DateStep, PTL DEF Spec, UpToDateIsInstalled

=============================================================================
