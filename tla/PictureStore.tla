----------------------------- MODULE PictureStore -----------------------------
(***************************************************************************)
(* The pictures in the flash memory (camera.c): a ring of sectors in which *)
(* a picture takes one sector or more and begins with a header.  The rs485 *)
(* thread stores a picture the camera has taken (Cam_Flash_SavePic) and    *)
(* reads the whole ring again (Cam_Flash_InitPara); the gsm and the jt808  *)
(* thread search it and mark what the platform confirmed.  sem_dataflash   *)
(* guards the flash memory, nothing guards the summary DF_PicParam.        *)
(***************************************************************************)
EXTENDS Naturals, FiniteSets

CONSTANTS
  Sectors,  \* ADDR_DF_CAM_SECT
  MaxPics,  \* bound: the pictures of a behaviour
  Layouts   \* the sectors they take, one number for each picture

ASSUME RingAssumption ==
  /\ Sectors \in Nat \ {0} /\ MaxPics \in Nat
  /\ Layouts \subseteq [1 .. MaxPics -> 1 .. Sectors] /\ Layouts # {}

VARIABLES
  flash,    \* the sectors: which picture begins there, is it untransmitted
  number,   \* DF_PicParam.Number
  notsend,  \* DF_PicParam.NotSendCounter
  first,    \* DF_PicParam.First
  last,     \* DF_PicParam.Last
  save,     \* where the rs485 thread is in Cam_Flash_SavePic
  size      \* the sectors of each picture, Len of its header; never changes

para == <<number, notsend, first, last>>
storevars == <<flash, para, save, size>>

Sector == 0 .. Sectors - 1
Ids == 1 .. MaxPics

(* No header is 0 here; First.Data_ID = 0xFFFFFFFF is greater than any id. *)
NoHead == [id |-> 0, unsent |-> TRUE]
NoId == MaxPics + 1

SaveSteps == {"idle", "erase", "write", "reset", "scan", "taken"}
Idle == [pc |-> "idle", addr |-> 0, left |-> 0]

StoreTypeOK ==
  /\ flash \in [Sector -> [id : 0 .. MaxPics, unsent : BOOLEAN]]
  /\ number \in Nat /\ notsend \in Nat
  /\ first \in [addr : Sector, id : Ids \cup {NoId}]
  /\ last \in [addr : Sector, id : 0 .. MaxPics, len : 0 .. Sectors]
  /\ save \in [pc : SaveSteps, addr : Sector, left : 0 .. Sectors]
  /\ size \in [Ids -> 1 .. Sectors]

IsHead(a) == a \in Sector /\ flash[a].id # 0
Untransmitted(a) == IsHead(a) /\ flash[a].unsent

-----------------------------------------------------------------------------
(* Reading the ring. *)

(* The addresses a search reads that starts at a: behind a picture whose   *)
(* header it finds, else the next sector.                                  *)
Behind(a) == IF IsHead(a) THEN a + size[flash[a].id] ELSE a + 1
Steps(a) ==
  LET at[k \in Nat] == IF k = 0 THEN a ELSE Behind(at[k - 1]) IN at

(* Cam_Flash_InitPara and Cam_Flash_FindPicID read from the start of the   *)
(* ring to its end.                                                        *)
Found == {a \in Sector : IsHead(a) /\ \E k \in Sector : Steps(0)[k] = a}

(* DF_PicParam from the pictures of a scan, at first as if there are none. *)
Cleared ==
  /\ number' = 0 /\ notsend' = 0
  /\ first' = [addr |-> 0, id |-> NoId]
  /\ last' = [addr |-> 0, id |-> 0, len |-> 0]

Scanned ==
  IF Found = {} THEN Cleared
  ELSE LET old == CHOOSE a \in Found : \A b \in Found : flash[a].id <= flash[b].id
           new == CHOOSE a \in Found : \A b \in Found : flash[b].id <= flash[a].id
       IN /\ number' = Cardinality(Found)
          /\ notsend' = Cardinality({a \in Found : flash[a].unsent})
          /\ first' = [addr |-> old, id |-> flash[old].id]
          /\ last' = [addr |-> new, id |-> flash[new].id, len |-> size[flash[new].id]]

Places(id) == {a \in Found : flash[a].id = id}

(* A mutant of FindPicID: the oldest picture is not in the range. *)
FindPicIDBehindFirst(id) ==
  /\ number # 0 /\ first.id < id /\ id <= last.id
  /\ Places(id) # {}

(* Cam_Flash_FindPicID: a scan, if the summary knows of pictures at all.   *)
FindPicID(id) ==
  /\ number # 0 /\ first.id <= id /\ id <= last.id
  /\ Places(id) # {}

(* Cam_Flash_SearchPicHead for the untransmitted ones: it starts at the    *)
(* oldest picture and reads as many headers as there are pictures, but it  *)
(* does not go on at the start of the ring when it reaches the end.        *)
Hits == {k \in 0 .. number - 1 : Untransmitted(Steps(first.addr)[k])}
Reachable(a) == \E k \in Hits : Steps(first.addr)[k] = a
SearchPicHead ==
  Steps(first.addr)[CHOOSE k \in Hits : \A j \in Hits : k <= j]

-----------------------------------------------------------------------------
(* Cam_Flash_SavePic, in the rs485 thread.                                 *)

(* The flash memory is taken: SavePic has sem_dataflash. *)
Storing == save.pc \in {"erase", "write"}

NextAddr == (last.addr + last.len) % Sectors

(* The summary is changed before the semaphore is taken. *)
SaveBegin ==
  /\ save.pc = "idle" /\ last.id < MaxPics
  /\ last' = [addr |-> NextAddr, id |-> last.id + 1, len |-> size[last.id + 1]]
  /\ number' = number + 1 /\ notsend' = notsend + 1
  /\ save' = [pc |-> "erase", addr |-> NextAddr, left |-> size[last.id + 1]]
  /\ UNCHANGED <<flash, first, size>>

SaveErase ==
  /\ save.pc = "erase"
  /\ flash' = [flash EXCEPT ![save.addr] = NoHead]
  /\ save' = [save EXCEPT !.pc = "write"]
  /\ UNCHANGED <<para, size>>

(* A mutant of NextSector: the end of the ring is not checked. *)
NextSectorUnwrapped(a) == a + 1

(* Cam_Flash_AddrCheck *)
NextSector(a) == (a + 1) % Sectors

(* The header is at the beginning of the first sector. *)
SaveWrite ==
  /\ save.pc = "write"
  /\ flash' = IF save.left = size[last.id]
              THEN [flash EXCEPT ![save.addr] = [id |-> last.id, unsent |-> TRUE]]
              ELSE flash
  /\ save' = IF save.left > 1
             THEN [pc |-> "erase", addr |-> NextSector(save.addr), left |-> save.left - 1]
             ELSE [save EXCEPT !.pc = "reset"]
  /\ UNCHANGED <<para, size>>

(* Cam_Flash_InitPara clears the summary, waits for the flash memory and   *)
(* reads it.                                                               *)
SaveReset ==
  /\ save.pc = "reset"
  /\ Cleared
  /\ save' = [save EXCEPT !.pc = "scan"]
  /\ UNCHANGED <<flash, size>>

SaveScan ==
  /\ save.pc = "scan"
  /\ Scanned
  /\ save' = [save EXCEPT !.pc = "taken"]
  /\ UNCHANGED <<flash, size>>

SaveStep == SaveErase \/ SaveWrite \/ SaveReset \/ SaveScan

-----------------------------------------------------------------------------

(* A mutant of TransOkSet: a picture that is transmitted counts again. *)
TransOkSetAgain(id) ==
  IF FindPicID(id)
  THEN /\ flash' = [a \in Sector |-> IF a \in Places(id)
                                     THEN [flash[a] EXCEPT !.unsent = FALSE]
                                     ELSE flash[a]]
       /\ notsend' = IF notsend > 0 THEN notsend - 1 ELSE 0
  ELSE UNCHANGED <<flash, notsend>>

(* Cam_Flash_TransOkSet: the picture is transmitted. *)
TransOkSet(id) ==
  IF FindPicID(id) /\ \E a \in Places(id) : flash[a].unsent
  THEN /\ \E a \in Places(id) :
            flash[a].unsent /\ flash' = [flash EXCEPT ![a].unsent = FALSE]
       /\ notsend' = IF notsend > 0 THEN notsend - 1 ELSE 0
  ELSE UNCHANGED <<flash, notsend>>

StoreInit ==
  /\ flash = [a \in Sector |-> NoHead]
  /\ number = 0 /\ notsend = 0
  /\ first = [addr |-> 0, id |-> NoId]
  /\ last = [addr |-> 0, id |-> 0, len |-> 0]
  /\ save = Idle
  /\ size \in Layouts

(* A reset of the processor or a loss of power: Cam_Device_init reads the  *)
(* ring before the threads start.                                          *)
StoreRestart ==
  /\ Scanned
  /\ save' = Idle
  /\ UNCHANGED <<flash, size>>

=============================================================================
