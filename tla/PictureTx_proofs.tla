--------------------------- MODULE PictureTx_proofs ---------------------------
(***************************************************************************)
(* Theorems about PictureTx and PictureStore, for every size of the ring,  *)
(* every number of pictures and of blocks.                                 *)
(***************************************************************************)
EXTENDS PictureTx, FiniteSetTheorems, WellFoundedInduction, TLAPS

(* A set of numbers that is not empty has a smallest one. *)
LEMMA SmallestOf ==
  ASSUME NEW T, T \subseteq Nat, T # {}
  PROVE  \E x \in T : \A y \in T : x <= y
<1>1. PICK x \in T : \A y \in T : ~ (<<y, x>> \in OpToRel(<, Nat))
  BY WFMin, NatLessThanWellFounded
<1>2. \A y \in T : ~ (y < x)
  BY <1>1 DEF OpToRel
<1> QED BY <1>2

LEMMA ProductGrows ==
  ASSUME NEW a \in Nat, NEW b \in Nat, NEW p \in Nat \ {0}, a <= b, a # 0
  PROVE  a * p \in 1 .. b * p
<1>1. PICK d \in Nat : b = a + d
  <2>1. b - a \in Nat /\ b = a + (b - a)
    OBVIOUS
  <2> QED BY <2>1
<1>2. b * p = a * p + d * p
  BY <1>1
<1>3. a * p \in Nat /\ d * p \in Nat /\ a * p >= 1
  OBVIOUS
<1> QED BY <1>2, <1>3

LEMMA PacketFacts ==
  /\ Sectors * PerSector \in Nat \ {0} /\ AnyPacket \subseteq Sn
  /\ StoreTypeOK => \A id \in Ids :
       /\ PacketNum(id) \in AnyPacket
       /\ Packets(id) \subseteq AnyPacket /\ Packets(id) # {}
<1>1. Sectors \in Nat \ {0} /\ PerSector \in Nat \ {0}
  BY RingAssumption, PictureAssumption
<1>2. Sectors * PerSector \in 1 .. Sectors * PerSector
  BY <1>1, ProductGrows
<1>3. AnyPacket \subseteq Sn
  BY <1>2, PictureAssumption DEF AnyPacket, Sn
<1>4. ASSUME StoreTypeOK, NEW id \in Ids
      PROVE  /\ PacketNum(id) \in AnyPacket
             /\ Packets(id) \subseteq AnyPacket /\ Packets(id) # {}
  <2>1. PICK s \in Nat : s = size[id] /\ s # 0 /\ s <= Sectors
    BY <1>4, <1>1 DEF StoreTypeOK
  <2>2. PICK k \in Nat : k = PacketNum(id) /\ k \in 1 .. Sectors * PerSector
    BY <2>1, <1>1, ProductGrows DEF PacketNum
  <2>3. Packets(id) = 1 .. k /\ 1 \in 1 .. k
    BY <2>2 DEF Packets
  <2> QED BY <2>2, <2>3, <1>2 DEF AnyPacket
<1> QED BY <1>2, <1>3, <1>4

-----------------------------------------------------------------------------
(* The ring of pictures keeps its types. *)

LEMMA FoundFacts ==
  ASSUME StoreTypeOK
  PROVE  /\ Found \subseteq Sector /\ IsFiniteSet(Found)
         /\ Cardinality(Found) \in Nat
         /\ \A U \in SUBSET Found : Cardinality(U) \in Nat
         /\ \A a \in Found : flash[a].id \in Ids
<1>1. Found \subseteq Sector
  BY DEF Found
<1>2. IsFiniteSet(Sector)
  BY RingAssumption, FS_Interval DEF Sector
<1>3. \A U \in SUBSET Found : IsFiniteSet(U) /\ Cardinality(U) \in Nat
  BY <1>1, <1>2, FS_Subset, FS_CardinalityType
<1>4. \A a \in Found : flash[a].id \in 0 .. MaxPics /\ flash[a].id # 0
  BY <1>1 DEF Found, IsHead, StoreTypeOK
<1> QED BY <1>1, <1>3, <1>4, RingAssumption DEF Ids

LEMMA FoundPictureIsOne ==
  ASSUME StoreTypeOK, NEW id, FindPicID(id)
  PROVE  id \in Ids
BY FoundFacts DEF FindPicID, Places

LEMMA ClearedType ==
  ASSUME StoreTypeOK, Cleared
  PROVE  /\ number' \in Nat /\ notsend' \in Nat
         /\ first' \in [addr : Sector, id : Ids \cup {NoId}]
         /\ last' \in [addr : Sector, id : 0 .. MaxPics, len : 0 .. Sectors]
BY RingAssumption DEF Cleared, Sector

LEMMA ScannedType ==
  ASSUME StoreTypeOK, Scanned
  PROVE  /\ number' \in Nat /\ notsend' \in Nat
         /\ first' \in [addr : Sector, id : Ids \cup {NoId}]
         /\ last' \in [addr : Sector, id : 0 .. MaxPics, len : 0 .. Sectors]
<1>1. CASE Found = {}
  BY <1>1, ClearedType DEF Scanned
<1>2. CASE Found # {}
  <2> DEFINE ids == {flash[a].id : a \in Found}
             ranks == {MaxPics - i : i \in ids}
             old == CHOOSE a \in Found : \A b \in Found : flash[a].id <= flash[b].id
             new == CHOOSE a \in Found : \A b \in Found : flash[b].id <= flash[a].id
  <2>1. \A a \in Found : flash[a].id \in Ids
    BY FoundFacts
  <2>2. ids \subseteq Ids /\ ids # {}
    BY <1>2, <2>1
  <2>3. \A a \in Found : flash[a].id \in ids
    OBVIOUS
  <2>4. \A i \in ids : \E a \in Found : i = flash[a].id
    OBVIOUS
  <2> HIDE DEF ids
  <2>5. PICK i \in ids : \A j \in ids : i <= j
    <3>1. ids \subseteq Nat
      BY <2>2 DEF Ids
    <3> QED BY <3>1, <2>2, SmallestOf
  <2>6. PICK r \in ranks : \A s \in ranks : r <= s
    <3>1. \A j \in ids : MaxPics - j \in Nat
      BY <2>2, RingAssumption DEF Ids
    <3>2. ranks \subseteq Nat /\ ranks # {}
      BY <2>2, <3>1
    <3> QED BY <3>2, SmallestOf
  <2>7. PICK k \in ids : r = MaxPics - k
    BY <2>6
  <2>8. \A j \in ids : j <= k
    <3>1. \A j \in ids : MaxPics - k <= MaxPics - j
      BY <2>6, <2>7
    <3> QED BY <3>1, <2>2, RingAssumption DEF Ids
  <2>9. \E a \in Found : \A b \in Found : flash[a].id <= flash[b].id
    BY <2>3, <2>4, <2>5
  <2>10. \E a \in Found : \A b \in Found : flash[b].id <= flash[a].id
    BY <2>3, <2>4, <2>8
  <2>11. old \in Found /\ new \in Found
    BY <2>9, <2>10
  <2>12. /\ number' = Cardinality(Found)
         /\ notsend' = Cardinality({a \in Found : flash[a].unsent})
         /\ first' = [addr |-> old, id |-> flash[old].id]
         /\ last' = [addr |-> new, id |-> flash[new].id, len |-> size[flash[new].id]]
    BY <1>2 DEF Scanned
  <2> HIDE DEF old, new
  <2>13. /\ old \in Sector /\ new \in Sector /\ flash[old].id \in Ids
         /\ flash[new].id \in Ids /\ size[flash[new].id] \in 0 .. Sectors
    BY <2>11, FoundFacts DEF StoreTypeOK
  <2> QED BY <2>12, <2>13, FoundFacts DEF Ids
<1> QED BY <1>1, <1>2

LEMMA NextPlaces ==
  ASSUME StoreTypeOK
  PROVE  NextAddr \in Sector /\ \A a \in Sector : NextSector(a) \in Sector
<1>1. /\ Sectors \in Nat \ {0} /\ last.addr \in Nat /\ last.len \in Nat
  BY RingAssumption DEF StoreTypeOK, Sector
<1>2. PICK k \in Nat : k = last.addr + last.len
  BY <1>1
<1>3. \A m \in Nat : m % Sectors \in Sector
  BY <1>1 DEF Sector
<1>4. \A a \in Sector : a + 1 \in Nat
  BY <1>1 DEF Sector
<1> QED BY <1>2, <1>3, <1>4 DEF NextAddr, NextSector

LEMMA SaveType ==
  ASSUME StoreTypeOK, SaveBegin \/ SaveStep
  PROVE  StoreTypeOK'
<1>1. CASE SaveBegin
  <2>1. PICK i \in Nat : i = last.id + 1 /\ i \in Ids
    BY <1>1, RingAssumption DEF SaveBegin, StoreTypeOK, Ids
  <2>2. size[i] \in 1 .. Sectors /\ NextAddr \in Sector
    BY <2>1, NextPlaces DEF StoreTypeOK
  <2>3. PICK l \in 1 .. Sectors : l = size[i]
    BY <2>2
  <2>4. /\ last' = [addr |-> NextAddr, id |-> i, len |-> l]
        /\ save' = [pc |-> "erase", addr |-> NextAddr, left |-> l]
        /\ number' = number + 1 /\ notsend' = notsend + 1
        /\ UNCHANGED <<flash, first, size>>
    BY <1>1, <2>1, <2>3 DEF SaveBegin
  <2>5. i \in 0 .. MaxPics /\ l \in 0 .. Sectors /\ "erase" \in SaveSteps
    BY <2>1, <2>3, RingAssumption DEF Ids, SaveSteps
  <2> QED BY <2>2, <2>4, <2>5 DEF StoreTypeOK
<1>2. CASE SaveErase
  <2>1. NoHead \in [id : 0 .. MaxPics, unsent : BOOLEAN] /\ "write" \in SaveSteps
    BY RingAssumption DEF NoHead, SaveSteps
  <2> QED BY <1>2, <2>1 DEF SaveErase, para, StoreTypeOK
<1>3. CASE SaveWrite
  <2>1. [id |-> last.id, unsent |-> TRUE] \in [id : 0 .. MaxPics, unsent : BOOLEAN]
    BY DEF StoreTypeOK
  <2>2. flash' \in [Sector -> [id : 0 .. MaxPics, unsent : BOOLEAN]]
    BY <1>3, <2>1 DEF SaveWrite, StoreTypeOK
  <2>3. PICK l \in 0 .. Sectors : l = save.left
    BY DEF StoreTypeOK
  <2>4. save' \in [pc : SaveSteps, addr : Sector, left : 0 .. Sectors]
    <3>1. CASE l > 1
      <4>1. l - 1 \in 0 .. Sectors
        BY <3>1, <2>3, RingAssumption
      <4>2. NextSector(save.addr) \in Sector
        BY NextPlaces DEF StoreTypeOK
      <4>3. save' = [pc |-> "erase", addr |-> NextSector(save.addr), left |-> l - 1]
        BY <1>3, <3>1, <2>3 DEF SaveWrite
      <4> QED BY <4>1, <4>2, <4>3 DEF SaveSteps
    <3>2. CASE ~(l > 1)
      <4>1. save' = [save EXCEPT !.pc = "reset"]
        BY <1>3, <3>2, <2>3 DEF SaveWrite
      <4> QED BY <4>1 DEF StoreTypeOK, SaveSteps
    <3> QED BY <3>1, <3>2
  <2> QED BY <1>3, <2>2, <2>4 DEF SaveWrite, para, StoreTypeOK
<1>4. CASE SaveReset
  BY <1>4, ClearedType DEF SaveReset, StoreTypeOK, SaveSteps
<1>5. CASE SaveScan
  BY <1>5, ScannedType DEF SaveScan, StoreTypeOK, SaveSteps
<1> QED BY <1>1, <1>2, <1>3, <1>4, <1>5 DEF SaveStep

LEMMA TransOkType ==
  ASSUME StoreTypeOK, NEW id, TransOkSet(id)
  PROVE  /\ flash' \in [Sector -> [id : 0 .. MaxPics, unsent : BOOLEAN]]
         /\ notsend' \in Nat
<1>1. CASE UNCHANGED <<flash, notsend>>
  BY <1>1 DEF StoreTypeOK
<1>2. CASE ~UNCHANGED <<flash, notsend>>
  <2>1. notsend' = (IF notsend > 0 THEN notsend - 1 ELSE 0) /\ notsend \in Nat
    BY <1>2 DEF TransOkSet, StoreTypeOK
  <2>2. PICK a \in Places(id) : flash' = [flash EXCEPT ![a].unsent = FALSE]
    BY <1>2 DEF TransOkSet
  <2>3. a \in Sector
    BY FoundFacts DEF Places
  <2>4. [flash[a] EXCEPT !.unsent = FALSE] \in [id : 0 .. MaxPics, unsent : BOOLEAN]
    BY <2>3 DEF StoreTypeOK
  <2> QED BY <2>1, <2>2, <2>3, <2>4 DEF StoreTypeOK
<1> QED BY <1>1, <1>2

LEMMA SearchFindsPicture ==
  ASSUME StoreTypeOK, Hits # {}
  PROVE  flash[SearchPicHead].id \in Ids
<1>1. Hits \subseteq Nat
  BY DEF Hits, StoreTypeOK
<1>2. \E k \in Hits : \A j \in Hits : k <= j
  BY <1>1, SmallestOf
<1>3. (CHOOSE k \in Hits : \A j \in Hits : k <= j) \in Hits
  BY <1>2
<1>4. Untransmitted(SearchPicHead)
  BY <1>3 DEF Hits, SearchPicHead
<1> QED BY <1>4, RingAssumption DEF Untransmitted, IsHead, StoreTypeOK, Ids

-----------------------------------------------------------------------------
(* The list links live blocks, once each; a block in use holds a picture,  *)
(* and a packet of it has its number.                                      *)

HoldsPicture(m) ==
  /\ m.cmd # "none" => m.pic \in Ids
  /\ m.cmd = "data" => m.sn \in AnyPacket

GoodBlock(b) ==
  b \in Block /\ HoldsPicture(b) /\ (b.state # "FREE" => b.cmd # "none")

ListInv ==
  /\ heap \in [Node -> Block] /\ list \in Seq(Node)
  /\ \A n \in Node : GoodBlock(heap[n])
  /\ \A i \in DOMAIN list : heap[list[i]].state # "FREE"
  /\ \A i, j \in DOMAIN list : list[i] = list[j] => i = j

WireInv ==
  /\ wire \in Message /\ HoldsPicture(wire)
  /\ gpc # "idle" => list # <<>>
  /\ gpc = "write" => wire.cmd # "none"

LEMMA FreeIsGood == GoodBlock(FreeBlock) /\ FreeBlock.state = "FREE"
<1>1. 0 \in 0 .. MaxPics /\ 0 \in Sn /\ 0 \in 0 .. Sectors * PerSector + 1
  BY RingAssumption, PictureAssumption, PacketFacts DEF Sn
<1> QED BY <1>1 DEF GoodBlock, HoldsPicture, FreeBlock, Block

(* A block of the heap gets another content. *)
LEMMA BlockChanges ==
  ASSUME ListInv, NEW n \in Node, NEW b, GoodBlock(b),
         heap' = [heap EXCEPT ![n] = b], list' = list,
         b.state = "FREE" => heap[n].state = "FREE"
  PROVE  ListInv'
<1>1. /\ heap' \in [Node -> Block]
      /\ \A m \in Node : heap'[m] = IF m = n THEN b ELSE heap[m]
  BY DEF ListInv, GoodBlock
<1>2. \A m \in Node : GoodBlock(heap'[m])
  BY <1>1 DEF ListInv
<1>3. \A i \in DOMAIN list : list[i] \in Node /\ heap'[list[i]].state # "FREE"
  BY <1>1 DEF ListInv
<1> QED BY <1>1, <1>2, <1>3 DEF ListInv

(* What a handler writes to its block, which may be freed already. *)
LEMMA BecomesKeeps ==
  ASSUME ListInv, NEW n \in Node, NEW b, Becomes(n, b), list' = list,
         heap[n].state # "FREE" => GoodBlock(b) /\ b.state # "FREE"
  PROVE  ListInv'
<1> DEFINE c == IF heap[n].state = "FREE" THEN FreeBlock ELSE b
<1>1. heap' = [heap EXCEPT ![n] = c]
  BY DEF Becomes, ListInv
<1>2. GoodBlock(c) /\ (c.state = "FREE" => heap[n].state = "FREE")
  BY FreeIsGood
<1> HIDE DEF c
<1> QED BY <1>1, <1>2, BlockChanges

(* The first block is a live one. *)
LEMMA FirstIsLive ==
  ASSUME ListInv, list # <<>>
  PROVE  /\ First \in Node /\ First = list[1] /\ 1 \in DOMAIN list
         /\ GoodBlock(heap[First]) /\ heap[First].state # "FREE"
         /\ heap[First].cmd # "none"
BY DEF ListInv, First, GoodBlock

(* A new block gets a place in the list. *)
LEMMA InsertKeeps ==
  ASSUME ListInv, NEW n \in Node, heap[n].state = "FREE",
         heap' \in [Node -> Block], \A m \in Node : GoodBlock(heap'[m]),
         heap'[n].state # "FREE",
         \A m \in Node : heap[m].state # "FREE" => heap'[m].state # "FREE",
         NEW k \in 1 .. Len(list) + 1,
         list' \in Seq(Node), Len(list') = Len(list) + 1, list'[k] = n,
         \A i \in 1 .. k - 1 : list'[i] = list[i],
         \A i \in k .. Len(list) : list'[i + 1] = list[i]
  PROVE  ListInv'
<1> DEFINE len == Len(list)
           old(i) == IF i < k THEN i ELSE i - 1
<1>1. /\ len \in Nat /\ DOMAIN list = 1 .. len /\ DOMAIN list' = 1 .. len + 1
      /\ \A i \in 1 .. len : list[i] \in Node /\ list[i] # n
  BY DEF ListInv
<1>2. \A i \in 1 .. len + 1 : i # k => old(i) \in 1 .. len /\ list'[i] = list[old(i)]
  <2>1. ASSUME NEW i \in 1 .. len + 1, i # k
        PROVE  old(i) \in 1 .. len /\ list'[i] = list[old(i)]
    <3>1. CASE i < k
      BY <1>1, <2>1, <3>1
    <3>2. CASE i > k
      <4>1. i - 1 \in k .. len /\ (i - 1) + 1 = i
        BY <1>1, <2>1, <3>2
      <4> QED BY <1>1, <3>2, <4>1
    <3> QED BY <1>1, <2>1, <3>1, <3>2
  <2> QED BY <2>1
<1>3. \A i, j \in 1 .. len + 1 : i # k /\ j # k /\ old(i) = old(j) => i = j
  BY <1>1
<1> HIDE DEF old
<1>4. ASSUME NEW i \in 1 .. len + 1 PROVE heap'[list'[i]].state # "FREE"
  BY <1>1, <1>2 DEF ListInv
<1>5. ASSUME NEW i \in 1 .. len + 1, NEW j \in 1 .. len + 1, list'[i] = list'[j]
      PROVE  i = j
  BY <1>1, <1>2, <1>3, <1>5 DEF ListInv
<1> QED BY <1>1, <1>4, <1>5 DEF ListInv

(* The packets of a block: NextPacket takes the first one that is marked.  *)
LEMMA NextPacketKeeps ==
  ASSUME NEW b, GoodBlock(b), b.cmd # "none"
  PROVE  /\ GoodBlock(NextPacket(b)) /\ NextPacket(b).cmd = b.cmd
         /\ b.state # "FREE" => NextPacket(b).state # "FREE"
<1>1. CASE b.marks = {}
  BY <1>1 DEF NextPacket
<1>2. CASE b.marks # {}
  <2> DEFINE p == CHOOSE p \in b.marks : \A q \in b.marks : p <= q
  <2>1. b \in Block /\ b.marks \subseteq AnyPacket
    BY DEF GoodBlock, Block
  <2>2. AnyPacket \subseteq Nat
    BY PacketFacts DEF AnyPacket
  <2>3. p \in b.marks
    <3>1. \E x \in b.marks : \A q \in b.marks : x <= q
      BY <1>2, <2>1, <2>2, SmallestOf
    <3> QED BY <3>1
  <2>4. NextPacket(b) = [b EXCEPT !.sn = p, !.no = p, !.marks = @ \ {p}, !.retry = 0,
                                  !.state = "IDLE"]
    BY <1>2 DEF NextPacket
  <2> HIDE DEF p
  <2>5. p \in AnyPacket /\ p \in Sn /\ p \in 0 .. Sectors * PerSector + 1
    BY <2>1, <2>3, PacketFacts DEF AnyPacket
  <2>6. PICK marks \in SUBSET AnyPacket : marks = b.marks \ {p}
    BY <2>1
  <2>7. NextPacket(b) = [b EXCEPT !.sn = p, !.no = p, !.marks = marks, !.retry = 0,
                                  !.state = "IDLE"]
    BY <2>4, <2>6
  <2>8. NextPacket(b) \in Block
    <3>1. /\ b.cmd \in {"none", "announce", "data"} /\ b.pic \in 0 .. MaxPics
          /\ b.para \in {"none", "held", "freed"} /\ 0 \in 0 .. 3
      BY <2>1 DEF Block
    <3>2. NextPacket(b) = [cmd |-> b.cmd, pic |-> b.pic, sn |-> p, state |-> "IDLE",
                           retry |-> 0, no |-> p, marks |-> marks, para |-> b.para]
      BY <2>1, <2>7 DEF Block
    <3> QED BY <2>5, <3>1, <3>2 DEF Block
  <2>9. /\ NextPacket(b).sn = p /\ NextPacket(b).cmd = b.cmd
        /\ NextPacket(b).pic = b.pic /\ NextPacket(b).state = "IDLE"
    BY <2>1, <2>7 DEF Block
  <2> QED BY <2>5, <2>8, <2>9 DEF GoodBlock, HoldsPicture
<1> QED BY <1>1, <1>2

(* A new block 0x0801 holds the first packet of the picture. *)
LEMMA LoadedIsGood ==
  ASSUME StoreTypeOK, NEW id \in Ids
  PROVE  GoodBlock(Loaded(id)) /\ Loaded(id).state # "FREE"
<1> DEFINE b == [FreeBlock EXCEPT !.cmd = "data", !.pic = id, !.state = "IDLE",
                                  !.marks = Packets(id), !.para = "held"]
           c == [b EXCEPT !.sn = PacketNum(id)]
<1>1. /\ PacketNum(id) \in AnyPacket /\ PacketNum(id) \in Sn
      /\ Packets(id) \subseteq AnyPacket /\ Packets(id) # {}
  BY PacketFacts
<1>2. id \in 0 .. MaxPics
  BY RingAssumption DEF Ids
<1>3. FreeBlock \in Block
  BY FreeIsGood DEF GoodBlock
<1>4. c \in Block /\ c.cmd = "data" /\ c.pic = id /\ c.sn = PacketNum(id)
      /\ c.state = "IDLE" /\ b.marks = Packets(id) /\ c.marks = Packets(id)
  BY <1>1, <1>2, <1>3 DEF Block
<1>5. GoodBlock(c)
  BY <1>1, <1>4 DEF GoodBlock, HoldsPicture
<1>6. NextPacket(b) = NextPacket(c)
  <2> DEFINE p == CHOOSE p \in Packets(id) : \A q \in Packets(id) : p <= q
  <2>1. NextPacket(b) = [b EXCEPT !.sn = p, !.no = p, !.marks = @ \ {p}, !.retry = 0,
                                  !.state = "IDLE"]
    BY <1>1, <1>4 DEF NextPacket
  <2>2. NextPacket(c) = [c EXCEPT !.sn = p, !.no = p, !.marks = @ \ {p}, !.retry = 0,
                                  !.state = "IDLE"]
    BY <1>1, <1>4 DEF NextPacket
  <2>3. PICK marks : marks = Packets(id) \ {p}
    OBVIOUS
  <2> HIDE DEF p
  <2>4. NextPacket(b) = [cmd |-> "data", pic |-> id, sn |-> p, state |-> "IDLE",
                         retry |-> 0, no |-> p, marks |-> marks, para |-> "held"]
    BY <2>1, <2>3 DEF FreeBlock
  <2>5. NextPacket(c) = [cmd |-> "data", pic |-> id, sn |-> p, state |-> "IDLE",
                         retry |-> 0, no |-> p, marks |-> marks, para |-> "held"]
    BY <2>2, <2>3 DEF FreeBlock
  <2> QED BY <2>4, <2>5
<1>7. Loaded(id) = NextPacket(b)
  BY DEF Loaded
<1> HIDE DEF b, c
<1> QED BY <1>4, <1>5, <1>6, <1>7, NextPacketKeeps

LEMMA NewSnIsSn == \A sn : NewSn(sn) => sn \in Sn
BY DEF NewSn

LEMMA AnnounceKeeps ==
  ASSUME ListInv, StoreTypeOK, NEW id, Announce(id)
  PROVE  ListInv' /\ (list # <<>> => list' # <<>>)
<1>1. CASE UNCHANGED <<heap, list>>
  BY <1>1 DEF ListInv
<1>2. CASE ~UNCHANGED <<heap, list>>
  <2>1. PICK n \in FreeNodes, sn \in Sn :
          /\ heap' = [heap EXCEPT ![n] =
               [FreeBlock EXCEPT !.cmd = "announce", !.pic = id, !.sn = sn,
                                 !.state = "IDLE", !.para = "held"]]
          /\ list' = Append(list, n)
    BY <1>2 DEF Announce
  <2>2. id \in Ids /\ id \in 0 .. MaxPics
    <3>1. FindPicID(id)
      BY <1>2 DEF Announce
    <3> QED BY <3>1, FoundPictureIsOne, RingAssumption DEF Ids
  <2> DEFINE b == [FreeBlock EXCEPT !.cmd = "announce", !.pic = id, !.sn = sn,
                                    !.state = "IDLE", !.para = "held"]
  <2>3. FreeBlock \in Block
    BY FreeIsGood DEF GoodBlock
  <2>4. GoodBlock(b) /\ b.state = "IDLE"
    BY <2>2, <2>3 DEF GoodBlock, HoldsPicture, Block
  <2>5. heap' = [heap EXCEPT ![n] = b]
    BY <2>1
  <2> HIDE DEF b
  <2>6. n \in Node /\ heap[n].state = "FREE"
    BY DEF FreeNodes
  <2>7. /\ heap' \in [Node -> Block]
        /\ \A m \in Node : heap'[m] = IF m = n THEN b ELSE heap[m]
    BY <2>4, <2>5, <2>6 DEF ListInv, GoodBlock
  <2>8. /\ list' \in Seq(Node) /\ Len(list') = Len(list) + 1 /\ Len(list) \in Nat
        /\ list'[Len(list) + 1] = n /\ \A i \in 1 .. Len(list) : list'[i] = list[i]
    BY <2>1, <2>6 DEF ListInv
  <2>9. /\ \A m \in Node : GoodBlock(heap'[m])
        /\ \A m \in Node : heap[m].state # "FREE" => heap'[m].state # "FREE"
        /\ heap'[n].state # "FREE"
    BY <2>4, <2>6, <2>7 DEF ListInv
  <2>10. PICK k \in 1 .. Len(list) + 1 : k = Len(list) + 1
    BY <2>8
  <2>11. /\ \A i \in 1 .. k - 1 : list'[i] = list[i]
         /\ \A i \in k .. Len(list) : list'[i + 1] = list[i]
         /\ list'[k] = n
    BY <2>8, <2>10
  <2>12. ListInv'
    BY <2>6, <2>7, <2>8, <2>9, <2>11, InsertKeeps
  <2> QED BY <2>8, <2>12
<1> QED BY <1>1, <1>2

LEMMA StartDataKeeps ==
  ASSUME ListInv, StoreTypeOK, NEW n \in Node, StartData(n)
  PROVE  ListInv' /\ (list # <<>> => list' # <<>>)
<1> DEFINE b == IF heap[n].state = "FREE" THEN FreeBlock
                ELSE [heap[n] EXCEPT !.state = "ACK_OK"]
           done == [heap EXCEPT ![n] = b]
<1>1. GoodBlock(heap[n]) /\ heap[n] \in Block
  BY DEF ListInv, GoodBlock
<1>2. GoodBlock(b) /\ (b.state = "FREE" <=> heap[n].state = "FREE")
  BY <1>1, FreeIsGood DEF GoodBlock, HoldsPicture, Block
<1>3. [heap EXCEPT ![n] = IF @.state = "FREE" THEN FreeBlock
                          ELSE [@ EXCEPT !.state = "ACK_OK"]] = done
  BY DEF ListInv
<1> HIDE DEF b
<1>4. /\ done \in [Node -> Block] /\ \A m \in Node : GoodBlock(done[m])
      /\ \A m \in Node : done[m].state = "FREE" <=> heap[m].state = "FREE"
  BY <1>2 DEF ListInv, GoodBlock
<1>5. CASE heap' = done /\ UNCHANGED list
  BY <1>2, <1>5, BlockChanges
<1>6. CASE ~(heap' = done /\ UNCHANGED list)
  <2> DEFINE id == heap[n].pic
  <2>1. /\ FindPicID(id)
        /\ \E m \in FreeNodes :
             /\ heap' = [done EXCEPT ![m] = Loaded(id)]
             /\ list' = IF list = <<>> THEN <<m>> ELSE <<First, m>> \o Tail(list)
    BY <1>3, <1>6 DEF StartData
  <2>2. id \in Ids
    BY <2>1, FoundPictureIsOne
  <2> HIDE DEF done, id
  <2>3. PICK m \in FreeNodes :
          /\ heap' = [done EXCEPT ![m] = Loaded(id)]
          /\ list' = IF list = <<>> THEN <<m>> ELSE <<First, m>> \o Tail(list)
    BY <2>1
  <2>4. GoodBlock(Loaded(id)) /\ Loaded(id).state # "FREE"
    BY <2>2, LoadedIsGood
  <2>5. m \in Node /\ heap[m].state = "FREE"
    BY DEF FreeNodes
  <2>6. /\ heap' \in [Node -> Block]
        /\ \A l \in Node : heap'[l] = IF l = m THEN Loaded(id) ELSE done[l]
    BY <1>4, <2>3, <2>4, <2>5 DEF GoodBlock
  <2>7. /\ \A l \in Node : GoodBlock(heap'[l])
        /\ \A l \in Node : heap[l].state # "FREE" => heap'[l].state # "FREE"
        /\ heap'[m].state # "FREE"
    BY <1>4, <2>4, <2>5, <2>6
  <2>8. list \in Seq(Node) /\ Len(list) \in Nat
    BY DEF ListInv
  <2>9. CASE list = <<>>
    <3>1. list' = <<m>>
      BY <2>3, <2>9
    <3>2. /\ list' \in Seq(Node) /\ Len(list') = Len(list) + 1 /\ list'[1] = m
          /\ 1 \in 1 .. Len(list) + 1
          /\ \A i \in 1 .. 1 - 1 : list'[i] = list[i]
          /\ \A i \in 1 .. Len(list) : list'[i + 1] = list[i]
      BY <2>5, <2>9, <3>1
    <3> QED BY <2>5, <2>6, <2>7, <2>9, <3>2, InsertKeeps
  <2>10. CASE list # <<>>
    <3>1. First \in Node /\ First = list[1] /\ Len(list) >= 1
      BY <2>8, <2>10 DEF First
    <3>2. /\ Tail(list) \in Seq(Node) /\ Len(Tail(list)) = Len(list) - 1
          /\ \A i \in 1 .. Len(list) - 1 : Tail(list)[i] = list[i + 1]
      BY <2>8, <2>10
    <3>3. list' = <<First, m>> \o Tail(list)
      BY <2>3, <2>10
    <3>4. /\ list' \in Seq(Node) /\ Len(list') = Len(list) + 1
          /\ list'[1] = list[1] /\ list'[2] = m
          /\ \A i \in 1 .. Len(list) - 1 : list'[i + 2] = Tail(list)[i]
      BY <2>5, <2>8, <3>1, <3>2, <3>3
    <3>5. ASSUME NEW i \in 2 .. Len(list) PROVE list'[i + 1] = list[i]
      <4>1. i - 1 \in 1 .. Len(list) - 1 /\ (i - 1) + 2 = i + 1 /\ (i - 1) + 1 = i
        BY <2>8
      <4> QED BY <3>2, <3>4, <4>1
    <3>6. 2 \in 1 .. Len(list) + 1 /\ \A i \in 1 .. 2 - 1 : list'[i] = list[i]
      BY <2>8, <3>1, <3>4
    <3>7. list' # <<>>
      BY <2>8, <3>4
    <3> QED BY <2>5, <2>6, <2>7, <3>4, <3>5, <3>6, <3>7, InsertKeeps
  <2> QED BY <2>9, <2>10
<1> QED BY <1>5, <1>6

-----------------------------------------------------------------------------
(* What the threads do to the blocks of the list. *)

(* A block that keeps its message is good if its fields have their types. *)
LEMMA BlockBuilt ==
  ASSUME NEW b, GoodBlock(b), b.cmd # "none",
         NEW c, c \in Block, c.cmd = b.cmd, c.pic = b.pic, c.sn = b.sn
  PROVE  GoodBlock(c)
BY DEF GoodBlock, HoldsPicture

LEMMA BlockFields ==
  ASSUME NEW b, GoodBlock(b)
  PROVE  /\ b.cmd \in {"none", "announce", "data"} /\ b.pic \in 0 .. MaxPics
         /\ b.retry \in 0 .. 3 /\ b.no \in 0 .. Sectors * PerSector + 1
         /\ b.marks \in SUBSET AnyPacket /\ b.para \in {"none", "held", "freed"}
         /\ b.state \in {"FREE", "IDLE", "WAIT_ACK", "ACK_OK"} /\ b \in Block
BY DEF GoodBlock, Block

LEMMA StateChanges ==
  ASSUME NEW b, GoodBlock(b), b.cmd # "none",
         NEW state \in {"FREE", "IDLE", "WAIT_ACK", "ACK_OK"}
  PROVE  /\ GoodBlock([b EXCEPT !.state = state])
         /\ [b EXCEPT !.state = state].cmd = b.cmd
         /\ [b EXCEPT !.state = state].state = state
<1> DEFINE c == [b EXCEPT !.state = state]
<1>1. c = [cmd |-> b.cmd, pic |-> b.pic, sn |-> b.sn, state |-> state,
           retry |-> b.retry, no |-> b.no, marks |-> b.marks, para |-> b.para]
  BY DEF GoodBlock, Block
<1> HIDE DEF c
<1>2. c \in Block
  BY <1>1, BlockFields DEF Block
<1>3. c.cmd = b.cmd /\ c.pic = b.pic /\ c.sn = b.sn /\ c.state = state
  BY <1>1
<1>4. GoodBlock(c)
  BY <1>2, <1>3, BlockBuilt
<1> QED BY <1>3, <1>4 DEF c

LEMMA RetryChanges ==
  ASSUME NEW b, GoodBlock(b), b.cmd # "none", NEW retry \in 0 .. 3
  PROVE  /\ GoodBlock([b EXCEPT !.retry = retry])
         /\ [b EXCEPT !.retry = retry].cmd = b.cmd
<1> DEFINE c == [b EXCEPT !.retry = retry]
<1>1. c = [cmd |-> b.cmd, pic |-> b.pic, sn |-> b.sn, state |-> b.state,
           retry |-> retry, no |-> b.no, marks |-> b.marks, para |-> b.para]
  BY DEF GoodBlock, Block
<1> HIDE DEF c
<1>2. c \in Block
  BY <1>1, BlockFields DEF Block
<1>3. c.cmd = b.cmd /\ c.pic = b.pic /\ c.sn = b.sn /\ c.state = b.state
  BY <1>1
<1>4. GoodBlock(c)
  BY <1>2, <1>3, BlockBuilt DEF GoodBlock
<1> QED BY <1>3, <1>4 DEF c

LEMMA SendEndKeeps ==
  ASSUME ListInv, WireInv, SendEnd
  PROVE  ListInv' /\ list' = list
<1>1. list' = list /\ list # <<>>
  BY DEF SendEnd, WireInv
<1>2. CASE heap' = heap
  BY <1>1, <1>2 DEF ListInv
<1>3. CASE heap' # heap
  <2>1. heap' = [heap EXCEPT ![First].state = "WAIT_ACK"]
    BY <1>3 DEF SendEnd
  <2> DEFINE b == [heap[First] EXCEPT !.state = "WAIT_ACK"]
  <2>2. First \in Node /\ GoodBlock(b) /\ b.state # "FREE"
    BY <1>1, FirstIsLive, StateChanges
  <2>3. heap' = [heap EXCEPT ![First] = b]
    BY <2>1
  <2> HIDE DEF b
  <2> QED BY <1>1, <2>2, <2>3, BlockChanges
<1> QED BY <1>1, <1>2, <1>3

LEMMA TimeoutKeeps ==
  ASSUME ListInv, Timeout
  PROVE  ListInv' /\ list' = list
<1> DEFINE b == heap[First]
           retry == IF b.retry < 3 THEN b.retry + 1 ELSE 3
           again == retry < RetryLimit(b.cmd)
           sent == b.cmd = "data" /\ b.no = PacketNum(b.pic)
           state == IF again THEN "IDLE" ELSE IF sent THEN "ACK_OK" ELSE b.state
           r == [b EXCEPT !.retry = retry]
           c == [r EXCEPT !.state = state]
<1>1. list' = list /\ list # <<>> /\ b.state = "WAIT_ACK"
  BY DEF Timeout
<1>2. First \in Node /\ GoodBlock(b) /\ b.cmd # "none"
  BY <1>1, FirstIsLive
<1>3. heap' = [heap EXCEPT ![First].retry = retry, ![First].state = state]
  BY DEF Timeout, ListInv
<1>4. retry \in 0 .. 3
  <2>1. PICK k \in 0 .. 3 : k = b.retry
    BY <1>2, BlockFields
  <2> QED BY <2>1
<1>5. state \in {"IDLE", "ACK_OK", "WAIT_ACK"}
  BY <1>1
<1> HIDE DEF retry, state
<1>6. heap' = [heap EXCEPT ![First] = c]
  BY <1>2, <1>3 DEF ListInv
<1>7. GoodBlock(r) /\ r.cmd # "none"
  BY <1>2, <1>4, RetryChanges
<1> HIDE DEF r
<1>8. GoodBlock(c) /\ c.state = state
  BY <1>5, <1>7, StateChanges
<1> HIDE DEF c
<1> QED BY <1>1, <1>2, <1>5, <1>6, <1>8, BlockChanges

(* The next packet, sent as it is. *)
LEMMA NextIdle ==
  ASSUME NEW b, GoodBlock(b), b.cmd # "none"
  PROVE  /\ GoodBlock([NextPacket(b) EXCEPT !.state = "IDLE"])
         /\ [NextPacket(b) EXCEPT !.state = "IDLE"].state # "FREE"
BY NextPacketKeeps, StateChanges

LEMMA TimeoutEndKeeps ==
  ASSUME ListInv, WireInv, StoreTypeOK, TimeoutEnd
  PROVE  ListInv' /\ list' # <<>>
<1>1. list # <<>>
  BY DEF TimeoutEnd, WireInv
<1>2. /\ First \in Node /\ GoodBlock(heap[First]) /\ heap[First].cmd # "none"
  BY <1>1, FirstIsLive
<1>3. CASE StartData(First)
  BY <1>1, <1>2, <1>3, StartDataKeeps
<1>4. CASE ~StartData(First)
  <2> DEFINE next == [NextPacket(heap[First]) EXCEPT !.state = "IDLE"]
             over == [heap[First] EXCEPT !.state = "ACK_OK"]
  <2>1. /\ list' = list
        /\ heap' = [heap EXCEPT ![First] = next] \/ heap' = [heap EXCEPT ![First] = over]
    BY <1>4 DEF TimeoutEnd, ListInv
  <2>2. /\ GoodBlock(next) /\ next.state # "FREE"
        /\ GoodBlock(over) /\ over.state # "FREE"
    BY <1>2, NextIdle, StateChanges
  <2> HIDE DEF next, over
  <2> QED BY <1>1, <1>2, <2>1, <2>2, BlockChanges
<1> QED BY <1>3, <1>4

LEMMA ResetKeeps ==
  ASSUME ListInv, Reset
  PROVE  ListInv'
BY FreeIsGood DEF Reset, ListInv, GoodBlock

LEMMA RemoveKeeps ==
  ASSUME ListInv, Remove
  PROVE  ListInv'
<1>1. CASE Reset
  BY <1>1, ResetKeeps
<1>2. CASE ~Reset
  <2> DEFINE b == IF rx.node = First THEN [heap[First] EXCEPT !.state = "FREE"]
                  ELSE FreeBlock
  <2>1. /\ list # <<>> /\ list' = Tail(list)
        /\ heap' = [heap EXCEPT ![First] = b]
    BY <1>2 DEF Remove, ListInv
  <2>2. /\ First \in Node /\ First = list[1] /\ GoodBlock(b)
    BY <2>1, FirstIsLive, StateChanges, FreeIsGood
  <2> HIDE DEF b
  <2>3. /\ heap' \in [Node -> Block]
        /\ \A n \in Node : heap'[n] = IF n = First THEN b ELSE heap[n]
    BY <2>1, <2>2 DEF ListInv, GoodBlock
  <2>4. /\ list' \in Seq(Node) /\ Len(list) \in Nat \ {0}
        /\ DOMAIN list = 1 .. Len(list) /\ DOMAIN list' = 1 .. Len(list) - 1
        /\ \A i \in DOMAIN list' : list'[i] = list[i + 1]
    BY <2>1 DEF ListInv
  <2>5. \A i \in DOMAIN list' : i + 1 \in DOMAIN list /\ i + 1 # 1
    BY <2>4
  <2>6. ASSUME NEW i \in DOMAIN list' PROVE heap'[list'[i]].state # "FREE"
    <3>1. list[i + 1] # list[1] /\ list[i + 1] \in Node
      BY <2>4, <2>5 DEF ListInv
    <3> QED BY <2>2, <2>3, <2>4, <2>5, <3>1 DEF ListInv
  <2>7. ASSUME NEW i \in DOMAIN list', NEW j \in DOMAIN list', list'[i] = list'[j]
        PROVE  i = j
    <3>1. i + 1 = j + 1
      BY <2>4, <2>5, <2>7 DEF ListInv
    <3> QED BY <2>4, <3>1
  <2> QED BY <2>2, <2>3, <2>4, <2>6, <2>7 DEF ListInv
<1> QED BY <1>1, <1>2

LEMMA ResumedIsGood ==
  ASSUME NEW b, GoodBlock(b), b.cmd # "none"
  PROVE  GoodBlock(Resumed(b)) /\ Resumed(b).state # "FREE"
<1>1. CASE FindPicID(b.pic)
  BY <1>1, NextIdle DEF Resumed
<1>2. CASE ~FindPicID(b.pic)
  <2> DEFINE c == Resumed(b)
  <2>1. c = [cmd |-> b.cmd, pic |-> b.pic, sn |-> b.sn, state |-> "ACK_OK",
             retry |-> b.retry, no |-> b.no, marks |-> b.marks, para |-> "freed"]
    BY <1>2 DEF Resumed, GoodBlock, Block
  <2> HIDE DEF c
  <2>2. c \in Block
    BY <2>1, BlockFields DEF Block
  <2>3. c.cmd = b.cmd /\ c.pic = b.pic /\ c.sn = b.sn /\ c.state = "ACK_OK"
    BY <2>1
  <2>4. GoodBlock(c)
    BY <2>2, <2>3, BlockBuilt
  <2> QED BY <2>3, <2>4 DEF c
<1> QED BY <1>1, <1>2

LEMMA AnnounceAnsweredKeeps ==
  ASSUME ListInv, StoreTypeOK, NEW n \in Node, NEW ok, AnnounceAnswered(n, ok)
  PROVE  ListInv' /\ (list # <<>> => list' # <<>>)
<1>1. CASE StartData(n)
  BY <1>1, StartDataKeeps
<1>2. CASE ~StartData(n)
  <2> DEFINE b == [heap[n] EXCEPT !.state = "IDLE"]
  <2>1. Becomes(n, b) /\ list' = list
    BY <1>2 DEF AnnounceAnswered
  <2>2. heap[n].state # "FREE" => GoodBlock(b) /\ b.state # "FREE"
    <3>1. GoodBlock(heap[n])
      BY DEF ListInv
    <3>2. heap[n].state # "FREE" => heap[n].cmd # "none"
      BY <3>1 DEF GoodBlock
    <3> QED BY <3>1, <3>2, StateChanges
  <2> HIDE DEF b
  <2> QED BY <2>1, <2>2, BecomesKeeps
<1> QED BY <1>1, <1>2

LEMMA PacketAnsweredKeeps ==
  ASSUME ListInv, StoreTypeOK, NEW n \in Node, NEW sn, PacketAnswered(n, sn),
         list' = list
  PROVE  ListInv'
<1> DEFINE b == heap[n]
           c == IF sn # b.sn THEN [b EXCEPT !.state = "WAIT_ACK"]
                ELSE IF b.no = PacketNum(b.pic)
                THEN [b EXCEPT !.state = "WAIT_ACK", !.no = @ + 1]
                ELSE IF b.no > PacketNum(b.pic) THEN [b EXCEPT !.state = "ACK_OK"]
                ELSE Resumed(b)
<1>1. Becomes(n, c)
  BY DEF PacketAnswered
<1>2. GoodBlock(b)
  BY DEF ListInv
<1>3. ASSUME b.state # "FREE" PROVE GoodBlock(c) /\ c.state # "FREE"
  <2>1. b.cmd # "none" /\ b.pic \in Ids
    BY <1>2, <1>3 DEF GoodBlock, HoldsPicture
  <2>2. /\ GoodBlock([b EXCEPT !.state = "WAIT_ACK"])
        /\ [b EXCEPT !.state = "WAIT_ACK"].state # "FREE"
        /\ GoodBlock([b EXCEPT !.state = "ACK_OK"])
        /\ [b EXCEPT !.state = "ACK_OK"].state # "FREE"
    BY <1>2, <2>1, StateChanges
  <2>3. GoodBlock(Resumed(b)) /\ Resumed(b).state # "FREE"
    BY <1>2, <2>1, ResumedIsGood
  <2>4. CASE sn = b.sn /\ b.no = PacketNum(b.pic)
    <3>1. PICK no \in AnyPacket : no = b.no
      BY <2>1, <2>4, PacketFacts
    <3>2. PICK all \in Nat : all = Sectors * PerSector
      BY PacketFacts
    <3>3. no + 1 \in 0 .. Sectors * PerSector + 1
      BY <3>1, <3>2 DEF AnyPacket
    <3>4. c = [b EXCEPT !.state = "WAIT_ACK", !.no = no + 1]
      BY <2>4, <3>1
    <3> HIDE DEF c
    <3>5. c = [cmd |-> b.cmd, pic |-> b.pic, sn |-> b.sn, state |-> "WAIT_ACK",
               retry |-> b.retry, no |-> no + 1, marks |-> b.marks, para |-> b.para]
      BY <1>2, <3>4 DEF GoodBlock, Block
    <3>6. c \in Block
      BY <1>2, <3>3, <3>5, BlockFields DEF Block
    <3>7. c.cmd = b.cmd /\ c.pic = b.pic /\ c.sn = b.sn /\ c.state = "WAIT_ACK"
      BY <3>5
    <3> QED BY <1>2, <2>1, <3>6, <3>7, BlockBuilt
  <2>5. CASE ~(sn = b.sn /\ b.no = PacketNum(b.pic))
    BY <2>2, <2>3, <2>5
  <2> QED BY <2>4, <2>5
<1> HIDE DEF c
<1> QED BY <1>1, <1>3, BecomesKeeps

LEMMA ConfirmedKeeps ==
  ASSUME ListInv, StoreTypeOK, NEW n \in Node, NEW a, a \in Answer, Confirmed(n, a),
         list' = list
  PROVE  ListInv'
<1> DEFINE b == heap[n]
           d == [b EXCEPT !.marks = a.missing \cap Packets(b.pic)]
           done == a.pic # b.pic \/ a.missing = {}
           c == IF done THEN [b EXCEPT !.state = "ACK_OK"] ELSE Resumed(d)
<1>1. Becomes(n, c)
  BY DEF Confirmed
<1>2. GoodBlock(b)
  BY DEF ListInv
<1>3. ASSUME b.state # "FREE" PROVE GoodBlock(c) /\ c.state # "FREE"
  <2>1. b.cmd # "none"
    BY <1>2, <1>3 DEF GoodBlock
  <2>2. /\ GoodBlock([b EXCEPT !.state = "ACK_OK"])
        /\ [b EXCEPT !.state = "ACK_OK"].state # "FREE"
    BY <1>2, <2>1, StateChanges
  <2>3. GoodBlock(Resumed(d)) /\ Resumed(d).state # "FREE"
    <3>1. PICK marks \in SUBSET AnyPacket : marks = a.missing \cap Packets(b.pic)
      BY DEF Answer
    <3>2. d = [cmd |-> b.cmd, pic |-> b.pic, sn |-> b.sn, state |-> b.state,
               retry |-> b.retry, no |-> b.no, marks |-> marks, para |-> b.para]
      <4>1. d = [b EXCEPT !.marks = marks]
        BY <3>1
      <4> HIDE DEF d
      <4> QED BY <1>2, <4>1 DEF GoodBlock, Block
    <3> HIDE DEF d
    <3>3. d \in Block
      BY <1>2, <3>2, BlockFields DEF Block
    <3>4. d.cmd = b.cmd /\ d.pic = b.pic /\ d.sn = b.sn
      BY <3>2
    <3>5. GoodBlock(d)
      BY <1>2, <2>1, <3>3, <3>4, BlockBuilt
    <3> QED BY <2>1, <3>4, <3>5, ResumedIsGood
  <2> QED BY <2>2, <2>3
<1> HIDE DEF c
<1> QED BY <1>1, <1>3, BecomesKeeps


-----------------------------------------------------------------------------
(* The invariant.  A confirmation under way, or in the hands of a handler, *)
(* is of a picture the platform has every packet of.                       *)

Confirms(a) ==
  a.type = "8800" /\ a.missing = {} => a.pic \in Ids /\ Packets(a.pic) \subseteq got[a.pic]

AnswerInv ==
  /\ owed \subseteq Answer /\ due \subseteq Ids /\ got \in [Ids -> SUBSET AnyPacket]
  /\ rx # NoRx => rx \in [node : Node, msg : Answer] /\ Confirms(rx.msg)
  /\ \A a \in owed : Confirms(a)

FlagInv == gpc \in GsmSteps /\ online \in BOOLEAN /\ events \in 0 .. MaxEvents

PictureInv ==
  StoreTypeOK /\ ListInv /\ WireInv /\ AnswerInv /\ FlagInv /\ MarkedIsReceived

(* The answers of the handlers, one by one. *)
LEMMA RxCases ==
  ASSUME AnswerInv, RxApply
  PROVE  /\ rx.node \in Node /\ rx.msg \in Answer /\ Confirms(rx.msg)
         /\ \/ AnnounceAnswered(rx.node, rx.msg.ok) /\ UNCHANGED <<flash, notsend>>
            \/ PacketAnswered(rx.node, rx.msg.sn) /\ UNCHANGED <<flash, notsend, list>>
            \/ /\ rx.msg.type = "8800"
               /\ Confirmed(rx.node, rx.msg) /\ UNCHANGED list
<1>1. rx # NoRx /\ rx.node \in Node /\ rx.msg \in Answer /\ Confirms(rx.msg)
  BY DEF AnswerInv, RxApply
<1>2. rx.msg.type \in {"announce", "data", "8800"}
  BY <1>1 DEF Answer
<1>3. CASE rx.msg.type = "announce"
  BY <1>1, <1>3 DEF RxApply
<1>4. CASE rx.msg.type = "data"
  BY <1>1, <1>4 DEF RxApply
<1>5. CASE rx.msg.type = "8800"
  BY <1>1, <1>5 DEF RxApply
<1> QED BY <1>2, <1>3, <1>4, <1>5

LEMMA IdleIsSave == Idle \in [pc : SaveSteps, addr : Sector, left : 0 .. Sectors]
BY RingAssumption DEF Idle, SaveSteps, Sector

LEMMA StoreStep ==
  ASSUME PictureInv, [Next]_vars
  PROVE  StoreTypeOK'
<1> USE DEF PictureInv
<1>1. CASE UNCHANGED storevars
  BY <1>1 DEF storevars, para, StoreTypeOK
<1>2. CASE Reset
  <2>1. Scanned /\ save' = Idle /\ UNCHANGED <<flash, size>>
    BY <1>2 DEF Reset, StoreRestart
  <2>2. /\ number' \in Nat /\ notsend' \in Nat
        /\ first' \in [addr : Sector, id : Ids \cup {NoId}]
        /\ last' \in [addr : Sector, id : 0 .. MaxPics, len : 0 .. Sectors]
    BY <2>1, ScannedType
  <2> QED BY <2>1, <2>2, IdleIsSave DEF StoreTypeOK
<1>3. CASE GetPicture
  <2>1. /\ notsend' = notsend \/ notsend' = 0
        /\ UNCHANGED <<flash, number, first, last, save, size>>
    BY <1>3 DEF GetPicture
  <2> QED BY <2>1 DEF StoreTypeOK
<1>4. CASE RxApply
  <2>1. UNCHANGED <<number, first, last, save, size>>
    BY <1>4 DEF RxApply
  <2>2. /\ flash' \in [Sector -> [id : 0 .. MaxPics, unsent : BOOLEAN]]
        /\ notsend' \in Nat
    <3>1. CASE UNCHANGED <<flash, notsend>>
      BY <3>1 DEF StoreTypeOK
    <3>2. CASE ~UNCHANGED <<flash, notsend>>
      <4>1. TransOkSet(heap[rx.node].pic)
        BY <1>4, <3>2, RxCases DEF Confirmed
      <4> QED BY <4>1, TransOkType
    <3> QED BY <3>1, <3>2
  <2> QED BY <2>1, <2>2 DEF StoreTypeOK
<1>5. CASE Save
  BY <1>5, SaveType DEF Save
<1>6. CASE SaveTaken
  BY <1>6, IdleIsSave DEF SaveTaken, para, StoreTypeOK
<1>7. CASE UNCHANGED vars
  BY <1>1, <1>7 DEF vars
<1> QED BY <1>1, <1>2, <1>3, <1>4, <1>5, <1>6, <1>7
        DEF Next, GsmProcess, SendBegin, SendEnd, Timeout, TimeoutEnd, Remove, RxFind,
            Asked, PlatformConfirms, AnswerLost, GoesOnline, GoesOffline, Restart

LEMMA NoMessageIsGood == NoMessage \in Message /\ HoldsPicture(NoMessage)
BY FreeIsGood DEF NoMessage, Message, HoldsPicture, GoodBlock, FreeBlock, Block

(* Every other thread leaves the gsm thread where it is, with a list. *)
LEMMA OthersKeepWire ==
  ASSUME WireInv, UNCHANGED <<gpc, wire>>, list # <<>> => list' # <<>>
  PROVE  WireInv'
BY DEF WireInv

LEMMA ContentIsGood ==
  ASSUME ListInv, list # <<>>
  PROVE  /\ Content(First) \in Message /\ HoldsPicture(Content(First))
         /\ Content(First).cmd # "none"
BY FirstIsLive DEF Content, GoodBlock, HoldsPicture, Block, Message

LEMMA ListStep ==
  ASSUME PictureInv, [Next]_vars
  PROVE  ListInv' /\ WireInv'
<1> USE DEF PictureInv
<1>1. CASE UNCHANGED txvars
  BY <1>1 DEF txvars, ListInv, WireInv
<1>2. CASE Reset
  <2>1. ListInv'
    BY <1>2, ResetKeeps
  <2>2. gpc' = "idle" /\ wire' = NoMessage
    BY <1>2 DEF Reset
  <2> QED BY <2>1, <2>2, NoMessageIsGood DEF WireInv
<1>3. CASE GetPicture
  <2>1. gpc' = "idle" /\ wire' = wire /\ gpc = "idle"
    BY <1>3 DEF GetPicture
  <2>2. ListInv'
    <3>1. CASE UNCHANGED <<heap, list>>
      BY <3>1 DEF ListInv
    <3>2. CASE ~UNCHANGED <<heap, list>>
      <4>1. Announce(flash[SearchPicHead].id)
        BY <1>3, <3>2 DEF GetPicture
      <4> QED BY <4>1, AnnounceKeeps
    <3> QED BY <3>1, <3>2
  <2> QED BY <2>1, <2>2 DEF WireInv
<1>4. CASE SendBegin
  <2>1. /\ list # <<>> /\ list' = list /\ heap' = heap /\ gpc' = "write"
        /\ wire' = Content(First)
    BY <1>4 DEF SendBegin
  <2>2. ListInv'
    BY <2>1 DEF ListInv
  <2> QED BY <2>1, <2>2, ContentIsGood DEF WireInv
<1>5. CASE SendEnd
  <2>1. ListInv'
    BY <1>5, SendEndKeeps
  <2>2. gpc' = "idle" /\ wire' = NoMessage
    BY <1>5 DEF SendEnd
  <2> QED BY <2>1, <2>2, NoMessageIsGood DEF WireInv
<1>6. CASE Timeout
  <2>1. ListInv' /\ list' = list /\ list # <<>>
    BY <1>6, TimeoutKeeps DEF Timeout
  <2>2. gpc' # "write" /\ wire' = wire
    BY <1>6 DEF Timeout
  <2> QED BY <2>1, <2>2 DEF WireInv
<1>7. CASE TimeoutEnd
  <2>1. ListInv' /\ list' # <<>>
    BY <1>7, TimeoutEndKeeps
  <2>2. gpc' # "write" /\ wire' = wire
    BY <1>7 DEF TimeoutEnd
  <2> QED BY <2>1, <2>2 DEF WireInv
<1>8. CASE Remove /\ ~Reset
  <2>1. ListInv'
    BY <1>8, RemoveKeeps
  <2>2. gpc' = "idle" /\ wire' = wire
    BY <1>8 DEF Remove
  <2> QED BY <2>1, <2>2 DEF WireInv
<1>9. CASE RxApply
  <2>1. UNCHANGED <<gpc, wire>>
    BY <1>9 DEF RxApply
  <2>2. CASE AnnounceAnswered(rx.node, rx.msg.ok)
    BY <1>9, <2>1, <2>2, RxCases, AnnounceAnsweredKeeps, OthersKeepWire
  <2>3. CASE PacketAnswered(rx.node, rx.msg.sn) /\ UNCHANGED list
    BY <1>9, <2>1, <2>3, RxCases, PacketAnsweredKeeps, OthersKeepWire
  <2>4. CASE Confirmed(rx.node, rx.msg) /\ UNCHANGED list
    BY <1>9, <2>1, <2>4, RxCases, ConfirmedKeeps, OthersKeepWire
  <2> QED BY <1>9, <2>2, <2>3, <2>4, RxCases
<1>10. CASE Asked
  <2>1. UNCHANGED <<gpc, wire>> /\ \E id \in Ids : Announce(id)
    BY <1>10 DEF Asked
  <2> QED BY <2>1, AnnounceKeeps, OthersKeepWire
<1>11. CASE SaveTaken
  <2>1. UNCHANGED <<gpc, wire>>
    BY <1>11 DEF SaveTaken
  <2>2. CASE Announce(last.id)
    BY <2>1, <2>2, AnnounceKeeps, OthersKeepWire
  <2>3. CASE UNCHANGED <<heap, list>>
    BY <1>1, <2>1, <2>3 DEF txvars
  <2> QED BY <1>11, <2>2, <2>3 DEF SaveTaken
<1>12. CASE Restart
  BY <1>2, <1>12 DEF Restart
<1>13. CASE UNCHANGED vars
  BY <1>1, <1>13 DEF vars
<1> QED BY <1>1, <1>2, <1>3, <1>4, <1>5, <1>6, <1>7, <1>8, <1>9, <1>10, <1>11, <1>12,
           <1>13
        DEF Next, GsmProcess, Save, RxFind, PlatformConfirms, AnswerLost, GoesOnline,
            GoesOffline

LEMMA FlagStep ==
  ASSUME PictureInv, [Next]_vars
  PROVE  FlagInv'
<1>1. gpc' \in GsmSteps
  <2>1. gpc' = gpc \/ gpc' \in {"idle", "write", "timeout", "free"}
    BY DEF Next, GsmProcess, GetPicture, SendBegin, SendEnd, Timeout, TimeoutEnd, Remove,
           RxFind, RxApply, Asked, Save, SaveTaken, PlatformConfirms, AnswerLost,
           GoesOnline, GoesOffline, Restart, Reset, vars, txvars
  <2> QED BY <2>1 DEF PictureInv, FlagInv, GsmSteps
<1>2. online' \in BOOLEAN
  <2>1. online' = online \/ online' = TRUE \/ online' = FALSE
    BY DEF Next, GsmProcess, GetPicture, SendBegin, SendEnd, Timeout, TimeoutEnd, Remove,
           RxFind, RxApply, Asked, Save, SaveTaken, PlatformConfirms, AnswerLost,
           GoesOnline, GoesOffline, Restart, Reset, vars
  <2> QED BY <2>1 DEF PictureInv, FlagInv
<1>3. events' \in 0 .. MaxEvents
  <2>1. events' = events \/ \E kind : Happens(kind)
    BY DEF Next, GsmProcess, GetPicture, SendBegin, SendEnd, Arrives, Timeout, TimeoutEnd,
           Remove, RxFind, RxApply, Asked, Save, SaveTaken, PlatformConfirms, AnswerLost,
           GoesOnline, GoesOffline, Restart, vars
  <2> QED BY <2>1, PictureAssumption DEF Happens, PictureInv, FlagInv
<1> QED BY <1>1, <1>2, <1>3 DEF FlagInv

(* What the platform has and owes when a message arrives. *)
LEMMA ArrivesKeeps ==
  ASSUME StoreTypeOK, AnswerInv, UNCHANGED <<size, rx>>,
         NEW m \in Message, HoldsPicture(m), m.cmd # "none", Arrives(m)
  PROVE  AnswerInv' /\ \A id \in Ids : got[id] \subseteq got'[id]
<1>1. m.cmd \in {"announce", "data"} /\ m.pic \in 0 .. MaxPics /\ m.sn \in Sn
  BY DEF Message
<1>2. \A ok \in BOOLEAN : Ack(m, ok) \in Answer /\ Ack(m, ok).type # "8800"
  <2>1. 0 \in 0 .. MaxPics
    BY RingAssumption
  <2> QED BY <1>1, <2>1 DEF Ack, Answer
<1>3. /\ owed' \subseteq Answer
      /\ \A a \in owed' : a \in owed \/ a.type # "8800"
  BY <1>2 DEF Arrives, AnswerInv
<1>4. /\ got' \in [Ids -> SUBSET AnyPacket] /\ due' \subseteq Ids
      /\ \A id \in Ids : got[id] \subseteq got'[id]
  <2>1. CASE m.cmd = "data"
    <3>1. m.pic \in Ids /\ m.sn \in AnyPacket
      BY <2>1 DEF HoldsPicture
    <3> QED BY <2>1, <3>1 DEF Arrives, AnswerInv
  <2>2. CASE m.cmd # "data"
    BY <2>2 DEF Arrives, AnswerInv
  <2> QED BY <2>1, <2>2
<1>5. \A id \in Ids : Packets(id)' = Packets(id)
  BY DEF Packets, PacketNum
<1>6. \A a : Confirms(a) => Confirms(a)'
  BY <1>4, <1>5 DEF Confirms
<1>7. \A a \in owed' : Confirms(a)'
  BY <1>3, <1>6 DEF AnswerInv, Confirms
<1> QED BY <1>3, <1>4, <1>6, <1>7 DEF AnswerInv

LEMMA AnswerStep ==
  ASSUME PictureInv, [Next]_vars
  PROVE  AnswerInv' /\ \A id \in Ids : got[id] \subseteq got'[id]
<1> USE DEF PictureInv
<1>1. size' = size
  BY DEF Next, GsmProcess, GetPicture, SendBegin, SendEnd, Timeout, TimeoutEnd, Remove,
         RxFind, RxApply, Asked, Save, SaveBegin, SaveStep, SaveErase, SaveWrite, SaveReset,
         SaveScan, SaveTaken, PlatformConfirms, AnswerLost, GoesOnline, GoesOffline,
         Restart, Reset, StoreRestart, vars, storevars
<1>2. \A id \in Ids : Packets(id)' = Packets(id)
  BY <1>1 DEF Packets, PacketNum
<1>3. ASSUME got' = got PROVE \A a : Confirms(a)' <=> Confirms(a)
  BY <1>2, <1>3 DEF Confirms
<1>4. ASSUME got' = got, owed' \subseteq owed, due' \subseteq due,
             rx' = rx \/ rx' = NoRx
      PROVE  AnswerInv' /\ \A id \in Ids : got[id] \subseteq got'[id]
  BY <1>3, <1>4 DEF AnswerInv
<1>5. CASE SendEnd
  <2>1. UNCHANGED rx
    BY <1>5 DEF SendEnd
  <2>2. CASE UNCHANGED platform
    BY <1>4, <2>1, <2>2 DEF platform
  <2>3. CASE ~UNCHANGED platform
    <3>1. PICK m \in {wire, Content(First)} : Arrives(m)
      BY <1>5, <2>3 DEF SendEnd
    <3>2. m \in Message /\ HoldsPicture(m) /\ m.cmd # "none"
      BY <1>5, ContentIsGood DEF SendEnd, WireInv
    <3> QED BY <1>1, <2>1, <3>1, <3>2, ArrivesKeeps
  <2> QED BY <2>2, <2>3
<1>6. CASE \E a \in owed : RxFind(a)
  <2>1. PICK a \in owed : RxFind(a)
    BY <1>6
  <2>2. owed' \subseteq owed /\ UNCHANGED <<due, got, list>>
    BY <2>1 DEF RxFind, txvars
  <2>3. CASE rx' = NoRx
    BY <1>4, <2>2, <2>3
  <2>4. CASE rx' # NoRx
    <3> DEFINE for == {i \in DOMAIN list : IsFor(a, list[i])}
               k == CHOOSE i \in for : \A j \in for : i <= j
    <3>1. rx' = [node |-> list[k], msg |-> a] /\ for # {}
      BY <2>1, <2>4 DEF RxFind
    <3>2. for \subseteq Nat
      BY DEF ListInv
    <3>3. k \in for
      BY <3>1, <3>2, SmallestOf
    <3>4. list[k] \in Node
      BY <3>3 DEF ListInv
    <3> HIDE DEF for, k
    <3>5. a \in Answer /\ Confirms(a) /\ rx' \in [node : Node, msg : Answer]
          /\ rx'.msg = a
      BY <3>1, <3>4 DEF AnswerInv
    <3> QED BY <1>3, <2>2, <3>5 DEF AnswerInv
  <2> QED BY <2>3, <2>4
<1>7. CASE PlatformConfirms
  <2>1. PICK id \in due :
          /\ due' = due \ {id}
          /\ owed' = owed \cup {Ack8800(id, Packets(id) \ got[id])}
    BY <1>7 DEF PlatformConfirms
  <2>2. UNCHANGED <<rx, got>> /\ id \in Ids
    BY <1>7, <2>1 DEF PlatformConfirms, AnswerInv
  <2> DEFINE a == Ack8800(id, Packets(id) \ got[id])
  <2>3. a \in Answer
    <3>1. id \in 0 .. MaxPics /\ 0 \in Sn
      BY <2>2, RingAssumption, PictureAssumption DEF Ids, Sn
    <3>2. Packets(id) \ got[id] \in SUBSET AnyPacket
      BY <2>2, PacketFacts
    <3> QED BY <3>1, <3>2 DEF Ack8800, Answer
  <2>4. Confirms(a)
    BY <2>2 DEF Confirms, Ack8800
  <2> HIDE DEF a
  <2> QED BY <1>3, <2>1, <2>2, <2>3, <2>4 DEF AnswerInv, a
<1>8. CASE ~SendEnd /\ ~(\E a \in owed : RxFind(a)) /\ ~PlatformConfirms
  <2>1. got' = got /\ owed' \subseteq owed /\ due' \subseteq due
    BY <1>8 DEF Next, GsmProcess, GetPicture, SendBegin, Timeout, TimeoutEnd, Remove,
           RxApply, Asked, Save, SaveTaken, AnswerLost, GoesOnline, GoesOffline,
           Restart, Reset, vars, platform
  <2>2. rx' = rx \/ rx' = NoRx
    BY <1>8 DEF Next, GsmProcess, GetPicture, SendBegin, Timeout, TimeoutEnd, Remove,
           RxApply, Asked, Save, SaveTaken, AnswerLost, GoesOnline, GoesOffline,
           Restart, Reset, vars
  <2> QED BY <1>4, <2>1, <2>2
<1> QED BY <1>5, <1>6, <1>7, <1>8

(* A header loses its flag only by a confirmation of its own picture. *)
LEMMA MarkStep ==
  ASSUME PictureInv, [Next]_vars
  PROVE  MarkedIsReceived'
<1> USE DEF PictureInv
<1>1. \A id \in Ids : got[id] \subseteq got'[id]
  BY AnswerStep
<1>2. size' = size
  BY DEF Next, GsmProcess, GetPicture, SendBegin, SendEnd, Timeout, TimeoutEnd, Remove,
         RxFind, RxApply, Asked, Save, SaveBegin, SaveStep, SaveErase, SaveWrite, SaveReset,
         SaveScan, SaveTaken, PlatformConfirms, AnswerLost, GoesOnline, GoesOffline,
         Restart, Reset, StoreRestart, vars, storevars
<1>3. \A a \in Sector : IsHead(a) => flash[a].id \in Ids
  BY RingAssumption DEF IsHead, StoreTypeOK, Ids
<1>4. SUFFICES ASSUME NEW a \in Sector, IsHead(a)', ~flash'[a].unsent
               PROVE  Packets(flash'[a].id) \subseteq got'[flash'[a].id]
  BY <1>2 DEF MarkedIsReceived, Packets, PacketNum
<1>5. ASSUME flash'[a] = flash[a]
      PROVE  Packets(flash'[a].id) \subseteq got'[flash'[a].id]
  <2>1. IsHead(a) /\ ~flash[a].unsent /\ flash[a].id \in Ids
    BY <1>3, <1>4, <1>5 DEF IsHead
  <2>2. Packets(flash[a].id) \subseteq got[flash[a].id]
    BY <2>1 DEF MarkedIsReceived
  <2> QED BY <1>1, <1>5, <2>1, <2>2
<1>6. CASE flash' = flash
  BY <1>5, <1>6
<1>7. CASE SaveErase
  <2>1. flash' = [flash EXCEPT ![save.addr] = NoHead] /\ NoHead.id = 0
    BY <1>7 DEF SaveErase, NoHead
  <2>2. flash'[a] = flash[a] \/ flash'[a] = NoHead
    BY <2>1 DEF StoreTypeOK
  <2> QED BY <1>4, <1>5, <2>1, <2>2 DEF IsHead
<1>8. CASE SaveWrite
  <2>1. \/ flash' = flash
        \/ flash' = [flash EXCEPT ![save.addr] = [id |-> last.id, unsent |-> TRUE]]
    BY <1>8 DEF SaveWrite
  <2>2. flash'[a] = flash[a] \/ flash'[a].unsent
    BY <2>1 DEF StoreTypeOK
  <2> QED BY <1>4, <1>5, <2>2
<1>9. CASE RxApply /\ flash' # flash
  <2>1. /\ rx.msg.type = "8800" /\ Confirmed(rx.node, rx.msg) /\ Confirms(rx.msg)
    BY <1>9, RxCases
  <2> DEFINE id == heap[rx.node].pic
  <2>2. rx.msg.pic = id /\ rx.msg.missing = {} /\ TransOkSet(id)
    BY <1>9, <2>1 DEF Confirmed
  <2>3. id \in Ids /\ Packets(id) \subseteq got[id]
    BY <2>1, <2>2 DEF Confirms
  <2> HIDE DEF id
  <2>4. PICK h \in Places(id) : flash' = [flash EXCEPT ![h].unsent = FALSE]
    BY <1>9, <2>2 DEF TransOkSet
  <2>5. CASE a = h
    <3>1. flash'[a].id = id
      BY <2>4, <2>5 DEF Places, StoreTypeOK
    <3> QED BY <1>1, <2>3, <3>1
  <2>6. CASE a # h
    <3>1. flash'[a] = flash[a]
      BY <2>4, <2>6 DEF StoreTypeOK
    <3> QED BY <1>5, <3>1
  <2> QED BY <2>5, <2>6
<1>10. flash' = flash \/ SaveErase \/ SaveWrite \/ RxApply
  BY DEF Next, GsmProcess, GetPicture, SendBegin, SendEnd, Timeout, TimeoutEnd, Remove,
         RxFind, Asked, Save, SaveBegin, SaveStep, SaveReset, SaveScan, SaveTaken,
         PlatformConfirms, AnswerLost, GoesOnline, GoesOffline, Restart, Reset,
         StoreRestart, vars, storevars
<1> QED BY <1>6, <1>7, <1>8, <1>9, <1>10

-----------------------------------------------------------------------------

LEMMA InitHolds == Init => PictureInv
<1> SUFFICES ASSUME Init PROVE PictureInv
  OBVIOUS
<1>1. StoreTypeOK
  <2>1. NoHead \in [id : 0 .. MaxPics, unsent : BOOLEAN] /\ 0 \in Sector
    BY RingAssumption DEF NoHead, Sector
  <2>2. [addr |-> 0, id |-> 0, len |-> 0]
          \in [addr : Sector, id : 0 .. MaxPics, len : 0 .. Sectors]
    BY <2>1, RingAssumption
  <2>3. \A s \in Layouts : s \in [Ids -> 1 .. Sectors]
    BY RingAssumption DEF Ids
  <2> QED BY <2>1, <2>2, <2>3, IdleIsSave DEF Init, StoreInit, StoreTypeOK
<1>2. ListInv
  BY FreeIsGood DEF Init, ListInv, GoodBlock
<1>3. WireInv
  BY NoMessageIsGood DEF Init, WireInv
<1>4. AnswerInv
  BY DEF Init, AnswerInv
<1>5. FlagInv
  <2>1. gpc = "idle" /\ online = FALSE /\ events = MaxEvents
    BY DEF Init
  <2>2. MaxEvents \in 0 .. MaxEvents
    BY PictureAssumption
  <2> QED BY <2>1, <2>2 DEF FlagInv, GsmSteps
<1>6. MarkedIsReceived
  BY DEF Init, StoreInit, MarkedIsReceived, IsHead, NoHead
<1> QED BY <1>1, <1>2, <1>3, <1>4, <1>5, <1>6 DEF PictureInv

LEMMA InvHolds == Spec => []PictureInv
<1>1. PictureInv /\ [Next]_vars => PictureInv'
  BY StoreStep, ListStep, AnswerStep, FlagStep, MarkStep DEF PictureInv
<1> QED BY InitHolds, <1>1, PTL DEF Spec

(* The types: the ring and its summary stay in their ranges, the list      *)
(* links blocks that carry a picture, and what the platform is asked for   *)
(* and answers are pictures (camera.c, jt808_camera.c).                    *)
THEOREM PictureTypeInvariant == Spec => []TypeOK
<1>1. PictureInv => TypeOK
  BY DEF PictureInv, ListInv, WireInv, AnswerInv, FlagInv, TypeOK
<1> QED BY InvHolds, <1>1, PTL

(* Whatever is lost, late, repeated or handed to another message, a header *)
(* says transmitted only of a picture the platform has every packet of     *)
(* (jt808_camera.c:241, jt808.c:866).                                      *)
THEOREM OnlySentIsMarked == Spec => []MarkedIsReceived
<1>1. PictureInv => MarkedIsReceived
  BY DEF PictureInv
<1> QED BY InvHolds, <1>1, PTL

-----------------------------------------------------------------------------
(* A set of numbers with 0 and the successor of each has all numbers. *)
LEMMA NumbersByInduction ==
  ASSUME NEW T, 0 \in T, \A n \in Nat : n \in T => n + 1 \in T
  PROVE  \A n \in Nat : n \in T
<1> SUFFICES ASSUME NEW m \in Nat, m \notin T PROVE FALSE
  OBVIOUS
<1>1. PICK x \in Nat \ T : \A y \in Nat \ T : x <= y
  BY SmallestOf
<1>2. x # 0 /\ x - 1 \in Nat /\ (x - 1) + 1 = x
  OBVIOUS
<1>3. x - 1 \in T
  BY <1>1, <1>2
<1> QED BY <1>1, <1>2, <1>3

(* A function can be applied again and again. *)
LEMMA IterationExists ==
  ASSUME NEW f \in [Nat -> Nat], NEW a \in Nat
  PROVE  \E g \in [Nat -> Nat] : g[0] = a /\ \A k \in Nat : g[k + 1] = f[g[k]]
<1> DEFINE IsPath(g, n) == /\ g \in [0 .. n -> Nat] /\ g[0] = a
                           /\ \A k \in 0 .. n - 1 : g[k + 1] = f[g[k]]
           T == {n \in Nat : \E g : IsPath(g, n)}
<1>1. 0 \in T
  <2>1. IsPath([k \in 0 .. 0 |-> a], 0)
    OBVIOUS
  <2> QED BY <2>1
<1>2. ASSUME NEW n \in Nat, n \in T PROVE n + 1 \in T
  <2>1. PICK g : IsPath(g, n)
    BY <1>2
  <2> DEFINE h == [k \in 0 .. n + 1 |-> IF k = n + 1 THEN f[g[n]] ELSE g[k]]
  <2>2. ASSUME NEW k \in 0 .. n + 1 PROVE (IF k = n + 1 THEN f[g[n]] ELSE g[k]) \in Nat
    <3>1. n \in 0 .. n /\ (k # n + 1 => k \in 0 .. n)
      OBVIOUS
    <3> QED BY <2>1, <3>1
  <2>3. h \in [0 .. n + 1 -> Nat]
    BY ONLY <2>2
  <2>3a. \A k \in 0 .. n + 1 : h[k] = IF k = n + 1 THEN f[g[n]] ELSE g[k]
    OBVIOUS
  <2> HIDE DEF h
  <2>3b. h[0] = a
    <3>1. 0 \in 0 .. n + 1 /\ 0 # n + 1
      OBVIOUS
    <3> QED BY <2>1, <2>3a, <3>1
  <2>4. ASSUME NEW k \in 0 .. (n + 1) - 1 PROVE h[k + 1] = f[h[k]]
    <3>1. /\ k + 1 \in 0 .. n + 1 /\ k \in 0 .. n + 1 /\ k # n + 1
          /\ (k + 1 = n + 1 <=> k = n) /\ (k # n => k \in 0 .. n - 1)
      OBVIOUS
    <3>2. h[k] = g[k]
      BY <2>3a, <3>1
    <3>3. h[k + 1] = IF k = n THEN f[g[n]] ELSE g[k + 1]
      BY <2>3a, <3>1
    <3>4. k # n => g[k + 1] = f[g[k]]
      BY <2>1, <3>1
    <3> QED BY <3>2, <3>3, <3>4
  <2>5. IsPath(h, n + 1)
    BY <2>3, <2>3b, <2>4
  <2>6. \E w : IsPath(w, n + 1)
    BY <2>5
  <2> HIDE DEF IsPath
  <2> QED BY <2>6
<1>3. \A n \in Nat : n \in T
  <2> HIDE DEF T
  <2> QED BY <1>1, <1>2, NumbersByInduction
<1>4. \A n \in Nat : \E g : IsPath(g, n)
  BY <1>3
<1> HIDE DEF IsPath
<1> DEFINE p == [n \in Nat |-> CHOOSE g : IsPath(g, n)]
<1>5. \A n \in Nat : IsPath(p[n], n)
  BY <1>4
<1> HIDE DEF p
<1>6. ASSUME NEW n \in Nat PROVE \A k \in Nat : k <= n => p[n][k] = p[n + 1][k]
  <2> DEFINE U == {k \in Nat : k <= n => p[n][k] = p[n + 1][k]}
  <2>1. IsPath(p[n], n) /\ IsPath(p[n + 1], n + 1)
    BY <1>5
  <2> USE DEF IsPath
  <2>2. 0 \in U
    BY <2>1
  <2>3. ASSUME NEW k \in Nat, k \in U PROVE k + 1 \in U
    <3>1. SUFFICES ASSUME k + 1 <= n PROVE p[n][k + 1] = p[n + 1][k + 1]
      OBVIOUS
    <3>2. k \in 0 .. n - 1 /\ k \in 0 .. (n + 1) - 1
      BY <3>1
    <3>3. p[n][k] = p[n + 1][k]
      BY <2>3, <3>1
    <3> QED BY <2>1, <3>2, <3>3
  <2>4. \A k \in Nat : k \in U
    <3> HIDE DEF U
    <3> QED BY <2>2, <2>3, NumbersByInduction
  <2> QED BY <2>4
<1> DEFINE g == [n \in Nat |-> p[n][n]]
<1>7. \A n \in Nat : p[n][n] \in Nat
  <2> TAKE n \in Nat
  <2>1. IsPath(p[n], n) /\ n \in 0 .. n
    BY <1>5
  <2> QED BY <2>1 DEF IsPath
<1>8. g \in [Nat -> Nat] /\ g[0] = a
  <2>1. IsPath(p[0], 0)
    BY <1>5
  <2> QED BY <2>1, <1>7 DEF IsPath
<1>9. ASSUME NEW k \in Nat PROVE g[k + 1] = f[g[k]]
  <2>1. IsPath(p[k + 1], k + 1) /\ k \in 0 .. (k + 1) - 1
    BY <1>5
  <2>2. p[k][k] = p[k + 1][k]
    <3>1. k <= k
      OBVIOUS
    <3> QED BY <1>6, <3>1
  <2>3. p[k + 1][k + 1] = f[p[k + 1][k]]
    BY <2>1 DEF IsPath
  <2>4. g[k + 1] = p[k + 1][k + 1] /\ g[k] = p[k][k]
    OBVIOUS
  <2> HIDE DEF g
  <2> QED BY <2>2, <2>3, <2>4
<1> QED BY <1>8, <1>9

(* What the search reads from a on. *)
LEMMA StepsFacts ==
  StoreTypeOK =>
    \A a \in Nat :
      /\ Steps(a) \in [Nat -> Nat] /\ Steps(a)[0] = a
      /\ \A k \in Nat : Steps(a)[k + 1] = Behind(Steps(a)[k])
                        /\ Steps(a)[k] < Steps(a)[k + 1]
<1> SUFFICES ASSUME StoreTypeOK, NEW a \in Nat
             PROVE  /\ Steps(a) \in [Nat -> Nat] /\ Steps(a)[0] = a
                    /\ \A k \in Nat : Steps(a)[k + 1] = Behind(Steps(a)[k])
                                      /\ Steps(a)[k] < Steps(a)[k + 1]
  OBVIOUS
<1>1. ASSUME NEW x \in Nat PROVE Behind(x) \in Nat /\ x < Behind(x)
  <2>1. CASE IsHead(x)
    <3>1. size[flash[x].id] \in 1 .. Sectors
      BY <2>1, RingAssumption DEF IsHead, StoreTypeOK, Ids
    <3>2. PICK s \in Nat : s = size[flash[x].id] /\ s >= 1
      BY <3>1, RingAssumption
    <3> QED BY <2>1, <3>2 DEF Behind
  <2>2. CASE ~IsHead(x)
    BY <2>2 DEF Behind
  <2> QED BY <2>1, <2>2
<1> DEFINE f == [x \in Nat |-> Behind(x)]
           Is(g) == g = [k \in Nat |-> IF k = 0 THEN a ELSE Behind(g[k - 1])]
<1>2. f \in [Nat -> Nat]
  BY <1>1
<1>3. PICK g \in [Nat -> Nat] : g[0] = a /\ \A k \in Nat : g[k + 1] = f[g[k]]
  <2> HIDE DEF f
  <2> QED BY <1>2, IterationExists
<1>4. Is(g)
  <2> DEFINE h == [k \in Nat |-> IF k = 0 THEN a ELSE Behind(g[k - 1])]
  <2>1. ASSUME NEW k \in Nat PROVE g[k] = h[k]
    <3>1. CASE k = 0
      BY <1>3, <3>1
    <3>2. CASE k # 0
      <4>1. k - 1 \in Nat /\ (k - 1) + 1 = k
        BY <3>2
      <4>2. g[k] = f[g[k - 1]] /\ g[k - 1] \in Nat
        BY <1>3, <4>1
      <4> QED BY <3>2, <4>2
    <3> QED BY <3>1, <3>2
  <2> HIDE DEF h
  <2>2. h \in [Nat -> {h[k] : k \in Nat}]
    BY DEF h
  <2> QED BY <2>1, <1>3 DEF h
<1>5. Is(Steps(a))
  <2>1. Steps(a) = CHOOSE s : Is(s)
    BY DEF Steps
  <2> HIDE DEF Is
  <2> QED BY <1>4, <2>1
<1> DEFINE s == Steps(a)
           T == {k \in Nat : s[k] \in Nat}
<1> HIDE DEF s
<1>6. s = [k \in Nat |-> IF k = 0 THEN a ELSE Behind(s[k - 1])]
  BY <1>5 DEF s
<1>7. s[0] = a /\ \A k \in Nat : s[k + 1] = Behind(s[k])
  <2>1. s[0] = a
    BY <1>6
  <2>2. ASSUME NEW k \in Nat PROVE s[k + 1] = Behind(s[k])
    <3>1. k + 1 # 0 /\ (k + 1) - 1 = k /\ k + 1 \in Nat
      OBVIOUS
    <3> QED BY <1>6, <3>1
  <2> QED BY <2>1, <2>2
<1>8. \A k \in Nat : s[k] \in Nat
  <2>1. 0 \in T
    BY <1>7
  <2>2. ASSUME NEW k \in Nat, k \in T PROVE k + 1 \in T
    BY <1>1, <1>7, <2>2
  <2>3. \A k \in Nat : k \in T
    <3> HIDE DEF T
    <3> QED BY <2>1, <2>2, NumbersByInduction
  <2> QED BY <2>3
<1>9. s \in [Nat -> Nat]
  BY <1>6, <1>8
<1> QED BY <1>1, <1>7, <1>8, <1>9 DEF s

LEMMA StepsFactsNext ==
  StoreTypeOK' =>
    \A a \in Nat :
      /\ Steps(a)' \in [Nat -> Nat] /\ Steps(a)'[0] = a
      /\ \A k, x \in Nat : x = Steps(a)'[k] => Steps(a)'[k + 1] = Behind(x)'
<1> DEFINE Facts ==
             StoreTypeOK =>
               \A a \in Nat :
                 /\ Steps(a) \in [Nat -> Nat] /\ Steps(a)[0] = a
                 /\ \A k, x \in Nat : x = Steps(a)[k] => Steps(a)[k + 1] = Behind(x)
<1>1. Facts
  <2> SUFFICES ASSUME StoreTypeOK, NEW a \in Nat
               PROVE  /\ Steps(a) \in [Nat -> Nat] /\ Steps(a)[0] = a
                      /\ \A k, x \in Nat : x = Steps(a)[k] => Steps(a)[k + 1] = Behind(x)
    OBVIOUS
  <2>1. /\ Steps(a) \in [Nat -> Nat] /\ Steps(a)[0] = a
        /\ \A k \in Nat : Steps(a)[k + 1] = Behind(Steps(a)[k])
    BY StepsFacts
  <2>2. ASSUME NEW k \in Nat, NEW x \in Nat, x = Steps(a)[k]
        PROVE  Steps(a)[k + 1] = Behind(x)
    BY <2>1, <2>2
  <2> QED BY <2>1, <2>2
<1>2. Facts'
  BY <1>1, PTL
<1> QED BY <1>2

(* The same headers are read as long as they stay where they are. *)
LEMMA StepsStay ==
  ASSUME StoreTypeOK, StoreTypeOK', size' = size,
         \A a \in Sector : flash'[a].id = flash[a].id
  PROVE  /\ \A a, k \in Nat : Steps(a)'[k] = Steps(a)[k]
         /\ Found' = Found
<1>1. ASSUME NEW x \in Nat PROVE Behind(x)' = Behind(x)
  BY DEF Behind, IsHead
<1>2. ASSUME NEW a \in Nat PROVE \A k \in Nat : Steps(a)'[k] = Steps(a)[k]
  <2> DEFINE T == {k \in Nat : Steps(a)'[k] = Steps(a)[k]}
  <2>1. 0 \in T
    BY StepsFacts, StepsFactsNext
  <2>2. ASSUME NEW k \in Nat, k \in T PROVE k + 1 \in T
    <3>1. Steps(a)'[k] = Steps(a)[k] /\ Steps(a)[k] \in Nat
      BY <2>2, StepsFacts
    <3>2. PICK x \in Nat : x = Steps(a)[k]
      BY <3>1
    <3>3. Steps(a)[k + 1] = Behind(x)
      BY <3>2, StepsFacts
    <3>4. Steps(a)'[k + 1] = Behind(x)'
      <4>1. \A j, y \in Nat : y = Steps(a)'[j] => Steps(a)'[j + 1] = Behind(y)'
        BY StepsFactsNext
      <4>2. x = Steps(a)'[k]
        BY <3>1, <3>2
      <4> QED BY <4>1, <4>2
    <3> QED BY <1>1, <3>3, <3>4
  <2>3. \A k \in Nat : k \in T
    <3> HIDE DEF T
    <3> QED BY <2>1, <2>2, NumbersByInduction
  <2> QED BY <2>3
<1>3. \A a \in Sector : IsHead(a)' <=> IsHead(a)
  BY DEF IsHead
<1>4. \A k \in Sector : k \in Nat /\ Steps(0)'[k] = Steps(0)[k]
  BY <1>2, RingAssumption DEF Sector
<1> QED BY <1>2, <1>3, <1>4 DEF Found

(* What a search from a picture on reads was read by the scan as well.     *)
LEMMA SearchedIsFound ==
  ASSUME StoreTypeOK, NEW b \in Found, NEW k \in Nat, IsHead(Steps(b)[k])
  PROVE  Steps(b)[k] \in Found
<1>1. PICK m \in Sector : Steps(0)[m] = b
  BY DEF Found
<1>2. m \in Nat /\ b \in Nat /\ Sectors \in Nat
  BY RingAssumption DEF Found, Sector
<1> DEFINE from == Steps(b)
           scan == Steps(0)
           T == {j \in Nat : from[j] = scan[m + j]}
           U == {j \in Nat : j <= scan[j]}
<1>3. /\ from \in [Nat -> Nat] /\ from[0] = b
      /\ \A j \in Nat : from[j + 1] = Behind(from[j])
  BY <1>2, StepsFacts
<1>4. /\ scan \in [Nat -> Nat] /\ scan[0] = 0
      /\ \A j \in Nat : scan[j + 1] = Behind(scan[j]) /\ scan[j] < scan[j + 1]
  BY StepsFacts
<1>5. scan[m] = b
  BY <1>1
<1> HIDE DEF from, scan
<1>6. \A j \in Nat : j \in T
  <2>1. 0 \in T
    BY <1>2, <1>3, <1>5
  <2>2. ASSUME NEW j \in Nat, j \in T PROVE j + 1 \in T
    <3>1. m + j \in Nat /\ (m + j) + 1 = m + (j + 1)
      BY <1>2
    <3>2. from[j] = scan[m + j]
      BY <2>2
    <3>3. from[j + 1] = Behind(from[j]) /\ scan[(m + j) + 1] = Behind(scan[m + j])
      BY <1>3, <1>4, <3>1
    <3> QED BY <3>1, <3>2, <3>3
  <2> HIDE DEF T
  <2> QED BY <2>1, <2>2, NumbersByInduction
<1>7. \A j \in Nat : j \in U
  <2>1. 0 \in U
    BY <1>4
  <2>2. ASSUME NEW j \in Nat, j \in U PROVE j + 1 \in U
    <3>1. j <= scan[j] /\ scan[j] < scan[j + 1] /\ scan[j] \in Nat /\ scan[j + 1] \in Nat
      BY <1>4, <2>2
    <3> QED BY <3>1
  <2> HIDE DEF U
  <2> QED BY <2>1, <2>2, NumbersByInduction
<1>8. PICK i \in Nat : i = m + k
  BY <1>2
<1>9. PICK x \in Sector : x = scan[i] /\ x = from[k] /\ IsHead(x)
  <2>1. from[k] = scan[i]
    BY <1>6, <1>8
  <2>2. IsHead(from[k])
    BY DEF from
  <2> QED BY <2>1, <2>2 DEF IsHead
<1>10. i <= x
  BY <1>7, <1>9
<1>11. i \in Sector
  BY <1>2, <1>9, <1>10 DEF Sector
<1> QED BY <1>9, <1>11 DEF Found, from, scan

(* While no picture is being stored, the counter is at least the number of *)
(* pictures to send, as long as a search finds one.                        *)
Unsent == {a \in Found : flash[a].unsent}
Settled == save.pc \in {"idle", "taken"}
CountedInv ==
  Settled =>
    /\ number # 0 => first.addr \in Found
    /\ Hits # {} => Cardinality(Unsent) <= notsend

LEMMA CountedIsWaiting ==
  ASSUME StoreTypeOK, CountedInv
  PROVE  WaitingIsCounted
<1> SUFFICES ASSUME save.pc = "idle", NEW k \in Hits PROVE notsend # 0
  BY DEF WaitingIsCounted
<1> DEFINE a == Steps(first.addr)[k]
<1>1. number # 0 /\ k \in Nat /\ Untransmitted(a)
  BY DEF Hits, StoreTypeOK
<1>2. IsHead(a) /\ flash[a].unsent
  BY <1>1 DEF Untransmitted
<1>3. first.addr \in Found /\ Cardinality(Unsent) <= notsend
  BY <1>1 DEF CountedInv, Settled
<1>4. a \in Found
  BY <1>1, <1>2, <1>3, SearchedIsFound
<1>5. a \in Unsent
  BY <1>2, <1>4 DEF Unsent
<1>6. IsFiniteSet(Unsent) /\ Cardinality(Unsent) \in Nat
  BY FoundFacts, FS_Subset DEF Unsent
<1>7. Cardinality(Unsent) # 0
  BY <1>5, <1>6, FS_EmptySet
<1> QED BY <1>3, <1>6, <1>7 DEF StoreTypeOK

(* The summary stays, pictures are at most confirmed. *)
LEMMA CountKept ==
  ASSUME StoreTypeOK, StoreTypeOK', CountedInv, Settled' => Settled,
         UNCHANGED <<number, first, size>>,
         \A a \in Sector : /\ flash'[a].id = flash[a].id
                           /\ flash'[a].unsent => flash[a].unsent,
         Settled /\ Hits # {} /\ Cardinality(Unsent) <= notsend
           => Cardinality(Unsent') <= notsend'
  PROVE  CountedInv'
<1>1. Found' = Found /\ \A a, k \in Nat : Steps(a)'[k] = Steps(a)[k]
  BY StepsStay
<1>2. ASSUME NEW k \in Hits' PROVE k \in Hits
  <2>1. k \in 0 .. number - 1 /\ k \in Nat /\ first.addr \in Nat
    BY RingAssumption DEF Hits, StoreTypeOK, Sector
  <2> DEFINE b == Steps(first.addr)[k]
  <2>2. PICK a : a = b
    OBVIOUS
  <2>3. a = Steps(first.addr)'[k]
    BY <1>1, <2>1, <2>2
  <2>4. Untransmitted(a)'
    <3>1. Untransmitted(Steps(first.addr)[k])'
      BY DEF Hits
    <3> QED BY <3>1, <2>3
  <2>5. Untransmitted(a)
    BY <2>4 DEF Untransmitted, IsHead
  <2> QED BY <2>1, <2>2, <2>5 DEF Hits
<1>3. Settled' /\ Hits' # {} => Settled /\ Hits # {}
  BY <1>2
<1>4. Settled' /\ number' # 0 => first'.addr \in Found'
  BY <1>1 DEF CountedInv
<1>5. Settled' /\ Hits' # {} => Cardinality(Unsent') <= notsend'
  BY <1>3 DEF CountedInv
<1> QED BY <1>4, <1>5 DEF CountedInv

LEMMA CountScanned ==
  ASSUME StoreTypeOK, StoreTypeOK', Scanned, UNCHANGED <<flash, size>>
  PROVE  CountedInv'
<1>1. Found' = Found
  BY StepsStay
<1>2. CASE Found = {}
  <2>1. number' = 0
    BY <1>2 DEF Scanned, Cleared
  <2>2. Hits' = {}
    BY <2>1 DEF Hits
  <2> QED BY <2>1, <2>2 DEF CountedInv
<1>3. CASE Found # {}
  <2> DEFINE old == CHOOSE a \in Found : \A b \in Found : flash[a].id <= flash[b].id
  <2>1. notsend' = Cardinality(Unsent) /\ first'.addr = old
    BY <1>3 DEF Scanned, Unsent
  <2>2. old \in Found
    <3> DEFINE ids == {flash[a].id : a \in Found}
    <3>1. ids \subseteq Nat /\ ids # {}
      BY <1>3, FoundFacts DEF Ids
    <3>2. PICK i \in ids : \A j \in ids : i <= j
      <4> HIDE DEF ids
      <4> QED BY <3>1, SmallestOf
    <3>3. \E a \in Found : \A b \in Found : flash[a].id <= flash[b].id
      BY <3>2
    <3> QED BY <3>3
  <2> HIDE DEF old
  <2>3. Unsent' = Unsent
    BY <1>1 DEF Unsent
  <2>4. Cardinality(Unsent') <= notsend'
    <3>1. Cardinality(Unsent) \in Nat
      BY FoundFacts DEF Unsent
    <3> QED BY <2>1, <2>3, <3>1
  <2> QED BY <1>1, <2>1, <2>2, <2>4 DEF CountedInv
<1> QED BY <1>2, <1>3

LEMMA CountTransOk ==
  ASSUME StoreTypeOK, StoreTypeOK', CountedInv, NEW id, TransOkSet(id),
         UNCHANGED <<number, first, size, save>>
  PROVE  CountedInv'
<1>1. CASE UNCHANGED <<flash, notsend>>
  <2>1. Found' = Found
    BY <1>1, StepsStay
  <2>2. Unsent' = Unsent
    BY <1>1, <2>1 DEF Unsent
  <2> QED BY <1>1, <2>2, CountKept DEF Settled
<1>2. CASE ~UNCHANGED <<flash, notsend>>
  <2>1. PICK h \in Places(id) : flash[h].unsent /\ flash' = [flash EXCEPT ![h].unsent = FALSE]
    BY <1>2 DEF TransOkSet
  <2>2. notsend' = IF notsend > 0 THEN notsend - 1 ELSE 0
    BY <1>2 DEF TransOkSet
  <2>3. h \in Found /\ h \in Sector
    BY FoundFacts DEF Places
  <2>4. \A a \in Sector : /\ flash'[a].id = flash[a].id
                          /\ flash'[a].unsent = (a # h /\ flash[a].unsent)
    BY <2>1, <2>3 DEF StoreTypeOK
  <2>5. Found' = Found
    BY <2>4, StepsStay
  <2>6. Unsent' = Unsent \ {h} /\ h \in Unsent
    <3>1. \A a \in Found : a \in Sector
      BY FoundFacts
    <3> QED BY <2>1, <2>3, <2>4, <2>5, <3>1 DEF Unsent
  <2>7. IsFiniteSet(Unsent) /\ Cardinality(Unsent) \in Nat
    BY FoundFacts, FS_Subset DEF Unsent
  <2>8. Cardinality(Unsent') = Cardinality(Unsent) - 1
    BY <2>6, <2>7, FS_RemoveElement
  <2>9. Cardinality(Unsent) # 0
    BY <2>6, <2>7, FS_EmptySet
  <2>10. Cardinality(Unsent) <= notsend => Cardinality(Unsent') <= notsend'
    BY <2>2, <2>7, <2>8, <2>9 DEF StoreTypeOK
  <2> QED BY <2>4, <2>10, CountKept DEF Settled
<1> QED BY <1>1, <1>2

LEMMA CountStep ==
  ASSUME PictureInv, CountedInv, [Next]_vars
  PROVE  CountedInv'
<1>1. StoreTypeOK /\ StoreTypeOK'
  BY StoreStep DEF PictureInv
<1>2. CASE UNCHANGED <<flash, para, size>> /\ (Settled' => Settled)
  <2>1. Found' = Found
    BY <1>1, <1>2, StepsStay
  <2>2. Unsent' = Unsent
    BY <1>2, <2>1 DEF Unsent
  <2> QED BY <1>1, <1>2, <2>2, CountKept DEF para
<1>3. CASE UNCHANGED storevars
  <2>1. UNCHANGED <<flash, para, size>> /\ (Settled' => Settled)
    BY <1>3 DEF storevars, Settled
  <2> QED BY <1>2, <2>1
<1>4. CASE Reset
  BY <1>1, <1>4, CountScanned DEF Reset, StoreRestart
<1>5. CASE GetPicture
  <2>1. UNCHANGED <<flash, number, first, size, save>>
        /\ (notsend' = notsend \/ Hits = {})
    BY <1>5 DEF GetPicture
  <2>2. Found' = Found
    BY <1>1, <2>1, StepsStay
  <2>3. Unsent' = Unsent
    BY <2>1, <2>2 DEF Unsent
  <2> QED BY <1>1, <2>1, <2>3, CountKept DEF Settled
<1>6. CASE RxApply
  <2>1. UNCHANGED <<number, first, last, save, size>>
    BY <1>6 DEF RxApply
  <2>2. CASE UNCHANGED <<flash, notsend>>
    BY <1>3, <2>1, <2>2 DEF storevars, para
  <2>3. CASE ~UNCHANGED <<flash, notsend>>
    <3>1. TransOkSet(heap[rx.node].pic)
      BY <1>6, <2>3, RxCases DEF Confirmed, PictureInv
    <3> QED BY <1>1, <2>1, <3>1, CountTransOk
  <2> QED BY <2>2, <2>3
<1>7. CASE Save
  <2>1. CASE SaveScan
    BY <1>1, <2>1, CountScanned DEF SaveScan
  <2>2. CASE ~SaveScan
    <3>1. save \in [pc : SaveSteps, addr : Sector, left : 0 .. Sectors]
      BY <1>1 DEF StoreTypeOK
    <3>2. SaveBegin => save'.pc = "erase"
      BY DEF SaveBegin
    <3>3. SaveErase => save'.pc = "write"
      BY <3>1 DEF SaveErase
    <3>4. SaveWrite => save'.pc \in {"erase", "reset"}
      BY <3>1 DEF SaveWrite
    <3>5. SaveReset => save'.pc = "scan"
      BY <3>1 DEF SaveReset
    <3>6. ~Settled'
      BY <1>7, <2>2, <3>2, <3>3, <3>4, <3>5 DEF Save, SaveStep, Settled
    <3> QED BY <3>6 DEF CountedInv
  <2> QED BY <2>1, <2>2
<1>8. CASE SaveTaken
  BY <1>2, <1>8 DEF SaveTaken, Settled
<1>9. CASE UNCHANGED vars
  BY <1>3, <1>9 DEF vars
<1> QED BY <1>3, <1>4, <1>5, <1>6, <1>7, <1>8, <1>9
        DEF Next, GsmProcess, SendBegin, SendEnd, Timeout, TimeoutEnd, Remove, RxFind,
            Asked, PlatformConfirms, AnswerLost, GoesOnline, GoesOffline, Restart

(* As long as a picture waits that a search would find, the counter that   *)
(* starts the search is not zero, although three threads set it without a  *)
(* lock (jt808_camera.c:829, camera.c:466, camera.c:139).                  *)
THEOREM WaitingStaysCounted == Spec => []WaitingIsCounted
<1>1. Init => CountedInv
  <2>1. Init => number = 0
    BY DEF Init, StoreInit
  <2>2. number = 0 => Hits = {}
    BY DEF Hits
  <2> QED BY <2>1, <2>2 DEF CountedInv
<1>2. PictureInv /\ CountedInv /\ [Next]_vars => CountedInv'
  BY CountStep
<1>3. PictureInv /\ CountedInv => WaitingIsCounted
  BY CountedIsWaiting DEF PictureInv
<1> QED BY InvHolds, <1>1, <1>2, <1>3, PTL DEF Spec

=============================================================================
