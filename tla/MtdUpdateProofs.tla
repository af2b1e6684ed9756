-------------------------- MODULE MtdUpdateProofs --------------------------
(***************************************************************************)
(* MtdWrite implements FirmwareUpdate in plain use, and leaves no hole     *)
(* between two blocks of the image.  With -j it keeps the configuration it *)
(* appends and the image before it, in order and without a hole, a flash   *)
(* that is torn meanwhile is flagged, and as long as no header is put      *)
(* right it implements FirmwareUpdate, too.                                *)
(***************************************************************************)
EXTENDS MtdWriteProofs, FiniteSetTheorems

(***************************************************************************)
(* FirmwareUpdate.  A step that is not WriteBlock leaves the image on the  *)
(* flash as it is, so it can at most touch the old firmware; WriteBlock    *)
(* goes on from a torn flash, and can only complete it.                    *)
(***************************************************************************)
\* The image has a chunk, and mtd can read it: without the first, mtd -f returns 0
\* for an empty image and has written nothing; without the second, a read error
\* ends the image.
Readable == ImageLen > 0 /\ "read" \notin Faults

\* The flash is touched for good: nothing brings the old contents back.
LEMMA DirtyForGood ==
    ASSUME PlainUse, TypeOK, Frontier, Next, NEW b \in Blocks, flash[b] # Old
    PROVE  flash'[b] # Old
<1> USE DEF Old, Blank, Junk, Data
<1>1. CASE EraseBlock \/ EraseFails
  <2>1. CASE UNCHANGED flash
    BY <2>1
  <2>2. CASE \E c \in {flash[Target], Junk, Blank} : flash' = [flash EXCEPT ![Target] = c]
    BY <2>2 DEF TypeOK
  <2> QED
    BY <1>1, <2>1, <2>2 DEF EraseBlock, EraseFails, EraseFailed
<1>2. CASE Spill
  <2>1. pos \in Nat /\ e \in Nat /\ w \in Nat /\ skipBad \in Nat
    BY DEF TypeOK
  <2>2. AtFrontier /\ ~Nand
    BY <1>2, <2>1, BlockFacts DEF Spill, ReachesErase, Short, Frontier, AtFrontier, Ready,
                                  PlainUse, Parts, TypeOK
  <2>3. w = e
    BY <2>1, <2>2 DEF AtFrontier, Frontier
  <2> QED
    BY <1>2, <2>3 DEF Spill, TypeOK
<1>3. CASE WriteBlock \/ WriteFails
  BY <1>3 DEF WriteBlock, WriteFails, Programmed, TypeOK
<1>4. CASE PowerCut
  BY <1>4 DEF PowerCut, TypeOK
<1>5. CASE PreErase
  <2>1. ASSUME NEW t, NEW c \in {flash[t], Junk, Blank}, flash' = [flash EXCEPT ![t] = c]
        PROVE  flash'[b] # Old
    BY <2>1 DEF TypeOK
  <2> QED
    BY <1>5, <2>1 DEF PreErase, EraseFailed
<1>6. CASE Configure \/ Fix
  BY <1>6 DEF Configure, StartAppend, AppendSkipsBad, AppendErases, AppendWrites, EndAppend,
              AtMarker, Fix, FixErases, FixWrites, Frontier
<1> QED
  BY <1>1, <1>2, <1>3, <1>4, <1>5, <1>6
  DEF Next, Program, Main, Read, Room, Put, CheckImage, OpenPart, FlagErase, FlagWrite,
      Finish, ReadChunk, EndFill, DropBlock, KeepBlock, BadQueryFails, SkipBadBlock,
      RoomMade, Stopped, vars, flashVars

\* Without -j there is no configuration to be missed.
LEMMA PlainSavesAll == ASSUME PlainUse PROVE Unsaved = {} /\ Unsaved' = {}
BY DEF Unsaved, Replaced, PlainUse

\* Something of the image on the flash means that it was touched.
LEMMA StoredIsDirty == ASSUME ImageLen > 0, PlainUse, Missing = {} PROVE Dirty
<1>1. ImageLen \in Nat
  BY NumberAssumption
<1>2. 1 \in 1 .. ImageLen
  BY <1>1
<1>3. PICK b \in Blocks : 1 \in ChunksOn(b)
  BY <1>2 DEF Missing, PlainUse, Replaced
<1>4. flash[b] # Old
  BY <1>3 DEF ChunksOn, Old
<1> QED
  BY <1>4 DEF Dirty

\* What a step that keeps the image does to the firmware.
LEMMA OthersTear ==
    ASSUME PlainUse, ImageLen > 0, TypeOK, Frontier, KeepsData, Next
    PROVE  /\ Missing' = Missing
           /\ firmware' = firmware \/ (firmware = "old" /\ firmware' = "torn")
<1>1. Missing' = Missing
  BY ChunksKept DEF Missing, PlainUse, Replaced
<1>2. Dirty => Dirty'
  BY DirtyForGood DEF Dirty
<1>3. ~Dirty => Missing # {}
  BY StoredIsDirty
<1> QED
  BY <1>1, <1>2, <1>3, PlainSavesAll DEF firmware

\* What writing a block of the image does to it.
LEMMA WriteInstalls ==
    ASSUME PlainUse, ImageLen > 0, TypeOK, Frontier, Store, WriteBlock
    PROVE  firmware' = firmware \/ (firmware = "torn" /\ firmware' = "new")
<1>1. Here \in Blocks /\ flash[Here] = Blank
  BY BlockFacts, SMTT(60) DEF WriteBlock, Frontier, Ready, Here, TypeOK
<1>2. Dirty
  BY <1>1 DEF Dirty, Old, Blank
<1>3. Dirty'
  BY <1>1, <1>2, DirtyForGood DEF Dirty, Next, Program, Put
<1>4. \A b \in Blocks : ChunksOn(b) \subseteq ChunksOn(b)'
  <2> SUFFICES ASSUME NEW b \in Blocks PROVE ChunksOn(b) \subseteq ChunksOn(b)'
    OBVIOUS
  <2>1. CASE b = Here
    BY <1>1, <2>1 DEF ChunksOn, Blank
  <2>2. CASE b # Here
    BY <2>2 DEF WriteBlock, ChunksOn, TypeOK
  <2> QED
    BY <2>1, <2>2
<1>5. Missing' \subseteq Missing
  BY <1>4 DEF Missing, PlainUse, Replaced
<1> QED
  BY <1>2, <1>3, <1>5, PlainSavesAll DEF firmware

\* A read never fails.
ReadsWell == readErr = FALSE

LEMMA ReadsWellStep ==
    ASSUME Readable, ReadsWell, [Next]_vars PROVE ReadsWell'
<1>1. CASE CheckImage \/ EndFill
  <2>1. ImageLen # 0
    BY DEF Readable
  <2> QED
    BY <1>1, <2>1 DEF CheckImage, EndFill, ReadStops, Readable, ReadsWell
<1>2. CASE ~(CheckImage \/ EndFill)
  BY <1>2 DEF ReadsWell, Next, Program, Main, Read, Configure, Room, Put, Fix, PreErase,
     OpenPart, FlagErase, FlagWrite, Finish, ReadChunk, DropBlock, KeepBlock, StartAppend,
     AppendSkipsBad, AppendErases, AppendWrites, EndAppend, BadQueryFails, SkipBadBlock,
     EraseBlock, EraseFails, Spill, RoomMade, WriteBlock, WriteFails, FixErases, FixWrites,
     PowerCut, Stopped, vars, imageVars
<1> QED
  BY <1>1, <1>2

\* How the exit status moves: it is set once, with the flash complete if it is 0.
LEMMA StatusMoves ==
    ASSUME Next, pc \notin {"done", "off"} => result = "running",
           pc \in {"finish", "clr_write"} => Missing = {}
    PROVE  \/ status' = status /\ (flash' # flash => status = "running")
           \/ status = "running" /\ status' \in {"failed", "off"}
           \/ status = "running" /\ status' = "ok" /\ Missing = {} /\ UNCHANGED flash
<1>1. CASE Stopped
  BY <1>1 DEF Stopped, vars, flashVars, status
<1>2. pc \notin {"done", "off"} => result = "running"
  OBVIOUS
<1>3. CASE PowerCut
  BY <1>2, <1>3 DEF PowerCut, status
<1>4. CASE Program
  <2>1. pc \notin {"done", "off"}
    BY <1>4 DEF Program, Main, Read, Configure, Room, Put, Fix, CheckImage, PreErase, OpenPart,
         FlagErase, FlagWrite, Finish, ReadChunk, EndFill, DropBlock, KeepBlock, StartAppend,
         AppendSkipsBad, AppendErases, AppendWrites, EndAppend, BadQueryFails, SkipBadBlock,
         EraseBlock, EraseFails, Spill, RoomMade, ReachesErase, WriteBlock, WriteFails,
         FixErases, FixWrites
  <2>2. status = "running" /\ result = "running"
    BY <1>2, <2>1 DEF status
  <2>3. CASE Finish \/ FlagWrite
    <3>1. UNCHANGED flash /\ pc \in {"finish", "set_write", "clr_write"}
      BY <2>3 DEF Finish, FlagWrite, flashVars
    <3>2. \/ pc' # "off" /\ result' = "running"
          \/ pc' = "done" /\ result' = "failed"
          \/ pc' = "done" /\ result' = "ok" /\ pc \in {"finish", "clr_write"}
      BY <2>2, <2>3 DEF Finish, FlagWrite, Fail
    <3> QED
      BY <2>2, <3>1, <3>2 DEF status
  <2>4. CASE ~(Finish \/ FlagWrite)
    <3>1. pc' # "off" /\ result' \in {"running", "failed"}
      BY <1>4, <2>1, <2>2, <2>4
      DEF Program, Main, Read, Configure, Room, Put, Fix, CheckImage, Checked, PreErase,
          OpenPart, FlagErase, ReadChunk, EndFill, AfterImage, DropBlock, KeepBlock,
          StartAppend, AppendSkipsBad, AppendErases, AppendWrites, EndAppend, BadQueryFails,
          SkipBadBlock, EraseBlock, EraseFails, Spill, RoomMade, WriteBlock, WriteFails,
          FixErases, FixWrites, Fail
    <3> QED
      BY <2>2, <3>1 DEF status
  <2> QED
    BY <2>3, <2>4
<1> QED
  BY <1>1, <1>3, <1>4 DEF Next

LEMMA UpdateStep ==
    ASSUME PlainUse, Readable, TypeOK, Frontier, Store, ReadsWell, [Next]_vars
    PROVE  [Update!Next]_(Update!vars)
<1> USE DEF Update!Next, Update!vars, Update!Tear, Update!Install, Update!Succeed,
            Update!GiveUp, Update!Lose, Update!End, Update!Progress
<1>1. CASE UNCHANGED vars
  <2>1. flash' = flash /\ Missing' = Missing /\ pc' = pc /\ result' = result
    BY <1>1 DEF vars, flashVars, cfgVars, Missing, Replaced, ChunksOn
  <2>2. firmware' = firmware /\ status' = status
    BY <2>1, PlainSavesAll DEF firmware, status, Dirty
  <2> QED
    BY <2>2
<1>2. CASE Next
  <2>1. ImageLen > 0
    BY DEF Readable
  <2>2. flash' = flash => firmware' = firmware
    BY PlainSavesAll DEF firmware, Dirty, Missing, ChunksOn, PlainUse, Replaced
  <2>3. CASE WriteBlock
    <3>1. firmware' = firmware \/ (firmware = "torn" /\ firmware' = "new")
      BY <2>1, <2>3, WriteInstalls
    <3>2. status = "running" /\ status' = "running"
      BY <2>3 DEF WriteBlock, status, Store
    <3> QED
      BY <3>1, <3>2
  <2>4. CASE ~WriteBlock
    <3>1. firmware' = firmware \/ (firmware = "old" /\ firmware' = "torn")
      BY <1>2, <2>1, <2>4, OthersKeepData, OthersTear
    <3>2. CASE status' = status /\ (flash' # flash => status = "running")
      BY <2>2, <3>1, <3>2
    <3>3. CASE status = "running" /\ status' \in {"failed", "off"}
      BY <3>1, <3>3
    <3>4. CASE status = "running" /\ status' = "ok" /\ Missing = {} /\ UNCHANGED flash
      <4>1. firmware = "new"
        BY <2>1, <3>4, StoredIsDirty, PlainSavesAll DEF firmware
      <4> QED
        BY <2>2, <3>4, <4>1
    <3>5. pc \in {"finish", "clr_write"} => Missing = {}
      BY NothingMissing DEF ReadsWell
    <3>6. pc \notin {"done", "off"} => result = "running"
      BY DEF Store
    <3> QED
      BY <1>2, <3>2, <3>3, <3>4, <3>5, <3>6, StatusMoves
  <2> QED
    BY <2>3, <2>4
<1> QED
  BY <1>1, <1>2

\* In plain use, with an image that can be read, mtd is FirmwareUpdate: the firmware
\* goes from old over torn to new and never back, whatever erase, write, open or flag
\* operation fails and whenever power goes, and the exit status is 0 only for the new
\* one.
THEOREM UpdateIsImplemented == ASSUME PlainUse, Readable PROVE Spec => Implements
<1>1. Init => Update!Init /\ ReadsWell
  BY DEF Init, Update!Init, firmware, status, Dirty, ReadsWell
<1>2. ReadsWell /\ [Next]_vars => ReadsWell'
  BY ReadsWellStep
<1>3. TypeOK /\ Frontier /\ Store /\ ReadsWell /\ [Next]_vars => [Update!Next]_(Update!vars)
  BY UpdateStep
<1> QED
  BY <1>1, <1>2, <1>3, TypeCorrect, FrontierInv, StoreInv, PTL DEF Spec, Implements, Update!Spec

-----------------------------------------------------------------------------
(***************************************************************************)
(* No hole.  Bad blocks are looked up at e and written to at e+part_offset *)
(* (mtd.c), so on NAND the image is without holes only from offset 0.      *)
(***************************************************************************)
\* Block b is in the range that -p leaves to the image.
InRange(b) == PartOffset <= b[2]

\* Below a block of the image, and below the file offset, every block that may be
\* used is: it holds image, or it is bad.
Used(b) == IsData(b) \/ b \in bad

Solid ==
    /\ \A b \in Blocks : flash[b].kind # "cfg" /\ (IsData(b) => InRange(b))
    /\ \A b, c \in Blocks :
          IsData(c) /\ b[1] = c[1] /\ b[2] < c[2] /\ InRange(b) => Used(b)
    /\ pc \notin {"open", "done", "off"} =>
          \A b \in Blocks : b[1] = part /\ b[2] < pos /\ InRange(b) => Used(b)

\* The use in which the two block numbers agree.
Aligned == Nand => PartOffset = 0

LEMMA SolidInit == ASSUME Init PROVE Solid
<1>1. \A b \in Blocks : flash[b].kind = "old"
  BY DEF Init, Old
<1>2. pos = 0 /\ \A b \in Blocks : ~(b[2] < 0)
  BY BlockFacts DEF Init
<1> QED
  BY <1>1, <1>2 DEF Solid, IsData

\* No step of plain use puts a configuration on the flash.
LEMMA NoConfig ==
    ASSUME PlainUse, TypeOK, Frontier, Solid, Next, NEW b \in Blocks
    PROVE  flash'[b].kind # "cfg"
<1> USE DEF Old, Blank, Junk, Data
<1>0. flash[b].kind # "cfg"
  BY DEF Solid
<1>1. CASE EraseBlock \/ EraseFails
  <2>1. CASE UNCHANGED flash
    BY <1>0, <2>1
  <2>2. CASE \E c \in {flash[Target], Junk, Blank} : flash' = [flash EXCEPT ![Target] = c]
    BY <1>0, <2>2 DEF TypeOK
  <2> QED
    BY <1>1, <2>1, <2>2 DEF EraseBlock, EraseFails, EraseFailed
<1>2. CASE Spill
  BY <1>0, <1>2 DEF Spill, Spilled, TypeOK
<1>3. CASE WriteBlock \/ WriteFails
  BY <1>0, <1>3 DEF WriteBlock, WriteFails, Programmed, TypeOK
<1>4. CASE PowerCut
  BY <1>0, <1>4 DEF PowerCut, TypeOK
<1>5. CASE PreErase
  BY <1>0, <1>5 DEF PreErase, EraseFailed, TypeOK
<1>6. CASE Configure \/ Fix
  BY <1>6 DEF Configure, StartAppend, AppendSkipsBad, AppendErases, AppendWrites, EndAppend,
              AtMarker, Fix, FixErases, FixWrites, Frontier
<1> QED
  BY <1>0, <1>1, <1>2, <1>3, <1>4, <1>5, <1>6
  DEF Next, Program, Main, Read, Room, Put, CheckImage, OpenPart, FlagErase, FlagWrite,
      Finish, ReadChunk, EndFill, DropBlock, KeepBlock, BadQueryFails, SkipBadBlock,
      RoomMade, Stopped, vars, flashVars

\* Every step but WriteBlock keeps the image, and only three move the file offset.
LEMMA OffsetMoves ==
    ASSUME PlainUse, TypeOK, Frontier, Next, pc' \notin {"open", "done", "off"},
           ~WriteBlock, ~SkipBadBlock, ~OpenPart
    PROVE  part' = part /\ pos' = pos /\ (pc = "open" => FALSE) /\ pc \notin {"done", "off"}
BY DEF Next, Program, Main, Read, Configure, Room, Put, Fix, CheckImage, Checked, Fail,
       PreErase, FlagErase, FlagWrite, Finish, ReadChunk, EndFill, DropBlock, KeepBlock,
       StartAppend, AppendSkipsBad, AppendErases, AppendWrites, EndAppend, AtMarker,
       BadQueryFails, EraseBlock, EraseFails, Spill, RoomMade, ReachesErase, WriteFails,
       FixErases, FixWrites, PowerCut, Stopped, Frontier, vars, writeVars

LEMMA BadIsFixed ==
    ASSUME [Next]_vars PROVE bad' = bad
BY DEF Next, Program, Main, Read, Configure, Room, Put, Fix, CheckImage, PreErase, OpenPart,
       FlagErase, FlagWrite, Finish, ReadChunk, EndFill, DropBlock, KeepBlock, StartAppend,
       AppendSkipsBad, AppendErases, AppendWrites, EndAppend, BadQueryFails, SkipBadBlock,
       EraseBlock, EraseFails, Spill, RoomMade, WriteBlock, WriteFails, FixErases,
       FixWrites, PowerCut, Stopped, vars, flashVars

LEMMA SolidStep ==
    ASSUME PlainUse, Aligned, TypeOK, Frontier, Store, Solid, [Next]_vars
    PROVE  Solid'
<1>0. bad' = bad
  BY BadIsFixed
<1>1. CASE UNCHANGED vars
  BY <1>1 DEF Solid, Used, IsData, InRange, vars, flashVars, writeVars
<1> SUFFICES ASSUME Next PROVE Solid'
  BY <1>1
<1>2. \A b \in Blocks : flash'[b].kind # "cfg"
  BY NoConfig
<1>3. part \in Parts /\ Size[part] \in Nat /\ pos \in Nat /\ e \in Nat /\ w \in Nat /\ skipBad \in Nat
  BY BlockFacts DEF TypeOK
<1>4. CASE WriteBlock
  <2>1. pc = "write" /\ Here \in Blocks /\ flash[Here] = Blank /\ Here \notin bad
        /\ PartOffset <= pos
    BY <1>3, <1>4, BlockFacts, NumberAssumption DEF WriteBlock, Frontier, Ready, Here
  <2>2. flash' = [flash EXCEPT ![Here] = Data(buf)] /\ part' = part /\ pos' = pos + 1
    BY <1>4, <2>1 DEF WriteBlock, Frontier, Programmed
  <2>3. \A b \in Blocks : IsData(b)' <=> IsData(b) \/ b = Here
    BY <2>1, <2>2, KindFacts DEF IsData, TypeOK
  <2>4. \A b \in Blocks : Used(b)' <=> Used(b) \/ b = Here
    BY <1>0, <2>3 DEF Used
  <2>5. \A b \in Blocks : b[1] = part /\ b[2] < pos /\ InRange(b) => Used(b)
    BY <2>1 DEF Solid
  <2>6. Here[1] = part /\ Here[2] = pos
    BY DEF Here
  <2>7. \A b \in Blocks : b[1] = part /\ b[2] = pos => b = Here
    BY BlockFacts DEF Here, Blocks
  <2>8. \A b, c \in Blocks :
          IsData(c)' /\ b[1] = c[1] /\ b[2] < c[2] /\ InRange(b) => Used(b)'
    BY <2>3, <2>4, <2>5, <2>6 DEF Solid
  <2>9. \A b \in Blocks : b[1] = part /\ b[2] < pos + 1 /\ InRange(b) => Used(b)'
    <3> SUFFICES ASSUME NEW b \in Blocks, b[1] = part, b[2] < pos + 1, InRange(b)
                 PROVE  Used(b)'
      OBVIOUS
    <3>1. b[2] < pos \/ b[2] = pos
      BY <1>3, BlockFacts
    <3> QED
      BY <2>4, <2>5, <2>7, <3>1
  <2>10. \A b \in Blocks : IsData(b)' => InRange(b)
    BY <2>1, <2>3, <2>6 DEF Solid, InRange
  <2> QED
    BY <1>2, <2>2, <2>8, <2>9, <2>10 DEF Solid, InRange
<1>5. CASE ~WriteBlock
  <2>1. KeepsData
    BY <1>5, OthersKeepData
  <2>2. \A b \in Blocks : IsData(b)' <=> IsData(b)
    BY <2>1, ChunksKept
  <2>3. \A b \in Blocks : Used(b)' <=> Used(b)
    BY <1>0, <2>2 DEF Used
  <2>4. \A b, c \in Blocks :
          IsData(c)' /\ b[1] = c[1] /\ b[2] < c[2] /\ InRange(b) => Used(b)'
    BY <2>2, <2>3 DEF Solid
  <2>5. \A b \in Blocks : IsData(b)' => InRange(b)
    BY <2>2 DEF Solid
  <2>6. CASE SkipBadBlock
    <3>1. pc = "room" /\ <<part, e>> \in bad /\ part' = part /\ pos' = Advance(part, pos, pos + 1)
      BY <2>6 DEF SkipBadBlock
    <3>2. Nand /\ PartOffset = 0 /\ e < Size[part]
      BY <1>3, <3>1, BlockFacts DEF Frontier, TypeOK, Aligned
    <3>3. AtFrontier
      BY <1>3, <2>6, <3>1 DEF SkipBadBlock, Short, Frontier, Ready
    <3>4. pos = e /\ pos' = pos + 1
      BY <1>3, <3>1, <3>2, <3>3 DEF AtFrontier, Advance
    <3>5. \A b \in Blocks : b[1] = part /\ b[2] < pos + 1 /\ InRange(b) => Used(b)
      <4> SUFFICES ASSUME NEW b \in Blocks, b[1] = part, b[2] < pos + 1, InRange(b)
                   PROVE  Used(b)
        OBVIOUS
      <4>1. b[2] < pos \/ b[2] = pos
        BY <1>3, BlockFacts
      <4>2. b[2] = pos => b = <<part, e>>
        BY <3>4, BlockFacts DEF Blocks
      <4> QED
        BY <3>1, <4>1, <4>2 DEF Solid, Used
    <3> QED
      BY <1>2, <2>5, <2>3, <2>4, <3>1, <3>4, <3>5 DEF Solid, InRange
  <2>7. CASE OpenPart
    <3>1. pc' = "done" \/ pos' = Advance(part, 0, PartOffset)
      BY <2>7 DEF OpenPart, Fail
    <3>2. pos' = Advance(part, 0, PartOffset) => pos' <= PartOffset
      BY <1>3, NumberAssumption DEF Advance
    <3>3. pc' = "done" \/ \A b \in Blocks : b[2] < pos' => ~InRange(b)
      <4> SUFFICES ASSUME pos' = Advance(part, 0, PartOffset), NEW b \in Blocks, b[2] < pos'
                   PROVE  ~InRange(b)
        BY <3>1
      <4>1. pos' \in Nat /\ PartOffset \in Nat
        BY <1>3, NumberAssumption, Zenon DEF Advance
      <4>2. b[2] \in Nat
        BY BlockFacts
      <4> QED
        BY <3>2, <4>1, <4>2 DEF InRange
    <3> QED
      BY <1>2, <2>5, <2>4, <3>3 DEF Solid, InRange
  <2>8. CASE pc' \in {"open", "done", "off"}
    BY <1>2, <2>5, <2>4, <2>8 DEF Solid, InRange
  <2>9. CASE pc' \notin {"open", "done", "off"} /\ ~SkipBadBlock /\ ~OpenPart
    <3>1. part' = part /\ pos' = pos /\ pc \notin {"open", "done", "off"}
      BY <1>5, <2>9, OffsetMoves
    <3> QED
      BY <1>2, <2>5, <2>3, <2>4, <3>1 DEF Solid, InRange
  <2> QED
    BY <2>6, <2>7, <2>8, <2>9
<1> QED
  BY <1>4, <1>5

\* In plain use, and on NAND with no -p, only bad blocks are left out between two
\* blocks of the image, in every partition and at every moment: a reader that steps
\* over bad blocks reads the image (NoHole).
THEOREM OnlyBadLeftOut == ASSUME PlainUse, Aligned PROVE Spec => []NoHole
<1>1. TypeOK /\ Frontier /\ Store /\ Solid /\ [Next]_vars => Solid'
  BY SolidStep
<1>2. Solid => NoHole
  <2> SUFFICES ASSUME Solid,
                      NEW p \in Parts, NEW i \in 0 .. Size[p] - 1, NEW j \in 0 .. Size[p] - 1,
                      NEW k \in 0 .. Size[p] - 1, i < j, j < k,
                      Holds(<<p, i>>), Holds(<<p, k>>)
               PROVE  Holds(<<p, j>>) \/ <<p, j>> \in bad
    BY Zenon DEF NoHole
  <2>1. <<p, i>> \in Blocks /\ <<p, j>> \in Blocks /\ <<p, k>> \in Blocks
    BY BlockFacts
  <2>2. IsData(<<p, i>>) /\ IsData(<<p, k>>)
    BY <2>1 DEF Holds, Solid, IsData
  <2>3. PartOffset <= i
    BY <2>1, <2>2 DEF Solid, InRange
  <2>4. PartOffset <= j
    BY <2>3, NumberAssumption, BlockFacts
  <2>5. Used(<<p, j>>)
    BY <2>1, <2>2, <2>4 DEF Solid, InRange
  <2> QED
    BY <2>5 DEF Used, IsData, Holds
<1> QED
  BY <1>1, <1>2, SolidInit, TypeCorrect, FrontierInv, StoreInv, PTL DEF Spec

-----------------------------------------------------------------------------
(***************************************************************************)
(* The appended configuration (-j).  pad() looks at the result of neither  *)
(* the erase nor the write, so the configuration is only safe where both   *)
(* work: no worn-out block, no failing write, and a device that tells the  *)
(* end of its blocks, as NAND does when it is asked for a bad one.  And    *)
(* pad() steps over every bad block only if no -t partition, smaller than  *)
(* the image's, is the one that mtdsize is the size of.                    *)
(***************************************************************************)
ConfigUse ==
    /\ Nand /\ NParts = 1 /\ PartOffset = 0 /\ ~NoErase
    /\ MaxWorn = 0 /\ "write" \notin Faults
    /\ UseFlag => Size[1] <= FlagSize

\* The file offset is the erase frontier, which is where the next block goes.
InStep == pos = e /\ e = w + skipBad

\* One block is erased, good, and next to be written.
Cleared ==
    /\ e = w + skipBad + 1 /\ pos + 1 = e
    /\ pos < Size[part] /\ flash[Here] = Blank /\ Here \notin bad

\* Block i of the configuration is on the flash, behind the file offset.
Saved(i) == \E b \in Blocks : flash[b] = Cfg(i) /\ b[2] < pos

ConfigInv ==
    /\ worn = {} /\ offset = 0
    /\ cfgLeft => UseCfg
    /\ result # "running" => pc = "done"
    /\ pc \in {"check", "pre_erase", "open", "set_erase", "set_write"} => cfgLeft = UseCfg
    /\ pc \in {"j_pad", "j_write"} => cfgLeft
    /\ pc \in {"check", "pre_erase", "open"} => skipBad = 0
    /\ pc \in {"set_erase", "set_write", "fill", "have", "fix_erase", "fix_write",
             "finish"} => InStep
    /\ pc = "room" => InStep \/ Cleared
    /\ pc = "write" => Cleared
    /\ pc \in {"j_pad", "j_write"} =>
          e = w + skipBad /\ pos = mtdofs /\ \A i \in 1 .. jn : Saved(i)
    /\ pc = "j_write" => pos < Size[part] /\ flash[Here] = Blank /\ Here \notin bad
    /\ pc = "fix_write" => flash[HeaderBlock].kind # "cfg"
    /\ Replaced => \A i \in 1 .. CfgBlocks + 1 : Saved(i)

LEMMA OnePartition ==
    ASSUME ConfigUse PROVE Parts = {1} /\ Blocks = {1} \X (0 .. Size[1] - 1)
<1>1. Parts = {1}
  BY DEF ConfigUse, Parts
<1> QED
  BY <1>1 DEF Blocks

\* No block is worn out if there may be none.
LEMMA NoWorn == ASSUME ConfigUse, Init PROVE worn = {}
<1>1. Parts = {1} /\ Blocks = {1} \X (0 .. Size[1] - 1)
  BY OnePartition
<1>2. IsFiniteSet({1})
  BY FS_Singleton
<1>3. IsFiniteSet(0 .. Size[1] - 1)
  BY <1>1, BlockFacts, FS_Interval
<1>4. IsFiniteSet(Blocks)
  BY <1>1, <1>2, <1>3, FS_Product
<1>5. worn \subseteq Blocks /\ Cardinality(worn) <= 0
  BY DEF Init, ConfigUse
<1>6. IsFiniteSet(worn)
  BY <1>4, <1>5, FS_Subset
<1>7. Cardinality(worn) = 0
  BY <1>5, <1>6, FS_CardinalityType
<1> QED
  BY <1>6, <1>7, FS_EmptySet

LEMMA ConfigInit == ASSUME ConfigUse, Init PROVE ConfigInv
<1>1. worn = {}
  BY NoWorn
<1>2. pc = "check" /\ result = "running" /\ skipBad = 0 /\ offset = 0 /\ cfgLeft = UseCfg
  BY DEF Init
<1>3. ~Replaced
  BY <1>2 DEF Replaced
<1> QED
  BY <1>1, <1>2, <1>3 DEF ConfigInv

\* A block of the configuration stays where it is as long as only blocks from the
\* file offset on are changed.
LEMMA SavedKept ==
    ASSUME \A b \in Blocks : flash[b].kind = "cfg" /\ b[2] < pos => flash'[b] = flash[b],
           pos \in Nat, pos' \in Nat, pos <= pos', NEW i, Saved(i)
    PROVE  Saved(i)'
<1>1. PICK b \in Blocks : flash[b] = Cfg(i) /\ b[2] < pos
  BY DEF Saved
<1>2. flash'[b] = Cfg(i)
  BY <1>1 DEF Cfg
<1>3. b[2] < pos'
  BY <1>1, BlockFacts
<1> QED
  BY <1>2, <1>3 DEF Saved, Cfg

LEMMA ConfigTypes ==
    ASSUME ConfigUse, TypeOK
    PROVE  /\ part = 1 /\ NParts = 1 /\ Size[part] \in Nat
           /\ pos \in Nat /\ e \in Nat /\ w \in Nat /\ skipBad \in Nat
           /\ mtdofs \in Nat /\ jn \in Nat /\ CfgBlocks \in Nat
           /\ UseCfg \in BOOLEAN /\ cfgLeft \in BOOLEAN
           /\ Here = <<1, pos>> /\ Target = <<1, e>> /\ HeaderBlock = <<1, 0>>
           /\ \A b \in Blocks : b[1] = 1 /\ b[2] \in Nat /\ b[2] < Size[1] /\ b = <<1, b[2]>>
           /\ \A i \in Nat : <<1, i>> \in Blocks <=> i < Size[1]
<1>1. Parts = {1} /\ NParts = 1 /\ part = 1
  BY DEF ConfigUse, Parts, TypeOK
<1>2. Size[1] \in Nat
  BY <1>1, BlockFacts
<1>3. UseCfg \in BOOLEAN /\ cfgLeft \in BOOLEAN
  <2>1. UseCfg \in BOOLEAN
    BY OptionAssumption, Zenon
  <2> QED
    BY <2>1 DEF TypeOK
<1>4. Here = <<1, pos>> /\ Target = <<1, e>> /\ HeaderBlock = <<1, 0>>
  BY <1>1 DEF Here, Target, HeaderBlock, ConfigUse, TypeOK
<1>5. pos \in Nat /\ e \in Nat /\ w \in Nat /\ skipBad \in Nat /\ mtdofs \in Nat
      /\ jn \in Nat /\ CfgBlocks \in Nat
  BY NumberAssumption DEF TypeOK
<1>6. \A b \in Blocks : b[1] = 1 /\ b[2] \in Nat /\ b[2] < Size[1] /\ b = <<1, b[2]>>
  <2> SUFFICES ASSUME NEW b \in Blocks
               PROVE  b[1] = 1 /\ b[2] \in Nat /\ b[2] < Size[1] /\ b = <<1, b[2]>>
    OBVIOUS
  <2>1. b \in {1} \X (0 .. Size[1] - 1)
    BY OnePartition
  <2> QED
    BY <1>2, <2>1
<1>7. \A i \in Nat : <<1, i>> \in Blocks <=> i < Size[1]
  BY <1>1, <1>2, BlockFacts
<1> QED
  BY <1>1, <1>2, <1>3, <1>4, <1>5, <1>6, <1>7

\* pad() erases the block that it writes next, which is good and on the device.
LEMMA AppendClears ==
    ASSUME ConfigUse, TypeOK, ConfigInv, AppendErases
    PROVE  /\ Here \in Blocks /\ Here \notin bad /\ mtdofs < Size[part]
           /\ flash' = [flash EXCEPT ![Here] = Blank]
<1> USE ConfigTypes
<1>1. Nand /\ Size[1] <= mtdsize
  BY DEF ConfigUse, mtdsize
<1>2. pc = "j_pad" /\ PadReaches
  BY DEF AppendErases
<1>3. mtdofs < Size[part] /\ AppendBlock \notin bad
  BY <1>1, <1>2, NumberAssumption DEF PadReaches, mtdsize
<1>4. AppendBlock = Here /\ worn = {}
  BY <1>2 DEF AppendBlock, Here, ConfigInv
<1>5. Here \in Blocks /\ Erases(Here)
  BY <1>3, <1>4 DEF Erases, AppendBlock
<1> QED
  BY <1>3, <1>4, <1>5 DEF AppendErases, EraseFailed

\* And it writes it.
LEMMA AppendPuts ==
    ASSUME ConfigUse, TypeOK, ConfigInv, AppendWrites
    PROVE  /\ Here \in Blocks /\ pos' = pos + 1
           /\ flash' = [flash EXCEPT ![Here] = Cfg(jn + 1)]
<1> USE ConfigTypes
<1>1. pos < Size[part] /\ flash[Here] = Blank /\ Here \notin bad
  BY DEF AppendWrites, ConfigInv
<1>2. ~("write" \in Faults \/ Here \in bad) /\ pos # Size[part]
  BY <1>1 DEF ConfigUse
<1> QED
  BY <1>1, <1>2 DEF AppendWrites, Programmed

\* An erase or a write under way is on the block behind the file offset, or on that of
\* the header.
LEMMA AtWorkIsAhead ==
    ASSUME ConfigUse, TypeOK, ConfigInv, pc # "pre_erase", NEW b \in AtWork
    PROVE  \/ b = Here
           \/ pc \in {"fix_erase", "fix_write"} /\ b = HeaderBlock /\ flash[b].kind # "cfg"
<1> USE ConfigTypes
<1>1. CASE ReachesErase /\ b = Target
  BY <1>1 DEF ReachesErase, Short, ConfigInv, InStep, Cleared
<1>2. CASE pc = "j_pad" /\ b = AppendBlock
  BY <1>2 DEF AppendBlock, Here, ConfigInv
<1>3. CASE pc = "fix_erase" /\ HeaderThere /\ b = HeaderBlock
  BY <1>3 DEF HeaderThere, ChunksOn
<1>4. CASE pc = "fix_write" /\ b = HeaderBlock
  BY <1>4 DEF ConfigInv
<1> QED
  BY <1>1, <1>2, <1>3, <1>4 DEF AtWork

LEMMA ConfigMain ==
    ASSUME ConfigUse, TypeOK, ConfigInv, Main PROVE ConfigInv'
<1> USE ConfigTypes
<1>0. CASE PreErase
  <2>1. pc = "pre_erase" /\ pc' \in {"pre_erase", "open"} /\ result' = result
        /\ UNCHANGED <<worn, skipBad, offset, cfgLeft>>
    BY <1>0 DEF PreErase, cfgVars
  <2>2. cfgLeft = UseCfg /\ skipBad = 0
    BY <2>1 DEF ConfigInv
  <2>3. ~Replaced'
    BY <2>1, <2>2 DEF Replaced
  <2> QED
    BY <2>1, <2>2, <2>3 DEF ConfigInv
<1> SUFFICES ASSUME ~PreErase PROVE ConfigInv'
  BY <1>0
<1>1. flash' = flash /\ worn' = worn /\ bad' = bad /\ cfgLeft' = cfgLeft /\ jn' = jn
      /\ mtdofs' = mtdofs /\ part' = part
  BY DEF Main, CheckImage, OpenPart, FlagErase, FlagWrite, Finish, ConfigInv,
         flashVars, cfgVars, writeVars
<1>2. pc' # "off" /\ pc' \notin {"j_pad", "j_write", "room", "write", "fix_write"}
  BY DEF Main, CheckImage, Checked, Fail, OpenPart, FlagErase, FlagWrite, Finish,
         ConfigInv
<1>3. CASE OpenPart
  <2>1. pc = "open" /\ result = "running"
    BY <1>3 DEF OpenPart, ConfigInv
  <2>2. ~Replaced /\ ~Replaced' /\ skipBad = 0
    BY <1>1, <2>1 DEF ConfigInv, Replaced
  <2>3. CASE Fail /\ UNCHANGED writeVars
    BY <1>1, <2>1, <2>2, <2>3 DEF ConfigInv, Fail, writeVars
  <2>4. CASE /\ pos' = Advance(part, 0, PartOffset) /\ w' = 0 /\ e' = 0
             /\ pc' = IF UseFlag /\ flag # "recover" THEN "set_erase" ELSE "fill"
             /\ UNCHANGED <<part, skipBad, skip, offset, result>>
    <3>1. pos' = 0
      BY <2>4 DEF Advance, ConfigUse
    <3>2. pc' \in {"set_erase", "fill"}
      BY <2>4
    <3>3. InStep'
      BY <2>2, <2>4, <3>1 DEF InStep
    <3> QED
      BY <1>1, <2>1, <2>2, <2>4, <3>2, <3>3 DEF ConfigInv
  <2> QED
    BY <1>3, <2>3, <2>4 DEF OpenPart
<1>4. CASE ~OpenPart
  <2>1. pos' = pos /\ e' = e /\ w' = w /\ skipBad' = skipBad /\ offset' = offset
    BY <1>4 DEF Main, CheckImage, FlagErase, FlagWrite, Finish, ConfigInv, writeVars
  <2>2. Replaced' <=> Replaced
    BY <1>1 DEF Replaced
  <2>3. \A i : Saved(i)' <=> Saved(i)
    BY <1>1, <2>1 DEF Saved, Cfg
  <2>4. /\ pc' \in {"check", "pre_erase", "open", "set_erase", "set_write", "fill", "finish", "clr_erase",
                   "clr_write", "done"}
        /\ pc' \in {"check", "pre_erase", "open"} => pc = "check"
        /\ pc' \in {"set_erase", "set_write"} => pc = "set_erase"
        /\ pc' \in {"fill", "finish"} => pc = "set_write"
        /\ pc # "off"
    BY <1>4 DEF Main, CheckImage, Checked, Fail, FlagErase, FlagWrite, Finish,
                ConfigInv
  <2>5. result = "running" /\ (result' # "running" => pc' = "done")
    BY <1>4 DEF Main, CheckImage, Checked, Fail, FlagErase, FlagWrite, Finish,
                ConfigInv
  <2> QED
    BY <1>1, <1>2, <2>1, <2>2, <2>3, <2>4, <2>5 DEF ConfigInv, InStep
<1> QED
  BY <1>3, <1>4

\* A step that writes nothing and leaves mtd_write's place on the flash alone.
LEMMA ConfigQuiet ==
    ASSUME ConfigUse, TypeOK, ConfigInv,
           UNCHANGED <<flashVars, part, pos, e, w, skipBad, offset, cfgVars>>,
           \/ pc \in {"fill", "have"} /\ pc' \in {"fill", "have", "room", "finish", "fix_erase"}
              /\ result' = result
           \/ pc = "room" /\ pc' = "write" /\ Cleared /\ result' = result
           \/ pc' = "done" /\ result' = "failed"
           \/ pc = "fix_erase" /\ pc' = "finish" /\ InStep /\ result' = result
    PROVE  ConfigInv'
<1>1. Replaced' <=> Replaced
  BY DEF Replaced, cfgVars
<1>2. \A i : Saved(i)' <=> Saved(i)
  BY DEF Saved, Cfg, flashVars
<1>3. Cleared' <=> Cleared
  BY DEF Cleared, Here, flashVars
<1> QED
  BY <1>1, <1>2, <1>3 DEF ConfigInv, InStep, flashVars, cfgVars

LEMMA ConfigRead ==
    ASSUME ConfigUse, TypeOK, ConfigInv, Read PROVE ConfigInv'
<1>1. UNCHANGED <<flashVars, part, pos, e, w, skipBad, offset, cfgVars>> /\ result' = result
  BY DEF Read, ReadChunk, EndFill, DropBlock, KeepBlock, writeVars
<1>2. pc \in {"fill", "have"} /\ pc' \in {"fill", "have", "room", "finish", "fix_erase"}
  BY DEF Read, ReadChunk, EndFill, DropBlock, KeepBlock, AfterImage, ConfigUse
<1> QED
  BY <1>1, <1>2, ConfigQuiet

LEMMA ConfigConfigure ==
    ASSUME ConfigUse, TypeOK, ConfigInv, Configure PROVE ConfigInv'
<1> USE ConfigTypes
<1>0. worn' = worn /\ bad' = bad /\ offset' = 0
  BY DEF Configure, StartAppend, AppendSkipsBad, AppendErases, AppendWrites, EndAppend,
         flashVars, writeVars, ConfigInv
<1>1. CASE StartAppend
  <2>1. pc = "have" /\ cfgLeft /\ mtdofs' = e /\ jn' = 0 /\ pc' = "j_pad"
        /\ UNCHANGED <<flashVars, writeVars, cfgLeft, result>>
    BY <1>1 DEF StartAppend, AtMarker
  <2>2. \A i \in 1 .. jn' : FALSE
    BY <2>1
  <2>3. ~Replaced'
    BY <2>1 DEF Replaced
  <2> QED
    BY <2>1, <2>2, <2>3 DEF ConfigInv, InStep, flashVars, writeVars
<1>2. CASE AppendSkipsBad
  <2>1. pc = "j_pad" /\ cfgLeft' = cfgLeft /\ cfgLeft /\ UNCHANGED <<flashVars, part, w, e, skipBad, offset, jn>>
        /\ result = "running"
    BY <1>2 DEF AppendSkipsBad, ConfigInv
  <2>2. ~Replaced'
    BY <2>1 DEF Replaced
  <2>3. CASE Fail
    BY <2>1, <2>2, <2>3 DEF ConfigInv, Fail, flashVars
  <2>4. CASE ~Fail
    <3>1. mtdofs < Size[part] /\ mtdofs' = mtdofs + 1 /\ pos' = Advance(part, pos, pos + 1)
          /\ pc' = pc /\ result' = result
      BY <1>2, <2>4 DEF AppendSkipsBad
    <3>2. pos = mtdofs /\ pos' = pos + 1
      BY <2>1, <3>1 DEF ConfigInv, Advance
    <3>3. \A i : Saved(i) => Saved(i)'
      BY <2>1, <3>2, SavedKept DEF flashVars
    <3> QED
      BY <2>1, <2>2, <3>1, <3>2, <3>3 DEF ConfigInv, flashVars
  <2> QED
    BY <2>3, <2>4
<1>3. CASE AppendErases
  <2>1. pc = "j_pad" /\ pc' = "j_write" /\ cfgLeft /\ UNCHANGED <<writeVars, cfgVars, result>>
    BY <1>3 DEF AppendErases, ConfigInv
  <2>2. pos = mtdofs /\ e = w + skipBad /\ (\A i \in 1 .. jn : Saved(i)) /\ worn = {}
    BY <2>1 DEF ConfigInv
  <2>3. Here \in Blocks /\ Here \notin bad /\ mtdofs < Size[part]
    BY <1>3, AppendClears
  <2>4. flash' = [flash EXCEPT ![Here] = Blank]
    BY <1>3, AppendClears
  <2>5. \A b \in Blocks : b[2] < pos => flash'[b] = flash[b]
    BY <2>4 DEF TypeOK
  <2>6. \A i : Saved(i) => Saved(i)'
    BY <2>1, <2>5, SavedKept DEF writeVars
  <2>7. flash'[Here] = Blank /\ Here' = Here
    BY <2>1, <2>3, <2>4 DEF TypeOK, Here, writeVars
  <2>8. ~Replaced'
    BY <2>1 DEF Replaced, cfgVars
  <2> QED
    BY <1>0, <2>1, <2>2, <2>3, <2>6, <2>7, <2>8 DEF ConfigInv, writeVars, cfgVars, InStep
<1>4. CASE AppendWrites
  <2>1. pc = "j_write" /\ pc' = "j_pad" /\ cfgLeft
        /\ UNCHANGED <<part, w, e, skipBad, offset, cfgLeft, result>>
        /\ mtdofs' = mtdofs + 1 /\ jn' = jn + 1
    BY <1>4 DEF AppendWrites, ConfigInv
  <2>2. pos = mtdofs /\ e = w + skipBad /\ (\A i \in 1 .. jn : Saved(i)) /\ pos < Size[part]
        /\ flash[Here] = Blank /\ Here \notin bad
    BY <2>1 DEF ConfigInv
  <2>3. pos' = pos + 1 /\ Here \in Blocks
    BY <1>4, AppendPuts
  <2>4. flash' = [flash EXCEPT ![Here] = Cfg(jn + 1)]
    BY <1>4, AppendPuts
  <2>5. \A b \in Blocks : b[2] < pos => flash'[b] = flash[b]
    BY <2>4 DEF TypeOK
  <2>6. \A i : Saved(i) => Saved(i)'
    BY <2>3, <2>5, SavedKept
  <2>7. PICK n \in Nat : n = jn + 1
    OBVIOUS
  <2>8. Saved(n)'
    <3>1. flash'[Here] = Cfg(n) /\ Here[2] < pos'
      BY <2>3, <2>4, <2>7 DEF TypeOK
    <3> QED
      BY <2>3, <3>1 DEF Saved, Cfg
  <2>9. \A i \in 1 .. n : Saved(i)'
    <3> SUFFICES ASSUME NEW i \in 1 .. n PROVE Saved(i)'
      OBVIOUS
    <3>1. i \in 1 .. jn \/ i = n
      BY <2>7
    <3> QED
      BY <2>2, <2>6, <2>8, <3>1
  <2>10. ~Replaced'
    BY <2>1 DEF Replaced
  <2> QED
    BY <1>0, <2>1, <2>2, <2>3, <2>7, <2>9, <2>10 DEF ConfigInv, InStep
<1>5. CASE EndAppend
  <2>1. pc = "j_pad" /\ pc' = "fill" /\ jn = CfgBlocks + 1 /\ cfgLeft' = FALSE
        /\ w' = w + (mtdofs - e) /\ e' = mtdofs /\ offset' = 0
        /\ UNCHANGED <<flashVars, part, pos, skipBad, result>>
    BY <1>5 DEF EndAppend
  <2>2. pos = mtdofs /\ e = w + skipBad /\ (\A i \in 1 .. jn : Saved(i))
    BY <2>1 DEF ConfigInv
  <2>3. \A i : Saved(i) => Saved(i)'
    BY <2>1 DEF Saved, Cfg, flashVars
  <2>4. InStep'
    BY <2>1, <2>2 DEF InStep
  <2> QED
    BY <1>0, <2>1, <2>2, <2>3, <2>4 DEF ConfigInv, flashVars
<1> QED
  BY <1>1, <1>2, <1>3, <1>4, <1>5 DEF Configure

LEMMA ConfigRoom ==
    ASSUME ConfigUse, TypeOK, ConfigInv, Room PROVE ConfigInv'
<1> USE ConfigTypes
<1>0. pc = "room" /\ pos <= Size[part] /\ result = "running" /\ worn = {} /\ offset = 0
  BY DEF Room, BadQueryFails, SkipBadBlock, EraseBlock, EraseFails, Spill, RoomMade,
         ReachesErase, TypeOK, ConfigInv
<1>1. Short <=> InStep
  BY <1>0 DEF ConfigInv, InStep, Cleared, Short
<1>2. InStep \/ Cleared
  BY <1>0 DEF ConfigInv
<1>3. CASE BadQueryFails
  BY <1>3, ConfigQuiet DEF BadQueryFails, Fail, writeVars
<1>4. CASE SkipBadBlock
  <2>1. <<part, e>> \in bad /\ InStep /\ skipBad' = skipBad + 1 /\ e' = e + 1
        /\ pos' = Advance(part, pos, pos + 1)
        /\ UNCHANGED <<flashVars, part, w, offset, cfgVars, pc, result>>
    BY <1>1, <1>4 DEF SkipBadBlock
  <2>2. e < Size[part]
    BY <2>1 DEF TypeOK
  <2>3. pos' = pos + 1 /\ InStep'
    BY <2>1, <2>2 DEF InStep, Advance
  <2>4. \A i : Saved(i) => Saved(i)'
    BY <2>1, <2>3, SavedKept DEF flashVars
  <2>5. Replaced' <=> Replaced
    BY <2>1 DEF Replaced, cfgVars
  <2> QED
    BY <1>0, <2>1, <2>3, <2>4, <2>5 DEF ConfigInv, flashVars, cfgVars
<1>5. CASE EraseBlock
  <2>1. InStep /\ Target \in Blocks /\ Target \notin bad /\ e' = e + 1
        /\ flash' = [flash EXCEPT ![Target] = Blank]
        /\ UNCHANGED <<bad, worn, part, pos, w, skipBad, offset, cfgVars, pc, result>>
    BY <1>1, <1>5 DEF EraseBlock, ReachesErase, Erases
  <2>2. pos = e /\ Target = Here /\ pos < Size[part]
    BY <2>1 DEF InStep
  <2>3. \A b \in Blocks : b[2] < pos => flash'[b] = flash[b]
    BY <2>1, <2>2 DEF TypeOK
  <2>4. \A i : Saved(i) => Saved(i)'
    BY <2>1, <2>3, SavedKept
  <2>5. flash'[Here] = Blank /\ Here' = Here
    BY <2>1, <2>2 DEF Here, TypeOK
  <2>6. Cleared'
    BY <2>1, <2>2, <2>5 DEF Cleared, InStep
  <2>7. Replaced' <=> Replaced
    BY <2>1 DEF Replaced, cfgVars
  <2> QED
    BY <1>0, <2>1, <2>4, <2>6, <2>7 DEF ConfigInv, cfgVars
<1>6. CASE EraseFails
  <2>1. pc' = "done" /\ result' = "failed" /\ UNCHANGED <<bad, worn, writeVars, cfgVars>>
    BY <1>6 DEF EraseFails, Fail
  <2>2. Target \notin Blocks
    BY <1>0, <1>6 DEF EraseFails, ReachesErase, EraseFailed, Erases
  <2>3. flash' = flash
    BY <1>6, <2>2 DEF EraseFails, EraseFailed
  <2>4. \A i : Saved(i)' <=> Saved(i)
    BY <2>1, <2>3 DEF Saved, Cfg, writeVars
  <2> QED
    BY <1>0, <2>1, <2>4 DEF ConfigInv, Replaced, writeVars, cfgVars
<1>7. ~Spill
  BY DEF Spill
<1>8. CASE RoomMade
  BY <1>1, <1>2, <1>8, ConfigQuiet DEF RoomMade, writeVars
<1> QED
  BY <1>3, <1>4, <1>5, <1>6, <1>7, <1>8 DEF Room

LEMMA ConfigPut ==
    ASSUME ConfigUse, TypeOK, ConfigInv, Put PROVE ConfigInv'
<1> USE ConfigTypes
<1>0. pc = "write" /\ Cleared /\ result = "running" /\ worn = {} /\ offset = 0
  BY DEF Put, WriteBlock, WriteFails, ConfigInv
<1>1. CASE WriteBlock
  <2>1. /\ flash' = [flash EXCEPT ![Here] = Programmed(Here, Data(buf))]
        /\ pos' = pos + 1 /\ w' = w + 1 /\ offset' = 0 /\ pc' = "fill"
        /\ UNCHANGED <<bad, worn, part, e, skipBad, cfgVars, result>>
    BY <1>0, <1>1 DEF WriteBlock
  <2>2. \A b \in Blocks : b[2] < pos => flash'[b] = flash[b]
    BY <2>1 DEF TypeOK
  <2>3. \A i : Saved(i) => Saved(i)'
    BY <2>1, <2>2, SavedKept
  <2>4. InStep'
    BY <1>0, <2>1 DEF InStep, Cleared
  <2>5. Replaced' <=> Replaced
    BY <2>1 DEF Replaced, cfgVars
  <2> QED
    BY <1>0, <2>1, <2>3, <2>4, <2>5 DEF ConfigInv, cfgVars
<1>2. CASE WriteFails
  <2>1. pc' = "done" /\ result' = "failed" /\ UNCHANGED <<bad, worn, writeVars, cfgVars>>
    BY <1>2 DEF WriteFails, Fail
  <2>2. \A b \in Blocks : b[2] < pos => flash'[b] = flash[b]
    BY <1>2 DEF WriteFails, TypeOK
  <2>3. \A i : Saved(i) => Saved(i)'
    BY <2>1, <2>2, SavedKept DEF writeVars
  <2> QED
    BY <1>0, <2>1, <2>3 DEF ConfigInv, Replaced, writeVars, cfgVars
<1> QED
  BY <1>1, <1>2 DEF Put

\* The header's block holds image: putting it right costs no configuration.
LEMMA ConfigFix ==
    ASSUME ConfigUse, TypeOK, ConfigInv, Fix PROVE ConfigInv'
<1> USE ConfigTypes
<1>0. pc \in {"fix_erase", "fix_write"} /\ InStep /\ result = "running" /\ worn = {} /\ offset = 0
  BY DEF Fix, FixErases, FixWrites, ConfigInv
<1>1. UNCHANGED <<bad, worn, part, pos, e, w, skipBad, offset, cfgVars>>
  BY DEF Fix, FixErases, FixWrites, writeVars
<1>2. CASE Fail
  <2>1. \/ flash' = flash
        \/ /\ HeaderThere \/ pc = "fix_write"
           /\ \E c : flash' = [flash EXCEPT ![HeaderBlock] = c]
    BY DEF Fix, FixErases, FixWrites, EraseFailed
  <2>2. HeaderThere \/ pc = "fix_write" => flash[HeaderBlock].kind # "cfg"
    BY DEF ConfigInv, HeaderThere, ChunksOn
  <2>3. \A b \in Blocks : flash[b].kind = "cfg" => flash'[b] = flash[b]
    BY <2>1, <2>2 DEF TypeOK
  <2>4. \A i : Saved(i) => Saved(i)'
    BY <1>1, <2>3, SavedKept
  <2> QED
    BY <1>0, <1>1, <1>2, <2>4 DEF Fail, ConfigInv, Replaced, cfgVars
<1>3. CASE pc = "fix_erase" /\ pc' = "finish" /\ UNCHANGED <<flash, result>>
  BY <1>0, <1>1, <1>3 DEF ConfigInv, InStep, Saved, Cfg, Replaced, cfgVars
<1>4. CASE pc = "fix_erase" /\ pc' = "fix_write" /\ HeaderThere /\ result' = result
           /\ flash' = [flash EXCEPT ![HeaderBlock] = Blank]
  <2>1. HeaderBlock \in Blocks /\ flash[HeaderBlock].kind = "data"
    BY <1>4 DEF HeaderThere, ChunksOn
  <2>2. \A b \in Blocks : flash[b].kind = "cfg" => flash'[b] = flash[b]
    BY <1>4, <2>1 DEF TypeOK
  <2>3. \A i : Saved(i) => Saved(i)'
    BY <1>1, <2>2, SavedKept
  <2>4. flash'[HeaderBlock].kind # "cfg" /\ HeaderBlock' = HeaderBlock
    BY <1>1, <1>4, <2>1 DEF TypeOK, Blank, HeaderBlock
  <2> QED
    BY <1>0, <1>1, <1>4, <2>3, <2>4 DEF ConfigInv, InStep, Replaced, cfgVars
<1>5. CASE pc = "fix_write" /\ pc' = "finish" /\ result' = result
           /\ flash' = [flash EXCEPT ![HeaderBlock] = Programmed(HeaderBlock, Data(buf))]
  <2>1. flash[HeaderBlock].kind # "cfg"
    BY <1>5 DEF ConfigInv
  <2>2. \A b \in Blocks : flash[b].kind = "cfg" => flash'[b] = flash[b]
    BY <1>5, <2>1 DEF TypeOK
  <2>3. \A i : Saved(i) => Saved(i)'
    BY <1>1, <2>2, SavedKept
  <2> QED
    BY <1>0, <1>1, <1>5, <2>3 DEF ConfigInv, InStep, Replaced, cfgVars
<1> QED
  BY <1>2, <1>3, <1>4, <1>5 DEF Fix, FixErases, FixWrites

LEMMA ConfigStep ==
    ASSUME ConfigUse, TypeOK, ConfigInv, [Next]_vars PROVE ConfigInv'
<1>1. CASE UNCHANGED vars
  BY <1>1 DEF ConfigInv, InStep, Cleared, Saved, Cfg, Here, HeaderBlock, Replaced, vars,
              flashVars, writeVars, cfgVars
<1>2. CASE PowerCut
  <2>1. UNCHANGED <<worn, writeVars, cfgVars, result>> /\ pc' = "off" /\ result = "running"
    BY <1>2 DEF PowerCut, ConfigInv
  <2>2. CASE pc = "pre_erase"
    BY <2>1, <2>2 DEF ConfigInv, Replaced, writeVars, cfgVars
  <2>3. CASE pc # "pre_erase"
    <3>1. \A b \in Blocks : flash[b].kind = "cfg" /\ b[2] < pos => flash'[b] = flash[b]
      BY <1>2, <2>3, AtWorkIsAhead, ConfigTypes DEF PowerCut, TypeOK
    <3>2. \A i : Saved(i) => Saved(i)'
      BY <2>1, <3>1, SavedKept, ConfigTypes DEF writeVars
    <3> QED
      BY <2>1, <3>2 DEF ConfigInv, Replaced, writeVars, cfgVars
  <2> QED
    BY <2>2, <2>3
<1> QED
  BY <1>1, <1>2, ConfigMain, ConfigRead, ConfigConfigure, ConfigRoom, ConfigPut, ConfigFix
  DEF Next, Program, Stopped

LEMMA ConfigHolds == ASSUME ConfigUse PROVE Spec => []ConfigInv
<1>1. Init => ConfigInv
  BY ConfigInit
<1>2. TypeOK /\ ConfigInv /\ [Next]_vars => ConfigInv'
  BY ConfigStep
<1> QED
  BY <1>1, <1>2, TypeCorrect, PTL DEF Spec

\* What took the place of image is there.
LEMMA NoneUnsaved == ASSUME ConfigInv PROVE Unsaved = {}
BY DEF ConfigInv, Unsaved, Saved

\* With -j, on NAND without worn-out blocks and failing writes, and without a -t
\* partition smaller than the image's, exit status 0 after the end marker was met means
\* that the whole configuration and the new end marker are on the flash, around any bad
\* block: no later block of the image, nor the header fixup, goes over them (ConfigKept).
THEOREM ConfigIsKept == ASSUME ConfigUse PROVE Spec => []ConfigKept
<1>1. ConfigInv => ConfigKept
  BY NoneUnsaved DEF ConfigKept
<1> QED
  BY <1>1, ConfigHolds, PTL

-----------------------------------------------------------------------------
(***************************************************************************)
(* The image around the configuration.  Each chunk read so far is on the   *)
(* flash, in the buffer, or belongs to what the configuration replaced:    *)
(* from the end marker on.  Image lies below the file offset only, where   *)
(* nothing is erased but the header's block, and that is in the buffer     *)
(* until it is written back.                                               *)
(***************************************************************************)
OnFlash(c) == \E b \in Blocks : c \in ChunksOn(b)
Safe(c)    == InBuf(c) \/ OnFlash(c) \/ (Replaced /\ c >= EofChunk)

\* The buffer holds what was read last, not the header's block.
Reading == pc \notin {"fix_write", "done", "off"}

ImageInv ==
    /\ pc \notin {"done", "off"} => \A c \in 1 .. rd - 1 : Safe(c)
    /\ \A b \in Blocks : IsData(b) => b[2] < pos
    /\ pc \in {"check", "pre_erase", "open"} => \A b \in Blocks : ~IsData(b)
    /\ pc = "check" => buf = <<>> /\ rd = 1
    /\ Reading => \A i \in DOMAIN buf : buf[i] < rd /\ (buf[i] = 0 \/ buf[i] >= buf[1])
    /\ Reading /\ Replaced => \A i \in DOMAIN buf : buf[i] = 0 \/ buf[i] >= EofChunk
    /\ Replaced => rd > EofChunk
    /\ skip > 0 => Replaced
    /\ pc = "have" => buf # <<>>
    /\ pc \in {"j_pad", "j_write"} => buf # <<>> /\ EofChunk # 0 /\ buf[1] = EofChunk
    /\ pc \in {"fix_erase", "finish", "clr_erase", "clr_write"} => buf = <<>>
    /\ pc \in {"fix_erase", "fix_write", "finish", "clr_erase", "clr_write"} =>
          readErr \/ rd = ImageLen + 1
    /\ pc = "fix_write" =>
          /\ HeaderBlock \in Blocks \ bad /\ flash[HeaderBlock] = Blank
          /\ HeaderBlock[2] < pos
    /\ OkMeansStored

LEMMA ImageInit == ASSUME ConfigUse, Init PROVE ImageInv
<1>1. buf = <<>> /\ rd = 1 /\ pc = "check" /\ skip = 0 /\ result = "running" /\ ~Replaced
  BY DEF Init, Replaced
<1>2. \A b \in Blocks : ~IsData(b)
  BY KindFacts DEF Init, IsData
<1> QED
  BY <1>1, <1>2 DEF ImageInv, OkMeansStored

\* Nothing is missing when the image has been read to its end and the buffer is empty.
LEMMA AllThere ==
    ASSUME TypeOK, ImageInv, pc \in {"finish", "clr_erase", "clr_write"}, ~readErr
    PROVE  Missing = {}
<1>1. buf = <<>> /\ rd = ImageLen + 1 /\ \A c \in 1 .. rd - 1 : Safe(c)
  BY DEF ImageInv
<1>2. \A c : ~InBuf(c)
  BY <1>1, BufferFacts DEF InBuf
<1>3. rd - 1 = ImageLen
  BY <1>1, NumberAssumption
<1>4. \A c \in 1 .. ImageLen : OnFlash(c) \/ (Replaced /\ c >= EofChunk)
  BY <1>1, <1>2, <1>3 DEF Safe
<1> QED
  BY <1>4 DEF Missing, OnFlash

\* A step that leaves the image on the flash and in the buffer as it is.
LEMMA ImageKept ==
    ASSUME ConfigUse, TypeOK, ImageInv, ConfigInv, KeepsData,
           UNCHANGED <<buf, rd, readErr, skip, cfgLeft>>,
           \A b \in Blocks : IsData(b) => b[2] < pos',
           pc \notin {"fix_write", "done", "off"}, pc' \notin {"check", "pre_erase", "open", "fix_write"},
           pc' = "have" => pc = "have",
           pc' \in {"j_pad", "j_write"} =>
              pc \in {"j_pad", "j_write"} \/ (pc = "have" /\ AtMarker),
           pc' \in {"fix_erase", "finish", "clr_erase", "clr_write"} =>
              pc \in {"fix_erase", "finish", "clr_erase", "clr_write"},
           result' = "ok" => pc \in {"finish", "clr_write"}
    PROVE  ImageInv'
<1>1. /\ \A b \in Blocks : ChunksOn(b)' = ChunksOn(b)
      /\ \A b \in Blocks : IsData(b)' <=> IsData(b)
  BY ChunksKept
<1>2. (Replaced' <=> Replaced) /\ \A c : Safe(c)' <=> Safe(c)
  BY <1>1 DEF Safe, OnFlash, InBuf, Replaced
<1>3. Reading
  BY DEF Reading
<1>4. OkMeansStored'
  <2>1. Missing' = Missing
    BY <1>1, <1>2 DEF Missing
  <2> QED
    BY <2>1, AllThere DEF OkMeansStored
<1> QED
  BY <1>1, <1>2, <1>3, <1>4 DEF ImageInv, Reading, AtMarker

\* The place that is erased or written next holds no image.
LEMMA ImageAhead ==
    ASSUME ConfigUse, TypeOK, ImageInv, NEW c \in Content, c.kind # "data",
           Here \in Blocks, flash' = [flash EXCEPT ![Here] = c]
    PROVE  KeepsData
<1>1. Here[2] = pos /\ pos \in Nat
  BY ConfigTypes
<1>2. ~IsData(Here)
  BY <1>1 DEF ImageInv
<1> QED
  BY <1>2 DEF KeepsData, IsData, TypeOK

LEMMA ImageMain ==
    ASSUME ConfigUse, TypeOK, ConfigInv, ImageInv, Main PROVE ImageInv'
<1> USE ConfigTypes
<1>0. CASE PreErase
  <2>1. /\ pc = "pre_erase" /\ pc' \in {"pre_erase", "open"} /\ result' = result
        /\ UNCHANGED <<buf, rd, readErr, skip, cfgLeft>>
    BY <1>0 DEF PreErase, imageVars, cfgVars
  <2>2. UNCHANGED flash \/ \E c \in {flash[<<1, e>>], Junk, Blank} :
            flash' = [flash EXCEPT ![<<1, e>>] = c]
    BY <1>0 DEF PreErase, EraseFailed
  <2>3. \A b \in Blocks : ~IsData(b)
    BY <2>1 DEF ImageInv
  <2>4. \A b \in Blocks : ~IsData(b)' /\ ChunksOn(b)' = {} /\ ChunksOn(b) = {}
    BY <2>2, <2>3, KindFacts DEF IsData, ChunksOn, TypeOK
  <2>5. (Replaced' <=> Replaced) /\ ~Replaced
    BY <2>1 DEF Replaced, ConfigInv
  <2>6. \A c : Safe(c)' <=> Safe(c)
    BY <2>1, <2>4, <2>5 DEF Safe, InBuf, OnFlash
  <2>7. OkMeansStored'
    BY <2>1 DEF OkMeansStored, ConfigInv
  <2> QED
    BY <2>1, <2>4, <2>5, <2>6, <2>7 DEF ImageInv, Reading
<1> SUFFICES ASSUME ~PreErase PROVE ImageInv'
  BY <1>0
<1>1. flash' = flash /\ UNCHANGED cfgVars
  BY DEF Main, CheckImage, OpenPart, FlagErase, FlagWrite, Finish, ConfigInv,
         flashVars
<1>2. KeepsData /\ (Replaced' <=> Replaced)
  BY <1>1 DEF KeepsData, Replaced, cfgVars, IsData
<1>3. CASE CheckImage
  <2>1. pc = "check" /\ skip' = skip /\ pos' = pos /\ pc' \in {"pre_erase", "open", "done"}
        /\ result' # "ok" /\ result = "running"
    BY <1>3 DEF CheckImage, Checked, Fail, ConfigInv, writeVars
  <2>2. (buf' = <<>> /\ rd' = 1) \/ (buf' = <<1>> /\ rd' = 2)
    BY <1>3, <2>1 DEF CheckImage, ImageInv
  <2>3. \A b \in Blocks : ~IsData(b)'
    BY <1>2, <2>1, ChunksKept DEF ImageInv
  <2>4. ~Replaced'
    BY <1>2, <2>1 DEF ConfigInv, Replaced
  <2>5. CASE buf' = <<>> /\ rd' = 1
    <3>1. DOMAIN buf' = {} /\ 1 .. rd' - 1 = {}
      BY <2>5
    <3> QED
      BY <1>2, <2>1, <2>3, <2>4, <2>5, <3>1 DEF ImageInv, OkMeansStored
  <2>6. CASE buf' = <<1>> /\ rd' = 2
    <3>1. DOMAIN buf' = {1} /\ buf'[1] = 1 /\ 1 .. rd' - 1 = {1}
      BY <2>6
    <3>2. Safe(1)'
      BY <3>1 DEF Safe, InBuf
    <3> QED
      BY <1>2, <2>1, <2>3, <2>4, <2>6, <3>1, <3>2 DEF ImageInv, OkMeansStored
  <2> QED
    BY <2>2, <2>5, <2>6
<1>4. CASE ~CheckImage
  <2>1. UNCHANGED <<buf, rd, readErr, skip, cfgLeft>>
    BY <1>1, <1>4 DEF Main, OpenPart, FlagErase, FlagWrite, Finish, ConfigInv,
                      writeVars, imageVars, cfgVars
  <2>2. \A b \in Blocks : IsData(b) => b[2] < pos'
    BY <1>4 DEF Main, OpenPart, FlagErase, FlagWrite, Finish, ConfigInv, writeVars,
                ImageInv
  <2>3. pc \notin {"fix_write", "done", "off"} /\ pc' \notin {"check", "pre_erase", "open", "fix_write", "have",
           "j_pad", "j_write", "fix_erase"}
    BY <1>4 DEF Main, OpenPart, FlagErase, FlagWrite, Finish, ConfigInv, Fail
  <2>4. pc' \in {"finish", "clr_erase", "clr_write"} => pc \in {"finish", "clr_erase", "clr_write"}
    BY <1>4 DEF Main, OpenPart, FlagErase, FlagWrite, Finish, ConfigInv, Fail
  <2>5. result' = "ok" => pc \in {"finish", "clr_write"}
    BY <1>4, <2>3 DEF Main, OpenPart, FlagErase, FlagWrite, Finish, ConfigInv, Fail
  <2> QED
    BY <1>2, <2>1, <2>2, <2>3, <2>4, <2>5, ImageKept
<1> QED
  BY <1>3, <1>4

LEMMA ImageRead ==
    ASSUME ConfigUse, TypeOK, ConfigInv, ImageInv, Read PROVE ImageInv'
<1> USE ConfigTypes
<1>1. /\ flash' = flash /\ bad' = bad /\ pos' = pos /\ UNCHANGED cfgVars /\ result' = result
      /\ pc \in {"fill", "have"} /\ result = "running"
  BY DEF Read, ReadChunk, EndFill, DropBlock, KeepBlock, flashVars, writeVars, ConfigInv
<1>2. KeepsData /\ (Replaced' <=> Replaced) /\ OkMeansStored'
  BY <1>1 DEF KeepsData, Replaced, cfgVars, IsData, OkMeansStored
<1>3. /\ \A c : OnFlash(c)' <=> OnFlash(c)
      /\ \A b \in Blocks : IsData(b)' => b[2] < pos'
  BY <1>1, <1>2, ChunksKept DEF OnFlash, ImageInv
<1>4. Reading /\ rd \in Nat /\ buf \in Seq(Nat) /\ EofChunk \in Nat /\ Len(buf) \in Nat
      /\ rd <= ImageLen + 1
  BY <1>1, NumberAssumption DEF Reading, TypeOK
<1>5. \A c : InBuf(c) =>
          c \in Nat /\ c < rd /\ (c = 0 \/ c >= buf[1]) /\ (Replaced => c = 0 \/ c >= EofChunk)
  BY <1>4, BufferType DEF InBuf, ImageInv
<1>6. CASE ReadChunk
  <2>1. rd' = rd + 1 /\ buf' = Append(buf, rd) /\ pc = "fill" /\ pc' = "fill" /\ skip' = skip
    BY <1>6 DEF ReadChunk, writeVars
  <2>2. /\ \A c : InBuf(c)' <=> InBuf(c) \/ c = rd
        /\ buf' # <<>> /\ buf'[1] = IF buf = <<>> THEN rd ELSE buf[1]
    BY <2>1, InAppended
  <2>3. buf # <<>> => InBuf(buf[1])
    BY <1>4, SMTT(60) DEF InBuf
  <2>4. ASSUME NEW c \in 1 .. rd' - 1 PROVE Safe(c)'
    <3>1. CASE c = rd
      BY <2>2, <3>1 DEF Safe
    <3>2. CASE c # rd
      <4>1. c \in 1 .. rd - 1
        BY <1>4, <2>1, <3>2
      <4>2. Safe(c)
        BY <2>1, <4>1 DEF ImageInv
      <4> QED
        BY <1>2, <1>3, <2>2, <4>2 DEF Safe
    <3> QED
      BY <3>1, <3>2
  <2>5. ASSUME NEW c, InBuf(c)' PROVE c < rd' /\ (c = 0 \/ c >= buf'[1])
    <3>1. CASE buf = <<>>
      <4>1. ~InBuf(c)
        BY <3>1, BufferFacts DEF InBuf
      <4>2. c = rd /\ buf'[1] = rd
        BY <2>2, <2>5, <3>1, <4>1
      <4> QED
        BY <1>4, <2>1, <4>2
    <3>2. CASE buf # <<>>
      <4>1. buf'[1] = buf[1] /\ buf[1] \in Nat /\ buf[1] < rd
        BY <1>5, <2>2, <2>3, <3>2
      <4>2. CASE InBuf(c)
        <5>1. c \in Nat /\ c < rd /\ (c = 0 \/ c >= buf[1])
          BY <1>5, <4>2
        <5> QED
          BY <1>4, <2>1, <4>1, <5>1
      <4>3. CASE c = rd
        BY <1>4, <2>1, <4>1, <4>3, SMTT(60)
      <4> QED
        BY <2>2, <2>5, <4>2, <4>3
    <3> QED
      BY <3>1, <3>2
  <2>6. Replaced' => rd' > EofChunk /\ \A c : InBuf(c)' => c = 0 \/ c >= EofChunk
    BY <1>2, <1>4, <1>5, <2>1, <2>2 DEF ImageInv
  <2>7. (\A i \in DOMAIN buf : InBuf(buf[i]))'
    BY DEF InBuf
  <2> QED
    BY <1>2, <1>3, <2>1, <2>4, <2>5, <2>6, <2>7 DEF ImageInv
<1>7. CASE EndFill
  <2>1. rd' = rd /\ skip' = skip /\ pc = "fill" /\ ReadStops
    BY <1>7 DEF EndFill, writeVars
  <2>2. CASE buf = <<>>
    <3>1. buf' = buf /\ pc' \in {"fix_erase", "finish"}
      BY <1>7, <2>2 DEF EndFill, AfterImage
    <3>2. readErr' \/ rd = ImageLen + 1
      BY <1>4, <2>1, <2>2, NumberAssumption DEF ReadStops
    <3>3. \A c : Safe(c)' <=> Safe(c)
      BY <1>2, <1>3, <3>1 DEF Safe, InBuf
    <3> QED
      BY <1>2, <1>3, <1>4, <2>1, <2>2, <3>1, <3>2, <3>3 DEF ImageInv, Reading
  <2>3. CASE buf # <<>>
    <3>1. buf' = Padded(buf) /\ pc' = "have"
      BY <1>7, <2>3 DEF EndFill
    <3>2. /\ \A c : InBuf(c) => InBuf(c)'
          /\ \A c : InBuf(c)' => InBuf(c) \/ c = 0
          /\ buf' # <<>> /\ buf'[1] = buf[1]
      BY <2>3, <3>1, InPadded
    <3>3. \A c \in 1 .. rd' - 1 : Safe(c)'
      BY <1>2, <1>3, <2>1, <3>2 DEF ImageInv, Safe
    <3>4. rd > 0
      BY DEF TypeOK
    <3>5. \A c : InBuf(c)' => c < rd' /\ (c = 0 \/ c >= buf'[1])
      BY <1>4, <1>5, <2>1, <3>2, <3>4
    <3>6. Replaced' => rd' > EofChunk /\ \A c : InBuf(c)' => c = 0 \/ c >= EofChunk
      BY <1>2, <1>4, <1>5, <2>1, <3>2 DEF ImageInv
    <3>7. (\A i \in DOMAIN buf : InBuf(buf[i]))'
      BY DEF InBuf
    <3> QED
      BY <1>2, <1>3, <2>1, <3>1, <3>2, <3>3, <3>5, <3>6, <3>7 DEF ImageInv
  <2> QED
    BY <2>2, <2>3
<1>8. CASE DropBlock
  <2>1. rd' = rd /\ buf' = <<>> /\ pc = "have" /\ pc' = "fill" /\ skip > 0 /\ skip' = skip - 1
    BY <1>8 DEF DropBlock
  <2>2. Replaced /\ Replaced'
    BY <1>2, <2>1 DEF ImageInv
  <2>3. \A c \in 1 .. rd' - 1 : Safe(c)'
    BY <1>2, <1>3, <1>5, <2>1, <2>2 DEF ImageInv, Safe
  <2>4. DOMAIN buf' = {} /\ rd' > EofChunk
    BY <1>4, <2>1, <2>2 DEF ImageInv
  <2> QED
    BY <1>2, <1>3, <2>1, <2>2, <2>3, <2>4 DEF ImageInv
<1>9. CASE KeepBlock
  <2>1. UNCHANGED <<buf, rd, readErr, skip>> /\ pc = "have" /\ pc' = "room"
    BY <1>9 DEF KeepBlock, writeVars, imageVars, ConfigUse
  <2>2. \A c : Safe(c)' <=> Safe(c)
    BY <1>2, <1>3, <2>1 DEF Safe, InBuf
  <2> QED
    BY <1>1, <1>2, <1>3, <1>4, <2>1, <2>2 DEF ImageInv, Reading
<1> QED
  BY <1>6, <1>7, <1>8, <1>9 DEF Read

LEMMA ImageConfigure ==
    ASSUME ConfigUse, TypeOK, ConfigInv, ImageInv, Configure PROVE ImageInv'
<1> USE ConfigTypes
<1>1. CASE StartAppend \/ AppendSkipsBad
  <2>1. flash' = flash /\ UNCHANGED <<buf, rd, readErr, skip, cfgLeft>>
    BY <1>1 DEF StartAppend, AppendSkipsBad, flashVars, writeVars, imageVars
  <2>2. pc \in {"have", "j_pad"} /\ pc' \in {"j_pad", "done"} /\ result' # "ok"
        /\ (pc = "have" => AtMarker)
    BY <1>1 DEF StartAppend, AppendSkipsBad, Fail, ConfigInv
  <2>3. pos' >= pos /\ pos' \in Nat
    BY <1>1 DEF StartAppend, AppendSkipsBad, Advance, writeVars, ConfigInv, Fail
  <2>4. \A b \in Blocks : IsData(b) => b[2] < pos'
    BY <2>3 DEF ImageInv
  <2> QED
    BY <2>1, <2>2, <2>4, ImageKept DEF KeepsData, IsData
<1>2. CASE AppendErases \/ AppendWrites
  <2>1. UNCHANGED <<buf, rd, readErr, skip, cfgLeft>> /\ pc \in {"j_pad", "j_write"}
        /\ pc' \in {"j_pad", "j_write"} /\ result' # "ok"
    BY <1>2 DEF AppendErases, AppendWrites, writeVars, imageVars, cfgVars, ConfigInv
  <2>2. pos = mtdofs /\ worn = {}
    BY <2>1 DEF ConfigInv
  <2>3. pos < Size[part] /\ Here \in Blocks
    BY <1>2, <2>2, AppendClears, AppendPuts
  <2>4. PICK c \in Content : c.kind # "data" /\ flash' = [flash EXCEPT ![Here] = c]
    <3>1. CASE AppendErases
      <4>1. flash' = [flash EXCEPT ![Here] = Blank]
        BY <3>1, AppendClears
      <4> QED
        BY <4>1, ContentFacts, KindFacts
    <3>2. CASE AppendWrites
      <4>1. flash' = [flash EXCEPT ![Here] = Cfg(jn + 1)]
        BY <3>2, AppendPuts
      <4>2. Cfg(jn + 1) \in Content
        BY ContentFacts
      <4>3. Cfg(jn + 1).kind # "data"
        BY DEF Cfg
      <4> QED
        BY <4>1, <4>2, <4>3
    <3> QED
      BY <1>2, <3>1, <3>2
  <2>5. KeepsData
    BY <2>3, <2>4, ImageAhead
  <2>6. pos' >= pos /\ pos' \in Nat
    BY <1>2, <2>3, AppendPuts DEF AppendErases, writeVars
  <2>7. \A b \in Blocks : IsData(b) => b[2] < pos'
    BY <2>6 DEF ImageInv
  <2> QED
    BY <2>1, <2>5, <2>7, ImageKept
<1>3. CASE EndAppend
  <2>1. UNCHANGED <<flash, pos, rd, readErr, result>> /\ pc = "j_pad" /\ pc' = "fill"
        /\ buf' = <<>> /\ cfgLeft' = FALSE /\ result = "running"
    BY <1>3 DEF EndAppend, flashVars, ConfigInv
  <2>2. UseCfg /\ Replaced'
    BY <2>1 DEF ConfigInv, Replaced
  <2>3. \A c : (OnFlash(c)' <=> OnFlash(c)) /\ \A b \in Blocks : IsData(b)' <=> IsData(b)
    BY <2>1 DEF OnFlash, ChunksOn, IsData
  <2>4. buf # <<>> /\ buf[1] = EofChunk /\ EofChunk \in Nat \ {0} /\ Reading
        /\ buf \in Seq(Nat) /\ rd \in Nat
    BY <2>1, NumberAssumption DEF ImageInv, Reading, TypeOK
  <2>5. \A c : InBuf(c) => c = 0 \/ c >= EofChunk
    BY <2>4 DEF ImageInv, InBuf
  <2>6. ~Replaced
    BY <2>1 DEF ConfigInv, Replaced
  <2>7. \A c \in 1 .. rd' - 1 : Safe(c)'
    BY <2>1, <2>2, <2>3, <2>5, <2>6 DEF ImageInv, Safe
  <2>8. rd' > EofChunk
    <3>1. 1 \in DOMAIN buf
      BY <2>4
    <3> QED
      BY <2>1, <2>4, <3>1 DEF ImageInv
  <2>9. DOMAIN buf' = {}
    BY <2>1
  <2> QED
    BY <2>1, <2>2, <2>3, <2>7, <2>8, <2>9 DEF ImageInv, OkMeansStored
<1> QED
  BY <1>1, <1>2, <1>3 DEF Configure

LEMMA ImageRoom ==
    ASSUME ConfigUse, TypeOK, ConfigInv, ImageInv, Room \/ WriteFails PROVE ImageInv'
<1> USE ConfigTypes
<1>1. UNCHANGED <<buf, rd, readErr, skip, cfgLeft>> /\ pc \in {"room", "write"}
      /\ pc' \in {"room", "write", "done"} /\ result' # "ok" /\ ~Spill
  BY DEF Room, BadQueryFails, SkipBadBlock, EraseBlock, EraseFails, Spill, RoomMade,
         ReachesErase, WriteFails, Fail, writeVars, imageVars, cfgVars, ConfigInv
<1>2. pos' >= pos /\ pos' \in Nat
  <2>1. pos' = pos \/ pos' = Advance(part, pos, pos + 1)
    BY <1>1, Zenon DEF Room, BadQueryFails, SkipBadBlock, EraseBlock, EraseFails, RoomMade,
           ReachesErase, WriteFails, writeVars
  <2> QED
    BY <1>1, <2>1 DEF Advance, TypeOK
<1>3. KeepsData
  <2>1. CASE UNCHANGED flash
    BY <2>1 DEF KeepsData, IsData
  <2>2. CASE EraseBlock \/ EraseFails
    <3>1. Target = Here
      BY <1>1, <2>2 DEF EraseBlock, EraseFails, ReachesErase, Short, ConfigInv, InStep, Cleared
    <3>2. CASE EraseBlock
      BY <3>1, <3>2, ImageAhead, ContentFacts, KindFacts DEF EraseBlock, Erases
    <3>3. CASE EraseFails
      <4>1. worn = {} /\ Target \notin bad
        BY <1>1, <3>3 DEF EraseFails, ReachesErase, ConfigInv, ConfigUse
      <4>2. UNCHANGED flash
        BY <3>3, <4>1 DEF EraseFails, EraseFailed, Erases
      <4> QED
        BY <2>1, <4>2
    <3> QED
      BY <2>2, <3>2, <3>3
  <2>3. CASE WriteFails
    <3>1. Here \in Blocks /\ (UNCHANGED flash \/ flash' = [flash EXCEPT ![Here] = Junk])
      BY <2>3 DEF WriteFails, ConfigInv, Cleared
    <3> QED
      BY <2>1, <3>1, ImageAhead, ContentFacts, KindFacts
  <2> QED
    BY <1>1, <2>1, <2>2, <2>3 DEF Room, BadQueryFails, SkipBadBlock, RoomMade, flashVars
<1>4. \A b \in Blocks : IsData(b) => b[2] < pos'
  BY <1>2 DEF ImageInv
<1> QED
  BY <1>1, <1>3, <1>4, ImageKept

\* The block in the buffer goes to a blank block behind the image.
LEMMA ImageWrite ==
    ASSUME ConfigUse, TypeOK, ConfigInv, ImageInv, WriteBlock PROVE ImageInv'
<1> USE ConfigTypes
<1>1. pc = "write" /\ Cleared /\ offset = 0 /\ result = "running"
  BY DEF WriteBlock, ConfigInv
<1>2. PICK h \in Blocks : h = Here /\ h[2] = pos
  BY <1>1 DEF Cleared
<1>3. flash' = [flash EXCEPT ![h] = Data(buf)]
  BY <1>1, <1>2 DEF WriteBlock, Programmed, Cleared
<1>4. /\ buf' = <<>> /\ rd' = rd /\ readErr' = readErr /\ pos' = pos + 1 /\ skip' = skip
      /\ pc' = "fill" /\ result' = "running" /\ cfgLeft' = cfgLeft
  BY <1>1 DEF WriteBlock, cfgVars
<1>5. Reading /\ (Replaced' <=> Replaced) /\ DOMAIN buf' = {}
  BY <1>1, <1>4 DEF Reading, Replaced
<1>6. \A b \in Blocks \ {h} : ChunksOn(b)' = ChunksOn(b) /\ (IsData(b)' <=> IsData(b))
  BY <1>3 DEF ChunksOn, IsData, TypeOK
<1>7. ChunksOn(h) = {} /\ ~IsData(h)
  BY <1>2 DEF ImageInv, ChunksOn, IsData
<1>8. \A c : InBuf(c) /\ c # 0 => c \in ChunksOn(h)'
  <2>1. flash'[h] = Data(buf)
    BY <1>3 DEF TypeOK
  <2> QED
    BY <2>1, KindFacts DEF ChunksOn, InBuf
<1>9. \A c : OnFlash(c) \/ (InBuf(c) /\ c # 0) => OnFlash(c)'
  BY <1>6, <1>7, <1>8 DEF OnFlash
<1>10. \A c \in 1 .. rd' - 1 : Safe(c)'
  BY <1>1, <1>4, <1>5, <1>9 DEF ImageInv, Safe
<1>11. \A b \in Blocks : IsData(b)' => b[2] < pos'
  BY <1>2, <1>4, <1>6, SMTT(60) DEF ImageInv
<1> QED
  BY <1>4, <1>5, <1>10, <1>11 DEF ImageInv, Reading, OkMeansStored

\* The chunks of the header's block are in the buffer while it is erased.
LEMMA ChunksFollow ==
    ASSUME NEW b, flash'[b] = flash[b] PROVE ChunksOn(b)' = ChunksOn(b)
BY DEF ChunksOn

LEMMA ImageFix ==
    ASSUME ConfigUse, TypeOK, ConfigInv, ImageInv, Fix PROVE ImageInv'
<1> USE ConfigTypes
<1>1. /\ UNCHANGED <<bad, part, pos, rd, readErr, skip, cfgLeft>>
      /\ pc \in {"fix_erase", "fix_write"} /\ result' # "ok" /\ (Replaced' <=> Replaced)
  BY DEF Fix, FixErases, FixWrites, writeVars, cfgVars, Fail, ConfigInv, Replaced
<1>2. PICK h : h = HeaderBlock
  OBVIOUS
<1>3. HeaderBlock' = h
  BY <1>1, <1>2 DEF HeaderBlock
<1>4. CASE UNCHANGED <<flash, buf>> /\ pc = "fix_erase" /\ pc' \in {"finish", "done"}
  <2>1. KeepsData /\ \A b \in Blocks : IsData(b) => b[2] < pos'
    BY <1>1, <1>4 DEF KeepsData, IsData, ImageInv
  <2> QED
    BY <1>1, <1>4, <2>1, ImageKept
<1>5. CASE pc' = "done" /\ \A b \in Blocks : IsData(b)' => IsData(b)
  BY <1>1, <1>5 DEF ImageInv, OkMeansStored, Reading
<1>6. CASE pc = "fix_erase" /\ pc' = "fix_write" /\ HeaderThere /\ Erases(h)
           /\ buf' = flash[h].data /\ flash' = [flash EXCEPT ![h] = Blank]
  <2>1. h \in Blocks /\ h \notin bad /\ IsData(h) /\ h[2] < pos
    BY <1>2, <1>6 DEF HeaderThere, ChunksOn, IsData, Erases, ImageInv
  <2>2. flash'[h] = Blank /\ \A b \in Blocks \ {h} : flash'[b] = flash[b]
    BY <1>6, <2>1 DEF TypeOK
  <2>3. \A b \in Blocks : IsData(b)' => IsData(b)
    BY <2>1, <2>2, KindFacts DEF IsData
  <2>4. \A c : OnFlash(c) => OnFlash(c)' \/ InBuf(c)'
    <3>1. \A c \in ChunksOn(h) : InBuf(c)'
      BY <1>6, <2>1 DEF ChunksOn, InBuf, IsData
    <3>2. \A b \in Blocks \ {h} : ChunksOn(b)' = ChunksOn(b)
      BY <2>2, ChunksFollow
    <3> QED
      BY <3>1, <3>2 DEF OnFlash
  <2>5. \A c : ~InBuf(c)
    BY <1>6, BufferFacts DEF ImageInv, InBuf
  <2>6. \A c \in 1 .. rd' - 1 : Safe(c)'
    BY <1>1, <1>6, <2>4, <2>5 DEF ImageInv, Safe
  <2> QED
    BY <1>1, <1>3, <1>6, <2>1, <2>2, <2>3, <2>6 DEF ImageInv, OkMeansStored, Reading
<1>7. CASE pc = "fix_write" /\ pc' = "finish" /\ buf' = <<>>
           /\ flash' = [flash EXCEPT ![h] = Programmed(h, Data(buf))]
  <2>1. h \in Blocks /\ h \notin bad /\ flash[h] = Blank /\ h[2] < pos
    BY <1>2, <1>7 DEF ImageInv
  <2>2. flash'[h] = Data(buf) /\ \A b \in Blocks \ {h} : flash'[b] = flash[b]
    BY <1>7, <2>1 DEF Programmed, TypeOK
  <2>3. \A b \in Blocks : IsData(b)' => b[2] < pos'
    BY <1>1, <2>1, <2>2 DEF IsData, ImageInv
  <2>4. \A c : OnFlash(c) \/ (InBuf(c) /\ c # 0) => OnFlash(c)'
    <3>1. \A c : InBuf(c) /\ c # 0 => c \in ChunksOn(h)'
      BY <2>2, KindFacts DEF ChunksOn, InBuf
    <3>2. \A b \in Blocks \ {h} : ChunksOn(b)' = ChunksOn(b)
      BY <2>2, ChunksFollow
    <3>3. ChunksOn(h) = {}
      BY <2>1 DEF ChunksOn, Blank
    <3> QED
      BY <2>1, <3>1, <3>2, <3>3 DEF OnFlash
  <2>5. \A c \in 1 .. rd' - 1 : Safe(c)'
    BY <1>1, <1>7, <2>4 DEF ImageInv, Safe
  <2>6. (readErr' \/ rd' = ImageLen + 1) /\ DOMAIN buf' = {}
    BY <1>1, <1>7 DEF ImageInv
  <2> QED
    BY <1>1, <1>7, <2>3, <2>5, <2>6 DEF ImageInv, OkMeansStored
<1> QED
  <2>1. CASE FixErases
    <3>1. CASE EraseFailed(HeaderBlock) /\ Fail /\ HeaderThere
      <4>1. \A b \in Blocks : IsData(b)' => IsData(b)
        BY <3>1, KindFacts DEF EraseFailed, IsData, TypeOK
      <4> QED
        BY <1>5, <3>1, <4>1 DEF Fail
    <3>2. CASE ~(EraseFailed(HeaderBlock) /\ Fail /\ HeaderThere)
      BY <1>2, <1>4, <1>6, <2>1, <3>2 DEF FixErases, Fail
    <3> QED
      BY <3>1, <3>2
  <2>2. CASE FixWrites
    <3>1. CASE Fail
      <4>1. \A b \in Blocks : IsData(b)' => IsData(b)
        BY <2>2, <3>1, KindFacts DEF FixWrites, Fail, IsData, TypeOK
      <4> QED
        BY <1>5, <3>1, <4>1 DEF Fail
    <3>2. CASE ~Fail
      BY <1>2, <1>7, <2>2, <3>2 DEF FixWrites
    <3> QED
      BY <3>1, <3>2
  <2> QED
    BY <2>1, <2>2 DEF Fix

LEMMA ImageStep ==
    ASSUME ConfigUse, TypeOK, ConfigInv, ImageInv, [Next]_vars PROVE ImageInv'
<1>1. CASE UNCHANGED vars
  BY <1>1 DEF ImageInv, Safe, OnFlash, ChunksOn, InBuf, IsData, Reading, Replaced, HeaderBlock,
              OkMeansStored, Missing, vars, flashVars, writeVars, imageVars, cfgVars
<1>2. CASE PowerCut
  <2>1. UNCHANGED <<pos, buf, rd, readErr, skip, cfgLeft, result>> /\ pc' = "off" /\ result # "ok"
    BY <1>2 DEF PowerCut, writeVars, imageVars, cfgVars, ConfigInv
  <2>2. \A b \in Blocks : IsData(b)' => IsData(b)
    BY <1>2, KindFacts DEF PowerCut, IsData, TypeOK
  <2> QED
    BY <2>1, <2>2 DEF ImageInv, Reading, OkMeansStored, Replaced
<1> QED
  BY <1>1, <1>2, ImageMain, ImageRead, ImageConfigure, ImageRoom, ImageWrite, ImageFix
  DEF Next, Program, Put, Stopped

LEMMA ImageHolds == ASSUME ConfigUse PROVE Spec => []ImageInv
<1>1. Init => ImageInv
  BY ImageInit
<1>2. TypeOK /\ ConfigInv /\ ImageInv /\ [Next]_vars => ImageInv'
  BY ImageStep
<1> QED
  BY <1>1, <1>2, TypeCorrect, ConfigHolds, PTL DEF Spec

\* Under the same conditions, also with a configuration to append and a header to put
\* right, exit status 0 means that the image is on the flash, but for what the
\* configuration replaces: the append and mtd_fixseama and its like cost none of it
\* (OkMeansStored).
THEOREM SuccessStoresBoth == ASSUME ConfigUse PROVE Spec => []OkMeansStored
<1>1. ImageInv => OkMeansStored
  BY DEF ImageInv
<1> QED
  BY <1>1, ImageHolds, PTL

\* And the recovery magic is there whenever the flash does not hold the whole image:
\* between the marker and the last block of the configuration, and while the header's
\* block is erased and written back (FlagCoversTear).
THEOREM TornIsFlaggedToo == ASSUME ConfigUse, ~EraseOpt PROVE Spec => []FlagCoversTear
<1>1. Init => FlagInv /\ TornInv
  BY DEF Init, FlagInv, TornInv, FlagCoversTear, Dirty
<1>2. TypeOK /\ ImageInv /\ FlagInv /\ TornInv /\ [Next]_vars => FlagInv' /\ TornInv'
  BY FlagStep, TornStep, AllThere
<1>3. TornInv => FlagCoversTear
  BY DEF TornInv
<1> QED
  BY <1>1, <1>2, <1>3, TypeCorrect, ImageHolds, PTL DEF Spec

\* Neither the image nor the configuration ever goes to a block that is bad or has not
\* been erased, also where an append has moved the frontier (NeverBlind).
THEOREM WritesAreCleanToo == ASSUME ConfigUse PROVE Spec => []NeverBlind
<1>1. ConfigInv => NeverBlind
  BY DEF ConfigInv, Cleared, NeverBlind
<1> QED
  BY <1>1, ConfigHolds, PTL

-----------------------------------------------------------------------------
(***************************************************************************)
(* Image and configuration together leave no hole, and the image on both   *)
(* sides of the configuration is in order.  The header's block comes first *)
(* of all, so it may be empty or ruined without leaving a hole.            *)
(***************************************************************************)
Early == pc \in {"check", "pre_erase", "open"}

Filled ==
    /\ Early => pos = 0
    /\ \A b \in Blocks : Holds(b) => b[2] < pos
    /\ \A b \in Blocks : 0 < b[2] /\ b[2] < pos => Holds(b) \/ b \in bad

\* All steps but three put nothing on the flash.
LEMMA OthersPutNothing ==
    ASSUME TypeOK, Next, ~WriteBlock, ~AppendWrites, ~FixWrites, NEW b \in Blocks
    PROVE  flash'[b] = flash[b] \/ ~Holds(b)'
<1> USE DEF Holds, Old, Blank, Junk
<1>1. ASSUME NEW t, NEW c \in {flash[t], Junk, Blank}, flash' = [flash EXCEPT ![t] = c]
      PROVE  flash'[b] = flash[b] \/ ~Holds(b)'
  BY <1>1 DEF TypeOK
<1>2. CASE UNCHANGED flash
  BY <1>2
<1>3. CASE PreErase \/ AppendErases \/ EraseBlock \/ EraseFails \/ WriteFails \/ FixErases
  BY <1>1, <1>2, <1>3 DEF PreErase, AppendErases, EraseBlock, EraseFails, EraseFailed,
                          WriteFails, FixErases
<1>4. CASE Spill
  BY <1>4 DEF Spill, Spilled, TypeOK
<1>5. CASE PowerCut
  BY <1>1, <1>2, <1>5 DEF PowerCut
<1> QED
  BY <1>2, <1>3, <1>4, <1>5
  DEF Next, Program, Main, Read, Configure, Room, Put, Fix, CheckImage, OpenPart, FlagErase,
      FlagWrite, Finish, ReadChunk, EndFill, DropBlock, KeepBlock, StartAppend,
      AppendSkipsBad, EndAppend, BadQueryFails, SkipBadBlock, RoomMade, Stopped, vars,
      flashVars

\* Behind the file offset nothing changes but the header's block, and that only when
\* the header is put right.
Fixing == pc \in {"fix_erase", "fix_write"}

LEMMA BehindIsFixed ==
    ASSUME ConfigUse, TypeOK, ConfigInv, Next, pc # "pre_erase",
           NEW b \in Blocks, b # HeaderBlock \/ ~Fixing, b[2] < pos
    PROVE  flash'[b] = flash[b]
<1> USE ConfigTypes
<1>1. ASSUME NEW t \in {Here, HeaderBlock}, NEW c, flash' = [flash EXCEPT ![t] = c],
             t = HeaderBlock => t = Here \/ Fixing
      PROVE  flash'[b] = flash[b]
  <2>1. t # b
    BY <1>1
  <2> QED
    BY <1>1, <2>1 DEF TypeOK
<1>2. CASE UNCHANGED flash
  BY <1>2
<1>3. pc = "room" /\ ReachesErase => Target = Here
  BY DEF ReachesErase, Short, ConfigInv, InStep, Cleared
<1>4. CASE EraseBlock \/ EraseFails
  BY <1>1, <1>2, <1>3, <1>4 DEF EraseBlock, EraseFails, EraseFailed, ReachesErase
<1>5. CASE AppendErases
  BY <1>1, <1>5, AppendClears DEF AppendErases
<1>6. CASE WriteBlock \/ WriteFails \/ AppendWrites \/ FixErases \/ FixWrites
  BY <1>1, <1>2, <1>6 DEF WriteBlock, WriteFails, AppendWrites, FixErases, FixWrites, EraseFailed,
                          Fixing
<1>7. CASE PowerCut
  BY <1>1, <1>2, <1>7, AtWorkIsAhead DEF PowerCut, Fixing
<1>8. ~Spill /\ ~PreErase
  BY DEF Spill, PreErase
<1> QED
  BY <1>2, <1>4, <1>5, <1>6, <1>7, <1>8
  DEF Next, Program, Main, Read, Configure, Room, Put, Fix, CheckImage, OpenPart, FlagErase,
      FlagWrite, Finish, ReadChunk, EndFill, DropBlock, KeepBlock, StartAppend,
      AppendSkipsBad, EndAppend, BadQueryFails, SkipBadBlock, RoomMade, Stopped, vars,
      flashVars

\* The file offset moves over a block that is bad or has just been written, or not.
LEMMA OffsetFollows ==
    ASSUME ConfigUse, TypeOK, ConfigInv, Filled, Next
    PROVE  \/ pos' = pos /\ ~WriteBlock /\ ~AppendWrites
           \/ /\ pos' = pos + 1 /\ ~Early /\ ~FixWrites
              /\ \A b \in Blocks : b[2] = pos => b \in bad \/ Holds(b)'
              /\ \A b \in Blocks : b[2] # pos => flash'[b] = flash[b]
<1> USE ConfigTypes
<1>1. CASE SkipBadBlock
  <2>1. pc = "room" /\ <<part, e>> \in bad /\ pos' = Advance(part, pos, pos + 1) /\ UNCHANGED flash
    BY <1>1 DEF SkipBadBlock, flashVars
  <2>2. pos = e
    BY <1>1, <2>1 DEF SkipBadBlock, Short, ConfigInv, InStep, Cleared
  <2>3. pos < Size[part] /\ Here \in bad
    BY <2>1, <2>2 DEF TypeOK
  <2> QED
    BY <2>1, <2>3 DEF Advance, Early, FixWrites
<1>2. CASE AppendSkipsBad
  <2>1. pc = "j_pad" /\ pos = mtdofs /\ UNCHANGED flash
    BY <1>2 DEF AppendSkipsBad, ConfigInv, flashVars
  <2>2. CASE pos' = pos
    BY <2>1, <2>2 DEF WriteBlock, AppendWrites
  <2>3. CASE pos' # pos
    <3>1. AppendBlock \in bad /\ pos' = Advance(part, pos, pos + 1)
      BY <1>2, <2>3 DEF AppendSkipsBad
    <3>2. pos < Size[part] /\ Here \in bad
      BY <2>1, <3>1 DEF TypeOK, AppendBlock
    <3> QED
      BY <2>1, <3>1, <3>2 DEF Advance, Early, FixWrites
  <2> QED
    BY <2>2, <2>3
<1>3. CASE WriteBlock \/ AppendWrites
  <2>1. pc \in {"write", "j_write"} /\ Here \in Blocks /\ Here \notin bad /\ flash[Here] = Blank
        /\ pos < Size[part] /\ offset = 0
    BY <1>3 DEF WriteBlock, AppendWrites, ConfigInv, Cleared
  <2>2. pos' = pos + 1
    BY <1>3, <2>1, AppendPuts DEF WriteBlock
  <2>3. \E c \in {Data(buf), Cfg(jn + 1)} : flash' = [flash EXCEPT ![Here] = c]
    BY <1>3, <2>1, AppendPuts DEF WriteBlock, Programmed
  <2>4. \A b \in Blocks : b[2] # pos => flash'[b] = flash[b]
    BY <2>3 DEF TypeOK
  <2>5. flash'[Here].kind \in {"data", "cfg"}
    BY <2>1, <2>3 DEF TypeOK, Data, Cfg
  <2>6. \A b \in Blocks : b[2] = pos => Holds(b)'
    BY <2>5 DEF Holds
  <2> QED
    BY <2>1, <2>2, <2>4, <2>6 DEF Early, FixWrites
<1>4. CASE OpenPart
  BY <1>4 DEF OpenPart, Filled, Early, Advance, ConfigUse, WriteBlock, AppendWrites, writeVars
<1>5. CASE ~(SkipBadBlock \/ AppendSkipsBad \/ WriteBlock \/ AppendWrites \/ OpenPart)
  BY <1>5
  DEF Next, Program, Main, Read, Configure, Room, Put, Fix, CheckImage, PreErase, FlagErase,
      FlagWrite, Finish, ReadChunk, EndFill, DropBlock, KeepBlock, StartAppend,
      AppendErases, EndAppend, BadQueryFails, EraseBlock, EraseFails, Spill, RoomMade,
      WriteFails, FixErases, FixWrites, PowerCut, Stopped, vars, writeVars
<1> QED
  BY <1>1, <1>2, <1>3, <1>4, <1>5

LEMMA FilledStep ==
    ASSUME ConfigUse, TypeOK, ConfigInv, ImageInv, Filled, [Next]_vars PROVE Filled'
<1> USE ConfigTypes
<1>0. bad' = bad
  BY BadIsFixed
<1>1. CASE UNCHANGED vars
  BY <1>1 DEF Filled, Early, Holds, vars, flashVars, writeVars
<1> SUFFICES ASSUME Next PROVE Filled'
  BY <1>1
<1>2. Early' => Early
  <2>1. CASE Main
    BY <2>1 DEF Early, Main, CheckImage, PreErase, OpenPart, FlagErase, FlagWrite, Finish, Fail
  <2>2. CASE Read \/ Configure
    BY <2>2 DEF Early, Read, Configure, Fail, ReadChunk, EndFill, AfterImage, DropBlock,
                KeepBlock, StartAppend, AppendSkipsBad, AppendErases, AppendWrites, EndAppend
  <2>3. CASE Room \/ Put
    BY <2>3 DEF Early, Room, Put, Fail, BadQueryFails, SkipBadBlock, EraseBlock, EraseFails,
                Spill, RoomMade, ReachesErase, WriteBlock, WriteFails
  <2>4. CASE Fix \/ PowerCut \/ Stopped
    BY <2>4 DEF Early, Fix, FixErases, FixWrites, Fail, PowerCut, Stopped, vars
  <2> QED
    BY <2>1, <2>2, <2>3, <2>4 DEF Next, Program
<1>3. \A b \in Blocks : 0 < b[2] /\ b[2] < pos => flash'[b] = flash[b]
  <2>1. CASE pc = "pre_erase"
    BY <2>1 DEF Filled, Early
  <2>2. CASE pc # "pre_erase"
    BY <2>2, BehindIsFixed
  <2> QED
    BY <2>1, <2>2
<1>4. CASE pos' = pos /\ ~WriteBlock /\ ~AppendWrites
  <2>1. \A b \in Blocks : Holds(b)' => b[2] < pos
    <3>1. CASE FixWrites
      <4>1. HeaderBlock[2] < pos
        BY <3>1 DEF FixWrites, ImageInv
      <4>2. \A b \in Blocks : b # HeaderBlock => flash'[b] = flash[b]
        BY <3>1 DEF FixWrites, TypeOK
      <4> QED
        BY <4>1, <4>2 DEF Filled, Holds
    <3>2. CASE ~FixWrites
      BY <1>4, <3>2, OthersPutNothing DEF Filled, Holds
    <3> QED
      BY <3>1, <3>2
  <2> QED
    BY <1>0, <1>2, <1>3, <1>4, <2>1 DEF Filled, Holds
<1>5. CASE /\ pos' = pos + 1 /\ ~Early
           /\ \A b \in Blocks : b[2] = pos => b \in bad \/ Holds(b)'
           /\ \A b \in Blocks : b[2] # pos => flash'[b] = flash[b]
  <2>1. \A b \in Blocks : b[2] # pos => (Holds(b)' <=> Holds(b))
    BY <1>5 DEF Holds
  <2>2. \A b \in Blocks : b[2] < pos + 1 <=> b[2] < pos \/ b[2] = pos
    OBVIOUS
  <2> QED
    BY <1>0, <1>2, <1>5, <2>1, <2>2 DEF Filled
<1> QED
  BY <1>4, <1>5, OffsetFollows

\* With -j, too, only bad blocks are left out: behind the image comes the configuration,
\* and behind it the rest of the image, if there is one (NoHole).
THEOREM OnlyBadLeftOutToo == ASSUME ConfigUse PROVE Spec => []NoHole
<1>1. Init => Filled
  <2> SUFFICES ASSUME Init PROVE Filled
    OBVIOUS
  <2>1. pos = 0 /\ \A b \in Blocks : ~Holds(b)
    BY DEF Init, Holds, Old
  <2>2. \A b \in Blocks : ~(0 < b[2] /\ b[2] < pos)
    BY <2>1, BlockFacts
  <2> QED
    BY <2>1, <2>2 DEF Filled
<1>2. TypeOK /\ ConfigInv /\ ImageInv /\ Filled /\ [Next]_vars => Filled'
  BY FilledStep
<1>3. TypeOK /\ Filled => NoHole
  <2> SUFFICES ASSUME TypeOK, Filled,
                      NEW p \in Parts, NEW i \in 0 .. Size[p] - 1, NEW j \in 0 .. Size[p] - 1,
                      NEW k \in 0 .. Size[p] - 1, i < j, j < k,
                      Holds(<<p, i>>), Holds(<<p, k>>)
               PROVE  Holds(<<p, j>>) \/ <<p, j>> \in bad
    BY Zenon DEF NoHole
  <2>1. <<p, j>> \in Blocks /\ <<p, k>> \in Blocks /\ pos \in Nat
    BY BlockFacts DEF TypeOK
  <2>2. k < pos
    BY <2>1 DEF Filled
  <2>3. 0 < j /\ j < pos
    BY <2>1, <2>2, BlockFacts
  <2> QED
    BY <2>1, <2>3 DEF Filled
<1> QED
  BY <1>1, <1>2, <1>3, TypeCorrect, ConfigHolds, ImageHolds, PTL DEF Spec

\* While the image is read, what is in the buffer comes after all that is on the flash;
\* while the header is put right, the buffer holds the first block.
Filling == pc \notin {"fix_erase", "fix_write", "finish", "clr_erase", "clr_write", "done", "off"}

InOrder ==
    /\ Ordered
    /\ Filling => \A b \in Blocks : \A x \in ChunksOn(b) :
          x < rd /\ \A c : InBuf(c) /\ c # 0 => x < c
    /\ pc = "fix_write" => \A b \in Blocks : \A x \in ChunksOn(b) :
          \A c : InBuf(c) /\ c # 0 => c < x

LEMMA OthersPutNoImage ==
    ASSUME ConfigUse, TypeOK, ConfigInv, Next, ~WriteBlock, ~FixWrites, NEW b \in Blocks
    PROVE  ChunksOn(b)' \subseteq ChunksOn(b)
<1>1. CASE AppendWrites
  <2>1. flash'[b] = flash[b] \/ flash'[b] \in {Cfg(jn + 1), Junk}
    BY <1>1 DEF AppendWrites, Programmed, TypeOK
  <2> QED
    BY <2>1 DEF ChunksOn, Cfg, Junk
<1>2. CASE ~AppendWrites
  BY <1>2, OthersPutNothing DEF ChunksOn, Holds
<1> QED
  BY <1>1, <1>2

\* A step that puts no image on the flash keeps the order, if it reads on or empties
\* the buffer.
LEMMA OrderKept ==
    ASSUME TypeOK, InOrder, \A b \in Blocks : ChunksOn(b)' \subseteq ChunksOn(b),
           pc' # "fix_write",
           Filling' => Filling /\ rd' \in {rd, rd + 1}
                       /\ \A c : InBuf(c)' /\ c # 0 => InBuf(c) \/ c = rd
    PROVE  InOrder'
<1>1. Ordered'
  BY DEF InOrder, Ordered, Before
<1>2. ASSUME Filling', NEW b \in Blocks, NEW x \in ChunksOn(b)'
      PROVE  x < rd' /\ \A c : InBuf(c)' /\ c # 0 => x < c
  <2>1. x \in ChunksOn(b) /\ Filling
    BY <1>2
  <2>2. x \in Nat /\ rd \in Nat /\ x < rd
    BY <2>1, ChunkType DEF InOrder, TypeOK
  <2>3. \A c : InBuf(c)' /\ c # 0 => x < c
    BY <1>2, <2>1, <2>2 DEF InOrder
  <2> QED
    BY <1>2, <2>2, <2>3
<1> QED
  BY <1>1, <1>2 DEF InOrder

LEMMA OrderReads ==
    ASSUME ConfigUse, TypeOK, ConfigInv, ImageInv, InOrder, Next, ~WriteBlock, ~Fix
    PROVE  InOrder'
<1>1. \A b \in Blocks : ChunksOn(b)' \subseteq ChunksOn(b)
  BY OthersPutNoImage DEF Fix
<1>2. CASE CheckImage
  <2>1. \A b \in Blocks : ChunksOn(b) = {}
    BY <1>2 DEF CheckImage, ImageInv, ChunksOn, IsData
  <2>2. pc' # "fix_write"
    BY <1>2 DEF CheckImage, Checked, Fail
  <2> QED
    BY <1>1, <2>1, <2>2 DEF InOrder, Ordered
<1>3. CASE ReadChunk
  <2>1. \A c : InBuf(c)' <=> InBuf(c) \/ c = rd
    BY <1>3, InAppended DEF ReadChunk
  <2>2. pc = "fill" /\ pc' = "fill" /\ rd' = rd + 1
    BY <1>3 DEF ReadChunk
  <2> QED
    BY <1>1, <2>1, <2>2, OrderKept DEF Filling
<1>4. CASE EndFill \/ DropBlock \/ EndAppend
  <2>1. \A c : InBuf(c)' /\ c # 0 => InBuf(c)
    <3>1. CASE buf' = buf
      BY <3>1 DEF InBuf
    <3>2. CASE buf' = Padded(buf)
      BY <3>2, InPadded
    <3>3. CASE buf' = <<>>
      BY <3>3, BufferFacts DEF InBuf
    <3> QED
      BY <1>4, <3>1, <3>2, <3>3 DEF EndFill, DropBlock, EndAppend
  <2>2. rd' = rd /\ Filling /\ pc' # "fix_write"
    BY <1>4 DEF EndFill, DropBlock, EndAppend, AfterImage, Filling
  <2> QED
    BY <1>1, <2>1, <2>2, OrderKept
<1>5. CASE ~(CheckImage \/ ReadChunk \/ EndFill \/ DropBlock \/ EndAppend)
  <2>1. UNCHANGED <<buf, rd>>
    BY <1>5
    DEF Next, Program, Main, Read, Configure, Room, Put, Fix, PreErase, OpenPart, FlagErase,
        FlagWrite, Finish, KeepBlock, StartAppend, AppendSkipsBad, AppendErases, AppendWrites,
        BadQueryFails, SkipBadBlock, EraseBlock, EraseFails, Spill, RoomMade, WriteFails,
        PowerCut, Stopped, vars, imageVars
  <2>2. CASE Main \/ Read \/ Configure
    BY <1>1, <1>5, <2>1, <2>2, OrderKept
    DEF Main, Read, Configure, PreErase, OpenPart, FlagErase, FlagWrite, Finish, KeepBlock,
        StartAppend, AppendSkipsBad, AppendErases, AppendWrites, Fail, Filling, InBuf
  <2>3. CASE Room \/ WriteFails
    BY <1>1, <2>1, <2>3, OrderKept
    DEF Room, BadQueryFails, SkipBadBlock, EraseBlock, EraseFails, Spill, RoomMade,
        ReachesErase, WriteFails, Fail, Filling, InBuf
  <2>4. CASE PowerCut
    BY <1>1, <2>1, <2>4, OrderKept DEF PowerCut, Filling
  <2>5. CASE Stopped
    BY <1>1, <2>1, <2>5, OrderKept DEF Stopped, vars, Filling
  <2> QED
    BY <2>2, <2>3, <2>4, <2>5 DEF Next, Program, Put
<1> QED
  BY <1>2, <1>3, <1>4, <1>5

\* The block that is written comes after all others, and so do its chunks.
LEMMA OrderWrites ==
    ASSUME ConfigUse, TypeOK, ConfigInv, ImageInv, InOrder, WriteBlock PROVE InOrder'
<1> USE ConfigTypes
<1>1. pc = "write" /\ Cleared /\ offset = 0 /\ Filling /\ Reading
  BY DEF WriteBlock, ConfigInv, Filling, Reading
<1>2. PICK h \in Blocks : h = Here /\ h[2] = pos
  BY <1>1 DEF Cleared
<1>3. flash' = [flash EXCEPT ![h] = Data(buf)]
  BY <1>1, <1>2 DEF WriteBlock, Programmed, Cleared
<1>4. buf' = <<>> /\ rd' = rd /\ pc' = "fill" /\ rd \in Nat
  BY DEF WriteBlock, TypeOK
<1>5. \A c : ~InBuf(c)'
  BY <1>4, BufferFacts DEF InBuf
<1>6. \A b \in Blocks \ {h} : ChunksOn(b)' = ChunksOn(b)
  BY <1>3 DEF ChunksOn, TypeOK
<1>7. \A c : (c \in ChunksOn(h)') <=> InBuf(c) /\ c # 0
  <2>1. flash'[h] = Data(buf)
    BY <1>3 DEF TypeOK
  <2> QED
    BY <2>1, KindFacts DEF ChunksOn, InBuf
<1>8. \A b \in Blocks : \A x \in ChunksOn(b)' : x < rd
  BY <1>1, <1>6, <1>7 DEF InOrder, ImageInv, InBuf
<1>9. Ordered'
  <2> SUFFICES ASSUME NEW b \in Blocks, NEW c \in Blocks, Before(b, c),
                      NEW x \in ChunksOn(b)', NEW y \in ChunksOn(c)'
               PROVE  x < y
    BY DEF Ordered, Before
  <2>1. b # c /\ b[2] < c[2]
    BY DEF Before
  <2>2. CASE c = h
    BY <1>1, <1>6, <1>7, <2>1, <2>2 DEF InOrder
  <2>3. CASE c # h
    <3>1. y \in ChunksOn(c)
      BY <1>6, <2>3
    <3>2. c[2] < pos
      BY <3>1 DEF ImageInv, ChunksOn, IsData
    <3>3. b # h
      BY <1>2, <2>1, <3>2
    <3>4. x \in ChunksOn(b)
      BY <1>6, <3>3
    <3> QED
      BY <3>1, <3>4 DEF InOrder, Ordered
  <2> QED
    BY <2>2, <2>3
<1> QED
  BY <1>4, <1>5, <1>8, <1>9 DEF InOrder

\* The header's block is the first, and gets back what it had.
LEMMA OrderFixes ==
    ASSUME ConfigUse, TypeOK, ConfigInv, ImageInv, InOrder, Fix PROVE InOrder'
<1> USE ConfigTypes
<1>1. CASE FixErases
  <2>1. \A b \in Blocks : ChunksOn(b)' \subseteq ChunksOn(b)
    BY <1>1, OthersPutNoImage DEF Next, Program, Fix, FixErases, FixWrites, WriteBlock
  <2>2. CASE pc' # "fix_write"
    BY <1>1, <2>1, <2>2, OrderKept DEF FixErases, Fail, Filling
  <2>3. CASE pc' = "fix_write"
    <3>1. HeaderThere /\ buf' = flash[HeaderBlock].data
          /\ flash' = [flash EXCEPT ![HeaderBlock] = Blank]
      BY <1>1, <2>3 DEF FixErases, Fail
    <3>2. PICK h \in Blocks : h = HeaderBlock /\ h[2] = 0 /\ IsData(h)
      BY <3>1 DEF HeaderThere, ChunksOn, IsData
    <3>3. \A c : InBuf(c)' /\ c # 0 => c \in ChunksOn(h)
      BY <3>1, <3>2 DEF InBuf, ChunksOn, IsData
    <3>4. ChunksOn(h)' = {}
      BY <3>1, <3>2, KindFacts DEF ChunksOn, TypeOK
    <3>5. \A b \in Blocks : b # h => Before(h, b)
      BY <3>2 DEF Before
    <3>6. \A b \in Blocks : \A x \in ChunksOn(b)' : \A c : InBuf(c)' /\ c # 0 => c < x
      BY <2>1, <3>3, <3>4, <3>5 DEF InOrder, Ordered
    <3>7. Ordered'
      BY <2>1 DEF InOrder, Ordered, Before
    <3> QED
      BY <2>3, <3>6, <3>7 DEF InOrder, Filling
  <2> QED
    BY <2>2, <2>3
<1>2. CASE FixWrites
  <2>1. PICK h \in Blocks : h = HeaderBlock /\ h[2] = 0 /\ pc = "fix_write"
    BY <1>2 DEF FixWrites, ImageInv
  <2>2. \A b \in Blocks \ {h} : ChunksOn(b)' = ChunksOn(b)
    <3>1. \E c \in {Programmed(h, Data(buf)), Junk} : flash' = [flash EXCEPT ![h] = c]
      BY <1>2, <2>1 DEF FixWrites
    <3>2. \A b \in Blocks \ {h} : flash'[b] = flash[b]
      BY <3>1 DEF TypeOK
    <3> QED
      BY <3>2, SMTT(60) DEF ChunksOn
  <2>3. \A c \in ChunksOn(h)' : InBuf(c) /\ c # 0
    <3>1. flash'[h] \in {Data(buf), Junk}
      BY <1>2, <2>1 DEF FixWrites, Programmed, TypeOK
    <3> QED
      BY <3>1, KindFacts DEF ChunksOn, InBuf
  <2>4. Ordered'
    <3> SUFFICES ASSUME NEW b \in Blocks, NEW c \in Blocks, Before(b, c),
                        NEW x \in ChunksOn(b)', NEW y \in ChunksOn(c)'
                 PROVE  x < y
      BY DEF Ordered, Before
    <3>1. b # c /\ c # h
      BY <2>1 DEF Before
    <3>2. y \in ChunksOn(c)
      BY <2>2, <3>1
    <3> QED
      BY <2>1, <2>2, <2>3, <3>2 DEF InOrder, Ordered
  <2>5. ~Filling' /\ pc' # "fix_write"
    BY <1>2 DEF FixWrites, Fail, Filling
  <2> QED
    BY <2>4, <2>5 DEF InOrder
<1> QED
  BY <1>1, <1>2 DEF Fix

\* With -j, too, the image lies on the flash in its own order, before the configuration
\* and behind it, also while the header is put right (Ordered).
THEOREM ImageInOrderToo == ASSUME ConfigUse PROVE Spec => []Ordered
<1>1. Init => InOrder
  <2> SUFFICES ASSUME Init PROVE InOrder
    OBVIOUS
  <2>1. pc = "check" /\ \A b \in Blocks : ChunksOn(b) = {}
    BY KindFacts DEF Init, ChunksOn
  <2> QED
    BY <2>1 DEF InOrder, Ordered
<1>2. TypeOK /\ ConfigInv /\ ImageInv /\ InOrder /\ [Next]_vars => InOrder'
  <2> SUFFICES ASSUME TypeOK, ConfigInv, ImageInv, InOrder, [Next]_vars PROVE InOrder'
    OBVIOUS
  <2>1. CASE UNCHANGED vars
    BY <2>1 DEF InOrder, Ordered, Filling, ChunksOn, InBuf, vars, flashVars, imageVars
  <2> QED
    BY <2>1, OrderReads, OrderWrites, OrderFixes
<1>3. InOrder => Ordered
  BY DEF InOrder
<1> QED
  BY <1>1, <1>2, <1>3, TypeCorrect, ConfigHolds, ImageHolds, PTL DEF Spec
-----------------------------------------------------------------------------
(***************************************************************************)
(* FirmwareUpdate again, with a configuration to append but no header to   *)
(* put right: the new firmware is then the image up to the end marker and  *)
(* the configuration behind it, so the end of the append may complete it.  *)
(***************************************************************************)
\* A configuration in place of image means that the flash was touched.
Upright == ~Fixing /\ (Replaced => Dirty)

\* Nothing brings the old contents back.
LEMMA TouchedStays ==
    ASSUME ConfigUse, TypeOK, Next, NEW b \in Blocks, flash[b] # Old
    PROVE  flash'[b] # Old
<1> USE DEF Old, Blank, Junk, Data, Cfg
<1>1. ASSUME NEW t, NEW c \in {flash[t], Junk, Blank}, flash' = [flash EXCEPT ![t] = c]
      PROVE  flash'[b] # Old
  BY <1>1 DEF TypeOK
<1>2. ASSUME NEW t, NEW c, c.kind # "old", flash' = [flash EXCEPT ![t] = c]
      PROVE  flash'[b] # Old
  BY <1>2 DEF TypeOK
<1>3. CASE UNCHANGED flash
  BY <1>3
<1>4. CASE PreErase \/ AppendErases \/ EraseBlock \/ EraseFails \/ WriteFails \/ FixErases
  BY <1>1, <1>3, <1>4 DEF PreErase, AppendErases, EraseBlock, EraseFails, EraseFailed,
                          WriteFails, FixErases
<1>5. CASE WriteBlock \/ AppendWrites \/ FixWrites
  <2>1. ASSUME NEW t, NEW c, c.kind # "old", flash' = [flash EXCEPT ![t] = Programmed(t, c)]
        PROVE  flash'[b] # Old
    <3>1. Programmed(t, c).kind # "old"
      BY <2>1 DEF Programmed
    <3> QED
      BY <1>2, <2>1, <3>1
  <2>2. CASE WriteBlock
    <3>1. PICK c \in {Data(buf), Junk} : flash' = [flash EXCEPT ![Here] = Programmed(Here, c)]
      BY <2>2 DEF WriteBlock
    <3>2. c.kind # "old"
      OBVIOUS
    <3> QED
      BY <2>1, <3>1, <3>2
  <2>3. CASE AppendWrites
    <3>1. \/ UNCHANGED flash \/ flash' = [flash EXCEPT ![Here] = Junk]
          \/ flash' = [flash EXCEPT ![Here] = Programmed(Here, Cfg(jn + 1))]
      BY <2>3 DEF AppendWrites
    <3>2. Cfg(jn + 1).kind # "old" /\ Junk.kind # "old"
      OBVIOUS
    <3> QED
      BY <1>2, <1>3, <2>1, <3>1, <3>2
  <2>4. CASE FixWrites
    BY <1>2, <2>1, <2>4 DEF FixWrites
  <2> QED
    BY <1>5, <2>2, <2>3, <2>4
<1>6. CASE PowerCut
  BY <1>1, <1>3, <1>6 DEF PowerCut
<1>7. ~Spill
  BY ConfigTypes DEF Spill
<1> QED
  BY <1>3, <1>4, <1>5, <1>6, <1>7
  DEF Next, Program, Main, Read, Configure, Room, Put, Fix, CheckImage, OpenPart, FlagErase,
      FlagWrite, Finish, ReadChunk, EndFill, DropBlock, KeepBlock, StartAppend,
      AppendSkipsBad, EndAppend, BadQueryFails, SkipBadBlock, RoomMade, Stopped, vars,
      flashVars

\* The place that is written next is blank, so the flash was touched.
LEMMA WriteFindsDirt ==
    ASSUME ConfigUse, TypeOK, ConfigInv, WriteBlock PROVE Dirty
<1>1. Here \in Blocks /\ flash[Here] = Blank
  BY ConfigTypes DEF WriteBlock, ConfigInv, Cleared
<1> QED
  BY <1>1 DEF Dirty, Old, Blank

\* When the append ends its blocks are on the flash.
LEMMA AppendFindsDirt ==
    ASSUME ConfigUse, TypeOK, ConfigInv, EndAppend PROVE Dirty
<1>1. Saved(1)
  <2>1. pc = "j_pad" /\ jn = CfgBlocks + 1 /\ 1 \in 1 .. jn
    BY ConfigTypes DEF EndAppend
  <2> QED
    BY <2>1 DEF ConfigInv
<1> QED
  BY <1>1 DEF Saved, Dirty, Old, Cfg

\* Only the end of the append puts the configuration in the place of image.
LEMMA ReplacedMoves == ASSUME Next, ~EndAppend PROVE Replaced' <=> Replaced
<1>1. cfgLeft' = cfgLeft
  BY DEF Next, Program, Main, Read, Configure, Room, Put, Fix, CheckImage, PreErase,
     OpenPart, FlagErase, FlagWrite, Finish, ReadChunk, EndFill, DropBlock, KeepBlock,
     StartAppend, AppendSkipsBad, AppendErases, AppendWrites, BadQueryFails, SkipBadBlock,
     EraseBlock, EraseFails, Spill, RoomMade, WriteBlock, WriteFails, FixErases, FixWrites,
     PowerCut, Stopped, vars, cfgVars
<1> QED
  BY <1>1 DEF Replaced

LEMMA UprightStep ==
    ASSUME ConfigUse, ~HasHeader, TypeOK, ConfigInv, Upright, [Next]_vars
    PROVE  Upright'
<1>1. CASE UNCHANGED vars
  BY <1>1 DEF Upright, Fixing, Replaced, Dirty, vars, flashVars, cfgVars
<1>2. CASE Next
  <2>1. ~Fixing'
    BY <1>2 DEF Upright, Fixing, Next, Program, Main, Read, Configure, Room, Put, Fix,
       CheckImage, Checked, PreErase, OpenPart, FlagErase, FlagWrite, Finish, ReadChunk,
       EndFill, AfterImage, DropBlock, KeepBlock, StartAppend, AppendSkipsBad,
       AppendErases, AppendWrites, EndAppend, BadQueryFails, SkipBadBlock, EraseBlock,
       EraseFails, Spill, RoomMade, ReachesErase, WriteBlock, WriteFails, FixErases,
       FixWrites, PowerCut, Stopped, Fail, vars
  <2>2. Dirty => Dirty'
    BY <1>2, TouchedStays DEF Dirty
  <2>3. Replaced' => Replaced \/ EndAppend
    BY <1>2, ReplacedMoves
  <2> QED
    BY <2>1, <2>2, <2>3, AppendFindsDirt DEF Upright
<1> QED
  BY <1>1, <1>2

\* No image ever leaves the flash.
LEMMA ImageStays ==
    ASSUME ConfigUse, TypeOK, ConfigInv, ImageInv, ~Fixing, Next, NEW b \in Blocks
    PROVE  ChunksOn(b) \subseteq ChunksOn(b)'
<1>1. CASE ~IsData(b)
  BY <1>1 DEF IsData, ChunksOn
<1>2. CASE IsData(b)
  <2>1. b[2] < pos /\ pc # "pre_erase"
    BY <1>2 DEF ImageInv
  <2>2. flash'[b] = flash[b]
    BY <2>1, BehindIsFixed
  <2> QED
    BY <2>2 DEF ChunksOn
<1> QED
  BY <1>1, <1>2

LEMMA NoneUnsavedNext ==
    ASSUME ConfigUse, TypeOK, ConfigInv, [Next]_vars PROVE Unsaved' = {}
<1>1. ConfigInv'
  BY ConfigStep
<1> QED
  BY <1>1 DEF ConfigInv, Unsaved, Saved

LEMMA FirmwareMoves ==
    ASSUME ConfigUse, ImageLen > 0, TypeOK, ConfigInv, ImageInv, Upright, Next
    PROVE  \/ firmware' = firmware
           \/ firmware = "old" /\ firmware' = "torn"
           \/ firmware = "torn" /\ firmware' = "new" /\ (WriteBlock \/ EndAppend)
<1>1. Dirty => Dirty'
  BY TouchedStays DEF Dirty
<1>2. Missing' \subseteq Missing
  <2>1. \A b \in Blocks : ChunksOn(b) \subseteq ChunksOn(b)'
    BY ImageStays DEF Upright
  <2>2. Replaced => Replaced'
    BY ReplacedMoves DEF EndAppend, Replaced
  <2> QED
    BY <2>1, <2>2 DEF Missing
<1>3. ~Dirty => Missing # {}
  <2> SUFFICES ASSUME ~Dirty PROVE Missing # {}
    OBVIOUS
  <2>1. \A b \in Blocks : ChunksOn(b) = {}
    BY DEF Dirty, ChunksOn, Old
  <2>2. 1 \in 1 .. ImageLen
    BY NumberAssumption
  <2> QED
    BY <2>1, <2>2 DEF Missing, Upright
<1>4. CASE WriteBlock \/ EndAppend
  BY <1>1, <1>2, <1>4, WriteFindsDirt, AppendFindsDirt, NoneUnsaved, NoneUnsavedNext DEF firmware
<1>5. CASE ~(WriteBlock \/ EndAppend)
  <2>1. ~FixWrites
    BY DEF Upright, Fixing, FixWrites
  <2>2. \A b \in Blocks : ChunksOn(b)' \subseteq ChunksOn(b)
    BY <1>5, <2>1, OthersPutNoImage
  <2>3. Missing' = Missing
    BY <1>2, <1>5, <2>2, ReplacedMoves DEF Missing
  <2> QED
    BY <1>1, <1>3, <2>3, NoneUnsaved, NoneUnsavedNext DEF firmware
<1> QED
  BY <1>4, <1>5

LEMMA UpdateStepToo ==
    ASSUME ConfigUse, Readable, TypeOK, ConfigInv, ImageInv, Upright, ReadsWell, [Next]_vars
    PROVE  [Update!Next]_(Update!vars)
<1> USE DEF Update!Next, Update!vars, Update!Tear, Update!Install, Update!Succeed,
            Update!GiveUp, Update!Lose, Update!End, Update!Progress
<1>1. CASE UNCHANGED vars
  <2>1. flash' = flash /\ Missing' = Missing /\ pc' = pc /\ result' = result
    BY <1>1 DEF vars, flashVars, cfgVars, Missing, Replaced, ChunksOn
  <2>2. firmware' = firmware /\ status' = status
    BY <2>1, NoneUnsaved, NoneUnsavedNext DEF firmware, status, Dirty
  <2> QED
    BY <2>2
<1>2. CASE Next
  <2>1. \/ firmware' = firmware
        \/ firmware = "old" /\ firmware' = "torn"
        \/ firmware = "torn" /\ firmware' = "new" /\ (WriteBlock \/ EndAppend)
    BY <1>2, FirmwareMoves DEF Readable
  <2>2. pc \notin {"done", "off"} => result = "running"
    BY DEF ConfigInv
  <2>3. CASE WriteBlock \/ EndAppend
    <3>1. status = "running" /\ status' = "running"
      BY <2>2, <2>3 DEF WriteBlock, EndAppend, status
    <3> QED
      BY <2>1, <3>1
  <2>4. CASE ~(WriteBlock \/ EndAppend)
    <3>1. flash' = flash => firmware' = firmware
      BY <1>2, <2>4, ReplacedMoves, NoneUnsaved, NoneUnsavedNext DEF firmware, Dirty, Missing, ChunksOn
    <3>2. CASE status' = status /\ (flash' # flash => status = "running")
      BY <2>1, <2>4, <3>1, <3>2
    <3>3. CASE status = "running" /\ status' \in {"failed", "off"}
      BY <2>1, <2>4, <3>3
    <3>4. CASE status = "running" /\ status' = "ok" /\ Missing = {} /\ UNCHANGED flash
      <4>1. Dirty
        <5>1. 1 \in 1 .. ImageLen /\ 1 \notin Missing
          BY <3>4, NumberAssumption DEF Readable
        <5>2. Replaced \/ \E b \in Blocks : 1 \in ChunksOn(b)
          BY <5>1 DEF Missing
        <5> QED
          BY <5>2 DEF Upright, Dirty, ChunksOn, Old
      <4>2. firmware = "new"
        BY <3>4, <4>1, NoneUnsaved DEF firmware
      <4> QED
        BY <3>1, <3>4, <4>2
    <3>5. pc \in {"finish", "clr_write"} => Missing = {}
      BY AllThere DEF ReadsWell
    <3> QED
      BY <1>2, <2>2, <3>2, <3>3, <3>4, <3>5, StatusMoves
  <2> QED
    BY <2>3, <2>4
<1> QED
  BY <1>1, <1>2

\* With -j, too, mtd is FirmwareUpdate, if no header is put right and no erase or write
\* goes wrong unnoticed: the firmware is new once the image up to the end marker and
\* every block of the configuration is there, and then stays so, whatever goes on behind
\* the append.
THEOREM UpdateIsImplementedToo ==
    ASSUME ConfigUse, ~HasHeader, Readable PROVE Spec => Implements
<1>1. Init => Update!Init /\ ReadsWell /\ Upright
  BY DEF Init, Update!Init, firmware, status, Dirty, ReadsWell, Upright, Fixing, Replaced
<1>2. TypeOK /\ ConfigInv /\ Upright /\ [Next]_vars => Upright'
  BY UprightStep
<1>3. ReadsWell /\ [Next]_vars => ReadsWell'
  BY ReadsWellStep
<1>4. TypeOK /\ ConfigInv /\ ImageInv /\ Upright /\ ReadsWell /\ [Next]_vars
      => [Update!Next]_(Update!vars)
  BY UpdateStepToo
<1> QED
  BY <1>1, <1>2, <1>3, <1>4, TypeCorrect, ConfigHolds, ImageHolds, PTL
  DEF Spec, Implements, Update!Spec
=============================================================================
