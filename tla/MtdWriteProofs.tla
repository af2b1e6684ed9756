--------------------------- MODULE MtdWriteProofs ---------------------------
(***************************************************************************)
(* What holds of mtd write for every flash, image and option.              *)
(***************************************************************************)
EXTENDS MtdWrite, SequenceTheorems, FiniteSetTheorems, TLAPS

USE SizeAssumption, NumberAssumption, OptionAssumption

\* The blocks are pairs of a partition and a number below its size.
LEMMA BlockFacts ==
    /\ NParts \in Nat \ {0}
    /\ \A p \in Parts : Size[p] \in Nat
    /\ \A p, i : <<p, i>> \in Blocks <=> p \in Parts /\ i \in 0 .. Size[p] - 1
    /\ \A b \in Blocks : b[1] \in Parts /\ b[2] \in 0 .. Size[b[1]] - 1
<1>1. NParts \in Nat \ {0}
  BY DEF NParts
<1>2. \A p \in Parts : Size[p] \in Nat
  BY DEF NParts, Parts
<1>3. QED
  BY <1>1, <1>2 DEF Blocks

\* A padded buffer is a sequence of exactly one block of chunks.
LEMMA PaddedType ==
    ASSUME NEW s \in Seq(Nat)
    PROVE  /\ Padded(s) \in Seq(Nat)
           /\ Len(Padded(s)) = ChunksPerBlock
<1>1. Padded(s) \in [1 .. ChunksPerBlock -> Nat]
  BY DEF Padded
<1>2. QED
  BY <1>1, LenProperties DEF Padded

\* Programming a block leaves a block's contents.
LEMMA ContentFacts ==
    /\ Old \in Content /\ Blank \in Content /\ Junk \in Content
    /\ \A s \in Seq(Nat) : Len(s) <= ChunksPerBlock => Data(s) \in Content
    /\ \A i \in Nat : Cfg(i) \in Content
    /\ \A b, c : c \in Content => Programmed(b, c) \in Content
BY DEF Content, Old, Blank, Junk, Data, Cfg, Programmed

\* The buffer is empty, starts with the magic, or grows by a chunk.
LEMMA BufferFacts ==
    /\ <<>> \in Seq(Nat) /\ Len(<<>>) = 0
    /\ <<1>> \in Seq(Nat) /\ Len(<<1>>) = 1
    /\ \A s \in Seq(Nat), c \in Nat :
          Append(s, c) \in Seq(Nat) /\ Len(Append(s, c)) = Len(s) + 1
OBVIOUS

-----------------------------------------------------------------------------
LEMMA InitType == Init => TypeOK
<1>1. Cardinality({}) = 0
  BY FS_EmptySet
<1>2. SUFFICES ASSUME Init PROVE TypeOK
  OBVIOUS
<1>3. bad \subseteq Blocks /\ worn \subseteq Blocks
  BY <1>2 DEF Init
<1>4. flash \in [Blocks -> Content]
  BY <1>2, ContentFacts DEF Init
<1>5. part \in Parts /\ pos <= Size[part] /\ pos \in Nat
  BY <1>2, BlockFacts DEF Init, Parts
<1>6. cfgLeft \in BOOLEAN
  <2>1. UseCfg \in BOOLEAN
    BY Zenon
  <2>2. QED
    BY <1>2, <2>1 DEF Init
<1>7. buf \in Seq(Nat) /\ Len(buf) <= ChunksPerBlock /\ rd \in 1 .. ImageLen + 1
  BY <1>2, BufferFacts DEF Init
<1>8. /\ flag = "clear" /\ w = 0 /\ e = 0 /\ skipBad = 0 /\ skip = 0 /\ offset = 0
      /\ readErr = FALSE /\ mtdofs = 0 /\ jn = 0 /\ pc = "check" /\ result = "running"
  BY <1>2 DEF Init
<1>9. readErr \in BOOLEAN
  BY <1>8
<1>10. jn \in 0 .. CfgBlocks + 1
  BY <1>8
<1>11. QED
  BY <1>3, <1>4, <1>5, <1>6, <1>7, <1>8, <1>9, <1>10 DEF TypeOK

LEMMA MainType == ASSUME TypeOK, Main PROVE TypeOK'
<1> USE BlockFacts, ContentFacts
<1>1. CASE CheckImage
  <2>1. /\ buf' \in Seq(Nat) /\ Len(buf') <= ChunksPerBlock
        /\ rd' \in 1 .. ImageLen + 1
        /\ readErr' \in BOOLEAN
    <3>1. CASE ImageLen > 0 /\ buf' = <<1>> /\ rd' = 2 /\ UNCHANGED readErr
      BY <3>1, BufferFacts DEF TypeOK
    <3>2. CASE readErr' = (ImageLen > 0) /\ UNCHANGED <<buf, rd>>
      BY <3>2 DEF TypeOK
    <3>3. QED
      BY <1>1, <3>1, <3>2 DEF CheckImage
  <2>2. /\ pc' \in {"pre_erase", "open", "done"}
        /\ result' \in {result, "failed"}
    BY <1>1 DEF CheckImage, Checked, Fail
  <2>3. UNCHANGED <<flashVars, writeVars, cfgVars>> /\ pc = "check"
    BY <1>1 DEF CheckImage
  <2>4. QED
    BY <2>1, <2>2, <2>3 DEF TypeOK, flashVars, writeVars, cfgVars
<1>2. CASE PreErase
  <2>1. flash' \in [Blocks -> Content]
    <3>1. \/ flash' = flash
          \/ \E b \in Blocks, c \in Content : flash' = [flash EXCEPT ![b] = c]
      <4>1. CASE e = Size[1]
        BY <1>2, <4>1 DEF PreErase
      <4>2. CASE e # Size[1] /\ EraseFailed(<<1, e>>)
        BY <4>2, ContentFacts DEF EraseFailed, TypeOK
      <4>3. CASE e # Size[1] /\ Erases(<<1, e>>) /\ flash' = [flash EXCEPT ![<<1, e>>] = Blank]
        BY <4>3, ContentFacts DEF Erases
      <4>4. QED
        BY <1>2, <4>1, <4>2, <4>3 DEF PreErase
    <3>2. flash \in [Blocks -> Content]
      BY DEF TypeOK
    <3>3. QED
      BY <3>1, <3>2
  <2>2. e' \in Nat
    BY <1>2 DEF TypeOK, PreErase
  <2>3. pos <= Size[part]
    BY <1>2 DEF TypeOK, PreErase
  <2>4. QED
    BY <1>2, <2>1, <2>2, <2>3 DEF TypeOK, PreErase, imageVars, cfgVars
<1>3. CASE OpenPart
  <2>1. /\ pos' = pos \/ pos' = Advance(part, 0, PartOffset)
        /\ w' \in {w, 0} /\ e' \in {e, 0}
        /\ part' = part /\ skipBad' = skipBad /\ skip' = skip /\ offset' = offset
        /\ pc' \in {"done", "set_erase", "fill"} /\ result' \in {result, "failed"}
        /\ pc' # "done" => pos' = Advance(part, 0, PartOffset)
    BY <1>3 DEF OpenPart, Fail, writeVars
  <2>2. Advance(part, 0, PartOffset) \in Nat /\ Advance(part, 0, PartOffset) <= Size[part]
    BY DEF TypeOK, Advance
  <2>3. UNCHANGED <<flashVars, imageVars, cfgVars>>
    BY <1>3 DEF OpenPart
  <2>4. pos' \in Nat /\ (pc' # "done" => pos' <= Size[part'])
    BY <2>1, <2>2 DEF TypeOK
  <2>5. /\ w' \in Nat /\ e' \in Nat /\ skipBad' \in Nat /\ offset' \in Nat /\ skip' \in Nat
        /\ part' \in Parts
    BY <2>1 DEF TypeOK
  <2>6. pc' \in {"done", "set_erase", "fill"} /\ result' \in {result, "failed"}
    BY <2>1
  <2>7. QED
    BY <2>3, <2>4, <2>5, <2>6 DEF TypeOK, flashVars, imageVars, cfgVars
<1>4. CASE FlagErase
  BY <1>4 DEF TypeOK, FlagErase, Fail, writeVars, imageVars, cfgVars
<1>5. CASE FlagWrite
  BY <1>5 DEF TypeOK, FlagWrite, Fail, writeVars, imageVars, cfgVars
<1>6. CASE Finish
  BY <1>6 DEF TypeOK, Finish, flashVars, writeVars, imageVars, cfgVars
<1>7. QED
  BY <1>1, <1>2, <1>3, <1>4, <1>5, <1>6 DEF Main

LEMMA ReadType == ASSUME TypeOK, Read PROVE TypeOK'
<1> USE BlockFacts, ContentFacts
<1>1. CASE ReadChunk
  <2>1. buf' \in Seq(Nat) /\ Len(buf') <= ChunksPerBlock
    BY <1>1, BufferFacts, SMTT(60) DEF TypeOK, ReadChunk
  <2>2. rd' \in 1 .. ImageLen + 1
    BY <1>1 DEF TypeOK, ReadChunk
  <2>3. QED
    BY <1>1, <2>1, <2>2 DEF TypeOK, ReadChunk, flashVars, writeVars, cfgVars
<1>2. CASE EndFill
  <2>1. buf' \in Seq(Nat) /\ Len(buf') <= ChunksPerBlock
    BY <1>2, PaddedType DEF TypeOK, EndFill
  <2>2. readErr' \in BOOLEAN
    BY <1>2 DEF TypeOK, EndFill, ReadStops
  <2>3. QED
    BY <1>2, <2>1, <2>2 DEF TypeOK, EndFill, AfterImage, flashVars, writeVars, cfgVars
<1>3. CASE DropBlock
  BY <1>3 DEF TypeOK, DropBlock, flashVars, cfgVars
<1>4. CASE KeepBlock
  BY <1>4 DEF TypeOK, KeepBlock, flashVars, writeVars, imageVars, cfgVars
<1>5. QED
  BY <1>1, <1>2, <1>3, <1>4 DEF Read

LEMMA ConfigureType == ASSUME TypeOK, Configure PROVE TypeOK'
<1> USE BlockFacts, ContentFacts
<1>1. CASE StartAppend
  BY <1>1 DEF TypeOK, StartAppend, flashVars, writeVars, imageVars
<1>2. CASE AppendSkipsBad
  <2>1. /\ \/ pos' = pos /\ mtdofs' = mtdofs /\ pc' = "done" /\ result' = "failed"
           \/ pos' = Advance(part, pos, pos + 1) /\ mtdofs' = mtdofs + 1 /\ pc' = pc /\ result' = result
        /\ pc = "j_pad"
    BY <1>2 DEF AppendSkipsBad, Fail
  <2>2. Advance(part, pos, pos + 1) \in Nat /\ Advance(part, pos, pos + 1) <= Size[part]
    BY <2>1, SMTT(60) DEF TypeOK, Advance
  <2>3. UNCHANGED <<flashVars, part, w, e, skipBad, skip, offset, imageVars, cfgLeft, jn>>
    BY <1>2 DEF AppendSkipsBad
  <2>4. QED
    BY <2>1, <2>2, <2>3, SMTT(60) DEF TypeOK, flashVars, imageVars
<1>3. CASE AppendErases
  <2>1. flash' \in [Blocks -> Content]
    <3>1. \/ flash' = flash
          \/ \E b \in Blocks, c \in Content : flash' = [flash EXCEPT ![b] = c]
      <4>1. CASE Erases(AppendBlock) /\ flash' = [flash EXCEPT ![AppendBlock] = Blank]
        BY <4>1, ContentFacts DEF Erases
      <4>2. CASE EraseFailed(AppendBlock)
        BY <4>2, ContentFacts DEF EraseFailed, TypeOK
      <4>3. QED
        BY <1>3, <4>1, <4>2 DEF AppendErases
    <3>2. flash \in [Blocks -> Content]
      BY DEF TypeOK
    <3>3. QED
      BY <3>1, <3>2
  <2>2. QED
    BY <1>3, <2>1 DEF TypeOK, AppendErases, writeVars, imageVars, cfgVars
<1>4. CASE AppendWrites
  <2>1. flash' \in [Blocks -> Content]
    <3>1. Programmed(Here, Cfg(jn + 1)) \in Content /\ Junk \in Content
      BY DEF TypeOK
    <3>2. \/ UNCHANGED flash
          \/ \E c \in Content : flash' = [flash EXCEPT ![Here] = c]
      BY <1>4, <3>1 DEF AppendWrites
    <3> QED
      BY <3>2 DEF TypeOK
  <2>2. pos' \in Nat /\ pos' <= Size[part]
    BY <1>4 DEF TypeOK, AppendWrites
  <2>3. QED
    BY <1>4, <2>1, <2>2 DEF TypeOK, AppendWrites, imageVars
<1>5. CASE EndAppend
  <2>1. jn + e <= mtdofs /\ mtdofs - e - 1 \in Nat
    BY <1>5 DEF TypeOK, EndAppend
  <2>2. w + (mtdofs - e) \in Nat
    BY <2>1 DEF TypeOK
  <2>3. QED
    <3>1. buf' \in Seq(Nat) /\ Len(buf') <= ChunksPerBlock
      BY <1>5, BufferFacts DEF EndAppend
    <3>2. skip' \in Nat /\ w' \in Nat /\ e' \in Nat /\ jn' \in 0 .. CfgBlocks + 1
      BY <1>5, <2>1, <2>2 DEF EndAppend, TypeOK
    <3>3. QED
      BY <1>5, <3>1, <3>2 DEF TypeOK, EndAppend, flashVars
<1>6. QED
  BY <1>1, <1>2, <1>3, <1>4, <1>5 DEF Configure

LEMMA RoomType == ASSUME TypeOK, Room PROVE TypeOK'
<1> USE BlockFacts, ContentFacts
<1>1. CASE BadQueryFails
  BY <1>1 DEF TypeOK, BadQueryFails, Fail, flashVars, writeVars, imageVars, cfgVars
<1>2. CASE SkipBadBlock
  BY <1>2, SMTT(60) DEF TypeOK, SkipBadBlock, Advance, flashVars, imageVars, cfgVars
<1>3. CASE EraseBlock
  <2>1. flash' \in [Blocks -> Content]
    BY <1>3 DEF TypeOK, EraseBlock
  <2>2. QED
    BY <1>3, <2>1 DEF TypeOK, EraseBlock, ReachesErase, imageVars, cfgVars
<1>4. CASE EraseFails
  <2>1. flash' \in [Blocks -> Content]
    BY <1>4 DEF TypeOK, EraseFails, EraseFailed
  <2>2. QED
    BY <1>4, <2>1 DEF TypeOK, EraseFails, Fail, writeVars, imageVars, cfgVars
<1>5. CASE Spill
  <2>1. flash' \in [Blocks -> Content]
    BY <1>5 DEF TypeOK, Spill, Spilled
  <2>2. offset' \in Nat
    BY <1>5, SMTT(60) DEF TypeOK, Spill
  <2>3. part' \in Parts
    BY <1>5 DEF TypeOK, Spill, ReachesErase, Parts
  <2>4. QED
    BY <1>5, <2>1, <2>2, <2>3 DEF TypeOK, Spill, imageVars, cfgVars
<1>6. CASE RoomMade
  BY <1>6 DEF TypeOK, RoomMade, flashVars, writeVars, imageVars, cfgVars
<1>7. QED
  BY <1>1, <1>2, <1>3, <1>4, <1>5, <1>6 DEF Room

LEMMA PutType == ASSUME TypeOK, Put PROVE TypeOK'
<1> USE BlockFacts, ContentFacts
<1>1. CASE WriteBlock
  <2>1. flash' \in [Blocks -> Content]
    BY <1>1 DEF TypeOK, WriteBlock
  <2>2. pos' \in Nat /\ pos' <= Size[part]
    BY <1>1 DEF TypeOK, WriteBlock
  <2>3. QED
    BY <1>1, <2>1, <2>2 DEF TypeOK, WriteBlock, cfgVars
<1>2. CASE WriteFails
  <2>1. flash' \in [Blocks -> Content]
    BY <1>2 DEF TypeOK, WriteFails
  <2>2. QED
    BY <1>2, <2>1 DEF TypeOK, WriteFails, Fail, writeVars, imageVars, cfgVars
<1>3. QED
  BY <1>1, <1>2 DEF Put

LEMMA FixType == ASSUME TypeOK, Fix PROVE TypeOK'
<1> USE BlockFacts, ContentFacts
<1>1. flash \in [Blocks -> Content] /\ HeaderBlock \in [1 .. 2 -> Nat]
  BY DEF TypeOK, HeaderBlock, Parts
<1>2. CASE FixErases
  <2>1. flash' \in [Blocks -> Content]
    BY <1>1, <1>2, ZenonT(40) DEF FixErases, EraseFailed
  <2>2. buf' \in Seq(Nat) /\ Len(buf') <= ChunksPerBlock
    <3>1. CASE UNCHANGED buf
      BY <3>1 DEF TypeOK
    <3>2. CASE HeaderThere /\ buf' = flash[HeaderBlock].data
      BY <1>1, <3>2 DEF HeaderThere, Content
    <3> QED
      BY <1>2, <3>1, <3>2 DEF FixErases
  <2> QED
    BY <1>2, <2>1, <2>2 DEF TypeOK, FixErases, Fail, writeVars, cfgVars
<1>3. CASE FixWrites
  <2>1. flash' \in [Blocks -> Content]
    <3>1. Data(buf) \in Content
      BY DEF TypeOK
    <3>2. PICK c \in Content : flash' = [flash EXCEPT ![HeaderBlock] = c]
      BY <1>3, <3>1 DEF FixWrites
    <3> QED
      BY <1>1, <3>2
  <2>2. buf' \in Seq(Nat) /\ Len(buf') <= ChunksPerBlock
    <3>1. buf' = <<>> \/ buf' = buf
      BY <1>3 DEF FixWrites
    <3>2. /\ <<>> \in Seq(Nat) /\ Len(<<>>) <= ChunksPerBlock
          /\ buf \in Seq(Nat) /\ Len(buf) <= ChunksPerBlock
      BY BufferFacts DEF TypeOK
    <3> QED
      BY <3>1, <3>2
  <2> QED
    BY <1>3, <2>1, <2>2 DEF TypeOK, FixWrites, Fail, writeVars, cfgVars
<1> QED
  BY <1>2, <1>3 DEF Fix

LEMMA PowerType == ASSUME TypeOK, PowerCut PROVE TypeOK'
<1>1. flash' \in [Blocks -> Content]
  BY ContentFacts DEF TypeOK, PowerCut
<1>2. QED
  BY <1>1 DEF TypeOK, PowerCut, writeVars, imageVars, cfgVars

\* Every variable keeps its type, and the append never falls behind the frontier.
THEOREM TypeCorrect == Spec => []TypeOK
<1>1. Init => TypeOK
  BY InitType
<1>2. TypeOK /\ [Next]_vars => TypeOK'
  <2>1. CASE UNCHANGED vars
    BY <2>1 DEF TypeOK, vars, flashVars, writeVars, imageVars, cfgVars
  <2>2. CASE Next
    BY <2>1, <2>2, MainType, ReadType, ConfigureType, RoomType, PutType, FixType, PowerType
    DEF Next, Program, Stopped
  <2>3. QED
    BY <2>1, <2>2
<1>3. QED
  BY <1>1, <1>2, PTL DEF Spec

-----------------------------------------------------------------------------
(***************************************************************************)
(* The recovery flag comes first.                                          *)
(***************************************************************************)
FlagInv ==
    /\ pc # "pre_erase"
    /\ UseFlag /\ pc \in {"fill", "have", "j_pad", "j_write", "room", "write", "fix_erase",
                         "fix_write", "finish"}
       => flag = "recover"

\* mtd_write sets the flag on the way to every place that erases or writes.
LEMMA FlagStep ==
    ASSUME TypeOK, FlagInv, ~EraseOpt, [Next]_vars
    PROVE  FlagInv'
<1> USE DEF FlagInv
<1>1. CASE UNCHANGED vars
  BY <1>1 DEF vars, flashVars
<1>2. CASE Main
  BY <1>2 DEF TypeOK, Main, CheckImage, Checked, PreErase, OpenPart, FlagErase,
              FlagWrite, Finish, Fail, flashVars
<1>3. CASE Read
  BY <1>3 DEF Read, ReadChunk, EndFill, AfterImage, DropBlock, KeepBlock, flashVars
<1>4. CASE Configure
  BY <1>4 DEF Configure, StartAppend, AppendSkipsBad, AppendErases, AppendWrites,
              EndAppend, Fail, flashVars
<1>5. CASE Room
  BY <1>5 DEF Room, BadQueryFails, SkipBadBlock, EraseBlock, EraseFails, Spill,
              RoomMade, Fail, flashVars
<1>6. CASE Put
  BY <1>6 DEF Put, WriteBlock, WriteFails, Fail
<1>7. CASE PowerCut
  BY <1>7 DEF PowerCut
<1>8. CASE Fix
  BY <1>8 DEF Fix, FixErases, FixWrites, Fail
<1>9. QED
  BY <1>1, <1>2, <1>3, <1>4, <1>5, <1>6, <1>7, <1>8 DEF Next, Program, Stopped

\* Nothing is erased or written anywhere else.
LEMMA FlagUnder ==
    ASSUME FlagInv, [Next]_vars, UseFlag, flash' # flash
    PROVE  flag = "recover"
<1> USE DEF FlagInv
<1>0. Next
  BY DEF vars, flashVars
<1>1. ~Main /\ ~Read
  BY DEF Main, CheckImage, PreErase, OpenPart, FlagErase, FlagWrite, Finish,
         Read, ReadChunk, EndFill, DropBlock, KeepBlock, flashVars
<1>2. CASE Configure
  BY <1>2 DEF Configure, StartAppend, AppendSkipsBad, AppendErases, AppendWrites,
              EndAppend, flashVars
<1>3. CASE Room
  BY <1>3 DEF Room, BadQueryFails, SkipBadBlock, EraseBlock, EraseFails, Spill,
              RoomMade, ReachesErase, flashVars
<1>4. CASE Put
  BY <1>4 DEF Put, WriteBlock, WriteFails
<1>5. CASE PowerCut
  BY <1>5 DEF PowerCut, AtWork, ReachesErase
<1>6. CASE Fix
  BY <1>6 DEF Fix, FixErases, FixWrites
<1>7. QED
  BY <1>0, <1>1, <1>2, <1>3, <1>4, <1>5, <1>6 DEF Next, Program, Stopped, vars, flashVars

\* Unless -e erases the device beforehand, the flash changes only while the
\* recovery magic is in place: mtd_write sets it before its first erase and
\* clears it after its last write.
THEOREM FlagFirst ==
    ASSUME ~EraseOpt PROVE Spec => FlashOnlyUnderFlag
<1>1. Init => FlagInv
  BY DEF Init, FlagInv
<1>2. TypeOK /\ FlagInv /\ [Next]_vars => FlagInv'
  BY FlagStep
<1>3. FlagInv /\ [Next]_vars => [UseFlag /\ flash' # flash => flag = "recover"]_vars
  BY FlagUnder
<1>4. QED
  BY <1>1, <1>2, <1>3, TypeCorrect, PTL DEF Spec, FlashOnlyUnderFlag

-----------------------------------------------------------------------------
(***************************************************************************)
(* The frontier.  Plain use: blocks are erased as the image is written     *)
(* (neither -n nor -j), and on NAND the image goes to one partition.       *)
(* Then the block to be written is always the last one erased.             *)
(***************************************************************************)
PlainUse ==
    ~NoErase /\ ~UseCfg /\ (Nand => NParts = 1)

\* The file offset is where the next erase goes, or the device is full, or it ends
\* before the -p offset.
AtFrontier ==
    /\ e = w + skipBad
    /\ \/ pos = e + PartOffset
       \/ pos = Size[part] /\ pos <= e + PartOffset
       \/ Size[part] < PartOffset

\* One block is erased, good, and next to be written.
Ready ==
    /\ e = w + skipBad + 1
    /\ pos + 1 = e + PartOffset /\ pos < Size[part]
    /\ flash[Here] = Blank /\ Here \notin bad

Frontier ==
    /\ ~Nand => bad = {} /\ skipBad = 0
    /\ offset = 0 /\ skip = 0 /\ ~cfgLeft
    /\ pc \notin {"j_pad", "j_write", "fix_erase", "fix_write"}
    /\ pc \in {"check", "pre_erase", "open"} => skipBad = 0
    /\ pc \in {"fill", "have", "finish", "set_erase", "set_write"} => AtFrontier
    /\ pc = "room" => AtFrontier \/ Ready
    /\ pc = "write" => Ready

LEMMA FrontierInit == ASSUME PlainUse, Init PROVE Frontier
BY DEF PlainUse, Init, Frontier

LEMMA FrontierMain ==
    ASSUME PlainUse, TypeOK, Frontier, Main PROVE Frontier'
<1> USE DEF Frontier
<1>1. CASE CheckImage
  BY <1>1 DEF CheckImage, Checked, Fail, flashVars, writeVars, cfgVars
<1>2. CASE PreErase
  BY <1>2 DEF PreErase, cfgVars
<1>3. CASE OpenPart
  <2>1. CASE pc' = "done"
    BY <1>3, <2>1 DEF OpenPart, flashVars, writeVars, cfgVars
  <2>2. CASE pc' # "done"
    <3>1. part \in Parts /\ skipBad = 0 /\ UNCHANGED <<part, skipBad, skip, offset>>
      BY <1>3, <2>2 DEF OpenPart, TypeOK, Fail
    <3>2. AtFrontier'
      BY <1>3, <2>2, <3>1, BlockFacts DEF OpenPart, Fail, AtFrontier, Advance, TypeOK
    <3>3. QED
      BY <1>3, <2>2, <3>1, <3>2 DEF OpenPart, Fail, flashVars, cfgVars
  <2>3. QED
    BY <2>1, <2>2
<1>4. CASE FlagErase
  BY <1>4 DEF FlagErase, Fail, AtFrontier, writeVars, cfgVars
<1>5. CASE FlagWrite
  BY <1>5 DEF FlagWrite, Fail, AtFrontier, writeVars, cfgVars
<1>6. CASE Finish
  BY <1>6 DEF Finish, Fail, AtFrontier, flashVars, writeVars, cfgVars
<1>7. QED
  BY <1>1, <1>2, <1>3, <1>4, <1>5, <1>6 DEF Main

LEMMA FrontierRead ==
    ASSUME PlainUse, TypeOK, Frontier, Read PROVE Frontier'
<1> USE DEF Frontier
<1>1. CASE ReadChunk
  BY <1>1 DEF ReadChunk, AtFrontier, flashVars, writeVars, cfgVars
<1>2. CASE EndFill
  <2>1. AfterImage = "finish"
    BY DEF AfterImage, Replaced, PlainUse
  <2> QED
    BY <1>2, <2>1 DEF EndFill, AtFrontier, flashVars, writeVars, cfgVars
<1>3. CASE DropBlock
  BY <1>3 DEF DropBlock
<1>4. CASE KeepBlock
  BY <1>4 DEF KeepBlock, PlainUse, AtFrontier, flashVars, writeVars, cfgVars
<1>5. QED
  BY <1>1, <1>2, <1>3, <1>4 DEF Read

\* While there is room to be made, the loop goes on exactly as long as no block is
\* ready.
LEMMA ShortMeans ==
    ASSUME TypeOK, Frontier, pc = "room"
    PROVE  /\ Short <=> AtFrontier
           /\ ~Short <=> Ready
<1>1. AtFrontier \/ Ready
  BY DEF Frontier
<1>2. w \in Nat /\ e \in Nat /\ skipBad \in Nat
  BY DEF TypeOK
<1>3. QED
  BY <1>1, <1>2 DEF Short, AtFrontier, Ready

LEMMA FrontierRoom ==
    ASSUME PlainUse, TypeOK, Frontier, Room PROVE Frontier'
<1> USE DEF Frontier
<1>1. pc = "room" /\ part \in Parts /\ Size[part] \in Nat /\ pos \in Nat /\ pos <= Size[part]
  BY BlockFacts DEF Room, BadQueryFails, SkipBadBlock, EraseBlock, EraseFails, Spill,
                    RoomMade, ReachesErase, TypeOK
<1>2. (Short <=> AtFrontier) /\ (~Short <=> Ready)
  BY <1>1, ShortMeans
<1>3. CASE BadQueryFails
  BY <1>3 DEF BadQueryFails, Fail, flashVars, writeVars, cfgVars
<1>4. CASE SkipBadBlock
  <2>1. AtFrontier /\ e < Size[part]
    BY <1>1, <1>2, <1>4, BlockFacts DEF SkipBadBlock, TypeOK
  <2>2. Nand
    BY <1>4 DEF SkipBadBlock
  <2>3. AtFrontier'
    BY <1>1, <1>4, <2>1, SMTT(60) DEF SkipBadBlock, AtFrontier, Advance, TypeOK
  <2>4. QED
    BY <1>1, <1>4, <2>2, <2>3 DEF SkipBadBlock, flashVars, cfgVars
<1>5. CASE EraseBlock
  <2>1. AtFrontier /\ Target \in Blocks /\ Target \notin bad
    BY <1>2, <1>5 DEF EraseBlock, ReachesErase, Erases
  <2>2. e + PartOffset < Size[part]
    BY <1>1, <2>1, BlockFacts DEF Target, TypeOK
  <2>3. pos = e + PartOffset /\ Target = Here
    BY <1>1, <2>1, <2>2, SMTT(60) DEF AtFrontier, Target, Here, TypeOK
  <2>4. Ready'
    BY <1>1, <1>5, <2>1, <2>2, <2>3 DEF EraseBlock, AtFrontier, Ready, Here, TypeOK
  <2>5. QED
    BY <1>1, <1>5, <2>4 DEF EraseBlock, cfgVars
<1>6. CASE EraseFails
  BY <1>6 DEF EraseFails, Fail, writeVars, cfgVars
<1>7. CASE Spill
  <2>1. part < NParts /\ ~Nand /\ w = e
    BY <1>1, <1>2, <1>7, BlockFacts DEF Spill, ReachesErase, AtFrontier, PlainUse, Parts, TypeOK
  <2>2. QED
    BY <1>7, <2>1 DEF Spill, TypeOK, cfgVars
<1>8. CASE RoomMade
  BY <1>2, <1>8 DEF RoomMade, Ready, Here, flashVars, writeVars, cfgVars
<1>9. QED
  BY <1>3, <1>4, <1>5, <1>6, <1>7, <1>8 DEF Room

LEMMA FrontierPut ==
    ASSUME PlainUse, TypeOK, Frontier, Put PROVE Frontier'
<1> USE DEF Frontier
<1>1. CASE WriteBlock
  <2>1. Ready
    BY <1>1 DEF WriteBlock
  <2>2. AtFrontier'
    BY <1>1, <2>1, BlockFacts DEF WriteBlock, Ready, AtFrontier, TypeOK
  <2>3. QED
    BY <1>1, <2>2 DEF WriteBlock, cfgVars
<1>2. CASE WriteFails
  BY <1>2 DEF WriteFails, Fail, writeVars, cfgVars
<1>3. QED
  BY <1>1, <1>2 DEF Put

LEMMA FrontierPower ==
    ASSUME PlainUse, TypeOK, Frontier, PowerCut PROVE Frontier'
BY DEF PowerCut, Frontier, writeVars, cfgVars

LEMMA FrontierInv == ASSUME PlainUse PROVE Spec => []Frontier
<1>1. Init => Frontier
  BY FrontierInit
<1>2. TypeOK /\ Frontier /\ [Next]_vars => Frontier'
  <2> SUFFICES ASSUME TypeOK, Frontier, [Next]_vars PROVE Frontier'
    OBVIOUS
  <2>1. CASE UNCHANGED vars
    BY <2>1 DEF vars, Frontier, AtFrontier, Ready, Here,
                flashVars, writeVars, cfgVars
  <2>2. CASE Configure
    BY <2>2 DEF Configure, StartAppend, AppendSkipsBad, AppendErases, AppendWrites,
                EndAppend, AtMarker, Frontier
  <2>3. ~Fix
    BY DEF Fix, FixErases, FixWrites, Frontier
  <2>4. QED
    BY <2>1, <2>2, <2>3, FrontierMain, FrontierRead, FrontierRoom, FrontierPut, FrontierPower
    DEF Next, Program, Stopped
<1>3. QED
  BY <1>1, <1>2, TypeCorrect, PTL DEF Spec

\* In plain use a block of the image only ever goes to a block that is good and
\* has been erased.
THEOREM WritesAreClean == ASSUME PlainUse PROVE Spec => []NeverBlind
<1>1. Frontier => NeverBlind
  BY DEF Frontier, Ready, NeverBlind
<1>2. QED
  BY <1>1, FrontierInv, PTL

(***************************************************************************)
(* The gap.  Unless -e has emptied the device beforehand, the block that   *)
(* is ready is the only one that is blank.                                 *)
(***************************************************************************)
NoBlank == \A b \in Blocks : flash[b] # Blank

Gap ==
    /\ pc # "pre_erase"
    /\ \A b \in Blocks : flash[b] = Blank => b = Here
    /\ pc \notin {"write", "done", "off"} => NoBlank \/ (pc = "room" /\ Ready)

\* Any other step at most ruins blocks or puts image on them.
LEMMA GapKept ==
    ASSUME Gap, NoBlank, \A b \in Blocks : flash'[b] = Blank => flash[b] = Blank,
           pc' # "pre_erase"
    PROVE  Gap'
BY DEF Gap, NoBlank, Blank

LEMMA GapStep ==
    ASSUME PlainUse, ~EraseOpt, TypeOK, Frontier, Gap, [Next]_vars
    PROVE  Gap'
<1> USE DEF Old, Blank, Junk, Data
<1>1. CASE UNCHANGED vars
  BY <1>1 DEF vars, Gap, NoBlank, Ready, Here, flashVars, writeVars
<1>2. CASE Main \/ Read
  <2>1. flash' = flash /\ pc \notin {"room", "write", "done", "off"} /\ pc' # "pre_erase"
    BY <1>2 DEF Main, Read, CheckImage, Checked, Fail, PreErase, OpenPart, FlagErase,
         FlagWrite, Finish, ReadChunk, EndFill, AfterImage, DropBlock, KeepBlock, Gap,
         flashVars
  <2> QED
    BY <2>1, GapKept DEF Gap
<1>3. CASE Room
  <2>1. pc = "room" /\ part \in Parts /\ Size[part] \in Nat /\ pos \in Nat /\ pos <= Size[part]
    BY <1>3, BlockFacts DEF Room, BadQueryFails, SkipBadBlock, EraseBlock, EraseFails, Spill,
                            RoomMade, ReachesErase, TypeOK
  <2>2. (Short <=> AtFrontier) /\ (~Short <=> Ready)
    BY <2>1, ShortMeans
  <2>3. Short => NoBlank
    BY <2>1, <2>2 DEF Gap
  <2>4. CASE BadQueryFails \/ SkipBadBlock
    BY <2>3, <2>4, GapKept DEF BadQueryFails, SkipBadBlock, Fail, flashVars
  <2>5. CASE EraseBlock
    <3>1. AtFrontier /\ NoBlank /\ Target \in Blocks /\ Target \notin bad
      BY <2>2, <2>3, <2>5 DEF EraseBlock, ReachesErase, Erases
    <3>2. pos = e + PartOffset /\ pos < Size[part] /\ Target = Here
      BY <2>1, <3>1, BlockFacts, SMTT(60) DEF AtFrontier, Target, Here, TypeOK
    <3>3. Ready'
      BY <2>1, <2>5, <3>1, <3>2 DEF EraseBlock, AtFrontier, Ready, Here, TypeOK
    <3>4. \A b \in Blocks : flash'[b] = Blank => b = Here'
      BY <2>5, <3>1, <3>2 DEF EraseBlock, NoBlank, Here, TypeOK
    <3> QED
      BY <2>1, <2>5, <3>3, <3>4 DEF EraseBlock, Gap
  <2>6. CASE EraseFails \/ Spill
    <3>1. NoBlank
      BY <2>3, <2>6 DEF EraseFails, Spill, ReachesErase
    <3>2. CASE EraseFails
      <4>1. UNCHANGED flash \/ \E c \in {flash[Target], Junk} : flash' = [flash EXCEPT ![Target] = c]
        BY <3>2 DEF EraseFails, EraseFailed
      <4>2. \A b \in Blocks : flash'[b] # Blank
        BY <3>1, <4>1 DEF NoBlank, TypeOK
      <4> QED
        BY <3>1, <3>2, <4>2, GapKept DEF EraseFails, Fail
    <3>3. CASE Spill
      <4>1. w = e
        BY <2>1, <2>2, <3>3, BlockFacts DEF Spill, ReachesErase, AtFrontier, PlainUse,
                                            Frontier, Parts, TypeOK
      <4> QED
        BY <3>1, <3>3, <4>1, GapKept DEF Spill, NoBlank, TypeOK
    <3> QED
      BY <2>6, <3>2, <3>3
  <2>7. CASE RoomMade
    BY <2>2, <2>7 DEF RoomMade, Gap, Here, flashVars, writeVars
  <2> QED
    BY <1>3, <2>4, <2>5, <2>6, <2>7 DEF Room
<1>4. CASE Put
  <2>1. pc = "write" /\ Ready /\ offset = 0 /\ Here \in Blocks
    BY <1>4, BlockFacts, SMTT(60) DEF Put, WriteBlock, WriteFails, Frontier, Ready, Here, TypeOK
  <2>2. CASE WriteBlock
    <3>1. flash' = [flash EXCEPT ![Here] = Data(buf)]
      BY <2>1, <2>2 DEF WriteBlock, Ready, Programmed
    <3>2. NoBlank'
      BY <2>1, <3>1 DEF Gap, NoBlank, TypeOK
    <3> QED
      BY <2>2, <3>2 DEF WriteBlock, Gap, NoBlank
  <2>3. CASE WriteFails
    BY <2>1, <2>3 DEF WriteFails, Fail, Gap, Here, TypeOK, writeVars
  <2> QED
    BY <1>4, <2>2, <2>3 DEF Put
<1>5. CASE PowerCut
  <2>1. \A b \in Blocks : flash'[b] = Blank => flash[b] = Blank
    BY <1>5 DEF PowerCut, TypeOK
  <2> QED
    BY <1>5, <2>1 DEF PowerCut, Gap, Here, writeVars
<1>6. ~Configure /\ ~Fix
  BY DEF Configure, StartAppend, AppendSkipsBad, AppendErases, AppendWrites,
         EndAppend, AtMarker, Fix, FixErases, FixWrites, Frontier
<1> QED
  BY <1>1, <1>2, <1>3, <1>4, <1>5, <1>6 DEF Next, Program, Stopped

LEMMA GapInv == ASSUME PlainUse, ~EraseOpt PROVE Spec => []Gap
<1>1. Init => Gap
  BY DEF Init, Gap, NoBlank, Old, Blank
<1>2. TypeOK /\ Frontier /\ Gap /\ [Next]_vars => Gap'
  BY GapStep
<1>3. QED
  BY <1>1, <1>2, TypeCorrect, FrontierInv, PTL DEF Spec

\* In plain use without -e, power may fail at any moment and cost at most one block
\* that is not part of the image already written.
THEOREM GapIsSingle == ASSUME PlainUse, ~EraseOpt PROVE Spec => []SingleGap
<1>1. Gap => SingleGap
  BY DEF Gap, SingleGap
<1>2. QED
  BY <1>1, GapInv, PTL

-----------------------------------------------------------------------------
(***************************************************************************)
(* No chunk is lost.  Whatever has been read is in the buffer or on the    *)
(* flash, behind the file offset, where nothing is erased or written again.*)
(***************************************************************************)
Behind(b) == b[1] < part \/ (b[1] = part /\ b[2] < pos /\ pc # "open")
IsData(b) == flash[b].kind = "data"
InBuf(c)  == \E i \in DOMAIN buf : buf[i] = c

Store ==
    /\ \A b \in Blocks : IsData(b) => Behind(b)
    /\ \A c \in 1 .. rd - 1 : InBuf(c) \/ \E b \in Blocks : c \in ChunksOn(b)
    /\ \A c : InBuf(c) => c < rd
    /\ \A b \in Blocks : \A x \in ChunksOn(b) :
          x < rd /\ \A c \in 1 .. ImageLen : InBuf(c) => x < c
    /\ Ordered
    /\ result # "running" => pc = "done"
    /\ pc = "check" => buf = <<>> /\ rd = 1
    /\ pc \in {"check", "pre_erase"} => \A b \in Blocks : ~IsData(b)
    /\ pc \in {"finish", "clr_erase", "clr_write"} \/ result = "ok"
       => buf = <<>> /\ (readErr \/ rd = ImageLen + 1)

\* What a step does when it leaves every block of the image as it is.
KeepsData ==
    \A b \in Blocks : (IsData(b) \/ IsData(b)') => flash'[b] = flash[b]

LEMMA ChunksKept ==
    ASSUME KeepsData
    PROVE  /\ \A b \in Blocks : ChunksOn(b)' = ChunksOn(b)
           /\ \A b \in Blocks : IsData(b)' <=> IsData(b)
           /\ Ordered => Ordered'
<1>1. \A b \in Blocks : ChunksOn(b)' = ChunksOn(b) /\ (IsData(b)' <=> IsData(b))
  BY DEF KeepsData, ChunksOn, IsData
<1>2. QED
  BY <1>1 DEF Ordered, Before

\* The chunks of a block and of the buffer are chunk numbers.
LEMMA ChunkType ==
    ASSUME TypeOK, NEW b \in Blocks, NEW x \in ChunksOn(b)
    PROVE  x \in Nat \ {0}
<1>1. flash[b].data \in Seq(Nat)
  BY DEF TypeOK, Content
<1>2. PICK i \in DOMAIN flash[b].data : x = flash[b].data[i] /\ x # 0
  BY DEF ChunksOn
<1>3. QED
  BY <1>1, <1>2

LEMMA BufferType == ASSUME TypeOK, NEW c, InBuf(c) PROVE c \in Nat
BY DEF TypeOK, InBuf

LEMMA KindFacts ==
    /\ Old.kind # "data" /\ Blank.kind # "data" /\ Junk.kind # "data"
    /\ \A s : Data(s).kind = "data" /\ Data(s).data = s
BY DEF Old, Blank, Junk, Data

\* Nothing is on the block that is erased or written next.
LEMMA NextIsFree ==
    ASSUME TypeOK, Frontier, Store, pc \in {"room", "write"}
    PROVE  /\ Here \in Blocks => ~IsData(Here)
           /\ AtFrontier /\ Target \in Blocks => ~IsData(Target)
<1>1. part \in Parts /\ pos \in Nat /\ Size[part] \in Nat /\ e \in Nat /\ pos <= Size[part]
  BY BlockFacts DEF TypeOK
<1>2. Here[1] = part /\ Here[2] = pos /\ Target[1] = part /\ Target[2] = e + PartOffset
  BY DEF Here, Target
<1>3. ~Behind(Here)
  BY <1>1, <1>2, BlockFacts DEF Behind, Parts
<1>4. AtFrontier /\ Target \in Blocks => ~Behind(Target)
  <2> SUFFICES ASSUME AtFrontier, Target \in Blocks PROVE ~Behind(Target)
    OBVIOUS
  <2>1. e + PartOffset < Size[part]
    BY <1>1, BlockFacts DEF Target
  <2> QED
    BY <1>1, <1>2, <2>1, BlockFacts, SMTT(60) DEF Behind, Parts, AtFrontier
<1>5. QED
  BY <1>3, <1>4 DEF Store

\* Only WriteBlock puts image on the flash, and no step takes any off it.
LEMMA OthersKeepData ==
    ASSUME PlainUse, TypeOK, Frontier, Store, Next, ~WriteBlock
    PROVE  KeepsData
<1> USE KindFacts
<1>1. CASE UNCHANGED flash
  BY <1>1 DEF KeepsData, IsData
<1>2. ASSUME NEW b \in Blocks, NEW c \in Content, c.kind # "data", ~IsData(b),
             flash' = [flash EXCEPT ![b] = c]
      PROVE  KeepsData
  BY <1>2 DEF KeepsData, IsData, TypeOK
<1>3. CASE EraseBlock
  <2>1. AtFrontier /\ Target \in Blocks /\ pc = "room"
    BY <1>3 DEF EraseBlock, ReachesErase, Erases, Frontier, Ready, AtFrontier, Short, TypeOK
  <2>2. QED
    BY <1>2, <1>3, <2>1, NextIsFree, ContentFacts DEF EraseBlock
<1>4. CASE EraseFails \/ Spill
  <2>1. AtFrontier /\ pc = "room"
    BY <1>4 DEF EraseFails, Spill, ReachesErase, Frontier, Ready, AtFrontier, Short, TypeOK
  <2>2. CASE EraseFails
    <3>1. UNCHANGED flash \/ \E c \in {flash[Target], Junk} :
              Target \in Blocks /\ flash' = [flash EXCEPT ![Target] = c]
      BY <2>2 DEF EraseFails, EraseFailed
    <3>2. Target \in Blocks => flash[Target] \in Content /\ flash[Target].kind # "data"
      BY <2>1, NextIsFree DEF TypeOK, IsData
    <3>3. QED
      BY <1>1, <1>2, <2>1, <3>1, <3>2, NextIsFree, ContentFacts
  <2>3. CASE Spill
    <3>1. w = e
      BY <2>1, <2>3, BlockFacts DEF Spill, ReachesErase, AtFrontier, PlainUse, Frontier,
                                    Parts, TypeOK
    <3>2. UNCHANGED flash \/ (Target \in Blocks /\ flash' = [flash EXCEPT ![Target] = Junk])
      BY <2>3, <3>1 DEF Spill, TypeOK
    <3>3. QED
      BY <1>1, <1>2, <2>1, <3>2, NextIsFree, ContentFacts
  <2>4. QED
    BY <1>4, <2>2, <2>3
<1>5. CASE WriteFails
  <2>1. pc = "write" /\ Here \in Blocks
    BY <1>5, BlockFacts DEF WriteFails, Frontier, Ready, Here, TypeOK
  <2>2. UNCHANGED flash \/ flash' = [flash EXCEPT ![Here] = Junk]
    BY <1>5 DEF WriteFails
  <2>3. QED
    BY <1>1, <1>2, <2>1, <2>2, NextIsFree, ContentFacts
<1>6. CASE PowerCut
  <2>1. ASSUME NEW b \in AtWork, flash' = [flash EXCEPT ![b] = Junk] PROVE KeepsData
    <3>1. b \in Blocks
      BY DEF AtWork
    <3>2. CASE pc = "pre_erase"
      BY <1>2, <2>1, <3>1, <3>2, ContentFacts DEF Store
    <3>3. CASE ReachesErase /\ b = Target
      <4>1. AtFrontier /\ pc = "room"
        BY <3>3 DEF ReachesErase, Frontier, Ready, AtFrontier, Short, TypeOK
      <4> QED
        BY <1>2, <2>1, <3>1, <3>3, <4>1, NextIsFree, ContentFacts
    <3>4. CASE pc = "write" /\ b = Here
      BY <1>2, <2>1, <3>1, <3>4, NextIsFree, ContentFacts
    <3> QED
      BY <3>2, <3>3, <3>4 DEF AtWork, Frontier
  <2> QED
    BY <1>1, <1>6, <2>1 DEF PowerCut
<1>7. CASE Configure
  BY <1>7 DEF Configure, StartAppend, AppendSkipsBad, AppendErases, AppendWrites,
              EndAppend, AtMarker, Frontier
<1>8. CASE PreErase
  <2>1. UNCHANGED flash \/ \E c \in {flash[<<1, e>>], Junk, Blank} :
            flash' = [flash EXCEPT ![<<1, e>>] = c]
    BY <1>8 DEF PreErase, EraseFailed
  <2>2. \A b \in Blocks : ~IsData(b)
    BY <1>8 DEF PreErase, Store
  <2> QED
    BY <1>1, <2>1, <2>2 DEF KeepsData, IsData, TypeOK
<1>9. ~Fix
  BY DEF Fix, FixErases, FixWrites, Frontier
<1>10. QED
  BY <1>1, <1>3, <1>4, <1>5, <1>6, <1>7, <1>8, <1>9
  DEF Next, Program, Main, Read, Room, Put, CheckImage, OpenPart, FlagErase, FlagWrite,
      Finish, ReadChunk, EndFill, DropBlock, KeepBlock, BadQueryFails, SkipBadBlock,
      RoomMade, Stopped, vars, flashVars

LEMMA StoreInit == ASSUME Init PROVE Store
<1>1. buf = <<>> /\ rd = 1 /\ pc = "check" /\ result = "running"
  BY DEF Init
<1>2. \A b \in Blocks : ~IsData(b) /\ ChunksOn(b) = {}
  BY KindFacts DEF Init, IsData, ChunksOn
<1>3. \A c : ~InBuf(c)
  BY <1>1, BufferFacts DEF InBuf
<1>4. QED
  BY <1>1, <1>2, <1>3 DEF Store, Ordered

Ended == pc \in {"finish", "clr_erase", "clr_write"} \/ result = "ok"

\* A step that touches neither the image blocks nor the buffer.
LEMMA StoreKept ==
    ASSUME Store, KeepsData, UNCHANGED <<buf, rd, readErr>>,
           \A b \in Blocks : IsData(b) /\ Behind(b) => Behind(b)',
           Ended' => Ended, result' # "running" => pc' = "done",
           pc' # "check", pc' = "pre_erase" => pc = "pre_erase"
    PROVE  Store'
<1>1. \A c : InBuf(c)' <=> InBuf(c)
  BY DEF InBuf
<1>2. QED
  BY <1>1, ChunksKept DEF Store, Ended

\* Reading adds a chunk to the buffer, padding adds zeros.
LEMMA InAppended ==
    ASSUME TypeOK, buf' = Append(buf, rd)
    PROVE  /\ \A c : InBuf(c)' <=> InBuf(c) \/ c = rd
           /\ buf' # <<>> /\ buf'[1] = IF buf = <<>> THEN rd ELSE buf[1]
<1>1. /\ DOMAIN buf = 1 .. Len(buf) /\ Len(buf) \in Nat
      /\ DOMAIN buf' = 1 .. Len(buf) + 1
      /\ \A i \in 1 .. Len(buf) : buf'[i] = buf[i]
      /\ buf'[Len(buf) + 1] = rd
      /\ buf = <<>> <=> Len(buf) = 0
      /\ buf' # <<>>
  BY AppendProperties, LenProperties, EmptySeq DEF TypeOK
<1>2. \A c : InBuf(c)' <=> InBuf(c) \/ c = rd
  BY <1>1 DEF InBuf
<1>3. buf'[1] = IF buf = <<>> THEN rd ELSE buf[1]
  BY <1>1
<1> QED
  BY <1>1, <1>2, <1>3

LEMMA InPadded ==
    ASSUME TypeOK, buf' = Padded(buf)
    PROVE  /\ \A c : InBuf(c) => InBuf(c)'
           /\ \A c : InBuf(c)' => InBuf(c) \/ c = 0
           /\ buf' # <<>> /\ (buf # <<>> => buf'[1] = buf[1])
<1>1. /\ DOMAIN buf = 1 .. Len(buf) /\ Len(buf) \in Nat /\ Len(buf) <= ChunksPerBlock
      /\ DOMAIN buf' = 1 .. ChunksPerBlock /\ ChunksPerBlock \in Nat \ {0}
      /\ \A i \in 1 .. ChunksPerBlock : buf'[i] = IF i <= Len(buf) THEN buf[i] ELSE 0
      /\ buf = <<>> <=> Len(buf) = 0
  BY NumberAssumption, LenProperties, EmptySeq DEF Padded, TypeOK
<1>2. ASSUME NEW c, InBuf(c) PROVE InBuf(c)'
  <2>1. PICK i \in DOMAIN buf : buf[i] = c
    BY <1>2 DEF InBuf
  <2>2. i \in 1 .. ChunksPerBlock /\ i <= Len(buf)
    BY <1>1, <2>1
  <2> QED
    BY <1>1, <2>1, <2>2 DEF InBuf
<1>3. ASSUME NEW c, InBuf(c)', c # 0 PROVE InBuf(c)
  <2>1. PICK i \in 1 .. ChunksPerBlock : buf'[i] = c
    BY <1>1, <1>3 DEF InBuf
  <2>2. i <= Len(buf) /\ buf[i] = c
    BY <1>1, <1>3, <2>1
  <2> QED
    BY <1>1, <2>1, <2>2 DEF InBuf
<1>4. buf' # <<>> /\ (buf # <<>> => buf'[1] = buf[1])
  BY <1>1
<1> QED
  BY <1>2, <1>3, <1>4

\* A step that fills the buffer.
LEMMA StoreReads ==
    ASSUME PlainUse, TypeOK, Frontier, Store,
           CheckImage \/ ReadChunk \/ EndFill
    PROVE  Store'
<1>1. KeepsData
  BY OthersKeepData DEF Next, Program, Main, Read, WriteBlock, CheckImage, ReadChunk, EndFill
<1>2. \A b \in Blocks : IsData(b) => Behind(b)'
  BY DEF Store, Behind, CheckImage, Checked, Fail, ReadChunk, EndFill, AfterImage, writeVars
<1>3. rd \in Nat /\ buf \in Seq(Nat) /\ rd <= ImageLen + 1
  BY SMTT(60) DEF TypeOK
<1>4. CASE UNCHANGED <<buf, rd>> /\ ~EndFill
  <2>1. ~Ended' /\ (result' # "running" => pc' = "done") /\ pc' # "check"
        /\ (pc' = "pre_erase" => pc = "check")
    BY <1>4 DEF CheckImage, ReadChunk, EndFill, Checked, Fail, Ended, Store, TypeOK
  <2>2. \A c : InBuf(c)' <=> InBuf(c)
    BY <1>4 DEF InBuf
  <2>3. QED
    BY <1>1, <1>2, <1>4, <2>1, <2>2, ChunksKept DEF Store, Ended
<1>5. CASE CheckImage /\ ~UNCHANGED <<buf, rd>>
  <2>1. /\ buf' = <<1>> /\ rd' = 2 /\ ~Ended'
        /\ (result' # "running" => pc' = "done") /\ pc' # "check"
    BY <1>5 DEF CheckImage, Checked, Fail, Ended, Store
  <2>2. \A c : InBuf(c)' <=> c = 1
    BY <2>1, BufferFacts DEF InBuf
  <2>3. \A b \in Blocks : ~IsData(b) /\ ChunksOn(b) = {}
    BY <1>5 DEF Store, CheckImage, ChunksOn, IsData
  <2>4. QED
    BY <1>1, <1>2, <2>1, <2>2, <2>3, ChunksKept DEF Store, Ended
<1>6. CASE ReadChunk
  <2>1. /\ rd' = rd + 1 /\ buf' = Append(buf, rd) /\ UNCHANGED <<readErr, pc, result>>
        /\ ~Ended' /\ pc = "fill" /\ result = "running"
    BY <1>6 DEF ReadChunk, Ended, Store
  <2>2. \A c : InBuf(c)' <=> InBuf(c) \/ c = rd
    BY <2>1, InAppended
  <2>3. QED
    <3>1. \A b \in Blocks : IsData(b)' => Behind(b)'
      BY <1>1, <1>2, ChunksKept
    <3>2. ASSUME NEW c \in 1 .. rd' - 1
          PROVE  InBuf(c)' \/ \E b \in Blocks : c \in ChunksOn(b)'
      <4>1. CASE c = rd
        BY <2>2, <4>1
      <4>2. CASE c # rd
        <5>1. c \in 1 .. rd - 1
          BY <1>3, <2>1, <3>2, <4>2
        <5>2. InBuf(c) \/ \E b \in Blocks : c \in ChunksOn(b)
          BY <5>1 DEF Store
        <5>3. QED
          BY <1>1, <2>2, <5>2, ChunksKept
      <4>3. QED
        BY <4>1, <4>2
    <3>3. ASSUME NEW c, InBuf(c)' PROVE c < rd'
      <4>1. CASE c = rd
        BY <1>3, <2>1, <4>1
      <4>2. CASE InBuf(c)
        <5>1. c < rd /\ c \in Nat
          BY <4>2, BufferType DEF Store
        <5>2. QED
          BY <1>3, <2>1, <5>1
      <4>3. QED
        BY <2>2, <3>3, <4>1, <4>2
    <3>4. ASSUME NEW b \in Blocks, NEW x \in ChunksOn(b)'
          PROVE  x < rd' /\ \A c \in 1 .. ImageLen : InBuf(c)' => x < c
      <4>1. x < rd /\ \A c \in 1 .. ImageLen : InBuf(c) => x < c
        BY <1>1, <3>4, ChunksKept DEF Store
      <4>2. x \in Nat
        BY <1>1, <3>4, ChunksKept, ChunkType
      <4>3. x < rd'
        BY <1>3, <2>1, <4>1, <4>2
      <4>4. ASSUME NEW c \in 1 .. ImageLen, InBuf(c)' PROVE x < c
        <5>1. CASE InBuf(c)
          BY <4>1, <5>1
        <5>2. CASE c = rd
          BY <4>1, <5>2
        <5>3. QED
          BY <2>2, <4>4, <5>1, <5>2
      <4>5. QED
        BY <4>3, <4>4
    <3>5. QED
      BY <1>1, <2>1, <3>1, <3>2, <3>3, <3>4, ChunksKept DEF Store, Ended
<1>7. CASE EndFill
  <2>1. UNCHANGED rd
    BY <1>7 DEF EndFill
  <2>2. /\ \A c : InBuf(c) => InBuf(c)'
        /\ \A c : InBuf(c)' => InBuf(c) \/ c = 0
    <3>1. CASE buf' = buf
      BY <3>1 DEF InBuf
    <3>2. CASE buf' = Padded(buf)
      BY <3>2, InPadded
    <3> QED
      BY <1>7, <3>1, <3>2 DEF EndFill
  <2>3. \A c \in 1 .. ImageLen : InBuf(c)' <=> InBuf(c)
    BY <2>2
  <2>4. Ended' => buf' = <<>> /\ (readErr' \/ rd' = ImageLen + 1)
    BY <1>3, <1>7 DEF EndFill, AfterImage, ReadStops, Ended, TypeOK, Store
  <2>5. QED
    <3>1. \A c : InBuf(c)' => c < rd'
      BY <1>3, <2>1, <2>2 DEF Store, TypeOK
    <3>2. \A c \in 1 .. rd' - 1 : InBuf(c)' \/ \E b \in Blocks : c \in ChunksOn(b)'
      BY <1>1, <1>3, <2>1, <2>3, ChunksKept DEF Store
    <3>3. \A b \in Blocks : \A x \in ChunksOn(b)' :
              x < rd' /\ \A c \in 1 .. ImageLen : InBuf(c)' => x < c
      BY <1>1, <2>1, <2>3, ChunksKept DEF Store
    <3>4. (result' # "running" => pc' = "done") /\ pc' \notin {"check", "pre_erase"}
      BY <1>7 DEF EndFill, AfterImage, Store
    <3>5. QED
      BY <1>1, <1>2, <2>4, <3>1, <3>2, <3>3, <3>4, ChunksKept DEF Store, Ended
<1>8. QED
  BY <1>4, <1>5, <1>6, <1>7

\* The block in the buffer goes to the end of the image written so far.
LEMMA StoreWrites ==
    ASSUME PlainUse, TypeOK, Frontier, Store, WriteBlock
    PROVE  Store'
<1>1. /\ pc = "write" /\ Here \in Blocks /\ ~IsData(Here)
      /\ part \in Parts /\ pos \in Nat /\ rd \in Nat /\ rd <= ImageLen + 1
  BY NextIsFree, BlockFacts DEF WriteBlock, Ready, Here, Frontier, TypeOK
<1>2. PICK h \in Blocks : h = Here
  BY <1>1
<1>3. flash' = [flash EXCEPT ![h] = Data(buf)]
  BY <1>1, <1>2 DEF WriteBlock, Frontier, Ready, Programmed
<1>4. /\ buf' = <<>> /\ rd' = rd /\ readErr' = readErr /\ part' = part /\ pos' = pos + 1
      /\ pc' = "fill" /\ result' = "running"
  BY <1>1 DEF WriteBlock, Store
<1>5. \A c : ~InBuf(c)'
  BY <1>4, BufferFacts DEF InBuf
<1>6. \A b \in Blocks \ {h} : ChunksOn(b)' = ChunksOn(b) /\ (IsData(b)' <=> IsData(b))
  BY <1>3 DEF ChunksOn, IsData, TypeOK
<1>7. ChunksOn(h) = {} /\ ~IsData(h)
  BY <1>1, <1>2 DEF ChunksOn, IsData
<1>8. \A c : (c \in ChunksOn(h)') <=> InBuf(c) /\ c # 0
  <2>1. flash'[h] = Data(buf)
    BY <1>3 DEF TypeOK
  <2>2. QED
    BY <2>1, KindFacts DEF ChunksOn, InBuf
<1>9. \A c : InBuf(c) /\ c # 0 => c \in 1 .. ImageLen /\ c < rd
  BY <1>1, BufferType DEF Store
<1>10. \A b \in Blocks : IsData(b) => Behind(b) /\ b # h
  BY <1>7 DEF Store
<1>11. h[1] = part /\ h[2] = pos
  BY <1>2 DEF Here
<1>12. \A b \in Blocks : IsData(b)' => Behind(b)'
  BY <1>1, <1>4, <1>6, <1>10, <1>11, BlockFacts DEF Behind
<1>13. \A c \in 1 .. rd' - 1 : InBuf(c)' \/ \E b \in Blocks : c \in ChunksOn(b)'
  <2>1. ASSUME NEW c \in 1 .. rd - 1 PROVE \E b \in Blocks : c \in ChunksOn(b)'
    <3>1. CASE InBuf(c)
      BY <1>1, <1>8, <3>1
    <3>2. CASE \E b \in Blocks : c \in ChunksOn(b)
      BY <1>6, <1>7, <3>2
    <3>3. QED
      BY <1>1, <3>1, <3>2 DEF Store
  <2>2. QED
    BY <1>4, <2>1
<1>14. \A b \in Blocks : \A x \in ChunksOn(b)' : x < rd'
  BY <1>4, <1>6, <1>8, <1>9 DEF Store
<1>15. Ordered'
  <2> SUFFICES ASSUME NEW b \in Blocks, NEW c \in Blocks, Before(b, c),
                      NEW x \in ChunksOn(b)', NEW y \in ChunksOn(c)'
               PROVE  x < y
    BY DEF Ordered, Before
  <2>1. b # c
    BY BlockFacts DEF Before, Parts
  <2>2. CASE c = h
    <3>1. y \in 1 .. ImageLen /\ InBuf(y)
      BY <1>8, <1>9, <2>2
    <3>2. x \in ChunksOn(b)
      BY <1>6, <2>1, <2>2
    <3>3. QED
      BY <3>1, <3>2 DEF Store
  <2>3. CASE c # h
    <3>1. y \in ChunksOn(c) /\ IsData(c)
      BY <1>6, <2>3 DEF ChunksOn, IsData
    <3>2. b # h
      BY <1>1, <1>10, <1>11, <3>1, BlockFacts DEF Before, Behind, Parts
    <3>3. x \in ChunksOn(b)
      BY <1>6, <3>2
    <3>4. QED
      BY <3>1, <3>3 DEF Store, Ordered
  <2>4. QED
    BY <2>2, <2>3
<1>16. QED
  BY <1>4, <1>5, <1>12, <1>13, <1>14, <1>15 DEF Store

LEMMA StoreStep ==
    ASSUME PlainUse, TypeOK, Frontier, Store, [Next]_vars
    PROVE  Store'
<1>1. CASE UNCHANGED vars
  <2>1. UNCHANGED <<flash, part, pos, buf, rd, readErr, pc, result>>
    BY <1>1 DEF vars, flashVars, writeVars, imageVars
  <2>2. KeepsData /\ \A c : InBuf(c)' <=> InBuf(c)
    BY <2>1 DEF KeepsData, InBuf
  <2>3. \A b \in Blocks : Behind(b)' <=> Behind(b)
    BY <2>1 DEF Behind
  <2>4. QED
    BY <2>1, <2>2, <2>3, ChunksKept DEF Store
<1>2. CASE CheckImage \/ ReadChunk \/ EndFill
  BY <1>2, StoreReads
<1>3. CASE WriteBlock
  BY <1>3, StoreWrites
<1>4. ~Configure /\ ~DropBlock /\ ~Fix
  BY DEF Frontier, Fix, FixErases, FixWrites, Configure, StartAppend, AppendSkipsBad, AppendErases,
         AppendWrites, EndAppend, AtMarker, DropBlock
<1>5. CASE OpenPart \/ FlagErase \/ FlagWrite \/ Finish
  <2>1. UNCHANGED <<buf, rd, readErr, part>> /\ pc' \notin {"check", "pre_erase"} /\ (Ended' => Ended)
        /\ (result' # "running" => pc' = "done") /\ (pc # "open" => pos' = pos /\ pc' # "open")
    BY <1>5 DEF OpenPart, FlagErase, FlagWrite, Finish, Fail, Store, Ended, TypeOK,
                imageVars, writeVars
  <2>2. \A b \in Blocks : Behind(b) => Behind(b)'
    BY <2>1, BlockFacts DEF Behind, TypeOK
  <2>3. QED
    BY <1>5, <2>1, <2>2, OthersKeepData, StoreKept DEF Next, Program, Main, WriteBlock,
       OpenPart, FlagErase, FlagWrite, Finish
<1>6. CASE KeepBlock \/ BadQueryFails \/ SkipBadBlock \/ EraseBlock \/ EraseFails
           \/ RoomMade \/ WriteFails
  <2>1. UNCHANGED <<buf, rd, readErr, part>> /\ pc' \notin {"check", "pre_erase", "open"} /\ (Ended' => Ended)
        /\ (result' # "running" => pc' = "done") /\ pc \in {"have", "room", "write"}
    BY <1>6 DEF KeepBlock, BadQueryFails, SkipBadBlock, EraseBlock, EraseFails, RoomMade,
                WriteFails, ReachesErase, Fail, Store, Ended, imageVars, writeVars
  <2>2. pos' \in Nat /\ pos <= pos' /\ pos \in Nat
    <3>1. pos \in Nat /\ pos <= Size[part] /\ Size[part] \in Nat
      BY <2>1, BlockFacts DEF TypeOK
    <3>2. pos' = pos \/ pos' = Advance(part, pos, pos + 1)
      BY <1>6, Zenon DEF KeepBlock, BadQueryFails, SkipBadBlock, EraseBlock, EraseFails,
                  RoomMade, WriteFails, writeVars
    <3>3. QED
      BY <3>1, <3>2 DEF Advance
  <2>3. \A b \in Blocks : Behind(b) => Behind(b)'
    BY <2>1, <2>2, BlockFacts DEF Behind
  <2>4. Next /\ ~WriteBlock
    BY <1>6 DEF Next, Program, Read, Room, Put, WriteBlock, KeepBlock, BadQueryFails,
       SkipBadBlock, EraseBlock, EraseFails, RoomMade, WriteFails, ReachesErase, Fail
  <2>5. QED
    BY <2>1, <2>3, <2>4, OthersKeepData, StoreKept
<1>7. CASE Spill
  <2>1. UNCHANGED <<buf, rd, readErr, result>> /\ pc' = "open" /\ pc = "room" /\ part' = part + 1
        /\ part \in Nat
    BY <1>7, BlockFacts DEF Spill, ReachesErase, imageVars, TypeOK, Parts
  <2>2. \A b \in Blocks : Behind(b) => Behind(b)'
    BY <2>1, BlockFacts DEF Behind, Parts
  <2>3. QED
    BY <1>7, <2>1, <2>2, OthersKeepData, StoreKept
    DEF Next, Program, Room, WriteBlock, Ended, Store
<1>8. CASE PowerCut
  <2>1. UNCHANGED <<buf, rd, readErr, part, pos, result>> /\ pc' = "off" /\ pc # "done"
    BY <1>8 DEF PowerCut, imageVars, writeVars
  <2>2. \A b \in Blocks : Behind(b) => Behind(b)'
    BY <2>1 DEF Behind
  <2>3. QED
    BY <1>8, <2>1, <2>2, OthersKeepData, StoreKept
    DEF Next, WriteBlock, PowerCut, Ended, Store
<1>9. CASE PreErase
  <2>1. UNCHANGED <<buf, rd, readErr, result>> /\ pc = "pre_erase" /\ pc' \in {"pre_erase", "open"}
    BY <1>9 DEF PreErase, imageVars
  <2>2. \A b \in Blocks : ~IsData(b)
    BY <2>1 DEF Store
  <2>3. QED
    BY <1>9, <2>1, <2>2, OthersKeepData, StoreKept
    DEF Next, Program, Main, WriteBlock, Ended, Store
<1>10. QED
  BY <1>1, <1>2, <1>3, <1>4, <1>5, <1>6, <1>7, <1>8, <1>9
  DEF Next, Program, Main, Read, Room, Put, Stopped

LEMMA StoreInv == ASSUME PlainUse PROVE Spec => []Store
<1>1. Init => Store
  BY StoreInit
<1>2. TypeOK /\ Frontier /\ Store /\ [Next]_vars => Store'
  BY StoreStep
<1>3. QED
  BY <1>1, <1>2, TypeCorrect, FrontierInv, PTL DEF Spec

\* In plain use, when mtd returns 0 and its image could be read to the end, every
\* chunk of the image is on the flash: across bad blocks, worn-out blocks, short
\* reads and the change from one partition to the next.
THEOREM SuccessStoresImage == ASSUME PlainUse PROVE Spec => []OkMeansStored
<1>1. TypeOK /\ Frontier /\ Store => OkMeansStored
  <2> SUFFICES ASSUME TypeOK, Store, result = "ok", ~readErr PROVE Missing = {}
    BY DEF OkMeansStored
  <2>1. buf = <<>> /\ rd = ImageLen + 1
    BY DEF Store
  <2>2. \A c : ~InBuf(c)
    BY <2>1, BufferFacts DEF InBuf
  <2>3. \A c \in 1 .. ImageLen : \E b \in Blocks : c \in ChunksOn(b)
    BY <2>1, <2>2 DEF Store
  <2>4. QED
    BY <2>3 DEF Missing
<1>2. QED
  BY <1>1, TypeCorrect, FrontierInv, StoreInv, PTL

\* In plain use the image lies on the flash in its own order, whenever one looks.
THEOREM ImageInOrder == ASSUME PlainUse PROVE Spec => []Ordered
<1>1. Store => Ordered
  BY DEF Store
<1>2. QED
  BY <1>1, StoreInv, PTL

-----------------------------------------------------------------------------
(***************************************************************************)
(* What is torn is flagged, and what lies below the offset is kept.        *)
(***************************************************************************)
\* All of the image is there when mtd comes to the end and clears the flag.
LEMMA NothingMissing ==
    ASSUME TypeOK, Store, pc \in {"finish", "clr_erase", "clr_write"}, ~readErr
    PROVE  Missing = {}
<1>1. buf = <<>> /\ rd = ImageLen + 1
  BY DEF Store
<1>2. \A c : ~InBuf(c)
  BY <1>1, BufferFacts DEF InBuf
<1>3. \A c \in 1 .. ImageLen : \E b \in Blocks : c \in ChunksOn(b)
  BY <1>1, <1>2 DEF Store
<1> QED
  BY <1>3 DEF Missing

TornInv ==
    /\ FlagCoversTear
    /\ pc \in {"set_erase", "set_write"} => flag # "recover"

LEMMA TornStep ==
    ASSUME ~EraseOpt, TypeOK, FlagInv, TornInv, [Next]_vars,
           pc \in {"clr_erase", "clr_write"} /\ ~readErr => Missing = {}
    PROVE  TornInv'
<1>1. flag' = flag \/ FlagErase \/ FlagWrite
  BY DEF Next, Program, Main, Read, Configure, Room, Put, Fix, CheckImage, PreErase,
         OpenPart, Finish, ReadChunk, EndFill, DropBlock, KeepBlock, StartAppend,
         AppendSkipsBad, AppendErases, AppendWrites, EndAppend, BadQueryFails,
         SkipBadBlock, EraseBlock, EraseFails, Spill, RoomMade, WriteBlock, WriteFails,
         FixErases, FixWrites, PowerCut, Stopped, vars, flashVars
<1>2. pc' \in {"set_erase", "set_write"} => flag' # "recover"
  <2>1. CASE OpenPart \/ FlagErase \/ FlagWrite
    BY <2>1 DEF OpenPart, FlagErase, FlagWrite, Fail, flashVars, TornInv
  <2>2. CASE ~(OpenPart \/ FlagErase \/ FlagWrite)
    BY <2>2 DEF Next, Program, Main, Read, Configure, Room, Put, Fix, CheckImage,
       Checked, PreErase, Finish, ReadChunk, EndFill, AfterImage, DropBlock, KeepBlock,
       StartAppend, AppendSkipsBad, AppendErases, AppendWrites, EndAppend,
       BadQueryFails, SkipBadBlock, EraseBlock, EraseFails, Spill, RoomMade,
       WriteBlock, WriteFails, FixErases, FixWrites, PowerCut, Stopped, ReachesErase,
       Fail, vars, flashVars, TornInv
  <2> QED
    BY <2>1, <2>2
<1>3. Replaced => Replaced'
  BY DEF Replaced, Next, Program, Main, Read, Configure, Room, Put, Fix, CheckImage, PreErase,
         OpenPart, FlagErase, FlagWrite, Finish, ReadChunk, EndFill, DropBlock, KeepBlock,
         StartAppend, AppendSkipsBad, AppendErases, AppendWrites, EndAppend, BadQueryFails,
         SkipBadBlock, EraseBlock, EraseFails, Spill, RoomMade, WriteBlock, WriteFails,
         FixErases, FixWrites, PowerCut, Stopped, vars, cfgVars
<1>4. flash' = flash => (Missing' \subseteq Missing /\ (Dirty' <=> Dirty))
  BY <1>3 DEF Missing, Dirty, ChunksOn
<1>5. readErr' \/ ~readErr \/ Missing' = {}
  <2>1. CASE CheckImage
    <3>1. readErr' = readErr \/ readErr' = (ImageLen > 0)
      BY <2>1 DEF CheckImage
    <3>2. ~(ImageLen > 0) => Missing' = {}
      BY DEF Missing
    <3> QED
      BY <3>1, <3>2
  <2>2. CASE ~CheckImage
    BY <2>2 DEF Next, Program, Main, Read, Configure, Room, Put, Fix, PreErase,
         OpenPart, FlagErase, FlagWrite, Finish, ReadChunk, EndFill, ReadStops,
         DropBlock, KeepBlock, StartAppend, AppendSkipsBad, AppendErases,
         AppendWrites, EndAppend, BadQueryFails, SkipBadBlock, EraseBlock, EraseFails,
         Spill, RoomMade, WriteBlock, WriteFails, FixErases, FixWrites, PowerCut,
         Stopped, vars, imageVars
  <2> QED
    BY <2>1, <2>2
<1>6. FlagCoversTear'
  <2> SUFFICES ASSUME UseFlag, Dirty', ~readErr', Missing' # {}
               PROVE  flag' = "recover"
    BY DEF FlagCoversTear
  <2>1. CASE flash' # flash
    <3>1. flag = "recover"
      BY <2>1, FlagUnder
    <3>2. flag' = flag
      BY <1>1, <2>1 DEF FlagErase, FlagWrite
    <3> QED
      BY <3>1, <3>2
  <2>2. CASE flash' = flash
    <3>1. flag = "recover"
      BY <1>4, <1>5, <2>2 DEF TornInv, FlagCoversTear
    <3>2. CASE FlagErase \/ FlagWrite
      <4>1. pc \in {"clr_erase", "clr_write"} /\ readErr' = readErr
        BY <3>1, <3>2 DEF FlagErase, FlagWrite, TornInv, imageVars
      <4> QED
        BY <1>4, <2>2, <4>1
    <3> QED
      BY <1>1, <3>1, <3>2
  <2> QED
    BY <2>1, <2>2
<1> QED
  BY <1>2, <1>6 DEF TornInv

\* In plain use without -e, the boot loader finds the recovery magic whenever the
\* flash was touched and does not hold the whole image (FlagCoversTear).
THEOREM TornIsFlagged == ASSUME PlainUse, ~EraseOpt PROVE Spec => []FlagCoversTear
<1>1. Init => FlagInv /\ TornInv
  BY DEF Init, FlagInv, TornInv, FlagCoversTear, Dirty
<1>2. TypeOK /\ Store /\ FlagInv /\ TornInv /\ [Next]_vars => FlagInv' /\ TornInv'
  BY FlagStep, TornStep, NothingMissing
<1>3. TornInv => FlagCoversTear
  BY DEF TornInv
<1> QED
  BY <1>1, <1>2, <1>3, TypeCorrect, StoreInv, PTL DEF Spec

LEMMA BelowStep ==
    ASSUME PlainUse, TypeOK, Frontier, Gap, [Next]_vars,
           NEW b \in Blocks, b[2] < PartOffset
    PROVE  flash'[b] = flash[b]
<1>1. b[2] \in Nat /\ e \in Nat /\ w \in Nat /\ skipBad \in Nat /\ pos \in Nat
  BY BlockFacts DEF TypeOK, Parts
<1>2. b # Target
  BY <1>1 DEF Target
<1>3. pc = "write" => b # Here
  BY <1>1 DEF Frontier, Ready, Here
<1>4. CASE UNCHANGED flash
  BY <1>4
<1>5. CASE EraseBlock \/ EraseFails
  BY <1>2, <1>5 DEF EraseBlock, EraseFails, EraseFailed, TypeOK
<1>6. CASE Spill
  <2>1. AtFrontier /\ ~Nand
    BY <1>1, <1>6, BlockFacts DEF Spill, ReachesErase, Short, Frontier, AtFrontier, Ready,
                                  PlainUse, Parts, TypeOK
  <2>2. w = e
    BY <1>1, <2>1 DEF AtFrontier, Frontier
  <2> QED
    BY <1>1, <1>2, <1>6, <2>2 DEF Spill, TypeOK
<1>7. CASE WriteBlock \/ WriteFails
  BY <1>3, <1>7 DEF WriteBlock, WriteFails, TypeOK
<1>8. CASE PowerCut
  BY <1>2, <1>3, <1>8 DEF PowerCut, AtWork, Frontier, Gap, TypeOK
<1>9. CASE Configure \/ Fix \/ PreErase
  BY <1>9 DEF Configure, StartAppend, AppendSkipsBad, AppendErases, AppendWrites, EndAppend,
              AtMarker, Fix, FixErases, FixWrites, PreErase, Frontier, Gap
<1> QED
  BY <1>4, <1>5, <1>6, <1>7, <1>8, <1>9
  DEF Next, Program, Main, Read, Room, Put, CheckImage, OpenPart, FlagErase, FlagWrite,
      Finish, ReadChunk, EndFill, DropBlock, KeepBlock, BadQueryFails, SkipBadBlock,
      RoomMade, Stopped, vars, flashVars

\* In plain use without -e, what lies below the -p offset of a partition is never
\* touched (BelowOffsetKept).
THEOREM OffsetIsKept == ASSUME PlainUse, ~EraseOpt PROVE Spec => []BelowOffsetKept
<1>1. Init => BelowOffsetKept
  BY DEF Init, BelowOffsetKept
<1>2. TypeOK /\ Frontier /\ Gap /\ BelowOffsetKept /\ [Next]_vars => BelowOffsetKept'
  BY BelowStep DEF BelowOffsetKept
<1> QED
  BY <1>1, <1>2, TypeCorrect, FrontierInv, GapInv, PTL DEF Spec
=============================================================================
