------------------------------ MODULE MtdWrite ------------------------------
(***************************************************************************)
(* "mtd write": the program that puts a firmware image on raw flash        *)
(* (package/system/mtd/src/mtd.c), with the files its write path calls     *)
(* into: jffs2.c (-j, the saved configuration appended to the image),      *)
(* seama.c, wrg.c and wrgg.c (the header put right after an append) and    *)
(* tpl_ramips_recoveryflag.c (-t, the boot loader's recovery flag).        *)
(*                                                                         *)
(* Everything is counted in erase blocks.  The image is a stream of        *)
(* chunks, ChunksPerBlock of which fill a block, so that a short read, a   *)
(* partial last block and its padding are visible.  The flash is what the  *)
(* kernel's MTD layer offers: a block is erased as a whole, programming a  *)
(* block that is not blank ruins it, and power may go between any two      *)
(* operations or in the middle of one.                                     *)
(***************************************************************************)
EXTENDS Integers, Sequences, FiniteSets

CONSTANTS
    Size,            \* erase blocks of each partition of <device>[:<device>...]
    Nand,            \* mtdtype = MTD_NANDFLASH: blocks may be marked bad
    ImageLen,        \* chunks in the image file
    ChunksPerBlock,  \* erasesize, in chunks
    PartOffset,      \* -p, in blocks
    NoErase,         \* -n
    EraseOpt,        \* -e <first device>
    Forced,           \* -f
    UseFlag,         \* -t <partition>
    FlagSize,        \* erase blocks of that partition, as large as the image's
    UseCfg,          \* -j <file>
    CfgSkip,         \* -s, in blocks
    CfgBlocks,       \* blocks of jffs2 data that <file> makes (0: it is missing)
    EofChunk,        \* the chunk that is the jffs2 end marker (0: none)
    HasHeader,       \* imageformat is SEAMA, WRG or WRGG03, and mtd has its fixup
    Faults,          \* subset of FaultKinds: what the environment may do
    MaxBad, MaxWorn  \* bounds: bad and worn-out blocks of the flash

FaultKinds == {"read", "write", "open", "flag", "check", "fix", "power"}

NParts == Len(Size)
Parts  == 1 .. NParts
Blocks == UNION {{p} \X (0 .. Size[p] - 1) : p \in Parts}

ASSUME SizeAssumption ==
    /\ Size \in Seq(Nat)
    /\ NParts > 0
ASSUME NumberAssumption ==
    /\ ImageLen \in Nat
    /\ ChunksPerBlock \in Nat \ {0}
    /\ PartOffset \in Nat
    /\ CfgBlocks \in Nat /\ CfgSkip \in Nat
    /\ EofChunk \in Nat /\ FlagSize \in Nat
    /\ MaxBad \in Nat /\ MaxWorn \in Nat
ASSUME OptionAssumption ==
    /\ {Nand, NoErase, EraseOpt, Forced, UseFlag, UseCfg, HasHeader} \subseteq BOOLEAN
    /\ Faults \subseteq FaultKinds

VARIABLES
    bad,      \* blocks the driver reports as bad (MEMGETBADBLOCK)
    worn,     \* blocks whose erase fails (MEMERASE)
    flash,    \* contents of every block
    flag,     \* the boot loader's recovery magic in the -t partition
    part,     \* the partition being written: the name before ':'
    pos,      \* file offset of fd
    w, e,     \* mtd_write's bytes written and erase frontier
    skipBad,  \* skip_bad_blocks
    skip,     \* image blocks still to be dropped after an append
    offset,   \* offset into buf of the next write
    buf,      \* the chunks read and not yet written
    rd,       \* next chunk of the image file
    cfgLeft,  \* jffs2file # NULL
    mtdofs, jn, \* jffs2.c: block to erase next, blocks appended so far
    readErr,  \* history: a read of the image failed
    pc, result

flashVars == <<bad, worn, flash, flag>>
writeVars == <<part, pos, w, e, skipBad, skip, offset>>
imageVars == <<buf, rd, readErr>>
cfgVars   == <<cfgLeft, mtdofs, jn>>
vars == <<flashVars, writeVars, imageVars, cfgVars, pc, result>>

(***************************************************************************)
(* The flash.  A block holds what it held before ("old"), nothing          *)
(* ("blank"), a block of the image ("data", its chunks, 0 for padding), a  *)
(* block of the appended configuration ("cfg", its number) or neither      *)
(* ("junk").                                                               *)
(***************************************************************************)
Old   == [kind |-> "old",   data |-> <<>>]
Blank == [kind |-> "blank", data |-> <<>>]
Junk  == [kind |-> "junk",  data |-> <<>>]
Data(s) == [kind |-> "data", data |-> s]
Cfg(i)  == [kind |-> "cfg",  data |-> <<i>>]

Content == [kind : {"old", "blank", "junk", "data", "cfg"},
            data : {s \in Seq(Nat) : Len(s) <= ChunksPerBlock}]

\* The chunks of the image on block b.
ChunksOn(b) ==
    IF flash[b].kind = "data"
    THEN {flash[b].data[i] : i \in DOMAIN flash[b].data} \ {0} ELSE {}

\* What block b holds after content c was programmed into it.
Programmed(b, c) == IF flash[b] = Blank /\ b \notin bad THEN c ELSE Junk

\* lseek to block n of partition p, from offset from: past the end it fails.
Advance(p, from, n) == IF n <= Size[p] THEN n ELSE from

Here == <<part, pos>>
\* The image block that a full or padded buffer makes.
Padded(s) == [i \in 1 .. ChunksPerBlock |-> IF i <= Len(s) THEN s[i] ELSE 0]

Fail == pc' = "done" /\ result' = "failed"

-----------------------------------------------------------------------------
Init ==
    /\ bad \in {S \in SUBSET Blocks : Cardinality(S) <= MaxBad}
    /\ Nand \/ bad = {}
    /\ worn \in {S \in SUBSET (Blocks \ bad) : Cardinality(S) <= MaxWorn}
    /\ flash = [b \in Blocks |-> Old]
    /\ flag = "clear"
    /\ part = 1 /\ pos = 0 /\ w = 0 /\ e = 0
    /\ skipBad = 0 /\ skip = 0 /\ offset = 0
    /\ buf = <<>> /\ rd = 1 /\ readErr = FALSE
    /\ cfgLeft = UseCfg /\ mtdofs = 0 /\ jn = 0
    /\ pc = "check" /\ result = "running"

(***************************************************************************)
(* main: image_check reads the first chunk, the magic, into buf before     *)
(* anything is erased; an image that is empty, unreadable or of a wrong    *)
(* format ends mtd unless -f is given.  Then the -e device is erased, one  *)
(* block at a time, with errors only logged.                               *)
(***************************************************************************)
Checked(ok) ==
    IF ok \/ Forced
    THEN pc' = (IF EraseOpt THEN "pre_erase" ELSE "open") /\ UNCHANGED result
    ELSE Fail

CheckImage ==
    /\ pc = "check"
    /\ \/ /\ ImageLen > 0
          /\ buf' = <<1>> /\ rd' = 2
          /\ \E ok \in {TRUE} \cup (IF "check" \in Faults THEN {FALSE} ELSE {}) : Checked(ok)
          /\ UNCHANGED readErr
       \/ /\ ImageLen = 0 \/ "read" \in Faults
          /\ readErr' = (ImageLen > 0)
          /\ Checked(FALSE)
          /\ UNCHANGED <<buf, rd>>
    /\ UNCHANGED <<flashVars, writeVars, cfgVars>>

\* MEMERASE of block b: blank, or an error that leaves it as it was or half erased.
Erases(b) == b \in Blocks \ (bad \cup worn)
EraseFailed(b) ==
    /\ ~Erases(b)
    /\ IF b \in Blocks
       THEN \E c \in {flash[b], Junk} : flash' = [flash EXCEPT ![b] = c]
       ELSE UNCHANGED flash

PreErase ==
    /\ pc = "pre_erase"
    /\ LET b == <<1, e>> IN
       IF e = Size[1]
       THEN e' = 0 /\ pc' = "open" /\ UNCHANGED flash
       ELSE /\ e' = e + 1
            /\ \/ b \in bad /\ UNCHANGED flash
               \/ Erases(b) /\ flash' = [flash EXCEPT ![b] = Blank]
               \/ b \notin bad /\ EraseFailed(b)
            /\ UNCHANGED pc
    /\ UNCHANGED <<bad, worn, flag, part, pos, w, skipBad, skip, offset,
                   imageVars, cfgVars, result>>

\* Mutant: the recovery flag is not set.
OpenPart_NoFlag ==
    /\ pc = "open"
    /\ \/ /\ "open" \in Faults /\ Fail
          /\ UNCHANGED writeVars
       \/ /\ pos' = Advance(part, 0, PartOffset)
          /\ w' = 0 /\ e' = 0
          /\ pc' = "fill"
          /\ UNCHANGED <<part, skipBad, skip, offset, result>>
    /\ UNCHANGED <<flashVars, imageVars, cfgVars>>

(***************************************************************************)
(* The resume label: open the next partition and set the recovery flag.    *)
(* mtd_tpl_recoverflag_write rewrites the flag's block only if the magic   *)
(* differs: erase, then write.                                             *)
(***************************************************************************)
OpenPart ==
    /\ pc = "open"
    /\ \/ /\ "open" \in Faults /\ Fail
          /\ UNCHANGED writeVars
       \/ /\ pos' = Advance(part, 0, PartOffset)
          /\ w' = 0 /\ e' = 0
          /\ pc' = IF UseFlag /\ flag # "recover" THEN "set_erase" ELSE "fill"
          /\ UNCHANGED <<part, skipBad, skip, offset, result>>
    /\ UNCHANGED <<flashVars, imageVars, cfgVars>>

FlagErase ==
    /\ pc \in {"set_erase", "clr_erase"}
    /\ \/ /\ flag' = "blank"
          /\ pc' = IF pc = "set_erase" THEN "set_write" ELSE "clr_write"
          /\ UNCHANGED result
       \/ /\ "flag" \in Faults /\ Fail
          /\ UNCHANGED flag
    /\ UNCHANGED <<bad, worn, flash, writeVars, imageVars, cfgVars>>

FlagWrite ==
    /\ pc \in {"set_write", "clr_write"}
    /\ \/ /\ pc = "set_write"
          /\ flag' = "recover" /\ pc' = "fill"
          /\ UNCHANGED result
       \/ /\ pc = "clr_write"
          /\ flag' = "clear" /\ pc' = "done" /\ result' = "ok"
       \/ /\ "flag" \in Faults /\ Fail
          /\ UNCHANGED flag
    /\ UNCHANGED <<bad, worn, flash, writeVars, imageVars, cfgVars>>

\* Mutant: reading goes on after the end of the file.
ReadChunk_PastEnd ==
    /\ pc = "fill" /\ Len(buf) < ChunksPerBlock
    /\ buf' = Append(buf, rd) /\ rd' = rd + 1
    /\ UNCHANGED <<flashVars, writeVars, readErr, cfgVars, pc, result>>

(***************************************************************************)
(* The read loop: short reads are repeated until the buffer holds a block; *)
(* end of file and a read error both leave the loop, and a short block is  *)
(* padded.  An empty buffer ends the image.                                *)
(***************************************************************************)
ReadChunk ==
    /\ pc = "fill" /\ Len(buf) < ChunksPerBlock /\ rd <= ImageLen
    /\ buf' = Append(buf, rd) /\ rd' = rd + 1
    /\ UNCHANGED <<flashVars, writeVars, readErr, cfgVars, pc, result>>

ReadStops ==
    \/ /\ Len(buf) = ChunksPerBlock \/ rd > ImageLen
       /\ UNCHANGED readErr
    \/ /\ "read" \in Faults /\ Len(buf) < ChunksPerBlock
       /\ readErr' = TRUE

\* The image is used up: with a configuration in it, its header may be wrong.
Replaced   == UseCfg /\ ~cfgLeft
AfterImage == IF Replaced /\ HasHeader THEN "fix_erase" ELSE "finish"

EndFill ==
    /\ pc = "fill" /\ ReadStops
    /\ IF buf = <<>>
       THEN pc' = AfterImage /\ UNCHANGED buf
       ELSE pc' = "have" /\ buf' = Padded(buf)
    /\ UNCHANGED <<flashVars, writeVars, rd, cfgVars, result>>

(***************************************************************************)
(* With a block in hand: drop it if an append has taken its place, start   *)
(* the append if it is the jffs2 end marker, else make room for it.        *)
(***************************************************************************)
DropBlock ==
    /\ pc = "have" /\ skip > 0
    /\ skip' = skip - 1
    /\ buf' = <<>> /\ pc' = "fill"
    /\ UNCHANGED <<flashVars, part, pos, w, e, skipBad, offset, rd, readErr,
                   cfgVars, result>>

AtMarker == cfgLeft /\ w >= CfgSkip /\ EofChunk # 0 /\ buf[1] = EofChunk

KeepBlock ==
    /\ pc = "have" /\ skip = 0 /\ ~AtMarker
    /\ pc' = IF NoErase THEN "write" ELSE "room"
    /\ UNCHANGED <<flashVars, writeVars, imageVars, cfgVars, result>>

StartAppend ==
    /\ pc = "have" /\ skip = 0 /\ AtMarker
    /\ mtdofs' = e /\ jn' = 0
    /\ pc' = "j_pad"
    /\ UNCHANGED <<flashVars, writeVars, imageVars, cfgLeft, result>>

(***************************************************************************)
(* mtd_replace_jffs2: CfgBlocks blocks of jffs2 nodes and one that holds   *)
(* the end marker.  pad() steps over bad blocks, erases and writes; it     *)
(* looks at the result of neither.  The erase goes to mtdofs, the write to *)
(* the file offset.  A bad block is stepped over below mtdsize only, which *)
(* is the size of the partition opened last: with -t, that of the flag.    *)
(***************************************************************************)
mtdsize == IF UseFlag THEN FlagSize ELSE Size[part]
AppendBlock == <<part, mtdofs>>

AppendSkipsBad ==
    /\ pc = "j_pad" /\ jn <= CfgBlocks /\ Nand
    /\ IF mtdofs >= Size[part]
       THEN Fail /\ UNCHANGED <<pos, mtdofs>>       \* MEMGETBADBLOCK fails
       ELSE /\ AppendBlock \in bad /\ mtdofs < mtdsize
            /\ mtdofs' = mtdofs + 1
            /\ pos' = Advance(part, pos, pos + 1)
            /\ UNCHANGED <<pc, result>>
    /\ UNCHANGED <<flashVars, part, w, e, skipBad, skip, offset, imageVars, cfgLeft, jn>>

PadReaches == Nand => mtdofs < Size[part] /\ (AppendBlock \notin bad \/ mtdofs >= mtdsize)

\* Mutant: every block of the append erases the first one.
AppendErases_First ==
    /\ pc = "j_pad" /\ jn <= CfgBlocks /\ PadReaches
    /\ LET b == <<part, e>> IN
       \/ Erases(b) /\ flash' = [flash EXCEPT ![b] = Blank]
       \/ EraseFailed(b)
    /\ pc' = "j_write"
    /\ UNCHANGED <<bad, worn, flag, writeVars, imageVars, cfgVars, result>>

\* Mutant: the append erases the block before its own.
AppendErases_Before ==
    /\ pc = "j_pad" /\ jn <= CfgBlocks /\ PadReaches
    /\ LET b == <<part, mtdofs - 1>> IN
       \/ Erases(b) /\ flash' = [flash EXCEPT ![b] = Blank]
       \/ EraseFailed(b)
    /\ pc' = "j_write"
    /\ UNCHANGED <<bad, worn, flag, writeVars, imageVars, cfgVars, result>>

AppendErases ==
    /\ pc = "j_pad" /\ jn <= CfgBlocks /\ PadReaches
    /\ \/ Erases(AppendBlock) /\ flash' = [flash EXCEPT ![AppendBlock] = Blank]
       \/ EraseFailed(AppendBlock)
    /\ pc' = "j_write"
    /\ UNCHANGED <<bad, worn, flag, writeVars, imageVars, cfgVars, result>>

\* A write that fails, at the end of the device or in the middle of the block,
\* leaves the file offset where it is.
AppendWrites ==
    /\ pc = "j_write"
    /\ \/ /\ pos < Size[part]
          /\ flash' = [flash EXCEPT ![Here] = Programmed(Here, Cfg(jn + 1))]
          /\ pos' = pos + 1
       \/ /\ pos < Size[part]
          /\ "write" \in Faults \/ Here \in bad
          /\ flash' = [flash EXCEPT ![Here] = Junk]
          /\ UNCHANGED pos
       \/ pos = Size[part] /\ UNCHANGED <<flash, pos>>
    /\ mtdofs' = mtdofs + 1 /\ jn' = jn + 1
    /\ pc' = "j_pad"
    /\ UNCHANGED <<bad, worn, flag, part, w, e, skipBad, skip, offset, imageVars,
                   cfgLeft, result>>

\* Back in mtd_write: the frontier moves over what was appended, the marker's
\* block is dropped and as many more image blocks will be.
EndAppend ==
    /\ pc = "j_pad" /\ jn = CfgBlocks + 1
    /\ w' = w + (mtdofs - e) /\ e' = mtdofs
    /\ skip' = mtdofs - e - 1
    /\ cfgLeft' = FALSE
    /\ buf' = <<>> /\ offset' = 0 /\ pc' = "fill"
    /\ UNCHANGED <<flashVars, part, pos, skipBad, rd, readErr, mtdofs, jn, result>>

\* Mutant: one block too many is erased.
Short_Ahead == w + 1 >= e - skipBad

(***************************************************************************)
(* The erase loop: while the block to write lies beyond the frontier, step *)
(* over a bad block, erase a good one, and go to the next partition when   *)
(* the erase fails.  Bad blocks are looked up at e, erased at e+part_offset*)
(***************************************************************************)
Short == w + 1 > e - skipBad

\* Mutant: the erase ignores the -p offset.
Target_NoOffset == <<part, e>>

Target == <<part, e + PartOffset>>

BadQueryFails ==
    /\ pc = "room" /\ Short /\ Nand /\ e >= Size[part]
    /\ Fail
    /\ UNCHANGED <<flashVars, writeVars, imageVars, cfgVars>>

\* Mutant: the file offset stays on the bad block.
SkipBadBlock_NoSeek ==
    /\ pc = "room" /\ Short /\ <<part, e>> \in bad
    /\ skipBad' = skipBad + 1 /\ e' = e + 1
    /\ UNCHANGED pos
    /\ UNCHANGED <<flashVars, part, w, skip, offset, imageVars, cfgVars, pc, result>>

\* Mutant: the frontier stays on the bad block.
SkipBadBlock_Stuck ==
    /\ pc = "room" /\ Short /\ <<part, e>> \in bad
    /\ UNCHANGED <<skipBad, e>>
    /\ pos' = Advance(part, pos, pos + 1)
    /\ UNCHANGED <<flashVars, part, w, skip, offset, imageVars, cfgVars, pc, result>>

SkipBadBlock ==
    /\ pc = "room" /\ Short /\ <<part, e>> \in bad
    /\ skipBad' = skipBad + 1 /\ e' = e + 1
    /\ pos' = Advance(part, pos, pos + 1)
    /\ UNCHANGED <<flashVars, part, w, skip, offset, imageVars, cfgVars, pc, result>>

ReachesErase ==
    /\ pc = "room" /\ Short /\ <<part, e>> \notin bad
    /\ Nand => e < Size[part]

EraseBlock ==
    /\ ReachesErase /\ Erases(Target)
    /\ flash' = [flash EXCEPT ![Target] = Blank]
    /\ e' = e + 1
    /\ UNCHANGED <<bad, worn, flag, part, pos, w, skipBad, skip, offset,
                   imageVars, cfgVars, pc, result>>

\* Mutant: a block whose erase fails is stepped over, not marked bad.
EraseFails_Skips ==
    /\ ReachesErase /\ part = NParts
    /\ EraseFailed(Target) /\ e < Size[part]
    /\ skipBad' = skipBad + 1 /\ e' = e + 1 /\ pos' = Advance(part, pos, pos + 1)
    /\ UNCHANGED <<bad, worn, flag, part, w, skip, offset, imageVars, cfgVars,
                   pc, result>>

EraseFails ==
    /\ ReachesErase /\ part = NParts
    /\ EraseFailed(Target) /\ Fail
    /\ UNCHANGED <<bad, worn, flag, writeVars, imageVars, cfgVars>>

\* The spill to the next partition.  With w < e the code writes e-w bytes from
\* buf first; e-w is then the number of skipped bad blocks, so the write goes
\* to blocks that were not erased and, beyond the first, past the end of buf.
Spilled(f) ==
    [b \in Blocks |->
        IF b[1] = part /\ b[2] >= pos /\ b[2] < pos + (e - w) THEN Junk ELSE f[b]]

\* Mutant: the block in hand is not carried to the next partition.
Spill_LosesBlock ==
    /\ ReachesErase /\ part < NParts /\ ~Erases(Target)
    /\ \E c \in {Old, Junk} :
         LET f == IF Target \in Blocks /\ c = Junk
                  THEN [flash EXCEPT ![Target] = Junk] ELSE flash
         IN  flash' = IF w < e THEN Spilled(f) ELSE f
    /\ buf' = <<>>
    /\ offset' = IF w < e THEN e - w ELSE offset
    /\ w' = 0 /\ e' = 0
    /\ part' = part + 1
    /\ pc' = "open"
    /\ UNCHANGED <<bad, worn, flag, pos, skipBad, skip, rd, readErr, cfgVars, result>>

Spill ==
    /\ ReachesErase /\ part < NParts /\ ~Erases(Target)
    /\ \E c \in {Old, Junk} :
         LET f == IF Target \in Blocks /\ c = Junk
                  THEN [flash EXCEPT ![Target] = Junk] ELSE flash
         IN  flash' = IF w < e THEN Spilled(f) ELSE f
    /\ offset' = IF w < e THEN e - w ELSE offset
    /\ w' = 0 /\ e' = 0
    /\ part' = part + 1
    /\ pc' = "open"
    /\ UNCHANGED <<bad, worn, flag, pos, skipBad, skip, imageVars, cfgVars, result>>

RoomMade ==
    /\ pc = "room" /\ ~Short
    /\ pc' = "write"
    /\ UNCHANGED <<flashVars, writeVars, imageVars, cfgVars, result>>

\* Mutant: the buffer is not emptied.
WriteBlock_Again ==
    /\ pc = "write" /\ pos < Size[part]
    /\ LET c == IF offset = 0 THEN Data(buf) ELSE Junk IN
       flash' = [flash EXCEPT ![Here] = Programmed(Here, c)]
    /\ pos' = pos + 1 /\ w' = w + 1
    /\ UNCHANGED buf /\ offset' = 0 /\ pc' = "fill"
    /\ UNCHANGED <<bad, worn, flag, part, e, skipBad, skip, rd, readErr, cfgVars, result>>

(***************************************************************************)
(* write(fd, buf + offset, buflen).  With offset > 0 it reads beyond the   *)
(* buffer: what lands on the flash is not the image, or write fails.       *)
(***************************************************************************)
WriteBlock ==
    /\ pc = "write" /\ pos < Size[part]
    /\ LET c == IF offset = 0 THEN Data(buf) ELSE Junk IN
       flash' = [flash EXCEPT ![Here] = Programmed(Here, c)]
    /\ pos' = pos + 1 /\ w' = w + 1
    /\ buf' = <<>> /\ offset' = 0 /\ pc' = "fill"
    /\ UNCHANGED <<bad, worn, flag, part, e, skipBad, skip, rd, readErr, cfgVars, result>>

\* Mutant: a failed write is not noticed.
WriteFails_Ignored ==
    /\ pc = "write"
    /\ \/ pos = Size[part] /\ UNCHANGED flash                  \* "Insufficient space."
       \/ /\ pos < Size[part]                                  \* "Error writing image."
          /\ "write" \in Faults \/ offset > 0
          /\ flash' = [flash EXCEPT ![Here] = Junk]
    /\ pc' = "done" /\ result' = "ok"
    /\ UNCHANGED <<bad, worn, flag, writeVars, imageVars, cfgVars>>

WriteFails ==
    /\ pc = "write"
    /\ \/ pos = Size[part] /\ UNCHANGED flash                  \* "Insufficient space."
       \/ /\ pos < Size[part]                                  \* "Error writing image."
          /\ "write" \in Faults \/ offset > 0
          /\ flash' = [flash EXCEPT ![Here] = Junk]
    /\ Fail
    /\ UNCHANGED <<bad, worn, flag, writeVars, imageVars, cfgVars>>

(***************************************************************************)
(* mtd_fixseama, mtd_fixwrg, mtd_fixwrgg, once the configuration is in the *)
(* image: the header at the start of the partition written last gets the   *)
(* checksum of what is on the flash.  Its block is read, erased and        *)
(* written back; a header that is not there or an error ends mtd.          *)
(***************************************************************************)
HeaderBlock == <<part, 0>>
HeaderThere == HeaderBlock \in Blocks /\ 1 \in ChunksOn(HeaderBlock)

FixErases ==
    /\ pc = "fix_erase"
    /\ \/ /\ ~HeaderThere \/ "fix" \in Faults
          /\ Fail /\ UNCHANGED <<flash, buf>>
       \/ /\ HeaderThere /\ pc' = "finish"                     \* it is right as it is
          /\ UNCHANGED <<flash, buf, result>>
       \/ /\ HeaderThere /\ Erases(HeaderBlock)
          /\ buf' = flash[HeaderBlock].data
          /\ flash' = [flash EXCEPT ![HeaderBlock] = Blank]
          /\ pc' = "fix_write" /\ UNCHANGED result
       \/ /\ HeaderThere /\ EraseFailed(HeaderBlock) /\ Fail
          /\ UNCHANGED buf
    /\ UNCHANGED <<bad, worn, flag, writeVars, rd, readErr, cfgVars>>

\* Mutant: a header that cannot be written back is not noticed.
FixWrites_Ignored ==
    /\ pc = "fix_write"
    /\ \E c \in {Data(buf)} \cup (IF "fix" \in Faults THEN {Junk} ELSE {}) :
          flash' = [flash EXCEPT ![HeaderBlock] = Programmed(HeaderBlock, c)]
    /\ pc' = "finish" /\ buf' = <<>>
    /\ UNCHANGED <<bad, worn, flag, writeVars, rd, readErr, cfgVars, result>>

FixWrites ==
    /\ pc = "fix_write"
    /\ \/ /\ flash' = [flash EXCEPT ![HeaderBlock] = Programmed(HeaderBlock, Data(buf))]
          /\ pc' = "finish" /\ buf' = <<>>
          /\ UNCHANGED result
       \/ /\ "fix" \in Faults
          /\ flash' = [flash EXCEPT ![HeaderBlock] = Junk]
          /\ Fail /\ UNCHANGED buf
    /\ UNCHANGED <<bad, worn, flag, writeVars, rd, readErr, cfgVars>>

\* The image is used up: close, clear the recovery flag, return 0.
Finish ==
    /\ pc = "finish"
    /\ IF UseFlag /\ flag # "clear"
       THEN pc' = "clr_erase" /\ UNCHANGED result
       ELSE pc' = "done" /\ result' = "ok"
    /\ UNCHANGED <<flashVars, writeVars, imageVars, cfgVars>>

\* The block that an erase or a write under way is on.
AtWork ==
    {b \in Blocks :
        \/ pc = "pre_erase" /\ b = <<1, e>> /\ Erases(b)
        \/ ReachesErase /\ b = Target /\ Erases(b)
        \/ pc = "j_pad" /\ jn <= CfgBlocks /\ PadReaches /\ b = AppendBlock /\ Erases(b)
        \/ pc \in {"write", "j_write"} /\ b = Here
        \/ pc = "fix_erase" /\ HeaderThere /\ b = HeaderBlock /\ Erases(b)
        \/ pc = "fix_write" /\ b = HeaderBlock}

\* Power goes, between two operations or in the middle of an erase or a write.
PowerCut ==
    /\ "power" \in Faults /\ pc \notin {"done", "off"}
    /\ \/ UNCHANGED flash
       \/ \E b \in AtWork : flash' = [flash EXCEPT ![b] = Junk]
    /\ pc' = "off"
    /\ UNCHANGED <<bad, worn, flag, writeVars, imageVars, cfgVars, result>>

Stopped ==
    /\ pc \in {"done", "off"}
    /\ UNCHANGED vars

Main   == CheckImage \/ PreErase \/ OpenPart \/ FlagErase \/ FlagWrite \/ Finish
Read   == ReadChunk \/ EndFill \/ DropBlock \/ KeepBlock
Configure == StartAppend \/ AppendSkipsBad \/ AppendErases \/ AppendWrites \/ EndAppend
Room   == BadQueryFails \/ SkipBadBlock \/ EraseBlock \/ EraseFails \/ Spill \/ RoomMade
Put    == WriteBlock \/ WriteFails
Fix    == FixErases \/ FixWrites
Program == Main \/ Read \/ Configure \/ Room \/ Put \/ Fix

Next == Program \/ PowerCut \/ Stopped

Spec == Init /\ [][Next]_vars

\* mtd is one process and the kernel runs it: while it can take a step it
\* eventually does.
FairSpec == Spec /\ WF_vars(Program)

-----------------------------------------------------------------------------
TypeOK ==
    /\ bad \subseteq Blocks /\ worn \subseteq Blocks
    /\ flash \in [Blocks -> Content]
    /\ flag \in {"clear", "recover", "blank"}
    /\ part \in Parts /\ pos \in Nat
    /\ pc \notin {"open", "done", "off"} => pos <= Size[part]
    /\ w \in Nat /\ e \in Nat /\ skipBad \in Nat /\ offset \in Nat
    /\ skip \in Nat
    /\ pc \in {"j_pad", "j_write"} => jn + e <= mtdofs
    /\ pc = "j_write" => jn <= CfgBlocks
    /\ buf \in Seq(Nat) /\ Len(buf) <= ChunksPerBlock
    /\ rd \in 1 .. ImageLen + 1
    /\ cfgLeft \in BOOLEAN /\ mtdofs \in Nat /\ jn \in 0 .. CfgBlocks + 1
    /\ readErr \in BOOLEAN
    /\ pc \in {"check", "pre_erase", "open", "set_erase", "set_write", "clr_erase",
               "clr_write", "fill", "have", "j_pad", "j_write", "room", "write",
               "fix_erase", "fix_write", "finish", "done", "off"}
    /\ result \in {"running", "ok", "failed"}


(***************************************************************************)
(* What the blocks hold.                                                   *)
(***************************************************************************)
Holds(b) == flash[b].kind \in {"data", "cfg"}

\* b comes before c in the order in which the image runs over the partitions.
Before(b, c) == b[1] < c[1] \/ (b[1] = c[1] /\ b[2] < c[2])

Dirty    == \E b \in Blocks : flash[b] # Old
Missing  == {c \in 1 .. ImageLen :
                /\ \A b \in Blocks : c \notin ChunksOn(b)
                /\ ~(Replaced /\ c >= EofChunk)}

\* The blocks of the configuration that are to take the place of image and are
\* nowhere on the flash.
Unsaved  == {i \in 1 .. CfgBlocks + 1 : Replaced /\ \A b \in Blocks : flash[b] # Cfg(i)}

\* With -j, pad() steps over every bad block of the partition.
BadIsSkipped == UseCfg => \A b \in bad : b[1] = part => b[2] < mtdsize

(***************************************************************************)
(* Properties                                                              *)
(***************************************************************************)
\* A block of the image or of the configuration only ever goes to a block that is
\* good and has been erased ("need to erase the next block before writing data to
\* it"), unless -t left pad() with a bad block that it does not step over.
NeverBlind ==
    pc \in {"write", "j_write"} /\ pos < Size[part] /\ BadIsSkipped
    => Here \notin bad /\ flash[Here] = Blank

\* At any moment, so whenever power fails, at most one block has been erased
\* and not yet written: the erase frontier does not run ahead of the data.
SingleGap ==
    \A b, c \in Blocks : flash[b] = Blank /\ flash[c] = Blank => b = c

\* When mtd returns 0 and its image file could be read to the end, every chunk
\* of the image is on the flash, or is covered by the appended configuration.
OkMeansStored == result = "ok" /\ ~readErr => Missing = {}

\* The image lies on the flash in its own order, across bad blocks and from
\* one partition to the next.
Ordered ==
    \A b, c \in Blocks : Before(b, c) =>
        \A x \in ChunksOn(b), y \in ChunksOn(c) : x < y

\* Between two written blocks of a partition only bad blocks are left out, so a
\* reader that skips bad blocks (mtd_dump, the boot loader) reads the image.
NoHole ==
    \A p \in Parts : \A i, j, k \in 0 .. Size[p] - 1 :
        i < j /\ j < k /\ Holds(<<p, i>>) /\ Holds(<<p, k>>)
        => Holds(<<p, j>>) \/ <<p, j>> \in bad

\* With -t, whenever the flash has been touched and does not hold the whole
\* image, the boot loader finds the recovery magic: after an error, after a
\* power cut, and while mtd runs.
FlagCoversTear ==
    UseFlag /\ Dirty /\ ~readErr /\ Missing # {} => flag = "recover"

\* With -t, no block is erased or written unless the recovery magic is in place.
FlashOnlyUnderFlag ==
    [][UseFlag /\ flash' # flash => flag = "recover"]_vars

\* What lies below the -p offset is left alone.
BelowOffsetKept ==
    \A b \in Blocks : b[2] < PartOffset => flash[b] = Old

\* When mtd returns 0 after it met the end marker, the whole configuration and
\* the new end marker are on the flash, with the same exception.
ConfigKept == result = "ok" /\ BadIsSkipped => Unsaved = {}

\* "Reboot after successful command": when mtd returns 0, and -r reboots into
\* the new system, the image is complete.
RebootOnlyAfterSuccess == result = "ok" => Missing = {}

\* mtd ends: every loop over the blocks makes progress.
Termination == <>(pc \in {"done", "off"})


(***************************************************************************)
(* What a caller sees of all this: FirmwareUpdate.                         *)
(***************************************************************************)
firmware == IF ~Dirty THEN "old"
            ELSE IF Missing = {} /\ Unsaved = {} THEN "new" ELSE "torn"
status   == IF pc = "off" THEN "off" ELSE result

Update == INSTANCE FirmwareUpdate WITH firmware <- firmware, status <- status

\* mtd implements FirmwareUpdate as long as its image file can be read and no header
\* is put right afterwards: from old over torn to new, and exit status 0 only with
\* the new image and the configuration that replaces the rest of it in place.
Implements == Update!Spec

=============================================================================
