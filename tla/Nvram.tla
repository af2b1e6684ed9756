------------------------------- MODULE Nvram -------------------------------
(***************************************************************************)
(* The nvram command (package/utils/nvram): variables of the boot loader,  *)
(* kept in a flash partition as a header and a list of name=value strings. *)
(*                                                                         *)
(* A writing command copies the partition to a staging file in tmpfs       *)
(* unless there is one, maps that file, reads the variables into a hash    *)
(* table, changes one and rewrites the whole list; "commit" then copies    *)
(* the file to the partition and removes it.  A reading command maps the   *)
(* staging file, or the partition if there is none.  There is no lock.     *)
(* While a string is read its '=' is overwritten in the mapping: readers   *)
(* must map privately, or the writer would take it for the end.            *)
(*                                                                         *)
(* One writing command runs at a time, as in the scripts that call it;     *)
(* readers come and go meanwhile.  Memory is counted in bytes, with the    *)
(* 20 bytes of the header left out.  Of a value two things are kept: its   *)
(* length, and the number that strtoul reads from it (on the 32 bit        *)
(* targets), which for the variables of the header is what counts and for  *)
(* the others only tells values apart.                                     *)
(***************************************************************************)
EXTENDS Integers, Sequences, SequencesExt

CONSTANTS
    Names,        \* the variables
    NameLen,      \* the length of each name
    Bucket,       \* hash(name) % NVRAM_ARRAYSIZE, counted from 1
    NBuckets,     \* NVRAM_ARRAYSIZE
    Backed,       \* sdram_init, ..., in the order of _nvram_rehash
    Short,        \* those of 16 bits in the header: all of them but sdram_ncdl
    MaxLen,       \* bound: the length of a value
    Inputs,       \* what variables are set to
    Default,      \* the header of SDRAM_INIT, ...
    Absent, Lost, \* no value; what is left of one half overwritten
    Size,         \* nvram_part_size - offset - header
    Headers,      \* headers the partition may begin with
    Contents,     \* lists it may begin with, each with its bytes
    Readers,
    Faults,       \* subset of FaultKinds
    MaxWrites     \* bound: writing commands

FaultKinds == {"power",   \* the device reboots or loses power
               "full"}    \* no room for the staging file

Sdram == {Backed[i] : i \in DOMAIN Backed}

Values == [num : Nat, len : 0 .. MaxLen]

\* The header's fields, crc_ver_init, config_refresh and config_ncdl cut up.
TwoTo16 == 65536
Word(n) == IF n \in Short THEN 0 .. TwoTo16 - 1 ELSE Nat
Header  == {h \in [Sdram -> Nat] : \A n \in Sdram : h[n] \in Word(n)}

ASSUME NvramAssumption ==
    /\ Backed \in Seq(Names)
    /\ NameLen \in [Names -> Nat \ {0}]
    /\ NBuckets \in Nat /\ Bucket \in [Names -> 1 .. NBuckets]
    /\ MaxLen \in Nat /\ MaxLen >= 10
    /\ Inputs \subseteq Values /\ Absent \notin Values
    /\ Default \in Header /\ Headers \subseteq Header
    /\ Size \in Nat /\ Size % 4 = 0
    /\ Contents \subseteq Seq(Names \X Values) \X Nat
    /\ \A c \in Contents :
          c[2] = FoldLeft(LAMBDA sum, t : sum + NameLen[t[1]] + t[2].len + 2, 0, c[1])
    /\ Faults \subseteq FaultKinds
    /\ MaxWrites \in Nat

VARIABLES
    flash,        \* the partition
    staging,      \* /tmp/.nvram
    masked,       \* strings whose '=' is overwritten, in either of them
    wpc, cmd,     \* the writing command: how far it is, what it was asked to do
    table,        \* nvram_hash
    idx,          \* the string, then the backed variable, that _nvram_rehash has reached
    reload,       \* the rehash is the one of nvram_commit
    at,           \* nvram_commit: bucket, place in it, and bytes written so far
    buf,          \* staging_to_nvram: buf
    writes,       \* bound: writing commands so far
    reader        \* the reading commands

writerVars == <<wpc, cmd, table, idx, reload, at, buf, writes>>
vars == <<flash, staging, masked, writerVars, reader>>
-----------------------------------------------------------------------------
(***************************************************************************)
(* The image and the table.  A file is "none", "empty" (created and not    *)
(* yet written), "open" (its list cleared and not yet written again), on   *)
(* flash "torn" (half overwritten), or "whole".                            *)
(***************************************************************************)
\* len is header->len, the 20 bytes of the header left out.
Image(st, hdr, list, len) == [st |-> st, hdr |-> hdr, list |-> list, len |-> len]
NoFile == Image("none", Default, <<>>, 0)

\* Bytes of "name=value" with its NUL.
Bytes(t) == NameLen[t[1]] + 1 + t[2].len + 1

\* header->len: the list, a NUL and another byte, rounded up.
Length(bytes) == ((bytes + 2 + 3) \div 4) * 4

EmptyTable == [i \in 1 .. NBuckets |-> <<>>]

\* The places of variable n in a list of strings.
Places(list, n) == {i \in DOMAIN list : list[i][1] = n}

Has(tab, n) == Places(tab[Bucket[n]], n) # {}
PlaceOf(tab, n) == CHOOSE i \in Places(tab[Bucket[n]], n) : TRUE
ValueIn(tab, n) == IF Has(tab, n) THEN tab[Bucket[n]][PlaceOf(tab, n)][2] ELSE Absent

\* nvram_set: a known name keeps its place, a new one goes to the front.
SetIn(tab, n, v) ==
    [tab EXCEPT ![Bucket[n]] =
        IF Has(tab, n) THEN [@ EXCEPT ![PlaceOf(tab, n)] = <<n, v>>] ELSE Cons(<<n, v>>, @)]

UnsetIn(tab, n) ==
    IF Has(tab, n) THEN [tab EXCEPT ![Bucket[n]] = RemoveAt(@, PlaceOf(tab, n))] ELSE tab

\* strtoul(value, NULL, 0), of which a short field keeps 16 bits.
Field(n, value) == IF n \in Short THEN value.num % TwoTo16 ELSE value.num

\* A field written out, with "0x%04X" or "0x%08X".
Hex(hdr, n) == [num |-> hdr[n], len |-> IF n \in Short THEN 6 ELSE 10]

\* Mutant: the header is left as it was.
HeaderOf_Kept(tab) ==
    IF \A n \in Sdram : Has(tab, n) THEN staging.hdr ELSE Default

\* nvram_commit: the header from the variables, or all of it from the defaults if one
\* of them is missing.
HeaderOf(tab) ==
    IF \A n \in Sdram : Has(tab, n)
    THEN [n \in Sdram |-> Field(n, ValueIn(tab, n))] ELSE Default
-----------------------------------------------------------------------------
NoCmd  == [op |-> "none", name |-> "", value |-> Absent, save |-> FALSE]
NoCopy == [st |-> "none"]
Begin  == [bucket |-> 1, place |-> 1, bytes |-> 0]

\* A reading command: how far it is, the variable, the file it has mapped, the string
\* it has reached, the private copy of the file's pages once it has one, the value
\* found, and a history: a writing command ran meanwhile.
NoReader == [pc |-> "idle", name |-> "", src |-> "flash", idx |-> 1, copy |-> NoCopy,
             found |-> Absent, overlap |-> FALSE]

Init ==
    /\ \E h \in Headers, c \in Contents : flash = Image("whole", h, c[1], Length(c[2]))
    /\ staging = NoFile
    /\ masked = [f \in {"flash", "staging"} |-> {}]
    /\ wpc = "idle" /\ cmd = NoCmd /\ table = EmptyTable /\ idx = 1
    /\ reload = FALSE /\ at = Begin /\ buf = NoFile /\ writes = 0
    /\ reader = [r \in Readers |-> NoReader]

\* set name=value, unset name, or neither, each with or without commit.
Commands ==
    [op : {"set"}, name : Names, value : Inputs, save : BOOLEAN]
    \cup [op : {"unset"}, name : Names, value : {Absent}, save : BOOLEAN]
    \cup [op : {"none"}, name : {""}, value : {Absent}, save : {TRUE}]

\* What a torn partition is taken for is left open: no command starts on one.
Start ==
    /\ wpc = "idle" /\ writes < MaxWrites /\ flash.st = "whole"
    /\ \E c \in Commands : cmd' = c
    /\ wpc' = "find" /\ writes' = writes + 1
    /\ reader' = [r \in Readers |-> IF reader[r] = NoReader THEN NoReader
                                     ELSE [reader[r] EXCEPT !.overlap = TRUE]]
    /\ UNCHANGED <<flash, staging, masked, table, idx, reload, at, buf>>

\* Its process ends.
WriterGone ==
    /\ wpc' = "idle" /\ cmd' = NoCmd /\ table' = EmptyTable /\ idx' = 1
    /\ reload' = FALSE /\ at' = Begin /\ buf' = NoFile

FindStaging ==
    /\ wpc = "find"
    /\ wpc' = IF staging.st = "none" THEN "create" ELSE "map"
    /\ UNCHANGED <<flash, staging, masked, cmd, table, idx, reload, at, buf, writes, reader>>

\* nvram_to_staging: the partition is read and the file created, then written; what
\* write returns is not looked at.
CreateStaging ==
    /\ wpc = "create"
    /\ buf' = flash
    /\ staging' = Image("empty", flash.hdr, <<>>, 0)
    /\ wpc' = "copy"
    /\ UNCHANGED <<flash, masked, cmd, table, idx, reload, at, writes, reader>>

CopyToStaging ==
    /\ wpc = "copy"
    /\ \/ staging' = buf
       \/ "full" \in Faults /\ UNCHANGED staging
    /\ wpc' = "map"
    /\ UNCHANGED <<flash, masked, cmd, table, idx, reload, at, buf, writes, reader>>

\* nvram_open: an empty file has no page to look at (SIGBUS), a full one is refused.
MapStaging ==
    /\ wpc = "map"
    /\ IF staging.st = "empty" \/ staging.len >= Size
       THEN WriterGone
       ELSE wpc' = "mask" /\ UNCHANGED <<cmd, table, idx, reload, at, buf>>
    /\ UNCHANGED <<flash, staging, masked, writes, reader>>

\* Mutant: the end of the list is not noticed.
MaskTuple_NoEnd ==
    /\ wpc = "mask"
    /\ IF idx <= Len(staging.list) + 1 /\ idx \notin masked["staging"]
       THEN /\ masked' = [masked EXCEPT !["staging"] = @ \cup {idx}]
            /\ wpc' = "unmask" /\ UNCHANGED idx
       ELSE wpc' = "fill" /\ idx' = 1 /\ UNCHANGED masked
    /\ UNCHANGED <<flash, staging, cmd, table, reload, at, buf, writes, reader>>

(***************************************************************************)
(* _nvram_rehash: the '=' is looked for and overwritten with a NUL, the    *)
(* variable is set, the '=' is put back.  A string without a '=' ends it.  *)
(* Then the variables that are missing come from the header, written out.  *)
(***************************************************************************)
MaskTuple ==
    /\ wpc = "mask"
    /\ IF idx \in DOMAIN staging.list /\ idx \notin masked["staging"]
       THEN /\ masked' = [masked EXCEPT !["staging"] = @ \cup {idx}]
            /\ wpc' = "unmask" /\ UNCHANGED idx
       ELSE wpc' = "fill" /\ idx' = 1 /\ UNCHANGED masked
    /\ UNCHANGED <<flash, staging, cmd, table, reload, at, buf, writes, reader>>

UnmaskTuple ==
    /\ wpc = "unmask"
    /\ table' = SetIn(table, staging.list[idx][1], staging.list[idx][2])
    /\ masked' = [masked EXCEPT !["staging"] = @ \ {idx}]
    /\ idx' = idx + 1 /\ wpc' = "mask"
    /\ UNCHANGED <<flash, staging, cmd, reload, at, buf, writes, reader>>

FillBacked ==
    /\ wpc = "fill"
    /\ IF idx \in DOMAIN Backed
       THEN LET n == Backed[idx] IN
            /\ table' = IF Has(table, n) THEN table ELSE SetIn(table, n, Hex(staging.hdr, n))
            /\ idx' = idx + 1 /\ UNCHANGED wpc
       ELSE wpc' = (IF reload THEN "close" ELSE "edit") /\ UNCHANGED <<table, idx>>
    /\ UNCHANGED <<flash, staging, masked, cmd, reload, at, buf, writes, reader>>

\* _nvram_realloc: a value as long as the partition is refused; the command goes on.
Fits(value) == value.len + 1 <= Size + 20

Edit ==
    /\ wpc = "edit"
    /\ table' = CASE cmd.op = "set" /\ Fits(cmd.value) -> SetIn(table, cmd.name, cmd.value)
                  [] cmd.op = "unset"                  -> UnsetIn(table, cmd.name)
                  [] OTHER                             -> table
    /\ wpc' = "clear"
    /\ UNCHANGED <<flash, staging, masked, cmd, idx, reload, at, buf, writes, reader>>

(***************************************************************************)
(* nvram_commit: the header, then the list, first cleared and then written *)
(* bucket by bucket; a bucket is left at the first string that does not    *)
(* fit with two bytes kept for the end.  The table is built again from it. *)
(***************************************************************************)
Clear ==
    /\ wpc = "clear"
    /\ staging' = Image("open", HeaderOf(table), <<>>, staging.len)
    /\ wpc' = "write" /\ at' = Begin
    /\ UNCHANGED <<flash, masked, cmd, table, idx, reload, buf, writes, reader>>

WriteTuple ==
    /\ wpc = "write" /\ at.bucket <= NBuckets
    /\ LET bucket == table[at.bucket]
           t      == bucket[at.place]
       IN  IF at.place \in DOMAIN bucket /\ at.bytes + Bytes(t) <= Size - 2
           THEN /\ staging' = [staging EXCEPT !.list = Append(@, t)]
                /\ at' = [at EXCEPT !.place = @ + 1, !.bytes = @ + Bytes(t)]
           ELSE /\ at' = [at EXCEPT !.bucket = @ + 1, !.place = 1]
                /\ UNCHANGED staging
    /\ UNCHANGED <<flash, masked, wpc, cmd, table, idx, reload, buf, writes, reader>>

EndList ==
    /\ wpc = "write" /\ at.bucket > NBuckets
    /\ staging' = [staging EXCEPT !.st = "whole", !.len = Length(at.bytes)]
    /\ wpc' = "written"
    /\ UNCHANGED <<flash, masked, cmd, table, idx, reload, at, buf, writes, reader>>

Reload ==
    /\ wpc = "written"
    /\ table' = EmptyTable /\ idx' = 1 /\ reload' = TRUE /\ wpc' = "mask"
    /\ UNCHANGED <<flash, staging, masked, cmd, at, buf, writes, reader>>

Close ==
    /\ wpc = "close"
    /\ IF cmd.save
       THEN wpc' = "read" /\ UNCHANGED <<cmd, table, idx, reload, at, buf>>
       ELSE WriterGone
    /\ UNCHANGED <<flash, staging, masked, writes, reader>>

\* staging_to_nvram.
ReadStaging ==
    /\ wpc = "read"
    /\ buf' = staging /\ wpc' = "save"
    /\ UNCHANGED <<flash, staging, masked, cmd, table, idx, reload, at, writes, reader>>

WriteFlash ==
    \/ /\ wpc = "save"
       /\ flash' = [flash EXCEPT !.st = "torn"]
       /\ wpc' = "saving"
       /\ UNCHANGED <<staging, masked, cmd, table, idx, reload, at, buf, writes, reader>>
    \/ /\ wpc = "saving"
       /\ flash' = buf
       /\ wpc' = "unlink"
       /\ UNCHANGED <<staging, masked, cmd, table, idx, reload, at, buf, writes, reader>>

\* A reader that has the file mapped keeps it, as it was.
Snapshot(f) ==
    LET c == IF f = "flash" THEN flash ELSE staging
    IN  [st |-> c.st, hdr |-> c.hdr, list |-> c.list, masked |-> masked[f]]

Unlink ==
    /\ wpc = "unlink"
    /\ staging' = NoFile /\ masked' = [masked EXCEPT !["staging"] = {}]
    /\ reader' = [r \in Readers |->
          IF /\ reader[r].pc \in {"mask", "unmask"}
             /\ reader[r].src = "staging" /\ reader[r].copy = NoCopy
          THEN [reader[r] EXCEPT !.copy = Snapshot("staging")] ELSE reader[r]]
    /\ WriterGone
    /\ UNCHANGED <<flash, writes>>
-----------------------------------------------------------------------------
\* Mutant: readers map the file shared, as writers do.
PrivateMap_Shared == FALSE

(***************************************************************************)
(* nvram get.  The mapping is private: the first write of the reader to it *)
(* gives it a copy of its own, which nobody else sees.                     *)
(***************************************************************************)
PrivateMap == TRUE

ReaderGone(r) == reader' = [reader EXCEPT ![r] = NoReader]

\* Mutant: readers do not look for the staging file.
FindSource_FlashOnly(r) ==
    /\ reader[r].pc = "idle" /\ flash.st = "whole"
    /\ \E n \in Names :
          reader' = [reader EXCEPT ![r] = [NoReader EXCEPT
              !.pc = "map", !.name = n, !.overlap = wpc # "idle",
              !.src = "flash"]]
    /\ UNCHANGED <<flash, staging, masked, writerVars>>

FindSource(r) ==
    /\ reader[r].pc = "idle" /\ flash.st = "whole"
    /\ \E n \in Names :
          reader' = [reader EXCEPT ![r] = [NoReader EXCEPT
              !.pc = "map", !.name = n, !.overlap = wpc # "idle",
              !.src = IF staging.st = "none" THEN "flash" ELSE "staging"]]
    /\ UNCHANGED <<flash, staging, masked, writerVars>>

MapSource(r) ==
    /\ reader[r].pc = "map"
    /\ IF reader[r].src = "staging" /\ staging.st \in {"none", "empty"}
       THEN ReaderGone(r)
       ELSE reader' = [reader EXCEPT ![r].pc = "mask"]
    /\ UNCHANGED <<flash, staging, masked, writerVars>>

View(r) == IF reader[r].copy = NoCopy THEN Snapshot(reader[r].src) ELSE reader[r].copy

AtEnd(r) == reader[r].idx \notin DOMAIN View(r).list \ View(r).masked

\* The end of the list: a missing variable may be in the header.  In a list that is
\* being rewritten the search for a '=' may also run past the end of the mapping.
ReadEnds(r) ==
    /\ reader[r].pc = "mask" /\ AtEnd(r)
    /\ \/ reader' = [reader EXCEPT ![r].pc = "answer", ![r].found =
              IF @ = Absent /\ reader[r].name \in Sdram
              THEN Hex(View(r).hdr, reader[r].name) ELSE @]
       \/ View(r).st \in {"open", "torn"} /\ ReaderGone(r)
    /\ UNCHANGED <<flash, staging, masked, writerVars>>

ReadTuple(r) ==
    LET t == View(r).list[reader[r].idx] IN
    /\ reader[r].pc = "mask" /\ ~AtEnd(r)
    /\ reader' = [reader EXCEPT ![r].pc = "unmask",
          ![r].found = IF t[1] = reader[r].name THEN t[2] ELSE @,
          ![r].copy = IF PrivateMap THEN View(r) ELSE @]
    /\ masked' = IF PrivateMap THEN masked
                 ELSE [masked EXCEPT ![reader[r].src] = @ \cup {reader[r].idx}]
    /\ UNCHANGED <<flash, staging, writerVars>>

ReadOn(r) ==
    /\ reader[r].pc = "unmask"
    /\ reader' = [reader EXCEPT ![r].pc = "mask", ![r].idx = @ + 1]
    /\ masked' = IF PrivateMap THEN masked
                 ELSE [masked EXCEPT ![reader[r].src] = @ \ {reader[r].idx}]
    /\ UNCHANGED <<flash, staging, writerVars>>

Answer(r) ==
    /\ reader[r].pc = "answer"
    /\ ReaderGone(r)
    /\ UNCHANGED <<flash, staging, masked, writerVars>>
-----------------------------------------------------------------------------
\* tmpfs and every process are gone, the partition stays as it is.
Reboot ==
    /\ "power" \in Faults
    /\ staging' = NoFile
    /\ masked' = [f \in {"flash", "staging"} |-> {}]
    /\ reader' = [r \in Readers |-> NoReader]
    /\ WriterGone
    /\ UNCHANGED <<flash, writes>>

Writer ==
    \/ Start \/ FindStaging \/ CreateStaging \/ CopyToStaging \/ MapStaging
    \/ MaskTuple \/ UnmaskTuple \/ FillBacked \/ Edit \/ Clear \/ WriteTuple \/ EndList
    \/ Reload \/ Close
    \/ ReadStaging \/ WriteFlash \/ Unlink

Reader(r) ==
    FindSource(r) \/ MapSource(r) \/ ReadEnds(r) \/ ReadTuple(r) \/ ReadOn(r) \/ Answer(r)

Next == Writer \/ Reboot \/ \E r \in Readers : Reader(r)

Spec == Init /\ [][Next]_vars
-----------------------------------------------------------------------------
\* What a file says: the last string of a name, and the header for what is missing.
LastPlace(list, n) == CHOOSE i \in Places(list, n) : \A j \in Places(list, n) : j <= i

Vars(c) ==
    [n \in Names |->
        IF Places(c.list, n) # {} THEN c.list[LastPlace(c.list, n)][2]
        ELSE IF n \in Sdram THEN Hex(c.hdr, n) ELSE Absent]

\* What it will say once the table is written to it.
Coming(hdr, tab) ==
    [n \in Names |->
        IF Has(tab, n) THEN ValueIn(tab, n) ELSE IF n \in Sdram THEN Hex(hdr, n) ELSE Absent]

saved == IF flash.st = "torn" THEN [n \in Names |-> Lost] ELSE Vars(flash)

cur ==
    CASE staging.st = "whole" -> Vars(staging)
      [] staging.st = "open"  -> Coming(staging.hdr, table)
      [] OTHER -> saved

Files == [st : {"none", "empty", "open", "torn", "whole"}, hdr : Header,
          list : Seq(Names \X Values), len : Nat]

TypeOK ==
    /\ flash \in Files /\ staging \in Files /\ buf \in Files
    /\ flash.st \in {"whole", "torn"} /\ staging.st # "torn"
    /\ masked \in [{"flash", "staging"} -> SUBSET (Nat \ {0})]
    /\ wpc \in {"idle", "find", "create", "copy", "map", "mask", "unmask", "fill", "edit",
                "clear", "write", "written", "close", "read", "save", "saving", "unlink"}
    /\ cmd \in Commands \cup {NoCmd}
    /\ table \in [1 .. NBuckets -> Seq(Names \X Values)]
    /\ idx \in Nat \ {0} /\ reload \in BOOLEAN /\ writes \in 0 .. MaxWrites
    /\ at \in [bucket : 1 .. NBuckets + 1, place : Nat \ {0}, bytes : Nat]
    /\ wpc = "unmask" => idx \in DOMAIN staging.list
    /\ \A r \in Readers :
          /\ reader[r].pc \in {"idle", "map", "mask", "unmask", "answer"}
          /\ reader[r].name \in Names \cup {""}
          /\ reader[r].src \in {"flash", "staging"} /\ reader[r].idx \in Nat \ {0}
          /\ reader[r].found \in Values \cup {Absent}
          /\ reader[r].pc = "unmask" => reader[r].idx \in DOMAIN View(r).list

\* Seen by its callers nvram is NvramStore, readers and power cuts included: no
\* variable is lost or changed but by the command that names it.
Store == INSTANCE NvramStore
             WITH Unset <- [n \in Sdram |-> Hex(Default, n)], cur <- cur, saved <- saved
Implements == Store!Spec

\* A reader that no writer ran beside says what was set last, whether it is in the
\* staging file, in the partition or in the header.
ReadsCurrent ==
    \A r \in Readers :
        reader[r].pc = "answer" /\ ~reader[r].overlap => reader[r].found = cur[reader[r].name]

\* The header, from which the boot loader sets up the memory, has the numbers that the
\* variables say, cut to its fields, after every writing command that did not unset
\* one of them, even if one before it left them at odds.
HeaderAgrees ==
    wpc = "written" /\ ~(cmd.op = "unset" /\ cmd.name \in Sdram) =>
        \A n \in Sdram : staging.hdr[n] = Field(n, ValueIn(table, n))

\* "Write out all tuples" (nvram.c:299): what the table has is in the list.
AllWritten ==
    wpc = "written" => \A n \in Names : Has(table, n) => Places(staging.list, n) # {}
=============================================================================
