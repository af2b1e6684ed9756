-------------------------- MODULE SysupgradeProofs --------------------------
(***************************************************************************)
(* What holds of an upgrade for images and volumes of any size, and for    *)
(* any number of power cuts and failing tools: the script orders a restart *)
(* only into what it was given; nothing of the old settings is left that   *)
(* was not to be kept; and, until something fails, the settings survive    *)
(* and the device starts again at the moments the two properties name.     *)
(***************************************************************************)
EXTENDS Sysupgrade, TLAPS

Nor == board.kind = "nor"

VolumePlaces ==
    {"attach", "block", "rm_kernel", "rm_root", "rm_data", "mk_kernel", "mk_root",
     "mk_data", "write_kernel", "writing_kernel", "write_root", "writing_root"}
FormatPlaces == {"format", "formatting"}
RestorePlaces == {"restore", "extract", "sync"}
NorPlaces == {"idle", "stage2", "mtd", "stopped", "rebooting", "off", "dead", "up"}
                \cup RestorePlaces
Places == NorPlaces \cup VolumePlaces \cup FormatPlaces \cup {"success", "restore_conf"}

\* Where the upgrade is, and what it has found out before.
WayInv ==
    /\ pc \in Places
    /\ image.form = "mtd" <=> Nor
    /\ Nor => pc \in NorPlaces
    /\ image.form = "ubi" => pc \notin VolumePlaces \cup {"mtd"}
    /\ pc = "formatting" => UbiFits
    /\ pc = "writing_kernel" => vol["kernel"] # "none"
    /\ pc = "writing_root" => vol["root"] # "none"
    /\ status = "ok" => firmware \in {"new", "short"}
    /\ Nor /\ pc = "rebooting" => firmware \in {"new", "short"}

\* Volumes are removed before any is written, so that nothing is left of the old
\* settings when the root is new.
Emptied ==
    {"mk_kernel", "mk_root", "mk_data", "write_kernel", "writing_kernel", "write_root",
     "writing_root", "formatting"}

ForgetInv ==
    ~keep =>
        /\ ~archive /\ "tgz" \notin overlay
        /\ pc \notin RestorePlaces \cup {"restore_conf"}
        /\ Nor /\ image.tail # "none" /\ firmware = "new" => "settings" \notin overlay
        /\ ~Nor /\ faults = 0 =>
              /\ ubi # "held"
              /\ pc = "rm_data" /\ vol["data"] = "none" => "settings" \notin overlay
              /\ pc \in Emptied => "settings" \notin overlay
              /\ vol["root"] = "new" => "settings" \notin overlay

\* No power cut and no failure yet, and the image suits the board.
Calm == Suits /\ faults = 0 /\ cuts = 0

FirmwareInv ==
    /\ status \in {"running", "ok"} /\ pc \notin {"stopped", "dead"} /\ ubi # "held"
    /\ pc \in {"idle", "stage2"} => status = "running" /\ firmware = "old"
    /\ status = "ok" => firmware = "new"
    /\ Nor /\ pc \notin {"idle", "stage2", "mtd"} => firmware = "new"
    /\ ~Nor /\ pc # "mtd" => There(firmware)

\* The old system is whole until the first volume is removed, the new one from the
\* last write on; in between the volumes come one by one.
OldPlaces == {"idle", "stage2", "mtd", "attach", "block", "rm_kernel", "format"}
NewPlaces == {"success", "restore_conf", "rebooting", "off", "up"} \cup RestorePlaces

Kernel(content) == board.kind = "nand" => vol["kernel"] = content
KernelSize == IF HasKernel THEN image.kernel ELSE 0

VolumeInv ==
    /\ pc \in OldPlaces => vol["root"] = "old" /\ Kernel("old")
    /\ board.fs = "squashfs" /\ pc \in OldPlaces \cup {"rm_root", "rm_data"} =>
          vol["data"] = "old"
    /\ pc \in {"rm_root", "rm_data", "mk_kernel"} => vol["kernel"] = "none"
    /\ pc \in {"rm_data", "mk_kernel", "mk_root"} => vol["root"] = "none"
    /\ pc \in {"mk_kernel", "mk_root", "mk_data"} => vol["data"] = "none"
    /\ pc \in {"mk_root", "mk_data", "write_kernel", "writing_kernel"} =>
          size["kernel"] = KernelSize
    /\ pc = "mk_data" => (image.fs = "squashfs" => size["root"] = image.root)
    /\ pc \in {"mk_data", "write_kernel", "writing_kernel", "write_root", "writing_root"} =>
          vol["root"] # "none" /\ image.root <= size["root"]
    /\ pc \in {"write_kernel", "writing_kernel", "write_root", "writing_root", "success",
               "restore_conf"} =>
          vol["data"] = IF image.fs = "squashfs" THEN "empty" ELSE "none"
    /\ pc \in {"write_root", "writing_root"} => Kernel("new")
    /\ pc \in NewPlaces => vol["root"] = "new" /\ Kernel("new")

\* The settings, or the archive of them, where they can be kept.
SettingsInv ==
    /\ pc \in VolumePlaces \cup FormatPlaces \cup {"stage2", "mtd", "success", "restore_conf"}
          => archive
    /\ pc \in {"idle", "stage2", "attach", "block", "rm_kernel", "rm_root", "format",
               "sync", "up"}
          => "settings" \in overlay
    /\ board.fs = "squashfs" /\ pc = "rm_data" => "settings" \in overlay
    /\ ~Nor /\ pc = "mtd" => "settings" \in overlay
    /\ pc \in {"rebooting", "off", "restore"} => "tgz" \in overlay
    /\ Nor /\ pc = "mtd" /\ firmware = "new" => "tgz" \in overlay

CalmInv ==
    Calm => /\ FirmwareInv
            /\ ~Nor => VolumeInv
            /\ keep /\ Keepable => SettingsInv

\* The type invariant in two halves.
PlainTypes ==
    /\ board \in [kind : {"nor", "nand", "nandk"}, fs : {"squashfs", "ubifs"}]
    /\ image \in Images /\ keep \in BOOLEAN /\ archive \in BOOLEAN
    /\ firmware \in {"old", "torn", "short", "new"}
    /\ status \in {"running", "ok", "failed", "off"}
    /\ ubi \in {"attached", "detached", "held"}
    /\ overlay \subseteq {"settings", "tgz"}
    /\ cuts \in 0 .. MaxCuts /\ faults \in 0 .. MaxFaults

VolumeTypes ==
    /\ vol \in [Names -> Contents] /\ size \in [Names -> 0 .. Blocks] /\ Free >= 0
    /\ \A n \in Names : vol[n] = "none" <=> size[n] = 0

LEMMA TwoHalves == TypeOK <=> PlainTypes /\ VolumeTypes
BY DEF TypeOK, PlainTypes, VolumeTypes

LEMMA ImageFacts ==
    ASSUME TypeOK
    PROVE  /\ image.form \in {"mtd", "tar", "ubi", "ubifs"}
           /\ image.kernel \in Nat
           /\ image.root \in Nat /\ image.root > 0
           /\ image.fs \in {"squashfs", "ubifs"}
           /\ image.tail \in {"none", "marker", "room"}
           /\ image.form = "ubifs" => image.kernel = 0 /\ image.fs = "ubifs"
           /\ board.fs \in {"squashfs", "ubifs"}
           /\ board.kind \in {"nor", "nand", "nandk"}
           /\ Blocks \in Nat /\ Blocks > 2 /\ MaxCuts \in Nat /\ MaxFaults \in Nat
BY UpgradeAssumption DEF TypeOK

LEMMA SizeFacts ==
    ASSUME TypeOK
    PROVE  /\ \A n \in Names : size[n] \in Nat
           /\ Free \in Nat /\ Free <= Blocks
           /\ size["kernel"] + size["root"] + size["data"] + Free = Blocks
BY ImageFacts DEF TypeOK, Free, Names

\* Single values.
LEMMA PlainStep ==
    ASSUME TypeOK, PlainTypes, WayInv, [Next]_vars
    PROVE  PlainTypes'
<1>1. CASE Sysupgrade
  <2>1. overlay' \subseteq {"settings", "tgz"}
    BY <1>1 DEF PlainTypes, WayInv, Sysupgrade, Go, Fault, fixed, flash
  <2>2. archive' \in BOOLEAN
    BY <1>1 DEF PlainTypes, WayInv, Sysupgrade, Go, Fault, fixed, flash
  <2>3. /\ UNCHANGED fixed /\ cuts' \in 0 .. MaxCuts /\ faults' \in 0 .. MaxFaults
        /\ firmware' \in {"old", "torn", "short", "new"}
        /\ status' \in {"running", "ok", "failed", "off"}
        /\ ubi' \in {"attached", "detached", "held"}
    BY <1>1, ImageFacts DEF PlainTypes, WayInv, Sysupgrade, Go, Fault, fixed, flash
  <2> QED
    BY <2>1, <2>2, <2>3 DEF PlainTypes, fixed
<1>2. CASE Stage2
  BY <1>2, ImageFacts
     DEF PlainTypes, WayInv, Stage2, Way, Go, Fault, fixed, flash
<1>3. CASE MtdRuns
  <2>1. overlay' \subseteq {"settings", "tgz"}
    BY <1>3 DEF PlainTypes, WayInv, MtdRuns, Behind, AppendFails, CutShort, Go, Fault,
       fixed, Mtd!Tear, Mtd!Install, Mtd!Succeed, Mtd!GiveUp, Mtd!Progress, Mtd!End
  <2>2. archive' \in BOOLEAN
    BY <1>3 DEF PlainTypes, WayInv, MtdRuns, CutShort, Go, Fault, fixed, Mtd!Tear,
       Mtd!Install, Mtd!Succeed, Mtd!GiveUp, Mtd!Progress, Mtd!End
  <2>3. /\ UNCHANGED fixed /\ cuts' \in 0 .. MaxCuts /\ faults' \in 0 .. MaxFaults
        /\ firmware' \in {"old", "torn", "short", "new"}
        /\ status' \in {"running", "ok", "failed", "off"}
        /\ ubi' \in {"attached", "detached", "held"}
    BY <1>3, ImageFacts DEF PlainTypes, WayInv, MtdRuns, AppendFails, CutShort, Go, Fault, fixed,
       Mtd!Tear, Mtd!Install, Mtd!Succeed, Mtd!GiveUp, Mtd!Progress, Mtd!End
  <2> QED
    BY <2>1, <2>2, <2>3 DEF PlainTypes, fixed
<1>4. CASE MtdEnded
  BY <1>4, ImageFacts
     DEF PlainTypes, WayInv, MtdEnded, Go, fixed, flash
<1>5. CASE Attach
  <2>1. overlay' \subseteq {"settings", "tgz"}
    BY <1>5 DEF PlainTypes, WayInv, Attach, Go, Fault, fixed
  <2>2. archive' \in BOOLEAN
    BY <1>5 DEF PlainTypes, WayInv, Attach, Go, Fault, fixed
  <2>3. /\ UNCHANGED fixed /\ cuts' \in 0 .. MaxCuts /\ faults' \in 0 .. MaxFaults
        /\ firmware' \in {"old", "torn", "short", "new"}
        /\ status' \in {"running", "ok", "failed", "off"}
        /\ ubi' \in {"attached", "detached", "held"}
    BY <1>5, ImageFacts DEF PlainTypes, WayInv, Attach, Go, Fault, fixed
  <2> QED
    BY <2>1, <2>2, <2>3 DEF PlainTypes, fixed
<1>6. CASE Unblock
  BY <1>6, ImageFacts
     DEF PlainTypes, WayInv, Unblock, Go, Fault, fixed
<1>7. CASE Remove("kernel", "rm_kernel", "rm_root")
  <2>1. overlay' \subseteq {"settings", "tgz"}
    BY <1>7 DEF PlainTypes, WayInv, Remove, Go, Fault, fixed, Home
  <2>2. archive' \in BOOLEAN
    BY <1>7 DEF PlainTypes, WayInv, Remove, Go, Fault, fixed, Home
  <2>3. /\ UNCHANGED fixed /\ cuts' \in 0 .. MaxCuts /\ faults' \in 0 .. MaxFaults
        /\ firmware' \in {"old", "torn", "short", "new"}
        /\ status' \in {"running", "ok", "failed", "off"}
        /\ ubi' \in {"attached", "detached", "held"}
    BY <1>7, ImageFacts DEF PlainTypes, WayInv, Remove, Go, Fault, fixed, Home
  <2> QED
    BY <2>1, <2>2, <2>3 DEF PlainTypes, fixed
<1>8. CASE Remove("root", "rm_root", "rm_data")
  <2>1. overlay' \subseteq {"settings", "tgz"}
    BY <1>8 DEF PlainTypes, WayInv, Remove, Go, Fault, fixed, Home
  <2>2. archive' \in BOOLEAN
    BY <1>8 DEF PlainTypes, WayInv, Remove, Go, Fault, fixed, Home
  <2>3. /\ UNCHANGED fixed /\ cuts' \in 0 .. MaxCuts /\ faults' \in 0 .. MaxFaults
        /\ firmware' \in {"old", "torn", "short", "new"}
        /\ status' \in {"running", "ok", "failed", "off"}
        /\ ubi' \in {"attached", "detached", "held"}
    BY <1>8, ImageFacts DEF PlainTypes, WayInv, Remove, Go, Fault, fixed, Home
  <2> QED
    BY <2>1, <2>2, <2>3 DEF PlainTypes, fixed
<1>9. CASE Remove("data", "rm_data", "mk_kernel")
  <2>1. overlay' \subseteq {"settings", "tgz"}
    BY <1>9 DEF PlainTypes, WayInv, Remove, Go, Fault, fixed, Home
  <2>2. archive' \in BOOLEAN
    BY <1>9 DEF PlainTypes, WayInv, Remove, Go, Fault, fixed, Home
  <2>3. /\ UNCHANGED fixed /\ cuts' \in 0 .. MaxCuts /\ faults' \in 0 .. MaxFaults
        /\ firmware' \in {"old", "torn", "short", "new"}
        /\ status' \in {"running", "ok", "failed", "off"}
        /\ ubi' \in {"attached", "detached", "held"}
    BY <1>9, ImageFacts DEF PlainTypes, WayInv, Remove, Go, Fault, fixed, Home
  <2> QED
    BY <2>1, <2>2, <2>3 DEF PlainTypes, fixed
<1>10. CASE Make("kernel", HasKernel, image.kernel,
               "mk_kernel", "mk_root")
  BY <1>10, ImageFacts
     DEF PlainTypes, WayInv, Make, Go, Fault, fixed
<1>11. CASE Make("root", TRUE, IF image.fs = "ubifs" THEN Free ELSE image.root,
               "mk_root", "mk_data")
  BY <1>11, ImageFacts
     DEF PlainTypes, WayInv, Make, Go, Fault, fixed
<1>12. CASE Make("data", image.fs # "ubifs", Free,
               "mk_data", "write_kernel")
  BY <1>12, ImageFacts
     DEF PlainTypes, WayInv, Make, Go, Fault, fixed
<1>13. CASE Open("kernel", HasKernel, image.kernel,
               "write_kernel", "writing_kernel", "write_root")
  BY <1>13, ImageFacts
     DEF PlainTypes, WayInv, Open, Go, fixed, Home
<1>14. CASE Close("kernel", "writing_kernel", "write_root")
  BY <1>14, ImageFacts
     DEF PlainTypes, WayInv, Close, Go, Fault, fixed
<1>15. CASE Open("root", TRUE, image.root, "write_root", "writing_root", "success")
  BY <1>15, ImageFacts
     DEF PlainTypes, WayInv, Open, Go, fixed, Home
<1>16. CASE Close("root", "writing_root", "success")
  BY <1>16, ImageFacts
     DEF PlainTypes, WayInv, Close, Go, Fault, fixed
<1>17. CASE Format
  <2>1. overlay' \subseteq {"settings", "tgz"}
    BY <1>17 DEF PlainTypes, WayInv, Format, Go, Fault, fixed
  <2>2. archive' \in BOOLEAN
    BY <1>17 DEF PlainTypes, WayInv, Format, Go, Fault, fixed
  <2>3. /\ UNCHANGED fixed /\ cuts' \in 0 .. MaxCuts /\ faults' \in 0 .. MaxFaults
        /\ firmware' \in {"old", "torn", "short", "new"}
        /\ status' \in {"running", "ok", "failed", "off"}
        /\ ubi' \in {"attached", "detached", "held"}
    BY <1>17, ImageFacts DEF PlainTypes, WayInv, Format, Go, Fault, fixed
  <2> QED
    BY <2>1, <2>2, <2>3 DEF PlainTypes, fixed
<1>18. CASE Formatted
  BY <1>18, ImageFacts
     DEF PlainTypes, WayInv, Formatted, Go, Fault, fixed
<1>19. CASE Success
  BY <1>19, ImageFacts
     DEF PlainTypes, WayInv, Success, Go, fixed, flash
<1>20. CASE RestoreConf
  <2>1. overlay' \subseteq {"settings", "tgz"}
    BY <1>20 DEF PlainTypes, WayInv, RestoreConf, Mountable, Home, Go, Fault, fixed
  <2>2. archive' \in BOOLEAN
    BY <1>20 DEF PlainTypes, WayInv, RestoreConf, Mountable, Home, Go, Fault, fixed
  <2>3. /\ UNCHANGED fixed /\ cuts' \in 0 .. MaxCuts /\ faults' \in 0 .. MaxFaults
        /\ firmware' \in {"old", "torn", "short", "new"}
        /\ status' \in {"running", "ok", "failed", "off"}
        /\ ubi' \in {"attached", "detached", "held"}
    BY <1>20, ImageFacts DEF PlainTypes, WayInv, RestoreConf, Mountable, Home, Go,
       Fault, fixed
  <2> QED
    BY <2>1, <2>2, <2>3 DEF PlainTypes, fixed
<1>21. CASE Reboot
  BY <1>21, ImageFacts
     DEF PlainTypes, WayInv, Reboot, Go, fixed, flash
<1>22. CASE Boot
  BY <1>22, ImageFacts
     DEF PlainTypes, WayInv, Boot, Bootable, There, Go, fixed, flash
<1>23. CASE Move
  BY <1>23, ImageFacts
     DEF PlainTypes, WayInv, Move, Go, fixed
<1>24. CASE Extract
  <2>1. overlay' \subseteq {"settings", "tgz"}
    BY <1>24 DEF PlainTypes, WayInv, Extract, Go, Fault, fixed
  <2>2. archive' \in BOOLEAN
    BY <1>24 DEF PlainTypes, WayInv, Extract, Go, Fault, fixed
  <2>3. /\ UNCHANGED fixed /\ cuts' \in 0 .. MaxCuts /\ faults' \in 0 .. MaxFaults
        /\ firmware' \in {"old", "torn", "short", "new"}
        /\ status' \in {"running", "ok", "failed", "off"}
        /\ ubi' \in {"attached", "detached", "held"}
    BY <1>24, ImageFacts DEF PlainTypes, WayInv, Extract, Go, Fault, fixed
  <2> QED
    BY <2>1, <2>2, <2>3 DEF PlainTypes, fixed
<1>25. CASE Sync
  BY <1>25, ImageFacts
     DEF PlainTypes, WayInv, Sync, Go, fixed, flash
<1>26. CASE PowerCut
  <2>1. overlay' \subseteq {"settings", "tgz"}
    BY <1>26 DEF PlainTypes, WayInv, PowerCut, Persisted, Behind, fixed, Mtd!Lose, Mtd!End
  <2>2. archive' \in BOOLEAN
    BY <1>26 DEF PlainTypes, WayInv, PowerCut, Persisted, fixed, Mtd!Lose, Mtd!End
  <2>3. /\ UNCHANGED fixed /\ cuts' \in 0 .. MaxCuts /\ faults' \in 0 .. MaxFaults
        /\ firmware' \in {"old", "torn", "short", "new"}
        /\ status' \in {"running", "ok", "failed", "off"}
        /\ ubi' \in {"attached", "detached", "held"}
    BY <1>26, ImageFacts DEF PlainTypes, WayInv, PowerCut, Persisted, fixed,
       Mtd!Lose, Mtd!End
  <2> QED
    BY <2>1, <2>2, <2>3 DEF PlainTypes, fixed
<1>27. CASE UNCHANGED vars
  BY <1>27 DEF vars, fixed, flash, PlainTypes, WayInv
<1> QED
  BY <1>1, <1>2, <1>3, <1>4, <1>5, <1>6, <1>7, <1>8, <1>9, <1>10, <1>11, <1>12, <1>13, <1>14, <1>15, <1>16, <1>17, <1>18, <1>19, <1>20, <1>21, <1>22, <1>23, <1>24, <1>25, <1>26, <1>27
     DEF Next, Step, Kill, Create, WriteVolumes

\* The bounds of sizes come from what the tools compare.
LEMMA VolumeStep ==
    ASSUME TypeOK, VolumeTypes, WayInv, [Next]_vars
    PROVE  VolumeTypes'
<1>1. CASE Sysupgrade
  BY <1>1, ImageFacts, SizeFacts
     DEF VolumeTypes, WayInv, UbiFits, UbiKernel, Names, Contents, Free, Sysupgrade,
         Go, Fault, fixed, flash
<1>2. CASE Stage2
  BY <1>2, ImageFacts, SizeFacts
     DEF VolumeTypes, WayInv, UbiFits, UbiKernel, Names, Contents, Free, Stage2,
         Way, Go, Fault, fixed, flash
<1>3. CASE MtdRuns
  BY <1>3, ImageFacts, SizeFacts
     DEF VolumeTypes, WayInv, UbiFits, UbiKernel, Names, Contents, Free, MtdRuns, AppendFails,
         CutShort, Go, Fault, fixed, Mtd!Tear, Mtd!Install, Mtd!Succeed, Mtd!GiveUp,
         Mtd!Progress, Mtd!End
<1>4. CASE MtdEnded
  BY <1>4, ImageFacts, SizeFacts
     DEF VolumeTypes, WayInv, UbiFits, UbiKernel, Names, Contents, Free, MtdEnded,
         Go, fixed, flash
<1>5. CASE Attach
  BY <1>5, ImageFacts, SizeFacts
     DEF VolumeTypes, WayInv, UbiFits, UbiKernel, Names, Contents, Free, Attach, Go,
         Fault, fixed
<1>6. CASE Unblock
  BY <1>6, ImageFacts, SizeFacts
     DEF VolumeTypes, WayInv, UbiFits, UbiKernel, Names, Contents, Free, Unblock,
         Go, Fault, fixed
<1>7. CASE Remove("kernel", "rm_kernel", "rm_root")
  BY <1>7, ImageFacts, SizeFacts
     DEF VolumeTypes, WayInv, UbiFits, UbiKernel, Names, Contents, Free, Remove, Go,
         Fault, fixed, Home
<1>8. CASE Remove("root", "rm_root", "rm_data")
  BY <1>8, ImageFacts, SizeFacts
     DEF VolumeTypes, WayInv, UbiFits, UbiKernel, Names, Contents, Free, Remove, Go,
         Fault, fixed, Home
<1>9. CASE Remove("data", "rm_data", "mk_kernel")
  BY <1>9, ImageFacts, SizeFacts
     DEF VolumeTypes, WayInv, UbiFits, UbiKernel, Names, Contents, Free, Remove, Go,
         Fault, fixed, Home
<1>10. CASE Make("kernel", HasKernel, image.kernel,
               "mk_kernel", "mk_root")
  BY <1>10, ImageFacts, SizeFacts
     DEF VolumeTypes, WayInv, UbiFits, UbiKernel, Names, Contents, Free, Make, Go,
         Fault, fixed
<1>11. CASE Make("root", TRUE, IF image.fs = "ubifs" THEN Free ELSE image.root,
               "mk_root", "mk_data")
  BY <1>11, ImageFacts, SizeFacts
     DEF VolumeTypes, WayInv, UbiFits, UbiKernel, Names, Contents, Free, Make, Go,
         Fault, fixed
<1>12. CASE Make("data", image.fs # "ubifs", Free,
               "mk_data", "write_kernel")
  BY <1>12, ImageFacts, SizeFacts
     DEF VolumeTypes, WayInv, UbiFits, UbiKernel, Names, Contents, Free, Make, Go,
         Fault, fixed
<1>13. CASE Open("kernel", HasKernel, image.kernel,
               "write_kernel", "writing_kernel", "write_root")
  BY <1>13, ImageFacts, SizeFacts
     DEF VolumeTypes, WayInv, UbiFits, UbiKernel, Names, Contents, Free, Open, Go,
         fixed, Home
<1>14. CASE Close("kernel", "writing_kernel", "write_root")
  BY <1>14, ImageFacts, SizeFacts
     DEF VolumeTypes, WayInv, UbiFits, UbiKernel, Names, Contents, Free, Close, Go,
         Fault, fixed
<1>15. CASE Open("root", TRUE, image.root, "write_root", "writing_root", "success")
  BY <1>15, ImageFacts, SizeFacts
     DEF VolumeTypes, WayInv, UbiFits, UbiKernel, Names, Contents, Free, Open, Go,
         fixed, Home
<1>16. CASE Close("root", "writing_root", "success")
  BY <1>16, ImageFacts, SizeFacts
     DEF VolumeTypes, WayInv, UbiFits, UbiKernel, Names, Contents, Free, Close, Go,
         Fault, fixed
<1>17. CASE Format
  BY <1>17, ImageFacts, SizeFacts
     DEF VolumeTypes, WayInv, UbiFits, UbiKernel, Names, Contents, Free, Format, Go,
         Fault, fixed
<1>18. CASE Formatted
  <2> USE <1>18, ImageFacts, SizeFacts DEF Formatted
  <2>1. CASE UNCHANGED <<vol, size>>
    BY <2>1 DEF VolumeTypes, Free, Names
  <2>2. CASE /\ size' = IF image.fs = "ubifs"
                        THEN [kernel |-> UbiKernel, root |-> Blocks - UbiKernel, data |-> 0]
                        ELSE [kernel |-> UbiKernel, root |-> image.root,
                              data |-> Blocks - UbiKernel - image.root]
             /\ vol' = [n \in Names |-> IF size'[n] = 0 THEN "none"
                                       ELSE IF n = "data" THEN "empty" ELSE "new"]
    <3>1. /\ UbiKernel \in Nat /\ UbiKernel + image.root <= Blocks
          /\ image.fs = "squashfs" => UbiKernel + image.root < Blocks
      BY DEF WayInv, UbiFits, UbiKernel
    <3>2. /\ size'["kernel"] \in 0 .. Blocks /\ size'["root"] \in 0 .. Blocks
          /\ size'["data"] \in 0 .. Blocks
          /\ size'["kernel"] + size'["root"] + size'["data"] = Blocks
      BY <2>2, <3>1
    <3>3. size' \in [Names -> 0 .. Blocks]
      BY <2>2, <3>1 DEF Names
    <3>4. vol' \in [Names -> Contents] /\ \A n \in Names : vol'[n] = "none" <=> size'[n] = 0
      BY <2>2 DEF Names, Contents
    <3>5. Free' >= 0
      BY <3>2 DEF Free
    <3> QED
      BY <3>3, <3>4, <3>5 DEF VolumeTypes
  <2> QED
    BY <2>1, <2>2
<1>19. CASE Success
  BY <1>19, ImageFacts, SizeFacts
     DEF VolumeTypes, WayInv, UbiFits, UbiKernel, Names, Contents, Free, Success,
         Go, fixed, flash
<1>20. CASE RestoreConf
  BY <1>20, ImageFacts, SizeFacts
     DEF VolumeTypes, WayInv, UbiFits, UbiKernel, Names, Contents, Free,
         RestoreConf, Mountable, Home, Go, Fault, fixed
<1>21. CASE Reboot
  BY <1>21, ImageFacts, SizeFacts
     DEF VolumeTypes, WayInv, UbiFits, UbiKernel, Names, Contents, Free, Reboot, Go,
         fixed, flash
<1>22. CASE Boot
  BY <1>22, ImageFacts, SizeFacts
     DEF VolumeTypes, WayInv, UbiFits, UbiKernel, Names, Contents, Free, Boot,
         Bootable, There, Go, fixed, flash
<1>23. CASE Move
  BY <1>23, ImageFacts, SizeFacts
     DEF VolumeTypes, WayInv, UbiFits, UbiKernel, Names, Contents, Free, Move, Go,
         fixed
<1>24. CASE Extract
  BY <1>24, ImageFacts, SizeFacts
     DEF VolumeTypes, WayInv, UbiFits, UbiKernel, Names, Contents, Free, Extract,
         Go, Fault, fixed
<1>25. CASE Sync
  BY <1>25, ImageFacts, SizeFacts
     DEF VolumeTypes, WayInv, UbiFits, UbiKernel, Names, Contents, Free, Sync, Go,
         fixed, flash
<1>26. CASE PowerCut
  BY <1>26, ImageFacts, SizeFacts
     DEF VolumeTypes, WayInv, UbiFits, UbiKernel, Names, Contents, Free, PowerCut,
         Persisted, fixed, Mtd!Lose, Mtd!End
<1>27. CASE UNCHANGED vars
  BY <1>27 DEF vars, fixed, flash, VolumeTypes, WayInv, UbiFits, UbiKernel, Names, Contents, Free
<1> QED
  BY <1>1, <1>2, <1>3, <1>4, <1>5, <1>6, <1>7, <1>8, <1>9, <1>10, <1>11, <1>12, <1>13, <1>14, <1>15, <1>16, <1>17, <1>18, <1>19, <1>20, <1>21, <1>22, <1>23, <1>24, <1>25, <1>26, <1>27
     DEF Next, Step, Kill, Create, WriteVolumes

\* Each step leads where the one before it says.
LEMMA WayStep ==
    ASSUME TypeOK, WayInv, [Next]_vars
    PROVE  WayInv'
<1>1. CASE Sysupgrade
  BY <1>1, ImageFacts
     DEF TypeOK, WayInv, Nor, Places, NorPlaces, VolumePlaces, FormatPlaces,
         RestorePlaces, Names, UbiFits, UbiKernel, Sysupgrade, Go, Fault, fixed,
         flash
<1>2. CASE Stage2
  <2>1. CASE pc' = Way
    <3>1. pc' \in {"format", "mtd", "attach"}
      BY <2>1 DEF Way
    <3>2. /\ image.form = "ubi" => pc' = "format"
          /\ Nor => pc' = "mtd"
      BY <2>1, ImageFacts DEF Way, WayInv, Nor
    <3> QED
      BY <1>2, <3>1, <3>2 DEF WayInv, Stage2, Go, fixed, flash, Nor, Places, NorPlaces,
          VolumePlaces, FormatPlaces, RestorePlaces
  <2>2. CASE pc' = "stopped"
    BY <1>2, <2>2 DEF WayInv, Stage2, Go, fixed, flash, Nor, Places, NorPlaces,
        VolumePlaces, FormatPlaces, RestorePlaces
  <2> QED
    BY <1>2, <2>1, <2>2 DEF Stage2, Go
<1>3. CASE MtdRuns
  BY <1>3, ImageFacts
     DEF TypeOK, WayInv, Nor, Places, NorPlaces, VolumePlaces, FormatPlaces,
         RestorePlaces, Names, UbiFits, UbiKernel, MtdRuns, AppendFails, CutShort, Go, Fault,
         fixed, Mtd!Tear, Mtd!Install, Mtd!Succeed, Mtd!GiveUp, Mtd!Progress,
         Mtd!End
<1>4. CASE MtdEnded
  BY <1>4, ImageFacts
     DEF TypeOK, WayInv, Nor, Places, NorPlaces, VolumePlaces, FormatPlaces,
         RestorePlaces, Names, UbiFits, UbiKernel, MtdEnded, Go, fixed, flash
<1>5. CASE Attach
  BY <1>5, ImageFacts
     DEF TypeOK, WayInv, Nor, Places, NorPlaces, VolumePlaces, FormatPlaces,
         RestorePlaces, Names, UbiFits, UbiKernel, Attach, Go, Fault, fixed
<1>6. CASE Unblock
  BY <1>6, ImageFacts
     DEF TypeOK, WayInv, Nor, Places, NorPlaces, VolumePlaces, FormatPlaces,
         RestorePlaces, Names, UbiFits, UbiKernel, Unblock, Go, Fault, fixed
<1>7. CASE Remove("kernel", "rm_kernel", "rm_root")
  BY <1>7, ImageFacts
     DEF TypeOK, WayInv, Nor, Places, NorPlaces, VolumePlaces, FormatPlaces,
         RestorePlaces, Names, UbiFits, UbiKernel, Remove, Go, Fault, fixed, Home
<1>8. CASE Remove("root", "rm_root", "rm_data")
  BY <1>8, ImageFacts
     DEF TypeOK, WayInv, Nor, Places, NorPlaces, VolumePlaces, FormatPlaces,
         RestorePlaces, Names, UbiFits, UbiKernel, Remove, Go, Fault, fixed, Home
<1>9. CASE Remove("data", "rm_data", "mk_kernel")
  BY <1>9, ImageFacts
     DEF TypeOK, WayInv, Nor, Places, NorPlaces, VolumePlaces, FormatPlaces,
         RestorePlaces, Names, UbiFits, UbiKernel, Remove, Go, Fault, fixed, Home
<1>10. CASE Make("kernel", HasKernel, image.kernel,
               "mk_kernel", "mk_root")
  BY <1>10, ImageFacts
     DEF TypeOK, WayInv, Nor, Places, NorPlaces, VolumePlaces, FormatPlaces,
         RestorePlaces, Names, UbiFits, UbiKernel, Make, Go, Fault, fixed
<1>11. CASE Make("root", TRUE, IF image.fs = "ubifs" THEN Free ELSE image.root,
               "mk_root", "mk_data")
  BY <1>11, ImageFacts
     DEF TypeOK, WayInv, Nor, Places, NorPlaces, VolumePlaces, FormatPlaces,
         RestorePlaces, Names, UbiFits, UbiKernel, Make, Go, Fault, fixed
<1>12. CASE Make("data", image.fs # "ubifs", Free,
               "mk_data", "write_kernel")
  BY <1>12, ImageFacts
     DEF TypeOK, WayInv, Nor, Places, NorPlaces, VolumePlaces, FormatPlaces,
         RestorePlaces, Names, UbiFits, UbiKernel, Make, Go, Fault, fixed
<1>13. CASE Open("kernel", HasKernel, image.kernel,
               "write_kernel", "writing_kernel", "write_root")
  BY <1>13, ImageFacts
     DEF TypeOK, WayInv, Nor, Places, NorPlaces, VolumePlaces, FormatPlaces,
         RestorePlaces, Names, UbiFits, UbiKernel, Open, Go, fixed, Home
<1>14. CASE Close("kernel", "writing_kernel", "write_root")
  BY <1>14, ImageFacts
     DEF TypeOK, WayInv, Nor, Places, NorPlaces, VolumePlaces, FormatPlaces,
         RestorePlaces, Names, UbiFits, UbiKernel, Close, Go, Fault, fixed
<1>15. CASE Open("root", TRUE, image.root, "write_root", "writing_root", "success")
  BY <1>15, ImageFacts
     DEF TypeOK, WayInv, Nor, Places, NorPlaces, VolumePlaces, FormatPlaces,
         RestorePlaces, Names, UbiFits, UbiKernel, Open, Go, fixed, Home
<1>16. CASE Close("root", "writing_root", "success")
  BY <1>16, ImageFacts
     DEF TypeOK, WayInv, Nor, Places, NorPlaces, VolumePlaces, FormatPlaces,
         RestorePlaces, Names, UbiFits, UbiKernel, Close, Go, Fault, fixed
<1>17. CASE Format
  BY <1>17, ImageFacts
     DEF TypeOK, WayInv, Nor, Places, NorPlaces, VolumePlaces, FormatPlaces,
         RestorePlaces, Names, UbiFits, UbiKernel, Format, Go, Fault, fixed
<1>18. CASE Formatted
  BY <1>18, ImageFacts
     DEF TypeOK, WayInv, Nor, Places, NorPlaces, VolumePlaces, FormatPlaces,
         RestorePlaces, Names, UbiFits, UbiKernel, Formatted, Go, Fault, fixed
<1>19. CASE Success
  BY <1>19, ImageFacts
     DEF TypeOK, WayInv, Nor, Places, NorPlaces, VolumePlaces, FormatPlaces,
         RestorePlaces, Names, UbiFits, UbiKernel, Success, Go, fixed, flash
<1>20. CASE RestoreConf
  BY <1>20, ImageFacts
     DEF TypeOK, WayInv, Nor, Places, NorPlaces, VolumePlaces, FormatPlaces,
         RestorePlaces, Names, UbiFits, UbiKernel, RestoreConf, Mountable, Home, Go,
         Fault, fixed
<1>21. CASE Reboot
  BY <1>21, ImageFacts
     DEF TypeOK, WayInv, Nor, Places, NorPlaces, VolumePlaces, FormatPlaces,
         RestorePlaces, Names, UbiFits, UbiKernel, Reboot, Go, fixed, flash
<1>22. CASE Boot
  BY <1>22, ImageFacts
     DEF TypeOK, WayInv, Nor, Places, NorPlaces, VolumePlaces, FormatPlaces,
         RestorePlaces, Names, UbiFits, UbiKernel, Boot, Bootable, There, Go, fixed,
         flash
<1>23. CASE Move
  BY <1>23, ImageFacts
     DEF TypeOK, WayInv, Nor, Places, NorPlaces, VolumePlaces, FormatPlaces,
         RestorePlaces, Names, UbiFits, UbiKernel, Move, Go, fixed
<1>24. CASE Extract
  BY <1>24, ImageFacts
     DEF TypeOK, WayInv, Nor, Places, NorPlaces, VolumePlaces, FormatPlaces,
         RestorePlaces, Names, UbiFits, UbiKernel, Extract, Go, Fault, fixed
<1>25. CASE Sync
  BY <1>25, ImageFacts
     DEF TypeOK, WayInv, Nor, Places, NorPlaces, VolumePlaces, FormatPlaces,
         RestorePlaces, Names, UbiFits, UbiKernel, Sync, Go, fixed, flash
<1>26. CASE PowerCut
  BY <1>26, ImageFacts
     DEF TypeOK, WayInv, Nor, Places, NorPlaces, VolumePlaces, FormatPlaces,
         RestorePlaces, Names, UbiFits, UbiKernel, PowerCut, Persisted, fixed,
         Mtd!Lose, Mtd!End
<1>27. CASE UNCHANGED vars
  BY <1>27 DEF vars, fixed, flash, TypeOK, WayInv, Nor, Places, NorPlaces, VolumePlaces, FormatPlaces, RestorePlaces, Names, UbiFits, UbiKernel
<1> QED
  BY <1>1, <1>2, <1>3, <1>4, <1>5, <1>6, <1>7, <1>8, <1>9, <1>10, <1>11, <1>12, <1>13, <1>14, <1>15, <1>16, <1>17, <1>18, <1>19, <1>20, <1>21, <1>22, <1>23, <1>24, <1>25, <1>26, <1>27
     DEF Next, Step, Kill, Create, WriteVolumes

\* The writable file system goes with the volume it is in.
LEMMA ForgetStep ==
    ASSUME TypeOK, WayInv, ForgetInv, [Next]_vars
    PROVE  ForgetInv'
<1>1. CASE Sysupgrade
  BY <1>1, ImageFacts
     DEF TypeOK, WayInv, ForgetInv, Nor, NorPlaces, RestorePlaces, Emptied, Names,
         Sysupgrade, Go, Fault, fixed, flash
<1>2. CASE Stage2
  BY <1>2, ImageFacts
     DEF TypeOK, WayInv, ForgetInv, Nor, NorPlaces, RestorePlaces, Emptied, Names,
         Stage2, Way, Go, Fault, fixed, flash
<1>3. CASE MtdRuns
  <2> SUFFICES ASSUME ~keep
               PROVE  ForgetInv'
    BY <1>3 DEF ForgetInv, MtdRuns, Go, fixed
  <2>1. ~archive /\ UNCHANGED <<vol, ubi, archive, fixed>> /\ pc = "mtd" /\ pc' = "mtd"
    BY <1>3 DEF ForgetInv, MtdRuns, Go, fixed
  <2>2. overlay' = overlay \/ overlay' = {}
    BY <1>3, <2>1 DEF MtdRuns, Behind
  <2>3. Nor /\ image.tail # "none" /\ firmware' = "new" /\ firmware # "new" => overlay' = {}
    BY <1>3, <2>1 DEF MtdRuns, Behind, Nor
  <2>4. faults' = 0 => faults = 0
    BY <1>3, ImageFacts DEF MtdRuns, Fault, TypeOK
  <2> QED
    BY <2>1, <2>2, <2>3, <2>4 DEF ForgetInv, fixed, Nor, RestorePlaces, Emptied
<1>4. CASE MtdEnded
  BY <1>4, ImageFacts
     DEF TypeOK, WayInv, ForgetInv, Nor, NorPlaces, RestorePlaces, Emptied, Names,
         MtdEnded, Go, fixed, flash
<1>5. CASE Attach
  BY <1>5, ImageFacts
     DEF TypeOK, WayInv, ForgetInv, Nor, NorPlaces, RestorePlaces, Emptied, Names,
         Attach, Go, Fault, fixed
<1>6. CASE Unblock
  BY <1>6, ImageFacts
     DEF TypeOK, WayInv, ForgetInv, Nor, NorPlaces, RestorePlaces, Emptied, Names,
         Unblock, Go, Fault, fixed
<1>7. CASE Remove("kernel", "rm_kernel", "rm_root")
  BY <1>7, ImageFacts
     DEF TypeOK, WayInv, ForgetInv, Nor, NorPlaces, RestorePlaces, Emptied, Names,
         Remove, Go, Fault, fixed, Home
<1>8. CASE Remove("root", "rm_root", "rm_data")
  BY <1>8, ImageFacts
     DEF TypeOK, WayInv, ForgetInv, Nor, NorPlaces, RestorePlaces, Emptied, Names,
         Remove, Go, Fault, fixed, Home
<1>9. CASE Remove("data", "rm_data", "mk_kernel")
  BY <1>9, ImageFacts
     DEF TypeOK, WayInv, ForgetInv, Nor, NorPlaces, RestorePlaces, Emptied, Names,
         Remove, Go, Fault, fixed, Home
<1>10. CASE Make("kernel", HasKernel, image.kernel,
               "mk_kernel", "mk_root")
  BY <1>10, ImageFacts
     DEF TypeOK, WayInv, ForgetInv, Nor, NorPlaces, RestorePlaces, Emptied, Names,
         Make, Go, Fault, fixed
<1>11. CASE Make("root", TRUE, IF image.fs = "ubifs" THEN Free ELSE image.root,
               "mk_root", "mk_data")
  BY <1>11, ImageFacts
     DEF TypeOK, WayInv, ForgetInv, Nor, NorPlaces, RestorePlaces, Emptied, Names,
         Make, Go, Fault, fixed
<1>12. CASE Make("data", image.fs # "ubifs", Free,
               "mk_data", "write_kernel")
  BY <1>12, ImageFacts
     DEF TypeOK, WayInv, ForgetInv, Nor, NorPlaces, RestorePlaces, Emptied, Names,
         Make, Go, Fault, fixed
<1>13. CASE Open("kernel", HasKernel, image.kernel,
               "write_kernel", "writing_kernel", "write_root")
  BY <1>13, ImageFacts
     DEF TypeOK, WayInv, ForgetInv, Nor, NorPlaces, RestorePlaces, Emptied, Names,
         Open, Go, fixed, Home
<1>14. CASE Close("kernel", "writing_kernel", "write_root")
  BY <1>14, ImageFacts
     DEF TypeOK, WayInv, ForgetInv, Nor, NorPlaces, RestorePlaces, Emptied, Names,
         Close, Go, Fault, fixed
<1>15. CASE Open("root", TRUE, image.root, "write_root", "writing_root", "success")
  BY <1>15, ImageFacts
     DEF TypeOK, WayInv, ForgetInv, Nor, NorPlaces, RestorePlaces, Emptied, Names,
         Open, Go, fixed, Home
<1>16. CASE Close("root", "writing_root", "success")
  BY <1>16, ImageFacts
     DEF TypeOK, WayInv, ForgetInv, Nor, NorPlaces, RestorePlaces, Emptied, Names,
         Close, Go, Fault, fixed
<1>17. CASE Format
  BY <1>17, ImageFacts
     DEF TypeOK, WayInv, ForgetInv, Nor, NorPlaces, RestorePlaces, Emptied, Names,
         Format, Go, Fault, fixed
<1>18. CASE Formatted
  BY <1>18, ImageFacts
     DEF TypeOK, WayInv, ForgetInv, Nor, NorPlaces, RestorePlaces, Emptied, Names,
         Formatted, Go, Fault, fixed
<1>19. CASE Success
  BY <1>19, ImageFacts
     DEF TypeOK, WayInv, ForgetInv, Nor, NorPlaces, RestorePlaces, Emptied, Names,
         Success, Go, fixed, flash
<1>20. CASE RestoreConf
  BY <1>20, ImageFacts
     DEF TypeOK, WayInv, ForgetInv, Nor, NorPlaces, RestorePlaces, Emptied, Names,
         RestoreConf, Mountable, Home, Go, Fault, fixed
<1>21. CASE Reboot
  BY <1>21, ImageFacts
     DEF TypeOK, WayInv, ForgetInv, Nor, NorPlaces, RestorePlaces, Emptied, Names,
         Reboot, Go, fixed, flash
<1>22. CASE Boot
  BY <1>22, ImageFacts
     DEF TypeOK, WayInv, ForgetInv, Nor, NorPlaces, RestorePlaces, Emptied, Names,
         Boot, Bootable, There, Go, fixed, flash
<1>23. CASE Move
  BY <1>23, ImageFacts
     DEF TypeOK, WayInv, ForgetInv, Nor, NorPlaces, RestorePlaces, Emptied, Names,
         Move, Go, fixed
<1>24. CASE Extract
  BY <1>24, ImageFacts
     DEF TypeOK, WayInv, ForgetInv, Nor, NorPlaces, RestorePlaces, Emptied, Names,
         Extract, Go, Fault, fixed
<1>25. CASE Sync
  BY <1>25, ImageFacts
     DEF TypeOK, WayInv, ForgetInv, Nor, NorPlaces, RestorePlaces, Emptied, Names,
         Sync, Go, fixed, flash
<1>26. CASE PowerCut
  BY <1>26, ImageFacts
     DEF TypeOK, WayInv, ForgetInv, Nor, NorPlaces, RestorePlaces, Emptied, Names,
         PowerCut, Persisted, Behind, fixed, Mtd!Lose, Mtd!End
<1>27. CASE UNCHANGED vars
  BY <1>27 DEF vars, fixed, flash, TypeOK, WayInv, ForgetInv, Nor, NorPlaces, RestorePlaces, Emptied, Names
<1> QED
  BY <1>1, <1>2, <1>3, <1>4, <1>5, <1>6, <1>7, <1>8, <1>9, <1>10, <1>11, <1>12, <1>13, <1>14, <1>15, <1>16, <1>17, <1>18, <1>19, <1>20, <1>21, <1>22, <1>23, <1>24, <1>25, <1>26, <1>27
     DEF Next, Step, Kill, Create, WriteVolumes

\* What an upgrade is of, it stays; cuts and faults are counted.
LEMMA Counting ==
    ASSUME TypeOK, [Next]_vars
    PROVE  /\ UNCHANGED fixed
           /\ faults' \in {faults, faults + 1}
           /\ cuts' = cuts + 1 \/ cuts' = cuts
           /\ PowerCut => cuts' = cuts + 1 \/ pc = "stopped"
<1>1. CASE Sysupgrade
  BY <1>1 DEF Sysupgrade, Go, Fault, fixed, flash, PowerCut
<1>2. CASE Stage2
  BY <1>2 DEF Stage2, Go, Fault, fixed, flash, PowerCut
<1>3. CASE MtdRuns
  BY <1>3 DEF MtdRuns, Go, Fault, fixed, PowerCut
<1>4. CASE MtdEnded
  BY <1>4 DEF MtdEnded, Go, fixed, flash, PowerCut
<1>5. CASE Attach
  BY <1>5 DEF Attach, Go, Fault, fixed, PowerCut
<1>6. CASE Unblock
  BY <1>6 DEF Unblock, Go, Fault, fixed, PowerCut
<1>7. CASE Remove("kernel", "rm_kernel", "rm_root")
  BY <1>7 DEF Remove, Go, Fault, fixed, PowerCut
<1>8. CASE Remove("root", "rm_root", "rm_data")
  BY <1>8 DEF Remove, Go, Fault, fixed, PowerCut
<1>9. CASE Remove("data", "rm_data", "mk_kernel")
  BY <1>9 DEF Remove, Go, Fault, fixed, PowerCut
<1>10. CASE Make("kernel", HasKernel, image.kernel,
               "mk_kernel", "mk_root")
  BY <1>10 DEF Make, Go, Fault, fixed, PowerCut
<1>11. CASE Make("root", TRUE, IF image.fs = "ubifs" THEN Free ELSE image.root,
               "mk_root", "mk_data")
  BY <1>11 DEF Make, Go, Fault, fixed, PowerCut
<1>12. CASE Make("data", image.fs # "ubifs", Free,
               "mk_data", "write_kernel")
  BY <1>12 DEF Make, Go, Fault, fixed, PowerCut
<1>13. CASE Open("kernel", HasKernel, image.kernel,
               "write_kernel", "writing_kernel", "write_root")
  BY <1>13 DEF Open, Go, fixed, PowerCut
<1>14. CASE Close("kernel", "writing_kernel", "write_root")
  BY <1>14 DEF Close, Go, Fault, fixed, PowerCut
<1>15. CASE Open("root", TRUE, image.root, "write_root", "writing_root", "success")
  BY <1>15 DEF Open, Go, fixed, PowerCut
<1>16. CASE Close("root", "writing_root", "success")
  BY <1>16 DEF Close, Go, Fault, fixed, PowerCut
<1>17. CASE Format
  BY <1>17 DEF Format, Go, Fault, fixed, PowerCut
<1>18. CASE Formatted
  BY <1>18 DEF Formatted, Go, Fault, fixed, PowerCut
<1>19. CASE Success
  BY <1>19 DEF Success, Go, fixed, flash, PowerCut
<1>20. CASE RestoreConf
  BY <1>20 DEF RestoreConf, Go, Fault, fixed, PowerCut
<1>21. CASE Reboot
  BY <1>21 DEF Reboot, Go, fixed, flash, PowerCut
<1>22. CASE Boot
  BY <1>22 DEF Boot, Go, fixed, flash, PowerCut
<1>23. CASE Move
  BY <1>23 DEF Move, Go, fixed, PowerCut
<1>24. CASE Extract
  BY <1>24 DEF Extract, Go, Fault, fixed, PowerCut
<1>25. CASE Sync
  BY <1>25 DEF Sync, Go, fixed, flash, PowerCut
<1>26. CASE PowerCut
  BY <1>26 DEF PowerCut, fixed
<1>27. CASE UNCHANGED vars
  BY <1>27 DEF vars, fixed, PowerCut
<1> QED
  BY <1>1, <1>2, <1>3, <1>4, <1>5, <1>6, <1>7, <1>8, <1>9, <1>10, <1>11, <1>12, <1>13, <1>14, <1>15, <1>16, <1>17, <1>18, <1>19, <1>20, <1>21, <1>22, <1>23, <1>24, <1>25, <1>26, <1>27
     DEF Next, Step, Kill, Create, WriteVolumes

LEMMA CalmBefore ==
    ASSUME TypeOK, CalmInv, [Next]_vars, Calm'
    PROVE  Calm /\ ~PowerCut /\ faults = 0 /\ faults' = 0 /\ UNCHANGED fixed
<1>1. Calm /\ faults' = 0 /\ UNCHANGED fixed
  <2>1. faults = 0 /\ cuts = 0 /\ UNCHANGED fixed
    BY Counting DEF Calm, TypeOK
  <2>2. Suits
    BY <2>1 DEF Calm, Suits, fixed
  <2> QED
    BY <2>1, <2>2 DEF Calm
<1>2. pc # "stopped"
  BY <1>1 DEF CalmInv, FirmwareInv
<1>3. ~PowerCut
  BY <1>1, <1>2, Counting DEF Calm
<1> QED
  BY <1>1, <1>3 DEF Calm

\* mtd, and where the script stops.
LEMMA FirmwareStep ==
    ASSUME TypeOK, WayInv, CalmInv, [Next]_vars, Calm'
    PROVE  FirmwareInv'
<1> USE CalmBefore, ImageFacts
<1>1. CASE Sysupgrade
  BY <1>1 DEF FirmwareInv, WayInv, CalmInv, Nor, NorPlaces, RestorePlaces, There,
     Kernel, VolumeInv, NewPlaces, Sysupgrade, Go, Fault, fixed, flash
<1>2. CASE Stage2
  BY <1>2 DEF FirmwareInv, WayInv, CalmInv, Nor, NorPlaces, RestorePlaces, There,
     Kernel, VolumeInv, NewPlaces, Stage2, Way, Go, Fault, fixed, flash
<1>3. CASE MtdRuns
  BY <1>3 DEF FirmwareInv, WayInv, CalmInv, Nor, NorPlaces, RestorePlaces, There,
     Kernel, VolumeInv, NewPlaces, MtdRuns, AppendFails, CutShort, Go, Fault, fixed, Mtd!Tear,
     Mtd!Install, Mtd!Succeed, Mtd!GiveUp, Mtd!Progress, Mtd!End
<1>4. CASE MtdEnded
  BY <1>4 DEF FirmwareInv, WayInv, CalmInv, Nor, NorPlaces, RestorePlaces, There,
     Kernel, VolumeInv, NewPlaces, MtdEnded, Go, fixed, flash
<1>5. CASE Attach
  BY <1>5 DEF FirmwareInv, WayInv, CalmInv, Nor, NorPlaces, RestorePlaces, There,
     Kernel, VolumeInv, NewPlaces, Attach, Go, Fault, fixed
<1>6. CASE Unblock
  BY <1>6 DEF FirmwareInv, WayInv, CalmInv, Nor, NorPlaces, RestorePlaces, There,
     Kernel, VolumeInv, NewPlaces, Unblock, Go, Fault, fixed
<1>7. CASE Remove("kernel", "rm_kernel", "rm_root")
  BY <1>7 DEF FirmwareInv, WayInv, CalmInv, Nor, NorPlaces, RestorePlaces, There,
     Kernel, VolumeInv, NewPlaces, Remove, Go, Fault, fixed, Home
<1>8. CASE Remove("root", "rm_root", "rm_data")
  BY <1>8 DEF FirmwareInv, WayInv, CalmInv, Nor, NorPlaces, RestorePlaces, There,
     Kernel, VolumeInv, NewPlaces, Remove, Go, Fault, fixed, Home
<1>9. CASE Remove("data", "rm_data", "mk_kernel")
  BY <1>9 DEF FirmwareInv, WayInv, CalmInv, Nor, NorPlaces, RestorePlaces, There,
     Kernel, VolumeInv, NewPlaces, Remove, Go, Fault, fixed, Home
<1>10. CASE Make("kernel", HasKernel, image.kernel,
               "mk_kernel", "mk_root")
  BY <1>10 DEF FirmwareInv, WayInv, CalmInv, Nor, NorPlaces, RestorePlaces, There,
     Kernel, VolumeInv, NewPlaces, Make, Go, Fault, fixed
<1>11. CASE Make("root", TRUE, IF image.fs = "ubifs" THEN Free ELSE image.root,
               "mk_root", "mk_data")
  BY <1>11 DEF FirmwareInv, WayInv, CalmInv, Nor, NorPlaces, RestorePlaces, There,
     Kernel, VolumeInv, NewPlaces, Make, Go, Fault, fixed
<1>12. CASE Make("data", image.fs # "ubifs", Free,
               "mk_data", "write_kernel")
  BY <1>12 DEF FirmwareInv, WayInv, CalmInv, Nor, NorPlaces, RestorePlaces, There,
     Kernel, VolumeInv, NewPlaces, Make, Go, Fault, fixed
<1>13. CASE Open("kernel", HasKernel, image.kernel,
               "write_kernel", "writing_kernel", "write_root")
  BY <1>13 DEF FirmwareInv, WayInv, CalmInv, Nor, NorPlaces, RestorePlaces, There,
     Kernel, VolumeInv, NewPlaces, Open, Go, fixed, Home
<1>14. CASE Close("kernel", "writing_kernel", "write_root")
  BY <1>14 DEF FirmwareInv, WayInv, CalmInv, Nor, NorPlaces, RestorePlaces, There,
     Kernel, VolumeInv, NewPlaces, Close, Go, Fault, fixed
<1>15. CASE Open("root", TRUE, image.root, "write_root", "writing_root", "success")
  BY <1>15 DEF FirmwareInv, WayInv, CalmInv, Nor, NorPlaces, RestorePlaces, There,
     Kernel, VolumeInv, NewPlaces, Open, Go, fixed, Home
<1>16. CASE Close("root", "writing_root", "success")
  BY <1>16 DEF FirmwareInv, WayInv, CalmInv, Nor, NorPlaces, RestorePlaces, There,
     Kernel, VolumeInv, NewPlaces, Close, Go, Fault, fixed
<1>17. CASE Format
  BY <1>17 DEF FirmwareInv, WayInv, CalmInv, Nor, NorPlaces, RestorePlaces, There,
     Kernel, VolumeInv, NewPlaces, Format, Go, Fault, fixed
<1>18. CASE Formatted
  BY <1>18 DEF FirmwareInv, WayInv, CalmInv, Nor, NorPlaces, RestorePlaces, There,
     Kernel, VolumeInv, NewPlaces, Formatted, Go, Fault, fixed
<1>19. CASE Success
  BY <1>19 DEF FirmwareInv, WayInv, CalmInv, Nor, NorPlaces, RestorePlaces, There,
     Kernel, VolumeInv, NewPlaces, Success, Go, fixed, flash
<1>20. CASE RestoreConf
  BY <1>20 DEF FirmwareInv, WayInv, CalmInv, Nor, NorPlaces, RestorePlaces, There,
     Kernel, VolumeInv, NewPlaces, RestoreConf, Mountable, Home, Go, Fault, fixed
<1>21. CASE Reboot
  BY <1>21 DEF FirmwareInv, WayInv, CalmInv, Nor, NorPlaces, RestorePlaces, There,
     Kernel, VolumeInv, NewPlaces, Reboot, Go, fixed, flash
<1>22. CASE Boot
  BY <1>22 DEF FirmwareInv, WayInv, CalmInv, Nor, NorPlaces, RestorePlaces, There,
     Kernel, VolumeInv, NewPlaces, Boot, Bootable, Go, fixed, flash
<1>23. CASE Move
  BY <1>23 DEF FirmwareInv, WayInv, CalmInv, Nor, NorPlaces, RestorePlaces, There,
     Kernel, VolumeInv, NewPlaces, Move, Go, fixed
<1>24. CASE Extract
  BY <1>24 DEF FirmwareInv, WayInv, CalmInv, Nor, NorPlaces, RestorePlaces, There,
     Kernel, VolumeInv, NewPlaces, Extract, Go, Fault, fixed
<1>25. CASE Sync
  BY <1>25 DEF FirmwareInv, WayInv, CalmInv, Nor, NorPlaces, RestorePlaces, There,
     Kernel, VolumeInv, NewPlaces, Sync, Go, fixed, flash
<1>26. CASE UNCHANGED vars
  BY <1>26 DEF vars, fixed, flash, FirmwareInv, WayInv, CalmInv, Nor, NorPlaces, RestorePlaces, There, Kernel, VolumeInv, NewPlaces
<1> QED
  BY <1>1, <1>2, <1>3, <1>4, <1>5, <1>6, <1>7, <1>8, <1>9, <1>10, <1>11, <1>12, <1>13, <1>14, <1>15, <1>16, <1>17, <1>18, <1>19, <1>20, <1>21, <1>22, <1>23, <1>24, <1>25, <1>26
     DEF Next, Step, Kill, Create, WriteVolumes

\* The volumes, one by one.
LEMMA VolumesStep ==
    ASSUME TypeOK, WayInv, CalmInv, [Next]_vars, Calm', ~Nor
    PROVE  VolumeInv'
<1> USE CalmBefore, ImageFacts, SizeFacts
<1>a. /\ vol \in [Names -> Contents] /\ size \in [Names -> 0 .. Blocks]
      /\ \A n \in Names : vol[n] = "none" <=> size[n] = 0
  BY DEF TypeOK
<1>b. FirmwareInv /\ VolumeInv
  BY DEF CalmInv
<1>c. /\ image.fs = "squashfs" => KernelSize + image.root < Blocks
      /\ image.fs = "ubifs" => KernelSize + image.root <= Blocks
      /\ KernelSize \in Nat
      /\ board.kind = "nand" => image.kernel > 0
      /\ board.kind \in {"nand", "nandk"}
  BY DEF Calm, Suits, KernelSize, HasKernel, Nor
<1>d. pc \in VolumePlaces /\ board.kind = "nand" => HasKernel
  BY <1>c DEF WayInv, HasKernel, Nor
<1>1. CASE Sysupgrade
  BY <1>1 DEF VolumeInv, WayInv, CalmInv, FirmwareInv, Calm, Suits, Nor,
     VolumePlaces, FormatPlaces, OldPlaces, NewPlaces, RestorePlaces, Kernel,
     KernelSize, HasKernel, Names, UbiFits, UbiKernel, Sysupgrade, Go, Fault, fixed,
     flash
<1>2. CASE Stage2
  BY <1>2 DEF VolumeInv, WayInv, CalmInv, FirmwareInv, Calm, Suits, Nor,
     VolumePlaces, FormatPlaces, OldPlaces, NewPlaces, RestorePlaces, Kernel,
     KernelSize, HasKernel, Names, UbiFits, UbiKernel, Stage2, Way, Go, Fault,
     fixed, flash
<1>3. CASE MtdRuns
  BY <1>3 DEF VolumeInv, WayInv, CalmInv, FirmwareInv, Calm, Suits, Nor,
     VolumePlaces, FormatPlaces, OldPlaces, NewPlaces, RestorePlaces, Kernel,
     KernelSize, HasKernel, Names, UbiFits, UbiKernel, MtdRuns, AppendFails, CutShort, Go, Fault,
     fixed, Mtd!Tear, Mtd!Install, Mtd!Succeed, Mtd!GiveUp, Mtd!Progress, Mtd!End
<1>4. CASE MtdEnded
  <2>1. pc = "mtd" /\ pc' = "attach" /\ UNCHANGED <<vol, size>>
    BY <1>4 DEF MtdEnded, Go, flash, Nor
  <2> QED
    BY <2>1, <1>b DEF VolumeInv, Kernel, OldPlaces, NewPlaces, RestorePlaces, fixed
<1>5. CASE Attach
  BY <1>5 DEF VolumeInv, WayInv, CalmInv, FirmwareInv, Calm, Suits, Nor,
     VolumePlaces, FormatPlaces, OldPlaces, NewPlaces, RestorePlaces, Kernel,
     KernelSize, HasKernel, Names, UbiFits, UbiKernel, Attach, Go, Fault, fixed
<1>6. CASE Unblock
  BY <1>6 DEF VolumeInv, WayInv, CalmInv, FirmwareInv, Calm, Suits, Nor,
     VolumePlaces, FormatPlaces, OldPlaces, NewPlaces, RestorePlaces, Kernel,
     KernelSize, HasKernel, Names, UbiFits, UbiKernel, Unblock, Go, Fault, fixed
<1>7. CASE Remove("kernel", "rm_kernel", "rm_root")
  <2>1. /\ pc = "rm_kernel" /\ pc' = "rm_root"
        /\ vol' = [vol EXCEPT !["kernel"] = "none"]
    BY <1>7 DEF Remove, Go, Fault
  <2>2. vol'["kernel"] = "none" /\ vol'["root"] = vol["root"] /\ vol'["data"] = vol["data"]
    BY <2>1, <1>a DEF Names
  <2> QED
    BY <2>1, <2>2, <1>b DEF VolumeInv, Kernel, OldPlaces, NewPlaces, RestorePlaces, fixed
<1>8. CASE Remove("root", "rm_root", "rm_data")
  <2>1. /\ pc = "rm_root" /\ pc' = "rm_data"
        /\ vol' = [vol EXCEPT !["root"] = "none"]
    BY <1>8 DEF Remove, Go, Fault
  <2>2. vol'["root"] = "none" /\ vol'["kernel"] = vol["kernel"] /\ vol'["data"] = vol["data"]
    BY <2>1, <1>a DEF Names
  <2> QED
    BY <2>1, <2>2, <1>b DEF VolumeInv, Kernel, OldPlaces, NewPlaces, RestorePlaces, fixed
<1>9. CASE Remove("data", "rm_data", "mk_kernel")
  <2>1. /\ pc = "rm_data" /\ pc' = "mk_kernel"
        /\ vol' = [vol EXCEPT !["data"] = "none"]
    BY <1>9 DEF Remove, Go, Fault
  <2>2. vol'["data"] = "none" /\ vol'["kernel"] = vol["kernel"] /\ vol'["root"] = vol["root"]
    BY <2>1, <1>a DEF Names
  <2> QED
    BY <2>1, <2>2, <1>b DEF VolumeInv, Kernel, OldPlaces, NewPlaces, RestorePlaces
<1>10. CASE Make("kernel", HasKernel, image.kernel,
               "mk_kernel", "mk_root")
  <2>1. pc = "mk_kernel" /\ \A n \in Names : vol[n] = "none" /\ size[n] = 0
    BY <1>10, <1>a, <1>b DEF Make, VolumeInv, Names
  <2>2. Free = Blocks
    BY <2>1 DEF Free, Names
  <2>3. HasKernel => image.kernel > 0 /\ image.kernel <= Free
    BY <2>2, <1>c DEF HasKernel, KernelSize
  <2>4. /\ pc' = "mk_root"
        /\ IF HasKernel THEN /\ vol' = [vol EXCEPT !["kernel"] = "empty"]
                             /\ size' = [size EXCEPT !["kernel"] = image.kernel]
           ELSE UNCHANGED <<vol, size>>
    BY <1>10, <2>1, <2>3 DEF Make, Go, Fault, Names
  <2>5. /\ vol'["root"] = "none" /\ vol'["data"] = "none"
        /\ size'["kernel"] = KernelSize
    BY <2>1, <2>4, <1>a DEF Names, KernelSize
  <2>6. KernelSize' = KernelSize
    BY DEF KernelSize, HasKernel, fixed
  <2> QED
    BY <2>4, <2>5, <2>6 DEF VolumeInv, OldPlaces, NewPlaces, RestorePlaces
<1>11. CASE Make("root", TRUE, IF image.fs = "ubifs" THEN Free ELSE image.root,
               "mk_root", "mk_data")
  <2> DEFINE s == IF image.fs = "ubifs" THEN Free ELSE image.root
  <2>1. /\ pc = "mk_root" /\ vol["root"] = "none" /\ vol["data"] = "none"
        /\ size["root"] = 0 /\ size["data"] = 0 /\ size["kernel"] = KernelSize
    BY <1>11, <1>a, <1>b DEF Make, VolumeInv, Names
  <2>2. Free = Blocks - KernelSize
    BY <2>1 DEF Free, Names
  <2>3. s > 0 /\ s <= Free /\ image.root <= s /\ (image.fs = "squashfs" => s = image.root)
    BY <2>2, <1>c
  <2>4. /\ pc' = "mk_data"
        /\ vol' = [vol EXCEPT !["root"] = "empty"]
        /\ size' = [size EXCEPT !["root"] = s]
    BY <1>11, <2>1, <2>3 DEF Make, Go, Fault
  <2>5. /\ vol'["root"] = "empty" /\ vol'["data"] = "none"
        /\ size'["kernel"] = KernelSize /\ size'["root"] = s
    BY <2>1, <2>4, <1>a DEF Names
  <2>6. KernelSize' = KernelSize /\ image' = image
    BY DEF KernelSize, HasKernel, fixed
  <2> QED
    BY <2>3, <2>4, <2>5, <2>6 DEF VolumeInv, OldPlaces, NewPlaces, RestorePlaces
<1>12. CASE Make("data", image.fs # "ubifs", Free,
               "mk_data", "write_kernel")
  <2>1. /\ pc = "mk_data" /\ vol["data"] = "none" /\ size["data"] = 0
        /\ size["kernel"] = KernelSize /\ vol["root"] # "none" /\ image.root <= size["root"]
        /\ image.fs = "squashfs" => size["root"] = image.root
    BY <1>12, <1>a, <1>b DEF Make, VolumeInv, Names
  <2>2. image.fs = "squashfs" => 0 < Free
    <3>1. Free = Blocks - KernelSize - size["root"]
      BY <2>1 DEF Free, Names
    <3> QED
      BY <3>1, <2>1, <1>c
  <2>3. /\ pc' = "write_kernel"
        /\ IF image.fs = "squashfs" THEN /\ vol' = [vol EXCEPT !["data"] = "empty"]
                                         /\ size' = [size EXCEPT !["data"] = Free]
           ELSE UNCHANGED <<vol, size>>
    BY <1>12, <2>1, <2>2 DEF Make, Go, Fault
  <2>4. /\ vol'["data"] = IF image.fs = "squashfs" THEN "empty" ELSE "none"
        /\ vol'["root"] = vol["root"] /\ size'["root"] = size["root"]
        /\ size'["kernel"] = KernelSize
    BY <2>1, <2>3, <1>a DEF Names
  <2>5. KernelSize' = KernelSize /\ image' = image
    BY DEF KernelSize, HasKernel, fixed
  <2> QED
    BY <2>1, <2>3, <2>4, <2>5 DEF VolumeInv, OldPlaces, NewPlaces, RestorePlaces
<1>13. CASE Open("kernel", HasKernel, image.kernel,
               "write_kernel", "writing_kernel", "write_root")
  <2>1. /\ pc = "write_kernel" /\ size["kernel"] = KernelSize
        /\ HasKernel => vol["kernel"] # "none"
    <3>1. pc = "write_kernel" /\ size["kernel"] = KernelSize
      BY <1>13, <1>b DEF Open, VolumeInv
    <3>2. HasKernel => size["kernel"] # 0
      BY <3>1 DEF KernelSize, HasKernel
    <3> QED
      BY <3>1, <3>2, <1>a DEF Names
  <2>2. /\ IF HasKernel THEN pc' = "writing_kernel" /\ vol' = [vol EXCEPT !["kernel"] = "torn"]
           ELSE pc' = "write_root" /\ vol' = vol
        /\ size' = size
    BY <1>13, <2>1 DEF Open, Go, KernelSize
  <2>3. vol'["root"] = vol["root"] /\ vol'["data"] = vol["data"]
    BY <2>2, <1>a DEF Names
  <2>4. board.kind = "nand" => HasKernel
    BY <2>1, <1>c, <1>d DEF VolumePlaces
  <2>5. KernelSize' = KernelSize /\ image' = image /\ board' = board
    BY DEF KernelSize, HasKernel, fixed
  <2> QED
    BY <2>1, <2>2, <2>3, <2>4, <2>5, <1>b DEF VolumeInv, Kernel, OldPlaces, NewPlaces, RestorePlaces
<1>14. CASE Close("kernel", "writing_kernel", "write_root")
  <2>1. /\ pc = "writing_kernel" /\ pc' = "write_root" /\ size' = size
        /\ vol' = [vol EXCEPT !["kernel"] = "new"]
    BY <1>14 DEF Close, Go, Fault
  <2>2. /\ vol'["kernel"] = "new" /\ vol'["root"] = vol["root"] /\ vol'["data"] = vol["data"]
        /\ image' = image /\ board' = board
    BY <2>1, <1>a DEF Names, fixed
  <2> QED
    BY <2>1, <2>2, <1>b DEF VolumeInv, Kernel, OldPlaces, NewPlaces, RestorePlaces
<1>15. CASE Open("root", TRUE, image.root, "write_root", "writing_root", "success")
  <2>1. /\ pc = "write_root" /\ vol["root"] # "none" /\ image.root <= size["root"]
        /\ ubi # "held"
    BY <1>15, <1>b DEF Open, VolumeInv, FirmwareInv
  <2>2. /\ pc' = "writing_root" /\ size' = size
        /\ vol' = [vol EXCEPT !["root"] = "torn"]
    BY <1>15, <2>1 DEF Open, Go
  <2>3. /\ vol'["root"] = "torn" /\ vol'["kernel"] = vol["kernel"] /\ vol'["data"] = vol["data"]
        /\ image' = image /\ board' = board
    BY <2>2, <1>a DEF Names, fixed
  <2> QED
    BY <2>1, <2>2, <2>3, <1>b DEF VolumeInv, Kernel, OldPlaces, NewPlaces, RestorePlaces
<1>16. CASE Close("root", "writing_root", "success")
  <2>1. /\ pc = "writing_root" /\ pc' = "success" /\ size' = size
        /\ vol' = [vol EXCEPT !["root"] = "new"]
    BY <1>16 DEF Close, Go, Fault
  <2>2. /\ vol'["root"] = "new" /\ vol'["kernel"] = vol["kernel"] /\ vol'["data"] = vol["data"]
        /\ image' = image /\ board' = board
    BY <2>1, <1>a DEF Names, fixed
  <2> QED
    BY <2>1, <2>2, <1>b DEF VolumeInv, Kernel, OldPlaces, NewPlaces, RestorePlaces
<1>17. CASE Format
  BY <1>17 DEF VolumeInv, WayInv, CalmInv, FirmwareInv, Calm, Suits, Nor,
     VolumePlaces, FormatPlaces, OldPlaces, NewPlaces, RestorePlaces, Kernel,
     KernelSize, HasKernel, Names, UbiFits, UbiKernel, Format, Go, Fault, fixed
<1>18. CASE Formatted
  <2>1. /\ pc = "formatting" /\ pc' = "success" /\ image' = image /\ board' = board
        /\ size' = IF image.fs = "ubifs"
                   THEN [kernel |-> UbiKernel, root |-> Blocks - UbiKernel, data |-> 0]
                   ELSE [kernel |-> UbiKernel, root |-> image.root,
                         data |-> Blocks - UbiKernel - image.root]
        /\ vol' = [n \in Names |-> IF size'[n] = 0 THEN "none"
                                   ELSE IF n = "data" THEN "empty" ELSE "new"]
    BY <1>18 DEF Formatted, Go, Fault, fixed
  <2>2. /\ UbiKernel \in Nat /\ UbiKernel + image.root <= Blocks
        /\ image.fs = "squashfs" => UbiKernel + image.root < Blocks
        /\ board.kind = "nand" => UbiKernel > 0
    BY <2>1, <1>c DEF WayInv, UbiFits, UbiKernel
  <2>3. /\ size'["root"] # 0 /\ (board.kind = "nand" => size'["kernel"] # 0)
        /\ size'["data"] = 0 <=> image.fs = "ubifs"
    BY <2>1, <2>2
  <2>4. /\ vol'["root"] = "new" /\ Kernel("new")'
        /\ vol'["data"] = IF image.fs = "squashfs" THEN "empty" ELSE "none"
    BY <2>1, <2>3 DEF Names, Kernel
  <2> QED
    BY <2>1, <2>4 DEF VolumeInv, OldPlaces, NewPlaces, RestorePlaces
<1>19. CASE Success
  BY <1>19 DEF VolumeInv, WayInv, CalmInv, FirmwareInv, Calm, Suits, Nor,
     VolumePlaces, FormatPlaces, OldPlaces, NewPlaces, RestorePlaces, Kernel,
     KernelSize, HasKernel, Names, UbiFits, UbiKernel, Success, Go, fixed, flash
<1>20. CASE RestoreConf
  BY <1>20 DEF VolumeInv, WayInv, CalmInv, FirmwareInv, Calm, Suits, Nor,
     VolumePlaces, FormatPlaces, OldPlaces, NewPlaces, RestorePlaces, Kernel,
     KernelSize, HasKernel, Names, UbiFits, UbiKernel, RestoreConf, Mountable, Home,
     Go, Fault, fixed
<1>21. CASE Reboot
  BY <1>21 DEF VolumeInv, WayInv, CalmInv, FirmwareInv, Calm, Suits, Nor,
     VolumePlaces, FormatPlaces, OldPlaces, NewPlaces, RestorePlaces, Kernel,
     KernelSize, HasKernel, Names, UbiFits, UbiKernel, Reboot, Go, fixed, flash
<1>22. CASE Boot
  BY <1>22 DEF VolumeInv, WayInv, CalmInv, FirmwareInv, Calm, Suits, Nor,
     VolumePlaces, FormatPlaces, OldPlaces, NewPlaces, RestorePlaces, Kernel,
     KernelSize, HasKernel, Names, UbiFits, UbiKernel, Boot, Bootable, There, Go,
     fixed, flash
<1>23. CASE Move
  BY <1>23 DEF VolumeInv, WayInv, CalmInv, FirmwareInv, Calm, Suits, Nor,
     VolumePlaces, FormatPlaces, OldPlaces, NewPlaces, RestorePlaces, Kernel,
     KernelSize, HasKernel, Names, UbiFits, UbiKernel, Move, Go, fixed
<1>24. CASE Extract
  BY <1>24 DEF VolumeInv, WayInv, CalmInv, FirmwareInv, Calm, Suits, Nor,
     VolumePlaces, FormatPlaces, OldPlaces, NewPlaces, RestorePlaces, Kernel,
     KernelSize, HasKernel, Names, UbiFits, UbiKernel, Extract, Go, Fault, fixed
<1>25. CASE Sync
  BY <1>25 DEF VolumeInv, WayInv, CalmInv, FirmwareInv, Calm, Suits, Nor,
     VolumePlaces, FormatPlaces, OldPlaces, NewPlaces, RestorePlaces, Kernel,
     KernelSize, HasKernel, Names, UbiFits, UbiKernel, Sync, Go, fixed, flash
<1>26. CASE UNCHANGED vars
  BY <1>26 DEF vars, fixed, flash, VolumeInv, WayInv, CalmInv, FirmwareInv, Calm, Suits, Nor, VolumePlaces, FormatPlaces, OldPlaces, NewPlaces, RestorePlaces, Kernel, KernelSize, HasKernel, Names, UbiFits, UbiKernel
<1> QED
  BY <1>1, <1>2, <1>3, <1>4, <1>5, <1>6, <1>7, <1>8, <1>9, <1>10, <1>11, <1>12, <1>13, <1>14, <1>15, <1>16, <1>17, <1>18, <1>19, <1>20, <1>21, <1>22, <1>23, <1>24, <1>25, <1>26
     DEF Next, Step, Kill, Create, WriteVolumes

\* The settings.
LEMMA SettingsStep ==
    ASSUME TypeOK, WayInv, CalmInv, [Next]_vars, Calm', keep, Keepable
    PROVE  SettingsInv'
<1> USE CalmBefore, ImageFacts
<1>1. CASE Sysupgrade
  <2>0. ~Fault
    BY DEF Fault
  <2>1. /\ pc = "idle" /\ pc' = "stage2" /\ archive' = keep
        /\ overlay' = overlay /\ firmware' = firmware /\ firmware = "old"
    <3>1. pc = "idle" /\ archive' = keep /\ Go("stage2") /\ UNCHANGED flash
      BY <1>1, <2>0, Zenon DEF Sysupgrade
    <3> QED
      BY <3>1 DEF CalmInv, FirmwareInv, Go, flash
  <2>2. "settings" \in overlay
    BY <2>1 DEF CalmInv, SettingsInv
  <2> QED
    BY <2>1, <2>2 DEF SettingsInv, VolumePlaces, FormatPlaces
<1>2. CASE Stage2
  BY <1>2 DEF SettingsInv, WayInv, CalmInv, FirmwareInv, VolumeInv, Nor, NorPlaces,
     VolumePlaces, FormatPlaces, NewPlaces, RestorePlaces, Stage2, Way, Go, Fault,
     fixed, flash
<1>3. CASE MtdRuns
  <2>1. /\ pc = "mtd" /\ pc' = "mtd" /\ UNCHANGED <<archive, board>>
        /\ overlay' \in Behind /\ UNCHANGED faults
    BY <1>3 DEF MtdRuns, Go, fixed
  <2>2. archive /\ SettingsInv
    BY <2>1 DEF CalmInv, SettingsInv
  <2>3. ~Nor => overlay' = overlay
    BY <2>1 DEF Behind, Nor
  <2>4. Nor /\ firmware' = "new" /\ firmware # "new" => overlay' = {"tgz"}
    BY <2>1, <2>2 DEF Behind, Nor, Keepable
  <2>5. Nor /\ firmware' = "new" /\ firmware = "new" => overlay' = overlay
    BY <2>1 DEF Behind
  <2> QED
    BY <2>1, <2>2, <2>3, <2>4, <2>5
       DEF SettingsInv, VolumePlaces, FormatPlaces, Nor
<1>4. CASE MtdEnded
  BY <1>4 DEF SettingsInv, WayInv, CalmInv, FirmwareInv, VolumeInv, Nor, NorPlaces,
     VolumePlaces, FormatPlaces, NewPlaces, RestorePlaces, MtdEnded, Go, fixed,
     flash
<1>5. CASE Attach
  BY <1>5 DEF SettingsInv, WayInv, CalmInv, FirmwareInv, VolumeInv, Nor, NorPlaces,
     VolumePlaces, FormatPlaces, NewPlaces, RestorePlaces, Attach, Go, Fault, fixed
<1>6. CASE Unblock
  BY <1>6 DEF SettingsInv, WayInv, CalmInv, FirmwareInv, VolumeInv, Nor, NorPlaces,
     VolumePlaces, FormatPlaces, NewPlaces, RestorePlaces, Unblock, Go, Fault, fixed
<1>7. CASE Remove("kernel", "rm_kernel", "rm_root")
  BY <1>7 DEF SettingsInv, WayInv, CalmInv, FirmwareInv, VolumeInv, Nor, NorPlaces,
     VolumePlaces, FormatPlaces, NewPlaces, RestorePlaces, Remove, Go, Fault, fixed,
     Home
<1>8. CASE Remove("root", "rm_root", "rm_data")
  BY <1>8 DEF SettingsInv, WayInv, CalmInv, FirmwareInv, VolumeInv, Nor, NorPlaces,
     VolumePlaces, FormatPlaces, NewPlaces, RestorePlaces, Remove, Go, Fault, fixed,
     Home
<1>9. CASE Remove("data", "rm_data", "mk_kernel")
  BY <1>9 DEF SettingsInv, WayInv, CalmInv, FirmwareInv, VolumeInv, Nor, NorPlaces,
     VolumePlaces, FormatPlaces, NewPlaces, RestorePlaces, Remove, Go, Fault, fixed,
     Home
<1>10. CASE Make("kernel", HasKernel, image.kernel,
               "mk_kernel", "mk_root")
  BY <1>10 DEF SettingsInv, WayInv, CalmInv, FirmwareInv, VolumeInv, Nor, NorPlaces,
     VolumePlaces, FormatPlaces, NewPlaces, RestorePlaces, Make, Go, Fault, fixed
<1>11. CASE Make("root", TRUE, IF image.fs = "ubifs" THEN Free ELSE image.root,
               "mk_root", "mk_data")
  BY <1>11 DEF SettingsInv, WayInv, CalmInv, FirmwareInv, VolumeInv, Nor, NorPlaces,
     VolumePlaces, FormatPlaces, NewPlaces, RestorePlaces, Make, Go, Fault, fixed
<1>12. CASE Make("data", image.fs # "ubifs", Free,
               "mk_data", "write_kernel")
  BY <1>12 DEF SettingsInv, WayInv, CalmInv, FirmwareInv, VolumeInv, Nor, NorPlaces,
     VolumePlaces, FormatPlaces, NewPlaces, RestorePlaces, Make, Go, Fault, fixed
<1>13. CASE Open("kernel", HasKernel, image.kernel,
               "write_kernel", "writing_kernel", "write_root")
  BY <1>13 DEF SettingsInv, WayInv, CalmInv, FirmwareInv, VolumeInv, Nor, NorPlaces,
     VolumePlaces, FormatPlaces, NewPlaces, RestorePlaces, Open, Go, fixed, Home
<1>14. CASE Close("kernel", "writing_kernel", "write_root")
  BY <1>14 DEF SettingsInv, WayInv, CalmInv, FirmwareInv, VolumeInv, Nor, NorPlaces,
     VolumePlaces, FormatPlaces, NewPlaces, RestorePlaces, Close, Go, Fault, fixed
<1>15. CASE Open("root", TRUE, image.root, "write_root", "writing_root", "success")
  BY <1>15 DEF SettingsInv, WayInv, CalmInv, FirmwareInv, VolumeInv, Nor, NorPlaces,
     VolumePlaces, FormatPlaces, NewPlaces, RestorePlaces, Open, Go, fixed, Home
<1>16. CASE Close("root", "writing_root", "success")
  BY <1>16 DEF SettingsInv, WayInv, CalmInv, FirmwareInv, VolumeInv, Nor, NorPlaces,
     VolumePlaces, FormatPlaces, NewPlaces, RestorePlaces, Close, Go, Fault, fixed
<1>17. CASE Format
  BY <1>17 DEF SettingsInv, WayInv, CalmInv, FirmwareInv, VolumeInv, Nor, NorPlaces,
     VolumePlaces, FormatPlaces, NewPlaces, RestorePlaces, Format, Go, Fault, fixed
<1>18. CASE Formatted
  BY <1>18 DEF SettingsInv, WayInv, CalmInv, FirmwareInv, VolumeInv, Nor, NorPlaces,
     VolumePlaces, FormatPlaces, NewPlaces, RestorePlaces, Formatted, Go, Fault,
     fixed
<1>19. CASE Success
  BY <1>19 DEF SettingsInv, WayInv, CalmInv, FirmwareInv, VolumeInv, Nor, NorPlaces,
     VolumePlaces, FormatPlaces, NewPlaces, RestorePlaces, Success, Go, fixed, flash
<1>20. CASE RestoreConf
  BY <1>20 DEF SettingsInv, WayInv, CalmInv, FirmwareInv, VolumeInv, Nor, NorPlaces,
     VolumePlaces, FormatPlaces, NewPlaces, RestorePlaces, RestoreConf, Mountable,
     Home, Go, Fault, fixed
<1>21. CASE Reboot
  BY <1>21 DEF SettingsInv, WayInv, CalmInv, FirmwareInv, VolumeInv, Nor, NorPlaces,
     VolumePlaces, FormatPlaces, NewPlaces, RestorePlaces, Reboot, Go, fixed, flash
<1>22. CASE Boot
  BY <1>22 DEF SettingsInv, WayInv, CalmInv, FirmwareInv, VolumeInv, Nor, NorPlaces,
     VolumePlaces, FormatPlaces, NewPlaces, RestorePlaces, Boot, Bootable, There,
     Go, fixed, flash
<1>23. CASE Move
  BY <1>23 DEF SettingsInv, WayInv, CalmInv, FirmwareInv, VolumeInv, Nor, NorPlaces,
     VolumePlaces, FormatPlaces, NewPlaces, RestorePlaces, Move, Go, fixed
<1>24. CASE Extract
  BY <1>24 DEF SettingsInv, WayInv, CalmInv, FirmwareInv, VolumeInv, Nor, NorPlaces,
     VolumePlaces, FormatPlaces, NewPlaces, RestorePlaces, Extract, Go, Fault, fixed
<1>25. CASE Sync
  BY <1>25 DEF SettingsInv, WayInv, CalmInv, FirmwareInv, VolumeInv, Nor, NorPlaces,
     VolumePlaces, FormatPlaces, NewPlaces, RestorePlaces, Sync, Go, fixed, flash
<1>26. CASE UNCHANGED vars
  BY <1>26 DEF vars, fixed, flash, SettingsInv, WayInv, CalmInv, FirmwareInv, VolumeInv, Nor, NorPlaces, VolumePlaces, FormatPlaces, NewPlaces, RestorePlaces
<1> QED
  BY <1>1, <1>2, <1>3, <1>4, <1>5, <1>6, <1>7, <1>8, <1>9, <1>10, <1>11, <1>12, <1>13, <1>14, <1>15, <1>16, <1>17, <1>18, <1>19, <1>20, <1>21, <1>22, <1>23, <1>24, <1>25, <1>26
     DEF Next, Step, Kill, Create, WriteVolumes

\* Only a power cut counts as one.
LEMMA Uncut ==
    ASSUME TypeOK, [Next]_vars, cuts = 0, cuts' = 1
    PROVE  PowerCut
<1>1. cuts' # cuts
  OBVIOUS
<1> QED
  BY <1>1
     DEF Next, Step, Kill, Create, WriteVolumes, Sysupgrade, Stage2, MtdRuns, MtdEnded,
         Attach, Unblock, Remove, Make, Open, Close, Format, Formatted, Success,
         RestoreConf, Reboot, Boot, Move, Extract, Sync, Go, vars
-----------------------------------------------------------------------------
IInv == TypeOK /\ WayInv /\ ForgetInv /\ CalmInv

LEMMA InitVolumes == Init => VolumeTypes
<1> SUFFICES ASSUME Init PROVE VolumeTypes
  OBVIOUS
<1> DEFINE k == IF board.kind = "nand" THEN 1 ELSE 0
<1>1. PICK r \in 0 .. Blocks, d \in 0 .. Blocks, kk \in 0 .. 1 :
          Layout(kk, r, d) /\ kk + r + d <= Blocks
  <2>1. Blocks \in Nat /\ Blocks > 2
    BY UpgradeAssumption
  <2>2. CASE board.kind = "nor"
    <3>1. Layout(0, 0, 0)
      BY <2>2 DEF Init
    <3> QED
      BY <2>1, <3>1
  <2>3. CASE board.kind # "nor" /\ board.fs = "squashfs"
    <3>1. Layout(k, 1, Blocks - k - 1) /\ k \in 0 .. 1
      BY <2>3 DEF Init
    <3> QED
      BY <2>1, <3>1
  <2>4. CASE board.kind # "nor" /\ board.fs # "squashfs"
    <3>1. Layout(k, Blocks - k, 0) /\ k \in 0 .. 1
      BY <2>4 DEF Init
    <3> QED
      BY <2>1, <3>1
  <2> QED
    BY <2>2, <2>3, <2>4
<1>2. /\ size = [kernel |-> kk, root |-> r, data |-> d]
      /\ vol = [n \in Names |-> IF size[n] = 0 THEN "none" ELSE "old"]
  BY <1>1 DEF Layout
<1>3. size \in [Names -> 0 .. Blocks]
  BY <1>2, UpgradeAssumption DEF Names
<1>4. Free >= 0
  BY <1>1, <1>2, UpgradeAssumption DEF Free
<1> QED
  BY <1>2, <1>3, <1>4 DEF VolumeTypes, Names, Contents

LEMMA InitVolumesOld ==
    ASSUME Init
    PROVE  ~Nor => /\ vol["root"] = "old" /\ Kernel("old")
                   /\ board.fs = "squashfs" => vol["data"] = "old"
<1> DEFINE k == IF board.kind = "nand" THEN 1 ELSE 0
<1> SUFFICES ASSUME ~Nor
             PROVE  /\ vol["root"] = "old" /\ Kernel("old")
                    /\ board.fs = "squashfs" => vol["data"] = "old"
  OBVIOUS
<1>0. Blocks \in Nat /\ Blocks > 2
  BY UpgradeAssumption
<1>1. PICK r \in Nat, d \in Int :
          Layout(k, r, d) /\ r # 0 /\ (board.fs = "squashfs" => d # 0)
  <2>1. CASE board.fs = "squashfs"
    <3>1. Layout(k, 1, Blocks - k - 1)
      BY <2>1 DEF Init, Nor
    <3>2. Blocks - k - 1 \in Int /\ Blocks - k - 1 # 0
      BY <1>0
    <3>3. 1 \in Nat /\ 1 # 0
      OBVIOUS
    <3> HIDE DEF k
    <3> QED
      BY <3>1, <3>2, <3>3, Zenon
  <2>2. CASE board.fs # "squashfs"
    <3>1. Layout(k, Blocks - k, 0)
      BY <2>2 DEF Init, Nor
    <3>2. Blocks - k \in Nat /\ Blocks - k # 0 /\ 0 \in Int
      BY <1>0
    <3> HIDE DEF k
    <3> QED
      BY <3>1, <3>2, <2>2, Zenon
  <2> QED
    BY <2>1, <2>2
<1>2. /\ size = [kernel |-> k, root |-> r, data |-> d]
      /\ vol = [n \in Names |-> IF size[n] = 0 THEN "none" ELSE "old"]
  BY <1>1 DEF Layout
<1> QED
  BY <1>1, <1>2 DEF Kernel, Names

LEMMA InitInv == Init => IInv
<1> SUFFICES ASSUME Init PROVE IInv
  OBVIOUS
<1>1. TypeOK
  <2>1. PlainTypes
    <3>1. archive \in BOOLEAN /\ keep \in BOOLEAN
      BY Zenon DEF Init
    <3>2. overlay \subseteq {"settings", "tgz"}
      BY DEF Init
    <3>3. cuts \in 0 .. MaxCuts /\ faults \in 0 .. MaxFaults
      BY UpgradeAssumption DEF Init
    <3>4. /\ board \in [kind : {"nor", "nand", "nandk"}, fs : {"squashfs", "ubifs"}]
          /\ image \in Images
          /\ firmware \in {"old", "torn", "short", "new"}
          /\ status \in {"running", "ok", "failed", "off"}
          /\ ubi \in {"attached", "detached", "held"}
      BY Zenon DEF Init
    <3> QED
      BY <3>1, <3>2, <3>3, <3>4 DEF PlainTypes
  <2> QED
    BY <2>1, InitVolumes, TwoHalves
<1>2. WayInv
  <2>1. pc = "idle" /\ status = "running"
    BY DEF Init
  <2>2. image.form = "mtd" <=> Nor
    BY Zenon DEF Init, Nor
  <2> QED
    BY <2>1, <2>2 DEF WayInv, Places, NorPlaces, VolumePlaces
<1>3. ForgetInv
  <2>1. vol["root"] # "new"
    <3>1. vol["root"] \in {"old", "none"}
      BY DEF Init, Layout, Names
    <3> QED
      BY <3>1
  <2> QED
    BY <2>1 DEF Init, ForgetInv, RestorePlaces, Emptied, Nor
<1>4. CalmInv
  <2>1. FirmwareInv
    BY DEF Init, FirmwareInv, There
  <2>2. ~Nor => VolumeInv
    BY InitVolumesOld DEF Init, VolumeInv, OldPlaces, NewPlaces, RestorePlaces
  <2>3. keep => SettingsInv
    BY DEF Init, SettingsInv, VolumePlaces, FormatPlaces
  <2> QED
    BY <2>1, <2>2, <2>3 DEF CalmInv
<1> QED
  BY <1>1, <1>2, <1>3, <1>4 DEF IInv

LEMMA StepInv == IInv /\ [Next]_vars => IInv'
<1> SUFFICES ASSUME IInv, [Next]_vars PROVE IInv'
  OBVIOUS
<1> USE DEF IInv
<1>1. TypeOK'
  <2>1. PlainTypes /\ VolumeTypes
    BY TwoHalves
  <2>2. PlainTypes' /\ VolumeTypes'
    BY <2>1, PlainStep, VolumeStep
  <2> QED
    BY <2>2 DEF TypeOK, PlainTypes, VolumeTypes
<1>2. WayInv' /\ ForgetInv'
  BY WayStep, ForgetStep
<1>3. CalmInv'
  <2> SUFFICES ASSUME Calm'
               PROVE  /\ FirmwareInv'
                      /\ (~Nor)' => VolumeInv'
                      /\ (keep /\ Keepable)' => SettingsInv'
    BY DEF CalmInv
  <2>1. UNCHANGED fixed
    BY Counting
  <2>2. FirmwareInv'
    BY FirmwareStep
  <2>3. ASSUME (~Nor)' PROVE VolumeInv'
    BY <2>1, <2>3, VolumesStep DEF Nor, fixed
  <2>4. ASSUME (keep /\ Keepable)' PROVE SettingsInv'
    BY <2>1, <2>4, SettingsStep DEF fixed, Keepable
  <2> QED
    BY <2>2, <2>3, <2>4
<1> QED
  BY <1>1, <1>2, <1>3

LEMMA Invariance == Spec => []IInv
BY InitInv, StepInv, PTL DEF Spec

\* Every variable keeps its type, and the volumes fit the partition, for images of
\* any size and whatever fails (TypeOK).
THEOREM TypeCorrect == Spec => []TypeOK
<1>1. IInv => TypeOK
  BY DEF IInv
<1> QED
  BY <1>1, Invariance, PTL

\* The script orders the restart of a board whose firmware mtd writes only when mtd
\* has stored all that it was given (OnlyNew).
THEOREM RestartsIntoNew == Spec => []OnlyNew
<1>1. IInv => OnlyNew
  BY DEF IInv, WayInv, OnlyNew, Nor
<1> QED
  BY <1>1, Invariance, PTL

\* With -n a new system does not find the old one's settings, wherever power was cut
\* (Forgets).
THEOREM NothingKept == Spec => []Forgets
<1>1. IInv => Forgets
  BY DEF IInv, ForgetInv, Forgets, Nor
<1> QED
  BY <1>1, Invariance, PTL

\* After a power cut outside the replacement of the volumes the device starts again,
\* if nothing had failed before and the image suits the board (StartsAgain).
THEOREM CutIsHarmless == Spec => StartsAgain
<1>1. IInv /\ [Next]_vars
        => [Suits /\ faults = 0 /\ cuts = 0 /\ cuts' = 1 /\ pc \notin Replaced
              => Bootable']_vars
  <2> SUFFICES ASSUME IInv, [Next]_vars, Calm, cuts' = 1, pc \notin Replaced
               PROVE  Bootable'
    BY DEF Calm
  <2>1. PowerCut
    BY Uncut DEF Calm, IInv
  <2>2. /\ FirmwareInv /\ (~Nor => VolumeInv) /\ WayInv /\ TypeOK
    BY DEF IInv, CalmInv
  <2>3. pc # "mtd" /\ pc \in OldPlaces \cup NewPlaces
    BY <2>2 DEF WayInv, Places, NorPlaces, VolumePlaces, FormatPlaces, RestorePlaces,
        FirmwareInv, OldPlaces, NewPlaces, Replaced
  <2>4. UNCHANGED <<firmware, vol, board>>
    BY <2>1, <2>3 DEF PowerCut, fixed
  <2>5. Bootable
    <3>1. CASE Nor
      BY <2>2, <2>3, <3>1 DEF Bootable, There, FirmwareInv, Nor
    <3>2. CASE ~Nor
      BY <2>2, <2>3, <3>2, ImageFacts
         DEF Bootable, There, FirmwareInv, VolumeInv, Nor, Kernel
    <3> QED
      BY <3>1, <3>2
  <2> QED
    BY <2>4, <2>5 DEF Bootable
<1> QED
  BY <1>1, Invariance, PTL DEF Spec, StartsAgain

\* At any moment but those when they are in /tmp only (Exposed) a power cut leaves the
\* settings, or the archive of them, on the flash; on a NOR board if the image brings
\* an end marker and the archive has room (SettingsSurvive).
THEOREM SettingsAreSafe == Spec => SettingsSurvive
<1>1. IInv /\ [Next]_vars
        => [keep /\ Keepable /\ Suits /\ faults = 0 /\ cuts = 0 /\ cuts' = 1 /\ ~Exposed
              => overlay' # {}]_vars
  <2> SUFFICES ASSUME IInv, [Next]_vars, Calm, keep, Keepable, cuts' = 1, ~Exposed
               PROVE  overlay' # {}
    BY DEF Calm
  <2>1. PowerCut
    BY Uncut DEF Calm, IInv
  <2>2. FirmwareInv /\ SettingsInv /\ WayInv /\ TypeOK
    BY DEF IInv, CalmInv
  <2>3. \/ pc \in {"idle", "stage2", "attach", "block", "rm_kernel", "rm_root", "format",
                   "up", "rebooting", "restore"}
        \/ pc = "rm_data" /\ board.fs = "squashfs"
        \/ pc = "mtd" /\ (Nor => firmware = "new")
    BY <2>1, <2>2, ImageFacts
       DEF WayInv, Places, NorPlaces, VolumePlaces, FormatPlaces,
           RestorePlaces, FirmwareInv, Exposed, PowerCut, Nor
  <2>4. overlay # {}
    BY <2>2, <2>3 DEF SettingsInv
  <2>5. overlay' \in IF firmware' # firmware THEN Behind ELSE Persisted
    BY <2>1 DEF PowerCut
  <2>6. Persisted = {overlay}
    BY <2>3 DEF Persisted
  <2>7. firmware' # firmware => Behind = {overlay}
    <3>1. pc = "mtd" /\ firmware = "new" => firmware' = firmware
      BY <2>1 DEF PowerCut, Mtd!Lose, Mtd!End
    <3>2. pc # "mtd" => firmware' = firmware
      BY <2>1 DEF PowerCut
    <3> QED
      BY <3>1, <3>2, <2>3 DEF Behind, Nor
  <2> QED
    BY <2>4, <2>5, <2>6, <2>7
<1> QED
  BY <1>1, Invariance, PTL DEF Spec, SettingsSurvive
=============================================================================
