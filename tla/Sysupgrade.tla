----------------------------- MODULE Sysupgrade -----------------------------
(***************************************************************************)
(* The upgrade of a running system (sbin/sysupgrade, lib/upgrade/): from   *)
(* the saved configuration over the ramfs to the program that writes the   *)
(* flash, the restart, and the first boot, which restores the              *)
(* configuration.  "nor" boards have one firmware partition, which mtd     *)
(* writes; "nand" boards have UBI volumes, and their kernel among these or *)
(* in a partition of its own ("nandk").                                    *)
(*                                                                         *)
(* mtd is FirmwareUpdate, which MtdWrite implements, as far as the image   *)
(* goes; the archive that it appends may be lost and nobody told.  The ubi *)
(* tools, the kernel and what starts the scripts (procd) are not in the    *)
(* repository.  -f, which brings an archive of its own, is left out.       *)
(* The checks of the image before the upgrade (platform_check_image) are   *)
(* the boards' own: an image here is one that passed them.                 *)
(***************************************************************************)
EXTENDS Integers

CONSTANTS
    Blocks,     \* room for UBI volumes
    Images,     \* the kinds of images: form, sizes of their parts, file system of the
                \* root; and, of one for mtd, whether an end marker is behind it, and
                \* in the partition room for the archive behind that
    MaxCuts, MaxFaults

ASSUME UpgradeAssumption ==
    /\ Blocks \in Nat /\ Blocks > 2 /\ MaxCuts \in Nat /\ MaxFaults \in Nat
    /\ Images \subseteq [form : {"mtd", "tar", "ubi", "ubifs"}, kernel : Nat,
                         root : Nat \ {0}, fs : {"squashfs", "ubifs"},
                         tail : {"none", "marker", "room"}]
    /\ \A im \in Images : im.form = "ubifs" => im.kernel = 0 /\ im.fs = "ubifs"

VARIABLES
    board,      \* its kind, and the file system of the root it came with
    image, keep,
    pc,
    firmware, status,   \* the partition that mtd writes, and its exit status
    vol, size,  \* the volumes: what they hold and how large they are
    ubi,        \* attached, detached, or held: ubiblock still uses the root
    overlay,    \* the writable file system: the settings, or the archive of them
    archive,    \* /tmp/sysupgrade.tgz
    cuts, faults

flash == <<firmware, status, vol, size, ubi, overlay>>
fixed == <<board, image, keep>>
vars  == <<fixed, pc, flash, archive, cuts, faults>>

Mtd == INSTANCE FirmwareUpdate WITH firmware <- firmware, status <- status

Names == {"kernel", "root", "data"}
Free  == Blocks - (size["kernel"] + size["root"] + size["data"])

\* The volume with the writable file system: rootfs_data, or else the root.
Home == IF vol["data"] # "none" THEN "data" ELSE "root"

\* Only an archive with a kernel, for a board that boots it from a volume.
HasKernel == image.form = "tar" /\ image.kernel > 0 /\ board.kind = "nand"
-----------------------------------------------------------------------------
Layout(kernel, root, data) ==
    /\ size = [kernel |-> kernel, root |-> root, data |-> data]
    /\ vol = [n \in Names |-> IF size[n] = 0 THEN "none" ELSE "old"]

Init ==
    /\ board \in [kind : {"nor", "nand", "nandk"}, fs : {"squashfs", "ubifs"}]
    /\ image \in Images /\ (image.form = "mtd" <=> board.kind = "nor")
    /\ keep \in BOOLEAN
    /\ pc = "idle"
    /\ firmware = "old" /\ status = "running"
    /\ LET k == IF board.kind = "nand" THEN 1 ELSE 0
       IN  IF board.kind = "nor" THEN Layout(0, 0, 0)
           ELSE IF board.fs = "squashfs" THEN Layout(k, 1, Blocks - k - 1)
           ELSE Layout(k, Blocks - k, 0)
    /\ ubi \in {"attached", "detached"}
    /\ overlay = {"settings"} /\ archive = FALSE
    /\ cuts = 0 /\ faults = 0

Fault == faults < MaxFaults /\ faults' = faults + 1
Go(to) == pc' = to /\ UNCHANGED <<fixed, cuts>>

\* "sysupgrade <image>", with or without -n: the archive of the configuration is
\* written to /tmp, or one from before is removed.  When tar fails nothing begins;
\* with a root in a tmpfs, too, there is no archive, and the upgrade goes on without.
Sysupgrade ==
    /\ pc = "idle"
    /\ \/ archive' = keep /\ Go("stage2") /\ UNCHANGED faults
       \/ keep /\ archive' = FALSE /\ (Go("idle") \/ Go("stage2")) /\ Fault
    /\ UNCHANGED flash

\* Where the image's form and the board lead: default_do_upgrade, nand_do_upgrade.
Way ==
    IF image.form = "ubi" THEN "format"
    ELSE IF board.kind = "nor" \/ (board.kind = "nandk" /\ image.kernel > 0) THEN "mtd"
    ELSE "attach"

\* All processes are killed and the root is switched to a ramfs; or not, and the
\* script ends.
Stage2 ==
    /\ pc = "stage2"
    /\ \/ Go(Way) /\ UNCHANGED faults
       \/ Go("stopped") /\ Fault
    /\ UNCHANGED <<flash, archive>>
-----------------------------------------------------------------------------
(* mtd. *)
\* The image comes through a pipe: when that breaks, mtd takes it for the end.
CutShort ==
    /\ firmware = "torn" /\ firmware' = "short"
    /\ status' = "ok"

\* An erase or a write of the append (-j) fails: the image is there all the same, and
\* mtd goes on as if the archive were, too.
AppendFails == board.kind = "nor" /\ archive /\ Mtd!Install

\* What is left of the writable file system, which a NOR board has behind the image in
\* the same partition.  As long as the image is not whole, mtd may have come to it or
\* not.  An end marker starts it anew, and the archive takes the marker's place, if
\* there is room; without a marker nothing is appended, and what the image does not
\* reach stays.
Behind ==
    IF board.kind # "nor" \/ firmware' = firmware THEN {overlay}
    ELSE IF firmware' # "new" \/ image.tail = "none" THEN {overlay, {}}
    ELSE IF archive /\ image.tail = "room" /\ faults' = faults THEN {{"tgz"}}
    ELSE {{}}

MtdRuns ==
    /\ pc = "mtd" /\ status = "running" /\ Go("mtd")
    /\ \/ (Mtd!Tear \/ Mtd!Install \/ Mtd!Succeed) /\ UNCHANGED faults
       \/ (Mtd!GiveUp \/ CutShort \/ AppendFails) /\ Fault
    /\ overlay' \in Behind
    /\ UNCHANGED <<vol, size, ubi, archive>>

\* Mutant: the exit status of mtd is not looked at.
MtdEnded_Ignored ==
    /\ pc = "mtd" /\ status # "running"
    /\ Go(IF board.kind = "nor" THEN "rebooting" ELSE "attach")
    /\ UNCHANGED <<flash, archive, faults>>

\* default_do_upgrade: "[ $? -ne 0 ] && exit 1"; nand_upgrade_tar goes on.
MtdEnded ==
    /\ pc = "mtd" /\ status # "running"
    /\ Go(IF board.kind # "nor" THEN "attach"
          ELSE IF status = "ok" THEN "rebooting" ELSE "stopped")
    /\ UNCHANGED <<flash, archive, faults>>
-----------------------------------------------------------------------------
(***************************************************************************)
(* nand_upgrade_prepare_ubi.  Its result is not looked at: wherever it     *)
(* returns, the volumes are written next.                                  *)
(***************************************************************************)
\* Mutant: nobody tries to attach it first.
Attach_Formats ==
    /\ pc = "attach" /\ Go("block")
    /\ ubi' = "attached"
    /\ IF ubi = "attached" THEN UNCHANGED <<vol, size, overlay>>
       ELSE /\ vol' = [n \in Names |-> "none"] /\ size' = [n \in Names |-> 0]
            /\ overlay' = {}
    /\ UNCHANGED <<firmware, status, archive, faults>>

\* What cannot be attached is formatted: no volume is left.
Attach ==
    /\ pc = "attach" /\ Go("block")
    /\ ubi' = "attached"
    /\ \/ UNCHANGED <<vol, size, overlay, faults>>
       \/ /\ ubi = "detached" /\ Fault
          /\ vol' = [n \in Names |-> "none"] /\ size' = [n \in Names |-> 0]
          /\ overlay' = {}
    /\ UNCHANGED <<firmware, status, archive>>

\* The ubiblock device of a squashfs root has to go first.
Unblock ==
    /\ pc = "block"
    /\ \/ Go("rm_kernel") /\ UNCHANGED <<ubi, faults>>
       \/ /\ vol["root"] = "old" /\ board.fs = "squashfs"
          /\ Go("write_kernel") /\ ubi' = "held" /\ Fault
    /\ UNCHANGED <<firmware, status, vol, size, overlay, archive>>

\* "kill volumes": whether or not the image brings another one.
Remove(n, from, to) ==
    /\ pc = from /\ Go(to)
    /\ \/ /\ vol' = [vol EXCEPT ![n] = "none"] /\ size' = [size EXCEPT ![n] = 0]
          /\ overlay' = IF Home = n THEN {} ELSE overlay
          /\ UNCHANGED faults
       \/ vol[n] # "none" /\ Fault /\ UNCHANGED <<vol, size, overlay>>
    /\ UNCHANGED <<firmware, status, ubi, archive>>

\* Mutant: rootfs_data stays where it is.
Kill_NoData ==
    \/ Remove("kernel", "rm_kernel", "rm_root")
    \/ Remove("root", "rm_root", "rm_data")
    \/ pc = "rm_data" /\ Go("mk_kernel") /\ UNCHANGED <<flash, archive, faults>>

Kill ==
    \/ Remove("kernel", "rm_kernel", "rm_root")
    \/ Remove("root", "rm_root", "rm_data")
    \/ Remove("data", "rm_data", "mk_kernel")

Make(n, wanted, s, from, to) ==
    /\ pc = from
    /\ \/ /\ wanted /\ vol[n] = "none" /\ 0 < s /\ s <= Free
          /\ vol' = [vol EXCEPT ![n] = "empty"] /\ size' = [size EXCEPT ![n] = s]
          /\ Go(to) /\ UNCHANGED faults
       \/ /\ wanted
          /\ IF vol[n] = "none" /\ 0 < s /\ s <= Free THEN Fault ELSE UNCHANGED faults
          /\ Go("write_kernel") /\ UNCHANGED <<vol, size>>
       \/ ~wanted /\ Go(to) /\ UNCHANGED <<vol, size, faults>>
    /\ UNCHANGED <<firmware, status, ubi, overlay, archive>>

\* Mutant: rootfs_data, with all that is left, before the root.
Create_DataFirst ==
    \/ Make("kernel", HasKernel, image.kernel, "mk_kernel", "mk_data")
    \/ Make("data", image.fs # "ubifs", Free, "mk_data", "mk_root")
    \/ Make("root", TRUE, IF image.fs = "ubifs" THEN Free ELSE image.root,
            "mk_root", "write_kernel")

Create ==
    \/ Make("kernel", HasKernel, image.kernel, "mk_kernel", "mk_root")
    \/ Make("root", TRUE, IF image.fs = "ubifs" THEN Free ELSE image.root,
            "mk_root", "mk_data")
    \/ Make("data", image.fs # "ubifs", Free, "mk_data", "write_kernel")
-----------------------------------------------------------------------------
\* ubiupdatevol: it wants a volume that is there, large enough and not in use; and
\* its result is not looked at.
Open(n, wanted, length, from, during, to) ==
    /\ pc = from
    /\ IF wanted /\ vol[n] # "none" /\ length <= size[n] /\ ~(n = "root" /\ ubi = "held")
       THEN /\ vol' = [vol EXCEPT ![n] = "torn"] /\ Go(during)
            /\ overlay' = IF Home = n THEN {} ELSE overlay
       ELSE Go(to) /\ UNCHANGED <<vol, overlay>>
    /\ UNCHANGED <<firmware, status, size, ubi, archive, faults>>

Close(n, during, to) ==
    /\ pc = during /\ Go(to)
    /\ \/ vol' = [vol EXCEPT ![n] = "new"] /\ UNCHANGED faults
       \/ Fault /\ UNCHANGED vol
    /\ UNCHANGED <<firmware, status, size, ubi, overlay, archive>>

WriteVolumes ==
    \/ Open("kernel", HasKernel, image.kernel, "write_kernel", "writing_kernel", "write_root")
    \/ Close("kernel", "writing_kernel", "write_root")
    \/ Open("root", TRUE, image.root, "write_root", "writing_root", "success")
    \/ Close("root", "writing_root", "success")

\* Mutant: an image larger than the partition is written.
UbiFits_Always == TRUE

\* The sizes of the volumes of an ubinized image, once it is attached.
UbiKernel == IF board.kind = "nand" THEN image.kernel ELSE 0
UbiFits   == UbiKernel + image.root + (IF image.fs = "ubifs" THEN 0 ELSE 1) <= Blocks

\* nand_upgrade_ubinized: ubidetach, then ubiformat with the image, which has all
\* volumes; ubiformat leaves alone a partition that the image does not fit in or that
\* is still attached.
Format ==
    /\ pc = "format"
    /\ \/ /\ UbiFits /\ Go("formatting")
          /\ vol' = [n \in Names |-> "none"] /\ size' = [n \in Names |-> 0]
          /\ ubi' = "detached" /\ overlay' = {}
          /\ UNCHANGED faults
       \/ /\ Go("success")
          /\ IF UbiFits THEN Fault ELSE UNCHANGED faults
          /\ UNCHANGED <<vol, size, ubi, overlay>>
    /\ UNCHANGED <<firmware, status, archive>>

Formatted ==
    /\ pc = "formatting" /\ Go("success")
    /\ \/ /\ size' = IF image.fs = "ubifs"
                     THEN [kernel |-> UbiKernel, root |-> Blocks - UbiKernel, data |-> 0]
                     ELSE [kernel |-> UbiKernel, root |-> image.root,
                           data |-> Blocks - UbiKernel - image.root]
          /\ vol' = [n \in Names |-> IF size'[n] = 0 THEN "none"
                                     ELSE IF n = "data" THEN "empty" ELSE "new"]
          /\ ubi' = "attached" /\ UNCHANGED faults
       \/ Fault /\ UNCHANGED <<vol, size, ubi>>
    /\ UNCHANGED <<firmware, status, overlay, archive>>
-----------------------------------------------------------------------------
(* nand_do_upgrade_success: after whatever happened. *)
Success ==
    /\ pc = "success"
    /\ Go(IF archive THEN "restore_conf" ELSE "rebooting")
    /\ UNCHANGED <<flash, archive, faults>>

Mountable(n) ==
    IF n = "data" THEN vol[n] \in {"empty", "old"}
    ELSE \/ vol[n] = "new" /\ image.fs = "ubifs"
         \/ vol[n] = "old" /\ board.fs = "ubifs"

\* Mutant: the root is tried first, and rootfs_data never.
RestoreConf_Root ==
    /\ pc = "restore_conf" /\ Go("rebooting")
    /\ \/ /\ Mountable("root")
          /\ overlay' = overlay \cup {"tgz"} /\ archive' = FALSE
          /\ UNCHANGED faults
       \/ /\ IF Mountable("root") THEN Fault ELSE UNCHANGED faults
          /\ UNCHANGED <<overlay, archive>>
    /\ UNCHANGED <<firmware, status, vol, size, ubi>>

\* nand_restore_config.
RestoreConf ==
    /\ pc = "restore_conf" /\ Go("rebooting")
    /\ \/ /\ Mountable(Home)
          /\ overlay' = overlay \cup {"tgz"} /\ archive' = FALSE
          /\ UNCHANGED faults
       \/ /\ IF Mountable(Home) THEN Fault ELSE UNCHANGED faults
          /\ UNCHANGED <<overlay, archive>>
    /\ UNCHANGED <<firmware, status, vol, size, ubi>>

Reboot ==
    /\ pc = "rebooting" /\ Go("off")
    /\ archive' = FALSE
    /\ UNCHANGED <<flash, faults>>
-----------------------------------------------------------------------------
(* The next start. *)
There(content) == content \in {"old", "new"}

Bootable ==
    CASE board.kind = "nor"   -> There(firmware)
      [] board.kind = "nand"  -> There(vol["kernel"]) /\ There(vol["root"])
      [] board.kind = "nandk" -> There(firmware) /\ There(vol["root"])

Boot ==
    /\ pc = "off"
    /\ Go(IF ~Bootable THEN "dead"
          ELSE IF "tgz" \in overlay THEN "restore" ELSE "up")
    /\ UNCHANGED <<flash, archive, faults>>

\* do_mount_root: "mv sysupgrade.tgz /tmp; tar xzf ...; rm ...; sync".
Move ==
    /\ pc = "restore" /\ Go("extract")
    /\ archive' = TRUE /\ overlay' = overlay \ {"tgz"}
    /\ UNCHANGED <<firmware, status, vol, size, ubi, faults>>

Extract ==
    /\ pc = "extract" /\ Go("sync")
    /\ archive' = FALSE
    /\ \/ overlay' = overlay \cup {"settings"} /\ UNCHANGED faults
       \/ Fault /\ UNCHANGED overlay
    /\ UNCHANGED <<firmware, status, vol, size, ubi>>

Sync == pc = "sync" /\ Go("up") /\ UNCHANGED <<flash, archive, faults>>

\* What of the overlay has reached the flash: until sync that may be any of what was
\* written, and the archive may be still there.
Persisted ==
    CASE pc = "extract" -> {overlay, overlay \cup {"tgz"}}
      [] pc = "sync"    -> {overlay, overlay \ {"settings"},
                            (overlay \ {"settings"}) \cup {"tgz"}, overlay \cup {"tgz"}}
      [] OTHER          -> {overlay}

PowerCut ==
    /\ pc \notin {"off", "dead"} /\ pc' = "off" /\ UNCHANGED fixed
    /\ IF pc = "stopped" THEN UNCHANGED cuts      \* what ran the script restarts it
       ELSE cuts < MaxCuts /\ cuts' = cuts + 1
    /\ IF pc = "mtd" /\ status = "running" THEN Mtd!Lose ELSE UNCHANGED <<firmware, status>>
    /\ overlay' \in IF firmware' # firmware THEN Behind ELSE Persisted
    /\ archive' = FALSE
    /\ UNCHANGED <<vol, size, ubi, faults>>

\* The scripts, and the start of the device, go on by themselves.
Step ==
    \/ Stage2 \/ MtdRuns \/ MtdEnded
    \/ Attach \/ Unblock \/ Kill \/ Create \/ WriteVolumes
    \/ Format \/ Formatted
    \/ Success \/ RestoreConf \/ Reboot
    \/ Boot \/ Move \/ Extract \/ Sync

Next == Sysupgrade \/ Step \/ PowerCut

Spec == Init /\ [][Next]_vars
FairSpec == Spec /\ WF_vars(Step)
-----------------------------------------------------------------------------
(***************************************************************************)
(* Properties                                                              *)
(***************************************************************************)
Contents == {"none", "empty", "old", "torn", "new"}

TypeOK ==
    /\ board \in [kind : {"nor", "nand", "nandk"}, fs : {"squashfs", "ubifs"}]
    /\ image \in Images /\ keep \in BOOLEAN /\ archive \in BOOLEAN
    /\ firmware \in {"old", "torn", "short", "new"}
    /\ status \in {"running", "ok", "failed", "off"}
    /\ vol \in [Names -> Contents] /\ size \in [Names -> 0 .. Blocks] /\ Free >= 0
    /\ \A n \in Names : vol[n] = "none" <=> size[n] = 0
    /\ ubi \in {"attached", "detached", "held"}
    /\ overlay \subseteq {"settings", "tgz"}
    /\ cuts \in 0 .. MaxCuts /\ faults \in 0 .. MaxFaults

\* The script restarts a board whose firmware mtd writes only when all of the image
\* it was given is there, whatever else fails.  When it was given less than the
\* image, nobody knows.
OnlyNew == board.kind = "nor" /\ pc = "rebooting" => firmware \in {"new", "short"}

\* The image fits, and has what is removed for it: a kernel, where that is a volume.
Suits ==
    /\ image.fs = "squashfs" /\ board.kind # "nor" =>
          (IF board.kind = "nand" THEN image.kernel ELSE 0) + image.root < Blocks
    /\ image.fs = "ubifs" /\ board.kind # "nor" =>
          (IF board.kind = "nand" THEN image.kernel ELSE 0) + image.root <= Blocks
    /\ board.kind = "nand" => image.kernel > 0

\* On a NOR board the archive has a place: the end marker's, with room behind it.
Keepable == board.kind = "nor" => image.tail = "room"

\* A suitable image is installed and the settings come back, if they have a place to
\* be kept in and nothing fails.
Installed ==
    /\ pc = "up"
    /\ IF board.kind = "nor" THEN firmware = "new" ELSE vol["root"] = "new"
    /\ board.kind = "nand" => vol["kernel"] = "new"
    /\ board.kind = "nandk" /\ image.form = "tar" /\ image.kernel > 0 => firmware = "new"
    /\ keep /\ Keepable => "settings" \in overlay

Completes == pc = "stage2" /\ Suits ~> Installed \/ faults > 0 \/ cuts > 0

\* "-n: do not save configuration over reflash": a new system does not find the old
\* one's settings, wherever power was cut; when nothing failed to be removed, and, on
\* a NOR board, the image brings an end marker.
Forgets ==
    ~keep /\ faults = 0
        /\ (IF board.kind = "nor" THEN firmware = "new" /\ image.tail # "none"
            ELSE vol["root"] = "new")
    => "settings" \notin overlay

\* While the settings are in /tmp only: from the moment their volume goes, or mtd has
\* begun, until the archive is on the flash; and again from there to the sync of the
\* first boot.
Exposed ==
    \/ pc = "mtd" /\ board.kind = "nor" /\ firmware # "new"
    \/ pc = "rm_data" /\ board.fs = "ubifs"
    \/ pc \in {"mk_kernel", "mk_root", "mk_data", "write_kernel", "writing_kernel",
               "write_root", "writing_root", "formatting", "success", "restore_conf"}
    \/ pc \in {"extract", "sync"}

\* At any other time power may be cut: the settings are not lost, if nothing failed.
SettingsSurvive ==
    [][keep /\ Keepable /\ Suits /\ faults = 0 /\ cuts = 0 /\ cuts' = 1 /\ ~Exposed
          => overlay' # {}]_vars

\* And the device starts again after any cut but one while its volumes are replaced.
Replaced ==
    {"mtd", "rm_root", "rm_data", "mk_kernel", "mk_root", "mk_data", "write_kernel",
     "writing_kernel", "write_root", "writing_root", "formatting"}

StartsAgain ==
    [][Suits /\ faults = 0 /\ cuts = 0 /\ cuts' = 1 /\ pc \notin Replaced => Bootable']_vars
=============================================================================
