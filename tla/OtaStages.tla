----------------------------- MODULE OtaStages ------------------------------
(***************************************************************************)
(* The update descriptions ("sw-description") that swupdate carries out,   *)
(* as data.  A description is a set of named stages; a stage is a sequence *)
(* of steps on volumes, and the boot loader's variables to set when all of *)
(* them succeeded.  The boot loader programs (uboot, boot0), which most    *)
(* first stages write too, are left out.                                   *)
(***************************************************************************)
EXTENDS Integers, Sequences

\* A system is what the variables boot_partition and root_partition name.
System(boot, root) == [boot |-> boot, root |-> root]

SystemA  == System("bootA", "rootfsA")
SystemB  == System("bootB", "rootfsB")
Main     == System("boot", "rootfs")
Recovery == System("recovery", "rootfs")

\* The volumes it takes to start a system: the recovery image has its own root
\* file system.
VolumesOf(s) == IF s.boot = "recovery" THEN {"recovery"} ELSE {s.boot, s.root}

(***************************************************************************)
(* Steps.  "write" installs a full image, "patch" applies a delta to what  *)
(* another volume holds, "copy" copies a volume; "base" and "new" are      *)
(* readbacks, which compare a volume with the release the delta starts     *)
(* from and with the release that is being installed.                      *)
(***************************************************************************)
Step(op, v, from) == [op |-> op, vol |-> v, from |-> from]
Write(v)       == Step("write", v, v)
Patch(v, base) == Step("patch", v, base)
Copy(v, from)  == Step("copy", v, from)
Base(v)        == Step("base", v, v)
New(v)         == Step("new", v, v)

Writes(step) == step.op \in {"write", "patch", "copy"}

(***************************************************************************)
(* A stage: its steps; whether they go through the fifos that the install  *)
(* scripts open; swu_mode, boot_partition and root_partition as it leaves  *)
(* them ("" for a partition it does not set); whether swu_next asks for a  *)
(* reboot.  The comments say, not a field, in which systems a stage runs:  *)
(* "in" has those and the ones that would be booted meanwhile, and "on"    *)
(* tells whether these are of the old or of the new release.               *)
(***************************************************************************)
Stage(steps, fifo, mode, boot, root, reboot, in, on) ==
    [steps |-> steps, fifo |-> fifo, mode |-> mode, boot |-> boot,
     root |-> root, reboot |-> reboot, in |-> in, on |-> on]

Left(old, new) == IF new = "" THEN old ELSE new
After(s, st)   == System(Left(s.boot, st.boot), Left(s.root, st.root))

\* upgrade_usr, the same in every description that has it: "clean swu_param,
\* swu_software, swu_mode & reboot".
UpgradeUsr(in) == Stage(<<>>, FALSE, "", "", "", TRUE, in, "new")

\* Each update of a description begins in one of these systems, with this stage.
Description(volumes, begins, stages) ==
    [volumes |-> volumes, begins |-> begins, stages |-> stages]
-----------------------------------------------------------------------------
(* One system and a recovery system. *)
MainVolumes == {"boot", "rootfs", "recovery"}

\* sw-description-ubi
Ubi ==
    Description(MainVolumes, {<<Main, "upgrade_recovery">>},
      [upgrade_recovery |->
         Stage(<<Write("recovery")>>, FALSE,
               "upgrade_kernel", "recovery", "", TRUE, {Main}, "old"),
       upgrade_kernel |->
         Stage(<<Write("boot"), Write("rootfs")>>, FALSE,
               "upgrade_usr", "boot", "", FALSE, {Recovery}, "new"),
       upgrade_usr |-> UpgradeUsr({Main, Recovery})])

\* sw-description-readback: the same, each volume compared once it is written.
Readback ==
    Description(MainVolumes, {<<Main, "upgrade_recovery">>},
      [upgrade_recovery |->
         Stage(<<Write("recovery"), New("recovery")>>, FALSE,
               "upgrade_kernel", "recovery", "", TRUE, {Main}, "old"),
       upgrade_kernel |->
         Stage(<<Write("boot"), Write("rootfs"), New("boot"), New("rootfs")>>, FALSE,
               "upgrade_usr", "boot", "", FALSE, {Recovery}, "new"),
       upgrade_usr |-> UpgradeUsr({Main, Recovery})])

\* sw-description-recovery-rdiff: deltas are applied to files on the data
\* partition, compared, and copied to the volumes.
RecoveryRdiff ==
    Description(MainVolumes \cup {"/data/recovery", "/data/kernel", "/data/rootfs"},
      {<<Main, "check_recovery_base">>},
      [check_recovery_base |->
         Stage(<<Base("recovery")>>, FALSE,
               "patch_recovery", "", "", FALSE, {Main}, "old"),
       patch_recovery |->
         Stage(<<Patch("/data/recovery", "recovery"), New("/data/recovery")>>, FALSE,
               "apply_recovery", "", "", FALSE, {Main}, "old"),
       apply_recovery |->
         Stage(<<Copy("recovery", "/data/recovery")>>, FALSE,
               "check_system_base", "recovery", "", TRUE, {Main}, "old"),
       check_system_base |->
         Stage(<<Base("boot"), Base("rootfs")>>, FALSE,
               "patch_system", "", "", FALSE, {Recovery}, "new"),
       patch_system |->
         Stage(<<Patch("/data/kernel", "boot"), Patch("/data/rootfs", "rootfs"),
                 New("/data/kernel"), New("/data/rootfs")>>, FALSE,
               "apply_system", "", "", FALSE, {Recovery}, "new"),
       apply_system |->
         Stage(<<Copy("boot", "/data/kernel"), Copy("rootfs", "/data/rootfs")>>, FALSE,
               "", "boot", "", TRUE, {Recovery}, "new")])
-----------------------------------------------------------------------------
(* Two systems, one updated from the other. *)
TwoVolumes == {"bootA", "rootfsA", "bootB", "rootfsB"}
TwoBegin   == {<<SystemA, "now_A_next_B">>, <<SystemB, "now_B_next_A">>}

\* sw-description-ab-ubi: full images.
AbUbi ==
    Description(TwoVolumes, TwoBegin,
      [now_A_next_B |->
         Stage(<<Write("bootB"), Write("rootfsB")>>, FALSE,
               "", "bootB", "rootfsB", TRUE, {SystemA}, "old"),
       now_B_next_A |->
         Stage(<<Write("bootA"), Write("rootfsA")>>, FALSE,
               "", "bootA", "rootfsA", TRUE, {SystemB}, "old")])

\* Mutant: the stages follow one another in a circle.
AbAuto_Circle ==
    Description(TwoVolumes, TwoBegin,
      [now_A_next_B |->
         Stage(<<Write("bootB"), Write("rootfsB")>>, FALSE,
               "upgrade_usr", "bootB", "rootfsB", FALSE, {SystemA}, "old"),
       now_B_next_A |->
         Stage(<<Write("bootA"), Write("rootfsA")>>, FALSE,
               "upgrade_usr", "bootA", "rootfsA", FALSE, {SystemB}, "old"),
       upgrade_usr |->
         Stage(<<>>, FALSE, "upgrade_usr", "", "", TRUE, {SystemA, SystemB}, "new")])

\* sw-description-ab of the "auto" boards: full images, then upgrade_usr, which
\* runs in the old system or, after a power cut, in the new one.
AbAuto ==
    Description(TwoVolumes, TwoBegin,
      [now_A_next_B |->
         Stage(<<Write("bootB"), Write("rootfsB")>>, FALSE,
               "upgrade_usr", "bootB", "rootfsB", FALSE, {SystemA}, "old"),
       now_B_next_A |->
         Stage(<<Write("bootA"), Write("rootfsA")>>, FALSE,
               "upgrade_usr", "bootA", "rootfsA", FALSE, {SystemB}, "old"),
       upgrade_usr |-> UpgradeUsr({SystemA, SystemB})])

\* sw-description-ab-rdiff: deltas, through fifos.
AbRdiff ==
    Description(TwoVolumes, TwoBegin,
      [now_A_next_B |->
         Stage(<<Patch("bootB", "bootA"), Patch("rootfsB", "rootfsA")>>, TRUE,
               "", "bootB", "rootfsB", TRUE, {SystemA}, "old"),
       now_B_next_A |->
         Stage(<<Patch("bootA", "bootB"), Patch("rootfsA", "rootfsB")>>, TRUE,
               "", "bootA", "rootfsA", TRUE, {SystemB}, "old")])
-----------------------------------------------------------------------------
(***************************************************************************)
(* What makes a description safe: whoever runs it, power may fail at any   *)
(* moment.                                                                 *)
(***************************************************************************)
Written(st) == {st.steps[i].vol : i \in {j \in DOMAIN st.steps : Writes(st.steps[j])}}

\* The volumes a stage copies: they must hold the new release when it begins.
Sources(st) ==
    {st.steps[i].from : i \in {j \in DOMAIN st.steps : st.steps[j].op = "copy"}}

\* A step after which its volume is known to hold the new release.
Delivers(step, st, s) ==
    \/ step.op \in {"write", "copy", "new"}
    \/ step.op = "patch" /\ st.on = "old" /\ step.from \in VolumesOf(s)

Delivered(st, s) ==
    {st.steps[i].vol : i \in {j \in DOMAIN st.steps : Delivers(st.steps[j], st, s)}}

\* No stage touches what runs or what would be booted, nor what it copies from;
\* no volume is written twice, nor after it was compared.
Apart(st) ==
    /\ \A s \in st.in : Written(st) \cap VolumesOf(s) = {}
    /\ Written(st) \cap Sources(st) = {}
    /\ \A i, j \in DOMAIN st.steps :
          i < j /\ Writes(st.steps[j]) => st.steps[i].vol # st.steps[j].vol
    /\ st.fifo => \A i \in DOMAIN st.steps : Writes(st.steps[i])

\* A stage hands over to systems it has delivered in full, or changes nothing.
Switches(st, s) ==
    VolumesOf(After(s, st)) # VolumesOf(s) =>
        VolumesOf(After(s, st)) \subseteq Delivered(st, s)

\* The stage that follows finds the system it expects and what it copies.
Follows(st, next, s) ==
    /\ After(s, st) \in next.in
    /\ ~st.reboot => st.in \subseteq next.in
    /\ next.on = IF VolumesOf(After(s, st)) = VolumesOf(s) THEN st.on ELSE "new"
    /\ Sources(next) \subseteq Delivered(st, s) \cup (Sources(st) \ Written(st))

\* The last stage leaves the new release behind.
Concludes(st, s) ==
    /\ st.reboot
    /\ st.on = "new" \/ VolumesOf(After(s, st)) # VolumesOf(s)

\* The recovery system is of the new release, and once left is not entered again.
Rescues(st, s) ==
    IF st.on = "old" THEN s.boot # "recovery"
    ELSE After(s, st).boot = "recovery" => s.boot = "recovery"

\* The last stage leaves the recovery system, or the one before it did.
Leaves(st) == st.boot \notin {"", "recovery"}

Returns(d) == \A m \in DOMAIN d.stages : d.stages[m].mode = "" =>
    \/ Leaves(d.stages[m])
    \/ /\ d.stages[m].boot = ""
       /\ \A p \in DOMAIN d.stages : d.stages[p].mode = m => Leaves(d.stages[p])

(***************************************************************************)
(* What makes every attempt at a stage succeed: each comparison finds what *)
(* it expects and each delta is applied to what it was made from.  Only    *)
(* the first of all comparisons is not certain: the device may have come   *)
(* with another recovery system.                                           *)
(***************************************************************************)
FirstCheck == "check_recovery_base"

\* The volumes a stage compares with the old release, and all it needs of that.
Compared(st) == {st.steps[i].vol : i \in {j \in DOMAIN st.steps : st.steps[j].op = "base"}}

Needs(st) == Compared(st) \cup
    {st.steps[i].from : i \in {j \in DOMAIN st.steps : st.steps[j].op = "patch"}}

\* The recovery system that the next update will be compared with.
FirstNeeds(d) == IF FirstCheck \in DOMAIN d.stages THEN Needs(d.stages[FirstCheck]) ELSE {}

\* A stage leaves alone what it needs, and compares with the new release only what
\* it has written before.
Repeatable(st) ==
    /\ Written(st) \cap Needs(st) = {}
    /\ \A j \in DOMAIN st.steps : st.steps[j].op = "new" =>
          \E k \in 1 .. j - 1 : Writes(st.steps[k]) /\ st.steps[k].vol = st.steps[j].vol

\* What holds the old release when a stage is done.
OldAfter(st, s) ==
    (Compared(st) \cup IF st.on = "old" THEN VolumesOf(s) ELSE {}) \ Written(st)

\* What holds the new release when the update is done.
NewAfter(st, s) == Delivered(st, s) \cup IF st.on = "new" THEN VolumesOf(s) ELSE {}

Certain(d) ==
    /\ \A b \in d.begins :
          b[2] = FirstCheck \/ Needs(d.stages[b[2]]) \subseteq VolumesOf(b[1])
    /\ \A m \in DOMAIN d.stages : LET st == d.stages[m] IN
          /\ Repeatable(st)
          /\ m = FirstCheck => st.on = "old"
          /\ st.mode # FirstCheck
          /\ \A s \in st.in :
                IF st.mode = "" THEN FirstNeeds(d) \subseteq NewAfter(st, s)
                ELSE Needs(d.stages[st.mode]) \subseteq OldAfter(st, s)
-----------------------------------------------------------------------------
StepsOn(volumes) ==
    [op : {"write", "patch", "copy", "base", "new"}, vol : volumes, from : volumes]

WellFormed(st, volumes) ==
    /\ st.steps \in Seq(StepsOn(volumes))
    /\ st.fifo \in BOOLEAN /\ st.reboot \in BOOLEAN
    /\ st.mode \in STRING /\ st.boot \in STRING /\ st.root \in STRING
    /\ st.on \in {"old", "new"}
    /\ \A s \in st.in : s \in [boot : STRING, root : STRING] /\ VolumesOf(s) \subseteq volumes

Sound(d) ==
    /\ Returns(d) /\ Certain(d)
    /\ \A b \in d.begins :
          /\ b[2] \in DOMAIN d.stages
          /\ b[1] \in d.stages[b[2]].in
          /\ d.stages[b[2]].on = "old"
          /\ Sources(d.stages[b[2]]) = {}
    /\ \A m \in DOMAIN d.stages : LET st == d.stages[m] IN
          /\ m # "" /\ WellFormed(st, d.volumes) /\ Apart(st)
          /\ \A s \in st.in :
                /\ Switches(st, s) /\ Rescues(st, s)
                /\ IF st.mode = "" THEN Concludes(st, s)
                   ELSE st.mode \in DOMAIN d.stages /\ Follows(st, d.stages[st.mode], s)
=============================================================================
