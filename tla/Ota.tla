-------------------------------- MODULE Ota ---------------------------------
(***************************************************************************)
(* A device that updates itself with swupdate, from the descriptions of    *)
(* OtaStages: the stages one after the other, the boot loader's variables  *)
(* that say how far the update is and what to boot, the install scripts of *)
(* the delta update with the ubiupdatevol processes they leave in the      *)
(* background, power cuts and restarts.                                    *)
(*                                                                         *)
(* swupdate, ubiupdatevol and the boot loader are not in the repository:   *)
(* they are modelled by what the descriptions and scripts expect of them.  *)
(* The variables are set at once: fw_env.config names two copies of them.  *)
(* Releases are numbers; Torn is what a volume holds that is being written *)
(* or was left half written.                                               *)
(***************************************************************************)
EXTENDS OtaStages

CONSTANTS
    Descriptions,
    MaxRelease, MaxCuts, MaxFaults    \* bounds: releases, power cuts, faults

ASSUME OtaAssumption ==
    /\ \A d \in Descriptions : Sound(d)
    /\ MaxRelease \in Nat \ {0} /\ MaxCuts \in Nat /\ MaxFaults \in Nat

VARIABLES
    desc,          \* the description this device is updated with
    vol,           \* the volumes' contents
    env,           \* swu_mode, boot_partition, root_partition
    running,       \* the system that runs, or Off
    release,       \* the release that is being installed
    pc, mode, i,   \* swupdate: where it is, "-e stable,<mode>", which step
    node,          \* /dev/by-name/<volume>_fifo
    writer, got,   \* the ubiupdatevol of a volume, and what it was given
    cuts, faults   \* bounds

swuVars  == <<pc, mode, i>>
fifoVars == <<node, writer, got>>
vars == <<desc, vol, env, running, release, swuVars, fifoVars, cuts, faults>>

Off  == System("", "")
Torn == 0

\* What a writer was given: nothing, a part of an image, or the release of a
\* complete image; Torn when the data of two images were mixed.
Nothing == -1
Part    == -2

Volumes == desc.volumes
Booted  == System(env.boot, env.root)
stage   == desc.stages[mode]
step    == stage.steps[i]
Last    == Len(stage.steps)
-----------------------------------------------------------------------------
Init ==
    /\ desc \in Descriptions
    /\ \E b \in desc.begins :
          /\ running = b[1]
          /\ env = [mode |-> "", boot |-> b[1].boot, root |-> b[1].root]
          /\ vol \in {c \in [desc.volumes -> {Torn, 1}] : \A v \in VolumesOf(b[1]) : c[v] = 1}
    /\ release = 1
    /\ pc = "idle" /\ mode = "" /\ i = 1
    /\ node = [v \in Volumes |-> "none"]
    /\ writer = [v \in Volumes |-> "none"]
    /\ got = [v \in Volumes |-> Nothing]
    /\ cuts = 0 /\ faults = 0

\* Somebody starts the update to the next release.
Begin ==
    /\ pc = "idle" /\ env.mode = "" /\ running # Off
    /\ \E b \in desc.begins :
          /\ b[1] = running
          /\ vol[running.boot] < MaxRelease
          /\ release' = vol[running.boot] + 1
          /\ env' = [env EXCEPT !.mode = b[2]]
    /\ UNCHANGED <<desc, vol, running, swuVars, fifoVars, cuts, faults>>

\* swupdate is called for the stage that swu_mode names: at once, or when the
\* device has started again (S99swupdate_autorun).
Start ==
    /\ pc = "idle" /\ env.mode # "" /\ running # Off
    /\ mode' = env.mode /\ i' = 1
    /\ pc' = IF desc.stages[env.mode].fifo THEN "pre_look" ELSE "step"
    /\ UNCHANGED <<desc, vol, env, running, release, fifoVars, cuts, faults>>

\* A failure ends swupdate; the variables stay as they are.
Fails == pc' = "failed" /\ UNCHANGED <<mode, i>>

Fault ==
    /\ faults < MaxFaults /\ faults' = faults + 1

StepFault ==
    /\ pc \in {"step", "writing"} /\ i <= Last
    /\ Fault /\ Fails
    /\ UNCHANGED <<desc, vol, env, running, release, fifoVars, cuts>>

\* Somebody calls swupdate again.
Retry ==
    /\ pc = "failed" /\ pc' = "idle"
    /\ UNCHANGED <<desc, vol, env, running, release, mode, i, fifoVars, cuts, faults>>
-----------------------------------------------------------------------------
(***************************************************************************)
(* The steps of a stage.                                                   *)
(***************************************************************************)
\* Mutant: rdiffbase is missing, the delta is applied to what the volume holds.
Result_NoBase ==
    CASE step.op = "write" -> release
      [] step.op = "patch" -> IF vol[step.vol] = release - 1 THEN release ELSE Torn
      [] OTHER             -> vol[step.from]

Result == CASE step.op = "write" -> release
            [] step.op = "patch" -> IF vol[step.from] = release - 1 THEN release ELSE Torn
            [] OTHER             -> vol[step.from]

NextStep == pc' = "step" /\ i' = i + 1 /\ UNCHANGED mode

\* A volume, or the fifo that leads to it, is opened for writing.
OpenVolume ==
    /\ pc = "step" /\ i <= Last /\ Writes(step)
    /\ IF stage.fifo
       THEN /\ got' = [got EXCEPT ![step.vol] =
                          IF writer[step.vol] # "open" THEN @
                          ELSE IF @ = Nothing THEN Part ELSE Torn]
            /\ UNCHANGED vol
       ELSE vol' = [vol EXCEPT ![step.vol] = Torn] /\ UNCHANGED got
    /\ pc' = "writing"
    /\ UNCHANGED <<desc, env, running, release, mode, i, node, writer, cuts, faults>>

CloseVolume ==
    /\ pc = "writing"
    /\ IF stage.fifo
       THEN /\ got' = [got EXCEPT ![step.vol] = IF @ = Part THEN Result ELSE @]
            /\ UNCHANGED vol
       ELSE vol' = [vol EXCEPT ![step.vol] = Result] /\ UNCHANGED got
    /\ NextStep
    /\ UNCHANGED <<desc, env, running, release, node, writer, cuts, faults>>

Compare ==
    /\ pc = "step" /\ i <= Last /\ ~Writes(step)
    /\ IF vol[step.vol] = (IF step.op = "base" THEN release - 1 ELSE release)
       THEN NextStep ELSE Fails
    /\ UNCHANGED <<desc, vol, env, running, release, fifoVars, cuts, faults>>

StepsDone ==
    /\ pc = "step" /\ i > Last
    /\ pc' = IF stage.fifo THEN "post_look" ELSE "set"
    /\ i' = 1
    /\ UNCHANGED <<desc, vol, env, running, release, mode, fifoVars, cuts, faults>>

\* Mutant: root_partition is forgotten.
SetEnv_NoRoot ==
    /\ pc = "set"
    /\ env' = [mode |-> stage.mode, boot |-> Left(env.boot, stage.boot), root |-> env.root]
    /\ pc' = "after"
    /\ UNCHANGED <<desc, vol, running, release, mode, i, fifoVars, cuts, faults>>

\* Mutant: swu_mode is not cleared.
SetEnv_KeepsMode ==
    /\ pc = "set"
    /\ env' = [mode |-> IF stage.mode = "" THEN env.mode ELSE stage.mode,
               boot |-> Left(env.boot, stage.boot), root |-> Left(env.root, stage.root)]
    /\ pc' = "after"
    /\ UNCHANGED <<desc, vol, running, release, mode, i, fifoVars, cuts, faults>>

\* Mutant: swu_mode is cleared by every stage.
SetEnv_Cleared ==
    /\ pc = "set"
    /\ env' = [mode |-> "", boot |-> Left(env.boot, stage.boot),
               root |-> Left(env.root, stage.root)]
    /\ pc' = "after"
    /\ UNCHANGED <<desc, vol, running, release, mode, i, fifoVars, cuts, faults>>

\* bootenv: all variables of the stage.
SetEnv ==
    /\ pc = "set"
    /\ env' = [mode |-> stage.mode, boot |-> Left(env.boot, stage.boot),
               root |-> Left(env.root, stage.root)]
    /\ pc' = "after"
    /\ UNCHANGED <<desc, vol, running, release, mode, i, fifoVars, cuts, faults>>
-----------------------------------------------------------------------------
(***************************************************************************)
(* preinstall_X.sh and postinstall_X.sh, for one volume after the other.   *)
(***************************************************************************)
\* Mutant: only the second script looks: a writer left by an earlier attempt goes on.
Look_PostOnly ==
    /\ pc \in {"pre_look", "post_look"} /\ i <= Last
    /\ IF node[step.vol] = "none" \/ pc = "pre_look"
       THEN pc' = pc /\ i' = i + 1
       ELSE pc' = "post_pad" /\ UNCHANGED i
    /\ UNCHANGED <<desc, vol, env, running, release, mode, fifoVars, cuts, faults>>

\* "[ -e <volume>_fifo ] && ...": both scripts look for a fifo first.
Look ==
    /\ pc \in {"pre_look", "post_look"} /\ i <= Last
    /\ IF node[step.vol] = "none"
       THEN pc' = pc /\ i' = i + 1
       ELSE pc' = (IF pc = "pre_look" THEN "pre_pad" ELSE "post_pad") /\ UNCHANGED i
    /\ UNCHANGED <<desc, vol, env, running, release, mode, fifoVars, cuts, faults>>

\* Mutant: a volume that was given nothing but zeros is not told from a whole one.
Ends_Unchecked(v) ==
    /\ vol' = [vol EXCEPT ![v] = got[v]]
    /\ writer' = [writer EXCEPT ![v] = "none"]
    /\ node' = [node EXCEPT ![v] = "none"]
    /\ UNCHANGED got

\* The volume is full: the writer ends the update and removes its fifo.
Ends(v) ==
    /\ vol' = [vol EXCEPT ![v] = IF got[v] < 0 THEN Torn ELSE got[v]]
    /\ writer' = [writer EXCEPT ![v] = "none"]
    /\ node' = [node EXCEPT ![v] = "none"]
    /\ UNCHANGED got

\* "... dd if=/dev/zero of=<volume>_fifo": zeros up to the end of the volume.  If
\* the fifo has gone meanwhile, dd makes a plain file, and later fills it.  The end of
\* dd, and the end of the writer with its fifo, are one step: the scripts wait a
\* second between dd and their tests.
Pad ==
    /\ pc \in {"pre_pad", "post_pad"}
    /\ IF writer[step.vol] = "open" THEN Ends(step.vol)
       ELSE node' = [node EXCEPT ![step.vol] = "file"] /\ UNCHANGED <<vol, writer, got>>
    /\ pc' = (IF pc = "pre_pad" THEN "pre_look" ELSE "post_look")
    /\ i' = i + 1
    /\ UNCHANGED <<desc, env, running, release, mode, cuts, faults>>

\* "ubiupdatevol <volume> -f &", for every volume of the stage.
StartWriters ==
    /\ pc = "pre_look" /\ i > Last
    /\ writer' = [v \in Volumes |->
                     IF v \in Written(stage) /\ writer[v] = "none" THEN "starting"
                     ELSE writer[v]]
    /\ pc' = "pre_test" /\ i' = 1
    /\ UNCHANGED <<desc, vol, env, running, release, mode, node, got, cuts, faults>>

\* The writer makes its fifo and begins to update the volume.
WriterOpens(v) ==
    /\ writer[v] = "starting" /\ node[v] = "none"
    /\ node' = [node EXCEPT ![v] = "fifo"]
    /\ writer' = [writer EXCEPT ![v] = "open"]
    /\ got' = [got EXCEPT ![v] = Nothing]
    /\ vol' = [vol EXCEPT ![v] = Torn]
    /\ UNCHANGED <<desc, env, running, release, swuVars, cuts, faults>>

\* Or it cannot: something has the name of its fifo, or a fault.  That one which has
\* started fails is left out: its status is dropped, and what becomes of its fifo, by
\* which alone the scripts judge it, is not in the repository.
WriterDies(v) ==
    /\ writer[v] = "starting"
    /\ writer' = [writer EXCEPT ![v] = "none"]
    /\ IF node[v] = "none" THEN Fault ELSE UNCHANGED faults
    /\ UNCHANGED <<desc, vol, env, running, release, swuVars, node, got, cuts>>

\* The image was as long as the volume.
WriterFull(v) ==
    /\ writer[v] = "open" /\ got[v] >= Torn
    /\ Ends(v)
    /\ UNCHANGED <<desc, env, running, release, swuVars, cuts, faults>>

\* After "sleep 1", which is taken to be enough for the writers to start, the
\* first script wants the fifos to be there, the second wants them gone.
Test ==
    /\ pc \in {"pre_test", "post_test"}
    /\ \A v \in Volumes : writer[v] # "starting"
    /\ IF i > Last
       THEN pc' = (IF pc = "pre_test" THEN "step" ELSE "set") /\ i' = 1 /\ UNCHANGED mode
       ELSE IF (node[step.vol] = "none") = (pc = "pre_test")
            THEN Fails
            ELSE pc' = pc /\ i' = i + 1 /\ UNCHANGED mode
    /\ UNCHANGED <<desc, vol, env, running, release, fifoVars, cuts, faults>>

PostPadded ==
    /\ pc = "post_look" /\ i > Last
    /\ pc' = "post_test" /\ i' = 1
    /\ UNCHANGED <<desc, vol, env, running, release, mode, fifoVars, cuts, faults>>
-----------------------------------------------------------------------------
(***************************************************************************)
(* The device.                                                             *)
(***************************************************************************)
\* Everything that is not in flash is gone.
Down ==
    /\ running' = Off
    /\ pc' = "idle" /\ mode' = "" /\ i' = 1
    /\ node' = [v \in Volumes |-> "none"]
    /\ writer' = [v \in Volumes |-> "none"]
    /\ got' = [v \in Volumes |-> Nothing]
    /\ UNCHANGED <<desc, vol, env, release, faults>>

PowerCut == running # Off /\ cuts < MaxCuts /\ cuts' = cuts + 1 /\ Down

\* swu_next is "reboot", or the next stage follows at once.
Handover ==
    /\ pc = "after"
    /\ IF stage.reboot THEN Down
       ELSE pc' = "idle" /\ UNCHANGED <<desc, vol, env, running, release, mode, i, fifoVars, faults>>
    /\ UNCHANGED cuts

\* bootcmd: boot_normal reads ${boot_partition}, the root is ${root_partition}.
Boot ==
    /\ running = Off
    /\ running' = Booted
    /\ UNCHANGED <<desc, vol, env, release, swuVars, fifoVars, cuts, faults>>

Swupdate ==
    \/ Start \/ OpenVolume \/ CloseVolume \/ Compare \/ StepsDone \/ SetEnv
    \/ Look \/ Pad \/ StartWriters \/ Test \/ PostPadded \/ Handover

Writer(v) == WriterOpens(v) \/ WriterDies(v) \/ WriterFull(v)

Next ==
    \/ Begin \/ Swupdate \/ StepFault \/ Retry
    \/ \E v \in Volumes : Writer(v)
    \/ PowerCut \/ Boot

Spec == Init /\ [][Next]_vars

\* swupdate goes on, the writers start and the device boots: nothing else is
\* needed for an update to come to its end.
FairSpec ==
    /\ Spec
    /\ WF_vars(Swupdate) /\ WF_vars(Boot)
    /\ \A v \in UNION {d.volumes : d \in Descriptions} :
          WF_vars(v \in Volumes /\ Writer(v))
-----------------------------------------------------------------------------
(***************************************************************************)
(* Properties                                                              *)
(***************************************************************************)
Whole(s, r) == \A v \in VolumesOf(s) : vol[v] = r

TypeOK ==
    /\ desc \in Descriptions
    /\ vol \in [Volumes -> Torn .. MaxRelease]
    /\ env \in [mode : DOMAIN desc.stages \cup {""}, boot : STRING, root : STRING]
    /\ running = Off \/ VolumesOf(running) \subseteq Volumes
    /\ release \in 1 .. MaxRelease
    /\ pc \in {"idle", "pre_look", "pre_pad", "pre_test", "step", "writing",
               "post_look", "post_pad", "post_test", "set", "after", "failed"}
    /\ pc \notin {"idle", "failed"} => mode \in DOMAIN desc.stages /\ i \in 1 .. Last + 1
    /\ node \in [Volumes -> {"none", "fifo", "file"}]
    /\ writer \in [Volumes -> {"none", "starting", "open"}]
    /\ got \in [Volumes -> Part .. MaxRelease]
    /\ cuts \in 0 .. MaxCuts /\ faults \in 0 .. MaxFaults

\* Whenever power fails, the boot loader finds a system that is complete and of
\* one release: the volumes it is told to boot are never being written.
Bootable == \E r \in 1 .. MaxRelease : Whole(Booted, r)

\* No volume changes under the system that runs from it.
RunningIntact ==
    [][running # Off /\ running' = running =>
          \A v \in VolumesOf(running) : vol'[v] = vol[v]]_vars

\* In the recovery system there is always a stage to go on with: "change swu_mode
\* to upgrade_kernel, boot_partition to recovery & reboot".
NotStranded == env.boot = "recovery" => env.mode # ""

\* An update does not fail by itself, whatever was interrupted before: a stage can
\* be run again from its start.  It may fail when the device came with another
\* recovery image than the delta is made for; and in the install scripts, when a
\* writer ends between the look and the dd, which then leaves a file.
Blameless ==
    faults = 0 /\ pc = "failed" =>
        stage.fifo \/ (mode = FirstCheck /\ release = 2)

\* An update that was begun is installed, or ends with a failure.
Installs ==
    (env.mode # "") ~> (pc = "failed" \/ (env.mode = "" /\ Whole(Booted, release)))

\* Seen from outside the device implements DeviceUpdate: it goes from a whole
\* release to the next, directly or by way of a whole recovery system.
boots ==
    [kind    |-> IF env.boot = "recovery" THEN "rescue" ELSE "system",
     release |-> IF \E r \in 1 .. MaxRelease : Whole(Booted, r)
                 THEN CHOOSE r \in 1 .. MaxRelease : Whole(Booted, r) ELSE Torn]

Device == INSTANCE DeviceUpdate WITH boots <- boots

Implements == Device!Spec
=============================================================================
