--------------------------- MODULE FirmwareUpdate ---------------------------
(***************************************************************************)
(* What sysupgrade may expect of the program that writes the image         *)
(* (package/base-files/files/lib/upgrade/common.sh, default_do_upgrade):   *)
(* the firmware goes from the old one over a torn state to the new one,    *)
(* never back, and the exit status 0 is given only for the new one.        *)
(***************************************************************************)
VARIABLES firmware,   \* "old", "torn", "new": what the boot loader would find
          status      \* "running", "ok", "failed", or "off" after a power cut

vars == <<firmware, status>>

Init == firmware = "old" /\ status = "running"

Progress(from, to) ==
    /\ status = "running" /\ firmware = from
    /\ firmware' = to
    /\ UNCHANGED status

\* The writer can be stopped in the middle of any change it makes.
End(s) ==
    /\ status = "running" /\ status' = s
    /\ \/ UNCHANGED firmware
       \/ firmware = "old" /\ firmware' = "torn"

Tear    == Progress("old", "torn")
Install == Progress("torn", "new")
Succeed == firmware = "new" /\ status = "running" /\ status' = "ok" /\ UNCHANGED firmware
GiveUp  == End("failed")
Lose    == End("off")

Next == Tear \/ Install \/ Succeed \/ GiveUp \/ Lose

Spec == Init /\ [][Next]_vars

\* Exit status 0 means the new firmware, and only then does the caller reboot.
SuccessIsNew == status = "ok" => firmware = "new"

\* Once touched, the old firmware is gone; once complete, the new one stays.
NoWayBack ==
    [][/\ firmware' = "old" => firmware = "old"
       /\ firmware = "new" => firmware' = "new"]_vars
=============================================================================
