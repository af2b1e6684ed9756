---------------------------- MODULE DeviceUpdate ----------------------------
(***************************************************************************)
(* What the owner of a device may expect of its updates, whenever it loses *)
(* power: it always starts, a release either not at all or completely, and *)
(* the releases follow one another.  On the way to the next release it may *)
(* start a rescue system that completes the update.                        *)
(***************************************************************************)
EXTENDS Integers

VARIABLE boots      \* what the boot loader would start

System(r) == [kind |-> "system", release |-> r]
Rescue(r) == [kind |-> "rescue", release |-> r]

Init == boots = System(1)

\* The next release is there, or the rescue system that completes it.
Advance ==
    /\ boots = System(boots.release)
    /\ boots' \in {System(boots.release + 1), Rescue(boots.release + 1)}

Complete ==
    /\ boots = Rescue(boots.release)
    /\ boots' = System(boots.release)

Next == Advance \/ Complete

Spec == Init /\ [][Next]_boots
=============================================================================
