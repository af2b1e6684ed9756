----------------------------- MODULE NvramStore -----------------------------
(***************************************************************************)
(* What the nvram command offers its callers: variables that "set" and     *)
(* "unset" change at once for every later command, and that "commit" makes *)
(* outlast a reboot.  Committing overwrites the saved variables in place:  *)
(* if power fails in the middle of it they are lost.                       *)
(***************************************************************************)
EXTENDS Integers

CONSTANTS
    Names, Values,
    Inputs,     \* the values that variables are set to
    Sdram,      \* variables that the memory controller's header fields back up
    Absent,     \* "no value"
    Lost,       \* neither a value nor "no value"
    Unset       \* what an unset header-backed variable reads as

VARIABLES
    cur,        \* what a command reads now
    saved       \* what will be read after a reboot

Stores  == [Names -> Values \cup {Absent}]
AllLost == [n \in Names |-> Lost]

Init ==
    /\ saved \in Stores
    /\ cur = saved

SetTo(n, v) == cur' = [cur EXCEPT ![n] = v] /\ UNCHANGED saved

TakeOut(n) ==
    /\ cur' = [cur EXCEPT ![n] = IF n \in Sdram THEN Unset[n] ELSE Absent]
    /\ UNCHANGED saved

SaveBegins == saved' = AllLost /\ UNCHANGED cur
SaveEnds   == saved = AllLost /\ saved' = cur /\ UNCHANGED cur

Reboot == cur' = saved /\ UNCHANGED saved

Next ==
    \/ \E n \in Names : TakeOut(n) \/ \E v \in Inputs : SetTo(n, v)
    \/ SaveBegins \/ SaveEnds \/ Reboot

Spec == Init /\ [][Next]_<<cur, saved>>
=============================================================================
