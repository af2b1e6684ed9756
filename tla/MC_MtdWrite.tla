---------------------------- MODULE MC_MtdWrite ----------------------------
(* Small flashes and images for MtdWrite. *)
EXTENDS MtdWrite

SizeOne    == <<4>>
SizeThree  == <<3>>
SizeFive   == <<5>>
SizeTwo    == <<2, 3>>
SizeOffset == <<3, 2, 4>>

NoFaults     == {}
AllFaults    == FaultKinds
NoWriteFault == FaultKinds \ {"write"}
ReadFault    == {"read"}
NoReadFault  == FaultKinds \ {"read"}
=============================================================================
