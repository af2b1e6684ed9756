------------------------------- MODULE MC_Ota -------------------------------
(* The descriptions of the repository. *)
EXTENDS Ota

AllDescriptions == {Ubi, Readback, RecoveryRdiff, AbUbi, AbAuto, AbRdiff}
=============================================================================
