--------------------------- MODULE MC_Sysupgrade ----------------------------
(* Images of every form, with and without a kernel, of sizes that fit and that  *)
(* do not; those for mtd with and without an end marker and room behind it.     *)
EXTENDS Sysupgrade

AllImages ==
    [form : {"mtd"}, kernel : {1}, root : {1}, fs : {"squashfs"},
     tail : {"none", "marker", "room"}]
    \cup [form : {"tar", "ubi"}, kernel : {0, 1, 2}, root : {1, 2, 3}, fs : {"squashfs", "ubifs"},
             tail : {"none"}]
    \cup [form : {"ubifs"}, kernel : {0}, root : {1, 3, 5}, fs : {"ubifs"}, tail : {"none"}]
=============================================================================
