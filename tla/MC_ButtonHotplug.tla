-------------------------- MODULE MC_ButtonHotplug --------------------------
(* Small devices, workqueues and faults for ButtonHotplug. *)
EXTENDS ButtonHotplug

OneCpu  == {"cpu0"}
TwoCpus == {"cpu0", "cpu1"}

NoSwitch  == {}
OneSwitch == {2}

NoFaults     == {}
CreateFaults == {"kzalloc", "irq"}
MemoryFaults == {"skb", "sleep", "contend"}
=============================================================================
