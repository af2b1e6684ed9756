------------------------------ MODULE MC_Nvram ------------------------------
(* A small partition for Nvram: two variables of the header, one of 16 bits and *)
(* one of 32, and one other.                                                    *)
EXTENDS Nvram

ThreeNames == {"init", "ncdl", "x"}
OneLetter  == [n \in ThreeNames |-> 1]
TwoBuckets == [n \in ThreeNames |-> IF n = "x" THEN 2 ELSE 1]
TwoBacked  == <<"init", "ncdl">>
OnlyInit   == {"init"}

String(num, len) == [num |-> num, len |-> len]

\* "65537", which 16 bits cannot hold, and a string longer than the partition.
SomeStrings == {String(65537, 5)}
MoreStrings == SomeStrings \cup {String(0, 60)}

Usual   == [n \in {"init", "ncdl"} |-> IF n = "init" THEN 1049 ELSE 0]
Another == [n \in {"init", "ncdl"} |-> IF n = "init" THEN 7 ELSE 9]
OnlyUsual   == {Usual}
OnlyAnother == {Another}

\* A list with one variable of the header, which does not say what the header says, and
\* without the other; a list that fills the partition.
Begins == {<<<<<<"ncdl", String(1, 1)>>>>, 4>>,
           <<<<<<"x", String(2, 5)>>, <<"init", String(2, 10)>>, <<"ncdl", String(2, 10)>>>>, 34>>}
Nothing == {<<<<>>, 0>>}

AllFaults == FaultKinds
NoFaults  == {}
=============================================================================
