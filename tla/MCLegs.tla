---- MODULE MCLegs ----
EXTENDS Legs, TLC
CONSTANTS l1, l2

MCProtocols == <<"hislip", "vxi11">>
MCRunsOn == [s \in Scripts |-> IF s = "14_vxi11_flags" THEN {"vxi11"} ELSE {"hislip", "vxi11"}]
MCNameHas == [s \in Scripts |-> IF s = "14_vxi11_flags" THEN {"vxi11"} ELSE {}]
Symmetry == Permutations(Plan)
====
