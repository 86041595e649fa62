-------------------------- MODULE MCOpcuaRoundTrip --------------------------
(* Small instances of OpcuaRoundTrip for TLC. *)
EXTENDS OpcuaRoundTrip

(* A queue that no earlier process used, and one that a killed process     *)
(* left behind with its packets 2, 3 and 4.                                *)
CleanQueue == {<<>>}
LeftQueue == {<<Message(2, "real"), Message(3, "real"), Message(4, "real")>>}

(* Room in the two directions of the network.                              *)
OneEach == [d \in {"AB", "BA"} |-> 1]
TwoEach == [d \in {"AB", "BA"} |-> 2]
TwoOne == [d \in {"AB", "BA"} |-> IF d = "AB" THEN 2 ELSE 1]
=============================================================================
