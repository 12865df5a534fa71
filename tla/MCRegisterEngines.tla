--------------------------- MODULE MCRegisterEngines --------------------------
(* Instances of RegisterEngines, which adds the other engines to           *)
(* StabilizerStates, for TLC.                                              *)
EXTENDS RegisterEngines

CONSTANTS large, small

Room == [e \in {large, small} |-> IF e = large THEN 3 ELSE 2]
Moves == {"H", "CZ"}
=============================================================================
