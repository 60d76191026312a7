------------------------------ MODULE MCNucLoop ------------------------------
(* Instances of NucLoop for TLC: the configurations give the constants. *)
EXTENDS NucLoop
=============================================================================
