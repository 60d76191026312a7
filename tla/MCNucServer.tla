----------------------------- MODULE MCNucServer -----------------------------
(* Instances of NucServer for TLC: the configurations give the constants. *)
EXTENDS NucServer
=============================================================================
