----------------------------- MODULE MCBledScan -----------------------------
(* Instances of BledScan for TLC: the configurations give the constants. *)
EXTENDS BledScan
=============================================================================
