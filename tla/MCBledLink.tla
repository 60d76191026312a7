----------------------------- MODULE MCBledLink -----------------------------
(* Instances of BledLink for TLC: the configurations give the constants. *)
EXTENDS BledLink
=============================================================================
