-------------------------- MODULE MCGestureHistory --------------------------
(* Small values for the constants of GestureHistory. *)
EXTENDS GestureHistory
MCScale == 2
MCMaxRoll == 3
MCRolls == {-3, 0, 3}
=============================================================================
