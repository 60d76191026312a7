---------------------------- MODULE MCMotorSystem ----------------------------
(* Small values for the constants of MotorSystem. *)
EXTENDS MotorSystem
MCRolls == {0, 1}
=============================================================================
