--------------------------- MODULE MCBgapiReaders ---------------------------
(* Instances of BgapiReaders for TLC: the configuration gives the constants. *)
EXTENDS BgapiReaders
=============================================================================
