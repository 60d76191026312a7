-------------------------------- MODULE Relay --------------------------------
(***************************************************************************)
(* What the NUC promises its TCP client: it relays the latest complete     *)
(* line of the board.  Until there is one it may send uninitialised units, *)
(* always fewer than a message has; from then on it only ever sends whole  *)
(* messages, each of them the latest.                                      *)
(***************************************************************************)
EXTENDS SensorFrame, Sequences

VARIABLES
  latest,   (* the fields of the latest complete line; all zero before it *)
  wire,     (* units sent and not yet received                            *)
  peer      (* the client's end of the connection                         *)

vars == <<latest, wire, peer>>

Nothing == [f \in Fields |-> Zero]
Message == [f \in Fields |-> Unit(latest, f)]

Init == latest = Nothing /\ wire = <<>> /\ peer = "none"

Connect ==
  /\ peer = "none"
  /\ peer' = "open"
  /\ UNCHANGED <<latest, wire>>

(* A complete line was parsed: none of its fields is zero. *)
Learn ==
  /\ DOMAIN latest' = Fields
  /\ \A f \in Fields : latest'[f] # Zero
  /\ UNCHANGED <<wire, peer>>

Deliver ==
  /\ peer = "open"
  /\ latest # Nothing
  /\ wire' = wire \o Message
  /\ UNCHANGED <<latest, peer>>

DeliverGarbage ==
  /\ peer = "open"
  /\ latest = Nothing
  /\ \E k \in 0..(N - 1) : wire' = wire \o [i \in 1..k |-> Blank]
  /\ UNCHANGED <<latest, peer>>

Receive ==
  /\ peer = "open"
  /\ \E k \in 1..Len(wire) : wire' = SubSeq(wire, k + 1, Len(wire))
  /\ UNCHANGED <<latest, peer>>

Close ==
  /\ peer = "open"
  /\ peer' = "closed"
  /\ wire' = <<>>
  /\ UNCHANGED latest

Next == Connect \/ Learn \/ Deliver \/ DeliverGarbage \/ Receive \/ Close

Spec == Init /\ [][Next]_vars
=============================================================================
