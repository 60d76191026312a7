----------------------------- MODULE DirectRelay -----------------------------
(***************************************************************************)
(* What NUCServer promises its TCP client: each complete line of the board *)
(* is sent at most once, before the next one is taken, by the units of its *)
(* fields that are not zero and nothing else.                              *)
(***************************************************************************)
EXTENDS SensorFrame, Sequences

VARIABLES
  latest,   (* the fields of the latest complete line; all zero before it *)
  due,      (* it has not been sent yet                                   *)
  wire,     (* units sent and not yet received                            *)
  peer      (* the client's end of the connection                         *)

vars == <<latest, due, wire, peer>>

Init ==
  /\ latest = [f \in Fields |-> Zero]
  /\ due = FALSE
  /\ wire = <<>>
  /\ peer = "none"

Connect ==
  /\ peer = "none"
  /\ peer' = "open"
  /\ UNCHANGED <<latest, due, wire>>

Learn ==
  /\ ~due
  /\ due' = TRUE
  /\ DOMAIN latest' = Fields
  /\ UNCHANGED <<wire, peer>>

Deliver ==
  /\ due
  /\ peer = "open"
  /\ due' = FALSE
  /\ wire' = wire \o Serialize(latest)
  /\ UNCHANGED <<latest, peer>>

Drop ==
  /\ due
  /\ peer = "closed"
  /\ due' = FALSE
  /\ UNCHANGED <<latest, wire, peer>>

Receive ==
  /\ peer = "open"
  /\ \E k \in 1..Len(wire) : wire' = SubSeq(wire, k + 1, Len(wire))
  /\ UNCHANGED <<latest, due, peer>>

Close ==
  /\ peer = "open"
  /\ peer' = "closed"
  /\ wire' = <<>>
  /\ UNCHANGED <<latest, due>>

Next == Connect \/ Learn \/ Deliver \/ Drop \/ Receive \/ Close

Spec == Init /\ [][Next]_vars
=============================================================================
