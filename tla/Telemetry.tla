------------------------------ MODULE Telemetry ------------------------------
(***************************************************************************)
(* The path of the sensor values from the NUC to the screen: the relay,    *)
(* which the loop of the NUC implements, at one end of the connection, the *)
(* Android client at the other.  The n-th complete line of the board has   *)
(* the value n in every field.                                             *)
(***************************************************************************)
EXTENDS Checker

CONSTANTS
  MaxLines,    (* bound on the complete lines of the board *)
  Window       (* units TCP takes before send blocks       *)

ASSUME TelemetryAssumption == MaxLines \in Nat /\ Window \in Nat /\ Window >= N

VARIABLES
  latest,      (* the latest complete line                                 *)
  learned,     (* how many there were                                      *)
  delivered,   (* history: the latest one sent to the client               *)
  clean        (* history: no uninitialised unit was ever sent             *)

server == <<latest, learned, delivered, clean>>
tvars == <<cvars, server>>

R == INSTANCE Relay

Line(n) == [f \in Fields |-> Parsed(n)]

TInit ==
  /\ CInit
  /\ R!Init
  /\ learned = 0
  /\ delivered = 0
  /\ clean = TRUE

device == <<net, str, msg, next, textMsg, posted, copying, args, enabled, short>>

LearnLine ==
  /\ alive
  /\ learned < MaxLines
  /\ learned' = learned + 1
  /\ latest' = Line(learned + 1)
  /\ UNCHANGED <<device, link, delivered, clean>>

SendLine ==
  /\ alive
  /\ Len(wire) + N <= Window
  /\ R!Deliver
  /\ delivered' = learned
  /\ UNCHANGED <<device, alive, learned, clean>>

SendGarbage ==
  /\ alive
  /\ Len(wire) + N <= Window
  /\ R!DeliverGarbage
  /\ clean' = (clean /\ wire' = wire)
  /\ UNCHANGED <<device, alive, learned, delivered>>

(* The program of the NUC ends, or is ended: what it sent can still be read. *)
ServerDies ==
  /\ alive
  /\ alive' = FALSE
  /\ UNCHANGED <<device, wire, peer, server>>

Server == LearnLine \/ SendLine \/ SendGarbage \/ ServerDies

TNext == (CNext /\ UNCHANGED server) \/ Server

TSpec == TInit /\ [][TNext]_tvars

(* Both threads of the app run; the server need not. *)
TFairSpec ==
  /\ TSpec
  /\ WF_tvars(NetworkThread /\ UNCHANGED server)
  /\ WF_tvars(UiThread /\ UNCHANGED server)

-----------------------------------------------------------------------------

Texts == {NoText, Zero, MinusOne} \cup {Parsed(n) : n \in 1..MaxLines}

(* Types of the state of both ends. *)
TypeOK ==
  /\ net \in {"idle", "connect", "read", "store", "post", "close", "done"}
  /\ \A i \in Fields : str[i].tag \in 0..N /\ str[i].val \in Texts
  /\ msg \in [Fields -> Texts]
  /\ next \in Fields
  /\ textMsg \in [Fields -> Texts]
  /\ posted \in 0..MaxPosts
  /\ copying \in 0..N
  /\ args \in [Fields -> Texts]
  /\ enabled \in BOOLEAN /\ alive \in BOOLEAN
  /\ clean \in BOOLEAN /\ short \in BOOLEAN
  /\ Len(wire) <= Window
  /\ learned \in 0..MaxLines /\ delivered \in 0..learned

(* Older text, newer text: zero, which a field shows when its unit was not *)
(* in the array, is neither.                                               *)
StepsBack(old, new) ==
  old.kind = "parsed" /\ new.kind = "parsed" /\ new.digits < old.digits

(* With reads that return whole messages, and unless uninitialised memory  *)
(* put the stream out of step, what the thread parses is one line of the   *)
(* board, all its fields of the same reading.                              *)
ParsesOneLine ==
  clean /\ ~short /\ net \in {"store", "post"} => \E n \in 1..learned : msg = Line(n)

(* However the stream is cut into reads, and although the array keeps old  *)
(* units behind a short read and the handler copies texts while the thread *)
(* stores others, no switch ever goes back to an older value.              *)
NoSwitchStepsBack ==
  [][clean => \A f \in Fields : ~StepsBack(args[f], args'[f])]_tvars

(* When nothing is pending between the two threads the switches show       *)
(* exactly what the thread stored last: no update is lost, though the      *)
(* messages to the handler are empty and both run at their own pace.       *)
ScreenSettles ==
  net \notin {"store", "post"} /\ posted = 0 /\ copying = 0 => args = textMsg

(* At rest, and with reads that return whole messages, the texts are those *)
(* of one message, not of two.                                             *)
NoMixAtRest ==
  clean /\ ~short /\ net = "read" /\ posted = 0 /\ copying = 0
    => \/ args = [f \in Fields |-> NoText]
       \/ \E n \in 1..learned : args = Line(n)

(* The thread can be started once, and ends after any exception.  An app   *)
(* that shows values has its thread all the same: unless garbage or a      *)
(* short read got in, only a failed connection or a stream that ends       *)
(* before its first message ends the thread, and no click in between       *)
(* starts it anew.  (At the end of the stream it parses the last message   *)
(* for ever.)                                                              *)
Running == net \in {"read", "store", "post"}
ShownMeansRunning ==
  clean /\ ~short /\ (\E f \in Fields : args[f] # NoText) => Running

(* Every line sent is shown, or overtaken by a later one, or the client is *)
(* gone or was put out of step by uninitialised units or a short read.     *)
Shows(n) == \A f \in Fields : args[f].kind = "parsed" /\ args[f].digits >= n
SentIsShown ==
  \A n \in 1..MaxLines :
    delivered = n ~> Shows(n) \/ net = "done" \/ ~clean \/ short
=============================================================================
