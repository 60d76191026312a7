------------------------------- MODULE Checker -------------------------------
(***************************************************************************)
(* The Android client (MainActivity): a button that starts the network     *)
(* thread, the thread, which reads N units at a time from the socket,      *)
(* parses them as a Sensor and stores the fields in textMsg, and the       *)
(* handler on the UI thread, which copies textMsg to the switches.         *)
(*                                                                         *)
(* The two threads share textMsg without a lock.  The message the thread   *)
(* posts to the handler carries nothing: the handler reads whatever        *)
(* textMsg holds when it runs, field by field, while the network thread    *)
(* may be storing the next one.                                            *)
(***************************************************************************)
EXTENDS SensorFrame, Sequences, FiniteSetsExt

CONSTANT
  MaxPosts      (* bound on the handler's queue *)

ASSUME CheckerAssumption == MaxPosts \in Nat \ {0}

VARIABLES
  net,       (* where the network thread is                       *)
  str,       (* its byte array, never cleared between reads       *)
  msg,       (* the fields of the message just parsed             *)
  next,      (* the element of textMsg it stores next             *)
  textMsg,   (* the texts, shared with the UI thread              *)
  posted,    (* messages in the handler's queue                   *)
  copying,   (* the switch the handler sets next; 0 when it rests *)
  args,      (* the texts of the switches                         *)
  enabled,   (* the state of the connect button                   *)
  wire,      (* units sent by the server and not yet read         *)
  peer,      (* the connection, seen from the server              *)
  alive,     (* the server's end is open                          *)
  short      (* history: a read returned less than a message      *)

thread == <<net, str, msg, next, short>>
screen == <<copying, args>>
link == <<wire, peer, alive>>
cvars == <<net, str, msg, next, textMsg, posted, copying, args, enabled,
           wire, peer, alive, short>>

-----------------------------------------------------------------------------

(* new byte[25]: N units of zero bytes. *)
Empty == [tag |-> 0, val |-> MinusOne]

(* The texts before the first message. *)
NoText == [kind |-> "no text"]

(* A read overwrites the front of the array; what was behind it stays. *)
Overwrite(array, units) ==
  [i \in Fields |-> IF i <= Len(units) THEN units[i] ELSE array[i]]

(* Faulty variant of FieldOf: the first unit with a tag counts. *)
FieldOfFirst(array, f) ==
  LET tagged == {i \in Fields : array[i].tag = f}
  IN  IF tagged = {} THEN Zero ELSE array[Min(tagged)].val

(* parseFrom: of several units with one tag the last counts, a field       *)
(* without a unit is zero.                                                 *)
FieldOf(array, f) ==
  LET tagged == {i \in Fields : array[i].tag = f}
  IN  IF tagged = {} THEN Zero ELSE array[Max(tagged)].val

(* Faulty variant of Parse: the last field is read before the parse. *)
ParseStale(array) ==
  [f \in Fields |-> IF f = N THEN msg[f] ELSE FieldOf(array, f)]

(* The message the whole array parses to. *)
Parse(array) == [f \in Fields |-> FieldOf(array, f)]

(* A zero byte where a tag should be ends the parse with an exception;     *)
(* uninitialised memory of the server may do so or pass for unknown fields. *)
MustThrow(array) == \E i \in Fields : array[i] = Empty
MayThrow(array) == \E i \in Fields : array[i].tag = 0

(* How many units a read returns when that many are there: as many as TCP  *)
(* likes.                                                                  *)
ReadLengths(available) == 1..(IF available < N THEN available ELSE N)

-----------------------------------------------------------------------------

CInit ==
  /\ net = "idle"
  /\ str = [i \in Fields |-> Empty]
  /\ msg = [f \in Fields |-> Zero]
  /\ next = 1
  /\ textMsg = [f \in Fields |-> NoText]
  /\ posted = 0
  /\ copying = 0
  /\ args = [f \in Fields |-> NoText]
  /\ enabled = TRUE
  /\ alive = TRUE /\ short = FALSE

(* Faulty variant of Click: a thread that runs is started again. *)
ClickAgain ==
  /\ enabled
  /\ net' = "connect"
  /\ enabled' = FALSE
  /\ UNCHANGED <<str, msg, next, short, textMsg, posted, screen, link>>

(* onClick: starting the thread a second time throws, and leaves the       *)
(* button as it is.                                                        *)
Click ==
  /\ enabled
  /\ net = "idle"
  /\ net' = "connect"
  /\ enabled' = FALSE
  /\ UNCHANGED <<str, msg, next, short, textMsg, posted, screen, link>>

(* onError of the video view. *)
VideoError ==
  /\ enabled' = TRUE
  /\ UNCHANGED <<thread, textMsg, posted, screen, link>>

(* setSocket: a failure is printed only; the reader stays null and the     *)
(* first read of the loop throws.                                          *)
Connect ==
  /\ net = "connect"
  /\ \/ /\ peer = "none" /\ alive
        /\ peer' = "open"
        /\ net' = "read"
     \/ /\ net' = "close"
        /\ UNCHANGED peer
  /\ UNCHANGED <<str, msg, next, short, textMsg, posted, screen, enabled, wire, alive>>

(* One read and the parse of the whole array, however little was read.     *)
ParseInto(array) ==
  /\ str' = array
  /\ \/ /\ ~MustThrow(array)
        /\ msg' = Parse(array)
        /\ next' = 1
        /\ net' = "store"
     \/ /\ MayThrow(array)
        /\ net' = "close"
        /\ UNCHANGED <<msg, next>>

ReadUnits ==
  /\ net = "read"
  /\ wire # <<>>
  /\ \E k \in ReadLengths(Len(wire)) :
        /\ ParseInto(Overwrite(str, SubSeq(wire, 1, k)))
        /\ wire' = SubSeq(wire, k + 1, Len(wire))
        /\ short' = (short \/ k < N)
  /\ UNCHANGED <<textMsg, posted, screen, enabled, peer, alive>>

(* At the end of the stream read returns -1, which nobody looks at: the    *)
(* array is parsed again.                                                  *)
ReadEnd ==
  /\ net = "read"
  /\ wire = <<>>
  /\ ~alive
  /\ ParseInto(str)
  /\ UNCHANGED <<short, textMsg, posted, screen, enabled, link>>

(* Faulty variant of Store: the loop stops one field early. *)
StoreOneLess ==
  /\ net = "store"
  /\ textMsg' = [textMsg EXCEPT ![next] = msg[next]]
  /\ IF next >= N - 1 THEN net' = "post" /\ UNCHANGED next
                      ELSE next' = next + 1 /\ UNCHANGED net
  /\ UNCHANGED <<str, msg, short, posted, screen, enabled, link>>

(* The texts are stored one element at a time, under no lock. *)
Store ==
  /\ net = "store"
  /\ textMsg' = [textMsg EXCEPT ![next] = msg[next]]
  /\ IF next = N THEN net' = "post" /\ UNCHANGED next
                 ELSE next' = next + 1 /\ UNCHANGED net
  /\ UNCHANGED <<str, msg, short, posted, screen, enabled, link>>

(* Faulty variant of Post: while the handler runs nothing is posted. *)
PostIfIdle ==
  /\ net = "post"
  /\ posted < MaxPosts
  /\ posted' = IF copying = 0 THEN posted + 1 ELSE posted
  /\ net' = "read"
  /\ UNCHANGED <<str, msg, next, short, textMsg, screen, enabled, link>>

(* An empty message is posted to the handler. *)
Post ==
  /\ net = "post"
  /\ posted < MaxPosts
  /\ posted' = posted + 1
  /\ net' = "read"
  /\ UNCHANGED <<str, msg, next, short, textMsg, screen, enabled, link>>

(* After an exception the socket is closed and the thread ends. *)
CloseSocket ==
  /\ net = "close"
  /\ net' = "done"
  /\ IF peer = "open" THEN peer' = "closed" /\ wire' = <<>>
                      ELSE UNCHANGED <<peer, wire>>
  /\ UNCHANGED <<str, msg, next, short, textMsg, posted, screen, enabled, alive>>

(* handleMessage, one setText at a time. *)
HandleMessage ==
  /\ copying = 0
  /\ posted > 0
  /\ posted' = posted - 1
  /\ copying' = 1
  /\ UNCHANGED <<thread, textMsg, args, enabled, link>>

(* One switch is given its text. *)
SetText ==
  /\ copying # 0
  /\ args' = [args EXCEPT ![copying] = textMsg[copying]]
  /\ copying' = IF copying = N THEN 0 ELSE copying + 1
  /\ UNCHANGED <<thread, textMsg, posted, enabled, link>>

NetworkThread == Connect \/ ReadUnits \/ ReadEnd \/ Store \/ Post \/ CloseSocket
UiThread == HandleMessage \/ SetText
User == Click \/ VideoError

CNext == NetworkThread \/ UiThread \/ User
=============================================================================
