---------------------------- MODULE BgapiReaders ----------------------------
(***************************************************************************)
(* Readers of bledAPI.py on every input: what they find is compared with    *)
(* what a glance at the bytes says.  The input grows byte by byte or  *)
(* packet by packet; a reader keeps nothing from one call to the next, so  *)
(* that its whole behaviour is a function of the input of one call.        *)
(***************************************************************************)
EXTENDS Bgapi

CONSTANTS
  Bytes,       (* the bytes fed singly                                 *)
  MaxInput,    (* bound on the bytes of an input                       *)
  MaxPackets   (* bound on the packets of an input                     *)

ASSUME ReadersAssumption ==
  /\ Bytes \subseteq 0..255
  /\ MaxInput \in Nat /\ MaxPackets \in Nat

VARIABLES
  input,   (* what a reader is called on                     *)
  kinds    (* the packets it begins with, as they were fed   *)

readerVars == <<input, kinds>>

-----------------------------------------------------------------------------
(* The other readers of events: of the groups and of the attributes of a   *)
(* device, listed one by one until the procedure is completed.  No program *)
(* of the repository calls them yet.  As in ValueCall, a payload too short *)
(* for the fields that are printed is passed over here, where the code     *)
(* raises an exception; none of the packets below is.                      *)

IsCompleted(r) == Complete(r) /\ r.buf[4] = CompletedCommand

(* Faulty variant of GroupByte: the reader does not start again. *)
GroupByteOnce(r, b) == EventByte(r, b)

GroupCommand == 2
GroupByte(r, b) ==
  LET next == EventByte(r, b)
  IN  IF Complete(next) /\ next.buf[4] = GroupCommand THEN Fresh ELSE next
GroupCall(in) == Call(GroupByte, IsCompleted, in)

InformationCommand == 4

(* Faulty variant of InformationByte: it does start again. *)
InformationByteAnew(r, b) ==
  LET next == EventByte(r, b)
  IN  IF Complete(next) /\ next.buf[4] = InformationCommand THEN Fresh ELSE next

(* The reader of attributes keeps the packet it has printed. *)
InformationByte(r, b) == EventByte(r, b)
InformationCall(in) == Call(InformationByte, IsCompleted, in)

-----------------------------------------------------------------------------

Packets ==
  [answer |-> Response("answer", 4, 6, <<0, 0, 0>>),
   value |-> Event("value", 4, 5, <<0, 28, 0, 1, 1, 7>>),
   group |-> Event("group", 4, 2, <<0, 1, 0, 4, 0, 2, 0, 40>>),
   information |-> Event("information", 4, 4, <<0, 1, 0, 1, 40>>),
   completed |-> Event("completed", 4, 1, <<0, 0, 0, 9, 0>>)]

ReadersInit == input = <<>> /\ kinds = <<>>

FeedByte ==
  /\ Len(input) < MaxInput
  /\ \E b \in Bytes : input' = Append(input, [b |-> b, kind |-> "loose", last |-> FALSE])
  /\ UNCHANGED kinds

FeedPacket ==
  /\ Len(kinds) < MaxPackets
  /\ \A i \in DOMAIN input : input[i].kind # "loose"
  /\ \E p \in DOMAIN Packets :
        /\ input' = input \o Packets[p]
        /\ kinds' = Append(kinds, p)

Feed == FeedByte \/ FeedPacket

ReadersSpec == ReadersInit /\ [][Feed]_readerVars

-----------------------------------------------------------------------------

(* A reader of responses looks at every second byte until one is the length *)
(* awaited or zero.  Only behind the length it finds a packet, the seven    *)
(* bytes from the one before on, so that a response is found behind other   *)
(* bytes only if their number is even.                                      *)
AnswerByPairs ==
  LET pairs == {i \in 1..(Len(input) \div 2) :
                  input[2 * i].b \in {ResponseType, AnswerLength}}
      first == 2 * Min(pairs)
      found == /\ pairs # {}
               /\ input[first].b = AnswerLength
               /\ Len(input) >= first + 5
  IN  /\ AnswerCall(input).found = found
      /\ found => AnswerCall(input).taken = first + 5

(* A reader of values takes the second byte for the length, unless it looks *)
(* like a type, and looks at the fourth: whatever the first is.             *)
ValueByLength ==
  LET found == /\ Len(input) >= 4
               /\ input[2].b # EventType
               /\ Len(input) >= 4 + input[2].b
               /\ input[4].b \in {ValueCommand, CompletedCommand}
  IN  /\ ValueCall(input).found = found
      /\ found => ValueCall(input).taken = 4 + input[2].b

(* Whole groups of a device may come in one input with the end of the       *)
(* procedure: the reader sees the end behind them.                          *)
GroupsEnd ==
  (\E i \in DOMAIN kinds : /\ kinds[i] = "completed"
                           /\ \A j \in 1..(i - 1) : kinds[j] = "group")
    => GroupCall(input).found

(* The reader of attributes does not: it finds the end only if that is the  *)
(* first packet, as the second byte measures it; behind an attribute it    *)
(* sees nothing more of the same input.                                    *)
InformationHidesEnd ==
  InformationCall(input).found =
    (/\ Len(input) >= 4
     /\ input[2].b # EventType
     /\ Len(input) >= 4 + input[2].b
     /\ input[4].b = CompletedCommand)
=============================================================================
