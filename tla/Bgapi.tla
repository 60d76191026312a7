-------------------------------- MODULE Bgapi --------------------------------
(***************************************************************************)
(* The packets of the BLED112 dongle and the readers of bledAPI.py.  A     *)
(* packet is a header (type, payload length, class, command) and a payload.*)
(* A reader is called on the bytes that are in the input, starts afresh,   *)
(* stops at the packet it can use or at the end of the input, and throws   *)
(* away whatever it has taken by then.                                     *)
(***************************************************************************)
EXTENDS Integers, Sequences, FiniteSetsExt, SequencesExt

(* A byte on its way from the dongle.  Only b is seen by the program; which *)
(* packet it belongs to and whether it is the last byte of it is kept for   *)
(* the properties.                                                          *)
Packet(kind, bytes) ==
  [i \in 1..Len(bytes) |-> [b |-> bytes[i], kind |-> kind, last |-> i = Len(bytes)]]

ResponseType == 0
EventType == 128

Response(kind, class, command, payload) ==
  Packet(kind, <<ResponseType, Len(payload), class, command>> \o payload)
Event(kind, class, command, payload) ==
  Packet(kind, <<EventType, Len(payload), class, command>> \o payload)

-----------------------------------------------------------------------------
(* The bytes collected so far, and the length of the packet once known. *)

Fresh == [buf |-> <<>>, expected |-> 0]
Started(r) == r.expected = 0 /\ Len(r.buf) = 1
Collect(r, b) == [r EXCEPT !.buf = Append(@, b)]

(* Faulty variant of Sized: a header of three bytes. *)
SizedShort(r, b) == [buf |-> Append(r.buf, b), expected |-> 3 + b]

Sized(r, b) == [buf |-> Append(r.buf, b), expected |-> 4 + b]

Complete(r) == r.expected > 0 /\ Len(r.buf) = r.expected
Payload(r) == SubSeq(r.buf, 5, Len(r.buf))

(* Faulty variant of ResponseByte: a zero is a wrong length like any other. *)
ResponseByteStrict(length, r, b) ==
  IF ~Started(r) THEN Collect(r, b) ELSE IF b = length THEN Sized(r, b) ELSE Fresh

(* The readers of responses.  Any byte is taken for a packet type; the     *)
(* length must be that of the response awaited or the reader starts again, *)
(* but a zero in its place is collected and leaves the reader without a    *)
(* length for good.                                                        *)
ResponseByte(length, r, b) ==
  IF ~Started(r) \/ b = ResponseType THEN Collect(r, b)
  ELSE IF b = length THEN Sized(r, b)
  ELSE Fresh

(* The readers of events.  Again any byte is taken for a type, and a second *)
(* byte that looks like the type of an event for no length.                 *)
EventByte(r, b) ==
  IF Started(r) /\ b # EventType THEN Sized(r, b) ELSE Collect(r, b)

-----------------------------------------------------------------------------
(* A call of a reader on the input: what it collected, how many bytes it    *)
(* took, and whether it got what it wants.                                 *)
Call(Step(_, _), Wanted(_), input) ==
  LET start == [reader |-> Fresh, taken |-> 0, found |-> FALSE]
      Next(call, byte) ==
        LET reader == Step(call.reader, byte)
        IN  IF call.found THEN call
            ELSE [reader |-> reader, taken |-> call.taken + 1,
                  found |-> Wanted(reader)]
      call[k \in 0..Len(input)] ==
        IF k = 0 THEN start ELSE Next(call[k - 1], input[k].b)
  IN  call[Len(input)]

(* The readers of a connect_direct or a write_command response. *)
AnswerLength == 3

(* Faulty variant of AnswerCall: the reader does not stop at the response. *)
AnswerCallOn(input) ==
  [Call(LAMBDA r, b : ResponseByte(AnswerLength, r, b), Complete, input)
     EXCEPT !.taken = Len(input)]

AnswerCall(input) ==
  Call(LAMBDA r, b : ResponseByte(AnswerLength, r, b), Complete, input)

(* The reader of a status event takes the first packet for one.  It goes on *)
(* to the end of the input, with nothing more to find.                      *)
StatusCall(input) ==
  [Call(EventByte, Complete, input) EXCEPT !.taken = Len(input)]

(* The reader of attribute values: an event whose command is "attribute    *)
(* value" or "procedure completed".  Behind any other it finds no more.    *)
ValueCommand == 5
CompletedCommand == 1
IsValue(r) == Complete(r) /\ r.buf[4] \in {ValueCommand, CompletedCommand}

(* Faulty variant of ValueCall: the reader does not stop at the value. *)
ValueCallOn(input) ==
  [Call(EventByte, IsValue, input) EXCEPT !.taken = Len(input)]

ValueCall(input) == Call(EventByte, IsValue, input)
=============================================================================
