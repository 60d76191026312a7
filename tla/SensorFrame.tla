----------------------------- MODULE SensorFrame -----------------------------
(***************************************************************************)
(* The message Sensor (data.pb.cc): N float fields, numbered 1..N, as the  *)
(* program assigns, measures and serializes it.  On the wire a field is    *)
(* one unit, its tag and its value (five bytes for each of the N = 5       *)
(* fields of the code), and a field that is zero is not written at all, so *)
(* the length of a message depends on its values and the reader, who is    *)
(* told no length, has to guess it.                                        *)
(***************************************************************************)
EXTENDS Integers, FiniteSets

CONSTANT N    (* number of fields *)

ASSUME FrameAssumption == N \in Nat \ {0}

Fields == 1..N

(* A field holds zero, the -1 that stands for a zero in the frame, or a    *)
(* number read from the serial line, abstracted to the digits it came from. *)
Zero == [kind |-> "zero"]
MinusOne == [kind |-> "minus one"]
Parsed(digits) == [kind |-> "parsed", digits |-> digits]

(* Uninitialised memory where a unit should be. *)
Blank == [tag |-> 0, val |-> Zero]

Unit(sensor, f) == [tag |-> f, val |-> sensor[f]]

(* The fields that are written. *)
Present(sensor) == {f \in Fields : sensor[f] # Zero}

(* The length of the message, in units. *)
ByteSize(sensor) == Cardinality(Present(sensor))

(* The k-th of a set of numbers. *)
Nth(S, k) == CHOOSE i \in S : Cardinality({j \in S : j <= i}) = k

(* The k-th of them by field number, and the units in that order. *)
NthPresent(sensor, k) == Nth(Present(sensor), k)

Serialize(sensor) ==
  [k \in 1..ByteSize(sensor) |-> Unit(sensor, NthPresent(sensor, k))]
=============================================================================
