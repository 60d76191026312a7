----------------------------- MODULE SerialPort -----------------------------
(***************************************************************************)
(* The class CSerialPort: one handle of a serial port, and the calls of    *)
(* Windows on it, any of which may fail.  An operator here is one call of  *)
(* the class; its parameter is what the call returns.                      *)
(*                                                                         *)
(* Text is counted in units; what it says is the matter of BoardText.      *)
(***************************************************************************)
EXTENDS Integers

CONSTANT
  MaxQueue      (* units of text the driver's input queue holds *)

ASSUME PortAssumption == MaxQueue \in Nat

VARIABLES
  hSerial,      (* the member _hSerial: "invalid" or "valid"             *)
  configured,   (* the line has the settings asked for                   *)
  timed,        (* the timeouts are those asked for                      *)
  inq           (* units in the driver's input queue                     *)

port == <<hSerial, configured, timed, inq>>

(* The constructor. *)
PortInit ==
  /\ hSerial = "invalid"
  /\ configured = FALSE
  /\ timed = FALSE
  /\ inq = 0

(* CreateFile succeeds: the queue is purged, the timeouts are whatever the *)
(* port was left with.                                                     *)
Created(set) ==
  /\ hSerial' = "valid"
  /\ configured' = set
  /\ timed' \in BOOLEAN
  /\ inq' = 0

(* Faulty variant of Open: the result of SetCommState is not looked at. *)
OpenLax(ok) ==
  \/ ~ok /\ UNCHANGED port
  \/ ok /\ hSerial = "invalid" /\ \E set \in BOOLEAN : Created(set)

(* Open refuses a port that is open; CreateFile can fail; the state of the *)
(* line may not be read or set, and then Open fails with the handle open.  *)
Open(ok) ==
  \/ ~ok /\ UNCHANGED port
  \/ hSerial = "invalid" /\ Created(ok)

(* Close, and the destructor. *)
Close ==
  /\ hSerial' = "invalid"
  /\ configured' = FALSE
  /\ timed' = FALSE
  /\ inq' = 0

(* What a read takes that asks for at most max units. *)
Taken(max) == IF inq < max THEN inq ELSE max

(* Faulty variant of CanRead: the timeouts do not bound a read. *)
CanReadAll(max) == inq >= max

(* A call on no handle fails, as any call may; a read without timeouts     *)
(* blocks until it has all it asks for.                                    *)
CanRead(max) == timed \/ inq >= max
Read(max, n) ==
  \/ n = -1 /\ UNCHANGED port
  \/ /\ hSerial = "valid"
     /\ CanRead(max)
     /\ n = Taken(max)
     /\ inq' = inq - n
     /\ UNCHANGED <<hSerial, configured, timed>>

(* What a write has written when it returns: with a timeout, part of it. *)
Writes == {"whole", "part", "none"}
Write(written) ==
  /\ written # "none" => hSerial = "valid"
  /\ written = "part" => timed
  /\ UNCHANGED port

Flush ==
  /\ inq' = 0 \/ inq' = inq
  /\ UNCHANGED <<hSerial, configured, timed>>

SetTimeout(ok) ==
  /\ ok => hSerial = "valid"
  /\ timed' = (timed \/ ok)
  /\ UNCHANGED <<hSerial, configured, inq>>

CountReadBuff(n) ==
  /\ n = -1 \/ (hSerial = "valid" /\ n = inq)
  /\ UNCHANGED port

(* Text arrives; what the queue does not hold is lost. *)
Receive ==
  /\ hSerial = "valid"
  /\ inq < MaxQueue
  /\ inq' = inq + 1
  /\ UNCHANGED <<hSerial, configured, timed>>

(* A program that makes the calls in any order. *)
PortNext ==
  \/ \E ok \in BOOLEAN : Open(ok) \/ SetTimeout(ok)
  \/ Close
  \/ \E max \in 1..(MaxQueue + 1), n \in -1..MaxQueue : Read(max, n) \/ CountReadBuff(n)
  \/ \E written \in Writes : Write(written)
  \/ Flush
  \/ Receive

PortSpec == PortInit /\ [][PortNext]_port

-----------------------------------------------------------------------------

(* Types of the handle and of the driver's state. *)
PortTypeOK ==
  /\ hSerial \in {"invalid", "valid"}
  /\ configured \in BOOLEAN
  /\ timed \in BOOLEAN
  /\ inq \in 0..MaxQueue

(* An Open that fails after CreateFile leaves the handle open without its  *)
(* settings.  No call makes it good: every later Open is refused, until    *)
(* the port is closed.                                                     *)
HalfOpen == hSerial = "valid" /\ ~configured
HalfOpenUntilClosed ==
  [][HalfOpen => HalfOpen' \/ hSerial' = "invalid"]_port
=============================================================================
