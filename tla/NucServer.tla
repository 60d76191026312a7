------------------------------ MODULE NucServer ------------------------------
(***************************************************************************)
(* NUCServer (Server.cpp), the relay without motor control: it reads the   *)
(* serial line, parses the text behind the first newline of what was read, *)
(* and sends the numbers to its one TCP client.  Unlike the main program   *)
(* of the NUC it does not wait for the end of a line, parses a cut line    *)
(* too, keeps a zero as it is and sends nothing when the parse fails.      *)
(***************************************************************************)
EXTENDS BoardText

CONSTANTS
  MaxFailures,  (* bound on the reads of the port that fail *)
  MaxQueue,     (* bound on the cells in the driver's queue *)
  Window        (* units TCP takes before send blocks       *)

ASSUME ServerAssumption ==
  /\ MaxFailures \in Nat /\ MaxQueue \in Nat
  /\ Window \in Nat /\ Window >= N

VARIABLES
  pc,            (* where the program is                            *)
  opened,        (* the serial port could be opened                 *)
  serialBuffer,  (* what the reads left, never terminated           *)
  text,          (* the line taken out of it; empty outside the parse *)
  sensor,        (* the message under construction                  *)
  tcpBuffer,     (* the serialized message                          *)
  rx,            (* the serial driver's input queue                 *)
  readings,      (* readings printed so far                         *)
  wire,          (* units sent and not yet received                 *)
  peer,          (* the client's end of the connection              *)
  failures,      (* reads of the port that have failed so far       *)
  latest,        (* history: the fields of the last line parsed     *)
  sent           (* history: the last message sent                  *)

port == <<opened, serialBuffer, failures>>
message == <<sensor, tcpBuffer>>
board == <<rx, readings>>
client == <<wire, peer>>
history == <<latest, sent>>
vars == <<pc, opened, serialBuffer, text, sensor, tcpBuffer, rx, readings, wire,
          peer, failures, latest, sent>>

-----------------------------------------------------------------------------

(* Faulty variant of Taken: the text is not cut to what was read. *)
TakenWhole(buffer, size) == TextOf(buffer)

(* The text that was read.  A failed read has size -1, and a substring of  *)
(* that length is the whole buffer.                                        *)
Taken(buffer, size) ==
  LET whole == TextOf(buffer)
  IN  IF size >= 0 /\ size < Len(whole) THEN SubSeq(whole, 1, size) ELSE whole

(* What is behind its first newline, up to the next; all of it if there is *)
(* no newline.                                                             *)
UpToNewline(t) ==
  LET end == SelectInSeq(t, IsNewline)
  IN  IF end = 0 THEN t ELSE SubSeq(t, 1, end - 1)
SecondLine(t) == UpToNewline(AfterFirst(t))

(* The number field f is given; zeros are the pieces that read as zero. *)
Value(line, zeros, f) ==
  IF PieceIndex(line, f) \in zeros THEN Zero
  ELSE Parsed(Digits(PieceOf(line, f)))
Values(line, zeros) == [f \in Fields |-> Value(line, zeros, f)]

(* The fields are assigned in order up to the first that is no number. *)
Assigned(line, zeros) ==
  [f \in Fields |-> IF \A g \in 1..f : IsNumber(line, g)
                    THEN Value(line, zeros, f) ELSE sensor[f]]

-----------------------------------------------------------------------------

Init ==
  /\ pc = "open"
  /\ opened = FALSE /\ failures = 0
  /\ serialBuffer = [i \in 1..BufCells |-> Junk]
  /\ text = <<>>
  /\ sensor = [f \in Fields |-> Zero]
  /\ tcpBuffer = [f \in Fields |-> Blank]
  /\ rx = <<>>
  /\ readings = 0
  /\ wire = <<>>
  /\ peer = "none"
  /\ latest = [f \in Fields |-> Zero]
  /\ sent = <<>>

(* The result of Open is not looked at. *)
OpenPort ==
  /\ pc = "open"
  /\ pc' = "serve"
  /\ opened' \in BOOLEAN
  /\ UNCHANGED <<serialBuffer, failures, text, message, board, client, history>>

(* WSAStartup, socket, bind and listen: a failure of any ends the program. *)
Serve ==
  /\ pc = "serve"
  /\ pc' \in {"accept", "exited"}
  /\ UNCHANGED <<port, text, message, board, client, history>>

Accept ==
  /\ pc = "accept"
  /\ \/ pc' = "flush" /\ peer' = "open"
     \/ pc' = "exited" /\ UNCHANGED peer
  /\ UNCHANGED <<port, text, message, board, wire, history>>

(* A read of the port, and its result: the number of cells read, or -1. *)
SerialRead(size) ==
  \/ /\ opened
     /\ \E r \in Reads(rx) :
           /\ size = Len(r[1])
           /\ serialBuffer' = WithRead(serialBuffer, r[1])
           /\ rx' = r[2]
     /\ UNCHANGED failures
  \/ /\ size = -1
     /\ failures < MaxFailures
     /\ failures' = failures + 1
     /\ UNCHANGED <<serialBuffer, rx>>

(* Flush empties the queue, or fails, which nobody looks at. *)
FlushPort ==
  /\ pc = "flush"
  /\ pc' = "first"
  /\ rx' \in {<<>>, rx}
  /\ UNCHANGED <<port, text, message, readings, client, history>>

(* A first read, of which nothing is parsed; it stays in the buffer. *)
FirstRead ==
  /\ pc = "first"
  /\ pc' = "read"
  /\ \E size \in -1..BufCells : SerialRead(size)
  /\ UNCHANGED <<opened, text, message, readings, client, history>>

(* The loop: read the port and take the line out. *)
ReadLine ==
  /\ pc = "read"
  /\ pc' = "parse"
  /\ \E size \in -1..BufCells :
        /\ SerialRead(size)
        /\ text' = SecondLine(Taken(serialBuffer', size))
  /\ UNCHANGED <<opened, message, readings, client, history>>

(* Every piece is a number: the message is serialized, to be sent. *)
ParseLine ==
  /\ pc = "parse"
  /\ IsComplete(text)
  /\ pc' = "send"
  /\ text' = <<>>
  /\ \E zeros \in SUBSET Fields :
        /\ sensor' = Assigned(text, zeros)
        /\ latest' = Values(text, zeros)
  /\ tcpBuffer' = WithUnits(tcpBuffer, Serialize(sensor'))
  /\ UNCHANGED <<port, board, client, sent>>

(* A piece is no number: the loop goes on with the next read. *)
ParseFails ==
  /\ pc = "parse"
  /\ ~IsComplete(text)
  /\ pc' = "read"
  /\ text' = <<>>
  /\ \E zeros \in SUBSET Fields : sensor' = Assigned(text, zeros)
  /\ UNCHANGED <<port, tcpBuffer, board, client, history>>

(* Faulty variant of Send: the whole buffer is sent. *)
SendWhole ==
  /\ pc = "send"
  /\ pc' = "read"
  /\ \/ /\ peer = "open"
        /\ Len(wire) + N <= Window
        /\ wire' = wire \o tcpBuffer
        /\ sent' = tcpBuffer
     \/ /\ peer = "closed"
        /\ UNCHANGED <<wire, sent>>
  /\ UNCHANGED <<port, text, message, board, peer, latest>>

(* send blocks until TCP takes the message; to a closed connection it      *)
(* fails, and the failure is not looked at.                                *)
Send ==
  LET units == SubSeq(tcpBuffer, 1, ByteSize(sensor))
  IN  /\ pc = "send"
      /\ pc' = "read"
      /\ \/ /\ peer = "open"
            /\ Len(wire) + Len(units) <= Window
            /\ wire' = wire \o units
            /\ sent' = units
         \/ /\ peer = "closed"
            /\ UNCHANGED <<wire, sent>>
      /\ UNCHANGED <<port, text, message, board, peer, latest>>

(* The board and the client. *)

PrintReading ==
  /\ opened
  /\ pc # "exited"
  /\ readings < MaxReadings
  /\ Len(rx) + 2 * N <= MaxQueue
  /\ readings' = readings + 1
  /\ rx' = rx \o ReadingLine(readings + 1)
  /\ UNCHANGED <<pc, port, text, message, client, history>>

ClientReceives ==
  /\ peer = "open"
  /\ \E k \in 1..Len(wire) : wire' = SubSeq(wire, k + 1, Len(wire))
  /\ UNCHANGED <<pc, port, text, message, board, peer, history>>

ClientCloses ==
  /\ peer = "open"
  /\ peer' = "closed"
  /\ wire' = <<>>
  /\ UNCHANGED <<pc, port, text, message, board, history>>

Startup == OpenPort \/ Serve \/ Accept \/ FlushPort \/ FirstRead
Loop == ReadLine \/ ParseLine \/ ParseFails \/ Send

Next == Startup \/ Loop \/ PrintReading \/ ClientReceives \/ ClientCloses

Spec == Init /\ [][Next]_vars

-----------------------------------------------------------------------------

(* Types of the program's and its environment's state. *)
TypeOK ==
  /\ pc \in {"open", "serve", "accept", "flush", "first", "read", "parse",
            "send", "exited"}
  /\ opened \in BOOLEAN /\ failures \in 0..MaxFailures
  /\ serialBuffer \in [1..BufCells -> Cells]
  /\ text \in Seq(Cells) /\ Len(text) <= BufCells
  /\ DOMAIN sensor = Fields /\ DOMAIN latest = Fields /\ DOMAIN tcpBuffer = Fields
  /\ rx \in Seq(Cells) /\ Len(rx) <= MaxQueue
  /\ readings \in 0..MaxReadings
  /\ Len(wire) <= Window
  /\ peer \in {"none", "open", "closed"}
  /\ Len(sent) <= N

(* As long as no read of the port failed, a message is of one reading, its  *)
(* numbers in the order of the reading: realSize keeps what older reads    *)
(* left in the buffer out of the line.                                     *)
MessageIsOneReading == failures > 0 \/ OneReading(sent)

(* As long as no read of the port failed, a message never goes back to an   *)
(* older reading.  (A failed read hands out the whole buffer again.)       *)
NoStepBack ==
  [][\/ failures > 0
     \/ \A a \in Numbers(sent), b \in Numbers(sent') : a.rd <= b.rd]_vars

(* The server sends each line it parsed once and exactly: although the     *)
(* message in the buffer has the units of an older, longer one behind it,  *)
(* and a line that failed half way leaves the sensor half assigned, and    *)
(* whatever a failed read makes it parse.                                  *)
R == INSTANCE DirectRelay WITH due <- (pc = "send")
ImplementsDirectRelay == R!Spec
=============================================================================
