------------------------------- MODULE NucLoop -------------------------------
(***************************************************************************)
(* The program of the NUC (main.cpp, MAIN): after its start-up it repeats  *)
(* for ever: run the Myo hub, write the motor command to the board, read   *)
(* the serial line, parse a line of N numbers out of what is in the buffer, *)
(* and send the numbers, as a Sensor message, to the one TCP client.       *)
(***************************************************************************)
EXTENDS BoardText

CONSTANTS
  DebugFill,    (* TRUE: strcpy_s fills the rest of buff, as the debug        *)
                (* runtime does; FALSE: it leaves it, as the release one does *)
  MaxReplies,   (* bound on the answers the board prints                      *)
  MaxQueue,     (* bound on the cells in the driver's queue                   *)
  Window        (* units TCP takes before send blocks                         *)

ASSUME LoopAssumption ==
  /\ DebugFill \in BOOLEAN
  /\ MaxReplies \in Nat
  /\ MaxQueue \in Nat
  /\ Window \in Nat /\ Window >= N

VARIABLES
  pc,         (* where the program is                                        *)
  buff,       (* the character buffer, shared by commands and reads          *)
  buff1,      (* the text of the last read, in the loop; empty outside       *)
  sensor,     (* the message under construction                              *)
  tcpBuffer,  (* the serialized message                                      *)
  timed,      (* the port has the timeouts the program gave it               *)
  rx,         (* the serial driver's input queue                             *)
  readings,   (* readings printed so far                                     *)
  replies,    (* answers printed so far                                      *)
  wire,       (* units sent and not yet received                             *)
  peer,       (* the client's end of the connection                          *)
  latest,     (* history: the fields of the last line parsed to its end      *)
  sent        (* history: the last message sent                              *)

board == <<rx, readings, replies>>
client == <<wire, peer>>
message == <<sensor, tcpBuffer>>
history == <<latest, sent>>
vars == <<pc, buff, buff1, sensor, tcpBuffer, timed, rx, readings, replies, wire,
          peer, latest, sent>>

-----------------------------------------------------------------------------
(* The character buffer. *)

(* Faulty variant of WithCommand: the rest of buff is never wiped. *)
WithCommandKept(b) ==
  [i \in 1..BufCells |-> IF i = 1 THEN Cmd ELSE IF i = 2 THEN Nul ELSE b[i]]

(* The command is copied to the front of buff with its terminator. *)
WithCommand(b) ==
  [i \in 1..BufCells |-> IF i = 1 THEN Cmd
                         ELSE IF i = 2 THEN Nul
                         ELSE IF DebugFill THEN Junk ELSE b[i]]

-----------------------------------------------------------------------------
(* The text of one read, and the line that is parsed. *)

(* std::unique: of adjacent newlines one stays. *)
Kept(text) ==
  {i \in 1..Len(text) :
     ~(i > 1 /\ text[i] = Newline /\ text[i - 1] = Newline)}
Unique(text) ==
  [k \in 1..Cardinality(Kept(text)) |-> text[Nth(Kept(text), k)]]

(* A text is parsed when a second newline follows the first. *)
HasLine(text) == SelectInSeq(AfterFirst(text), IsNewline) # 0

(* The line to parse: the second one if the text holds "set", else the first. *)
LineOf(text) == IF Contains(text, Set) THEN FirstLine(AfterFirst(text))
                ELSE FirstLine(text)

(* Faulty variant of NonZero: a zero is stored as it is. *)
ZeroKept(line, zeros, f) ==
  IF PieceIndex(line, f) \in zeros THEN Zero
  ELSE Parsed(Digits(PieceOf(line, f)))

(* A zero is replaced by -1; zeros are the pieces that read as zero. *)
NonZero(line, zeros, f) ==
  IF PieceIndex(line, f) \in zeros THEN MinusOne
  ELSE Parsed(Digits(PieceOf(line, f)))

(* Faulty variant of Assigned: a piece that is no number is skipped. *)
AssignedSkipping(line, zeros) ==
  [f \in Fields |-> IF IsNumber(line, f) THEN NonZero(line, zeros, f)
                    ELSE sensor[f]]

(* The fields are assigned in order up to the first that is no number.     *)
Assigned(line, zeros) ==
  [f \in Fields |-> IF \A g \in 1..f : IsNumber(line, g)
                    THEN NonZero(line, zeros, f) ELSE sensor[f]]

-----------------------------------------------------------------------------

Init ==
  /\ pc = "find"
  /\ buff = [i \in 1..BufCells |-> Junk]
  /\ buff1 = <<>>
  /\ sensor = [f \in Fields |-> Zero]
  /\ tcpBuffer = [f \in Fields |-> Blank]
  /\ timed = FALSE
  /\ rx = <<>>
  /\ readings = 0
  /\ replies = 0
  /\ wire = <<>>
  /\ peer = "none"
  /\ latest = [f \in Fields |-> Zero]
  /\ sent = <<>>

(* The start-up, which any of its calls may end. *)

(* waitForMyo: no armband within ten seconds raises an exception. *)
FindMyo ==
  /\ pc = "find"
  /\ pc' \in {"open", "exited"}
  /\ UNCHANGED <<timed, buff, buff1, message, board, client, history>>

(* The port is opened and its queue purged, or the program returns.  That  *)
(* SetTimeout failed is not looked at: the port then keeps the timeouts it *)
(* was left with.                                                          *)
OpenPort ==
  /\ pc = "open"
  /\ \/ pc' = "probe" /\ timed' \in BOOLEAN
     \/ pc' = "exited" /\ UNCHANGED timed
  /\ rx' = <<>>
  /\ UNCHANGED <<buff, buff1, message, readings, replies, client, history>>

(* The first command and the first read, whose result is only printed. *)
Probe ==
  /\ pc = "probe"
  /\ pc' = "serve"
  /\ \E r \in Reads(rx) :
        /\ buff' = WithRead(WithCommand(buff), r[1])
        /\ rx' = r[2]
  /\ UNCHANGED <<timed, buff1, message, readings, replies, client, history>>

(* WSAStartup, socket, bind and listen: a failure of any ends the program. *)
Serve ==
  /\ pc = "serve"
  /\ pc' \in {"accept", "exited"}
  /\ UNCHANGED <<timed, buff, buff1, message, board, client, history>>

(* accept blocks until a client connects, or fails. *)
Accept ==
  /\ pc = "accept"
  /\ \/ pc' = "loop" /\ peer' = "open"
     \/ pc' = "exited" /\ UNCHANGED peer
  /\ UNCHANGED <<timed, buff, buff1, message, board, wire, history>>

(* The loop. *)

(* hub.run raises an exception when the SDK reports an error. *)
HubFails ==
  /\ pc = "loop"
  /\ pc' = "exited"
  /\ UNCHANGED <<timed, buff, buff1, message, board, client, history>>

(* hub.run returns after 50 ms; the speed is formatted and written. *)
WriteCommand ==
  /\ pc = "loop"
  /\ pc' = "read"
  /\ buff' = WithCommand(buff)
  /\ UNCHANGED <<timed, buff1, message, board, client, history>>

(* The read returns after a pause of 1 ms or after 10 ms, wherever the     *)
(* text then stands; a failed read returns like an empty one.  Without its *)
(* timeouts it returns whenever it likes, and perhaps never (see Keeps).   *)
ReadPort ==
  /\ pc = "read"
  /\ pc' = "parse"
  /\ \E r \in Reads(rx) :
        /\ buff' = WithRead(buff, r[1])
        /\ buff1' = Unique(TextOf(buff'))
        /\ rx' = r[2]
  /\ UNCHANGED <<timed, message, readings, replies, client, history>>

(* No second line in the text: nothing is parsed and nothing sent. *)
NoLine ==
  /\ pc = "parse"
  /\ ~HasLine(buff1)
  /\ pc' = "loop"
  /\ buff1' = <<>>
  /\ UNCHANGED <<timed, buff, message, board, client, history>>

(* The line is parsed.  A piece that is no number ends the parse with an   *)
(* exception: the fields before it stay assigned, the buffer is not        *)
(* serialized anew, and the program goes on to send.                       *)
ParseLine ==
  LET line == LineOf(buff1)
  IN  /\ pc = "parse"
      /\ HasLine(buff1)
      /\ pc' = "send"
      /\ buff1' = <<>>
      /\ \E zeros \in SUBSET Fields :
            /\ sensor' = Assigned(line, zeros)
            /\ IF IsComplete(line)
               THEN /\ tcpBuffer' = WithUnits(tcpBuffer, Serialize(sensor'))
                    /\ latest' = sensor'
               ELSE UNCHANGED <<tcpBuffer, latest>>
      /\ UNCHANGED <<timed, buff, board, client, sent>>

(* Faulty variant of CanSend: a send that fails is tried again. *)
CanSendRetrying(units) == peer = "open" /\ Len(wire) + Len(units) <= Window

(* send blocks until TCP takes the units; to a closed connection it fails. *)
CanSend(units) == peer = "closed" \/ Len(wire) + Len(units) <= Window

(* ByteSize of the sensor says how much of the buffer goes out.  That the  *)
(* call failed is not looked at.                                           *)
Outgoing == SubSeq(tcpBuffer, 1, ByteSize(sensor))
Send ==
  /\ pc = "send"
  /\ pc' = "loop"
  /\ CanSend(Outgoing)
  /\ IF peer = "open" THEN wire' = wire \o Outgoing /\ sent' = Outgoing
                      ELSE UNCHANGED <<wire, sent>>
  /\ UNCHANGED <<timed, buff, buff1, message, board, peer, latest>>

(* The board and the client. *)

PortOpen == pc \notin {"find", "open", "exited"}

PrintReading ==
  /\ PortOpen
  /\ readings < MaxReadings
  /\ Len(rx) + 2 * N <= MaxQueue
  /\ readings' = readings + 1
  /\ rx' = rx \o ReadingLine(readings + 1)
  /\ UNCHANGED <<pc, timed, buff, buff1, message, replies, client, history>>

PrintReply ==
  /\ PortOpen
  /\ replies < MaxReplies
  /\ Len(rx) + Len(ReplyLine) <= MaxQueue
  /\ replies' = replies + 1
  /\ rx' = rx \o ReplyLine
  /\ UNCHANGED <<pc, timed, buff, buff1, message, readings, client, history>>

ClientReceives ==
  /\ peer = "open"
  /\ \E k \in 1..Len(wire) : wire' = SubSeq(wire, k + 1, Len(wire))
  /\ UNCHANGED <<pc, timed, buff, buff1, message, board, peer, history>>

ClientCloses ==
  /\ peer = "open"
  /\ peer' = "closed"
  /\ wire' = <<>>
  /\ UNCHANGED <<pc, timed, buff, buff1, message, board, history>>

Startup == FindMyo \/ OpenPort \/ Probe \/ Serve \/ Accept
Loop == HubFails \/ WriteCommand \/ ReadPort \/ NoLine \/ ParseLine \/ Send
Board == PrintReading \/ PrintReply
Client == ClientReceives \/ ClientCloses

Next == Startup \/ Loop \/ Board \/ Client

Spec == Init /\ [][Next]_vars

(* The scheduler runs the program; the client, once connected, reads what  *)
(* arrives or goes away.  Nothing is assumed of the board.  Keeps is weak  *)
(* fairness of Loop with the condition under which it is enabled written   *)
(* out, which TLC evaluates faster.  A read of a port without its timeouts *)
(* need never return, so there the loop is not ready.                      *)
LoopReady ==
  \/ pc \in {"loop", "parse"}
  \/ pc = "read" /\ timed
  \/ pc = "send" /\ CanSend(Outgoing)
Keeps == []<>(~LoopReady) \/ []<><<Loop>>_vars
FairSpec == Spec /\ Keeps /\ WF_vars(ClientReceives)

-----------------------------------------------------------------------------

Locations == {"find", "open", "probe", "serve", "accept", "loop", "read",
              "parse", "send", "exited"}

(* A line was parsed to its end, so the buffer holds a message. *)
Primed == tcpBuffer[1] # Blank

(* Types of the program's and its environment's state. *)
TypeOK ==
  /\ pc \in Locations
  /\ buff \in [1..BufCells -> Cells]
  /\ buff1 \in Seq(Cells) /\ Len(buff1) <= BufCells
  /\ DOMAIN sensor = Fields /\ DOMAIN latest = Fields
  /\ DOMAIN tcpBuffer = Fields
  /\ \A f \in Fields : tcpBuffer[f].tag \in {0, f}
  /\ timed \in BOOLEAN
  /\ rx \in Seq(Cells) /\ Len(rx) <= MaxQueue
  /\ readings \in 0..MaxReadings
  /\ replies \in 0..MaxReplies
  /\ Len(wire) <= Window
  /\ peer \in {"none", "open", "closed"}
  /\ Len(sent) <= N

(* Before a first complete line, one that fails half way makes it send     *)
(* uninitialised memory: always less than a message, so that a client that *)
(* takes N units for a message is out of step from then on.                *)
GarbageIsShort == ~Primed => Len(sent) < N /\ sensor[N] = Zero

(* The fields of a message come from one reading of the board, in the      *)
(* order of the reading, wherever the reads cut the text (a line cut at    *)
(* its front gives its last fields, the last one repeated).  It depends on *)
(* strcpy_s wiping buff: without that, what an older read left behind the  *)
(* end of a newer one is parsed as its continuation.                       *)
MessageIsOneReading == OneReading(sent)

(* Messages never go back to an older reading, though a message is sent    *)
(* again whenever a line fails to parse.                                   *)
NoStepBack ==
  [][\A a \in Numbers(sent), b \in Numbers(sent') : a.rd <= b.rd]_vars

(* The program implements the relay it is for its client: whatever mixture *)
(* of old and new text it parses, and although a line that fails half way  *)
(* leaves the sensor half assigned and is followed by a send of its        *)
(* ByteSize all the same, what goes out is the latest complete line, whole. *)
R == INSTANCE Relay
ImplementsRelay == R!Spec

(* On a port that has its timeouts, and with a client that reads or goes   *)
(* away, the loop comes round to the next motor command, whatever the      *)
(* board prints and although send blocks: no send waits for ever.          *)
CommandsKeepFlowing == (pc = "read" /\ timed) ~> (pc = "loop")
=============================================================================
