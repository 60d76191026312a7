------------------------------ MODULE BledLink ------------------------------
(***************************************************************************)
(* The session with one armband (MyoConnectionTest.py from the connection  *)
(* on): ask the dongle for a connection, wait for its status, write three  *)
(* commands to the armband, and pass its motion data on to the board.      *)
(*                                                                         *)
(* The script polls: it calls a reader again and again until one call has  *)
(* found its packet.  A call that ends in the middle of a packet, or takes *)
(* in a packet that is not for it, loses bytes that nobody sends again.    *)
(***************************************************************************)
EXTENDS Bgapi

CONSTANTS
  Attempts,    (* connections asked for at most; 9 in the script     *)
  Handles,     (* connection handles the dongle may assign           *)
  PoseBytes,   (* the poses reported; 0 and 3 mislead a reader       *)
  StatusLen,   (* payload of a status event; 16 on the dongle        *)
  ImuLen,      (* bytes of motion data in an event; 20 on the armband *)
  MaxCuts,     (* bound on the arrivals that end in a packet         *)
  MaxLate,     (* bound on the late events of an earlier run         *)
  MaxImu,      (* bound on the motion events                         *)
  MaxPoses,    (* bound on the pose events                           *)
  MaxUpdates   (* bound on the later status events                   *)

(* An event whose length looks like a type would hide from its reader. *)
ASSUME LinkAssumption ==
  /\ Attempts \in Nat \ {0}
  /\ Handles \subseteq 0..7 /\ Handles # {}
  /\ PoseBytes \subseteq 0..255
  /\ StatusLen \in 2..255 /\ StatusLen \notin {AnswerLength, EventType}
  /\ ImuLen \in 1..250 /\ 5 + ImuLen # EventType
  /\ MaxCuts \in Nat /\ MaxLate \in Nat
  /\ MaxImu \in 0..255 /\ MaxPoses \in Nat /\ MaxUpdates \in Nat

VARIABLES
  pc,          (* where the script is                                  *)
  attempt,     (* the connection asked for                             *)
  step,        (* the command written: subscribe twice, then the mode  *)
  connection,  (* connection_handle                                    *)
  handle,      (* the handle the last write response was said to carry *)
  result,      (* the last response: "none", "0000" or "error"         *)
  rx,          (* bytes in the input of the host                       *)
  board,       (* data written to the board                            *)
  line,        (* bytes sent by the dongle and not arrived             *)
  cuts,        (* arrivals so far that ended in the middle of a packet *)
  link,        (* the connection: "none", "opening", "up", "down"      *)
  assigned,    (* its handle                                           *)
  done,        (* the commands the armband was given                   *)
  imu, poses, updates, late,   (* events sent, of each kind            *)
  torn,        (* history: a call ended in the middle of a packet      *)
  mixed,       (* history: a reader took in another packet with or for its own *)
  behind       (* history: a value was awaited behind another packet   *)

script == <<pc, attempt, step, connection, handle, result>>
wires == <<line, cuts>>
dongle == <<link, assigned, done, imu, poses, updates, late>>
history == <<torn, mixed, behind>>
vars == <<pc, attempt, step, connection, handle, result, rx, board, line, cuts, link,
          assigned, done, imu, poses, updates, late, torn, mixed, behind>>

-----------------------------------------------------------------------------
(* The packets of the dongle.  The bytes that stand for data no reader     *)
(* looks at are 9; an error code is 0x0181.                                *)

Steps == <<"imu", "classifier", "mode">>
ImuHandle == 28
ClassifierHandle == 35

Code(ok) == IF ok THEN <<0, 0>> ELSE <<129, 1>>
ConnectAnswer(ok, h) == Response("answer", 6, 3, Code(ok) \o <<h>>)
WriteAnswer(ok, h) == Response("answer", 4, 6, <<h>> \o Code(ok))
DisconnectAnswer(h) == Response("answer", 3, 0, <<h, 0, 0>>)
Status(h) ==
  Event("status", 3, 0, [i \in 1..StatusLen |-> IF i = 1 THEN h ELSE 9])
Disconnected(h) == Event("gone", 3, 4, <<h, 8, 2>>)
ImuData(n) == [i \in 1..ImuLen |-> n]
ImuEvent(n, h) ==
  Event("imu", 4, 5, <<h, ImuHandle, 0, 1, ImuLen>> \o ImuData(n))
PoseEvent(p, h) ==
  Event("pose", 4, 5, <<h, ClassifierHandle, 0, 1, 1, p>>)
ScanReport == Event("report", 6, 0, [i \in 1..11 |-> 9])

-----------------------------------------------------------------------------
(* What a call leaves in the input, and what it cost. *)

Dropped(k) == SubSeq(rx, k + 1, Len(rx))
Cut(k) == k > 0 /\ ~rx[k].last
Kinds(k) == {rx[i].kind : i \in 1..k}

Init ==
  /\ pc = "flush" /\ attempt = 1 /\ step = 1
  /\ connection = 0 /\ handle = 0 /\ result = "none"
  /\ rx = <<>> /\ line = <<>> /\ cuts = 0
  /\ board = <<>>
  /\ link = "none" /\ assigned \in Handles /\ done = {}
  /\ imu = 0 /\ poses = 0 /\ updates = 0 /\ late = 0
  /\ torn = FALSE /\ mixed = FALSE /\ behind = FALSE

(* flushInput: only what has arrived is dropped. *)
Flush ==
  /\ pc = "flush"
  /\ pc' = "ask"
  /\ rx' = <<>>
  /\ torn' = (torn \/ Cut(Len(rx)))
  /\ UNCHANGED <<attempt, step, connection, handle, result, board, wires, dongle,
                 mixed, behind>>

(* The command; the dongle may refuse it. *)
AskConnection ==
  /\ pc = "ask"
  /\ pc' = "asked"
  /\ \E ok \in BOOLEAN :
        /\ line' = line \o ConnectAnswer(ok, assigned)
        /\ link' = IF ok THEN "opening" ELSE link
  /\ UNCHANGED <<attempt, step, connection, handle, result, rx, board, cuts,
                 assigned, done, imu, poses, updates, late, history>>

(* What the reader of a response makes of the input.  An event in front of  *)
(* the response is a loss if the reader takes in both, or believes to have  *)
(* found the response in it.                                                *)
TakeAnswer(call) ==
  /\ rx' = Dropped(call.taken)
  /\ torn' = (torn \/ Cut(call.taken))
  /\ mixed' = (mixed \/ (/\ rx[1].kind # "answer"
                         /\ call.found \/ "answer" \in Kinds(call.taken)))

(* The loop around the reader: an answer without its packet is asked for    *)
(* again, and the reader of connect_direct then returns handle 0.          *)
NoAnswer ==
  LET call == AnswerCall(rx)
  IN  /\ pc \in {"asked", "written"}
      /\ rx # <<>>
      /\ ~call.found
      /\ TakeAnswer(call)
      /\ connection' = IF pc = "asked" THEN 0 ELSE connection
      /\ UNCHANGED <<pc, attempt, step, handle, result, board, wires, dongle, behind>>

MayAskAgain(n) == n < Attempts

(* The answer to the request; after the last refusal the script ends. *)
ReadConnect ==
  LET call == AnswerCall(rx)
      payload == Payload(call.reader)
  IN  /\ pc = "asked"
      /\ call.found
      /\ TakeAnswer(call)
      /\ connection' = payload[3]
      /\ IF SubSeq(payload, 1, 2) = Code(TRUE)
         THEN pc' = "status" /\ result' = "0000" /\ UNCHANGED attempt
         ELSE /\ result' = "error"
              /\ attempt' = attempt + 1
              /\ pc' = IF MayAskAgain(attempt) THEN "ask" ELSE "exited"
      /\ UNCHANGED <<step, handle, board, wires, dongle, behind>>

(* Faulty variant of ConnectionOf: the flags behind it are taken. *)
FlagsOf(payload) == payload[2]

ConnectionOf(payload) == payload[1]

(* The first packet is the status, whatever it is; one that is too short   *)
(* for the fields of a status ends the script.  All of the input is gone.  *)
ReadStatus ==
  LET call == StatusCall(rx)
      payload == Payload(call.reader)
  IN  /\ pc = "status"
      /\ rx # <<>>
      /\ rx' = Dropped(call.taken)
      /\ torn' = (torn \/ Cut(call.taken))
      /\ mixed' = (mixed \/ rx[1].kind # "status")
      /\ IF ~call.found THEN connection' = 0 /\ UNCHANGED pc
         ELSE IF Len(payload) < StatusLen
         THEN pc' = "exited" /\ UNCHANGED connection
         ELSE pc' = "write" /\ connection' = ConnectionOf(payload)
      /\ UNCHANGED <<attempt, step, handle, result, board, wires, dongle, behind>>

(* A command to the armband.  The dongle takes it if the handle is that of *)
(* the connection; the armband then has it.                                *)
Write ==
  LET ok == link = "up" /\ connection = assigned
  IN  /\ pc = "write"
      /\ pc' = "written"
      /\ line' = line \o WriteAnswer(ok, connection)
      /\ done' = IF ok THEN done \cup {Steps[step]} ELSE done
      /\ UNCHANGED <<attempt, step, connection, handle, result, rx, board, cuts,
                     link, assigned, imu, poses, updates, late, history>>

(* Its answer: a failure is printed, and the script goes on all the same.  *)
(* The handle in the answer is dropped and zero returned in its place.     *)
ReadWritten ==
  LET call == AnswerCall(rx)
      payload == Payload(call.reader)
  IN  /\ pc = "written"
      /\ call.found
      /\ TakeAnswer(call)
      /\ handle' = 0
      /\ result' = IF SubSeq(payload, 2, 3) = Code(TRUE) THEN "0000" ELSE "error"
      /\ IF step < Len(Steps)
         THEN pc' = "write" /\ step' = step + 1
         ELSE pc' = "stream" /\ UNCHANGED step
      /\ UNCHANGED <<attempt, connection, board, wires, dongle, behind>>

(* Faulty variant of IsMotion: the attribute is not looked at. *)
IsAny(payload) == TRUE

IsMotion(payload) == SubSeq(payload, 2, 3) = <<ImuHandle, 0>>

(* The value of an event goes to the board if it is motion data, and only  *)
(* while the last response, that to the mode command, said success.  The   *)
(* script ends at an event too short for its fields, and behind the write  *)
(* to the board at data of another length than motion data has.            *)
ReadValue ==
  LET call == ValueCall(rx)
      payload == Payload(call.reader)
      data == SubSeq(payload, 6, Len(payload))
      forBoard == /\ result = "0000"
                  /\ call.reader.buf[4] = ValueCommand
                  /\ IsMotion(payload)
  IN  /\ pc = "stream"
      /\ rx # <<>>
      /\ rx' = Dropped(call.taken)
      /\ torn' = (torn \/ Cut(call.taken))
      /\ behind' = (behind \/ rx[1].kind \notin {"imu", "pose"})
      /\ IF ~call.found THEN UNCHANGED <<pc, board>>
         ELSE IF Len(payload) < 5 THEN pc' = "exited" /\ UNCHANGED board
         ELSE IF ~forBoard THEN UNCHANGED <<pc, board>>
         ELSE /\ board' = Append(board, data)
              /\ pc' = IF Len(data) = ImuLen THEN pc ELSE "exited"
      /\ UNCHANGED <<attempt, step, connection, handle, result, wires, dongle, mixed>>

(* Faulty variant of Closing: the handle of the last write response. *)
ClosingHandle == handle

(* The connection that is closed in the end. *)
Closing == connection

(* Ctrl-C.  Only the loop of the stream closes the connection. *)
Interrupt ==
  /\ \/ pc \in {"asked", "status", "written"} /\ pc' = "exited"
        /\ UNCHANGED <<rx, line, link, torn>>
     \/ /\ pc = "stream" /\ pc' = "closing"
        /\ rx' = <<>>
        /\ torn' = (torn \/ Cut(Len(rx)))
        /\ LET hit == link = "up" /\ Closing = assigned
           IN  /\ link' = IF hit THEN "down" ELSE link
               /\ line' = line \o DisconnectAnswer(Closing)
                               \o (IF hit THEN Disconnected(Closing) ELSE <<>>)
  /\ UNCHANGED <<attempt, step, connection, handle, result, board, cuts, assigned,
                 done, imu, poses, updates, late, mixed, behind>>

(* A read of as many bytes as the answer has, or of fewer after a second. *)
ReadDisconnect ==
  /\ pc = "closing"
  /\ pc' = "closed"
  /\ rx' = Dropped(IF Len(rx) < 7 THEN Len(rx) ELSE 7)
  /\ UNCHANGED <<attempt, step, connection, handle, result, board, wires, dongle,
                 history>>

-----------------------------------------------------------------------------
(* The dongle, the armband and the wire. *)

SendEvent(event) ==
  /\ line' = line \o event
  /\ UNCHANGED <<script, rx, board, cuts, assigned, done, history>>

LinkUp ==
  /\ link = "opening"
  /\ link' = "up"
  /\ SendEvent(Status(assigned))
  /\ UNCHANGED <<imu, poses, updates, late>>

(* The parameters of the connection changed. *)
UpdateLink ==
  /\ link = "up"
  /\ updates < MaxUpdates
  /\ updates' = updates + 1
  /\ SendEvent(Status(assigned))
  /\ UNCHANGED <<link, imu, poses, late>>

LoseLink ==
  /\ link = "up"
  /\ link' = "down"
  /\ SendEvent(Disconnected(assigned))
  /\ UNCHANGED <<imu, poses, updates, late>>

SendImu ==
  /\ link = "up"
  /\ {"imu", "mode"} \subseteq done
  /\ imu < MaxImu
  /\ imu' = imu + 1
  /\ SendEvent(ImuEvent(imu + 1, assigned))
  /\ UNCHANGED <<link, poses, updates, late>>

SendPose ==
  /\ link = "up"
  /\ "classifier" \in done
  /\ poses < MaxPoses
  /\ poses' = poses + 1
  /\ \E p \in PoseBytes : SendEvent(PoseEvent(p, assigned))
  /\ UNCHANGED <<link, imu, updates, late>>

(* What the runs before have left comes late: reports of a scan, and the    *)
(* end of a connection that was closed.                                    *)
SendLate ==
  /\ link = "none"
  /\ late < MaxLate
  /\ late' = late + 1
  /\ \E event \in {ScanReport} \cup {Disconnected(h) : h \in Handles} : SendEvent(event)
  /\ UNCHANGED <<link, imu, poses, updates>>

Arrive ==
  /\ \E k \in 1..Len(line) :
        /\ line[k].last \/ cuts < MaxCuts
        /\ cuts' = IF line[k].last THEN cuts ELSE cuts + 1
        /\ rx' = rx \o SubSeq(line, 1, k)
        /\ line' = SubSeq(line, k + 1, Len(line))
  /\ UNCHANGED <<script, board, dongle, history>>

Script == \/ Flush \/ AskConnection \/ NoAnswer \/ ReadConnect \/ ReadStatus
          \/ Write \/ ReadWritten \/ ReadValue \/ ReadDisconnect
Device == LinkUp \/ UpdateLink \/ LoseLink \/ SendImu \/ SendPose

Next == Script \/ Interrupt \/ Device \/ SendLate \/ Arrive

Spec == Init /\ [][Next]_vars

(* The script polls without end and what was sent arrives.  Weak fairness  *)
(* of Script is written out, with the condition under which it has a step. *)
Ready ==
  \/ pc \in {"flush", "ask", "write", "closing"}
  \/ pc \in {"asked", "status", "written", "stream"} /\ rx # <<>>
Polls == []<>(~Ready) \/ []<><<Script>>_vars
FairSpec == Spec /\ Polls /\ WF_vars(Arrive)

-----------------------------------------------------------------------------

Cells == [b : 0..255, last : BOOLEAN,
          kind : {"answer", "status", "gone", "imu", "pose", "report"}]

(* Types of the state of the script, of the dongle and of the history. *)
TypeOK ==
  /\ pc \in {"flush", "ask", "asked", "status", "write", "written", "stream",
            "closing", "closed", "exited"}
  /\ attempt \in 1..(Attempts + 1) /\ step \in 1..Len(Steps)
  /\ connection \in 0..255 /\ handle \in 0..255
  /\ result \in {"none", "0000", "error"}
  /\ rx \in Seq(Cells) /\ line \in Seq(Cells)
  /\ board \in Seq(Seq(0..255))
  /\ cuts \in 0..MaxCuts
  /\ link \in {"none", "opening", "up", "down"} /\ assigned \in Handles
  /\ done \subseteq ToSet(Steps)
  /\ imu \in 0..MaxImu /\ poses \in 0..MaxPoses /\ updates \in 0..MaxUpdates
  /\ late \in 0..MaxLate
  /\ torn \in BOOLEAN /\ mixed \in BOOLEAN /\ behind \in BOOLEAN

InTransit(kind) == \E cell \in ToSet(rx) \cup ToSet(line) : cell.kind = kind

(* What the script waits for is never lost but by a call that ended in the *)
(* middle of a packet, or by an event in front of it in one input: no      *)
(* reader takes in the next one's packet behind its own.                   *)
AnswerNotLost ==
  \/ torn \/ mixed
  \/ /\ pc \in {"asked", "written"} => InTransit("answer")
     /\ pc = "status" /\ link # "opening" => InTransit("status")

(* The commands go to the connection the dongle assigned. *)
WritesToAssigned ==
  pc \in {"write", "written", "stream", "closing", "closed"} =>
    torn \/ mixed \/ connection = assigned

(* As long as no call ended in the middle of a packet, the board gets whole *)
(* motion data, each at most once and in the order of the armband.          *)
BoardInOrder ==
  \/ torn
  \/ /\ \A i \in DOMAIN board : \E n \in 1..imu : board[i] = ImuData(n)
     /\ \A i, j \in DOMAIN board : i < j => board[i][1] < board[j][1]

(* And unless a value was awaited behind another event, or the script was  *)
(* misled before, it gets all of what was read.                            *)
BoardComplete ==
  \/ torn \/ mixed \/ behind
  \/ pc \in {"closing", "closed", "exited"}
  \/ LET waiting == Cardinality({i \in 1..Len(rx) : rx[i].kind = "imu" /\ rx[i].last})
                    + Cardinality({i \in 1..Len(line) : line[i].kind = "imu" /\ line[i].last})
     IN  board = [i \in 1..(imu - waiting) |-> ImuData(i)]

(* After the session was closed by hand the connection is gone. *)
ClosedMeansDown ==
  pc = "closed" => torn \/ mixed \/ link # "up"

(* The reader of write responses returns the handle of the connection the  *)
(* response is for, as its comment says.                                   *)
HandleReturned ==
  torn \/ mixed \/ (pc = "stream" => handle = assigned)

(* Once the connection is up the script comes to the stream of values,     *)
(* unless it was stopped or an answer lost.                                *)
ReachesStream ==
  link = "up" ~> (torn \/ mixed \/ pc \in {"stream", "closing", "closed", "exited"})

-----------------------------------------------------------------------------
(* The session in the large, which knows of no packets. *)

Phase ==
  CASE pc \in {"flush", "ask", "asked", "status"} -> "asking"
    [] pc = "write" -> "giving"
    [] pc = "written" -> "given"
    [] pc = "stream" -> "stream"
    [] OTHER -> "over"

(* The script, the dongle and the wire keep the promises of a session with  *)
(* an armband, each of them for as long as its losses allow.               *)
Arm == INSTANCE ArmSession WITH
       Commands <- Steps, Enabling <- {"imu", "mode"}, Data <- ImuData,
       phase <- Phase, sent <- imu
ImplementsSession == Arm!Spec

(* Whatever answer the script goes on with, the armband it streams from has *)
(* its commands.                                                           *)
SessionConfigured == Arm!Configured
=============================================================================
