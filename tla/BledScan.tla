------------------------------ MODULE BledScan ------------------------------
(***************************************************************************)
(* The first part of MyoConnectionTest.py: put the dongle into a known     *)
(* state by six commands, let it scan, and stop at the first device heard, *)
(* which should be the armband.  Each of the six answers is read as a      *)
(* number of bytes, whatever they belong to, and the reader of the scan    *)
(* reports reads all that is in the input.                                 *)
(*                                                                         *)
(* The dongle keeps its state and what it sent when the script ends and is *)
(* started again.                                                          *)
(***************************************************************************)
EXTENDS Bgapi

CONSTANTS
  MaxRuns,      (* bound on the starts of the script        *)
  MaxReports    (* bound on the scan reports                *)

ASSUME ScanAssumption ==
  /\ MaxRuns \in Nat \ {0} /\ MaxReports \in Nat

VARIABLES
  pc,         (* where the script is                                     *)
  stage,      (* which of the six exchanges                              *)
  UUID,       (* of the device found: "none", "myo" or "other"           *)
  sender,     (* its address                                             *)
  rx,         (* bytes sent by the dongle and not read                   *)
  scanning,   (* the dongle scans                                        *)
  linked,     (* it has a connection of an earlier session               *)
  leaving,    (* it has still to report that this was closed             *)
  runs,       (* starts of the script                                    *)
  reports,    (* reports sent                                            *)
  misread,    (* history: a read of this run did not take just its answer *)
  raised,     (* history: an exception ended this run                    *)
  interrupted,(* history: the scan of this run was stopped by hand       *)
  crowded,    (* history: a call of the reader was given two events      *)
  old         (* history: answers of earlier runs the flush has left     *)

found == <<UUID, sender>>
dongle == <<scanning, linked, leaving, reports>>
history == <<misread, raised, interrupted, crowded, old>>
vars == <<pc, stage, UUID, sender, rx, scanning, linked, leaving, runs, reports,
          misread, raised, interrupted, crowded, old>>

-----------------------------------------------------------------------------
(* The exchanges: command, class and command number, payload in front of   *)
(* the code in the answer, and the codes the script goes on with.          *)

Success == <<0, 0>>
NotConnected == <<1, 134>>
WrongState == <<1, 129>>

(* Faulty variant of Exchanges: a dongle that does not scan is refused. *)
ExchangesStrict ==
  <<[name |-> "disconnect", head |-> <<3, 0>>, front |-> <<0>>,
     good |-> {Success, NotConnected}],
    [name |-> "mode", head |-> <<6, 1>>, front |-> <<>>, good |-> {Success}],
    [name |-> "end", head |-> <<6, 4>>, front |-> <<>>, good |-> {Success}],
    [name |-> "info", head |-> <<0, 8>>, front |-> [i \in 1..10 |-> 1], good |-> {}],
    [name |-> "params", head |-> <<6, 7>>, front |-> <<>>, good |-> {Success}],
    [name |-> "discover", head |-> <<6, 2>>, front |-> <<>>, good |-> {Success}]>>

Exchanges ==
  <<[name |-> "disconnect", head |-> <<3, 0>>, front |-> <<0>>,
     good |-> {Success, NotConnected}],
    [name |-> "mode", head |-> <<6, 1>>, front |-> <<>>, good |-> {Success}],
    [name |-> "end", head |-> <<6, 4>>, front |-> <<>>, good |-> {Success, WrongState}],
    [name |-> "info", head |-> <<0, 8>>, front |-> [i \in 1..10 |-> 1], good |-> {}],
    [name |-> "params", head |-> <<6, 7>>, front |-> <<>>, good |-> {Success}],
    [name |-> "discover", head |-> <<6, 2>>, front |-> <<>>, good |-> {Success}]>>

EndProcedure == Exchanges[3]
LengthOf(x) == 4 + Len(x.front) + 2

(* The answer, the code in the order of the wire. *)
AnswerTo(x, code) ==
  Response(x.name, x.head[1], x.head[2], x.front \o Reverse(code))

(* chn_errcode: what is behind the first bytes, in the reverse order.  If  *)
(* there is nothing the count of bytes becomes one from the front.         *)
chn_errcode(bytes, len_non_info) ==
  LET rest == Len(bytes) - len_non_info
  IN  Reverse(SubSeq(bytes, IF rest > 0 THEN len_non_info + 1
                            ELSE 1 - rest, Len(bytes)))

Passes(x, bytes) ==
  IF x.name = "info" THEN Len(bytes) = LengthOf(x)
  ELSE chn_errcode(bytes, 4 + Len(x.front)) \in x.good

(* What the dongle does with a command. *)
Obeys(x) ==
  /\ linked' = (linked /\ x.name # "disconnect")
  /\ leaving' = (leaving \/ (linked /\ x.name = "disconnect"))
  /\ scanning' = CASE x.name = "end" -> FALSE
                   [] x.name = "discover" -> TRUE
                   [] OTHER -> scanning
  /\ UNCHANGED reports
CodeOf(x) ==
  CASE x.name = "disconnect" /\ ~linked -> NotConnected
    [] x.name = "end" /\ ~scanning -> WrongState
    [] x.name = "discover" /\ scanning -> WrongState
    [] OTHER -> Success

-----------------------------------------------------------------------------
(* Scan reports: signal strength, type, address and one field.  The field  *)
(* is a service of the armband or of another device, manufacturer's data,  *)
(* or one that the reader has no use for.                                  *)

Myo == 1
Stranger == 2
MyoService == 1
OtherService == 2
Manufacturer == 255
Unused == 0
ReportLen == 4
ReportClass == 6
Report(device, field) == Event("report", 6, 0, <<200, 0, device, field>>)
Heard == {<<Myo, MyoService>>, <<Myo, Unused>>, <<Stranger, OtherService>>,
          <<Stranger, Unused>>, <<Stranger, Manufacturer>>}

(* The reader starts at a byte that looks like the type of an event. *)
ReportByte(r, b) ==
  IF Len(r.buf) = 0 THEN IF b = EventType THEN Collect(r, b) ELSE r
  ELSE IF Len(r.buf) = 1 THEN Sized(r, b)
  ELSE Collect(r, b)

(* What is known of the device found after an event.  A report without a   *)
(* service leaves that of an earlier one; manufacturer's data, or a payload *)
(* too short, raises an exception; and an event of another kind is as good *)
(* as a report.                                                            *)
WithEvent(scan, r) ==
  LET payload == Payload(r)
      field == payload[ReportLen]
  IN  IF r.buf[3] # ReportClass THEN [scan EXCEPT !.find = TRUE]
      ELSE IF Len(payload) < ReportLen \/ field = Manufacturer
      THEN [scan EXCEPT !.raised = TRUE]
      ELSE [scan EXCEPT !.find = TRUE, !.sender = payload[3],
                        !.UUID = CASE field = MyoService -> "myo"
                                   [] field = OtherService -> "other"
                                   [] OTHER -> @]

ScanByte(scan, b) ==
  LET r == ReportByte(scan.reader, b)
  IN  IF scan.raised THEN scan
      ELSE IF Complete(r) THEN [WithEvent(scan, r) EXCEPT !.reader = Fresh]
      ELSE [scan EXCEPT !.reader = r]

(* A call of the reader on the bytes that have arrived. *)
ScanOf(input) ==
  LET scan[k \in 0..Len(input)] ==
        IF k = 0 THEN [reader |-> Fresh, find |-> FALSE, raised |-> FALSE,
                       UUID |-> "none", sender |-> 0]
        ELSE ScanByte(scan[k - 1], input[k].b)
  IN  scan[Len(input)]

-----------------------------------------------------------------------------

Dropped(k) == SubSeq(rx, k + 1, Len(rx))
Bytes(k) == [i \in 1..k |-> rx[i].b]

Init ==
  /\ pc = "flush" /\ stage = 1
  /\ UUID = "none" /\ sender = 0
  /\ rx = <<>>
  /\ scanning \in BOOLEAN /\ linked \in BOOLEAN /\ leaving = FALSE
  /\ runs = 1 /\ reports = 0
  /\ misread = FALSE /\ raised = FALSE /\ interrupted = FALSE
  /\ crowded = FALSE /\ old = 0

(* The ends of the answers, those of the events left out. *)
FromEvent(cell) == cell.kind \in {"report", "gone"}
AnswerEnds(s) == {i \in DOMAIN s : s[i].last /\ ~FromEvent(s[i])}

(* flushInput: only what has arrived is dropped. *)
FlushInput ==
  /\ pc = "flush"
  /\ pc' = "command"
  /\ \E k \in 0..Len(rx) : rx' = Dropped(k)
  /\ old' = Cardinality(AnswerEnds(rx'))
  /\ UNCHANGED <<stage, found, dongle, runs, misread, raised, interrupted, crowded>>

Command ==
  LET x == Exchanges[stage]
  IN  /\ pc = "command"
      /\ pc' = "answer"
      /\ rx' = rx \o AnswerTo(x, CodeOf(x))
      /\ Obeys(x)
      /\ UNCHANGED <<stage, found, runs, history>>

MoreAfter(n) == n < Len(Exchanges)

(* The read of an answer ends when its number of bytes is there, or after a *)
(* second with those that have arrived.                                    *)
Read(x, n) ==
  /\ n \in 0..LengthOf(x) /\ n <= Len(rx)
  /\ misread' = (misread \/ SubSeq(rx, 1, n) \notin
                   {AnswerTo(x, code) : code \in {Success, NotConnected, WrongState}})

ReadAnswer ==
  LET x == Exchanges[stage]
  IN  /\ pc = "answer"
      /\ \E n \in 0..Len(rx) :
            /\ Read(x, n)
            /\ rx' = Dropped(n)
            /\ IF ~Passes(x, Bytes(n)) THEN pc' = "failed" /\ UNCHANGED stage
               ELSE IF MoreAfter(stage) THEN pc' = "command" /\ stage' = stage + 1
               ELSE pc' = "scan" /\ UNCHANGED stage
      /\ UNCHANGED <<found, dongle, runs, raised, interrupted, crowded, old>>

(* A call of the reader of reports; an exception leaves the dongle as it is. *)
Scan ==
  /\ pc = "scan"
  /\ \E n \in 1..Len(rx) :
        LET scan == ScanOf(SubSeq(rx, 1, n))
        IN  /\ crowded' = (crowded \/ Cardinality({i \in 1..n : rx[i].last}) > 1)
            /\ rx' = Dropped(n)
            /\ raised' = scan.raised
            /\ IF scan.raised THEN pc' = "ended" /\ UNCHANGED found
               ELSE /\ UUID' = scan.UUID /\ sender' = scan.sender
                    /\ pc' = IF scan.find THEN "found" ELSE pc
  /\ UNCHANGED <<stage, dongle, runs, misread, interrupted, old>>

(* The command to end the scan: its answer behind the rest of the input. *)
EndScan(input, code) ==
  /\ rx' = input \o AnswerTo(EndProcedure, code)
  /\ Obeys(EndProcedure)
EndCode == CodeOf(EndProcedure)

(* Faulty variant of IsMyo: the first device will do. *)
IsDevice == sender # 0

IsMyo == UUID = "myo"

(* Faulty variant of Refuse: the script just ends. *)
RefuseScanning == UNCHANGED <<rx, dongle>>

(* Another device: the exit behind the command raises what the handler at  *)
(* the end catches, and the command is sent a second time, to a dongle that *)
(* has ended the scan.                                                     *)
Refuse == EndScan(rx \o AnswerTo(EndProcedure, EndCode), WrongState)

Decide ==
  /\ pc = "found"
  /\ IF IsMyo THEN pc' = "stopping" /\ EndScan(rx, EndCode)
     ELSE pc' = "ended" /\ Refuse
  /\ UNCHANGED <<stage, found, runs, history>>

(* Faulty variant of Taken: the answer stays in the input. *)
TakenNone(n) == rx

Taken(n) == Dropped(n)

ReadEnd ==
  /\ pc = "stopping"
  /\ \E n \in 0..Len(rx) :
        /\ Read(EndProcedure, n)
        /\ IF Passes(EndProcedure, Bytes(n))
           THEN pc' = "connect" /\ rx' = Taken(n) /\ UNCHANGED dongle
           ELSE pc' = "failed" /\ EndScan(Dropped(n), EndCode)
  /\ UNCHANGED <<stage, found, runs, raised, interrupted, crowded, old>>

(* Ctrl-C: caught in the scan and behind it, not before. *)
Interrupt ==
  /\ \/ /\ pc \in {"command", "answer"}
        /\ pc' = "ended"
        /\ raised' = TRUE
        /\ UNCHANGED <<rx, dongle, interrupted>>
     \/ /\ pc \in {"scan", "found"} /\ ~interrupted
        /\ pc' = "found"
        /\ interrupted' = TRUE
        /\ EndScan(rx, EndCode)
        /\ UNCHANGED raised
     \/ /\ pc = "stopping"
        /\ pc' = "ended"
        /\ EndScan(rx, EndCode)
        /\ UNCHANGED <<raised, interrupted>>
  /\ UNCHANGED <<stage, found, runs, misread, crowded, old>>

(* The script is started again.  The session behind "connect" may leave its *)
(* connection behind.                                                      *)
Restart ==
  /\ pc \in {"failed", "ended", "connect"}
  /\ runs < MaxRuns
  /\ runs' = runs + 1
  /\ pc' = "flush" /\ stage' = 1 /\ UUID' = "none" /\ sender' = 0
  /\ linked' \in {linked, linked \/ pc = "connect"}
  /\ misread' = FALSE /\ raised' = FALSE /\ interrupted' = FALSE
  /\ crowded' = FALSE /\ old' = 0
  /\ UNCHANGED <<rx, scanning, leaving, reports>>

-----------------------------------------------------------------------------
(* Events of the dongle. *)

SendReport ==
  /\ scanning
  /\ reports < MaxReports
  /\ reports' = reports + 1
  /\ \E heard \in Heard : rx' = rx \o Report(heard[1], heard[2])
  /\ UNCHANGED <<pc, stage, found, scanning, linked, leaving, runs, history>>

SendDisconnected ==
  /\ leaving
  /\ leaving' = FALSE
  /\ rx' = rx \o Event("gone", 3, 4, <<0, 22, 2>>)
  /\ UNCHANGED <<pc, stage, found, scanning, linked, reports, runs, history>>

Next ==
  \/ FlushInput \/ Command \/ ReadAnswer \/ Scan \/ Decide \/ ReadEnd
  \/ Interrupt \/ Restart \/ SendReport \/ SendDisconnected

Spec == Init /\ [][Next]_vars

-----------------------------------------------------------------------------

Cells == [b : 0..255, last : BOOLEAN,
          kind : {x.name : x \in ToSet(Exchanges)} \cup {"report", "gone"}]

(* Types of the state of the script, of the dongle and of the history. *)
TypeOK ==
  /\ pc \in {"flush", "command", "answer", "scan", "found", "stopping", "connect",
            "ended", "failed"}
  /\ stage \in 1..Len(Exchanges)
  /\ UUID \in {"none", "myo", "other"} /\ sender \in 0..255
  /\ rx \in Seq(Cells)
  /\ scanning \in BOOLEAN /\ linked \in BOOLEAN /\ leaving \in BOOLEAN
  /\ runs \in 1..MaxRuns /\ reports \in 0..MaxReports
  /\ misread \in BOOLEAN /\ raised \in BOOLEAN /\ interrupted \in BOOLEAN
  /\ crowded \in BOOLEAN /\ old \in Nat

(* In whatever state an earlier session left the dongle (with a connection, *)
(* scanning, both or neither), no exchange is refused: the script fails     *)
(* only if a read took other bytes than those of its answer.               *)
FailsOnlyMisread == pc = "failed" => misread

(* However the scan comes to its end, other than by an exception of the    *)
(* reader, the dongle does not go on scanning.                             *)
ScanStopped ==
  /\ pc \in {"stopping", "connect"} => ~scanning
  /\ pc = "ended" => raised \/ ~scanning

(* Behind a scan that was not stopped by hand, with all answers read by    *)
(* themselves, the session finds nothing in the input but events: no       *)
(* answer is left that could be taken for that of the connection.  A run   *)
(* that reads the answers of earlier runs for its own comes to an answer   *)
(* that does not fit, unless a whole row of them, or more, was left.       *)
OnlyEventsLeft ==
  pc = "connect" /\ ~misread /\ ~interrupted /\ old < Len(Exchanges) =>
    \A i \in DOMAIN rx : FromEvent(rx[i])

(* With one report in a call the device that the session connects to is    *)
(* the armband.                                                            *)
AloneConnectsToMyo ==
  pc \in {"stopping", "connect"} => crowded \/ sender = Myo

(* The device that the session connects to is the armband that was found.  *)
ConnectsToMyo == pc \in {"stopping", "connect"} => sender = Myo
=============================================================================
