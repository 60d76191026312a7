----------------------------- MODULE MotorSystem -----------------------------
(***************************************************************************)
(* The path of a movement to the motor: armbands, the hub, the gesture     *)
(* interpreter, the loop of a program, the serial line.  Two programs are  *)
(* built this way, the one of the NUC (main.cpp, MAIN) and its older       *)
(* brother MyoWin, which opens the port first, has no client, and reads    *)
(* the line only now and then.                                             *)
(*                                                                         *)
(* Of the board's text only the amount matters here (NucLoop has what it   *)
(* says); of the client only whether it reads.                             *)
(***************************************************************************)
EXTENDS SerialPort, MyoHub

CONSTANTS
  Programs,     (* a subset of {"nuc", "win"}                                *)
  ReadEvery,    (* rounds between two reads of MyoWin: 100                   *)
  BufUnits,     (* units of text that fill buff, one unit being what the     *)
                (* board can print in the time of a round                    *)
  MaxFailures,  (* bound on the writes that fail or write a part             *)
  Scale, MaxRoll, Rolls, Turn, Poses, Idle, Unknown    (* see Gesture        *)

ASSUME MotorAssumption ==
  /\ Programs \subseteq {"nuc", "win"}
  /\ ReadEvery \in Nat
  /\ BufUnits \in Nat /\ BufUnits >= 3
  /\ MaxFailures \in Nat
  /\ Scale \in Nat \ {0} /\ MaxRoll \in Nat /\ Turn \in Nat \ {0}
  /\ 0 \in Rolls /\ Rolls \subseteq (-MaxRoll)..MaxRoll
  /\ Unknown \in Idle /\ Idle \subseteq Poses

VARIABLES
  program,      (* the program that runs                                     *)
  pc,           (* the call it is in, or about to make                       *)
  timer,        (* MyoWin's count of rounds                                  *)
  Ez, pos, Quat, referenceQuat, referenceRoll, theta, speed, currentPose,
  unlock,       (* the collector's members, see Gesture                      *)
  motor,        (* the speed the board was last given; empty: it cannot say  *)
  cut,          (* the text on the line ends inside a command                *)
  failures,     (* writes that failed or wrote a part                        *)
  peer,         (* the client's connection                                   *)
  full,         (* the client has not read what was sent, send would block   *)
  printed,      (* the board has printed the unit of this round              *)
  piled,        (* history: it printed more, while the program was held up,  *)
                (* or a read failed and left the text where it was           *)
  heard,        (* history: the armbands whose samples the collector got     *)
  lows          (* history: how many of the last (two) samples of an armband *)
                (* in a row were of a lowered arm                            *)

collector == <<Ez, pos, Quat, referenceQuat, referenceRoll, theta, speed,
               currentPose, unlock>>
line == <<motor, cut, failures>>
client == <<peer, full>>
text == <<printed, piled>>
arms == <<heard, lows>>
vars == <<port, hub, program, pc, timer, collector, line, client, text, arms>>

Nuc == INSTANCE Gesture WITH StopWhenDown <- TRUE
Win == INSTANCE Gesture WITH StopWhenDown <- FALSE

Init ==
  /\ program \in Programs
  /\ pc = IF program = "nuc" THEN "find" ELSE "open"
  /\ timer = 0
  /\ PortInit
  /\ HubInit
  /\ Nuc!Init
  /\ motor = <<>> /\ cut = FALSE /\ failures = 0
  /\ peer = "none" /\ full = FALSE
  /\ printed = FALSE /\ piled = FALSE
  /\ heard = {} /\ lows = [a \in Arms |-> 0]

-----------------------------------------------------------------------------
(* The start-up: the same calls in a different order. *)

NucSteps == <<"find", "listen", "open", "timeouts", "flush", "hello", "answer",
              "serve", "accept", "run">>
WinSteps == <<"open", "timeouts", "flush", "hello", "pause", "answer", "find",
              "listen", "run">>
Steps == IF program = "nuc" THEN NucSteps ELSE WinSteps

Proceed == \E i \in 1..(Len(Steps) - 1) : Steps[i] = pc /\ pc' = Steps[i + 1]

(* The program returns, or an exception ends it: the port and the hub are  *)
(* destroyed.  The motor is left as it is.                                 *)
End == pc' = "ended" /\ Close /\ HubGone

(* waitForMyo finds an armband within ten seconds, or the program ends. *)
Find ==
  /\ pc = "find"
  /\ \/ Proceed /\ UNCHANGED port /\ \E a \in Arms : waitForMyo(a)
     \/ End
  /\ UNCHANGED <<program, timer, collector, line, client, text, arms>>

Listen ==
  /\ pc = "listen"
  /\ Proceed
  /\ addListener("collector")
  /\ UNCHANGED <<port, program, timer, collector, line, client, text, arms>>

OpenPort ==
  /\ pc = "open"
  /\ \/ Open(TRUE) /\ Proceed
     \/ Open(FALSE) /\ pc' = "leave"
  /\ UNCHANGED <<hub, program, timer, collector, line, client, text, arms>>

Leave ==
  /\ pc = "leave"
  /\ End
  /\ UNCHANGED <<program, timer, collector, line, client, text, arms>>

(* The result of SetTimeout is not looked at. *)
SetTimeouts ==
  /\ pc = "timeouts"
  /\ Proceed
  /\ \E ok \in BOOLEAN : SetTimeout(ok)
  /\ UNCHANGED <<hub, program, timer, collector, line, client, text, arms>>

FlushPort ==
  /\ pc = "flush"
  /\ Proceed
  /\ Flush
  /\ UNCHANGED <<hub, program, timer, collector, line, client, text, arms>>

(* The line after a command was written, or a part of it, or nothing.  The *)
(* board takes a command at its last character; one that follows the rest  *)
(* of another tells it nothing that can be relied on.                      *)
Sent(written, command) ==
  /\ Write(written)
  /\ failures' = IF written = "whole" THEN failures ELSE failures + 1
  /\ failures' <= MaxFailures
  /\ cut' = (written = "part" \/ (written = "none" /\ cut))
  /\ motor' = IF written # "whole" THEN motor ELSE IF cut THEN <<>> ELSE command

(* The first command sets a parameter of the board, not a speed. *)
Hello ==
  /\ pc = "hello"
  /\ Proceed
  /\ \E written \in Writes : Sent(written, motor)
  /\ UNCHANGED <<hub, program, timer, collector, client, text, arms>>

(* MyoWin sleeps for a second before it reads the board's answer. *)
Pause ==
  /\ pc = "pause"
  /\ Proceed
  /\ UNCHANGED <<port, hub, program, timer, collector, line, client, text, arms>>

(* A read of as much as buff holds, or more, leaves no place for the       *)
(* terminator: what the program does then is undefined, and the model ends *)
(* there.                                                                  *)
ReadInto(max, next) ==
  \E n \in -1..max :
    /\ Read(max, n)
    /\ pc' \in IF n >= BufUnits THEN {"overrun"} ELSE next
    /\ piled' = (n = -1 \/ (piled /\ n >= BufUnits))

Answer ==
  /\ pc = "answer"
  /\ \E i \in 1..Len(Steps) :
       Steps[i] = "answer" /\ ReadInto(BufUnits, {Steps[i + 1]})
  /\ UNCHANGED <<hub, program, timer, collector, line, client, printed, arms>>

(* WSAStartup, socket, bind and listen; accept.  An error ends the process. *)
Serve ==
  /\ pc \in {"serve", "accept"}
  /\ \/ Proceed /\ UNCHANGED <<port, hub>>
     \/ End
  /\ peer' = IF pc = "accept" /\ pc' = "run" THEN "open" ELSE peer
  /\ UNCHANGED <<program, timer, collector, line, full, text, arms>>

-----------------------------------------------------------------------------
(* The loop. *)

(* The calls of a listener the collector overrides. *)
Overridden == {"onOrientationData", "onPose"}

Sample(quat) == IF program = "nuc" THEN Nuc!onOrientationData(quat)
                                   ELSE Win!onOrientationData(quat)

(* History: how long an armband has been lowered. *)
Note(a, quat) ==
  /\ heard' = heard \cup {a}
  /\ lows' = [lows EXCEPT ![a] = IF quat.elev # "low" THEN 0
                                 ELSE IF @ = 2 THEN 2 ELSE @ + 1]

(* An event of an armband while the hub runs. *)
Event(a, kind) ==
  LET asked == IF Heeds(a, kind) /\ Contains(listeners, "collector")
               THEN ToSet(Calls[kind]) \cap Overridden ELSE {}
  IN  /\ pc = "run"
      /\ onDeviceEvent(a, kind)
      /\ \/ "onOrientationData" \in asked
            /\ \E quat \in Nuc!Samples : Sample(quat) /\ Note(a, quat)
         \/ "onPose" \in asked
            /\ \E pose \in Poses : Nuc!onPose(pose)
            /\ UNCHANGED arms
         \/ asked = {} /\ UNCHANGED <<collector, arms>>
      /\ UNCHANGED <<port, program, pc, timer, line, client, text>>

HubFails ==
  /\ pc = "run"
  /\ End
  /\ UNCHANGED <<program, timer, collector, line, client, text, arms>>

(* The 50 ms are over. *)
RunEnds ==
  /\ pc = "run"
  /\ pc' = "write"
  /\ printed' = FALSE
  /\ UNCHANGED <<port, hub, program, timer, collector, line, client, piled, arms>>

(* MyoWin reads when its count of rounds says so. *)
Reads == program = "nuc" \/ timer = ReadEvery
NextTimer ==
  IF program = "nuc" THEN 0 ELSE IF timer = ReadEvery THEN 1 ELSE timer + 1

(* Faulty variant of WriteCommand: after a write that failed the rest of   *)
(* the round is left out.                                                  *)
WriteCommandOrSkip ==
  /\ pc = "write"
  /\ \E written \in Writes :
       /\ Sent(written, <<speed>>)
       /\ pc' = IF Reads /\ written = "whole" THEN "read" ELSE "run"
  /\ timer' = NextTimer
  /\ UNCHANGED <<hub, program, collector, client, text, arms>>

(* The speed is formatted and written; the result is not looked at. *)
WriteCommand ==
  /\ pc = "write"
  /\ \E written \in Writes : Sent(written, <<speed>>)
  /\ pc' = IF Reads THEN "read" ELSE "run"
  /\ timer' = NextTimer
  /\ UNCHANGED <<hub, program, collector, client, text, arms>>

(* 1024 characters are asked for: the buffer of the NUC has 512, the one   *)
(* of MyoWin 1024.  What the NUC finds in the text may make it send.       *)
Asked == IF program = "nuc" THEN 2 * BufUnits ELSE BufUnits
ReadPort ==
  /\ pc = "read"
  /\ ReadInto(Asked, IF program = "nuc" THEN {"run", "send"} ELSE {"run"})
  /\ UNCHANGED <<hub, program, timer, collector, line, client, printed, arms>>

(* Faulty variant of CanSend: a send that fails is tried again. *)
CanSendRetrying == peer = "open" /\ ~full

(* send blocks while the client does not read, and fails when it has left. *)
CanSend == peer = "closed" \/ ~full
Send ==
  /\ pc = "send"
  /\ CanSend
  /\ pc' = "run"
  /\ full' \in IF peer = "open" THEN BOOLEAN ELSE {full}
  /\ UNCHANGED <<port, hub, program, timer, collector, line, peer, text, arms>>

-----------------------------------------------------------------------------
(* The board and the client. *)

HeldUp ==
  \/ pc \in {"find", "accept", "send", "pause"}
  \/ pc \in {"answer", "read"} /\ ~timed
BoardPrints ==
  /\ Receive
  /\ ~printed \/ HeldUp
  /\ printed' = TRUE
  /\ piled' = (piled \/ printed)
  /\ UNCHANGED <<hub, program, pc, timer, collector, line, client, arms>>

ClientReads ==
  /\ peer = "open" /\ full
  /\ full' = FALSE
  /\ UNCHANGED <<port, hub, program, pc, timer, collector, line, peer, text, arms>>

ClientLeaves ==
  /\ peer = "open"
  /\ peer' = "closed" /\ full' = FALSE
  /\ UNCHANGED <<port, hub, program, pc, timer, collector, line, text, arms>>

Startup == Find \/ Listen \/ OpenPort \/ Leave \/ SetTimeouts \/ FlushPort
             \/ Hello \/ Pause \/ Answer \/ Serve
Loop == RunEnds \/ WriteCommand \/ ReadPort \/ Send
Hub == HubFails \/ \E a \in Arms, kind \in Kinds : Event(a, kind)
Outside == BoardPrints \/ ClientReads \/ ClientLeaves

Next == Startup \/ Loop \/ Hub \/ Outside

Spec == Init /\ [][Next]_vars

(* The program runs, and the client reads or leaves.  LoopReady is what    *)
(* keeps Loop from being blocked: a read may fail, but it need not.        *)
LoopReady ==
  \/ pc \in {"run", "write"}
  \/ pc = "read" /\ CanRead(Asked)
  \/ pc = "send" /\ CanSend
FairSpec ==
  /\ Spec
  /\ []<>(~LoopReady) \/ []<><<Loop>>_vars
  /\ WF_vars(ClientReads)

-----------------------------------------------------------------------------

InLoop == pc \in {"run", "write", "read", "send"}
Locations ==
  ToSet(NucSteps) \cup {"pause", "leave", "write", "read", "send", "overrun", "ended"}

(* The speeds the collector can set, see CommandFits of Gesture. *)
Speeds == (-2 * MaxRoll)..(2 * MaxRoll)

(* Types of the program's state and of what is around it; what the board   *)
(* is told is a speed of the collector.                                    *)
TypeOK ==
  /\ PortTypeOK
  /\ myos \in Seq(Arms) /\ listeners \in Seq({"collector"})
  /\ program \in Programs
  /\ pc \in Locations
  /\ timer \in Nat
  /\ Nuc!TypeOK /\ speed \in Speeds
  /\ motor \in Seq(Speeds) /\ cut \in BOOLEAN /\ failures \in 0..MaxFailures
  /\ peer \in {"none", "open", "closed"} /\ full \in BOOLEAN
  /\ printed \in BOOLEAN /\ piled \in BOOLEAN
  /\ heard \in SUBSET Arms /\ lows \in [Arms -> 0..2]

(* All armbands drive the one collector, and it decides on the sample      *)
(* before: its state mixes the arms.  Still the motor is stopped once      *)
(* every arm the hub knows and has heard of is down for two samples, in    *)
(* whatever order the samples of the arms came.  (One of two arms that is  *)
(* lowered stops nothing.)                                                 *)
Heard == {a \in heard : lookupMyo(a)}
AllLow == Heard # {} /\ \A a \in Heard : lows[a] = 2
AllArmsLowStop == program = "nuc" /\ AllLow => speed = 0

(* Whatever calls of the start-up fail, a command only goes out over a     *)
(* line that has its settings: the half-open port an Open can leave behind *)
(* is never used.                                                          *)
CommandsConfigured ==
  pc \in {"hello", "answer"} \/ InLoop => hSerial = "valid" /\ configured

(* The loop of the NUC asks for twice what its buffer holds.  It gets as   *)
(* much as the buffer holds only when text has piled up, while the program *)
(* waited for its client or for a port without timeouts or because a read  *)
(* failed, never from one round to the next.                               *)
OverrunOnlyWhenPiled == program = "nuc" /\ pc = "overrun" => piled

(* Once the speed stays what it is, the board is given it, although writes *)
(* fail or are cut and nobody looks: the next round writes it again.       *)
(* Needed are a port with timeouts, a client that reads or leaves, and     *)
(* writes that do not fail for ever: there are at most MaxFailures of      *)
(* those, for every value of MaxFailures.                                  *)
SteadySpeedReachesMotor ==
  \A v \in Speeds :
    <>[](InLoop /\ timed /\ speed = v) => <>[](motor = <<v>>)

(* Arms that are lowered for good stop the motor, on the same conditions. *)
LoweredArmsStopMotor ==
  program = "nuc" =>
    (<>[](InLoop /\ timed /\ AllLow) => <>[](motor = <<0>>))
=============================================================================
