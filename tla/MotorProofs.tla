----------------------------- MODULE MotorProofs -----------------------------
(* Theorems about the serial port, the hub and the programs built on them, *)
(* for every set of armbands, every buffer and every bound.                *)
EXTENDS MotorSystem, TLAPS

-----------------------------------------------------------------------------
(* The serial port, whatever calls a program makes. *)

LEMMA EmptyQueue == 0 \in 0..MaxQueue
  BY PortAssumption DEF PortAssumption

(* An Open that failed half way is never repaired by a later call: every   *)
(* Open is refused until the port is closed.                               *)
THEOREM HalfOpenStays == PortSpec => HalfOpenUntilClosed
<1>1. ASSUME PortNext, HalfOpen
      PROVE  HalfOpen' \/ hSerial' = "invalid"
  <2>. USE <1>1 DEF HalfOpen
  <2>1. ASSUME NEW ok \in BOOLEAN, Open(ok) \/ SetTimeout(ok)
        PROVE  HalfOpen'
    BY <2>1 DEF Open, SetTimeout, port
  <2>2. ASSUME NEW max \in 1..(MaxQueue + 1), NEW n \in -1..MaxQueue,
               Read(max, n) \/ CountReadBuff(n)
        PROVE  HalfOpen'
    BY <2>2 DEF Read, CountReadBuff, port
  <2>3. ASSUME NEW written \in Writes, Write(written)
        PROVE  HalfOpen'
    BY <2>3 DEF Write, port
  <2>4. CASE Flush \/ Receive
    BY <2>4 DEF Flush, Receive
  <2>5. CASE Close
    BY <2>5 DEF Close
  <2>. QED  BY <2>1, <2>2, <2>3, <2>4, <2>5 DEF PortNext
<1>. QED  BY <1>1, PTL DEF PortSpec, HalfOpenUntilClosed

-----------------------------------------------------------------------------
(* The programs. *)

(* Calls on an open port leave it open and set. *)
LEMMA CallsKeepPort ==
  /\ \A max, n : Read(max, n) => UNCHANGED <<hSerial, configured>>
  /\ \A written : Write(written) => UNCHANGED <<hSerial, configured>>
  /\ \A written, command : Sent(written, command) => UNCHANGED <<hSerial, configured>>
  /\ \A ok : SetTimeout(ok) => UNCHANGED <<hSerial, configured>>
  /\ Flush => UNCHANGED <<hSerial, configured>>
  /\ Receive => UNCHANGED <<hSerial, configured>>
BY DEF Read, Write, Sent, SetTimeout, Flush, Receive, port

(* The order of the start-up. *)
LEMMA NucOrder ==
  ASSUME program = "nuc", Proceed
  PROVE  \/ pc = "find" /\ pc' = "listen"
         \/ pc = "listen" /\ pc' = "open"
         \/ pc = "open" /\ pc' = "timeouts"
         \/ pc = "timeouts" /\ pc' = "flush"
         \/ pc = "flush" /\ pc' = "hello"
         \/ pc = "hello" /\ pc' = "answer"
         \/ pc = "answer" /\ pc' = "serve"
         \/ pc = "serve" /\ pc' = "accept"
         \/ pc = "accept" /\ pc' = "run"
BY DEF Proceed, Steps, NucSteps

LEMMA WinOrder ==
  ASSUME program = "win", Proceed
  PROVE  \/ pc = "open" /\ pc' = "timeouts"
         \/ pc = "timeouts" /\ pc' = "flush"
         \/ pc = "flush" /\ pc' = "hello"
         \/ pc = "hello" /\ pc' = "pause"
         \/ pc = "pause" /\ pc' = "answer"
         \/ pc = "answer" /\ pc' = "find"
         \/ pc = "find" /\ pc' = "listen"
         \/ pc = "listen" /\ pc' = "run"
BY DEF Proceed, Steps, WinSteps

LEMMA AnswerOrder ==
  ASSUME program \in {"nuc", "win"}, pc = "answer", NEW next,
         \E i \in 1..Len(Steps) : Steps[i] = "answer" /\ next = Steps[i + 1]
  PROVE  next = IF program = "nuc" THEN "serve" ELSE "find"
<1>1. CASE program = "nuc"
  BY <1>1 DEF Steps, NucSteps
<1>2. CASE program = "win"
  BY <1>2 DEF Steps, WinSteps
<1>. QED  BY <1>1, <1>2

(* The locations at which the port has been opened with its settings. *)
Ready ==
  \/ pc \in {"timeouts", "flush", "hello", "answer"} \/ InLoop
  \/ program = "nuc" /\ pc \in {"serve", "accept"}
  \/ program = "win" /\ pc \in {"pause", "find", "listen"}

LineInv ==
  /\ program \in {"nuc", "win"}
  /\ Ready => hSerial = "valid" /\ configured

LEMMA LineInvNext ==
  ASSUME LineInv, [Next]_vars
  PROVE  LineInv'
<1>. USE DEF LineInv, Ready, InLoop
<1>1. CASE Find
  <2>1. CASE Proceed /\ UNCHANGED <<port, program>>
    BY <1>1, <2>1, NucOrder, WinOrder DEF Find, port
  <2>2. CASE End /\ UNCHANGED program
    BY <2>2 DEF End
  <2>. QED  BY <1>1, <2>1, <2>2 DEF Find
<1>2. CASE Listen \/ Pause
  BY <1>2, NucOrder, WinOrder DEF Listen, Pause, port
<1>3. CASE OpenPort
  <2>1. CASE Open(TRUE) /\ Proceed /\ UNCHANGED program
    <3>1. hSerial' = "valid" /\ configured'
      BY <2>1 DEF Open, Created
    <3>. QED  BY <2>1, <3>1
  <2>2. CASE pc' = "leave" /\ UNCHANGED program
    BY <2>2
  <2>. QED  BY <1>3, <2>1, <2>2 DEF OpenPort
<1>4. CASE Leave
  BY <1>4 DEF Leave, End
<1>5. CASE SetTimeouts \/ FlushPort \/ Hello
  <2>1. UNCHANGED <<hSerial, configured, program>> /\ Proceed
    BY <1>5, CallsKeepPort DEF SetTimeouts, FlushPort, Hello
  <2>2. pc \in {"timeouts", "flush", "hello"}
    BY <1>5 DEF SetTimeouts, FlushPort, Hello
  <2>. QED  BY <2>1, <2>2
<1>6. CASE Answer
  <2>1. UNCHANGED <<hSerial, configured, program>> /\ pc = "answer"
    BY <1>6, CallsKeepPort DEF Answer, ReadInto
  <2>. QED  BY <2>1
<1>7. CASE Serve
  <2>1. CASE Proceed /\ UNCHANGED <<port, program>>
    BY <1>7, <2>1, NucOrder, WinOrder DEF Serve, port
  <2>2. CASE End /\ UNCHANGED program
    BY <2>2 DEF End
  <2>. QED  BY <1>7, <2>1, <2>2 DEF Serve
<1>8. CASE RunEnds \/ Send
  BY <1>8 DEF RunEnds, Send, port
<1>9. CASE WriteCommand
  <2>1. UNCHANGED <<hSerial, configured, program>> /\ pc = "write"
    BY <1>9, CallsKeepPort DEF WriteCommand
  <2>. QED  BY <2>1
<1>10. CASE ReadPort
  <2>1. UNCHANGED <<hSerial, configured, program>> /\ pc = "read"
    BY <1>10, CallsKeepPort DEF ReadPort, ReadInto
  <2>. QED  BY <2>1
<1>11. CASE HubFails
  BY <1>11 DEF HubFails, End
<1>12. ASSUME NEW a \in Arms, NEW kind \in Kinds, Event(a, kind)
       PROVE  LineInv'
  BY <1>12 DEF Event, port
<1>13. CASE BoardPrints
  <2>1. UNCHANGED <<hSerial, configured, program, pc>>
    BY <1>13, CallsKeepPort DEF BoardPrints
  <2>. QED  BY <2>1
<1>14. CASE ClientReads \/ ClientLeaves
  BY <1>14 DEF ClientReads, ClientLeaves, port
<1>15. CASE UNCHANGED vars
  BY <1>15 DEF vars, port
<1>. QED
  BY <1>1, <1>2, <1>3, <1>4, <1>5, <1>6, <1>7, <1>8, <1>9, <1>10, <1>11, <1>12,
     <1>13, <1>14, <1>15 DEF Next, Startup, Loop, Hub, Outside

(* Commands only go out over a line that has its settings. *)
THEOREM CommandsAlwaysConfigured == Spec => []CommandsConfigured
<1>1. Init => LineInv
  BY MotorAssumption DEF MotorAssumption, Init, LineInv, Ready, InLoop
<1>2. LineInv /\ [Next]_vars => LineInv'
  BY LineInvNext
<1>3. LineInv => CommandsConfigured
  BY DEF LineInv, Ready, CommandsConfigured
<1>. QED  BY <1>1, <1>2, <1>3, PTL DEF Spec

-----------------------------------------------------------------------------
(* The text that waits for the loop of the NUC. *)

(* What the board can have printed since the last read: a unit in the      *)
(* round that ended, and one in the round that runs.                       *)
Waiting == (IF pc \in {"write", "read"} THEN 1 ELSE 0) + (IF printed THEN 1 ELSE 0)

QueueInv ==
  /\ program \in {"nuc", "win"}
  /\ inq \in Nat
  /\ program = "nuc" => piled \/ (pc # "overrun" /\ inq <= Waiting)

(* A read that fails, or takes as much as buff holds, leaves text behind;  *)
(* any other takes all there is.                                           *)
LEMMA ReadEmpties ==
  ASSUME inq \in Nat, NEW max \in Nat, max >= BufUnits, NEW next, ReadInto(max, next)
  PROVE  /\ inq' \in Nat
         /\ piled' \/ (inq' = 0 /\ pc' \in next) \/ (inq >= BufUnits /\ ~piled)
<1>. USE MotorAssumption DEF MotorAssumption
<1>1. PICK n \in -1..max :
        /\ Read(max, n)
        /\ pc' \in IF n >= BufUnits THEN {"overrun"} ELSE next
        /\ piled' = (n = -1 \/ (piled /\ n >= BufUnits))
  BY DEF ReadInto
<1>2. \/ n = -1 /\ inq' = inq
      \/ n # -1 /\ n = Taken(max) /\ inq' = inq - n
  BY <1>1 DEF Read, Taken, port
<1>3. CASE n = -1
  BY <1>1, <1>2, <1>3
<1>4. CASE n # -1 /\ n < BufUnits
  <2>1. inq' = 0
    BY <1>2, <1>4 DEF Taken
  <2>. QED  BY <1>1, <1>4, <2>1
<1>5. CASE n # -1 /\ n >= BufUnits
  <2>1. inq' \in Nat /\ inq >= BufUnits
    BY <1>2, <1>5 DEF Taken
  <2>2. piled => piled'
    BY <1>1, <1>5
  <2>. QED  BY <2>1, <2>2
<1>. QED  BY <1>3, <1>4, <1>5

LEMMA QueueInvNext ==
  ASSUME QueueInv, [Next]_vars
  PROVE  QueueInv'
<1>. USE DEF QueueInv
<1>1. CASE Find
  <2>1. CASE pc = "find" /\ Proceed /\ UNCHANGED <<inq, program, printed, piled>>
    BY <2>1, NucOrder DEF Waiting
  <2>2. CASE pc' = "ended" /\ inq' = 0 /\ UNCHANGED <<program, printed, piled>>
    BY <2>2 DEF Waiting
  <2>. QED  BY <1>1, <2>1, <2>2 DEF Find, End, Close, port, text
<1>2. CASE Listen \/ Pause
  <2>1. pc \in {"listen", "pause"} /\ Proceed /\ UNCHANGED <<inq, program, printed, piled>>
    BY <1>2 DEF Listen, Pause, port, text
  <2>. QED  BY <2>1, NucOrder DEF Waiting
<1>3. CASE OpenPort
  <2>1. /\ pc = "open" /\ UNCHANGED <<program, printed, piled>>
        /\ inq' = 0 \/ inq' = inq
        /\ Proceed \/ pc' = "leave"
    BY <1>3 DEF OpenPort, Open, Created, port, text
  <2>. QED  BY <2>1, NucOrder DEF Waiting
<1>4. CASE Leave \/ HubFails
  <2>1. pc' = "ended" /\ inq' = 0 /\ UNCHANGED <<program, printed, piled>>
    BY <1>4 DEF Leave, HubFails, End, Close, text
  <2>. QED  BY <2>1 DEF Waiting
<1>5. CASE SetTimeouts \/ FlushPort \/ Hello
  <2>1. /\ pc \in {"timeouts", "flush", "hello"}
        /\ Proceed /\ UNCHANGED <<program, printed, piled>>
        /\ inq' = 0 \/ inq' = inq
    BY <1>5 DEF SetTimeouts, SetTimeout, FlushPort, Flush, Hello, Sent, Write, port, text
  <2>. QED  BY <2>1, NucOrder DEF Waiting
<1>6. CASE Answer
  <2>1. PICK i \in 1..Len(Steps) :
          Steps[i] = "answer" /\ ReadInto(BufUnits, {Steps[i + 1]})
    BY <1>6 DEF Answer
  <2>2. program = "nuc" => Steps[i + 1] = "serve"
    BY <1>6, <2>1, AnswerOrder DEF Answer
  <2>3. pc = "answer" /\ UNCHANGED <<program, printed>>
    BY <1>6 DEF Answer
  <2>4. /\ inq' \in Nat
        /\ piled' \/ (inq' = 0 /\ pc' = Steps[i + 1]) \/ (inq >= BufUnits /\ ~piled)
    BY <2>1, ReadEmpties, MotorAssumption DEF MotorAssumption
  <2>5. CASE program = "nuc"
    BY <2>2, <2>3, <2>4, <2>5, MotorAssumption DEF Waiting, MotorAssumption
  <2>. QED  BY <2>3, <2>4, <2>5
<1>7. CASE Serve
  <2>1. CASE pc \in {"serve", "accept"} /\ Proceed /\ UNCHANGED <<inq, program, printed, piled>>
    BY <2>1, NucOrder DEF Waiting
  <2>2. CASE pc' = "ended" /\ inq' = 0 /\ UNCHANGED <<program, printed, piled>>
    BY <2>2 DEF Waiting
  <2>. QED  BY <1>7, <2>1, <2>2 DEF Serve, End, Close, port, text
<1>8. CASE RunEnds
  <2>1. /\ pc = "run" /\ pc' = "write" /\ printed' = FALSE
        /\ UNCHANGED <<inq, program, piled>>
    BY <1>8 DEF RunEnds, port
  <2>. QED  BY <2>1 DEF Waiting
<1>9. CASE WriteCommand
  <2>1. pc = "write" /\ UNCHANGED <<inq, program, printed, piled>>
    BY <1>9 DEF WriteCommand, Sent, Write, port, text
  <2>2. program = "nuc" => pc' = "read"
    BY <1>9 DEF WriteCommand, Reads
  <2>. QED  BY <2>1, <2>2 DEF Waiting
<1>10. CASE ReadPort
  <2>1. PICK next : ReadInto(Asked, next) /\ next \subseteq {"run", "send"}
    BY <1>10 DEF ReadPort
  <2>2. pc = "read" /\ UNCHANGED <<program, printed>>
    BY <1>10 DEF ReadPort
  <2>3. Asked \in Nat /\ Asked >= BufUnits
    BY MotorAssumption DEF MotorAssumption, Asked
  <2>4. /\ inq' \in Nat
        /\ piled' \/ (inq' = 0 /\ pc' \in next) \/ (inq >= BufUnits /\ ~piled)
    BY <2>1, <2>3, ReadEmpties
  <2>5. CASE program = "nuc"
    BY <2>1, <2>2, <2>4, <2>5, MotorAssumption DEF Waiting, MotorAssumption
  <2>. QED  BY <2>2, <2>4, <2>5
<1>11. CASE Send
  <2>1. pc = "send" /\ pc' = "run" /\ UNCHANGED <<inq, program, printed, piled>>
    BY <1>11 DEF Send, port, text
  <2>. QED  BY <2>1 DEF Waiting
<1>12. ASSUME NEW a \in Arms, NEW kind \in Kinds, Event(a, kind)
       PROVE  QueueInv'
  <2>1. UNCHANGED <<pc, inq, program, printed, piled>>
    BY <1>12 DEF Event, port, text
  <2>. QED  BY <2>1 DEF Waiting
<1>13. CASE BoardPrints
  <2>1. /\ inq' = inq + 1 /\ printed' = TRUE /\ UNCHANGED <<pc, program>>
        /\ piled \/ printed => piled'
    BY <1>13 DEF BoardPrints, Receive
  <2>. QED  BY <2>1 DEF Waiting
<1>14. CASE ClientReads \/ ClientLeaves \/ UNCHANGED vars
  <2>1. UNCHANGED <<pc, inq, program, printed, piled>>
    BY <1>14 DEF ClientReads, ClientLeaves, vars, port, text
  <2>. QED  BY <2>1 DEF Waiting
<1>. QED
  BY <1>1, <1>2, <1>3, <1>4, <1>5, <1>6, <1>7, <1>8, <1>9, <1>10, <1>11, <1>12,
     <1>13, <1>14 DEF Next, Startup, Loop, Hub, Outside

(* A read fills the buffer of the NUC only with text that piled up while   *)
(* the program was held up or a read failed, for every size of the buffer. *)
THEOREM OverrunNeedsPile == Spec => []OverrunOnlyWhenPiled
<1>1. Init => QueueInv
  BY MotorAssumption DEF MotorAssumption, Init, PortInit, QueueInv, Waiting
<1>2. QueueInv /\ [Next]_vars => QueueInv'
  BY QueueInvNext
<1>3. QueueInv => OverrunOnlyWhenPiled
  BY DEF QueueInv, OverrunOnlyWhenPiled
<1>. QED  BY <1>1, <1>2, <1>3, PTL DEF Spec

-----------------------------------------------------------------------------
(* The arms and the hub. *)

LEMMA LookupAppended ==
  ASSUME NEW s \in Seq(Arms), NEW a \in Arms, NEW b \in Arms
  PROVE  /\ Append(s, a) \in Seq(Arms)
         /\ Contains(Append(s, a), a)
         /\ Contains(s, b) => Contains(Append(s, a), b)
<1>1. /\ Append(s, a) \in Seq(Arms)
      /\ Len(Append(s, a)) = Len(s) + 1
      /\ Append(s, a)[Len(s) + 1] = a
      /\ \A i \in 1..Len(s) : Append(s, a)[i] = s[i]
      /\ Len(s) \in Nat
  OBVIOUS
<1>. QED  BY <1>1 DEF Contains

(* A paired event gives no sample to the collector. *)
LEMMA SamplesAreHeeded ==
  ASSUME NEW a \in Arms, NEW kind \in Kinds, Heeds(a, kind),
         "onOrientationData" \in ToSet(Calls[kind])
  PROVE  lookupMyo(a)
<1>1. CASE kind = "paired"
  <2>1. Calls["paired"] = <<"onPair">>
    BY DEF Calls
  <2>2. ToSet(<<"onPair">>) = {"onPair"}
    BY DEF ToSet
  <2>. QED  BY <1>1, <2>1, <2>2
<1>2. CASE kind # "paired"
  BY <1>2 DEF Heeds
<1>. QED  BY <1>1, <1>2

(* A sample: pos has its elevation, and the motor is stopped when pos said *)
(* low before.                                                             *)
LEMMA SampleStops ==
  ASSUME program \in {"nuc", "win"}, NEW quat, Sample(quat)
  PROVE  /\ pos'.elev = quat.elev
         /\ program = "nuc" /\ pos.elev = "low" => speed' = 0
<1>1. CASE program = "nuc"
  BY <1>1 DEF Sample, Nuc!onOrientationData, Nuc!Zone, Nuc!SpeedIn
<1>2. CASE program = "win"
  BY <1>2 DEF Sample, Win!onOrientationData
<1>. QED  BY <1>1, <1>2

(* The last sample, on which the collector will decide, was of one of the  *)
(* arms it has heard of.                                                   *)
ArmsInv ==
  /\ program \in {"nuc", "win"}
  /\ myos \in Seq(Arms)
  /\ heard \in SUBSET Arms /\ lows \in [Arms -> 0..2]
  /\ \A a \in Arms \ heard : lows[a] = 0
  /\ IF pc = "ended" THEN myos = <<>> ELSE \A a \in heard : lookupMyo(a)
  /\ heard # {} => \E c \in heard : IF pos.elev = "low" THEN lows[c] >= 1 ELSE lows[c] = 0
  /\ (program = "nuc" /\ heard # {} /\ \A a \in heard : lows[a] = 2) => speed = 0

LEMMA SampleKeepsArms ==
  ASSUME ArmsInv, NEW a \in Arms, lookupMyo(a), NEW quat, Sample(quat), Note(a, quat),
         pc = "run", UNCHANGED <<program, pc, myos>>
  PROVE  ArmsInv'
<1>. USE DEF ArmsInv
<1>1. /\ pos'.elev = quat.elev
      /\ program = "nuc" /\ pos.elev = "low" => speed' = 0
  BY SampleStops
<1>2. /\ heard' = heard \cup {a}
      /\ lows' = [lows EXCEPT ![a] = IF quat.elev # "low" THEN 0
                                     ELSE IF @ = 2 THEN 2 ELSE @ + 1]
  BY DEF Note
<1>3. /\ heard' \in SUBSET Arms /\ lows' \in [Arms -> 0..2]
      /\ \A b \in Arms \ heard' : lows'[b] = 0
  BY <1>2
<1>4. IF pos'.elev = "low" THEN lows'[a] >= 1 ELSE lows'[a] = 0
  BY <1>1, <1>2
<1>5. \A b \in heard' : lookupMyo(b)'
  BY <1>2 DEF lookupMyo
<1>6. ASSUME program = "nuc", \A b \in heard' : lows'[b] = 2
      PROVE  speed' = 0
  <2>1. lows'[a] = 2 /\ a \in heard'
    BY <1>2, <1>6
  <2>2. lows[a] \in {1, 2}
    BY <1>2, <2>1
  <2>3. a \in heard
    BY <2>2
  <2>4. PICK c \in heard : IF pos.elev = "low" THEN lows[c] >= 1 ELSE lows[c] = 0
    BY <2>3
  <2>5. lows[c] # 0
    BY <1>2, <1>6, <2>2, <2>4
  <2>. QED  BY <1>1, <1>6, <2>4, <2>5
<1>. QED  BY <1>2, <1>3, <1>4, <1>5, <1>6

LEMMA OthersKeepArms ==
  ASSUME ArmsInv, UNCHANGED <<program, heard, lows, pos, speed>>,
         \/ UNCHANGED <<myos, pc>>
         \/ UNCHANGED myos /\ pc # "ended" /\ pc' # "ended"
         \/ pc # "ended" /\ pc' # "ended" /\ \E a \in Arms : myos' = Append(myos, a)
         \/ pc' = "ended" /\ myos' = <<>>
  PROVE  ArmsInv'
<1>. USE DEF ArmsInv
<1>1. CASE UNCHANGED <<myos, pc>> \/ (UNCHANGED myos /\ pc # "ended" /\ pc' # "ended")
  BY <1>1 DEF lookupMyo
<1>2. ASSUME pc # "ended", pc' # "ended", NEW a \in Arms, myos' = Append(myos, a)
      PROVE  ArmsInv'
  <2>1. myos' \in Seq(Arms) /\ \A b \in heard' : lookupMyo(b)'
    BY <1>2, LookupAppended DEF lookupMyo
  <2>. QED  BY <1>2, <2>1
<1>3. CASE pc' = "ended" /\ myos' = <<>>
  BY <1>3
<1>. QED  BY <1>1, <1>2, <1>3

LEMMA EventKeepsArms ==
  ASSUME ArmsInv, NEW a \in Arms, NEW kind \in Kinds, Event(a, kind)
  PROVE  ArmsInv'
<1>1. pc = "run" /\ UNCHANGED <<program, pc>> /\ onDeviceEvent(a, kind)
  BY DEF Event
<1>2. CASE UNCHANGED <<pos, speed, heard, lows>>
  <2>1. UNCHANGED myos \/ myos' = Append(myos, a)
    BY <1>1 DEF onDeviceEvent
  <2>. QED  BY <1>1, <1>2, <2>1, OthersKeepArms
<1>3. ASSUME Heeds(a, kind), "onOrientationData" \in ToSet(Calls[kind]),
             NEW quat \in Nuc!Samples, Sample(quat), Note(a, quat)
      PROVE  ArmsInv'
  <2>1. lookupMyo(a)
    BY <1>3, SamplesAreHeeded
  <2>2. UNCHANGED myos
    BY <1>1, <2>1 DEF onDeviceEvent
  <2>. QED  BY <1>1, <1>3, <2>1, <2>2, SampleKeepsArms
<1>4. \/ UNCHANGED <<pos, speed, heard, lows>>
      \/ /\ Heeds(a, kind) /\ "onOrientationData" \in ToSet(Calls[kind])
         /\ \E quat \in Nuc!Samples : Sample(quat) /\ Note(a, quat)
  BY DEF Event, Nuc!onPose, collector, arms
<1>. QED  BY <1>2, <1>3, <1>4

LEMMA ArmsInvNext ==
  ASSUME ArmsInv, [Next]_vars
  PROVE  ArmsInv'
<1>. DEFINE Rest == UNCHANGED <<program, heard, lows, pos, speed>>
<1>0. program \in {"nuc", "win"}
  BY DEF ArmsInv
<1>1. CASE Find
  <2>1. Rest /\ pc = "find"
    BY <1>1 DEF Find, collector, arms
  <2>2. \/ Proceed /\ \E a \in Arms : myos' = Append(myos, a)
        \/ pc' = "ended" /\ myos' = <<>>
    BY <1>1 DEF Find, waitForMyo, End, HubGone
  <2>3. Proceed => pc' # "ended"
    BY <1>0, NucOrder, WinOrder
  <2>. QED  BY <2>1, <2>2, <2>3, OthersKeepArms
<1>2. CASE Listen \/ SetTimeouts \/ FlushPort \/ Hello \/ Pause
  <2>1. Rest /\ UNCHANGED myos /\ pc # "ended" /\ Proceed
    BY <1>2 DEF Listen, addListener, SetTimeouts, FlushPort, Hello, Pause, hub, collector,
                arms
  <2>. QED  BY <1>0, <2>1, NucOrder, WinOrder, OthersKeepArms
<1>3. CASE OpenPort
  <2>1. Rest /\ UNCHANGED myos /\ pc = "open" /\ (Proceed \/ pc' = "leave")
    BY <1>3 DEF OpenPort, hub, collector, arms
  <2>. QED  BY <1>0, <2>1, NucOrder, WinOrder, OthersKeepArms
<1>4. CASE Leave \/ HubFails
  <2>1. Rest /\ pc' = "ended" /\ myos' = <<>>
    BY <1>4 DEF Leave, HubFails, End, HubGone, collector, arms
  <2>. QED  BY <2>1, OthersKeepArms
<1>5. CASE Answer
  <2>1. PICK i \in 1..Len(Steps) :
          Steps[i] = "answer" /\ ReadInto(BufUnits, {Steps[i + 1]})
    BY <1>5 DEF Answer
  <2>2. Rest /\ UNCHANGED myos /\ pc = "answer"
    BY <1>5 DEF Answer, hub, collector, arms
  <2>3. Steps[i + 1] \in {"serve", "find"}
    BY <1>0, <2>1, <2>2, AnswerOrder
  <2>4. pc' \in {"overrun", "serve", "find"}
    BY <2>1, <2>3 DEF ReadInto
  <2>. QED  BY <2>2, <2>4, OthersKeepArms
<1>6. CASE Serve
  <2>1. Rest /\ pc \in {"serve", "accept"}
    BY <1>6 DEF Serve, collector, arms
  <2>2. \/ Proceed /\ UNCHANGED myos
        \/ pc' = "ended" /\ myos' = <<>>
    BY <1>6 DEF Serve, End, HubGone, hub
  <2>3. Proceed => pc' # "ended"
    BY <1>0, NucOrder, WinOrder
  <2>. QED  BY <2>1, <2>2, <2>3, OthersKeepArms
<1>7. CASE Loop
  <2>1. Rest /\ UNCHANGED myos /\ pc # "ended"
    BY <1>7 DEF Loop, RunEnds, WriteCommand, ReadPort, Send, hub, collector, arms
  <2>2. pc' # "ended"
    BY <1>7 DEF Loop, RunEnds, WriteCommand, ReadPort, ReadInto, Send
  <2>. QED  BY <2>1, <2>2, OthersKeepArms
<1>8. ASSUME NEW a \in Arms, NEW kind \in Kinds, Event(a, kind)
      PROVE  ArmsInv'
  BY <1>8, EventKeepsArms
<1>9. CASE Outside \/ UNCHANGED vars
  <2>1. Rest /\ UNCHANGED <<myos, pc>>
    BY <1>9 DEF Outside, BoardPrints, ClientReads, ClientLeaves, vars, hub, collector, arms
  <2>. QED  BY <2>1, OthersKeepArms
<1>. QED  BY <1>1, <1>2, <1>3, <1>4, <1>5, <1>6, <1>7, <1>8, <1>9 DEF Next, Startup, Hub

(* However the samples of any number of arms are mixed, the motor is       *)
(* stopped once all of them have been lowered for two samples.             *)
THEOREM AllArmsLowStopsMotor == Spec => []AllArmsLowStop
<1>1. Init => ArmsInv
  BY MotorAssumption DEF MotorAssumption, Init, HubInit, ArmsInv, lookupMyo, Contains
<1>2. ArmsInv /\ [Next]_vars => ArmsInv'
  BY ArmsInvNext
<1>3. ArmsInv => AllArmsLowStop
  <2>. SUFFICES ASSUME ArmsInv, program = "nuc", AllLow PROVE speed = 0
    BY DEF AllArmsLowStop
  <2>1. Heard # {}
    BY DEF AllLow
  <2>2. CASE pc = "ended"
    BY <2>1, <2>2 DEF ArmsInv, Heard, lookupMyo, Contains
  <2>3. CASE pc # "ended"
    <3>1. Heard = heard
      BY <2>3 DEF ArmsInv, Heard
    <3>. QED  BY <3>1 DEF ArmsInv, AllLow
  <2>. QED  BY <2>2, <2>3
<1>. QED  BY <1>1, <1>2, <1>3, PTL DEF Spec

-----------------------------------------------------------------------------
(* The types. *)

NucProofs == INSTANCE GestureProofs WITH StopWhenDown <- TRUE, MaxSamples <- 0, log <- <<>>
WinProofs == INSTANCE GestureProofs WITH StopWhenDown <- FALSE, MaxSamples <- 0, log <- <<>>

(* Gesture's theorems hold of the collector in either program. *)
LEMMA CollectorAssumptions ==
  /\ NucProofs!GestureAssumption /\ NucProofs!HistoryAssumption
  /\ WinProofs!GestureAssumption /\ WinProofs!HistoryAssumption
BY MotorAssumption
DEF MotorAssumption, NucProofs!GestureAssumption, NucProofs!HistoryAssumption,
    WinProofs!GestureAssumption, WinProofs!HistoryAssumption

(* Type and range of the collector's members. *)
CollectorInv == NucProofs!SpeedInv

LEMMA SameCollector ==
  /\ NucProofs!SpeedInv => WinProofs!SpeedInv
  /\ WinProofs!SpeedInv' => NucProofs!SpeedInv'
BY DEF NucProofs!SpeedInv, NucProofs!TypeOK, NucProofs!CommandFits, NucProofs!LevelSpeed,
       NucProofs!Samples, NucProofs!Elevations, NucProofs!Yaws, NucProofs!Trunc,
       WinProofs!SpeedInv, WinProofs!TypeOK, WinProofs!CommandFits, WinProofs!LevelSpeed,
       WinProofs!Samples, WinProofs!Elevations, WinProofs!Yaws, WinProofs!Trunc

LEMMA SampleKeepsCollector ==
  ASSUME program \in {"nuc", "win"}, CollectorInv, NEW quat \in Nuc!Samples, Sample(quat)
  PROVE  CollectorInv'
<1>1. quat \in NucProofs!Samples /\ quat \in WinProofs!Samples
  BY DEF Nuc!Samples, Nuc!Elevations, Nuc!Yaws,
         NucProofs!Samples, NucProofs!Elevations, NucProofs!Yaws,
         WinProofs!Samples, WinProofs!Elevations, WinProofs!Yaws
<1>2. CASE program = "nuc"
  <2>1. NucProofs!onOrientationData(quat)
    BY <1>2 DEF Sample, Nuc!onOrientationData, NucProofs!onOrientationData,
       Nuc!Zone, NucProofs!Zone, Nuc!Captures, NucProofs!Captures,
       Nuc!Heading, NucProofs!Heading, Nuc!SpeedIn, NucProofs!SpeedIn,
       Nuc!Trunc, NucProofs!Trunc
  <2>2. NucProofs!TypeOK' /\ NucProofs!CommandFits' /\ NucProofs!LevelSpeed'
    BY <1>1, <2>1, CollectorAssumptions, NucProofs!OrientationTypes,
       NucProofs!OrientationSpeed DEF CollectorInv, NucProofs!SpeedInv
  <2>. QED  BY <2>2 DEF CollectorInv, NucProofs!SpeedInv
<1>3. CASE program = "win"
  <2>1. WinProofs!onOrientationData(quat)
    BY <1>3 DEF Sample, Win!onOrientationData, WinProofs!onOrientationData,
       Win!Zone, WinProofs!Zone, Win!Captures, WinProofs!Captures,
       Win!Heading, WinProofs!Heading, Win!SpeedIn, WinProofs!SpeedIn,
       Win!Trunc, WinProofs!Trunc
  <2>2. WinProofs!SpeedInv
    BY SameCollector DEF CollectorInv
  <2>3. WinProofs!TypeOK' /\ WinProofs!CommandFits' /\ WinProofs!LevelSpeed'
    BY <1>1, <2>1, <2>2, CollectorAssumptions, WinProofs!OrientationTypes,
       WinProofs!OrientationSpeed DEF WinProofs!SpeedInv
  <2>4. WinProofs!SpeedInv'
    BY <2>3 DEF WinProofs!SpeedInv
  <2>. QED  BY <2>4, SameCollector DEF CollectorInv
<1>. QED  BY <1>2, <1>3

(* What a call of the port leaves of its types. *)
LEMMA CallTypes ==
  ASSUME PortTypeOK
  PROVE  /\ \A max \in Nat, n \in Int : Read(max, n) => PortTypeOK'
         /\ \A written : Write(written) => PortTypeOK'
         /\ \A ok \in BOOLEAN : Open(ok) \/ SetTimeout(ok) => PortTypeOK'
         /\ Close \/ Flush \/ Receive \/ UNCHANGED port => PortTypeOK'
<1>. USE PortAssumption DEF PortAssumption, PortTypeOK
<1>1. ASSUME NEW max \in Nat, NEW n \in Int, Read(max, n)
      PROVE  PortTypeOK'
  BY <1>1 DEF Read, Taken, port
<1>2. ASSUME NEW written, Write(written)
      PROVE  PortTypeOK'
  BY <1>2 DEF Write, port
<1>3. ASSUME NEW ok \in BOOLEAN, Open(ok) \/ SetTimeout(ok)
      PROVE  PortTypeOK'
  BY <1>3, EmptyQueue DEF Open, Created, SetTimeout, port
<1>4. CASE Close
  BY <1>4, EmptyQueue DEF Close
<1>5. CASE Flush \/ Receive \/ UNCHANGED port
  BY <1>5 DEF Flush, Receive, port
<1>. QED  BY <1>1, <1>2, <1>3, <1>4, <1>5

(* The conjuncts of TypeOK that are not about the port or the collector. *)
HubTypes == myos \in Seq(Arms) /\ listeners \in Seq({"collector"})
LoopTypes == program \in Programs /\ pc \in Locations /\ timer \in Nat
LineTypes ==
  motor \in Seq(Speeds) /\ cut \in BOOLEAN /\ failures \in 0..MaxFailures
OutsideTypes ==
  /\ peer \in {"none", "open", "closed"} /\ full \in BOOLEAN
  /\ printed \in BOOLEAN /\ piled \in BOOLEAN
ArmTypes == heard \in SUBSET Arms /\ lows \in [Arms -> 0..2]

MotorTypes ==
  PortTypeOK /\ HubTypes /\ LoopTypes /\ CollectorInv /\ LineTypes /\ OutsideTypes
    /\ ArmTypes

LEMMA SentTypes ==
  ASSUME LineTypes, PortTypeOK, NEW written \in Writes, NEW command \in Seq(Speeds),
         Sent(written, command)
  PROVE  LineTypes' /\ PortTypeOK'
<1>1. PortTypeOK'
  BY CallTypes DEF Sent
<1>2. failures' \in 0..MaxFailures
  BY MotorAssumption DEF MotorAssumption, Sent, LineTypes
<1>3. motor' \in Seq(Speeds)
  <2>1. <<>> \in Seq(Speeds)
    OBVIOUS
  <2>. QED  BY <2>1 DEF Sent, LineTypes
<1>4. cut' \in BOOLEAN
  BY DEF Sent
<1>. QED  BY <1>1, <1>2, <1>3, <1>4 DEF LineTypes

LEMMA ReadTypes ==
  ASSUME PortTypeOK, NEW max \in Nat, NEW next \in SUBSET Locations, ReadInto(max, next)
  PROVE  PortTypeOK' /\ pc' \in Locations /\ piled' \in BOOLEAN
<1>1. PICK n \in -1..max :
        /\ Read(max, n)
        /\ pc' \in IF n >= BufUnits THEN {"overrun"} ELSE next
        /\ piled' = (n = -1 \/ (piled /\ n >= BufUnits))
  BY DEF ReadInto
<1>2. PortTypeOK'
  BY <1>1, CallTypes
<1>3. "overrun" \in Locations
  BY DEF Locations
<1>. QED  BY <1>1, <1>2, <1>3

LEMMA ProceedTypes ==
  ASSUME LoopTypes, Proceed
  PROVE  pc' \in Locations
<1>1. program \in {"nuc", "win"}
  BY MotorAssumption DEF MotorAssumption, LoopTypes
<1>2. \A l \in {"listen", "open", "timeouts", "flush", "hello", "pause", "answer", "serve",
               "accept", "run", "find"} : l \in Locations
  <2>1. ToSet(NucSteps) = {"find", "listen", "open", "timeouts", "flush", "hello",
                           "answer", "serve", "accept", "run"}
    BY DEF ToSet, NucSteps
  <2>. QED  BY <2>1 DEF Locations
<1>. QED  BY <1>1, <1>2, NucOrder, WinOrder

(* What a step does that is no event: it leaves the collector and the      *)
(* arms alone.                                                             *)
LEMMA CollectorRests ==
  ASSUME CollectorInv, ArmTypes, UNCHANGED <<collector, arms>>
  PROVE  CollectorInv' /\ ArmTypes'
BY DEF collector, arms, ArmTypes, CollectorInv, NucProofs!SpeedInv, NucProofs!TypeOK,
   NucProofs!CommandFits, NucProofs!LevelSpeed

LEMMA EventTypes ==
  ASSUME MotorTypes, NEW a \in Arms, NEW kind \in Kinds, Event(a, kind)
  PROVE  MotorTypes'
<1>. USE DEF MotorTypes
<1>1. /\ onDeviceEvent(a, kind)
      /\ UNCHANGED <<port, program, pc, timer, line, client, text>>
  BY DEF Event
<1>2. PortTypeOK' /\ LoopTypes' /\ LineTypes' /\ OutsideTypes'
  <2>1. UNCHANGED <<hSerial, configured, timed, inq>>
    BY <1>1 DEF port
  <2>2. UNCHANGED <<motor, cut, failures, peer, full, printed, piled>>
    BY <1>1 DEF line, client, text
  <2>. QED  BY <1>1, <2>1, <2>2 DEF PortTypeOK, LoopTypes, LineTypes, OutsideTypes
<1>3. HubTypes'
  BY <1>1, LookupAppended DEF onDeviceEvent, HubTypes
<1>4. program \in {"nuc", "win"}
  BY MotorAssumption DEF MotorAssumption, LoopTypes
<1>5. ASSUME NEW quat \in Nuc!Samples, Sample(quat), Note(a, quat)
      PROVE  CollectorInv' /\ ArmTypes'
  <2>1. CollectorInv'
    BY <1>4, <1>5, SampleKeepsCollector
  <2>2. ArmTypes'
    BY <1>5 DEF Note, ArmTypes
  <2>. QED  BY <2>1, <2>2
<1>6. ASSUME NEW pose \in Poses, Nuc!onPose(pose), UNCHANGED arms
      PROVE  CollectorInv' /\ ArmTypes'
  BY <1>6 DEF Nuc!onPose, arms, ArmTypes, CollectorInv, NucProofs!SpeedInv, NucProofs!TypeOK,
     NucProofs!CommandFits, NucProofs!LevelSpeed
<1>7. ASSUME UNCHANGED <<collector, arms>>
      PROVE  CollectorInv' /\ ArmTypes'
  BY <1>7, CollectorRests
<1>8. CollectorInv' /\ ArmTypes'
  BY <1>5, <1>6, <1>7 DEF Event
<1>. QED  BY <1>2, <1>3, <1>8

LEMMA CommandInRange ==
  ASSUME CollectorInv
  PROVE  speed \in Speeds
BY MotorAssumption
DEF MotorAssumption, Speeds, CollectorInv, NucProofs!SpeedInv, NucProofs!TypeOK, NucProofs!CommandFits

LEMMA EndTypes ==
  ASSUME MotorTypes, End, UNCHANGED <<program, timer>>
  PROVE  PortTypeOK' /\ HubTypes' /\ LoopTypes'
<1>1. PortTypeOK'
  BY CallTypes DEF End, MotorTypes
<1>2. HubTypes'
  BY DEF End, HubGone, HubTypes
<1>3. LoopTypes'
  BY DEF End, LoopTypes, MotorTypes, Locations
<1>. QED  BY <1>1, <1>2, <1>3

LEMMA StartupTypes ==
  ASSUME MotorTypes, Startup
  PROVE  MotorTypes'
<1>. USE DEF MotorTypes
<1>0. CollectorInv' /\ ArmTypes'
  BY CollectorRests
  DEF Startup, Find, Listen, OpenPort, Leave, SetTimeouts, FlushPort, Hello, Pause, Answer,
      Serve
<1>a. ASSUME UNCHANGED line PROVE LineTypes'
  BY <1>a DEF line, LineTypes
<1>b. ASSUME UNCHANGED <<client, text>> PROVE OutsideTypes'
  BY <1>b DEF client, text, OutsideTypes
<1>c. ASSUME UNCHANGED hub PROVE HubTypes'
  BY <1>c DEF hub, HubTypes
<1>d. ASSUME Proceed, UNCHANGED <<program, timer>> PROVE LoopTypes'
  BY <1>d, ProceedTypes DEF LoopTypes
<1>e. ASSUME UNCHANGED port PROVE PortTypeOK'
  BY <1>e, CallTypes
<1>1. CASE Find
  <2>1. LineTypes' /\ OutsideTypes'
    BY <1>1, <1>a, <1>b DEF Find
  <2>2. CASE End
    BY <1>0, <1>1, <2>1, <2>2, EndTypes DEF Find
  <2>3. ASSUME Proceed, UNCHANGED port, NEW a \in Arms, waitForMyo(a)
        PROVE  MotorTypes'
    <3>1. HubTypes'
      BY <2>3, LookupAppended DEF waitForMyo, HubTypes
    <3>. QED  BY <1>0, <1>1, <1>d, <1>e, <2>1, <2>3, <3>1 DEF Find
  <2>. QED  BY <1>1, <2>2, <2>3 DEF Find
<1>2. CASE Listen
  <2>1. HubTypes'
    BY <1>2 DEF Listen, addListener, HubTypes
  <2>. QED  BY <1>0, <1>2, <1>a, <1>b, <1>d, <1>e, <2>1 DEF Listen
<1>3. CASE OpenPort
  <2>1. PortTypeOK'
    BY <1>3, CallTypes DEF OpenPort
  <2>2. LoopTypes'
    BY <1>3, <1>d DEF OpenPort, LoopTypes, Locations
  <2>. QED  BY <1>0, <1>3, <1>a, <1>b, <1>c, <2>1, <2>2 DEF OpenPort
<1>4. CASE Leave
  BY <1>0, <1>4, <1>a, <1>b, EndTypes DEF Leave
<1>5. CASE SetTimeouts \/ FlushPort
  <2>1. PortTypeOK'
    BY <1>5, CallTypes DEF SetTimeouts, FlushPort
  <2>. QED  BY <1>0, <1>5, <1>a, <1>b, <1>c, <1>d, <2>1 DEF SetTimeouts, FlushPort
<1>6. CASE Hello
  <2>1. LineTypes' /\ PortTypeOK'
    BY <1>6, SentTypes DEF Hello, LineTypes
  <2>. QED  BY <1>0, <1>6, <1>b, <1>c, <1>d, <2>1 DEF Hello
<1>7. CASE Answer
  <2>1. PICK i \in 1..Len(Steps) :
          Steps[i] = "answer" /\ ReadInto(BufUnits, {Steps[i + 1]})
    BY <1>7 DEF Answer
  <2>2. Steps[i + 1] \in {"serve", "find"}
    BY <1>7, <2>1, AnswerOrder, MotorAssumption DEF Answer, LoopTypes, MotorAssumption
  <2>3. {Steps[i + 1]} \in SUBSET Locations
    <3>1. "serve" \in ToSet(NucSteps) /\ "find" \in ToSet(NucSteps)
      BY DEF ToSet, NucSteps
    <3>. QED  BY <2>2, <3>1 DEF Locations
  <2>4. PortTypeOK' /\ pc' \in Locations /\ piled' \in BOOLEAN
    BY <2>1, <2>3, ReadTypes, MotorAssumption DEF MotorAssumption
  <2>5. OutsideTypes' /\ LoopTypes'
    BY <1>7, <2>4 DEF Answer, client, OutsideTypes, LoopTypes
  <2>. QED  BY <1>0, <1>7, <1>a, <1>c, <2>4, <2>5 DEF Answer
<1>8. CASE Serve
  <2>1. LineTypes' /\ OutsideTypes'
    BY <1>8, <1>a DEF Serve, text, OutsideTypes
  <2>2. CASE End
    BY <1>0, <1>8, <2>1, <2>2, EndTypes DEF Serve
  <2>3. CASE Proceed /\ UNCHANGED <<port, hub>>
    BY <1>0, <1>8, <1>c, <1>d, <1>e, <2>1, <2>3 DEF Serve
  <2>. QED  BY <1>8, <2>2, <2>3 DEF Serve
<1>9. CASE Pause
  BY <1>0, <1>9, <1>a, <1>b, <1>c, <1>d, <1>e DEF Pause
<1>. QED  BY <1>1, <1>2, <1>3, <1>4, <1>5, <1>6, <1>7, <1>8, <1>9 DEF Startup

LEMMA LoopStepTypes ==
  ASSUME MotorTypes, Loop
  PROVE  MotorTypes'
<1>. USE DEF MotorTypes
<1>0. CollectorInv' /\ ArmTypes' /\ HubTypes'
  <2>1. UNCHANGED <<collector, arms>> /\ UNCHANGED hub
    BY DEF Loop, RunEnds, WriteCommand, ReadPort, Send
  <2>. QED  BY <2>1, CollectorRests DEF hub, HubTypes
<1>1. \A l \in {"write", "read", "run", "send"} : l \in Locations
  <2>1. "run" \in ToSet(NucSteps)
    BY DEF ToSet, NucSteps
  <2>. QED  BY <2>1 DEF Locations
<1>2. CASE RunEnds
  <2>1. UNCHANGED <<motor, cut, failures, hSerial, configured, timed, inq>>
    BY <1>2 DEF RunEnds, line, port
  <2>2. PortTypeOK' /\ LineTypes'
    BY <2>1 DEF PortTypeOK, LineTypes
  <2>3. LoopTypes' /\ OutsideTypes'
    BY <1>1, <1>2 DEF RunEnds, LoopTypes, OutsideTypes, client
  <2>. QED  BY <1>0, <2>2, <2>3
<1>3. CASE WriteCommand
  <2>1. <<speed>> \in Seq(Speeds)
    BY CommandInRange
  <2>2. LineTypes' /\ PortTypeOK'
    BY <1>3, <2>1, SentTypes DEF WriteCommand
  <2>3. timer' \in Nat
    BY <1>3 DEF WriteCommand, NextTimer, LoopTypes
  <2>4. LoopTypes' /\ OutsideTypes'
    BY <1>1, <1>3, <2>3 DEF WriteCommand, LoopTypes, OutsideTypes, client, text
  <2>. QED  BY <1>0, <2>2, <2>4
<1>4. CASE ReadPort
  <2>1. PICK next \in SUBSET Locations : ReadInto(Asked, next)
    BY <1>1, <1>4 DEF ReadPort
  <2>2. PortTypeOK' /\ pc' \in Locations /\ piled' \in BOOLEAN
    BY <2>1, ReadTypes, MotorAssumption DEF MotorAssumption, Asked
  <2>3. LoopTypes' /\ OutsideTypes' /\ LineTypes'
    BY <1>4, <2>2 DEF ReadPort, LoopTypes, OutsideTypes, LineTypes, client, line
  <2>. QED  BY <1>0, <2>2, <2>3
<1>5. CASE Send
  <2>1. PortTypeOK' /\ LineTypes'
    BY <1>5, CallTypes DEF Send, line, LineTypes
  <2>2. LoopTypes' /\ OutsideTypes'
    BY <1>1, <1>5 DEF Send, LoopTypes, OutsideTypes, text
  <2>. QED  BY <1>0, <2>1, <2>2
<1>. QED  BY <1>2, <1>3, <1>4, <1>5 DEF Loop

LEMMA OutsideStepTypes ==
  ASSUME MotorTypes, Outside \/ UNCHANGED vars
  PROVE  MotorTypes'
<1>. USE DEF MotorTypes
<1>1. /\ UNCHANGED <<collector, arms>> /\ UNCHANGED hub /\ UNCHANGED line
      /\ UNCHANGED <<program, pc, timer>>
  BY DEF Outside, BoardPrints, ClientReads, ClientLeaves, vars
<1>2. CollectorInv' /\ ArmTypes' /\ HubTypes' /\ LineTypes' /\ LoopTypes'
  BY <1>1, CollectorRests DEF hub, HubTypes, line, LineTypes, LoopTypes
<1>3. PortTypeOK'
  BY CallTypes DEF Outside, BoardPrints, ClientReads, ClientLeaves, vars
<1>4. OutsideTypes'
  BY DEF Outside, BoardPrints, ClientReads, ClientLeaves, vars, client, text, OutsideTypes
<1>. QED  BY <1>2, <1>3, <1>4

(* The state of the programs, the hub, the port and the collector keeps    *)
(* its types, and the board is only told speeds in the collector's range.  *)
THEOREM MotorTypesPreserved == Spec => []TypeOK
<1>1. Init => MotorTypes
  <2>. SUFFICES ASSUME Init PROVE MotorTypes
    OBVIOUS
  <2>1. PortTypeOK
    BY EmptyQueue DEF Init, PortInit, PortTypeOK
  <2>2. HubTypes /\ ArmTypes
    BY DEF Init, HubInit, HubTypes, ArmTypes
  <2>3. LoopTypes
    <3>1. "find" \in ToSet(NucSteps) /\ "open" \in ToSet(NucSteps)
      BY DEF ToSet, NucSteps
    <3>. QED  BY <3>1 DEF Init, LoopTypes, Locations
  <2>4. LineTypes /\ OutsideTypes
    <3>1. 0 \in 0..MaxFailures /\ <<>> \in Seq(Speeds)
      BY MotorAssumption DEF MotorAssumption
    <3>. QED  BY <3>1 DEF Init, LineTypes, OutsideTypes
  <2>5. CollectorInv
    <3>1. NucProofs!Init
      BY DEF Init, Nuc!Init, NucProofs!Init, Nuc!Heading, NucProofs!Heading
    <3>. QED  BY <3>1, CollectorAssumptions, NucProofs!SpeedInvInit DEF CollectorInv
  <2>. QED  BY <2>1, <2>2, <2>3, <2>4, <2>5 DEF MotorTypes
<1>2. MotorTypes /\ [Next]_vars => MotorTypes'
  <2>. SUFFICES ASSUME MotorTypes, [Next]_vars PROVE MotorTypes'
    OBVIOUS
  <2>1. CASE Startup
    BY <2>1, StartupTypes
  <2>2. CASE Loop
    BY <2>2, LoopStepTypes
  <2>3. CASE HubFails
    <3>1. /\ End /\ UNCHANGED <<program, timer>> /\ UNCHANGED <<collector, arms>>
          /\ UNCHANGED line /\ UNCHANGED <<client, text>>
      BY <2>3 DEF HubFails
    <3>2. LineTypes' /\ OutsideTypes'
      BY <3>1 DEF line, LineTypes, client, text, OutsideTypes, MotorTypes
    <3>. QED  BY <3>1, <3>2, EndTypes, CollectorRests DEF MotorTypes
  <2>4. ASSUME NEW a \in Arms, NEW kind \in Kinds, Event(a, kind)
        PROVE  MotorTypes'
    BY <2>4, EventTypes
  <2>5. CASE Outside \/ UNCHANGED vars
    BY <2>5, OutsideStepTypes
  <2>. QED  BY <2>1, <2>2, <2>3, <2>4, <2>5 DEF Next, Hub
<1>3. MotorTypes => TypeOK
  <2>. SUFFICES ASSUME MotorTypes PROVE TypeOK
    OBVIOUS
  <2>1. Nuc!TypeOK
    BY DEF MotorTypes, CollectorInv, NucProofs!SpeedInv, NucProofs!TypeOK, NucProofs!Samples,
       NucProofs!Elevations, NucProofs!Yaws, Nuc!TypeOK, Nuc!Samples, Nuc!Elevations, Nuc!Yaws
  <2>. QED  BY <2>1, CommandInRange
            DEF MotorTypes, TypeOK, HubTypes, LoopTypes, LineTypes, OutsideTypes, ArmTypes
<1>. QED  BY <1>1, <1>2, <1>3, PTL DEF Spec

=============================================================================
