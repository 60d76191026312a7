--------------------------- MODULE NucServerProofs ---------------------------
(* Theorems about NUCServer, for every value of its constants: any number  *)
(* of fields, any buffer, ports that fail or not.                          *)
EXTENDS NucServer, BoardTextProofs

Unaccepted == {"open", "serve", "accept"}

(* Only while a message is due does the program rely on what the sensor and *)
(* the buffer hold: then they are those of the line just parsed, however a  *)
(* line before it failed.                                                   *)
ServerInv ==
  /\ DOMAIN tcpBuffer = Fields
  /\ pc = "send" => /\ sensor = latest
                    /\ SubSeq(tcpBuffer, 1, ByteSize(sensor)) = Serialize(latest)
  /\ pc \in Unaccepted => peer = "none"

LEMMA ServerInvInit == Init => ServerInv
BY DEF Init, ServerInv, Unaccepted

(* SerializeToArray leaves the message in front of the buffer. *)
LEMMA SerializedInFront ==
  ASSUME NEW m, NEW buffer
  PROVE  SubSeq(WithUnits(buffer, Serialize(m)), 1, ByteSize(m)) = Serialize(m)
<1>. DEFINE size == ByteSize(m)
            units == Serialize(m)
            whole == WithUnits(buffer, units)
<1>1. size \in Nat /\ size <= N /\ N \in Nat
  BY AnyMessage, FrameAssumption
<1>2. units = [k \in 1..size |-> units[k]] /\ DOMAIN units = 1..size
  BY DEF Serialize
<1>3. \A k \in 1..size : whole[k] = units[k]
  BY <1>1, <1>2 DEF WithUnits, Fields
<1>. HIDE DEF size, units, whole
<1>4. SubSeq(whole, 1, size) = [k \in 1..size |-> whole[k]]
  BY <1>1
<1>. QED  BY <1>2, <1>3, <1>4 DEF size, units, whole

(* Of a complete line every field is assigned its own number. *)
LEMMA CompleteLineAssigned ==
  ASSUME NEW line, NEW zeros, IsComplete(line)
  PROVE  Assigned(line, zeros) = Values(line, zeros)
<1>1. ASSUME NEW f \in Fields, NEW g \in 1..f PROVE IsNumber(line, g)
  BY FrameAssumption DEF IsComplete, Fields
<1>. QED  BY <1>1 DEF Assigned, Values

-----------------------------------------------------------------------------

LEMMA ParseKeepsServerInv ==
  ASSUME ServerInv, ParseLine
  PROVE  ServerInv' /\ R!Learn
<1>1. PICK zeros : sensor' = Assigned(text, zeros) /\ latest' = Values(text, zeros)
  BY DEF ParseLine
<1>2. /\ IsComplete(text)
      /\ tcpBuffer' = WithUnits(tcpBuffer, Serialize(sensor'))
      /\ pc = "parse" /\ pc' = "send"
      /\ UNCHANGED <<wire, peer>>
  BY DEF ParseLine, client
<1>3. sensor' = latest' /\ DOMAIN latest' = Fields
  BY <1>1, <1>2, CompleteLineAssigned DEF Values
<1>4. DOMAIN tcpBuffer' = Fields
  BY <1>2 DEF WithUnits
<1>5. SubSeq(tcpBuffer', 1, ByteSize(sensor')) = Serialize(sensor')
  BY <1>2, SerializedInFront
<1>6. ServerInv'
  BY <1>2, <1>3, <1>4, <1>5 DEF ServerInv, Unaccepted
<1>7. R!Learn
  BY <1>2, <1>3 DEF R!Learn, R!Fields, Fields
<1>. QED  BY <1>6, <1>7

(* The relay serializes as the server does. *)
LEMMA SameMessage == ASSUME NEW m PROVE R!Serialize(m) = Serialize(m)
<1>1. ASSUME NEW S PROVE R!Cardinality(S) = Cardinality(S)
  BY DEF R!Cardinality, Cardinality
<1>2. R!Present(m) = Present(m)
  BY DEF R!Present, R!Fields, R!Zero, Present, Fields, Zero
<1>3. R!ByteSize(m) = ByteSize(m)
  BY <1>1, <1>2 DEF R!ByteSize, ByteSize
<1>4. ASSUME NEW S, NEW k PROVE R!Nth(S, k) = Nth(S, k)
  <2>1. ASSUME NEW i \in S
        PROVE  R!Cardinality({j \in S : j <= i}) = Cardinality({j \in S : j <= i})
    BY <1>1
  <2>. QED  BY <2>1 DEF R!Nth, Nth
<1>5. ASSUME NEW k PROVE R!NthPresent(m, k) = NthPresent(m, k)
  BY <1>2, <1>4 DEF R!NthPresent, NthPresent
<1>. QED
  BY <1>3, <1>5 DEF R!Serialize, R!Unit, Serialize, Unit

LEMMA SendKeepsServerInv ==
  ASSUME ServerInv, Send
  PROVE  ServerInv' /\ (R!Deliver \/ R!Drop)
<1>. DEFINE units == SubSeq(tcpBuffer, 1, ByteSize(sensor))
<1>1. /\ pc = "send" /\ pc' = "read"
      /\ UNCHANGED <<sensor, tcpBuffer, peer, latest>>
      /\ \/ peer = "open" /\ wire' = wire \o units
         \/ peer = "closed" /\ UNCHANGED wire
  BY DEF Send, message
<1>2. units = Serialize(latest)
  BY <1>1 DEF ServerInv
<1>. HIDE DEF units
<1>3. ServerInv'
  BY <1>1 DEF ServerInv, Unaccepted
<1>4. R!Deliver \/ R!Drop
  BY <1>1, <1>2, SameMessage DEF R!Deliver, R!Drop
<1>. QED  BY <1>3, <1>4

(* One step of the server, of the board or of the client. *)
LEMMA StepKeepsServerInv ==
  ASSUME ServerInv, [Next]_vars
  PROVE  ServerInv' /\ [R!Next]_R!vars
<1>. USE DEF port, message, board, client, history
<1>1. CASE OpenPort \/ Serve
  <2>1. UNCHANGED <<tcpBuffer, latest, wire, peer>> /\ peer = "none"
    BY <1>1 DEF OpenPort, Serve, ServerInv, Unaccepted
  <2>2. pc # "send" /\ pc' # "send"
    BY <1>1 DEF OpenPort, Serve
  <2>. QED  BY <2>1, <2>2 DEF ServerInv, R!vars
<1>2. CASE Accept
  <2>1. UNCHANGED <<tcpBuffer, latest, wire>> /\ peer = "none" /\ pc = "accept"
    BY <1>2 DEF Accept, ServerInv, Unaccepted
  <2>2. \/ pc' = "flush" /\ peer' = "open"
        \/ pc' = "exited" /\ peer' = peer
    BY <1>2 DEF Accept
  <2>. QED  BY <2>1, <2>2 DEF ServerInv, Unaccepted, R!vars, R!Next, R!Connect
<1>3. CASE FlushPort \/ FirstRead \/ ReadLine \/ ParseFails
  <2>1. UNCHANGED <<tcpBuffer, latest, wire, peer>>
    BY <1>3 DEF FlushPort, FirstRead, ReadLine, ParseFails
  <2>2. pc # "send" /\ pc' \in {"first", "read", "parse"}
    BY <1>3 DEF FlushPort, FirstRead, ReadLine, ParseFails
  <2>. QED  BY <2>1, <2>2 DEF ServerInv, Unaccepted, R!vars
<1>4. CASE ParseLine
  BY <1>4, ParseKeepsServerInv DEF R!Next
<1>5. CASE Send
  BY <1>5, SendKeepsServerInv DEF R!Next
<1>6. CASE PrintReading \/ UNCHANGED vars
  <2>1. UNCHANGED <<pc, sensor, tcpBuffer, latest, wire, peer>>
    BY <1>6 DEF PrintReading, vars
  <2>. QED  BY <2>1 DEF ServerInv, R!vars
<1>7. CASE ClientReceives \/ ClientCloses
  <2>1. UNCHANGED <<pc, sensor, tcpBuffer, latest>> /\ peer = "open"
    BY <1>7 DEF ClientReceives, ClientCloses
  <2>2. R!Receive \/ R!Close
    BY <1>7, <2>1 DEF ClientReceives, ClientCloses, R!Receive, R!Close
  <2>. QED  BY <2>1, <2>2 DEF ServerInv, R!Next
<1>. QED  BY <1>1, <1>2, <1>3, <1>4, <1>5, <1>6, <1>7 DEF Next, Startup, Loop

THEOREM ServerInvariant == Spec => []ServerInv
BY ServerInvInit, StepKeepsServerInv, PTL DEF Spec

(* NUCServer implements the direct relay: whatever its reads hand it, each *)
(* line it parsed is sent at most once, exactly, before the next.          *)
THEOREM NucServerImplementsDirectRelay == Spec => ImplementsDirectRelay
<1>1. Init => R!Init
  BY DEF Init, R!Init, R!Fields, R!Zero, Fields, Zero
<1>2. ServerInv /\ [Next]_vars => [R!Next]_R!vars
  BY StepKeepsServerInv
<1>. QED  BY <1>1, <1>2, ServerInvariant, PTL DEF Spec, R!Spec, ImplementsDirectRelay

-----------------------------------------------------------------------------
(* Types. *)

LEMMA ServerConstants ==
  /\ N \in Nat /\ N >= 1 /\ BufCells \in Nat /\ BufCells >= 2
  /\ MaxReadings \in Nat /\ MaxQueue \in Nat /\ Window \in Nat /\ Window >= N
  /\ MaxFailures \in Nat
BY FrameAssumption, TextAssumption, ServerAssumption

(* The line taken out of the buffer is never longer than the buffer,       *)
(* whatever the read returned.                                             *)
LEMMA LineIsText ==
  ASSUME NEW b \in [1..BufCells -> Cells], NEW size \in Int
  PROVE  SecondLine(Taken(b, size)) \in Texts(BufCells)
<1>0. BufCells \in Nat
  BY ServerConstants
<1>3. TextOf(b) \in Texts(BufCells)
  BY BufferIsText
<1>4. ASSUME NEW t \in Texts(BufCells), size >= 0, size < Len(t)
      PROVE  SubSeq(t, 1, size) \in Texts(BufCells)
  BY <1>0, <1>4, FrontIsText DEF Texts
<1>5. Taken(b, size) \in Texts(BufCells)
  BY <1>3, <1>4 DEF Taken
<1>6. ASSUME NEW t \in Texts(BufCells)
      PROVE  UpToNewline(t) \in Texts(BufCells) /\ AfterFirst(t) \in Texts(BufCells)
  <2>. DEFINE end == SelectInSeq(t, IsNewline)
  <2>1. end \in 0..Len(t) /\ Len(t) \in Nat
    BY NewlineAt DEF Texts
  <2>2. UpToNewline(t) = IF end = 0 THEN t ELSE SubSeq(t, 1, end - 1)
    BY DEF UpToNewline
  <2>3. AfterFirst(t) = SubSeq(t, end + 1, Len(t))
    BY DEF AfterFirst
  <2>. HIDE DEF end
  <2>4. SubSeq(t, 1, end - 1) \in Texts(BufCells)
    BY <1>0, <2>1, FrontIsText
  <2>5. SubSeq(t, end + 1, Len(t)) \in Texts(BufCells)
    BY <1>0, <2>1, RestIsText
  <2>. QED  BY <2>2, <2>3, <2>4, <2>5
<1>. QED  BY <1>5, <1>6 DEF SecondLine

LEMMA SerialReadTypes ==
  ASSUME TypeOK, NEW size, SerialRead(size)
  PROVE  /\ serialBuffer' \in [1..BufCells -> Cells]
         /\ failures' \in 0..MaxFailures
         /\ rx' \in Seq(Cells) /\ Len(rx') <= MaxQueue
<1>1. CASE /\ \E r \in Reads(rx) :
                /\ serialBuffer' = WithRead(serialBuffer, r[1])
                /\ rx' = r[2]
           /\ UNCHANGED failures
  <2>1. PICK r \in Reads(rx) : serialBuffer' = WithRead(serialBuffer, r[1]) /\ rx' = r[2]
    BY <1>1
  <2>2. rx \in Seq(Cells) /\ Len(rx) <= MaxQueue
    BY DEF TypeOK
  <2>3. /\ r[1] \in Seq(Cells) /\ Len(r[1]) <= BufCells
        /\ r[2] \in Seq(Cells) /\ Len(r[2]) <= Len(rx)
    BY <2>2, ReadTypes
  <2>4. Len(rx') <= MaxQueue
    <3>1. Len(rx) \in Nat /\ Len(r[2]) \in Nat
      BY <2>2, <2>3
    <3>. QED  BY <2>1, <2>2, <2>3, <3>1, ServerConstants
  <2>5. serialBuffer \in [1..BufCells -> Cells]
    BY DEF TypeOK
  <2>6. serialBuffer' \in [1..BufCells -> Cells]
    BY <2>1, <2>3, <2>5, ReadIntoBuffer
  <2>. QED  BY <1>1, <2>1, <2>3, <2>4, <2>6 DEF TypeOK
<1>2. CASE /\ failures < MaxFailures /\ failures' = failures + 1
           /\ UNCHANGED <<serialBuffer, rx>>
  BY <1>2, ServerConstants DEF TypeOK
<1>. QED  BY <1>1, <1>2 DEF SerialRead

(* The units on the wire are a sequence, of whatever values. *)
WireInv == \E S : wire \in Seq(S)

LEMMA SendTypes ==
  ASSUME TypeOK, WireInv, Send
  PROVE  WireInv' /\ Len(wire') <= Window /\ Len(sent') <= N
<1>. DEFINE units == SubSeq(tcpBuffer, 1, ByteSize(sensor))
<1>1. \/ wire' = wire \o units /\ sent' = units /\ Len(wire) + Len(units) <= Window
      \/ UNCHANGED <<wire, sent>>
  BY DEF Send
<1>2. ByteSize(sensor) \in 0..N /\ N \in Nat
  BY AnyMessage, FrameAssumption
<1>. DEFINE U == {tcpBuffer[f] : f \in Fields}
<1>3. units \in Seq(U) /\ Len(units) = ByteSize(sensor)
  BY <1>2, FrontOfMessage
<1>. HIDE DEF units, U
<1>4. PICK S : wire \in Seq(S)
  BY DEF WireInv
<1>5. wire \in Seq(S \cup U) /\ units \in Seq(S \cup U)
  BY <1>3, <1>4, SeqMonotonic
<1>6. wire \o units \in Seq(S \cup U) /\ Len(wire \o units) = Len(wire) + Len(units)
  BY <1>5, ConcatProperties
<1>7. CASE UNCHANGED <<wire, sent>>
  BY <1>7 DEF WireInv, TypeOK
<1>8. CASE wire' = wire \o units /\ sent' = units /\ Len(wire) + Len(units) <= Window
  <2>1. WireInv'
    BY <1>6, <1>8 DEF WireInv
  <2>2. Len(wire') <= Window
    BY <1>6, <1>8
  <2>3. Len(sent') <= N
    BY <1>2, <1>3, <1>8
  <2>. QED  BY <2>1, <2>2, <2>3
<1>. QED  BY <1>1, <1>7, <1>8

LEMMA TypesInit == Init => TypeOK /\ WireInv
<1>. SUFFICES ASSUME Init PROVE TypeOK /\ WireInv
  OBVIOUS
<1>. USE DEF Init
<1>1. Junk \in Cells
  BY DEF Cells
<1>2. serialBuffer \in [1..BufCells -> Cells]
  BY <1>1
<1>3. /\ text \in Seq(Cells) /\ Len(text) <= BufCells /\ rx \in Seq(Cells) /\ Len(rx) <= MaxQueue
      /\ Len(wire) <= Window /\ Len(sent) <= N /\ readings \in 0..MaxReadings
      /\ failures \in 0..MaxFailures
  BY ServerConstants
<1>4. WireInv
  <2>1. wire \in Seq({})
    OBVIOUS
  <2>. QED  BY <2>1 DEF WireInv
<1>. QED  BY <1>2, <1>3, <1>4 DEF TypeOK

LEMMA TypesNext == TypeOK /\ WireInv /\ [Next]_vars => TypeOK' /\ WireInv'
<1>. SUFFICES ASSUME TypeOK, WireInv, [Next]_vars PROVE TypeOK' /\ WireInv'
  OBVIOUS
<1>. USE DEF port, message, board, client, history
<1>1. CASE OpenPort \/ Serve \/ Accept
  <2>1. pc' \in {"open", "serve", "accept", "flush", "exited"} /\ opened' \in BOOLEAN
        /\ peer' \in {"none", "open", "closed"}
    BY <1>1 DEF OpenPort, Serve, Accept, TypeOK
  <2>2. UNCHANGED <<serialBuffer, failures, text, sensor, tcpBuffer, rx, readings, wire, history>>
    BY <1>1 DEF OpenPort, Serve, Accept
  <2>. QED  BY <2>1, <2>2 DEF TypeOK, WireInv
<1>2. CASE FlushPort
  <2>1. pc' = "first" /\ rx' \in {<<>>, rx}
        /\ UNCHANGED <<port, text, message, readings, client, history>>
    BY <1>2 DEF FlushPort
  <2>2. rx' \in Seq(Cells) /\ Len(rx') <= MaxQueue
    <3>1. rx \in Seq(Cells) /\ Len(rx) <= MaxQueue
      BY DEF TypeOK
    <3>2. <<>> \in Seq(Cells) /\ Len(<<>>) <= MaxQueue
      BY ServerConstants
    <3>3. rx' = <<>> \/ rx' = rx
      BY <2>1
    <3>. QED  BY <3>1, <3>2, <3>3
  <2>. QED  BY <2>1, <2>2 DEF TypeOK, WireInv
<1>3. CASE FirstRead
  <2>1. PICK size \in -1..BufCells : SerialRead(size)
    BY <1>3 DEF FirstRead
  <2>2. pc' = "read" /\ UNCHANGED <<opened, text, message, readings, client, history>>
    BY <1>3 DEF FirstRead
  <2>. QED  BY <2>1, <2>2, SerialReadTypes DEF TypeOK, WireInv
<1>4. CASE ReadLine
  <2>1. PICK size \in -1..BufCells :
          SerialRead(size) /\ text' = SecondLine(Taken(serialBuffer', size))
    BY <1>4 DEF ReadLine
  <2>2. pc' = "parse" /\ UNCHANGED <<opened, message, readings, client, history>>
    BY <1>4 DEF ReadLine
  <2>3. size \in Int
    BY ServerConstants
  <2>4. text' \in Texts(BufCells)
    BY <2>1, <2>3, SerialReadTypes, LineIsText
  <2>. QED  BY <2>1, <2>2, <2>4, SerialReadTypes DEF TypeOK, WireInv, Texts
<1>5. CASE ParseLine \/ ParseFails
  <2>1. text' = <<>> /\ pc' \in {"send", "read"} /\ UNCHANGED <<port, board, client, sent>>
    BY <1>5 DEF ParseLine, ParseFails
  <2>2. /\ DOMAIN sensor' = Fields
    BY <1>5 DEF ParseLine, ParseFails, Assigned
  <2>3. DOMAIN latest' = Fields
    BY <1>5 DEF ParseLine, ParseFails, Values, TypeOK
  <2>4. DOMAIN tcpBuffer' = Fields
    BY <1>5 DEF ParseLine, ParseFails, WithUnits, TypeOK
  <2>5. text' \in Seq(Cells) /\ Len(text') <= BufCells
    BY <2>1, ServerConstants
  <2>. QED  BY <2>1, <2>2, <2>3, <2>4, <2>5 DEF TypeOK, WireInv
<1>6. CASE Send
  <2>1. pc' = "read" /\ UNCHANGED <<port, text, message, board, peer, latest>>
    BY <1>6 DEF Send
  <2>. QED  BY <1>6, <2>1, SendTypes DEF TypeOK
<1>7. CASE PrintReading
  <2>1. /\ readings' = readings + 1 /\ readings < MaxReadings
        /\ rx' = rx \o ReadingLine(readings + 1) /\ Len(rx) + 2 * N <= MaxQueue
        /\ UNCHANGED <<pc, port, text, message, client, history>>
    BY <1>7 DEF PrintReading
  <2>2. readings + 1 \in 1..MaxReadings
    BY <2>1, ServerConstants, SMTT(30) DEF TypeOK
  <2>3. ReadingLine(readings + 1) \in Seq(Cells) /\ Len(ReadingLine(readings + 1)) = 2 * N
    BY <2>2, ReadingIsText
  <2>4. rx' \in Seq(Cells) /\ Len(rx') = Len(rx) + 2 * N
    BY <2>1, <2>3, ConcatProperties DEF TypeOK
  <2>. QED  BY <2>1, <2>2, <2>4 DEF TypeOK, WireInv
<1>8. CASE ClientReceives
  <2>1. PICK k \in 1..Len(wire) : wire' = SubSeq(wire, k + 1, Len(wire))
    BY <1>8 DEF ClientReceives
  <2>2. UNCHANGED <<pc, port, text, message, board, peer, history>>
    BY <1>8 DEF ClientReceives
  <2>3. PICK S : wire \in Seq(S)
    BY DEF WireInv
  <2>4. wire' \in Seq(S) /\ Len(wire') = Len(wire) - k
    BY <2>1, <2>3
  <2>5. Len(wire') <= Window
    <3>1. Len(wire) \in Nat /\ Len(wire) <= Window
      BY <2>3 DEF TypeOK
    <3>. QED  BY <2>4, <3>1, ServerConstants
  <2>. QED  BY <2>2, <2>4, <2>5 DEF TypeOK, WireInv
<1>9. CASE ClientCloses
  <2>1. wire' = <<>> /\ peer' = "closed"
        /\ UNCHANGED <<pc, port, text, message, board, history>>
    BY <1>9 DEF ClientCloses
  <2>2. wire' \in Seq({}) /\ Len(wire') <= Window
    BY <2>1, ServerConstants
  <2>. QED  BY <2>1, <2>2 DEF TypeOK, WireInv
<1>10. CASE UNCHANGED vars
  BY <1>10 DEF vars, TypeOK, WireInv
<1>. QED
  BY <1>1, <1>2, <1>3, <1>4, <1>5, <1>6, <1>7, <1>8, <1>9, <1>10 DEF Next, Startup, Loop

(* The program's state keeps its types: whatever its reads return, also -1, *)
(* the line it parses fits its buffer and no message is longer than N units. *)
THEOREM ServerTypes == Spec => []TypeOK
<1>1. Spec => [](TypeOK /\ WireInv)
  BY TypesInit, TypesNext, PTL DEF Spec
<1>. QED  BY <1>1, PTL

-----------------------------------------------------------------------------
(* One reading.  As long as no read of the port failed, the text on its    *)
(* way from the board to the message is in the order in which it was       *)
(* printed, at every place.                                                *)

(* The readings of the last message sent. *)
SentRds == {a.rd : a \in Numbers(sent)}

TextInv ==
  /\ Ordered(rx) /\ (rx # <<>> => rx[Len(rx)] = Newline)
  /\ Ordered(text) /\ \A i \in 1..Len(text) : text[i] # Newline
  /\ InOrder(latest)
  /\ OneReading(sent)
  /\ Chain(SentRds, CarriedRds(latest), Rds(text), Rds(rx), readings)

NeverBack == \A a \in Numbers(sent), b \in Numbers(sent') : a.rd <= b.rd

LEMMA TextInvInit == Init => TextInv
<1>. SUFFICES ASSUME Init PROVE TextInv
  OBVIOUS
<1>1. rx = <<>> /\ text = <<>> /\ sent = <<>> /\ readings = 0
      /\ latest = [f \in Fields |-> Zero]
  BY DEF Init
<1>2. \A f \in DOMAIN latest : Carried(latest[f]) = {}
  BY <1>1 DEF Carried, Zero
<1>3. InOrder(latest) /\ CarriedRds(latest) = {}
  BY <1>2 DEF InOrder, CarriedRds
<1>4. OneReading(sent) /\ SentRds = {}
  <2>1. DOMAIN sent = {}
    BY <1>1
  <2>2. Numbers(sent) = {}
    BY <2>1 DEF Numbers
  <2>. QED  BY <2>1, <2>2 DEF OneReading, SentRds
<1>5. Ordered(rx) /\ Rds(rx) = {} /\ Ordered(text) /\ Rds(text) = {}
  BY <1>1, EmptyText
<1>. QED  BY <1>1, <1>3, <1>4, <1>5 DEF TextInv, Chain, Before

(* What a read that did not fail returned, cut to its size, is nothing but *)
(* what was read, whatever older reads left behind it in the buffer.       *)
LEMMA TakenIsRead ==
  ASSUME NEW b \in [1..BufCells -> Cells], NEW got \in Seq(Cells), Ordered(got)
  PROVE  LET t == Taken(WithRead(b, got), Len(got))
         IN  t \in Seq(Cells) /\ Ordered(t) /\ Rds(t) \subseteq Rds(got)
<1>. DEFINE buffer == WithRead(b, got)
            whole == TextOf(buffer)
            size == Len(got)
            t == Taken(buffer, size)
<1>1. size \in Nat
  OBVIOUS
<1>2. /\ buffer \in [1..BufCells -> Cells]
      /\ \A i \in 1..BufCells : buffer[i] = IF i <= size THEN got[i] ELSE b[i]
  BY ReadIntoBuffer
<1>3. t = IF size >= 0 /\ size < Len(whole) THEN SubSeq(whole, 1, size) ELSE whole
  BY DEF Taken
<1>. HIDE DEF buffer
<1>4. /\ whole \in Seq(Cells) /\ Len(whole) \in Nat
      /\ \A i \in 1..Len(whole) : i \in 1..BufCells /\ whole[i] = buffer[i]
  <2>1. /\ whole \in Texts(BufCells)
        /\ \A i \in 1..Len(whole) : i \in 1..BufCells /\ whole[i] = buffer[i]
    BY <1>2, BufferIsText
  <2>2. whole \in Seq(Cells)
    BY <2>1 DEF Texts
  <2>. QED  BY <2>1, <2>2
<1>. HIDE DEF whole, size, t
<1>5. ASSUME NEW i \in 1..Len(whole), i <= size PROVE whole[i] = got[i]
  BY <1>2, <1>4, <1>5
<1>6. CASE size < Len(whole)
  <2>1. t = SubSeq(whole, 1, size)
    BY <1>1, <1>3, <1>6
  <2>2. CASE size = 0
    <3>1. t = <<>>
      BY <1>1, <1>4, <2>1, <2>2, SubSeqEmpty
    <3>. QED  BY <3>1, EmptyText DEF t, buffer, size
  <2>3. CASE size # 0
    <3>1. /\ t \in Seq(Cells) /\ Len(t) = size
          /\ \A i \in 1..size : t[i] = whole[i]
      BY <1>1, <1>4, <1>6, <2>1, <2>3
    <3>2. ASSUME NEW i \in 1..Len(t)
          PROVE  IF i <= Len(got) THEN t[i] = got[i] ELSE ~IsNum(t[i])
      <4>1. i \in 1..Len(whole) /\ i <= size /\ i \in 1..size
        BY <1>1, <1>4, <1>6, <3>1
      <4>. QED  BY <1>5, <3>1, <4>1 DEF size
    <3>3. Len(t) \in Nat
      BY <1>1, <3>1
    <3>4. Ordered(t) /\ Rds(t) \subseteq Rds(got)
      BY <3>2, <3>3, FreshTextOrdered
    <3>. QED  BY <3>1, <3>4 DEF t, buffer, size
  <2>. QED  BY <2>2, <2>3
<1>7. CASE ~(size < Len(whole))
  <2>1. t = whole
    BY <1>3, <1>7
  <2>2. ASSUME NEW i \in 1..Len(t)
        PROVE  IF i <= Len(got) THEN t[i] = got[i] ELSE ~IsNum(t[i])
    <3>1. i \in 1..Len(whole) /\ i <= size
      BY <1>1, <1>4, <1>7, <2>1
    <3>. QED  BY <1>5, <2>1, <3>1 DEF size
  <2>3. Len(t) \in Nat /\ t \in Seq(Cells)
    BY <1>4, <2>1
  <2>4. Ordered(t) /\ Rds(t) \subseteq Rds(got)
    BY <2>2, <2>3, FreshTextOrdered
  <2>. QED  BY <2>3, <2>4 DEF t, buffer, size
<1>. QED  BY <1>6, <1>7

(* The line behind the first newline is a part of it, without a newline. *)
LEMMA SecondLineOrdered ==
  ASSUME NEW t \in Seq(Cells), Ordered(t)
  PROVE  /\ SecondLine(t) \in Seq(Cells) /\ Ordered(SecondLine(t))
         /\ Rds(SecondLine(t)) \subseteq Rds(t)
         /\ \A i \in 1..Len(SecondLine(t)) : SecondLine(t)[i] # Newline
<1>. DEFINE rest == AfterFirst(t)
            end == SelectInSeq(rest, IsNewline)
<1>1. rest \in Seq(Cells) /\ Ordered(rest) /\ Rds(rest) \subseteq Rds(t)
  BY FirstLineOrdered
<1>. HIDE DEF rest
<1>2. end = 0 => \A i \in 1..Len(rest) : rest[i] # Newline
  BY <1>1, FirstNewline
<1>3. /\ FirstLine(rest) \in Seq(Cells) /\ Ordered(FirstLine(rest))
      /\ Rds(FirstLine(rest)) \subseteq Rds(rest)
      /\ \A i \in 1..Len(FirstLine(rest)) : FirstLine(rest)[i] # Newline
  BY <1>1, FirstLineOrdered
<1>4. SecondLine(t) = IF end = 0 THEN rest ELSE FirstLine(rest)
  BY DEF SecondLine, UpToNewline, FirstLine, rest
<1>. QED  BY <1>1, <1>2, <1>3, <1>4

LEMMA ReadLineKeepsText ==
  ASSUME TypeOK, TextInv, ReadLine, failures' = failures
  PROVE  TextInv'
<1>1. PICK size \in -1..BufCells :
        SerialRead(size) /\ text' = SecondLine(Taken(serialBuffer', size))
  BY DEF ReadLine
<1>2. failures \in Nat
  BY ServerConstants DEF TypeOK
<1>3. PICK r \in Reads(rx) : /\ size = Len(r[1])
                             /\ serialBuffer' = WithRead(serialBuffer, r[1])
                             /\ rx' = r[2]
  BY <1>1, <1>2 DEF SerialRead
<1>4. UNCHANGED <<readings, latest, sent>>
  BY DEF ReadLine, history
<1>5. /\ rx \in Seq(Cells) /\ Ordered(rx) /\ (rx # <<>> => rx[Len(rx)] = Newline)
      /\ serialBuffer \in [1..BufCells -> Cells]
  BY DEF TypeOK, TextInv
<1>6. /\ Ordered(r[1]) /\ Rds(r[1]) \subseteq Rds(rx)
      /\ Ordered(r[2]) /\ Rds(r[2]) \subseteq Rds(rx)
      /\ Before(Rds(r[1]), Rds(r[2]))
      /\ r[2] # <<>> => r[2][Len(r[2])] = Newline
  BY <1>5, ReadOrdered
<1>7. r[1] \in Seq(Cells)
  BY <1>5, ReadTypes
<1>. DEFINE t == Taken(WithRead(serialBuffer, r[1]), Len(r[1]))
<1>8. t \in Seq(Cells) /\ Ordered(t) /\ Rds(t) \subseteq Rds(r[1])
  BY <1>5, <1>6, <1>7, TakenIsRead
<1>9. text' = SecondLine(t)
  BY <1>1, <1>3
<1>. HIDE DEF t
<1>10. /\ Ordered(text') /\ Rds(text') \subseteq Rds(r[1])
       /\ \A i \in 1..Len(text') : text'[i] # Newline
  BY <1>8, <1>9, SecondLineOrdered
<1>11. SentRds' = SentRds
  BY <1>4 DEF SentRds
<1>12. Chain(SentRds, CarriedRds(latest), Rds(text'), Rds(rx'), readings)
  <2>1. Rds(text') \subseteq Rds(rx) /\ Rds(rx') \subseteq Rds(rx)
    BY <1>3, <1>6, <1>10
  <2>2. Before(Rds(text'), Rds(rx'))
    BY <1>3, <1>6, <1>10 DEF Before
  <2>. QED  BY <2>1, <2>2 DEF TextInv, Chain, Before
<1>. QED  BY <1>3, <1>4, <1>6, <1>10, <1>11, <1>12 DEF TextInv

LEMMA ParseKeepsText ==
  ASSUME TypeOK, TextInv, ParseLine
  PROVE  TextInv'
<1>1. /\ text' = <<>> /\ IsComplete(text)
      /\ UNCHANGED <<rx, readings, sent>>
  BY DEF ParseLine, board
<1>2. PICK zeros : latest' = Values(text, zeros)
  BY DEF ParseLine
<1>3. /\ text \in Seq(Cells) /\ Ordered(text)
      /\ \A i \in 1..Len(text) : text[i] # Newline
  BY DEF TypeOK, TextInv
<1>4. /\ DOMAIN latest' = Fields
      /\ \A f \in Fields : \/ latest'[f] = Zero \/ latest'[f] = MinusOne
                           \/ latest'[f] = Parsed(Digits(PieceOf(text, f)))
  BY <1>2 DEF Values, Value
<1>5. InOrder(latest') /\ CarriedRds(latest') \subseteq Rds(text)
  BY <1>3, <1>4, LineValues
<1>6. /\ Ordered(text') /\ Rds(text') = {}
      /\ \A i \in 1..Len(text') : text'[i] # Newline
  <2>1. Len(text') = 0
    BY <1>1, EmptyText
  <2>. QED  BY <1>1, <2>1, EmptyText
<1>7. SentRds' = SentRds
  BY <1>1 DEF SentRds
<1>8. Chain(SentRds, CarriedRds(latest'), {}, Rds(rx), readings)
  BY <1>5 DEF TextInv, Chain, Before
<1>. QED  BY <1>1, <1>5, <1>6, <1>7, <1>8 DEF TextInv

(* The message carries the values of the fields that are written, in the   *)
(* order of the fields.                                                    *)
LEMMA MessageInOrder ==
  ASSUME NEW m, DOMAIN m = Fields, InOrder(m)
  PROVE  /\ OneReading(Serialize(m))
         /\ \A a \in Numbers(Serialize(m)) : a.rd \in CarriedRds(m)
<1>. DEFINE S == Present(m)
            units == Serialize(m)
            g == [k \in 1..Cardinality(S) |-> Nth(S, k)]
<1>1. N \in Nat /\ S \in SUBSET (0..N) /\ S \subseteq Fields
  BY ServerConstants DEF Present, Fields
<1>2. DOMAIN units = 1..Cardinality(S)
  BY DEF Serialize, ByteSize
<1>3. \A k \in 1..Cardinality(S) : units[k].val = m[Nth(S, k)]
  BY DEF Serialize, ByteSize, Unit, NthPresent
<1>. HIDE DEF S, units
<1>4. \A k \in 1..Cardinality(S) : Nth(S, k) \in S
  BY <1>1, NthOf
<1>5. g \in [DOMAIN units -> DOMAIN m]
  BY <1>1, <1>2, <1>4
<1>6. \A k \in DOMAIN units : units[k].val = m[g[k]]
  BY <1>2, <1>3
<1>7. ASSUME NEW k \in DOMAIN units, NEW l \in DOMAIN units, k <= l PROVE g[k] <= g[l]
  <2>1. k \in 1..Cardinality(S) /\ l \in 1..Cardinality(S)
    BY <1>2
  <2>2. \A x \in 0..N : x <= x
    BY <1>1
  <2>3. Nth(S, k) \in 0..N /\ Nth(S, l) \in 0..N
    BY <1>1, <1>4, <2>1
  <2>4. CASE k = l
    BY <2>1, <2>2, <2>3, <2>4
  <2>5. CASE k < l
    <3>1. Nth(S, k) < Nth(S, l)
      BY <1>1, <2>1, <2>5, NthInOrder
    <3>. QED  BY <2>1, <2>3, <3>1
  <2>. QED  BY <1>7, <2>1, <2>4, <2>5
<1>. HIDE DEF g
<1>8. OneReading(units) /\ \A a \in Numbers(units) : a.rd \in CarriedRds(m)
  BY <1>5, <1>6, <1>7, CarriedInOrder
<1>. QED  BY <1>8 DEF units

(* Of a message nothing is sent but the fields of the last line. *)
LEMMA SendKeepsText ==
  ASSUME TypeOK, ServerInv, TextInv, Send
  PROVE  TextInv' /\ NeverBack
<1>. DEFINE units == SubSeq(tcpBuffer, 1, ByteSize(sensor))
<1>1. pc = "send" /\ UNCHANGED <<text, rx, readings, latest>>
      /\ (sent' = units \/ sent' = sent)
  BY DEF Send, board
<1>2. units = Serialize(latest)
  BY <1>1 DEF ServerInv
<1>. HIDE DEF units
<1>3. OneReading(units) /\ \A a \in Numbers(units) : a.rd \in CarriedRds(latest)
  BY <1>2, MessageInOrder DEF TypeOK, TextInv
<1>4. OneReading(sent')
  BY <1>1, <1>3 DEF TextInv
<1>5. SentRds' = SentRds \/ SentRds' \subseteq CarriedRds(latest)
  BY <1>1, <1>3 DEF SentRds
<1>6. Chain(SentRds', CarriedRds(latest), Rds(text), Rds(rx), readings)
  <2>1. Chain(SentRds, CarriedRds(latest), Rds(text), Rds(rx), readings)
    BY DEF TextInv
  <2>2. ASSUME NEW x \in CarriedRds(latest), NEW y \in CarriedRds(latest) PROVE x <= y
    <3>1. x = y
      BY DEF TextInv, InOrder, CarriedRds
    <3>2. x \in Nat
      BY <2>1 DEF Chain
    <3>. QED  BY <3>1, <3>2
  <2>3. CASE SentRds' = SentRds
    BY <2>1, <2>3
  <2>4. CASE SentRds' \subseteq CarriedRds(latest)
    BY <2>1, <2>2, <2>4 DEF Chain, Before
  <2>. QED  BY <1>5, <2>3, <2>4
<1>7. TextInv'
  BY <1>1, <1>4, <1>6 DEF TextInv
<1>8. ASSUME NEW a \in Numbers(sent), NEW b \in Numbers(sent') PROVE a.rd <= b.rd
  <2>1. a.rd \in SentRds /\ a.rd \in Nat
    BY DEF SentRds, TextInv, Chain
  <2>2. CASE sent' = sent
    <3>1. OneReading(sent)
      BY DEF TextInv
    <3>2. a.rd = b.rd
      BY <2>2, <3>1, OneRd
    <3>. QED  BY <2>1, <3>2
  <2>3. CASE sent' = units
    <3>1. b.rd \in CarriedRds(latest)
      BY <1>3, <2>3
    <3>. QED  BY <2>1, <3>1 DEF TextInv, Chain, Before
  <2>. QED  BY <1>1, <2>2, <2>3
<1>. QED  BY <1>7, <1>8 DEF NeverBack

(* The board appends a whole line of a new reading. *)
LEMMA PrintKeepsText ==
  ASSUME TypeOK, TextInv, PrintReading
  PROVE  TextInv'
<1>. DEFINE r == readings + 1
            t == ReadingLine(r)
<1>1. UNCHANGED <<text, latest, sent>>
  BY DEF PrintReading, history
<1>2. /\ rx \in Seq(Cells) /\ Ordered(rx) /\ (rx # <<>> => rx[Len(rx)] = Newline)
      /\ readings \in Nat
  BY ServerConstants DEF TypeOK, TextInv
<1>3. Chain(SentRds, CarriedRds(latest), Rds(text), Rds(rx), readings)
  BY DEF TextInv
<1>4. SentRds' = SentRds
  BY <1>1 DEF SentRds
<1>5. rx' = rx \o t /\ readings' = r /\ readings < MaxReadings
  BY DEF PrintReading
<1>6. r \in 1..MaxReadings /\ r \in Nat /\ readings < r
  BY <1>2, <1>5, ServerConstants
<1>. HIDE DEF r
<1>7. t \in Seq(Cells) /\ Ordered(t) /\ t # <<>> /\ t[Len(t)] = Newline /\ Rds(t) \subseteq {r}
  BY <1>6, ReadingOrdered
<1>. HIDE DEF t
<1>8. \A x \in SentRds \cup CarriedRds(latest) \cup Rds(text) \cup Rds(rx) : x \in Nat /\ x <= r
  BY <1>2, <1>3, <1>6 DEF Chain
<1>9. Before(Rds(rx), Rds(t))
  BY <1>7, <1>8 DEF Before
<1>10. /\ Ordered(rx') /\ rx'[Len(rx')] = Newline
       /\ Rds(rx') \subseteq Rds(rx) \cup Rds(t)
  BY <1>2, <1>5, <1>7, <1>9, ConcatOrdered
<1>11. Chain(SentRds, CarriedRds(latest), Rds(text), Rds(rx'), r)
  <2>1. \A x \in Rds(rx') : x \in Rds(rx) \/ x = r
    BY <1>7, <1>10
  <2>2. r <= r
    BY <1>6
  <2>. QED  BY <1>3, <1>6, <1>8, <2>1, <2>2 DEF Chain, Before
<1>. QED  BY <1>1, <1>4, <1>5, <1>10, <1>11 DEF TextInv

(* Every other step that takes text away, or leaves all of it alone. *)
LEMMA LessText ==
  ASSUME TypeOK, TextInv, UNCHANGED <<readings, latest, sent>>,
         text' = text \/ text' = <<>>,
         rx' = rx \/ rx' = <<>> \/ \E r \in Reads(rx) : rx' = r[2]
  PROVE  TextInv'
<1>1. rx \in Seq(Cells) /\ Ordered(rx) /\ (rx # <<>> => rx[Len(rx)] = Newline)
  BY DEF TypeOK, TextInv
<1>2. Ordered(rx') /\ (rx' # <<>> => rx'[Len(rx')] = Newline) /\ Rds(rx') \subseteq Rds(rx)
  BY <1>1, ReadOrdered, EmptyText
<1>3. Ordered(text') /\ Rds(text') \subseteq Rds(text) /\ \A i \in 1..Len(text') : text'[i] # Newline
  BY EmptyText DEF TextInv
<1>4. Chain(SentRds, CarriedRds(latest), Rds(text'), Rds(rx'), readings)
  BY <1>2, <1>3 DEF TextInv, Chain, Before
<1>. QED  BY <1>2, <1>3, <1>4 DEF TextInv, SentRds

LEMMA StepKeepsText ==
  ASSUME TypeOK, ServerInv, TextInv, [Next]_vars
  PROVE  NeverBack /\ (failures' = failures => TextInv')
<1>. USE DEF port, message, board, client, history
<1>1. ASSUME sent' = sent PROVE NeverBack
  <2>1. ASSUME NEW a \in Numbers(sent), NEW b \in Numbers(sent) PROVE a.rd <= b.rd
    <3>1. OneReading(sent)
      BY DEF TextInv
    <3>2. a.rd = b.rd
      BY <3>1, OneRd
    <3>3. a.rd \in Nat
      BY DEF TextInv, Chain, SentRds
    <3>. QED  BY <3>2, <3>3
  <2>. QED  BY <1>1, <2>1 DEF NeverBack
<1>2. CASE \/ OpenPort \/ Serve \/ Accept \/ FlushPort \/ ParseFails
           \/ ClientReceives \/ ClientCloses \/ UNCHANGED vars
  <2>1. UNCHANGED <<readings, latest, sent>> /\ (text' = text \/ text' = <<>>)
        /\ (rx' = rx \/ rx' = <<>>)
    BY <1>2 DEF OpenPort, Serve, Accept, FlushPort, ParseFails, ClientReceives,
                ClientCloses, vars
  <2>. QED  BY <1>1, <2>1, LessText
<1>3. CASE FirstRead
  <2>1. UNCHANGED <<readings, latest, sent, text>>
    BY <1>3 DEF FirstRead
  <2>2. rx' = rx \/ \E r \in Reads(rx) : rx' = r[2]
    BY <1>3 DEF FirstRead, SerialRead
  <2>. QED  BY <1>1, <2>1, <2>2, LessText
<1>4. CASE ReadLine
  BY <1>1, <1>4, ReadLineKeepsText DEF ReadLine
<1>5. CASE ParseLine
  BY <1>1, <1>5, ParseKeepsText DEF ParseLine
<1>6. CASE Send
  BY <1>6, SendKeepsText
<1>7. CASE PrintReading
  BY <1>1, <1>7, PrintKeepsText DEF PrintReading
<1>. QED  BY <1>2, <1>3, <1>4, <1>5, <1>6, <1>7 DEF Next, Startup, Loop

(* A read that failed is never forgotten. *)
LEMMA FailuresStay ==
  ASSUME TypeOK, [Next]_vars
  PROVE  failures' = failures \/ failures' > 0
<1>. USE DEF port, message, board, client, history
<1>1. failures \in Nat
  BY ServerConstants DEF TypeOK
<1>2. \A size : SerialRead(size) => failures' = failures \/ failures' = failures + 1
  BY DEF SerialRead
<1>3. failures' = failures \/ failures' = failures + 1
  BY <1>2 DEF Next, Startup, Loop, OpenPort, Serve, Accept, FlushPort, FirstRead, ReadLine,
              ParseLine, ParseFails, Send, PrintReading, ClientReceives, ClientCloses, vars
<1>. QED  BY <1>1, <1>3

(* From a start without a failure on, the text is in order until one. *)
FreshInv == failures = 0 => TextInv

LEMMA FreshInvariant == Spec => []FreshInv
<1>1. Init => FreshInv
  BY TextInvInit DEF FreshInv
<1>2. TypeOK /\ ServerInv /\ FreshInv /\ [Next]_vars => FreshInv'
  <2>. SUFFICES ASSUME TypeOK, ServerInv, FreshInv, [Next]_vars, failures' = 0 PROVE TextInv'
    BY DEF FreshInv
  <2>1. failures = 0 /\ failures' = failures
    BY FailuresStay
  <2>. QED  BY <2>1, StepKeepsText DEF FreshInv
<1>. QED  BY <1>1, <1>2, ServerTypes, ServerInvariant, PTL DEF Spec

(* As long as no read of the port failed, the fields of a message come     *)
(* from one reading of the board, in its order, for any number of fields,  *)
(* any buffer and any cuts of the reads: the size of the read keeps what   *)
(* older reads left in the buffer out of the line.                         *)
THEOREM MessageAlwaysOneReading == Spec => []MessageIsOneReading
<1>1. TypeOK /\ FreshInv => MessageIsOneReading
  <2>. SUFFICES ASSUME TypeOK, FreshInv, ~(failures > 0) PROVE OneReading(sent)
    BY DEF MessageIsOneReading
  <2>1. failures = 0
    BY ServerConstants DEF TypeOK
  <2>. QED  BY <2>1 DEF FreshInv, TextInv
<1>. QED  BY <1>1, FreshInvariant, ServerTypes, PTL

(* And until then no message goes back to an older reading. *)
THEOREM MessagesNeverStepBack == Spec => NoStepBack
<1>1. TypeOK /\ ServerInv /\ FreshInv /\ [Next]_vars
        => [\/ failures > 0
            \/ \A a \in Numbers(sent), b \in Numbers(sent') : a.rd <= b.rd]_vars
  <2>. SUFFICES ASSUME TypeOK, ServerInv, FreshInv, [Next]_vars, ~(failures > 0) PROVE NeverBack
    BY DEF NeverBack
  <2>1. failures = 0
    BY ServerConstants DEF TypeOK
  <2>. QED  BY <2>1, StepKeepsText DEF FreshInv
<1>. QED  BY <1>1, FreshInvariant, ServerTypes, ServerInvariant, PTL DEF Spec, NoStepBack
=============================================================================
