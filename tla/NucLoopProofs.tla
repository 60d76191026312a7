---------------------------- MODULE NucLoopProofs ----------------------------
(* Theorems about the loop of the NUC, for every value of its constants:    *)
(* any number of fields, any buffer, both runtimes.                         *)
EXTENDS NucLoop, BoardTextProofs

Unaccepted == {"find", "open", "probe", "serve", "accept"}
Blanks == [f \in Fields |-> Blank]
MessageOf(m) == [f \in Fields |-> Unit(m, f)]

(* What connects the sensor, the buffer and the latest complete line.  Up  *)
(* to the first complete line the last field was never assigned and the    *)
(* buffer never written; from then on no field is ever zero again, so that *)
(* ByteSize stays N, whatever later lines left half assigned, and the      *)
(* buffer is exactly the message of the latest complete line.              *)
LoopInv ==
  /\ \/ /\ latest = R!Nothing
        /\ tcpBuffer = Blanks
        /\ sensor[N] = Zero
        /\ Len(sent) < N
     \/ /\ DOMAIN latest = Fields
        /\ \A f \in Fields : latest[f] # Zero
        /\ tcpBuffer = MessageOf(latest)
        /\ \A f \in Fields : sensor[f] # Zero
  /\ pc \in Unaccepted => peer = "none"

LEMMA FieldsNonEmpty == N \in Nat /\ N >= 1 /\ 1 \in Fields /\ N \in Fields
BY FrameAssumption DEF Fields

LEMMA LoopInvInit == Init => LoopInv
<1>. SUFFICES ASSUME Init PROVE LoopInv
  OBVIOUS
<1>1. latest = R!Nothing /\ sensor[N] = Zero /\ tcpBuffer = Blanks
  BY FieldsNonEmpty DEF Init, R!Nothing, R!Fields, R!Zero, Blanks, Zero, Fields
<1>2. Len(sent) < N /\ peer = "none"
  BY FieldsNonEmpty DEF Init
<1>. QED  BY <1>1, <1>2 DEF LoopInv

(* What SerializeToArray leaves in the buffer after a complete line. *)
LEMMA CompleteLine ==
  ASSUME NEW line, NEW zeros, IsComplete(line), DOMAIN tcpBuffer = Fields
  PROVE  LET m == Assigned(line, zeros)
         IN  /\ DOMAIN m = Fields
             /\ \A f \in Fields : m[f] # Zero
             /\ WithUnits(tcpBuffer, Serialize(m)) = MessageOf(m)
<1>. DEFINE m == Assigned(line, zeros)
<1>1. DOMAIN m = Fields
  BY DEF Assigned
<1>2. ASSUME NEW f \in Fields PROVE m[f] = NonZero(line, zeros, f)
  <2>1. \A g \in 1..f : IsNumber(line, g)
    BY FieldsNonEmpty DEF IsComplete, Fields
  <2>. QED  BY <2>1 DEF Assigned
<1>3. \A f \in Fields : NonZero(line, zeros, f) # Zero
  BY DEF NonZero, MinusOne, Parsed, Zero
<1>4. \A f \in Fields : m[f] # Zero
  BY <1>2, <1>3
<1>. HIDE DEF m
<1>5. Serialize(m) = [f \in Fields |-> Unit(m, f)]
  BY <1>4, WholeMessage
<1>6. WithUnits(tcpBuffer, Serialize(m)) = MessageOf(m)
  BY <1>5 DEF WithUnits, MessageOf
<1>. QED  BY <1>1, <1>4, <1>6 DEF m

(* A line that fails half way leaves what the sensor already had or gives  *)
(* it a number, and never reaches the last field.                          *)
LEMMA PartialLine ==
  ASSUME NEW line, NEW zeros, ~IsComplete(line)
  PROVE  LET m == Assigned(line, zeros)
         IN  /\ sensor[N] = Zero => m[N] = Zero
             /\ (\A f \in Fields : sensor[f] # Zero) => \A f \in Fields : m[f] # Zero
<1>. DEFINE m == Assigned(line, zeros)
<1>1. \A f \in Fields : m[f] = NonZero(line, zeros, f) \/ m[f] = sensor[f]
  BY DEF Assigned
<1>2. m[N] = sensor[N]
  <2>1. ~(\A g \in 1..N : IsNumber(line, g))
    BY DEF IsComplete, Fields
  <2>. QED  BY <2>1, FieldsNonEmpty DEF Assigned
<1>3. \A f \in Fields : NonZero(line, zeros, f) # Zero
  BY DEF NonZero, MinusOne, Parsed, Zero
<1>. HIDE DEF m
<1>. QED  BY <1>1, <1>2, <1>3 DEF m

(* What a send takes from the buffer. *)
LEMMA SentUnits ==
  ASSUME LoopInv
  PROVE  LET units == SubSeq(tcpBuffer, 1, ByteSize(sensor))
         IN  \/ /\ latest = R!Nothing
                /\ \E k \in 0..(N - 1) : units = [i \in 1..k |-> Blank]
                /\ Len(units) < N
             \/ /\ latest # R!Nothing
                /\ units = MessageOf(latest)
<1>1. CASE /\ latest = R!Nothing
           /\ tcpBuffer = Blanks
           /\ sensor[N] = Zero
  <2>. DEFINE k == ByteSize(sensor)
  <2>1. k \in 0..(N - 1)
    BY <1>1, FieldsNonEmpty, ShortMessage
  <2>. HIDE DEF k
  <2>2. SubSeq(tcpBuffer, 1, k) = [i \in 1..k |-> Blank]
    BY <1>1, <2>1, FieldsNonEmpty DEF Blanks, Fields
  <2>3. Len([i \in 1..k |-> Blank]) = k
    BY <2>1, FieldsNonEmpty
  <2>4. \E j \in 0..(N - 1) : SubSeq(tcpBuffer, 1, k) = [i \in 1..j |-> Blank]
    BY <2>1, <2>2
  <2>5. Len(SubSeq(tcpBuffer, 1, k)) < N
    BY <2>1, <2>2, <2>3, FieldsNonEmpty
  <2>. QED  BY <1>1, <2>4, <2>5 DEF k
<1>2. CASE /\ \A f \in Fields : latest[f] # Zero
           /\ tcpBuffer = MessageOf(latest)
           /\ \A f \in Fields : sensor[f] # Zero
  <2>1. ByteSize(sensor) = N
    BY <1>2, WholeMessage
  <2>2. latest # R!Nothing
    BY <1>2, FieldsNonEmpty DEF R!Nothing, R!Fields, R!Zero, Fields, Zero
  <2>3. SubSeq(MessageOf(latest), 1, N) = MessageOf(latest)
    BY FieldsNonEmpty DEF MessageOf, Fields
  <2>. QED  BY <1>2, <2>1, <2>2, <2>3
<1>. QED  BY <1>1, <1>2 DEF LoopInv

-----------------------------------------------------------------------------

LEMMA ParseKeepsLoopInv ==
  ASSUME LoopInv, ParseLine
  PROVE  LoopInv' /\ (latest' = latest \/ R!Learn)
<1>. DEFINE line == LineOf(buff1)
<1>1. PICK zeros : /\ sensor' = Assigned(line, zeros)
                   /\ IF IsComplete(line)
                      THEN /\ tcpBuffer' = WithUnits(tcpBuffer, Serialize(sensor'))
                           /\ latest' = sensor'
                      ELSE UNCHANGED <<tcpBuffer, latest>>
  BY DEF ParseLine
<1>2. UNCHANGED <<wire, peer, sent>> /\ pc' = "send"
  BY DEF ParseLine, client
<1>3. pc' \in Unaccepted => peer' = "none"
  BY <1>2 DEF Unaccepted
<1>4. DOMAIN tcpBuffer = Fields
  BY DEF LoopInv, Blanks, MessageOf
<1>. HIDE DEF line
<1>5. CASE IsComplete(line)
  <2>1. /\ DOMAIN latest' = Fields
        /\ \A f \in Fields : latest'[f] # Zero
        /\ tcpBuffer' = MessageOf(latest')
        /\ sensor' = latest'
    BY <1>1, <1>4, <1>5, CompleteLine
  <2>2. LoopInv'
    BY <1>3, <2>1 DEF LoopInv, MessageOf, Unit
  <2>3. R!Learn
    BY <1>2, <2>1 DEF R!Learn, R!Fields, R!Zero, Fields, Zero
  <2>. QED  BY <2>2, <2>3
<1>6. CASE ~IsComplete(line)
  <2>1. UNCHANGED <<tcpBuffer, latest, sent>>
    BY <1>1, <1>2, <1>6
  <2>2. sensor[N] = Zero => sensor'[N] = Zero
    BY <1>1, <1>6, PartialLine
  <2>3. (\A f \in Fields : sensor[f] # Zero) => \A f \in Fields : sensor'[f] # Zero
    BY <1>1, <1>6, PartialLine
  <2>4. LoopInv'
    BY <1>3, <2>1, <2>2, <2>3 DEF LoopInv, MessageOf, Unit
  <2>. QED  BY <2>1, <2>4
<1>. QED  BY <1>5, <1>6

LEMMA SendKeepsLoopInv ==
  ASSUME LoopInv, Send
  PROVE  LoopInv' /\ (UNCHANGED R!vars \/ R!Deliver \/ R!DeliverGarbage)
<1>. DEFINE units == SubSeq(tcpBuffer, 1, ByteSize(sensor))
<1>1. /\ UNCHANGED <<sensor, tcpBuffer, latest, peer>>
      /\ pc' = "loop"
      /\ \/ peer = "open" /\ wire' = wire \o units /\ sent' = units
         \/ UNCHANGED <<wire, sent>>
  BY DEF Send, Outgoing, message
<1>2. CASE UNCHANGED <<wire, sent>>
  <2>1. UNCHANGED R!vars
    BY <1>1, <1>2 DEF R!vars
  <2>2. LoopInv'
    BY <1>1, <1>2 DEF LoopInv, Unaccepted, MessageOf, Unit
  <2>. QED  BY <2>1, <2>2
<1>3. CASE peer = "open" /\ wire' = wire \o units /\ sent' = units
  <2>1. CASE /\ latest = R!Nothing
             /\ \E k \in 0..(N - 1) : units = [i \in 1..k |-> Blank]
             /\ Len(units) < N
    <3>1. PICK k \in 0..(N - 1) : units = [i \in 1..k |-> Blank]
      BY <2>1
    <3>. HIDE DEF units
    <3>2. R!DeliverGarbage
      BY <1>1, <1>3, <2>1, <3>1
         DEF R!DeliverGarbage, R!Blank, R!Zero, Blank, Zero
    <3>3. sent' = units /\ Len(sent') < N
      BY <1>3, <2>1
    <3>4. latest = R!Nothing /\ ~(\A f \in Fields : latest[f] # Zero)
      BY <2>1, FieldsNonEmpty DEF R!Nothing, R!Fields, R!Zero, Fields, Zero
    <3>5. LoopInv'
      BY <1>1, <3>3, <3>4 DEF LoopInv, Unaccepted
    <3>. QED  BY <3>2, <3>5
  <2>2. CASE latest # R!Nothing /\ units = MessageOf(latest)
    <3>1. R!Deliver
      BY <1>1, <1>3, <2>2
         DEF R!Deliver, R!Message, R!Unit, R!Fields, MessageOf, Unit, Fields
    <3>2. LoopInv'
      BY <1>1, <2>2 DEF LoopInv, Unaccepted, MessageOf, Unit
    <3>. QED  BY <3>1, <3>2
  <2>. QED  BY <2>1, <2>2, SentUnits
<1>. QED  BY <1>1, <1>2, <1>3

(* Every other step leaves what the invariant speaks of alone. *)
LEMMA OtherStepsKeepLoopInv ==
  ASSUME LoopInv, UNCHANGED <<sensor, tcpBuffer, latest, sent>>,
         pc' \in Unaccepted => peer' = "none"
  PROVE  LoopInv'
BY DEF LoopInv, MessageOf, Unit

(* One step of the program, of the board or of the client: the invariant   *)
(* carries over, and the relay takes a step of its own or none.            *)
LEMMA StepKeepsLoopInv ==
  ASSUME LoopInv, [Next]_vars
  PROVE  LoopInv' /\ [R!Next]_R!vars
<1>. USE DEF message, board, client, history
<1>1. CASE FindMyo \/ OpenPort \/ Probe \/ Serve
  <2>1. UNCHANGED <<sensor, tcpBuffer, latest, sent, wire, peer>> /\ peer = "none"
    BY <1>1 DEF FindMyo, OpenPort, Probe, Serve, LoopInv, Unaccepted
  <2>. QED  BY <2>1, OtherStepsKeepLoopInv DEF R!vars
<1>2. CASE Accept
  <2>1. UNCHANGED <<sensor, tcpBuffer, latest, sent, wire>> /\ peer = "none"
    BY <1>2 DEF Accept, LoopInv, Unaccepted
  <2>2. pc' \in {"loop", "exited"} /\ peer' \in {"open", peer}
    BY <1>2 DEF Accept
  <2>3. UNCHANGED R!vars \/ R!Connect
    BY <2>1, <2>2 DEF R!vars, R!Connect
  <2>. QED  BY <2>1, <2>2, <2>3, OtherStepsKeepLoopInv DEF R!Next, Unaccepted
<1>3. CASE HubFails \/ WriteCommand \/ ReadPort \/ NoLine
  <2>1. UNCHANGED <<sensor, tcpBuffer, latest, sent, wire, peer>>
    BY <1>3 DEF HubFails, WriteCommand, ReadPort, NoLine
  <2>2. pc' \in {"read", "parse", "loop", "exited"}
    BY <1>3 DEF HubFails, WriteCommand, ReadPort, NoLine
  <2>. QED  BY <2>1, <2>2, OtherStepsKeepLoopInv DEF R!vars, Unaccepted
<1>4. CASE ParseLine
  <2>1. UNCHANGED <<wire, peer>>
    BY <1>4 DEF ParseLine
  <2>. QED  BY <1>4, <2>1, ParseKeepsLoopInv DEF R!vars, R!Next
<1>5. CASE Send
  BY <1>5, SendKeepsLoopInv DEF R!vars, R!Next
<1>6. CASE PrintReading \/ PrintReply
  <2>1. UNCHANGED <<pc, sensor, tcpBuffer, latest, sent, wire, peer>>
    BY <1>6 DEF PrintReading, PrintReply
  <2>2. pc' \in Unaccepted => peer' = "none"
    BY <2>1 DEF LoopInv
  <2>. QED  BY <2>1, <2>2, OtherStepsKeepLoopInv DEF R!vars
<1>7. CASE ClientReceives \/ ClientCloses
  <2>1. UNCHANGED <<pc, sensor, tcpBuffer, latest, sent>> /\ peer = "open"
    BY <1>7 DEF ClientReceives, ClientCloses
  <2>2. pc' \notin Unaccepted
    BY <2>1 DEF LoopInv
  <2>3. R!Receive \/ R!Close
    BY <1>7 DEF ClientReceives, ClientCloses, R!Receive, R!Close
  <2>. QED  BY <2>1, <2>2, <2>3, OtherStepsKeepLoopInv DEF R!Next
<1>8. CASE UNCHANGED vars
  <2>1. UNCHANGED <<pc, sensor, tcpBuffer, latest, sent, wire, peer>>
    BY <1>8 DEF vars
  <2>2. pc' \in Unaccepted => peer' = "none"
    BY <2>1 DEF LoopInv
  <2>. QED  BY <2>1, <2>2, OtherStepsKeepLoopInv DEF R!vars
<1>. QED  BY <1>1, <1>2, <1>3, <1>4, <1>5, <1>6, <1>7, <1>8
          DEF Next, Startup, Loop, Board, Client

THEOREM LoopInvariant == Spec => []LoopInv
BY LoopInvInit, StepKeepsLoopInv, PTL DEF Spec

(* The program of the NUC implements the relay: the client receives the    *)
(* latest complete line and nothing else, once there is one.               *)
THEOREM NucImplementsRelay == Spec => ImplementsRelay
<1>1. Init => R!Init
  BY DEF Init, R!Init, R!Nothing, R!Fields, R!Zero, Fields, Zero
<1>2. LoopInv /\ [Next]_vars => [R!Next]_R!vars
  BY StepKeepsLoopInv
<1>. QED  BY <1>1, <1>2, LoopInvariant, PTL DEF Spec, R!Spec, ImplementsRelay

(* Before the first complete line a send is always short of a message. *)
THEOREM GarbageAlwaysShort == Spec => []GarbageIsShort
<1>1. LoopInv => GarbageIsShort
  <2>. SUFFICES ASSUME LoopInv, ~Primed PROVE Len(sent) < N /\ sensor[N] = Zero
    BY DEF GarbageIsShort
  <2>1. 1 \in Fields
    BY FieldsNonEmpty
  <2>2. tcpBuffer[1] = Blank
    BY DEF Primed
  <2>3. tcpBuffer # MessageOf(latest)
    BY <2>1, <2>2 DEF MessageOf, Unit, Blank
  <2>. QED  BY <2>3 DEF LoopInv
<1>. QED  BY <1>1, LoopInvariant, PTL

-----------------------------------------------------------------------------
(* Types. *)

LEMMA LoopConstants ==
  /\ N \in Nat /\ N >= 1 /\ BufCells \in Nat /\ BufCells >= 2 /\ MaxReadings \in Nat
  /\ MaxReplies \in Nat /\ MaxQueue \in Nat /\ Window \in Nat /\ Window >= N
BY FrameAssumption, TextAssumption, LoopAssumption

(* What std::unique keeps is a text, no longer and ordered like the old one: *)
(* of newlines that are adjacent the first is kept.                        *)
LEMMA UniqueOrdered ==
  ASSUME NEW text \in Seq(Cells)
  PROVE  /\ Unique(text) \in Seq(Cells) /\ Len(Unique(text)) <= Len(text)
         /\ Ordered(text) => Ordered(Unique(text)) /\ Rds(Unique(text)) \subseteq Rds(text)
<1>. DEFINE K == Kept(text)
            n == Len(text)
            c == Cardinality(K)
            t == Unique(text)
            p == [k \in 1..c |-> Nth(K, k)]
<1>1. n \in Nat
  OBVIOUS
<1>2. K \in SUBSET (0..n) /\ K \in SUBSET (1..n)
  BY <1>1 DEF Kept
<1>3. c \in Nat /\ c <= n
  <2>1. IsFiniteSet(1..n) /\ Cardinality(1..n) = n
    BY <1>1, FS_Interval
  <2>. HIDE DEF K
  <2>2. c <= n
    BY <1>2, <2>1, FS_Subset
  <2>. QED  BY <1>1, <1>2, <2>2, SetOfNumbers
<1>4. t = [k \in 1..c |-> text[Nth(K, k)]]
  BY DEF Unique
<1>5. /\ \A i \in K : i \in 1..n
      /\ \A i \in 1..n : i \notin K => i > 1 /\ text[i] = Newline /\ text[i - 1] = Newline
  BY DEF Kept
<1>. HIDE DEF K, n, t
<1>6. ASSUME NEW k \in 1..c PROVE Nth(K, k) \in K
  BY <1>1, <1>2, <1>6, NthOf
<1>7. ASSUME NEW k \in 1..c PROVE text[Nth(K, k)] \in Cells
  BY <1>5, <1>6 DEF n
<1>8. t \in Seq(Cells) /\ Len(t) = c
  <2>. HIDE DEF c
  <2>1. [k \in 1..c |-> text[Nth(K, k)]] \in [1..c -> Cells]
    BY <1>7
  <2>. QED  BY <1>3, <1>4, <2>1
<1>9. ASSUME NEW i \in 1..c, NEW j \in 1..c, i <= j PROVE p[i] <= p[j]
  <2>1. i \in Int /\ j \in Int /\ Nth(K, i) \in Int /\ Nth(K, j) \in Int
    BY <1>5, <1>6
  <2>2. i < j => Nth(K, i) < Nth(K, j)
    BY <1>1, <1>2, <1>9, NthInOrder
  <2>. QED  BY <1>9, <2>1, <2>2
(* A separator between two cells that stay has one that stays between them. *)
<1>10. ASSUME NEW i \in 1..c, NEW j \in 1..c, i <= j, NEW q \in K, p[i] <= q, q <= p[j]
       PROVE  \E k \in i..j : t[k] = text[q]
  <2>. DEFINE k == Counted(K, q)
  <2>1. k \in 1..c /\ Nth(K, k) = q
    BY <1>1, <1>2, EveryNth
  <2>. HIDE DEF k
  <2>2. Nth(K, i) \in Int /\ Nth(K, j) \in Int /\ q \in Int /\ i \in Int /\ j \in Int /\ k \in Int
    BY <1>5, <1>6, <2>1
  <2>3. k < i => Nth(K, k) < Nth(K, i)
    BY <1>1, <1>2, <2>1, NthInOrder
  <2>4. j < k => Nth(K, j) < Nth(K, k)
    BY <1>1, <1>2, <2>1, NthInOrder
  <2>5. k \in i..j
    BY <1>10, <2>1, <2>2, <2>3, <2>4
  <2>6. t[k] = text[q]
    BY <1>4, <2>1
  <2>. QED  BY <2>5, <2>6
<1>11. ASSUME NEW i \in 1..c, NEW j \in 1..c, i <= j
       PROVE  /\ Apart(text, Newline, p[i], p[j]) => Apart(t, Newline, i, j)
              /\ Apart(text, Comma, p[i], p[j]) => Apart(t, Comma, i, j)
  <2>1. p[i] \in K /\ p[j] \in K /\ p[i] \in 1..n /\ p[j] \in 1..n
    BY <1>5, <1>6
  <2>2. ASSUME Apart(text, Comma, p[i], p[j]) PROVE Apart(t, Comma, i, j)
    <3>1. PICK q \in p[i]..p[j] : text[q] = Comma
      BY <2>2 DEF Apart
    <3>2. q \in 1..n /\ p[i] <= q /\ q <= p[j]
      BY <1>1, <2>1, <3>1
    <3>3. q \in K
      BY <1>5, <3>1, <3>2 DEF Comma, Newline, Mark
    <3>. QED  BY <1>10, <1>11, <3>1, <3>2, <3>3 DEF Apart
  <2>3. ASSUME Apart(text, Newline, p[i], p[j]) PROVE Apart(t, Newline, i, j)
    <3>. DEFINE Q == {q \in p[i]..p[j] : text[q] = Newline}
    <3>1. Q # {} /\ Q \subseteq Nat
      BY <1>1, <2>1, <2>3 DEF Apart
    <3>2. PICK q \in Q : \A r \in Q : q <= r
      <4>. HIDE DEF Q
      <4>. QED  BY <3>1, LeastOf
    <3>3. q \in 1..n /\ p[i] <= q /\ q <= p[j] /\ text[q] = Newline
      BY <1>1, <2>1
    <3>4. q \in K
      <4>. SUFFICES ASSUME q \notin K PROVE FALSE
        OBVIOUS
      <4>1. text[q - 1] = Newline
        BY <1>5, <3>3
      <4>2. q # p[i]
        BY <2>1
      <4>3. q - 1 \in p[i]..p[j]
        BY <1>1, <2>1, <3>3, <4>2
      <4>4. q - 1 \in Q
        BY <4>1, <4>3
      <4>. QED  BY <1>1, <3>2, <3>3, <4>4
    <3>. QED  BY <1>10, <1>11, <3>3, <3>4 DEF Apart
  <2>. QED  BY <2>2, <2>3
<1>12. ASSUME Ordered(text)
       PROVE  Ordered(t) /\ Rds(t) \subseteq Rds(text)
  <2>1. p \in [1..Len(t) -> 1..Len(text)]
    BY <1>5, <1>6, <1>8 DEF n
  <2>2. \A i \in 1..Len(t) : t[i] = text[p[i]]
    BY <1>4, <1>8
  <2>. HIDE DEF p, c
  <2>. QED  BY <1>8, <1>9, <1>11, <1>12, <2>1, <2>2, Thinned
<1>. QED  BY <1>3, <1>8, <1>12 DEF t, n

(* The units on the wire are a sequence, of whatever values. *)
WireInv == \E S : wire \in Seq(S)

LEMMA LoopTypesInit == Init => TypeOK /\ WireInv
<1>. SUFFICES ASSUME Init PROVE TypeOK /\ WireInv
  OBVIOUS
<1>. USE DEF Init
<1>1. buff \in [1..BufCells -> Cells]
  BY DEF Cells
<1>2. /\ buff1 \in Seq(Cells) /\ Len(buff1) <= BufCells /\ rx \in Seq(Cells) /\ Len(rx) <= MaxQueue
      /\ Len(wire) <= Window /\ Len(sent) <= N /\ readings \in 0..MaxReadings
      /\ replies \in 0..MaxReplies
  BY LoopConstants
<1>3. \A f \in Fields : tcpBuffer[f].tag \in {0, f}
  BY DEF Blank
<1>4. WireInv
  <2>1. wire \in Seq({})
    OBVIOUS
  <2>. QED  BY <2>1 DEF WireInv
<1>5. DOMAIN sensor = Fields /\ DOMAIN latest = Fields /\ DOMAIN tcpBuffer = Fields
      /\ pc \in Locations /\ peer \in {"none", "open", "closed"}
  BY DEF Locations
<1>. QED  BY <1>1, <1>2, <1>3, <1>4, <1>5 DEF TypeOK

LEMMA ReadPortTypes ==
  ASSUME TypeOK, NEW b \in [1..BufCells -> Cells], NEW r \in Reads(rx),
         buff' = WithRead(b, r[1]), rx' = r[2]
  PROVE  /\ buff' \in [1..BufCells -> Cells]
         /\ rx' \in Seq(Cells) /\ Len(rx') <= MaxQueue
         /\ Unique(TextOf(buff')) \in Seq(Cells) /\ Len(Unique(TextOf(buff'))) <= BufCells
<1>1. rx \in Seq(Cells) /\ Len(rx) <= MaxQueue
  BY DEF TypeOK
<1>2. r[1] \in Seq(Cells) /\ r[2] \in Seq(Cells) /\ Len(r[2]) <= Len(rx)
  BY <1>1, ReadTypes
<1>3. buff' \in [1..BufCells -> Cells]
  BY <1>2, ReadIntoBuffer
<1>4. Len(rx') <= MaxQueue
  <2>1. Len(rx) \in Nat /\ Len(r[2]) \in Nat
    BY <1>1, <1>2
  <2>. QED  BY <1>1, <1>2, <2>1, LoopConstants
<1>5. TextOf(buff') \in Seq(Cells) /\ Len(TextOf(buff')) <= BufCells
  BY <1>3, BufferIsText DEF Texts
<1>6. /\ Unique(TextOf(buff')) \in Seq(Cells)
      /\ Len(Unique(TextOf(buff'))) <= Len(TextOf(buff'))
  BY <1>5, UniqueOrdered
<1>7. Len(Unique(TextOf(buff'))) <= BufCells
  <2>1. Len(Unique(TextOf(buff'))) \in Nat /\ Len(TextOf(buff')) \in Nat
    BY <1>5, <1>6
  <2>. QED  BY <1>5, <1>6, <2>1, LoopConstants
<1>. QED  BY <1>2, <1>3, <1>4, <1>6, <1>7

LEMMA CommandTypes ==
  ASSUME TypeOK
  PROVE  WithCommand(buff) \in [1..BufCells -> Cells]
<1>1. Cmd \in Cells /\ Nul \in Cells /\ Junk \in Cells
  BY DEF Cells
<1>2. \A i \in 1..BufCells : buff[i] \in Cells
  BY DEF TypeOK
<1>. QED  BY <1>1, <1>2 DEF WithCommand

LEMMA SendTypes ==
  ASSUME TypeOK, WireInv, Send
  PROVE  WireInv' /\ Len(wire') <= Window /\ Len(sent') <= N
<1>. DEFINE U == {tcpBuffer[f] : f \in Fields}
<1>1. \/ wire' = wire \o Outgoing /\ sent' = Outgoing
         /\ (peer = "open" /\ CanSend(Outgoing))
      \/ UNCHANGED <<wire, sent>>
  BY DEF Send
<1>2. ByteSize(sensor) \in 0..N /\ N \in Nat
  BY AnyMessage, FrameAssumption
<1>3. Outgoing \in Seq(U) /\ Len(Outgoing) = ByteSize(sensor)
  BY <1>2, FrontOfMessage DEF Outgoing
<1>. HIDE DEF U
<1>4. PICK S : wire \in Seq(S)
  BY DEF WireInv
<1>5. wire \in Seq(S \cup U) /\ Outgoing \in Seq(S \cup U)
  BY <1>3, <1>4, SeqMonotonic
<1>6. wire \o Outgoing \in Seq(S \cup U) /\ Len(wire \o Outgoing) = Len(wire) + Len(Outgoing)
  BY <1>5, ConcatProperties
<1>7. CASE UNCHANGED <<wire, sent>>
  BY <1>7 DEF WireInv, TypeOK
<1>8. CASE wire' = wire \o Outgoing /\ sent' = Outgoing /\ peer = "open" /\ CanSend(Outgoing)
  <2>1. WireInv'
    BY <1>6, <1>8 DEF WireInv
  <2>2. Len(wire') <= Window
    BY <1>6, <1>8 DEF CanSend
  <2>3. Len(sent') <= N
    BY <1>2, <1>3, <1>8
  <2>. QED  BY <2>1, <2>2, <2>3
<1>. QED  BY <1>1, <1>7, <1>8

LEMMA PrintTypes ==
  ASSUME TypeOK, NEW t \in Seq(Cells), Len(rx) + Len(t) <= MaxQueue
  PROVE  rx \o t \in Seq(Cells) /\ Len(rx \o t) <= MaxQueue
<1>1. rx \o t \in Seq(Cells) /\ Len(rx \o t) = Len(rx) + Len(t)
  BY ConcatProperties DEF TypeOK
<1>. QED  BY <1>1

LEMMA LoopTypesNext ==
  ASSUME TypeOK, WireInv, LoopInv', [Next]_vars
  PROVE  TypeOK' /\ WireInv'
<1>. USE DEF message, board, client, history
<1>1. CASE FindMyo \/ Serve \/ Accept \/ HubFails
  <2>1. pc' \in {"open", "exited", "accept", "loop"} /\ peer' \in {"none", "open", "closed"}
    BY <1>1 DEF FindMyo, Serve, Accept, HubFails, TypeOK
  <2>2. UNCHANGED <<timed, buff, buff1, sensor, tcpBuffer, board, wire, history>>
    BY <1>1 DEF FindMyo, Serve, Accept, HubFails
  <2>. QED  BY <2>1, <2>2 DEF TypeOK, WireInv, Locations
<1>2. CASE OpenPort
  <2>1. /\ pc' \in {"probe", "exited"} /\ rx' = <<>> /\ timed' \in BOOLEAN
        /\ UNCHANGED <<buff, buff1, message, readings, replies, client, history>>
    BY <1>2 DEF OpenPort, TypeOK
  <2>2. rx' \in Seq(Cells) /\ Len(rx') <= MaxQueue
    BY <2>1, LoopConstants
  <2>. QED  BY <2>1, <2>2 DEF TypeOK, WireInv, Locations
<1>3. CASE Probe
  <2>1. PICK r \in Reads(rx) : buff' = WithRead(WithCommand(buff), r[1]) /\ rx' = r[2]
    BY <1>3 DEF Probe
  <2>2. pc' = "serve" /\ UNCHANGED <<timed, buff1, message, readings, replies, client, history>>
    BY <1>3 DEF Probe
  <2>3. /\ buff' \in [1..BufCells -> Cells]
        /\ rx' \in Seq(Cells) /\ Len(rx') <= MaxQueue
    BY <2>1, CommandTypes, ReadPortTypes
  <2>. QED  BY <2>2, <2>3 DEF TypeOK, WireInv, Locations
<1>4. CASE WriteCommand
  <2>1. /\ pc' = "read" /\ buff' = WithCommand(buff)
        /\ UNCHANGED <<timed, buff1, message, board, client, history>>
    BY <1>4 DEF WriteCommand
  <2>. QED  BY <2>1, CommandTypes DEF TypeOK, WireInv, Locations
<1>5. CASE ReadPort
  <2>1. PICK r \in Reads(rx) :
          buff' = WithRead(buff, r[1]) /\ buff1' = Unique(TextOf(buff')) /\ rx' = r[2]
    BY <1>5 DEF ReadPort
  <2>2. pc' = "parse" /\ UNCHANGED <<timed, message, readings, replies, client, history>>
    BY <1>5 DEF ReadPort
  <2>3. buff \in [1..BufCells -> Cells]
    BY DEF TypeOK
  <2>4. /\ buff' \in [1..BufCells -> Cells]
        /\ rx' \in Seq(Cells) /\ Len(rx') <= MaxQueue
        /\ buff1' \in Seq(Cells) /\ Len(buff1') <= BufCells
    BY <2>1, <2>3, ReadPortTypes
  <2>. QED  BY <2>2, <2>4 DEF TypeOK, WireInv, Locations
<1>6. CASE NoLine
  <2>1. pc' = "loop" /\ buff1' = <<>> /\ UNCHANGED <<timed, buff, message, board, client, history>>
    BY <1>6 DEF NoLine
  <2>2. buff1' \in Seq(Cells) /\ Len(buff1') <= BufCells
    BY <2>1, LoopConstants
  <2>. QED  BY <2>1, <2>2 DEF TypeOK, WireInv, Locations
<1>7. CASE ParseLine
  <2>1. pc' = "send" /\ buff1' = <<>> /\ UNCHANGED <<timed, buff, board, client, sent>>
    BY <1>7 DEF ParseLine
  <2>2. DOMAIN sensor' = Fields /\ (latest' = sensor' \/ latest' = latest)
    BY <1>7 DEF ParseLine, Assigned
  <2>3. buff1' \in Seq(Cells) /\ Len(buff1') <= BufCells
    BY <2>1, LoopConstants
  <2>4. DOMAIN tcpBuffer' = Fields /\ \A f \in Fields : tcpBuffer'[f].tag \in {0, f}
    <3>1. CASE tcpBuffer' = Blanks
      BY <3>1 DEF Blanks, Blank
    <3>2. CASE tcpBuffer' = MessageOf(latest')
      BY <3>2 DEF MessageOf, Unit
    <3>. QED  BY <3>1, <3>2 DEF LoopInv, MessageOf, Unit
  <2>. QED  BY <2>1, <2>2, <2>3, <2>4 DEF TypeOK, WireInv, Locations
<1>8. CASE Send
  <2>1. pc' = "loop" /\ UNCHANGED <<timed, buff, buff1, message, board, peer, latest>>
    BY <1>8 DEF Send
  <2>. QED  BY <1>8, <2>1, SendTypes DEF TypeOK, Locations
<1>9. CASE PrintReading
  <2>1. /\ readings' = readings + 1 /\ readings < MaxReadings
        /\ rx' = rx \o ReadingLine(readings + 1) /\ Len(rx) + 2 * N <= MaxQueue
        /\ UNCHANGED <<pc, timed, buff, buff1, message, replies, client, history>>
    BY <1>9 DEF PrintReading
  <2>2. readings + 1 \in 1..MaxReadings /\ readings' \in 0..MaxReadings
    BY <2>1, LoopConstants DEF TypeOK
  <2>3. ReadingLine(readings + 1) \in Seq(Cells) /\ Len(ReadingLine(readings + 1)) = 2 * N
    BY <2>2, ReadingIsText
  <2>4. rx' \in Seq(Cells) /\ Len(rx') <= MaxQueue
    BY <2>1, <2>3, PrintTypes
  <2>. QED  BY <2>1, <2>2, <2>4 DEF TypeOK, WireInv
<1>10. CASE PrintReply
  <2>1. /\ replies' = replies + 1 /\ replies < MaxReplies
        /\ rx' = rx \o ReplyLine /\ Len(rx) + Len(ReplyLine) <= MaxQueue
        /\ UNCHANGED <<pc, timed, buff, buff1, message, readings, client, history>>
    BY <1>10 DEF PrintReply
  <2>2. replies' \in 0..MaxReplies
    BY <2>1, LoopConstants DEF TypeOK
  <2>3. rx' \in Seq(Cells) /\ Len(rx') <= MaxQueue
    BY <2>1, ReplyOrdered, PrintTypes
  <2>. QED  BY <2>1, <2>2, <2>3 DEF TypeOK, WireInv
<1>11. CASE ClientReceives
  <2>1. PICK k \in 1..Len(wire) : wire' = SubSeq(wire, k + 1, Len(wire))
    BY <1>11 DEF ClientReceives
  <2>2. UNCHANGED <<pc, timed, buff, buff1, message, board, peer, history>>
    BY <1>11 DEF ClientReceives
  <2>3. PICK S : wire \in Seq(S)
    BY DEF WireInv
  <2>4. wire' \in Seq(S) /\ Len(wire') = Len(wire) - k
    BY <2>1, <2>3
  <2>5. Len(wire') <= Window
    <3>1. Len(wire) \in Nat /\ Len(wire) <= Window
      BY <2>3 DEF TypeOK
    <3>. QED  BY <2>4, <3>1, LoopConstants
  <2>. QED  BY <2>2, <2>4, <2>5 DEF TypeOK, WireInv
<1>12. CASE ClientCloses
  <2>1. wire' = <<>> /\ peer' = "closed"
        /\ UNCHANGED <<pc, timed, buff, buff1, message, board, history>>
    BY <1>12 DEF ClientCloses
  <2>2. wire' \in Seq({}) /\ Len(wire') <= Window
    BY <2>1, LoopConstants
  <2>. QED  BY <2>1, <2>2 DEF TypeOK, WireInv
<1>13. CASE UNCHANGED vars
  BY <1>13 DEF vars, TypeOK, WireInv
<1>. QED
  BY <1>1, <1>2, <1>3, <1>4, <1>5, <1>6, <1>7, <1>8, <1>9, <1>10, <1>11, <1>12, <1>13
     DEF Next, Startup, Loop, Board, Client

(* The program's state keeps its types, in either runtime: however its     *)
(* reads cut the text, what it parses fits its buffer, its message holds   *)
(* the tag of each unit at its place, and no send is longer than N units.  *)
THEOREM LoopTypes == Spec => []TypeOK
<1>1. LoopInv /\ TypeOK /\ WireInv /\ [Next]_vars => (TypeOK /\ WireInv)'
  BY StepKeepsLoopInv, LoopTypesNext
<1>. QED  BY <1>1, LoopTypesInit, LoopInvariant, PTL DEF Spec

-----------------------------------------------------------------------------
(* One reading.  With the debug runtime the text on its way from the board *)
(* to the message is in the order in which it was printed, at every place. *)

(* The readings of the last message sent. *)
SentRds == {a.rd : a \in Numbers(sent)}

TextInv ==
  /\ Ordered(rx) /\ (rx # <<>> => rx[Len(rx)] = Newline)
  /\ Ordered(buff1)
  /\ pc = "read" => \A i \in 1..BufCells : ~IsNum(buff[i])
  /\ InOrder(latest)
  /\ OneReading(sent)
  /\ Chain(SentRds, CarriedRds(latest), Rds(buff1), Rds(rx), readings)

LEMMA TextInvInit == Init => TextInv
<1>. SUFFICES ASSUME Init PROVE TextInv
  OBVIOUS
<1>1. rx = <<>> /\ buff1 = <<>> /\ pc = "find" /\ sent = <<>> /\ readings = 0
      /\ latest = [f \in Fields |-> Zero]
  BY DEF Init
<1>2. \A f \in DOMAIN latest : Carried(latest[f]) = {}
  BY <1>1 DEF Carried, Zero
<1>3. InOrder(latest) /\ CarriedRds(latest) = {}
  BY <1>2 DEF InOrder, CarriedRds
<1>4. OneReading(sent) /\ SentRds = {}
  <2>1. DOMAIN sent = {}
    BY <1>1
  <2>2. Numbers(sent) = {}
    BY <2>1 DEF Numbers
  <2>. QED  BY <2>1, <2>2 DEF OneReading, SentRds
<1>5. Ordered(rx) /\ Rds(rx) = {} /\ Ordered(buff1) /\ Rds(buff1) = {}
  BY <1>1, EmptyText
<1>. QED  BY <1>1, <1>3, <1>4, <1>5 DEF TextInv, Chain, Before

(* The line that is parsed is a part of the text, without a newline. *)
LEMMA ParsedLine ==
  ASSUME NEW text \in Seq(Cells), Ordered(text)
  PROVE  LET line == LineOf(text)
         IN  /\ line \in Seq(Cells) /\ Ordered(line) /\ Rds(line) \subseteq Rds(text)
             /\ \A i \in 1..Len(line) : line[i] # Newline
<1>1. /\ FirstLine(text) \in Seq(Cells) /\ Ordered(FirstLine(text))
      /\ Rds(FirstLine(text)) \subseteq Rds(text)
      /\ \A i \in 1..Len(FirstLine(text)) : FirstLine(text)[i] # Newline
      /\ AfterFirst(text) \in Seq(Cells) /\ Ordered(AfterFirst(text))
      /\ Rds(AfterFirst(text)) \subseteq Rds(text)
  BY FirstLineOrdered
<1>. DEFINE rest == AfterFirst(text)
<1>. HIDE DEF rest
<1>2. /\ FirstLine(rest) \in Seq(Cells) /\ Ordered(FirstLine(rest))
      /\ Rds(FirstLine(rest)) \subseteq Rds(rest)
      /\ \A i \in 1..Len(FirstLine(rest)) : FirstLine(rest)[i] # Newline
  BY <1>1, FirstLineOrdered DEF rest
<1>3. CASE LineOf(text) = FirstLine(text)
  BY <1>1, <1>3
<1>4. CASE LineOf(text) = FirstLine(rest)
  BY <1>1, <1>2, <1>4 DEF rest
<1>. QED  BY <1>3, <1>4 DEF LineOf, rest

LEMMA ParseKeepsText ==
  ASSUME TypeOK, TextInv, ParseLine
  PROVE  TextInv'
<1>. DEFINE line == LineOf(buff1)
<1>1. /\ pc' = "send" /\ buff1' = <<>>
      /\ UNCHANGED <<buff, rx, readings, sent>>
  BY DEF ParseLine, board
<1>2. buff1 \in Seq(Cells) /\ Ordered(buff1)
  BY DEF TypeOK, TextInv
<1>3. /\ line \in Seq(Cells) /\ Ordered(line) /\ Rds(line) \subseteq Rds(buff1)
      /\ \A i \in 1..Len(line) : line[i] # Newline
  BY <1>2, ParsedLine
<1>4. \/ InOrder(latest') /\ CarriedRds(latest') \subseteq Rds(buff1)
      \/ latest' = latest
  <2>1. PICK zeros : /\ sensor' = Assigned(line, zeros)
                     /\ IF IsComplete(line) THEN latest' = sensor' ELSE UNCHANGED latest
    BY DEF ParseLine
  <2>2. CASE IsComplete(line)
    <3>. HIDE DEF line
    <3>1. ASSUME NEW f \in Fields, NEW g \in 1..f PROVE IsNumber(line, g)
      BY <2>2, FieldsNonEmpty DEF IsComplete, Fields
    <3>2. latest' = [f \in Fields |-> NonZero(line, zeros, f)]
      BY <2>1, <2>2, <3>1 DEF Assigned
    <3>3. DOMAIN latest' = Fields
      BY <3>2
    <3>4. \A f \in Fields : \/ latest'[f] = Zero \/ latest'[f] = MinusOne
                            \/ latest'[f] = Parsed(Digits(PieceOf(line, f)))
      BY <3>2 DEF NonZero
    <3>. QED  BY <1>3, <3>3, <3>4, LineValues
  <2>3. CASE ~IsComplete(line)
    BY <2>1, <2>3
  <2>. QED  BY <2>2, <2>3
<1>5. Ordered(buff1') /\ Rds(buff1') = {}
  BY <1>1, EmptyText
<1>6. SentRds' = SentRds
  BY <1>1 DEF SentRds
<1>7. InOrder(latest')
  BY <1>4 DEF TextInv
<1>8. Chain(SentRds, CarriedRds(latest'), {}, Rds(rx), readings)
  BY <1>4 DEF TextInv, Chain, Before
<1>. QED  BY <1>1, <1>5, <1>6, <1>7, <1>8 DEF TextInv

LEMMA ReadKeepsText ==
  ASSUME DebugFill, TypeOK, TextInv, ReadPort
  PROVE  TextInv'
<1>1. PICK r \in Reads(rx) :
        buff' = WithRead(buff, r[1]) /\ buff1' = Unique(TextOf(buff')) /\ rx' = r[2]
  BY DEF ReadPort
<1>2. pc = "read" /\ pc' = "parse" /\ UNCHANGED <<readings, latest, sent>>
  BY DEF ReadPort, history
<1>3. /\ rx \in Seq(Cells) /\ Ordered(rx) /\ (rx # <<>> => rx[Len(rx)] = Newline)
      /\ buff \in [1..BufCells -> Cells] /\ \A i \in 1..BufCells : ~IsNum(buff[i])
  BY <1>2 DEF TypeOK, TextInv
<1>4. /\ Ordered(r[1]) /\ Rds(r[1]) \subseteq Rds(rx)
      /\ Ordered(r[2]) /\ Rds(r[2]) \subseteq Rds(rx)
      /\ Before(Rds(r[1]), Rds(r[2]))
      /\ r[2] # <<>> => r[2][Len(r[2])] = Newline
  BY <1>3, ReadOrdered
<1>5. r[1] \in Seq(Cells)
  BY <1>3, ReadTypes
<1>6. /\ buff' \in [1..BufCells -> Cells]
      /\ \A i \in 1..BufCells : buff'[i] = IF i <= Len(r[1]) THEN r[1][i] ELSE buff[i]
  BY <1>1, <1>3, <1>5, ReadIntoBuffer
<1>. DEFINE t == TextOf(buff')
<1>. HIDE DEF t
<1>7. /\ t \in Seq(Cells) /\ Len(t) \in Nat
      /\ \A i \in 1..Len(t) : i \in 1..BufCells /\ t[i] = buff'[i]
  <2>1. /\ t \in Texts(BufCells)
        /\ \A i \in 1..Len(t) : i \in 1..BufCells /\ t[i] = buff'[i]
    <3>1. \A b \in [1..BufCells -> Cells] :
            /\ TextOf(b) \in Texts(BufCells)
            /\ \A i \in 1..Len(TextOf(b)) : i \in 1..BufCells /\ TextOf(b)[i] = b[i]
      BY BufferIsText
    <3>. QED  BY <1>6, <3>1, Zenon DEF t
  <2>2. t \in Seq(Cells)
    BY <2>1 DEF Texts
  <2>. QED  BY <2>1, <2>2
<1>8. \A i \in 1..Len(t) : IF i <= Len(r[1]) THEN t[i] = r[1][i] ELSE ~IsNum(t[i])
  BY <1>3, <1>6, <1>7
<1>9. Ordered(t) /\ Rds(t) \subseteq Rds(r[1])
  BY <1>4, <1>5, <1>7, <1>8, FreshTextOrdered
<1>10. Ordered(buff1') /\ Rds(buff1') \subseteq Rds(r[1])
  BY <1>1, <1>7, <1>9, UniqueOrdered DEF t
<1>11. SentRds' = SentRds
  BY <1>2 DEF SentRds
<1>12. Chain(SentRds, CarriedRds(latest), Rds(buff1'), Rds(rx'), readings)
  <2>1. Rds(buff1') \subseteq Rds(rx) /\ Rds(rx') \subseteq Rds(rx)
    BY <1>1, <1>4, <1>10
  <2>2. Before(Rds(buff1'), Rds(rx'))
    BY <1>1, <1>4, <1>10 DEF Before
  <2>. QED  BY <2>1, <2>2 DEF TextInv, Chain, Before
<1>. QED  BY <1>1, <1>2, <1>4, <1>10, <1>11, <1>12 DEF TextInv

(* What a send takes out of the buffer is the latest line or nothing the   *)
(* board has printed.                                                      *)
LEMMA SendKeepsText ==
  ASSUME TypeOK, LoopInv, TextInv, Send
  PROVE  /\ TextInv'
         /\ \A a \in Numbers(sent), b \in Numbers(sent') : a.rd <= b.rd
<1>1. pc' = "loop" /\ UNCHANGED <<buff, buff1, rx, readings, latest>>
      /\ (sent' = Outgoing \/ sent' = sent)
  BY DEF Send, board
<1>2. /\ OneReading(Outgoing)
      /\ \A a \in Numbers(Outgoing) : a.rd \in CarriedRds(latest)
  <2>1. CASE \E k \in 0..(N - 1) : Outgoing = [i \in 1..k |-> Blank]
    <3>1. PICK k \in 0..(N - 1) : Outgoing = [i \in 1..k |-> Blank]
      BY <2>1
    <3>2. \A i \in DOMAIN Outgoing : Outgoing[i].val = Zero
      BY <3>1 DEF Blank
    <3>3. Carried(Zero) = {}
      BY DEF Carried, Zero
    <3>. HIDE DEF Outgoing
    <3>4. \A i \in DOMAIN Outgoing : Numbers(<<Outgoing[i]>>) = {}
      BY <3>2, <3>3, NumbersOfUnits
    <3>5. Numbers(Outgoing) = {}
      BY <3>2, <3>3, NumbersOfUnits
    <3>. QED  BY <3>4, <3>5 DEF OneReading
  <2>2. CASE Outgoing = MessageOf(latest)
    <3>. DEFINE g == [f \in Fields |-> f]
    <3>1. DOMAIN Outgoing = Fields /\ DOMAIN latest = Fields
      BY <2>2 DEF MessageOf, TypeOK
    <3>2. \A f \in Fields : Outgoing[f].val = latest[g[f]]
      BY <2>2 DEF MessageOf, Unit
    <3>3. g \in [DOMAIN Outgoing -> DOMAIN latest]
      BY <3>1
    <3>4. \A i, j \in DOMAIN Outgoing : i <= j => g[i] <= g[j]
      BY <3>1
    <3>5. InOrder(latest)
      BY DEF TextInv
    <3>. HIDE DEF g, Outgoing
    <3>. QED  BY <3>1, <3>2, <3>3, <3>4, <3>5, CarriedInOrder
  <2>. QED  BY <2>1, <2>2, SentUnits DEF Outgoing
<1>. HIDE DEF Outgoing
<1>3. OneReading(sent')
  BY <1>1, <1>2 DEF TextInv
<1>4. SentRds' = SentRds \/ SentRds' \subseteq CarriedRds(latest)
  BY <1>1, <1>2 DEF SentRds
<1>5. Chain(SentRds', CarriedRds(latest), Rds(buff1), Rds(rx), readings)
  <2>1. Chain(SentRds, CarriedRds(latest), Rds(buff1), Rds(rx), readings)
    BY DEF TextInv
  <2>2. ASSUME NEW x \in CarriedRds(latest), NEW y \in CarriedRds(latest) PROVE x <= y
    <3>1. x = y
      BY DEF TextInv, InOrder, CarriedRds
    <3>2. x \in Nat
      BY <2>1 DEF Chain
    <3>. QED  BY <3>1, <3>2
  <2>3. CASE SentRds' = SentRds
    BY <2>1, <2>3
  <2>4. CASE SentRds' \subseteq CarriedRds(latest)
    BY <2>1, <2>2, <2>4 DEF Chain, Before
  <2>. QED  BY <1>4, <2>3, <2>4
<1>6. TextInv'
  BY <1>1, <1>3, <1>5 DEF TextInv
<1>7. ASSUME NEW a \in Numbers(sent), NEW b \in Numbers(sent') PROVE a.rd <= b.rd
  <2>1. a.rd \in SentRds /\ a.rd \in Nat
    BY DEF SentRds, TextInv, Chain
  <2>2. CASE sent' = sent
    <3>1. OneReading(sent)
      BY DEF TextInv
    <3>2. a.rd = b.rd
      BY <2>2, <3>1, OneRd
    <3>. QED  BY <2>1, <3>2
  <2>3. CASE sent' = Outgoing
    <3>1. b.rd \in CarriedRds(latest)
      BY <1>2, <2>3
    <3>. QED  BY <2>1, <3>1 DEF TextInv, Chain, Before
  <2>. QED  BY <1>1, <2>2, <2>3
<1>. QED  BY <1>6, <1>7

(* The board appends a whole line of a new reading, or its answer. *)
LEMMA PrintKeepsText ==
  ASSUME TypeOK, TextInv, PrintReading \/ PrintReply
  PROVE  TextInv'
<1>1. UNCHANGED <<pc, buff, buff1, latest, sent>>
  BY DEF PrintReading, PrintReply, history
<1>2. /\ rx \in Seq(Cells) /\ Ordered(rx) /\ (rx # <<>> => rx[Len(rx)] = Newline)
      /\ readings \in Nat
  BY LoopConstants DEF TypeOK, TextInv
<1>3. Chain(SentRds, CarriedRds(latest), Rds(buff1), Rds(rx), readings)
  BY DEF TextInv
<1>4. SentRds' = SentRds
  BY <1>1 DEF SentRds
<1>5. CASE PrintReading
  <2>. DEFINE r == readings + 1
              t == ReadingLine(r)
  <2>1. rx' = rx \o t /\ readings' = r /\ readings < MaxReadings
    BY <1>5 DEF PrintReading
  <2>2. r \in 1..MaxReadings /\ r \in Nat /\ readings < r
    BY <1>2, <2>1, LoopConstants
  <2>. HIDE DEF r
  <2>3. t \in Seq(Cells) /\ Ordered(t) /\ t # <<>> /\ t[Len(t)] = Newline /\ Rds(t) \subseteq {r}
    BY <2>2, ReadingOrdered
  <2>. HIDE DEF t
  <2>4. \A x \in SentRds \cup CarriedRds(latest) \cup Rds(buff1) \cup Rds(rx) : x \in Nat /\ x <= r
    BY <1>2, <1>3, <2>2 DEF Chain
  <2>5. Before(Rds(rx), Rds(t))
    BY <2>3, <2>4 DEF Before
  <2>6. /\ Ordered(rx') /\ rx'[Len(rx')] = Newline
        /\ Rds(rx') \subseteq Rds(rx) \cup Rds(t)
    BY <1>2, <2>1, <2>3, <2>5, ConcatOrdered
  <2>7. Chain(SentRds, CarriedRds(latest), Rds(buff1), Rds(rx'), r)
    <3>1. \A x \in Rds(rx') : x \in Rds(rx) \/ x = r
      BY <2>3, <2>6
    <3>2. r <= r
      BY <2>2
    <3>. QED  BY <1>3, <2>2, <2>4, <3>1, <3>2 DEF Chain, Before
  <2>. QED  BY <1>1, <1>4, <2>1, <2>6, <2>7 DEF TextInv
<1>6. CASE PrintReply
  <2>1. rx' = rx \o ReplyLine /\ readings' = readings
    BY <1>6 DEF PrintReply
  <2>2. Before(Rds(rx), Rds(ReplyLine))
    BY ReplyOrdered DEF Before
  <2>3. /\ Ordered(rx') /\ rx'[Len(rx')] = Newline
        /\ Rds(rx') \subseteq Rds(rx) \cup Rds(ReplyLine)
    BY <1>2, <2>1, <2>2, ReplyOrdered, ConcatOrdered
  <2>4. Rds(rx') \subseteq Rds(rx)
    BY <2>3, ReplyOrdered
  <2>5. Chain(SentRds, CarriedRds(latest), Rds(buff1), Rds(rx'), readings)
    BY <1>3, <2>4 DEF Chain, Before
  <2>. QED  BY <1>1, <1>4, <2>1, <2>3, <2>5 DEF TextInv
<1>. QED  BY <1>5, <1>6

LEMMA StepKeepsText ==
  ASSUME DebugFill, TypeOK, LoopInv, TextInv, [Next]_vars
  PROVE  /\ TextInv'
         /\ \A a \in Numbers(sent), b \in Numbers(sent') : a.rd <= b.rd
<1>. USE DEF message, board, client, history
<1>1. ASSUME sent' = sent
      PROVE  \A a \in Numbers(sent), b \in Numbers(sent') : a.rd <= b.rd
  <2>1. ASSUME NEW a \in Numbers(sent), NEW b \in Numbers(sent) PROVE a.rd <= b.rd
    <3>1. OneReading(sent)
      BY DEF TextInv
    <3>2. a.rd = b.rd
      BY <3>1, OneRd
    <3>3. a.rd \in Nat
      BY DEF TextInv, Chain, SentRds
    <3>. QED  BY <3>2, <3>3
  <2>. QED  BY <1>1, <2>1
<1>2. CASE FindMyo \/ Serve \/ Accept \/ HubFails \/ ClientReceives \/ ClientCloses
           \/ UNCHANGED vars
  <2>1. UNCHANGED <<buff, buff1, rx, readings, latest, sent>> /\ (pc' = pc \/ pc' # "read")
    BY <1>2 DEF FindMyo, Serve, Accept, HubFails, ClientReceives, ClientCloses, vars
  <2>2. TextInv'
    BY <2>1 DEF TextInv, SentRds
  <2>. QED  BY <1>1, <2>1, <2>2
<1>3. CASE OpenPort \/ Probe
  <2>1. UNCHANGED <<buff1, readings, latest, sent>> /\ pc' # "read"
        /\ (rx' = <<>> \/ \E r \in Reads(rx) : rx' = r[2])
    BY <1>3 DEF OpenPort, Probe
  <2>2. rx \in Seq(Cells) /\ Ordered(rx) /\ (rx # <<>> => rx[Len(rx)] = Newline)
    BY DEF TypeOK, TextInv
  <2>3. Ordered(rx') /\ (rx' # <<>> => rx'[Len(rx')] = Newline) /\ Rds(rx') \subseteq Rds(rx)
    BY <2>1, <2>2, ReadOrdered, EmptyText
  <2>4. Chain(SentRds, CarriedRds(latest), Rds(buff1), Rds(rx'), readings)
    BY <2>3 DEF TextInv, Chain, Before
  <2>5. TextInv'
    BY <2>1, <2>3, <2>4 DEF TextInv, SentRds
  <2>. QED  BY <1>1, <2>1, <2>5
<1>4. CASE WriteCommand
  <2>1. buff' = WithCommand(buff) /\ UNCHANGED <<buff1, rx, readings, latest, sent>>
    BY <1>4 DEF WriteCommand
  <2>2. \A i \in 1..BufCells : ~IsNum(buff'[i])
    <3>1. ~IsNum(Cmd) /\ ~IsNum(Nul) /\ ~IsNum(Junk)
      BY DEF IsNum, Cmd, Nul, Junk, Mark
    <3>. QED  BY <2>1, <3>1 DEF WithCommand
  <2>3. TextInv'
    BY <2>1, <2>2 DEF TextInv, SentRds
  <2>. QED  BY <1>1, <2>1, <2>3
<1>5. CASE ReadPort
  BY <1>1, <1>5, ReadKeepsText DEF ReadPort
<1>6. CASE NoLine
  <2>1. buff1' = <<>> /\ pc' = "loop" /\ UNCHANGED <<buff, rx, readings, latest, sent>>
    BY <1>6 DEF NoLine
  <2>2. Ordered(buff1') /\ Rds(buff1') = {}
    BY <2>1, EmptyText
  <2>3. Chain(SentRds, CarriedRds(latest), {}, Rds(rx), readings)
    BY DEF TextInv, Chain, Before
  <2>4. TextInv'
    BY <2>1, <2>2, <2>3 DEF TextInv, SentRds
  <2>. QED  BY <1>1, <2>1, <2>4
<1>7. CASE ParseLine
  BY <1>1, <1>7, ParseKeepsText DEF ParseLine
<1>8. CASE Send
  BY <1>8, SendKeepsText
<1>9. CASE PrintReading \/ PrintReply
  BY <1>1, <1>9, PrintKeepsText DEF PrintReading, PrintReply
<1>. QED
  BY <1>2, <1>3, <1>4, <1>5, <1>6, <1>7, <1>8, <1>9 DEF Next, Startup, Loop, Board, Client

LEMMA TextInvariant ==
  ASSUME DebugFill
  PROVE  Spec => []TextInv
<1>1. TypeOK /\ LoopInv /\ TextInv /\ [Next]_vars => TextInv'
  BY StepKeepsText
<1>. QED  BY <1>1, TextInvInit, LoopTypes, LoopInvariant, PTL DEF Spec

(* With the debug runtime the fields of a message come from one reading of *)
(* the board, in its order, for any number of fields, any buffer and any   *)
(* cuts of the reads: strcpy_s has wiped what an older read left.          *)
THEOREM MessageAlwaysOneReading ==
  ASSUME DebugFill
  PROVE  Spec => []MessageIsOneReading
<1>1. TextInv => MessageIsOneReading
  BY DEF TextInv, MessageIsOneReading
<1>. QED  BY <1>1, TextInvariant, PTL

(* And messages never go back to an older reading. *)
THEOREM MessagesNeverStepBack ==
  ASSUME DebugFill
  PROVE  Spec => NoStepBack
<1>1. TypeOK /\ LoopInv /\ TextInv /\ [Next]_vars
        => [\A a \in Numbers(sent), b \in Numbers(sent') : a.rd <= b.rd]_vars
  BY StepKeepsText
<1>. QED  BY <1>1, TextInvariant, LoopTypes, LoopInvariant, PTL DEF Spec, NoStepBack
=============================================================================
