--------------------------- MODULE TelemetryProofs ---------------------------
(* Theorems about the path from the NUC to the screen, for any number of    *)
(* fields and lines and any window of the connection.                       *)
EXTENDS Telemetry, SequenceTheorems, WellFoundedInduction, TLAPS

(* The last of some positions of the array. *)
LEMMA LastOf ==
  ASSUME NEW S, S \subseteq Fields, S # {}
  PROVE  Max(S) \in S /\ \A i \in S : i <= Max(S)
<1>. DEFINE T == {N - i : i \in S}
<1>1. N \in Nat /\ S \subseteq 1..N
  BY FrameAssumption DEF Fields
<1>2. T \subseteq Nat /\ T # {}
  <2>1. ASSUME NEW i \in S PROVE N - i \in Nat
    BY <1>1
  <2>2. T # {}
    OBVIOUS
  <2>. QED  BY <2>1, <2>2
<1>3. PICK t \in T : \A u \in T : ~(<<u, t>> \in OpToRel(<, Nat))
  <2>. HIDE DEF T
  <2>. QED  BY <1>2, NatLessThanWellFounded, WFMin
<1>4. PICK m \in S : t = N - m
  BY DEF T
<1>5. ASSUME NEW i \in S PROVE m >= i
  <2>1. N - i \in T /\ N - i \in Nat /\ t \in Nat
    BY <1>1, <1>2
  <2>2. ~(N - i < t)
    BY <1>3, <2>1 DEF OpToRel
  <2>. QED  BY <1>1, <1>4, <2>2
<1>6. \E x \in S : \A y \in S : x >= y
  BY <1>5
<1>7. Max(S) \in S /\ \A y \in S : Max(S) >= y
  BY <1>6 DEF Max
<1>. QED  BY <1>1, <1>7

-----------------------------------------------------------------------------
(* Types. *)

(* The texts and units there can be once n lines were printed. *)
Known(n) == {NoText, Zero, MinusOne} \cup {Parsed(i) : i \in 1..n}
Units(n) == [tag : 0..N, val : Known(n)]

TypeInv ==
  /\ net \in {"idle", "connect", "read", "store", "post", "close", "done"}
  /\ str \in [Fields -> Units(learned)]
  /\ msg \in [Fields -> Known(learned)]
  /\ next \in Fields
  /\ textMsg \in [Fields -> Known(learned)]
  /\ posted \in 0..MaxPosts
  /\ copying \in 0..N
  /\ args \in [Fields -> Known(learned)]
  /\ enabled \in BOOLEAN /\ alive \in BOOLEAN
  /\ clean \in BOOLEAN /\ short \in BOOLEAN
  /\ wire \in Seq(Units(learned)) /\ Len(wire) <= Window
  /\ learned \in 0..MaxLines /\ delivered \in 0..learned
  /\ latest = R!Nothing \/ (learned > 0 /\ latest = Line(learned))
  /\ net \in {"read", "store", "post"} => peer = "open"

LEMMA Constants ==
  /\ N \in Nat /\ N >= 1 /\ 1 \in Fields /\ N \in Fields
  /\ MaxPosts \in Nat /\ MaxPosts >= 1
  /\ MaxLines \in Nat /\ Window \in Nat
BY FrameAssumption, CheckerAssumption, TelemetryAssumption DEF Fields

LEMMA KnownGrows ==
  ASSUME NEW n \in Nat
  PROVE  Known(n) \subseteq Known(n + 1) /\ Units(n) \subseteq Units(n + 1)
<1>1. Known(n) \subseteq Known(n + 1)
  BY DEF Known
<1>. QED  BY <1>1 DEF Units

(* What a field is parsed to: the value of the last unit with its tag. *)
LEMMA ParsedField ==
  ASSUME NEW n \in Nat, NEW array \in [Fields -> Units(n)], NEW f \in Fields
  PROVE  /\ FieldOf(array, f) \in Known(n)
         /\ \/ FieldOf(array, f) = Zero
            \/ \E i \in Fields :
                 /\ array[i].tag = f
                 /\ FieldOf(array, f) = array[i].val
                 /\ \A j \in Fields : array[j].tag = f => j <= i
<1>. DEFINE tagged == {i \in Fields : array[i].tag = f}
<1>1. CASE tagged = {}
  BY <1>1 DEF FieldOf, Known
<1>2. CASE tagged # {}
  <2>1. Max(tagged) \in tagged /\ \A i \in tagged : i <= Max(tagged)
    BY <1>2, LastOf
  <2>2. FieldOf(array, f) = array[Max(tagged)].val
    BY <1>2 DEF FieldOf
  <2>3. array[Max(tagged)] \in Units(n)
    BY <2>1
  <2>. QED  BY <2>1, <2>2, <2>3 DEF Units
<1>. QED  BY <1>1, <1>2

LEMMA InitTypes == TInit => TypeInv
<1>. SUFFICES ASSUME TInit PROVE TypeInv
  OBVIOUS
<1>. USE DEF TInit, CInit, R!Init
<1>1. Empty \in Units(0) /\ Zero \in Known(0) /\ NoText \in Known(0)
  BY Constants DEF Empty, Units, Known
<1>2. learned = 0 /\ delivered = 0 /\ wire = <<>> /\ latest = R!Nothing
  OBVIOUS
<1>3. str \in [Fields -> Units(learned)] /\ msg \in [Fields -> Known(learned)]
  BY <1>1, <1>2
<1>4. textMsg \in [Fields -> Known(learned)] /\ args \in [Fields -> Known(learned)]
  BY <1>1, <1>2
<1>5. wire \in Seq(Units(learned)) /\ Len(wire) <= Window
  BY <1>2, Constants
<1>6. posted \in 0..MaxPosts /\ copying \in 0..N /\ learned \in 0..MaxLines
      /\ delivered \in 0..learned
  BY Constants
<1>. QED  BY <1>2, <1>3, <1>4, <1>5, <1>6, Constants DEF TypeInv

(* A read: the array takes the front of the wire. *)
LEMMA ReadSplits ==
  ASSUME TypeInv, NEW k \in ReadLengths(Len(wire)), wire # <<>>
  PROVE  LET array == Overwrite(str, SubSeq(wire, 1, k))
             rest == SubSeq(wire, k + 1, Len(wire))
         IN  /\ k \in 1..N /\ k \in 1..Len(wire)
             /\ rest \in Seq(Units(learned)) /\ Len(rest) = Len(wire) - k
             /\ \A i \in 1..Len(rest) : rest[i] = wire[k + i]
             /\ array \in [Fields -> Units(learned)]
             /\ \A i \in Fields : array[i] = IF i <= k THEN wire[i] ELSE str[i]
<1>. DEFINE front == SubSeq(wire, 1, k)
            array == Overwrite(str, front)
            rest == SubSeq(wire, k + 1, Len(wire))
<1>1. wire \in Seq(Units(learned)) /\ Len(wire) \in Nat /\ Len(wire) >= 1
  BY DEF TypeInv
<1>2. k \in 1..N /\ k \in 1..Len(wire)
  BY <1>1, Constants DEF ReadLengths
<1>3. front \in Seq(Units(learned)) /\ Len(front) = k /\ \A i \in 1..k : front[i] = wire[i]
  BY <1>1, <1>2
<1>4. rest \in Seq(Units(learned)) /\ Len(rest) = Len(wire) - k
  BY <1>1, <1>2
<1>5. \A i \in 1..Len(rest) : rest[i] = wire[k + i]
  BY <1>1, <1>2, <1>4
<1>. HIDE DEF front, rest
<1>6. ASSUME NEW i \in Fields
      PROVE  /\ array[i] = IF i <= k THEN wire[i] ELSE str[i]
             /\ array[i] \in Units(learned)
  <2>1. i \in Nat /\ i >= 1
    BY Constants DEF Fields
  <2>2. CASE i <= k
    <3>1. array[i] = front[i] /\ front[i] = wire[i]
      BY <1>2, <1>3, <2>1, <2>2 DEF Overwrite
    <3>2. wire[i] \in Units(learned)
      BY <1>1, <1>2, <2>1, <2>2
    <3>. QED  BY <2>2, <3>1, <3>2
  <2>3. CASE ~(i <= k)
    <3>1. array[i] = str[i]
      BY <1>3, <2>3 DEF Overwrite
    <3>2. str[i] \in Units(learned)
      BY DEF TypeInv
    <3>. QED  BY <2>3, <3>1, <3>2
  <2>. QED  BY <2>2, <2>3
<1>7. array \in [Fields -> Units(learned)]
  BY <1>6 DEF Overwrite
<1>. QED  BY <1>2, <1>4, <1>5, <1>6, <1>7 DEF front, rest

LEMMA ParseTypes ==
  ASSUME TypeInv, NEW array \in [Fields -> Units(learned)], ParseInto(array)
  PROVE  /\ net' \in {"store", "close"} /\ next' \in Fields
         /\ str' \in [Fields -> Units(learned)] /\ msg' \in [Fields -> Known(learned)]
<1>1. str' = array
  BY DEF ParseInto
<1>2. learned \in Nat
  BY Constants DEF TypeInv
<1>3. CASE msg' = Parse(array) /\ next' = 1 /\ net' = "store"
  <2>1. \A f \in Fields : FieldOf(array, f) \in Known(learned)
    BY <1>2, ParsedField
  <2>2. Parse(array) \in [Fields -> Known(learned)]
    BY <2>1 DEF Parse
  <2>. QED  BY <1>1, <1>3, <2>2, Constants
<1>4. CASE net' = "close" /\ UNCHANGED <<msg, next>>
  BY <1>1, <1>4 DEF TypeInv
<1>. QED  BY <1>3, <1>4 DEF ParseInto

LEMMA SendTypes ==
  ASSUME TypeInv, SendLine
  PROVE  /\ peer = "open" /\ learned > 0 /\ latest = Line(learned)
         /\ wire' \in Seq(Units(learned)) /\ Len(wire') = Len(wire) + N
         /\ \A i \in 1..Len(wire) : wire'[i] = wire[i]
         /\ \A f \in Fields : wire'[Len(wire) + f] = [tag |-> f, val |-> Parsed(learned)]
<1>. DEFINE units == [f \in Fields |-> [tag |-> f, val |-> Parsed(learned)]]
<1>1. /\ wire \in Seq(Units(learned)) /\ Len(wire) \in Nat /\ learned \in Nat
      /\ latest # R!Nothing /\ peer = "open" /\ wire' = wire \o R!Message
  BY Constants DEF SendLine, R!Deliver, TypeInv
<1>2. learned > 0 /\ latest = Line(learned)
  BY <1>1 DEF TypeInv
<1>3. R!Message = units
  BY <1>2 DEF R!Message, R!Unit, R!Fields, Fields, Line
<1>4. ASSUME NEW f \in Fields
      PROVE  [tag |-> f, val |-> Parsed(learned)] \in Units(learned)
  <2>1. Parsed(learned) \in Known(learned)
    BY <1>1, <1>2 DEF Known
  <2>2. f \in 0..N
    BY Constants DEF Fields
  <2>. QED  BY <2>1, <2>2 DEF Units
<1>5. units \in [1..N -> Units(learned)]
  BY <1>4 DEF Fields
<1>6. \A f \in Fields : units[f] = [tag |-> f, val |-> Parsed(learned)]
  OBVIOUS
<1>. HIDE DEF units
<1>7. units \in Seq(Units(learned)) /\ Len(units) = N
  BY <1>5, Constants
<1>8. /\ wire \o units \in Seq(Units(learned))
      /\ Len(wire \o units) = Len(wire) + N
      /\ \A i \in 1..Len(wire) : (wire \o units)[i] = wire[i]
  <2>1. /\ wire \o units \in Seq(Units(learned))
        /\ Len(wire \o units) = Len(wire) + N
    BY <1>1, <1>7, ConcatProperties
  <2>2. \A i \in 1..Len(wire) : (wire \o units)[i] = wire[i]
    BY <1>1, <1>7, Constants
  <2>. QED  BY <2>1, <2>2
<1>9. \A f \in Fields : (wire \o units)[Len(wire) + f] = units[f]
  BY <1>1, <1>7, Constants, ConcatProperties DEF Fields
<1>. QED  BY <1>1, <1>2, <1>3, <1>6, <1>8, <1>9

LEMMA GarbageTypes ==
  ASSUME TypeInv, SendGarbage
  PROVE  /\ peer = "open"
         /\ wire' \in Seq(Units(learned)) /\ Len(wire') \in Nat
         /\ Len(wire') <= Len(wire) + N
<1>1. PICK k \in 0..(N - 1) : wire' = wire \o [i \in 1..k |-> R!Blank]
  BY DEF SendGarbage, R!DeliverGarbage
<1>. DEFINE units == [i \in 1..k |-> R!Blank]
<1>2. wire \in Seq(Units(learned)) /\ Len(wire) \in Nat /\ k \in Nat /\ k <= N
  BY Constants DEF TypeInv
<1>3. R!Blank \in Units(learned)
  BY Constants DEF R!Blank, R!Zero, Zero, Units, Known
<1>4. units \in [1..k -> Units(learned)]
  BY <1>3
<1>. HIDE DEF units
<1>5. units \in Seq(Units(learned)) /\ Len(units) = k
  BY <1>2, <1>4
<1>6. wire \o units \in Seq(Units(learned)) /\ Len(wire \o units) = Len(wire) + k
  BY <1>2, <1>5, ConcatProperties
<1>7. wire' \in Seq(Units(learned)) /\ Len(wire') = Len(wire) + k
  BY <1>1, <1>6 DEF units
<1>8. peer = "open"
  BY DEF SendGarbage, R!DeliverGarbage
<1>. QED  BY <1>2, <1>7, <1>8, Constants

(* The steps of the client: the server's state is left alone. *)
LEMMA ClientTypes ==
  ASSUME TypeInv, CNext, UNCHANGED server
  PROVE  TypeInv'
<1>. USE DEF TypeInv, server, thread, screen, link
<1>. USE Constants
<1>1. CASE Click \/ VideoError \/ Connect
  <2>1. CASE Click
    BY <2>1 DEF Click
  <2>2. CASE VideoError
    BY <2>2 DEF VideoError
  <2>3. CASE Connect
    BY <2>3 DEF Connect
  <2>. QED  BY <1>1, <2>1, <2>2, <2>3
<1>2. CASE ReadUnits
  <2>1. PICK k \in ReadLengths(Len(wire)) :
          /\ ParseInto(Overwrite(str, SubSeq(wire, 1, k)))
          /\ wire' = SubSeq(wire, k + 1, Len(wire))
          /\ short' = (short \/ k < N)
    BY <1>2 DEF ReadUnits
  <2>2. /\ net = "read" /\ wire # <<>>
        /\ UNCHANGED <<textMsg, posted, screen, enabled, peer, alive>>
    BY <1>2 DEF ReadUnits
  <2>3. /\ Overwrite(str, SubSeq(wire, 1, k)) \in [Fields -> Units(learned)]
        /\ wire' \in Seq(Units(learned)) /\ Len(wire') = Len(wire) - k
        /\ k \in 1..N /\ k \in 1..Len(wire)
    BY <2>1, <2>2, ReadSplits
  <2>4. /\ net' \in {"store", "close"} /\ next' \in Fields
        /\ str' \in [Fields -> Units(learned)] /\ msg' \in [Fields -> Known(learned)]
    BY <2>1, <2>3, ParseTypes
  <2>5. short' \in BOOLEAN
    BY <2>1
  <2>6. Len(wire') <= Window
    BY <2>3
  <2>. QED  BY <2>2, <2>3, <2>4, <2>5, <2>6
<1>3. CASE ReadEnd
  <2>1. ParseInto(str) /\ net = "read"
        /\ UNCHANGED <<short, textMsg, posted, screen, enabled, link>>
    BY <1>3 DEF ReadEnd
  <2>2. /\ net' \in {"store", "close"} /\ next' \in Fields
        /\ str' \in [Fields -> Units(learned)] /\ msg' \in [Fields -> Known(learned)]
    BY <2>1, ParseTypes
  <2>. QED  BY <2>1, <2>2
<1>4. CASE Store
  <2>1. textMsg' \in [Fields -> Known(learned)]
    BY <1>4 DEF Store
  <2>2. next' \in Fields
    BY <1>4 DEF Store, Fields
  <2>3. net' \in {"store", "post"} /\ peer = "open"
    BY <1>4 DEF Store
  <2>. QED  BY <1>4, <2>1, <2>2, <2>3 DEF Store
<1>5. CASE Post
  BY <1>5 DEF Post
<1>6. CASE CloseSocket
  <2>1. \/ wire' = <<>> /\ peer' = "closed"
        \/ UNCHANGED <<peer, wire>>
    BY <1>6 DEF CloseSocket
  <2>2. wire' \in Seq(Units(learned)) /\ Len(wire') <= Window
    <3>1. <<>> \in Seq(Units(learned)) /\ Len(<<>>) <= Window
      OBVIOUS
    <3>2. wire \in Seq(Units(learned)) /\ Len(wire) <= Window
      OBVIOUS
    <3>. QED  BY <2>1, <3>1, <3>2
  <2>3. net' = "done" /\ UNCHANGED <<str, msg, next, short, textMsg, posted, screen,
                                      enabled, alive>>
    BY <1>6 DEF CloseSocket
  <2>. QED  BY <2>2, <2>3
<1>7. CASE HandleMessage
  BY <1>7 DEF HandleMessage
<1>8. CASE SetText
  <2>1. args' \in [Fields -> Known(learned)]
    <3>1. copying \in Fields
      BY <1>8 DEF SetText, Fields
    <3>. QED  BY <1>8, <3>1 DEF SetText
  <2>2. copying' \in 0..N
    BY <1>8 DEF SetText
  <2>3. UNCHANGED <<thread, textMsg, posted, enabled, link>>
    BY <1>8 DEF SetText
  <2>. QED  BY <2>1, <2>2, <2>3
<1>. QED
  BY <1>1, <1>2, <1>3, <1>4, <1>5, <1>6, <1>7, <1>8
  DEF CNext, NetworkThread, UiThread, User

(* The steps of the server: the client's state is left alone. *)
LEMMA ServerTypes ==
  ASSUME TypeInv, Server
  PROVE  TypeInv'
<1>. USE DEF device
<1>. USE Constants
<1>1. CASE LearnLine
  <2>1. /\ learned' = learned + 1 /\ latest' = Line(learned') /\ learned < MaxLines
        /\ UNCHANGED <<device, link, delivered, clean>>
    BY <1>1 DEF LearnLine
  <2>2. learned \in Nat /\ learned' \in 0..MaxLines /\ delivered' \in 0..learned'
    BY <2>1 DEF TypeInv
  <2>3. Known(learned) \subseteq Known(learned') /\ Units(learned) \subseteq Units(learned')
    BY <2>1, <2>2, KnownGrows
  <2>4. /\ str' \in [Fields -> Units(learned')] /\ msg' \in [Fields -> Known(learned')]
        /\ textMsg' \in [Fields -> Known(learned')] /\ args' \in [Fields -> Known(learned')]
    BY <2>1, <2>3 DEF TypeInv
  <2>5. wire' \in Seq(Units(learned')) /\ Len(wire') <= Window
    <3>1. wire \in Seq(Units(learned)) /\ wire' = wire /\ Len(wire) <= Window
      BY <2>1 DEF TypeInv, link
    <3>. QED  BY <2>3, <3>1, SeqMonotonic
  <2>6. latest' = Line(learned') /\ learned' > 0
    BY <2>1, <2>2
  <2>7. /\ UNCHANGED <<net, next, posted, copying, enabled, short, alive, clean, peer>>
    BY <2>1 DEF link
  <2>. QED  BY <2>2, <2>4, <2>5, <2>6, <2>7 DEF TypeInv
<1>2. CASE SendLine
  <2>1. wire' \in Seq(Units(learned)) /\ Len(wire') = Len(wire) + N
    BY <1>2, SendTypes
  <2>2. Len(wire) + N <= Window /\ delivered' = learned
        /\ UNCHANGED <<device, alive, learned, clean, latest, peer>>
    BY <1>2 DEF SendLine, R!Deliver
  <2>3. delivered' \in 0..learned'
    BY <2>2 DEF TypeInv
  <2>. QED  BY <2>1, <2>2, <2>3 DEF TypeInv
<1>3. CASE SendGarbage
  <2>1. wire' \in Seq(Units(learned)) /\ Len(wire') \in Nat /\ Len(wire') <= Len(wire) + N
    BY <1>3, GarbageTypes
  <2>2. Len(wire) + N <= Window
        /\ UNCHANGED <<device, alive, learned, delivered, latest, peer>>
    BY <1>3 DEF SendGarbage, R!DeliverGarbage
  <2>3. Len(wire) \in Nat
    BY DEF TypeInv
  <2>4. Len(wire') <= Window
    BY <2>1, <2>2, <2>3
  <2>5. clean' \in BOOLEAN
    BY <1>3 DEF SendGarbage
  <2>. QED  BY <2>1, <2>2, <2>4, <2>5 DEF TypeInv
<1>4. CASE ServerDies
  BY <1>4 DEF ServerDies, TypeInv, server
<1>. QED  BY <1>1, <1>2, <1>3, <1>4 DEF Server

LEMMA TypesNext == TypeInv /\ [TNext]_tvars => TypeInv'
<1>1. ASSUME TypeInv, UNCHANGED tvars PROVE TypeInv'
  BY <1>1 DEF tvars, cvars, server, TypeInv
<1>. QED  BY <1>1, ClientTypes, ServerTypes DEF TNext

THEOREM TypeInvariant == TSpec => []TypeInv
BY InitTypes, TypesNext, PTL DEF TSpec

(* The state of the client and of the server keeps its types: whatever the *)
(* reads return, every text of the screen is a number the board printed, a *)
(* zero or a -1.                                                           *)
THEOREM TelemetryTypes == TSpec => []TypeOK
<1>1. ASSUME TypeInv PROVE TypeOK
  <2>1. Known(learned) \subseteq Texts
    <3>1. learned \in 0..MaxLines
      BY <1>1 DEF TypeInv
    <3>2. 1..learned \subseteq 1..MaxLines
      BY <3>1, Constants
    <3>. QED  BY <3>2, Zenon DEF Known, Texts
  <2>2. \A i \in Fields : str[i].tag \in 0..N /\ str[i].val \in Texts
    BY <1>1, <2>1 DEF TypeInv, Units
  <2>3. /\ msg \in [Fields -> Texts] /\ textMsg \in [Fields -> Texts]
        /\ args \in [Fields -> Texts]
    BY <1>1, <2>1 DEF TypeInv
  <2>. QED  BY <1>1, <2>2, <2>3 DEF TypeInv, TypeOK
<1>. QED  BY <1>1, TypeInvariant, PTL

-----------------------------------------------------------------------------
(* The screen.  A copy under way has brought the switches in front of      *)
(* copying up to date, unless the thread stored something since: then a    *)
(* message is posted, or about to be.                                      *)

SettleInv ==
  net \notin {"store", "post"} /\ posted = 0 =>
    \A f \in Fields : copying = 0 \/ f < copying => args[f] = textMsg[f]

LEMMA SettleInit == TInit => SettleInv
BY DEF TInit, CInit, SettleInv

LEMMA SettleNext == TypeInv /\ SettleInv /\ [TNext]_tvars => SettleInv'
<1>. SUFFICES ASSUME TypeInv, SettleInv, [TNext]_tvars PROVE SettleInv'
  OBVIOUS
<1>. USE DEF SettleInv, thread, screen, link
<1>1. CASE ReadUnits \/ ReadEnd
  <2>1. net = "read" /\ UNCHANGED <<textMsg, posted, copying, args>>
    BY <1>1 DEF ReadUnits, ReadEnd
  <2>. QED  BY <2>1
<1>2. CASE Click \/ VideoError \/ Connect \/ CloseSocket
  <2>1. UNCHANGED <<textMsg, posted, copying, args>>
    BY <1>2 DEF Click, VideoError, Connect, CloseSocket
  <2>2. net \notin {"store", "post"} \/ net' = net
    BY <1>2 DEF Click, VideoError, Connect, CloseSocket
  <2>. QED  BY <2>1, <2>2
<1>3. CASE Store
  <2>1. net' \in {"store", "post"}
    BY <1>3 DEF Store
  <2>. QED  BY <2>1
<1>4. CASE Post
  <2>1. posted' # 0
    BY <1>4 DEF Post, TypeInv
  <2>. QED  BY <2>1
<1>5. CASE HandleMessage
  <2>1. copying' = 1
    BY <1>5 DEF HandleMessage
  <2>. QED  BY <2>1 DEF Fields
<1>6. CASE SetText
  <2>1. /\ copying # 0 /\ UNCHANGED <<net, textMsg, posted>>
        /\ args' = [args EXCEPT ![copying] = textMsg[copying]]
        /\ copying' = IF copying = N THEN 0 ELSE copying + 1
    BY <1>6 DEF SetText
  <2>2. copying \in 1..N /\ N \in Nat /\ args = [f \in Fields |-> args[f]]
    BY <2>1, Constants DEF TypeInv
  <2>3. SUFFICES ASSUME net \notin {"store", "post"}, posted = 0, NEW f \in Fields,
                        copying' = 0 \/ f < copying'
                 PROVE  args'[f] = textMsg[f]
    BY <2>1
  <2>4. f < copying \/ f = copying
    BY <2>1, <2>2, <2>3 DEF Fields
  <2>. QED  BY <2>1, <2>2, <2>3, <2>4
<1>7. CASE Server \/ UNCHANGED tvars
  <2>1. UNCHANGED <<net, textMsg, posted, copying, args>>
    BY <1>7 DEF Server, LearnLine, SendLine, SendGarbage, ServerDies, device, tvars, cvars
  <2>. QED  BY <2>1
<1>. QED
  BY <1>1, <1>2, <1>3, <1>4, <1>5, <1>6, <1>7
  DEF TNext, CNext, NetworkThread, UiThread, User

(* When nothing is pending between the two threads the switches show what  *)
(* was stored last, for any number of fields and posts.                    *)
THEOREM ScreenAlwaysSettles == TSpec => []ScreenSettles
<1>1. TSpec => []SettleInv
  BY TypeInvariant, SettleInit, SettleNext, PTL DEF TSpec
<1>2. ASSUME TypeInv, SettleInv PROVE ScreenSettles
  <2>1. args = [f \in Fields |-> args[f]] /\ textMsg = [f \in Fields |-> textMsg[f]]
    BY <1>2 DEF TypeInv
  <2>2. ASSUME \A f \in Fields : args[f] = textMsg[f] PROVE args = textMsg
    BY <2>1, <2>2
  <2>. QED  BY <1>2, <2>2 DEF SettleInv, ScreenSettles
<1>. QED  BY <1>1, <1>2, TypeInvariant, PTL

-----------------------------------------------------------------------------
(* The stream.  As long as reads return whole messages and no uninitialised *)
(* units were sent the wire holds whole lines, each from a start to the     *)
(* next, and so does the array.                                             *)

LineUnits(n) == [f \in Fields |-> [tag |-> f, val |-> Parsed(n)]]
NoTexts == [f \in Fields |-> NoText]

Starts(S, w, lines) ==
  /\ 0 \in S /\ Len(w) \in S
  /\ \A s \in S : s <= Len(w)
  /\ \A s \in S : s < Len(w) =>
       /\ s + N \in S
       /\ \E n \in 1..lines : \A f \in Fields : w[s + f] = LineUnits(n)[f]

StreamInv ==
  clean /\ ~short =>
    /\ \E S \in SUBSET Nat : Starts(S, wire, learned)
    /\ str = [i \in Fields |-> Empty] \/ \E n \in 1..learned : str = LineUnits(n)
    /\ net \in {"store", "post"} => \E n \in 1..learned : msg = Line(n)
    /\ net = "store" => \A f \in Fields : f < next => textMsg[f] = msg[f]
    /\ net # "store" => textMsg = NoTexts \/ \E n \in 1..learned : textMsg = Line(n)

LEMMA StreamInit == TInit => StreamInv
<1>. SUFFICES ASSUME TInit PROVE StreamInv
  OBVIOUS
<1>. USE DEF TInit, CInit, R!Init
<1>1. Starts({0}, wire, learned)
  BY Constants DEF Starts
<1>. QED  BY <1>1 DEF StreamInv, NoTexts

(* A whole line parses to itself. *)
LEMMA WholeLineParses ==
  ASSUME NEW n
  PROVE  Parse(LineUnits(n)) = Line(n)
<1>1. ASSUME NEW f \in Fields PROVE FieldOf(LineUnits(n), f) = Parsed(n)
  <2>. DEFINE tagged == {i \in Fields : LineUnits(n)[i].tag = f}
  <2>1. tagged = {f}
    BY DEF LineUnits
  <2>2. Max({f}) = f
    <3>1. Max({f}) \in {f}
      BY LastOf
    <3>. QED  BY <3>1
  <2>. QED  BY <2>1, <2>2 DEF FieldOf, LineUnits
<1>. QED  BY <1>1 DEF Parse, Line

LEMMA ParseWhole ==
  ASSUME NEW array, ParseInto(array),
         array = [i \in Fields |-> Empty] \/ \E n \in 1..learned : array = LineUnits(n)
  PROVE  /\ net' \in {"store", "close"}
         /\ net' = "store" => next' = 1 /\ \E n \in 1..learned : msg' = Line(n)
         /\ str' = array
<1>1. str' = array
  BY DEF ParseInto
<1>2. CASE array = [i \in Fields |-> Empty]
  <2>1. MustThrow(array)
    BY <1>2, Constants DEF MustThrow
  <2>. QED  BY <1>1, <2>1 DEF ParseInto
<1>3. CASE \E n \in 1..learned : array = LineUnits(n)
  <2>1. PICK n \in 1..learned : array = LineUnits(n)
    BY <1>3
  <2>2. \/ msg' = Parse(array) /\ next' = 1 /\ net' = "store"
        \/ net' = "close"
    BY DEF ParseInto
  <2>3. Parse(array) = Line(n)
    BY <2>1, WholeLineParses
  <2>. QED  BY <1>1, <2>2, <2>3
<1>. QED  BY <1>2, <1>3

(* A whole read takes the first line off the wire. *)
LEMMA WholeRead ==
  ASSUME TypeInv, wire # <<>>, N \in ReadLengths(Len(wire)),
         NEW S \in SUBSET Nat, Starts(S, wire, learned)
  PROVE  /\ \E n \in 1..learned : Overwrite(str, SubSeq(wire, 1, N)) = LineUnits(n)
         /\ \E T \in SUBSET Nat : Starts(T, SubSeq(wire, N + 1, Len(wire)), learned)
<1>. DEFINE array == Overwrite(str, SubSeq(wire, 1, N))
            rest == SubSeq(wire, N + 1, Len(wire))
            T == {s - N : s \in {r \in S : r >= N}}
<1>1. /\ Len(wire) \in Nat /\ N \in 1..Len(wire)
      /\ Len(rest) = Len(wire) - N /\ \A i \in 1..Len(rest) : rest[i] = wire[N + i]
      /\ \A i \in Fields : array[i] = IF i <= N THEN wire[i] ELSE str[i]
  BY ReadSplits DEF TypeInv
<1>2. N \in S /\ \E n \in 1..learned : \A f \in Fields : wire[0 + f] = LineUnits(n)[f]
  BY <1>1, Constants DEF Starts
<1>3. PICK n \in 1..learned : \A f \in Fields : wire[f] = LineUnits(n)[f]
  BY <1>2, Constants DEF Fields
<1>4. \A i \in Fields : array[i] = LineUnits(n)[i]
  BY <1>1, <1>3, Constants DEF Fields
<1>5. array = LineUnits(n)
  BY <1>4 DEF Overwrite, LineUnits
<1>6. T \in SUBSET Nat
  <2>1. ASSUME NEW r \in S, r >= N PROVE r - N \in Nat
    BY <2>1, Constants
  <2>. QED  BY <2>1
<1>7. 0 \in T /\ Len(rest) \in T
  <2>1. Len(wire) \in S /\ Len(wire) >= N
    BY <1>1 DEF Starts
  <2>2. N - N = 0 /\ N >= N
    BY Constants
  <2>. QED  BY <1>1, <1>2, <2>1, <2>2
<1>8. ASSUME NEW s \in T
      PROVE  /\ s <= Len(rest)
             /\ s < Len(rest) =>
                  /\ s + N \in T
                  /\ \E m \in 1..learned : \A f \in Fields : rest[s + f] = LineUnits(m)[f]
  <2>1. PICK r \in S : r >= N /\ s = r - N
    OBVIOUS
  <2>2. r \in Nat /\ r <= Len(wire) /\ N \in Nat /\ s \in Nat
    BY <2>1, Constants DEF Starts
  <2>3. s <= Len(rest)
    BY <1>1, <2>1, <2>2
  <2>4. ASSUME s < Len(rest)
        PROVE  /\ s + N \in T
               /\ \E m \in 1..learned : \A f \in Fields : rest[s + f] = LineUnits(m)[f]
    <3>1. r < Len(wire)
      BY <1>1, <2>1, <2>2, <2>4
    <3>2. r + N \in S /\ r + N <= Len(wire)
      BY <3>1 DEF Starts
    <3>3. PICK m \in 1..learned : \A f \in Fields : wire[r + f] = LineUnits(m)[f]
      BY <3>1 DEF Starts
    <3>4. s + N \in T
      <4>1. r + N >= N /\ s + N = (r + N) - N
        BY <2>1, <2>2
      <4>. QED  BY <3>2, <4>1
    <3>5. ASSUME NEW f \in Fields PROVE rest[s + f] = LineUnits(m)[f]
      <4>1. s + f \in 1..Len(rest) /\ N + (s + f) = r + f
        BY <1>1, <2>1, <2>2, <3>2 DEF Fields
      <4>2. rest[s + f] = wire[N + (s + f)]
        BY <1>1, <4>1
      <4>. QED  BY <3>3, <4>1, <4>2
    <3>. QED  BY <3>4, <3>5
  <2>. QED  BY <2>3, <2>4
<1>9. Starts(T, rest, learned)
  <2>. HIDE DEF T, rest
  <2>. QED  BY <1>7, <1>8 DEF Starts
<1>. QED  BY <1>5, <1>6, <1>9

(* A line sent is a start more. *)
LEMMA SentStarts ==
  ASSUME TypeInv, SendLine, NEW S \in SUBSET Nat, Starts(S, wire, learned)
  PROVE  \E T \in SUBSET Nat : Starts(T, wire', learned)
<1>. DEFINE T == S \cup {Len(wire) + N}
<1>1. /\ learned > 0 /\ Len(wire') = Len(wire) + N
      /\ \A i \in 1..Len(wire) : wire'[i] = wire[i]
      /\ \A f \in Fields : wire'[Len(wire) + f] = LineUnits(learned)[f]
  BY SendTypes DEF LineUnits
<1>2. Len(wire) \in Nat /\ learned \in Nat /\ N \in Nat /\ N >= 1
  BY Constants DEF TypeInv
<1>3. T \in SUBSET Nat
  <2>1. Len(wire) + N \in Nat
    BY <1>2
  <2>. QED  BY <2>1
<1>4. 0 \in T /\ Len(wire') \in T /\ \A s \in T : s <= Len(wire')
  BY <1>1, <1>2 DEF Starts
<1>5. ASSUME NEW s \in T, s < Len(wire')
      PROVE  /\ s + N \in T
             /\ \E n \in 1..learned : \A f \in Fields : wire'[s + f] = LineUnits(n)[f]
  <2>1. s \in Nat /\ s \in S
    BY <1>1, <1>2, <1>5
  <2>2. CASE s = Len(wire)
    <3>1. learned \in 1..learned
      BY <1>1, <1>2
    <3>. QED  BY <1>1, <2>2, <3>1
  <2>3. CASE s # Len(wire)
    <3>1. s < Len(wire)
      BY <1>2, <2>1, <2>3 DEF Starts
    <3>2. s + N \in S /\ s + N <= Len(wire)
      BY <2>1, <3>1 DEF Starts
    <3>3. PICK n \in 1..learned : \A f \in Fields : wire[s + f] = LineUnits(n)[f]
      BY <2>1, <3>1 DEF Starts
    <3>4. ASSUME NEW f \in Fields PROVE wire'[s + f] = LineUnits(n)[f]
      <4>1. s + f \in 1..Len(wire)
        BY <1>2, <2>1, <3>2 DEF Fields
      <4>. QED  BY <1>1, <3>3, <4>1
    <3>. QED  BY <3>2, <3>3, <3>4
  <2>. QED  BY <2>2, <2>3
<1>6. Starts(T, wire', learned)
  <2>. HIDE DEF T
  <2>. QED  BY <1>4, <1>5 DEF Starts
<1>. QED  BY <1>3, <1>6

LEMMA StreamClient ==
  ASSUME TypeInv, StreamInv, CNext, UNCHANGED server
  PROVE  StreamInv'
<1>. SUFFICES ASSUME clean', ~short' PROVE StreamInv'
  BY DEF StreamInv
<1>. USE DEF thread, screen, link, server
<1>1. CASE Click \/ VideoError \/ Connect \/ Post \/ HandleMessage \/ SetText
  <2>1. /\ UNCHANGED <<str, msg, textMsg, wire, short, clean, learned>>
        /\ net' = "store" <=> net = "store"
        /\ net = "store" => next' = next
        /\ net' \in {"store", "post"} => net \in {"store", "post"}
    BY <1>1 DEF Click, VideoError, Connect, Post, HandleMessage, SetText
  <2>. QED  BY <2>1 DEF StreamInv
<1>2. CASE ReadUnits
  <2>1. PICK k \in ReadLengths(Len(wire)) :
          /\ ParseInto(Overwrite(str, SubSeq(wire, 1, k)))
          /\ wire' = SubSeq(wire, k + 1, Len(wire))
          /\ short' = (short \/ k < N)
    BY <1>2 DEF ReadUnits
  <2>2. net = "read" /\ wire # <<>> /\ UNCHANGED <<textMsg, clean, learned>>
    BY <1>2 DEF ReadUnits
  <2>3. k \in 1..N
    BY <2>1, <2>2, ReadSplits
  <2>4. ~short /\ ~(k < N)
    BY <2>1
  <2>5. k = N
    BY <2>3, <2>4, Constants
  <2>6. PICK S \in SUBSET Nat : Starts(S, wire, learned)
    BY <2>2, <2>4 DEF StreamInv
  <2>7. /\ \E n \in 1..learned : Overwrite(str, SubSeq(wire, 1, k)) = LineUnits(n)
        /\ \E T \in SUBSET Nat : Starts(T, wire', learned)
    BY <2>1, <2>2, <2>5, <2>6, WholeRead
  <2>8. /\ net' \in {"store", "close"}
        /\ net' = "store" => next' = 1 /\ \E n \in 1..learned : msg' = Line(n)
        /\ \E n \in 1..learned : str' = LineUnits(n)
    BY <2>1, <2>7, ParseWhole
  <2>9. \A f \in Fields : ~(f < 1)
    BY DEF Fields
  <2>. QED  BY <2>2, <2>4, <2>7, <2>8, <2>9 DEF StreamInv
<1>3. CASE ReadEnd
  <2>1. /\ ParseInto(str) /\ net = "read"
        /\ UNCHANGED <<textMsg, clean, short, learned, wire>>
    BY <1>3 DEF ReadEnd
  <2>2. str = [i \in Fields |-> Empty] \/ \E n \in 1..learned : str = LineUnits(n)
    BY <2>1 DEF StreamInv
  <2>3. /\ net' \in {"store", "close"}
        /\ net' = "store" => next' = 1 /\ \E n \in 1..learned : msg' = Line(n)
        /\ str' = str
    BY <2>1, <2>2, ParseWhole
  <2>4. \A f \in Fields : ~(f < 1)
    BY DEF Fields
  <2>. QED  BY <2>1, <2>2, <2>3, <2>4 DEF StreamInv
<1>4. CASE Store
  <2>1. /\ net = "store" /\ textMsg' = [textMsg EXCEPT ![next] = msg[next]]
        /\ UNCHANGED <<str, msg, short, wire, clean, learned>>
        /\ \/ next = N /\ net' = "post" /\ next' = next
           \/ next # N /\ net' = "store" /\ next' = next + 1
    BY <1>4 DEF Store
  <2>2. next \in Fields /\ textMsg = [f \in Fields |-> textMsg[f]]
    BY DEF TypeInv
  <2>3. PICK n \in 1..learned : msg = Line(n)
    BY <2>1 DEF StreamInv
  <2>4. ASSUME NEW f \in Fields, f <= next PROVE textMsg'[f] = msg[f]
    <3>1. f = next \/ f < next
      BY <2>2, <2>4 DEF Fields
    <3>. QED  BY <2>1, <2>2, <3>1 DEF StreamInv
  <2>5. CASE next = N /\ net' = "post"
    <3>1. \A f \in Fields : textMsg'[f] = Line(n)[f]
      BY <2>2, <2>3, <2>4, <2>5 DEF Fields
    <3>2. textMsg' = [f \in Fields |-> textMsg'[f]]
      BY <2>1, <2>2
    <3>3. textMsg' = Line(n)
      BY <3>1, <3>2 DEF Line
    <3>. QED  BY <2>1, <2>5, <3>3 DEF StreamInv
  <2>6. CASE net' = "store" /\ next' = next + 1
    <3>1. ASSUME NEW f \in Fields, f < next' PROVE textMsg'[f] = msg'[f]
      <4>1. f <= next
        BY <2>2, <2>6, <3>1 DEF Fields
      <4>. QED  BY <2>1, <2>4, <4>1
    <3>. QED  BY <2>1, <2>6, <3>1 DEF StreamInv
  <2>. QED  BY <2>1, <2>5, <2>6
<1>5. CASE CloseSocket
  <2>1. /\ UNCHANGED <<str, msg, textMsg, short, clean, learned>>
        /\ net = "close" /\ net' = "done" /\ (wire' = wire \/ wire' = <<>>)
    BY <1>5 DEF CloseSocket
  <2>2. Starts({0}, <<>>, learned)
    BY Constants DEF Starts
  <2>3. \E S \in SUBSET Nat : Starts(S, wire', learned)
    <3>1. {0} \in SUBSET Nat
      OBVIOUS
    <3>2. \E S \in SUBSET Nat : Starts(S, wire, learned)
      BY <2>1 DEF StreamInv
    <3>. QED  BY <2>1, <2>2, <3>1, <3>2
  <2>. QED  BY <2>1, <2>3 DEF StreamInv
<1>. QED
  BY <1>1, <1>2, <1>3, <1>4, <1>5 DEF CNext, NetworkThread, UiThread, User

LEMMA StreamServer ==
  ASSUME TypeInv, StreamInv, Server
  PROVE  StreamInv'
<1>. SUFFICES ASSUME clean', ~short' PROVE StreamInv'
  BY DEF StreamInv
<1>. USE DEF device, link
<1>1. CASE LearnLine
  <2>1. learned' = learned + 1 /\ UNCHANGED <<net, str, msg, next, textMsg, wire, clean, short>>
    BY <1>1 DEF LearnLine
  <2>2. 1..learned \subseteq 1..learned'
    BY <2>1, Constants DEF TypeInv
  <2>3. ASSUME NEW S \in SUBSET Nat, Starts(S, wire, learned)
        PROVE  Starts(S, wire', learned')
    BY <2>1, <2>2, <2>3 DEF Starts
  <2>. QED  BY <2>1, <2>2, <2>3 DEF StreamInv
<1>2. CASE SendLine
  <2>1. UNCHANGED <<net, str, msg, next, textMsg, clean, short, learned>>
    BY <1>2 DEF SendLine
  <2>2. PICK S \in SUBSET Nat : Starts(S, wire, learned)
    BY <2>1 DEF StreamInv
  <2>3. \E T \in SUBSET Nat : Starts(T, wire', learned)
    BY <1>2, <2>2, SentStarts
  <2>. QED  BY <2>1, <2>3 DEF StreamInv
<1>3. CASE SendGarbage
  <2>1. clean /\ wire' = wire
    BY <1>3 DEF SendGarbage
  <2>2. UNCHANGED <<net, str, msg, next, textMsg, short, learned>>
    BY <1>3 DEF SendGarbage
  <2>. QED  BY <2>1, <2>2 DEF StreamInv
<1>4. CASE ServerDies
  <2>1. UNCHANGED <<net, str, msg, next, textMsg, wire, clean, short, learned>>
    BY <1>4 DEF ServerDies, server
  <2>. QED  BY <2>1 DEF StreamInv
<1>. QED  BY <1>1, <1>2, <1>3, <1>4 DEF Server

LEMMA StreamNext == TypeInv /\ StreamInv /\ [TNext]_tvars => StreamInv'
<1>1. ASSUME StreamInv, UNCHANGED tvars PROVE StreamInv'
  BY <1>1 DEF tvars, cvars, server, StreamInv
<1>. QED  BY <1>1, StreamClient, StreamServer DEF TNext

THEOREM StreamInvariant == TSpec => []StreamInv
BY TypeInvariant, StreamInit, StreamNext, PTL DEF TSpec

(* Up to a short read or uninitialised units what the thread parses is one *)
(* line of the board, wherever it is in the stream.                        *)
THEOREM AlwaysParsesOneLine == TSpec => []ParsesOneLine
<1>1. StreamInv => ParsesOneLine
  BY DEF StreamInv, ParsesOneLine
<1>. QED  BY <1>1, StreamInvariant, PTL

(* And at rest the switches show one line, although the two threads share  *)
(* the texts without a lock.                                               *)
THEOREM NeverMixedAtRest == TSpec => []NoMixAtRest
<1>1. ASSUME StreamInv, ScreenSettles PROVE NoMixAtRest
  <2>1. SUFFICES ASSUME clean /\ ~short /\ net = "read" /\ posted = 0 /\ copying = 0
                 PROVE  \/ args = [f \in Fields |-> NoText]
                        \/ \E n \in 1..learned : args = Line(n)
    BY DEF NoMixAtRest
  <2>2. args = textMsg
    BY <1>1, <2>1 DEF ScreenSettles
  <2>. QED  BY <1>1, <2>1, <2>2 DEF StreamInv, NoTexts
<1>. QED  BY <1>1, StreamInvariant, ScreenAlwaysSettles, PTL

-----------------------------------------------------------------------------
(* What is shown.  A text that is stored or shown, or about to be, was      *)
(* parsed from a whole line, which stays in the array or is overwritten by  *)
(* another one: no later parse, not even that of the end of the stream,     *)
(* raises an exception.                                                     *)

Holds(texts) == \E f \in Fields : texts[f] # NoText

ShownInv ==
  clean /\ ~short /\ (Holds(args) \/ Holds(textMsg) \/ net \in {"store", "post"})
    => Running /\ \E n \in 1..learned : str = LineUnits(n)

LEMMA ShownInit == TInit => ShownInv
BY DEF TInit, CInit, ShownInv, Holds

(* A whole line in the array is parsed without an exception. *)
LEMMA LineIsStored ==
  ASSUME NEW n, ParseInto(LineUnits(n))
  PROVE  net' = "store" /\ str' = LineUnits(n)
<1>1. ~MayThrow(LineUnits(n))
  <2>1. ASSUME NEW i \in Fields PROVE LineUnits(n)[i].tag = i /\ i # 0
    BY <2>1 DEF LineUnits, Fields
  <2>. QED  BY <2>1 DEF MayThrow
<1>. QED  BY <1>1 DEF ParseInto

LEMMA ShownClient ==
  ASSUME TypeInv, StreamInv, ShownInv, CNext, UNCHANGED server
  PROVE  ShownInv'
<1>. SUFFICES ASSUME clean', ~short' PROVE ShownInv'
  BY DEF ShownInv
<1>. USE DEF thread, screen, link, server
<1>1. CASE Click \/ Connect \/ CloseSocket
  <2>1. /\ UNCHANGED <<textMsg, args, short, clean>> /\ net' \notin {"store", "post"}
        /\ net \in {"idle", "connect", "close"}
    BY <1>1 DEF Click, Connect, CloseSocket
  <2>2. ~Holds(args) /\ ~Holds(textMsg)
    BY <2>1 DEF ShownInv, Running
  <2>. QED  BY <2>1, <2>2 DEF ShownInv, Holds
<1>2. CASE ReadUnits
  <2>1. PICK k \in ReadLengths(Len(wire)) :
          /\ ParseInto(Overwrite(str, SubSeq(wire, 1, k)))
          /\ short' = (short \/ k < N)
    BY <1>2 DEF ReadUnits
  <2>2. net = "read" /\ wire # <<>> /\ UNCHANGED <<clean, learned>>
    BY <1>2 DEF ReadUnits
  <2>3. ~short /\ ~(k < N) /\ k \in 1..N
    BY <2>1, <2>2, ReadSplits
  <2>4. k = N
    BY <2>3, Constants
  <2>5. PICK S \in SUBSET Nat : Starts(S, wire, learned)
    BY <2>2, <2>3 DEF StreamInv
  <2>6. PICK n \in 1..learned : Overwrite(str, SubSeq(wire, 1, k)) = LineUnits(n)
    BY <2>1, <2>2, <2>4, <2>5, WholeRead
  <2>7. net' = "store" /\ str' = LineUnits(n)
    BY <2>1, <2>6, LineIsStored
  <2>. QED  BY <2>2, <2>7 DEF ShownInv, Running
<1>3. CASE ReadEnd
  <2>1. /\ ParseInto(str) /\ net = "read"
        /\ UNCHANGED <<textMsg, args, clean, short, learned>>
    BY <1>3 DEF ReadEnd
  <2>2. CASE \E n \in 1..learned : str = LineUnits(n)
    <3>1. PICK n \in 1..learned : str = LineUnits(n)
      BY <2>2
    <3>2. net' = "store" /\ str' = LineUnits(n)
      BY <2>1, <3>1, LineIsStored
    <3>. QED  BY <2>1, <3>2 DEF ShownInv, Running
  <2>3. CASE ~\E n \in 1..learned : str = LineUnits(n)
    <3>1. ~Holds(args) /\ ~Holds(textMsg)
      BY <2>1, <2>3 DEF ShownInv
    <3>2. str = [i \in Fields |-> Empty]
      BY <2>1, <2>3 DEF StreamInv
    <3>3. MustThrow(str)
      BY <3>2, Constants DEF MustThrow
    <3>4. net' = "close"
      BY <2>1, <3>3 DEF ParseInto
    <3>. QED  BY <2>1, <3>1, <3>4 DEF ShownInv, Holds
  <2>. QED  BY <2>2, <2>3
<1>4. CASE Store \/ Post
  <2>1. /\ net \in {"store", "post"} /\ net' \in {"store", "post", "read"}
        /\ UNCHANGED <<str, short, clean, learned>>
    BY <1>4 DEF Store, Post
  <2>. QED  BY <2>1 DEF ShownInv, Running
<1>5. CASE VideoError \/ HandleMessage
  <2>1. UNCHANGED <<net, str, textMsg, args, short, clean, learned>>
    BY <1>5 DEF VideoError, HandleMessage
  <2>. QED  BY <2>1 DEF ShownInv, Holds, Running
<1>6. CASE SetText
  <2>1. /\ UNCHANGED <<net, str, textMsg, short, clean, learned>>
        /\ args' = [args EXCEPT ![copying] = textMsg[copying]] /\ copying # 0
    BY <1>6 DEF SetText
  <2>2. args \in [Fields -> Known(learned)] /\ copying \in Fields
    BY <2>1, Constants DEF TypeInv, Fields
  <2>3. Holds(args') => Holds(args) \/ Holds(textMsg)
    BY <2>1, <2>2 DEF Holds
  <2>4. Holds(textMsg') = Holds(textMsg)
    BY <2>1 DEF Holds
  <2>. QED  BY <2>1, <2>3, <2>4 DEF ShownInv, Running
<1>. QED
  BY <1>1, <1>2, <1>3, <1>4, <1>5, <1>6 DEF CNext, NetworkThread, UiThread, User

LEMMA ShownServer ==
  ASSUME TypeInv, ShownInv, Server
  PROVE  ShownInv'
<1>1. UNCHANGED <<net, str, textMsg, args, short>> /\ (clean' => clean)
  <2>1. UNCHANGED device
    BY DEF Server, LearnLine, SendLine, SendGarbage, ServerDies, device
  <2>2. CASE SendGarbage
    BY <2>1, <2>2 DEF SendGarbage, device
  <2>3. CASE LearnLine \/ SendLine \/ ServerDies
    <3>1. UNCHANGED clean
      BY <2>3 DEF LearnLine, SendLine, ServerDies, server
    <3>. QED  BY <2>1, <3>1 DEF device
  <2>. QED  BY <2>2, <2>3 DEF Server
<1>2. 1..learned \subseteq 1..learned'
  <2>1. learned' = learned \/ learned' = learned + 1
    BY DEF Server, LearnLine, SendLine, SendGarbage, ServerDies, server
  <2>. QED  BY <2>1, Constants DEF TypeInv
<1>. QED  BY <1>1, <1>2 DEF ShownInv, Holds, Running

LEMMA ShownNext == TypeInv /\ StreamInv /\ ShownInv /\ [TNext]_tvars => ShownInv'
<1>1. ASSUME ShownInv, UNCHANGED tvars PROVE ShownInv'
  BY <1>1 DEF tvars, cvars, server, ShownInv, Holds, Running
<1>. QED  BY <1>1, ShownClient, ShownServer DEF TNext

(* An app that shows values has its thread: until garbage or a short read   *)
(* no exception ends a thread that has shown something, and no click starts *)
(* another.                                                                 *)
THEOREM ShownIsRunning == TSpec => []ShownMeansRunning
<1>1. ShownInv => ShownMeansRunning
  BY DEF ShownInv, ShownMeansRunning, Holds
<1>. QED  BY <1>1, TypeInvariant, StreamInvariant, ShownInit, ShownNext, PTL DEF TSpec

-----------------------------------------------------------------------------
(* Order.  Without uninitialised units, and however reads cut the stream,   *)
(* of one field the switch shows nothing newer than the texts, these        *)
(* nothing newer than what the array parses to, and the array holds nothing *)
(* newer than what is still on the wire, which is in order.  Behind a short *)
(* read the array keeps older units, but a field is parsed from the last    *)
(* unit with its tag: either the one of the last parse or a newer one.      *)

InOrder(old, new) == ~StepsBack(old, new)

ParsedInOrder(f) ==
  /\ InOrder(args[f], textMsg[f])
  /\ InOrder(args[f], FieldOf(str, f))
  /\ InOrder(textMsg[f], FieldOf(str, f))
WireInOrder(f) ==
  \A i \in 1..Len(wire) : wire[i].tag = f =>
    /\ InOrder(args[f], wire[i].val)
    /\ InOrder(textMsg[f], wire[i].val)
    /\ \A j \in Fields : str[j].tag = f => InOrder(str[j].val, wire[i].val)
    /\ \A j \in 1..(i - 1) : wire[j].tag = f => InOrder(wire[j].val, wire[i].val)

OrderInv ==
  clean =>
    /\ \A f \in Fields : ParsedInOrder(f) /\ WireInOrder(f)
    /\ net \in {"store", "post"} => msg = Parse(str)

LEMMA OrderInit == TInit => OrderInv
<1>. SUFFICES ASSUME TInit PROVE OrderInv
  OBVIOUS
<1>. USE DEF TInit, CInit, R!Init
<1>1. ASSUME NEW v PROVE InOrder(NoText, v)
  BY DEF InOrder, StepsBack, NoText
<1>2. ASSUME NEW f \in Fields PROVE ParsedInOrder(f)
  BY <1>1 DEF ParsedInOrder
<1>3. ASSUME NEW f \in Fields PROVE WireInOrder(f)
  <2>1. 1..Len(wire) = {}
    OBVIOUS
  <2>. QED  BY <2>1 DEF WireInOrder
<1>. QED  BY <1>2, <1>3 DEF OrderInv

(* Zero never steps back, and nothing steps back to it. *)
LEMMA ZeroInOrder ==
  ASSUME NEW v
  PROVE  InOrder(v, Zero) /\ InOrder(Zero, v)
BY DEF InOrder, StepsBack, Zero

LEMMA KnownKinds ==
  ASSUME NEW n \in Nat, NEW v \in Known(n)
  PROVE  v.kind # "parsed" \/ v.digits \in 1..n
<1>1. CASE v \in {NoText, Zero, MinusOne}
  <2>1. NoText.kind = "no text" /\ Zero.kind = "zero" /\ MinusOne.kind = "minus one"
    BY DEF NoText, Zero, MinusOne
  <2>. QED  BY <1>1, <2>1
<1>2. CASE v \in {Parsed(i) : i \in 1..n}
  BY <1>2 DEF Parsed
<1>. QED  BY <1>1, <1>2 DEF Known

LEMMA SameInOrder ==
  ASSUME TypeInv, NEW v \in Known(learned)
  PROVE  InOrder(v, v)
<1>1. learned \in Nat
  BY Constants DEF TypeInv
<1>2. v.kind # "parsed" \/ v.digits \in 1..learned
  BY <1>1, KnownKinds
<1>. QED  BY <1>1, <1>2 DEF InOrder, StepsBack

(* Nothing is newer than the latest line. *)
LEMMA LatestIsNewest ==
  ASSUME TypeInv, NEW v \in Known(learned)
  PROVE  InOrder(v, Parsed(learned))
<1>1. learned \in Nat
  BY Constants DEF TypeInv
<1>2. v.kind # "parsed" \/ v.digits \in 1..learned
  BY <1>1, KnownKinds
<1>3. Parsed(learned).digits = learned
  BY DEF Parsed
<1>. QED  BY <1>1, <1>2, <1>3 DEF InOrder, StepsBack

(* What a field is parsed to behind a read: as before, or off the wire. *)
LEMMA ReadParses ==
  ASSUME TypeInv, wire # <<>>, NEW k \in ReadLengths(Len(wire)), NEW f \in Fields
  PROVE  LET value == FieldOf(Overwrite(str, SubSeq(wire, 1, k)), f)
         IN  \/ value = Zero
             \/ value = FieldOf(str, f)
             \/ \E i \in 1..k : wire[i].tag = f /\ value = wire[i].val
<1>. DEFINE array == Overwrite(str, SubSeq(wire, 1, k))
<1>1. /\ k \in 1..N /\ k \in 1..Len(wire)
      /\ array \in [Fields -> Units(learned)]
      /\ \A i \in Fields : array[i] = IF i <= k THEN wire[i] ELSE str[i]
  BY ReadSplits
<1>. HIDE DEF array
<1>2. learned \in Nat /\ str \in [Fields -> Units(learned)]
  BY Constants DEF TypeInv
<1>3. SUFFICES ASSUME FieldOf(array, f) # Zero
               PROVE  \/ FieldOf(array, f) = FieldOf(str, f)
                      \/ \E i \in 1..k : wire[i].tag = f /\ FieldOf(array, f) = wire[i].val
  BY DEF array
<1>4. PICK i \in Fields :
        /\ array[i].tag = f
        /\ FieldOf(array, f) = array[i].val
        /\ \A j \in Fields : array[j].tag = f => j <= i
  BY <1>1, <1>2, <1>3, ParsedField
<1>5. CASE i <= k
  <2>1. i \in 1..k
    BY <1>1, <1>5 DEF Fields
  <2>. QED  BY <1>1, <1>4, <1>5, <2>1
<1>6. CASE ~(i <= k)
  <2>1. array[i] = str[i] /\ str[i].tag = f
    BY <1>1, <1>4, <1>6
  <2>2. \A j \in Fields : str[j].tag = f => j <= i
    <3>1. ASSUME NEW j \in Fields, str[j].tag = f, ~(j <= i) PROVE FALSE
      <4>1. ~(j <= k)
        BY <1>1, <1>6, <3>1 DEF Fields
      <4>2. array[j] = str[j]
        BY <1>1, <4>1
      <4>. QED  BY <1>4, <3>1, <4>2
    <3>. QED  BY <3>1
  <2>. DEFINE tagged == {j \in Fields : str[j].tag = f}
  <2>3. i \in tagged /\ tagged \subseteq Fields
    BY <2>1
  <2>4. Max(tagged) \in tagged /\ \A j \in tagged : j <= Max(tagged)
    BY <2>3, LastOf
  <2>5. Max(tagged) = i
    BY <2>2, <2>3, <2>4, Constants DEF Fields
  <2>6. FieldOf(str, f) = str[i].val
    BY <2>3, <2>5 DEF FieldOf
  <2>. QED  BY <1>4, <2>1, <2>6
<1>. QED  BY <1>5, <1>6

(* A read moves the front of the wire into the array. *)
LEMMA ReadInOrder ==
  ASSUME TypeInv, wire # <<>>, NEW k \in ReadLengths(Len(wire)), NEW f \in Fields,
         ParsedInOrder(f), WireInOrder(f),
         str' = Overwrite(str, SubSeq(wire, 1, k)),
         wire' = SubSeq(wire, k + 1, Len(wire)),
         UNCHANGED <<args, textMsg>>
  PROVE  ParsedInOrder(f)' /\ WireInOrder(f)'
<1>1. /\ k \in 1..N /\ k \in 1..Len(wire)
      /\ Len(wire') = Len(wire) - k /\ \A i \in 1..Len(wire') : wire'[i] = wire[k + i]
      /\ \A i \in Fields : str'[i] = IF i <= k THEN wire[i] ELSE str[i]
  BY ReadSplits
<1>2. \/ FieldOf(str', f) = Zero
      \/ FieldOf(str', f) = FieldOf(str, f)
      \/ \E i \in 1..k : wire[i].tag = f /\ FieldOf(str', f) = wire[i].val
  BY ReadParses
<1>3. Len(wire) \in Nat /\ N \in Nat
  BY Constants DEF TypeInv
<1>4. \A i \in 1..k : i \in 1..Len(wire)
  BY <1>1
<1>5. InOrder(args[f], FieldOf(str', f)) /\ InOrder(textMsg[f], FieldOf(str', f))
  BY <1>2, <1>4, ZeroInOrder DEF ParsedInOrder, WireInOrder
<1>6. FieldOf(str, f)' = FieldOf(str', f)
  BY DEF FieldOf
<1>7. ParsedInOrder(f)'
  BY <1>5, <1>6 DEF ParsedInOrder
<1>8. ASSUME NEW i \in 1..Len(wire'), wire'[i].tag = f
      PROVE  /\ InOrder(args[f], wire'[i].val)
             /\ InOrder(textMsg[f], wire'[i].val)
             /\ \A j \in Fields : str'[j].tag = f => InOrder(str'[j].val, wire'[i].val)
             /\ \A j \in 1..(i - 1) :
                  wire'[j].tag = f => InOrder(wire'[j].val, wire'[i].val)
  <2>1. k + i \in 1..Len(wire) /\ wire'[i] = wire[k + i] /\ wire[k + i].tag = f
    BY <1>1, <1>3, <1>8
  <2>2. ASSUME NEW j \in Fields, str'[j].tag = f
        PROVE  InOrder(str'[j].val, wire'[i].val)
    <3>1. CASE j <= k
      <4>1. str'[j] = wire[j] /\ j \in 1..((k + i) - 1)
        BY <1>1, <1>3, <1>8, <3>1 DEF Fields
      <4>. QED  BY <2>1, <2>2, <4>1 DEF WireInOrder
    <3>2. CASE ~(j <= k)
      <4>1. str'[j] = str[j]
        BY <1>1, <3>2
      <4>. QED  BY <2>1, <2>2, <4>1 DEF WireInOrder
    <3>. QED  BY <3>1, <3>2
  <2>3. ASSUME NEW j \in 1..(i - 1), wire'[j].tag = f
        PROVE  InOrder(wire'[j].val, wire'[i].val)
    <3>. DEFINE len == Len(wire')
    <3>0. len \in Nat /\ k \in Nat /\ i \in Nat /\ i <= len /\ i >= 1
      BY <1>1, <1>3, <1>8, SMTT(30)
    <3>. HIDE DEF len
    <3>1. j \in 1..len /\ k + j \in 1..((k + i) - 1)
      BY <3>0, <2>3
    <3>2. wire'[j] = wire[k + j]
      BY <1>1, <3>1 DEF len
    <3>. QED  BY <2>1, <2>3, <3>1, <3>2 DEF WireInOrder
  <2>. QED  BY <2>1, <2>2, <2>3 DEF WireInOrder
<1>9. WireInOrder(f)'
  BY <1>8 DEF WireInOrder
<1>. QED  BY <1>7, <1>9

(* A line sent is newer than all there is. *)
LEMMA SentInOrder ==
  ASSUME TypeInv, SendLine, NEW f \in Fields, WireInOrder(f)
  PROVE  WireInOrder(f)'
<1>1. /\ Len(wire') = Len(wire) + N
      /\ \A i \in 1..Len(wire) : wire'[i] = wire[i]
      /\ \A g \in Fields : wire'[Len(wire) + g] = [tag |-> g, val |-> Parsed(learned)]
  BY SendTypes
<1>0. \A g \in Fields : /\ wire'[Len(wire) + g].tag = g
                         /\ wire'[Len(wire) + g].val = Parsed(learned)
  <2>1. ASSUME NEW g \in Fields
        PROVE  /\ wire'[Len(wire) + g].tag = g
               /\ wire'[Len(wire) + g].val = Parsed(learned)
    <3>1. wire'[Len(wire) + g] = [tag |-> g, val |-> Parsed(learned)]
      BY <1>1
    <3>. QED  BY <3>1
  <2>. QED  BY <2>1
<1>2. UNCHANGED <<args, textMsg, str>>
  BY DEF SendLine, device
<1>3. Len(wire) \in Nat /\ N \in Nat /\ wire \in Seq(Units(learned))
  BY Constants DEF TypeInv
<1>4. /\ args[f] \in Known(learned) /\ textMsg[f] \in Known(learned)
      /\ \A j \in Fields : str[j].val \in Known(learned)
      /\ \A j \in 1..Len(wire) : wire[j].val \in Known(learned)
  <2>1. \A j \in 1..Len(wire) : wire[j] \in Units(learned)
    BY <1>3
  <2>2. \A j \in Fields : str[j] \in Units(learned)
    BY DEF TypeInv
  <2>3. \A u \in Units(learned) : u.val \in Known(learned)
    BY DEF Units
  <2>4. args[f] \in Known(learned) /\ textMsg[f] \in Known(learned)
    BY DEF TypeInv
  <2>. QED  BY <2>1, <2>2, <2>3, <2>4
<1>5. ASSUME NEW i \in 1..Len(wire'), wire'[i].tag = f
      PROVE  /\ InOrder(args[f], wire'[i].val)
             /\ InOrder(textMsg[f], wire'[i].val)
             /\ \A j \in Fields : str[j].tag = f => InOrder(str[j].val, wire'[i].val)
             /\ \A j \in 1..(i - 1) :
                  wire'[j].tag = f => InOrder(wire'[j].val, wire'[i].val)
  <2>1. CASE i \in 1..Len(wire)
    <3>1. wire'[i] = wire[i] /\ \A j \in 1..(i - 1) : wire'[j] = wire[j]
      BY <1>1, <1>3, <2>1
    <3>. QED  BY <1>5, <2>1, <3>1 DEF WireInOrder
  <2>2. CASE i \notin 1..Len(wire)
    <3>1. PICK g \in Fields : i = Len(wire) + g
      <4>1. i - Len(wire) \in Fields /\ i = Len(wire) + (i - Len(wire))
        BY <1>1, <1>3, <2>2 DEF Fields
      <4>. QED  BY <4>1
    <3>2. g = f /\ wire'[i].val = Parsed(learned)
      BY <1>0, <1>5, <3>1
    <3>3. ASSUME NEW j \in 1..(i - 1), wire'[j].tag = f
          PROVE  j \in 1..Len(wire)
      <4>1. CASE j > Len(wire)
        <5>1. j - Len(wire) \in Fields /\ j - Len(wire) # f /\ j = Len(wire) + (j - Len(wire))
          BY <1>1, <1>3, <3>1, <3>2, <3>3, <4>1 DEF Fields
        <5>2. wire'[j].tag = j - Len(wire)
          BY <1>0, <5>1
        <5>. QED  BY <3>3, <5>1, <5>2
      <4>2. CASE ~(j > Len(wire))
        BY <1>3, <4>2
      <4>. QED  BY <4>1, <4>2
    <3>. QED  BY <1>1, <1>4, <3>2, <3>3, LatestIsNewest
  <2>. QED  BY <2>1, <2>2
<1>. QED  BY <1>2, <1>5 DEF WireInOrder

(* The texts get what was parsed, the switches what is in the texts. *)
LEMMA StoreInOrder ==
  ASSUME TypeInv, Store, UNCHANGED server, msg = Parse(str),
         NEW f \in Fields, ParsedInOrder(f), WireInOrder(f)
  PROVE  ParsedInOrder(f)' /\ WireInOrder(f)'
<1>1. UNCHANGED <<args, str, wire>> /\ textMsg' = [textMsg EXCEPT ![next] = msg[next]]
  BY DEF Store, screen, link
<1>2. next \in Fields /\ textMsg = [g \in Fields |-> textMsg[g]]
  BY DEF TypeInv
<1>3. learned \in Nat /\ str \in [Fields -> Units(learned)]
  BY Constants DEF TypeInv
<1>4. CASE f # next
  <2>1. textMsg'[f] = textMsg[f]
    BY <1>1, <1>2, <1>4
  <2>. QED  BY <1>1, <2>1 DEF ParsedInOrder, WireInOrder, FieldOf
<1>5. CASE f = next
  <2>1. textMsg'[f] = FieldOf(str, f)
    BY <1>1, <1>2, <1>5 DEF Parse
  <2>2. FieldOf(str, f) \in Known(learned)
    BY <1>3, ParsedField
  <2>3. InOrder(FieldOf(str, f), FieldOf(str, f))
    BY <2>2, SameInOrder
  <2>4. ParsedInOrder(f)'
    <3>1. FieldOf(str, f)' = FieldOf(str, f)
      BY <1>1 DEF FieldOf
    <3>. QED  BY <1>1, <2>1, <2>3, <3>1 DEF ParsedInOrder
  <2>5. ASSUME NEW i \in 1..Len(wire), wire[i].tag = f
        PROVE  InOrder(FieldOf(str, f), wire[i].val)
    <3>1. \/ FieldOf(str, f) = Zero
          \/ \E j \in Fields : str[j].tag = f /\ FieldOf(str, f) = str[j].val
      BY <1>3, ParsedField
    <3>. QED  BY <2>5, <3>1, ZeroInOrder DEF WireInOrder
  <2>6. WireInOrder(f)'
    BY <1>1, <2>1, <2>5 DEF WireInOrder
  <2>. QED  BY <2>4, <2>6
<1>. QED  BY <1>4, <1>5

LEMMA SetTextInOrder ==
  ASSUME TypeInv, SetText, NEW f \in Fields, ParsedInOrder(f), WireInOrder(f)
  PROVE  ParsedInOrder(f)' /\ WireInOrder(f)'
<1>1. UNCHANGED <<textMsg, str, wire>> /\ args' = [args EXCEPT ![copying] = textMsg[copying]]
  BY DEF SetText, thread, link
<1>2. args'[f] = args[f] \/ args'[f] = textMsg[f]
  BY <1>1 DEF TypeInv
<1>3. InOrder(textMsg[f], textMsg[f])
  BY SameInOrder DEF TypeInv
<1>4. FieldOf(str, f)' = FieldOf(str, f)
  BY <1>1 DEF FieldOf
<1>5. ParsedInOrder(f)'
  BY <1>1, <1>2, <1>3, <1>4 DEF ParsedInOrder
<1>6. WireInOrder(f)'
  BY <1>1, <1>2 DEF WireInOrder
<1>. QED  BY <1>5, <1>6

LEMMA OrderClient ==
  ASSUME TypeInv, OrderInv, CNext, UNCHANGED server
  PROVE  OrderInv'
<1>. SUFFICES ASSUME clean PROVE OrderInv'
  BY DEF OrderInv, server
<1>0. \A f \in Fields : ParsedInOrder(f) /\ WireInOrder(f)
  BY DEF OrderInv
<1>. USE DEF thread, screen, link
<1>1. ASSUME UNCHANGED <<str, msg, textMsg, args, wire>>,
             net' \in {"store", "post"} => net \in {"store", "post"}
      PROVE  OrderInv'
  <2>1. \A f \in Fields : ParsedInOrder(f)' /\ WireInOrder(f)'
    BY <1>0, <1>1 DEF ParsedInOrder, WireInOrder, FieldOf
  <2>2. net' \in {"store", "post"} => msg' = Parse(str')
    BY <1>1 DEF OrderInv
  <2>3. Parse(str)' = Parse(str')
    BY DEF Parse, FieldOf
  <2>. QED  BY <2>1, <2>2, <2>3 DEF OrderInv
<1>2. CASE Click \/ VideoError \/ Connect \/ Post \/ HandleMessage
  <2>1. /\ UNCHANGED <<str, msg, textMsg, args, wire>>
        /\ net' \in {"store", "post"} => net \in {"store", "post"}
    BY <1>2 DEF Click, VideoError, Connect, Post, HandleMessage
  <2>. QED  BY <1>1, <2>1
<1>3. ASSUME ParseInto(str')
      PROVE  net' \in {"store", "post"} => msg' = Parse(str)'
  <2>1. Parse(str)' = Parse(str')
    BY DEF Parse, FieldOf
  <2>. QED  BY <1>3, <2>1 DEF ParseInto
<1>4. CASE ReadUnits
  <2>1. PICK k \in ReadLengths(Len(wire)) :
          /\ ParseInto(Overwrite(str, SubSeq(wire, 1, k)))
          /\ wire' = SubSeq(wire, k + 1, Len(wire))
    BY <1>4 DEF ReadUnits
  <2>2. wire # <<>> /\ UNCHANGED <<args, textMsg>>
    BY <1>4 DEF ReadUnits
  <2>3. str' = Overwrite(str, SubSeq(wire, 1, k)) /\ ParseInto(str')
    BY <2>1 DEF ParseInto
  <2>4. \A f \in Fields : ParsedInOrder(f)' /\ WireInOrder(f)'
    BY <1>0, <2>1, <2>2, <2>3, ReadInOrder
  <2>. QED  BY <1>3, <2>3, <2>4 DEF OrderInv
<1>5. CASE ReadEnd
  <2>1. str' = str /\ ParseInto(str') /\ UNCHANGED <<args, textMsg, wire>>
    BY <1>5 DEF ReadEnd, ParseInto
  <2>2. \A f \in Fields : ParsedInOrder(f)' /\ WireInOrder(f)'
    BY <1>0, <2>1 DEF ParsedInOrder, WireInOrder, FieldOf
  <2>. QED  BY <1>3, <2>1, <2>2 DEF OrderInv
<1>6. CASE Store
  <2>1. msg = Parse(str)
    BY <1>6 DEF OrderInv, Store
  <2>2. \A f \in Fields : ParsedInOrder(f)' /\ WireInOrder(f)'
    BY <1>0, <1>6, <2>1, StoreInOrder
  <2>3. msg' = msg /\ Parse(str)' = Parse(str)
    BY <1>6 DEF Store, Parse, FieldOf
  <2>. QED  BY <2>1, <2>2, <2>3 DEF OrderInv
<1>7. CASE CloseSocket
  <2>1. UNCHANGED <<str, textMsg, args>> /\ net' = "done" /\ wire' \in {wire, <<>>}
    BY <1>7 DEF CloseSocket
  <2>2. ASSUME NEW f \in Fields PROVE ParsedInOrder(f)' /\ WireInOrder(f)'
    <3>1. ParsedInOrder(f)'
      BY <1>0, <2>1 DEF ParsedInOrder, FieldOf
    <3>2. CASE wire' = wire
      BY <1>0, <2>1, <3>1, <3>2 DEF WireInOrder
    <3>3. CASE wire' = <<>>
      <4>1. 1..Len(wire') = {}
        BY <3>3
      <4>. QED  BY <3>1, <4>1 DEF WireInOrder
    <3>. QED  BY <2>1, <3>1, <3>2, <3>3
  <2>. QED  BY <2>1, <2>2 DEF OrderInv
<1>8. CASE SetText
  <2>1. \A f \in Fields : ParsedInOrder(f)' /\ WireInOrder(f)'
    BY <1>0, <1>8, SetTextInOrder
  <2>2. UNCHANGED <<net, msg, str>>
    BY <1>8 DEF SetText
  <2>3. Parse(str)' = Parse(str)
    BY <2>2 DEF Parse, FieldOf
  <2>. QED  BY <2>1, <2>2, <2>3 DEF OrderInv
<1>. QED
  BY <1>2, <1>4, <1>5, <1>6, <1>7, <1>8 DEF CNext, NetworkThread, UiThread, User

LEMMA OrderServer ==
  ASSUME TypeInv, OrderInv, Server
  PROVE  OrderInv'
<1>. SUFFICES ASSUME clean' PROVE OrderInv'
  BY DEF OrderInv
<1>1. clean /\ UNCHANGED <<net, str, msg, textMsg, args>>
  BY DEF Server, LearnLine, SendLine, SendGarbage, ServerDies, device, server
<1>2. /\ \A f \in Fields : ParsedInOrder(f) /\ WireInOrder(f)
      /\ net \in {"store", "post"} => msg = Parse(str)
  BY <1>1 DEF OrderInv
<1>3. \A f \in Fields : ParsedInOrder(f)'
  BY <1>1, <1>2 DEF ParsedInOrder, FieldOf
<1>4. net' \in {"store", "post"} => msg' = Parse(str)'
  BY <1>1, <1>2 DEF Parse, FieldOf
<1>5. CASE SendLine
  <2>1. \A f \in Fields : WireInOrder(f)'
    BY <1>2, <1>5, SentInOrder
  <2>. QED  BY <1>3, <1>4, <2>1 DEF OrderInv
<1>6. CASE LearnLine \/ SendGarbage \/ ServerDies
  <2>1. wire' = wire
    BY <1>6 DEF LearnLine, SendGarbage, ServerDies, link
  <2>2. \A f \in Fields : WireInOrder(f)'
    BY <1>1, <1>2, <2>1 DEF WireInOrder
  <2>. QED  BY <1>3, <1>4, <2>2 DEF OrderInv
<1>. QED  BY <1>5, <1>6 DEF Server

LEMMA OrderNext == TypeInv /\ OrderInv /\ [TNext]_tvars => OrderInv'
<1>1. ASSUME OrderInv, UNCHANGED tvars PROVE OrderInv'
  <2>1. UNCHANGED <<net, str, msg, textMsg, args, wire, clean>>
    BY <1>1 DEF tvars, cvars, server
  <2>. QED
    BY <1>1, <2>1, ZenonT(40) DEF OrderInv, ParsedInOrder, WireInOrder, Parse, FieldOf
<1>. QED  BY <1>1, OrderClient, OrderServer DEF TNext

(* No switch ever goes back to an older value, though reads cut the stream *)
(* anywhere, the array keeps old units and the two threads race.           *)
THEOREM SwitchesNeverStepBack == TSpec => NoSwitchStepsBack
<1>1. TSpec => []OrderInv
  BY TypeInvariant, OrderInit, OrderNext, PTL DEF TSpec
<1>2. ASSUME TypeInv, OrderInv, [TNext]_tvars, clean, NEW f \in Fields
      PROVE  ~StepsBack(args[f], args'[f])
  <2>1. args'[f] = args[f] \/ args'[f] = textMsg[f]
    <3>1. CASE SetText
      BY <1>2, <3>1 DEF SetText, TypeInv
    <3>2. CASE ~SetText
      BY <1>2, <3>2
      DEF TNext, CNext, NetworkThread, UiThread, User, Click, VideoError, Connect,
          ReadUnits, ReadEnd, Store, Post, CloseSocket, HandleMessage, Server,
          LearnLine, SendLine, SendGarbage, ServerDies, screen, device, tvars, cvars
    <3>. QED  BY <3>1, <3>2
  <2>2. InOrder(args[f], args[f])
    BY <1>2, SameInOrder DEF TypeInv
  <2>3. InOrder(args[f], textMsg[f])
    BY <1>2 DEF OrderInv, ParsedInOrder
  <2>. QED  BY <2>1, <2>2, <2>3 DEF InOrder
<1>3. TypeInv /\ OrderInv /\ [TNext]_tvars
        => [clean => \A f \in Fields : ~StepsBack(args[f], args'[f])]_tvars
  BY <1>2
<1>. QED  BY <1>1, <1>3, TypeInvariant, PTL DEF TSpec, NoSwitchStepsBack
=============================================================================
