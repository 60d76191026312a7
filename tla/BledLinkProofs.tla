--------------------------- MODULE BledLinkProofs ---------------------------
(* Theorems about the readers of the dongle's packets, for every input, and *)
(* about the session with the armband, which calls them.                   *)
EXTENDS BledLink, BgapiReaders, SequenceTheorems, FiniteSetTheorems,
        WellFoundedInduction, TLAPS

Byte == 0..255

(* A set of numbers that is climbed step by step holds all of them. *)
LEMMA Climb ==
  ASSUME NEW n \in Nat, NEW S, 0 \in S, \A k \in 1..n : k - 1 \in S => k \in S
  PROVE  \A k \in 0..n : k \in S
<1>. SUFFICES ASSUME ~(0..n \subseteq S) PROVE FALSE
  OBVIOUS
<1>. DEFINE T == (0..n) \ S
<1>1. T \subseteq Nat /\ T # {}
  OBVIOUS
<1>2. PICK t \in T : \A u \in T : ~(<<u, t>> \in OpToRel(<, Nat))
  <2>. HIDE DEF T
  <2>. QED  BY <1>1, NatLessThanWellFounded, WFMin
<1>3. t \in 1..n /\ t \notin S /\ t - 1 \in 0..n
  OBVIOUS
<1>4. t - 1 \in S
  <2>1. t - 1 \in Nat /\ t \in Nat /\ t - 1 < t
    BY <1>3
  <2>2. <<t - 1, t>> \in OpToRel(<, Nat)
    BY <2>1 DEF OpToRel
  <2>. QED  BY <1>2, <1>3, <2>2
<1>. QED  BY <1>3, <1>4

-----------------------------------------------------------------------------
(* The calls of the readers, byte by byte. *)

Readers == [buf : Seq(Byte), expected : Nat]
Calls == [reader : Readers, taken : Nat, found : BOOLEAN]
StartCall == [reader |-> Fresh, taken |-> 0, found |-> FALSE]

WantedBy(kind, r) ==
  IF kind = "value" THEN IsValue(r)
  ELSE IF kind \in {"group", "information"} THEN IsCompleted(r) ELSE Complete(r)
ReadBy(kind, r, b) ==
  IF kind = "answer" THEN ResponseByte(AnswerLength, r, b)
  ELSE IF kind = "group" THEN GroupByte(r, b) ELSE EventByte(r, b)
StepOf(kind, call, b) ==
  LET reader == ReadBy(kind, call.reader, b)
  IN  IF call.found THEN call
      ELSE [reader |-> reader, taken |-> call.taken + 1, found |-> WantedBy(kind, reader)]

RunOf(kind, in) ==
  CHOOSE f : f = [k \in 0..Len(in) |-> IF k = 0 THEN StartCall
                                       ELSE StepOf(kind, f[k - 1], in[k].b)]

LEMMA CallsAreRuns ==
  ASSUME NEW in
  PROVE  /\ AnswerCall(in) = RunOf("answer", in)[Len(in)]
         /\ ValueCall(in) = RunOf("value", in)[Len(in)]
         /\ StatusCall(in) = [RunOf("status", in)[Len(in)] EXCEPT !.taken = Len(in)]
         /\ GroupCall(in) = RunOf("group", in)[Len(in)]
         /\ InformationCall(in) = RunOf("information", in)[Len(in)]
<1>1. AnswerCall(in) = RunOf("answer", in)[Len(in)]
  BY DEF AnswerCall, Call, RunOf, StepOf, StartCall, ReadBy, WantedBy
<1>2. ValueCall(in) = RunOf("value", in)[Len(in)]
  BY DEF ValueCall, Call, RunOf, StepOf, StartCall, ReadBy, WantedBy
<1>3. StatusCall(in) = [RunOf("status", in)[Len(in)] EXCEPT !.taken = Len(in)]
  BY DEF StatusCall, Call, RunOf, StepOf, StartCall, ReadBy, WantedBy
<1>4. GroupCall(in) = RunOf("group", in)[Len(in)]
  BY DEF GroupCall, Call, RunOf, StepOf, StartCall, ReadBy, WantedBy
<1>5. InformationCall(in) = RunOf("information", in)[Len(in)]
  BY DEF InformationCall, InformationByte, Call, RunOf, StepOf, StartCall, ReadBy, WantedBy
<1>. QED  BY <1>1, <1>2, <1>3, <1>4, <1>5

LEMMA ReadType ==
  ASSUME NEW kind, NEW r \in Readers, NEW b \in Byte
  PROVE  ReadBy(kind, r, b) \in Readers /\ WantedBy(kind, r) \in BOOLEAN
<1>1. Append(r.buf, b) \in Seq(Byte) /\ r.expected \in Nat /\ 4 + b \in Nat
  BY DEF Readers, Byte
<1>2. Collect(r, b) \in Readers /\ Sized(r, b) \in Readers /\ Fresh \in Readers
  BY <1>1 DEF Collect, Sized, Fresh, Readers
<1>3. ReadBy(kind, r, b) \in Readers
  BY <1>2 DEF ReadBy, ResponseByte, EventByte, GroupByte
<1>4. WantedBy(kind, r) \in BOOLEAN
  BY DEF WantedBy, IsValue, IsCompleted, Complete
<1>. QED  BY <1>3, <1>4

LEMMA StepType ==
  ASSUME NEW kind, NEW call \in Calls, NEW b \in Byte
  PROVE  StepOf(kind, call, b) \in Calls
<1>. DEFINE r == ReadBy(kind, call.reader, b)
<1>1. r \in Readers /\ WantedBy(kind, r) \in BOOLEAN
  BY ReadType DEF Calls
<1>2. StepOf(kind, call, b) = IF call.found THEN call
        ELSE [reader |-> r, taken |-> call.taken + 1, found |-> WantedBy(kind, r)]
  BY DEF StepOf
<1>. HIDE DEF r
<1>3. call.taken + 1 \in Nat
  BY DEF Calls
<1>4. [reader |-> r, taken |-> call.taken + 1, found |-> WantedBy(kind, r)] \in Calls
  BY <1>1, <1>3 DEF Calls
<1>. QED  BY <1>2, <1>4

(* There is a computation that goes from call to call: the recursive       *)
(* function of Call is chosen to be such a one.                            *)
LEMMA Computation ==
  ASSUME NEW n \in Nat, NEW G \in [1..n -> [Calls -> Calls]]
  PROVE  \E f \in [0..n -> Calls] :
           f[0] = StartCall /\ \A k \in 1..n : f[k] = G[k][f[k - 1]]
<1>. DEFINE Is(f, m) == f \in [0..m -> Calls] /\ f[0] = StartCall /\ \A k \in 1..m : f[k] = G[k][f[k - 1]]
            T == {m \in 0..n : \E f : Is(f, m)}
<1>0. StartCall \in Calls
  BY DEF StartCall, Calls, Readers, Fresh
<1>1. 0 \in T
  <2>1. Is([k \in 0..0 |-> StartCall], 0)
    BY <1>0
  <2>2. \E f : Is(f, 0)
    BY <2>1
  <2>3. 0 \in 0..n
    OBVIOUS
  <2>. QED  BY <2>2, <2>3
<1>2. ASSUME NEW m \in 1..n, m - 1 \in T PROVE m \in T
  <2>1. PICK g : Is(g, m - 1)
    BY <1>2
  <2>2. m - 1 \in 0..(m - 1) /\ m \in 0..n /\ g[m - 1] \in Calls /\ G[m][g[m - 1]] \in Calls
    <3>1. m - 1 \in 0..(m - 1) /\ m \in 0..n
      OBVIOUS
    <3>2. g[m - 1] \in Calls
      BY <2>1, <3>1
    <3>. QED  BY <3>1, <3>2
  <2>. DEFINE h == [k \in 0..m |-> IF k = m THEN G[m][g[m - 1]] ELSE g[k]]
  <2>3. \A k \in 0..m : k = m \/ k \in 0..(m - 1)
    OBVIOUS
  <2>4. h \in [0..m -> Calls]
    BY <2>1, <2>2, <2>3
  <2>5. h[0] = StartCall
    <3>1. 0 \in 0..m /\ 0 # m
      OBVIOUS
    <3>. QED  BY <2>1, <3>1
  <2>6. ASSUME NEW k \in 1..m PROVE h[k] = G[k][h[k - 1]]
    <3>1. CASE k = m
      <4>1. m - 1 # m /\ m - 1 \in 0..m /\ m \in 0..m
        OBVIOUS
      <4>. QED  BY <3>1, <4>1
    <3>2. CASE k # m
      <4>1. k \in 1..(m - 1) /\ k \in 0..m /\ k - 1 \in 0..m /\ k - 1 # m
        BY <3>2
      <4>2. g[k] = G[k][g[k - 1]]
        BY <2>1, <4>1
      <4>. QED  BY <3>2, <4>1, <4>2
    <3>. QED  BY <3>1, <3>2
  <2>. HIDE DEF h
  <2>7. Is(h, m)
    BY <2>4, <2>5, <2>6
  <2>. HIDE DEF Is
  <2>. QED  BY <2>2, <2>7
<1>3. n \in T
  <2>1. n \in 0..n
    OBVIOUS
  <2>. HIDE DEF T
  <2>. QED  BY <1>1, <1>2, <2>1, Climb
<1>. QED  BY <1>3

(* A run starts afresh, takes byte by byte, and keeps its type. *)
LEMMA RunSteps ==
  ASSUME NEW kind, NEW in, Len(in) \in Nat, \A k \in 1..Len(in) : in[k].b \in Byte
  PROVE  LET f == RunOf(kind, in)
         IN  /\ f \in [0..Len(in) -> Calls]
             /\ f[0] = StartCall
             /\ \A k \in 1..Len(in) : f[k] = StepOf(kind, f[k - 1], in[k].b)
<1>. DEFINE n == Len(in)
            Is(f) == f = [k \in 0..n |-> IF k = 0 THEN StartCall
                                         ELSE StepOf(kind, f[k - 1], in[k].b)]
            G == [k \in 1..n |-> [c \in Calls |-> StepOf(kind, c, in[k].b)]]
<1>1. StartCall \in Calls
  BY DEF StartCall, Calls, Readers, Fresh
<1>2. G \in [1..n -> [Calls -> Calls]]
  BY StepType
<1>3. PICK g \in [0..n -> Calls] : g[0] = StartCall /\ \A k \in 1..n : g[k] = G[k][g[k - 1]]
  <2>1. n \in Nat
    OBVIOUS
  <2>. HIDE DEF G, n
  <2>. QED  BY <1>2, <2>1, Computation
<1>4. ASSUME NEW k \in 1..n PROVE g[k] = StepOf(kind, g[k - 1], in[k].b)
  <2>1. k - 1 \in 0..n
    OBVIOUS
  <2>2. g[k - 1] \in Calls
    BY <2>1
  <2>. QED  BY <1>3, <2>2
<1>5. Is(g)
  <2>1. ASSUME NEW k \in 0..n
        PROVE  g[k] = IF k = 0 THEN StartCall ELSE StepOf(kind, g[k - 1], in[k].b)
    BY <1>3, <1>4
  <2>2. g = [k \in 0..n |-> g[k]]
    OBVIOUS
  <2>. QED  BY <2>1, <2>2
<1>. DEFINE f == RunOf(kind, in)
<1>6. Is(f)
  BY <1>5 DEF RunOf
<1>. HIDE DEF f, n
<1>7. DOMAIN f = 0..n /\ f = [k \in 0..n |-> f[k]]
  BY <1>6
<1>8. 0 \in 0..n /\ \A k \in 1..n : k \in 0..n /\ k # 0
  BY DEF n
<1>9. f[0] = StartCall /\ \A k \in 1..n : f[k] = StepOf(kind, f[k - 1], in[k].b)
  BY <1>6, <1>8
<1>10. \A k \in 0..n : k \in {j \in 0..n : f[j] \in Calls}
  <2>. DEFINE S == {j \in 0..n : f[j] \in Calls}
  <2>1. 0 \in S
    BY <1>1, <1>8, <1>9
  <2>2. ASSUME NEW k \in 1..n, k - 1 \in S PROVE k \in S
    <3>1. in[k].b \in Byte
      BY DEF n
    <3>. QED  BY <1>8, <1>9, <2>2, <3>1, StepType
  <2>3. n \in Nat
    BY DEF n
  <2>. HIDE DEF S
  <2>. QED  BY <2>1, <2>2, <2>3, Climb DEF S
<1>11. f \in [0..n -> Calls]
  BY <1>7, <1>10
<1>. QED  BY <1>9, <1>11 DEF f, n

-----------------------------------------------------------------------------
(* The readers of events that never start again. *)

Events == {"value", "status", "information"}

(* The bytes are of a packet that the reader wants, with this length. *)
Wants(kind, b) ==
  /\ kind = "value" => b \in {ValueCommand, CompletedCommand}
  /\ kind = "information" => b = CompletedCommand
Hit(kind, in) == in[2].b # EventType /\ Wants(kind, in[4].b)
FoundBehind(kind, in, k) == k >= 4 /\ Hit(kind, in) /\ k >= 4 + in[2].b

(* The reader holds all it has taken, and knows a length once the second    *)
(* byte has told it; it takes no more when it has found its packet.        *)
EventRun(kind, in, k, call) ==
  /\ call.found = FoundBehind(kind, in, k)
  /\ call.taken = IF call.found THEN 4 + in[2].b ELSE k
  /\ Len(call.reader.buf) = call.taken
  /\ \A j \in 1..call.taken : call.reader.buf[j] = in[j].b
  /\ ~call.found =>
       call.reader.expected = (IF k >= 2 /\ in[2].b # EventType THEN 4 + in[2].b ELSE 0)

LEMMA CellByte == \A c \in Cells : c.b \in Byte
BY DEF Cells, Byte

LEMMA EventRunStep ==
  ASSUME NEW kind \in Events,
         NEW in, NEW k \in Nat \ {0}, \A j \in 1..k : in[j].b \in Byte,
         NEW call \in Calls, EventRun(kind, in, k - 1, call)
  PROVE  EventRun(kind, in, k, StepOf(kind, call, in[k].b))
<1>. DEFINE b == in[k].b
            r == call.reader
            r2 == EventByte(r, b)
            next == StepOf(kind, call, b)
<1>1. b \in Byte /\ (k >= 2 => in[2].b \in Nat) /\ r \in Readers /\ call.found \in BOOLEAN
  <2>1. b \in Byte
    OBVIOUS
  <2>2. k >= 2 => in[2].b \in Byte
    OBVIOUS
  <2>3. Byte \subseteq Nat
    BY DEF Byte
  <2>. QED  BY <2>1, <2>2, <2>3 DEF Calls
<1>2. next = IF call.found THEN call
             ELSE [reader |-> r2, taken |-> call.taken + 1, found |-> WantedBy(kind, r2)]
  BY DEF StepOf, ReadBy, Events
<1>. HIDE DEF next
<1>3. CASE call.found
  <2>1. FoundBehind(kind, in, k - 1) /\ call.taken = 4 + in[2].b
    BY <1>3 DEF EventRun
  <2>2. FoundBehind(kind, in, k)
    BY <1>1, <2>1 DEF FoundBehind
  <2>3. next = call
    BY <1>2, <1>3
  <2>. QED  BY <1>3, <2>1, <2>2, <2>3 DEF EventRun, next
<1>4. CASE ~call.found
  <2>0. /\ call.taken = k - 1 /\ Len(r.buf) = k - 1
        /\ \A j \in 1..(k - 1) : r.buf[j] = in[j].b
        /\ r.expected = (IF k - 1 >= 2 /\ in[2].b # EventType THEN 4 + in[2].b ELSE 0)
        /\ ~FoundBehind(kind, in, k - 1)
    BY <1>4 DEF EventRun
  <2>1. r2.buf = Append(r.buf, b)
    BY <1>1 DEF EventByte, Sized, Collect, Readers
  <2>2. /\ Len(r2.buf) = k
        /\ \A j \in 1..k : r2.buf[j] = in[j].b
    <3>1. r.buf \in Seq(Byte)
      BY <1>1 DEF Readers
    <3>. HIDE DEF r, b, r2
    <3>2. Len(Append(r.buf, b)) = k
      BY <2>0, <3>1
    <3>3. ASSUME NEW j \in 1..k PROVE Append(r.buf, b)[j] = in[j].b
      <4>1. CASE j = k
        BY <2>0, <3>1, <4>1 DEF b
      <4>2. CASE j # k
        <5>1. j \in 1..(k - 1)
          BY <4>2
        <5>2. Append(r.buf, b)[j] = r.buf[j]
          BY <2>0, <3>1, <5>1
        <5>. QED  BY <2>0, <5>1, <5>2
      <4>. QED  BY <4>1, <4>2
    <3>. QED  BY <2>1, <3>2, <3>3
  <2>3. r2.expected = (IF k >= 2 /\ in[2].b # EventType THEN 4 + in[2].b ELSE 0)
    <3>1. CASE k = 2
      <4>1. Started(r)
        BY <2>0, <3>1 DEF Started
      <4>2. r2 = IF in[2].b # EventType THEN Sized(r, b) ELSE Collect(r, b)
        BY <3>1, <4>1 DEF EventByte
      <4>3. Sized(r, b).expected = 4 + in[2].b /\ Collect(r, b).expected = 0
        BY <1>1, <2>0, <3>1 DEF Sized, Collect, Readers
      <4>. QED  BY <3>1, <4>2, <4>3
    <3>2. CASE k # 2
      <4>1. ~Started(r)
        BY <2>0, <3>2 DEF Started
      <4>2. r2.expected = r.expected
        BY <1>1, <4>1 DEF EventByte, Collect, Readers
      <4>3. k - 1 >= 2 <=> k >= 2
        BY <3>2
      <4>. QED  BY <2>0, <4>2, <4>3
    <3>. QED  BY <3>1, <3>2
  <2>4. WantedBy(kind, r2) = FoundBehind(kind, in, k)
    <3>0. /\ WantedBy(kind, r2) <=> (Complete(r2) /\ Wants(kind, r2.buf[4]))
          /\ WantedBy(kind, r2) \in BOOLEAN /\ FoundBehind(kind, in, k) \in BOOLEAN
      <4>. HIDE DEF r2
      <4>. QED  BY DEF WantedBy, IsValue, IsCompleted, Complete, Wants, Events, FoundBehind
    <3>1. CASE k >= 2 /\ in[2].b # EventType
      <4>1. r2.expected = 4 + in[2].b /\ in[2].b \in Nat
        BY <1>1, <2>3, <3>1
      <4>2. Complete(r2) <=> k = 4 + in[2].b
        BY <2>2, <4>1 DEF Complete
      <4>3. k >= 4 => r2.buf[4] = in[4].b
        BY <2>2
      <4>4. (k >= 4 + in[2].b /\ Hit(kind, in)) <=> (k = 4 + in[2].b /\ Hit(kind, in))
        BY <2>0, <4>1 DEF FoundBehind
      <4>5. k = 4 + in[2].b => k >= 4
        BY <4>1
      <4>6. WantedBy(kind, r2) <=> FoundBehind(kind, in, k)
        <5>. HIDE DEF r2
        <5>1. FoundBehind(kind, in, k) <=> k >= 4 /\ k = 4 + in[2].b /\ Wants(kind, in[4].b)
          BY <3>1, <4>4 DEF FoundBehind, Hit
        <5>. QED  BY <3>0, <4>2, <4>3, <4>5, <5>1
      <4>. QED  BY <3>0, <4>6
    <3>2. CASE ~(k >= 2 /\ in[2].b # EventType)
      <4>1. r2.expected = 0
        BY <2>3, <3>2
      <4>2. ~Complete(r2)
        BY <4>1 DEF Complete
      <4>3. ~FoundBehind(kind, in, k)
        BY <3>2 DEF FoundBehind, Hit
      <4>. HIDE DEF r2
      <4>. QED  BY <3>0, <4>2, <4>3
    <3>. QED  BY <3>1, <3>2
  <2>5. next.found = FoundBehind(kind, in, k) /\ next.taken = k /\ next.reader = r2
    <3>1. call.taken + 1 = k
      BY <2>0
    <3>. QED  BY <1>2, <1>4, <2>4, <3>1
  <2>6. next.found => next.taken = 4 + in[2].b
    <3>1. FoundBehind(kind, in, k) => k = 4 + in[2].b
      BY <1>1, <2>0 DEF FoundBehind
    <3>. QED  BY <2>5, <3>1
  <2>. HIDE DEF r2
  <2>7. next.taken = IF next.found THEN 4 + in[2].b ELSE k
    BY <2>5, <2>6
  <2>8. Len(next.reader.buf) = next.taken
        /\ \A j \in 1..next.taken : next.reader.buf[j] = in[j].b
    BY <2>2, <2>5
  <2>. QED  BY <2>3, <2>5, <2>7, <2>8 DEF EventRun, next
<1>. QED  BY <1>3, <1>4

LEMMA EventsRun ==
  ASSUME NEW kind \in Events,
         NEW in, Len(in) \in Nat, \A k \in 1..Len(in) : in[k].b \in Byte
  PROVE  EventRun(kind, in, Len(in), RunOf(kind, in)[Len(in)])
<1>. DEFINE n == Len(in)
            f == RunOf(kind, in)
            S == {k \in 0..n : EventRun(kind, in, k, f[k])}
<1>1. f \in [0..n -> Calls] /\ f[0] = StartCall
      /\ \A k \in 1..n : f[k] = StepOf(kind, f[k - 1], in[k].b)
  BY RunSteps
<1>. HIDE DEF f
<1>2. 0 \in S
  <2>1. EventRun(kind, in, 0, StartCall)
    <3>1. StartCall.found = FALSE /\ StartCall.taken = 0 /\ StartCall.reader = Fresh
          /\ Fresh.buf = <<>> /\ Fresh.expected = 0
      BY DEF StartCall, Fresh
    <3>2. Len(<<>>) = 0 /\ 1..0 = {} /\ ~(0 >= 2) /\ ~(0 >= 4)
      OBVIOUS
    <3>3. FoundBehind(kind, in, 0) = FALSE
      BY <3>2 DEF FoundBehind
    <3>. QED  BY <3>1, <3>2, <3>3 DEF EventRun
  <2>2. 0 \in 0..n
    OBVIOUS
  <2>. QED  BY <1>1, <2>1, <2>2
<1>3. ASSUME NEW k \in 1..n, k - 1 \in S PROVE k \in S
  <2>1. k \in 0..n /\ k - 1 \in 0..n /\ k \in Nat \ {0} /\ \A j \in 1..k : in[j].b \in Byte
    OBVIOUS
  <2>2. f[k - 1] \in Calls /\ EventRun(kind, in, k - 1, f[k - 1])
    BY <1>1, <1>3, <2>1
  <2>3. f[k] = StepOf(kind, f[k - 1], in[k].b)
    BY <1>1
  <2>. QED  BY <2>1, <2>2, <2>3, EventRunStep
<1>4. n \in Nat /\ n \in 0..n
  OBVIOUS
<1>5. n \in S
  <2>. HIDE DEF S, n
  <2>. QED  BY <1>2, <1>3, <1>4, Climb
<1>. QED  BY <1>5 DEF f

(* On every input, of whatever length: the reader of values finds a packet  *)
(* exactly if the second byte, for a length, and the fourth say there is    *)
(* one, and takes it and nothing behind it (ble_event_attclient_attribute_value *)
(* of bledAPI.py).                                                         *)
THEOREM ValuesByLength ==
  ASSUME NEW in, Len(in) \in Nat, \A k \in 1..Len(in) : in[k].b \in Byte
  PROVE  LET found == /\ Len(in) >= 4
                      /\ in[2].b # EventType
                      /\ Len(in) >= 4 + in[2].b
                      /\ in[4].b \in {ValueCommand, CompletedCommand}
         IN  /\ ValueCall(in).found = found
             /\ found => ValueCall(in).taken = 4 + in[2].b
<1>1. EventRun("value", in, Len(in), ValueCall(in))
  <2>1. "value" \in Events
    BY DEF Events
  <2>2. EventRun("value", in, Len(in), RunOf("value", in)[Len(in)])
    BY <2>1, EventsRun
  <2>. QED  BY <2>2, CallsAreRuns
<1>. QED  BY <1>1 DEF EventRun, FoundBehind, Hit, Wants

-----------------------------------------------------------------------------
(* The reader of responses. *)

Stops(in, i) == in[2 * i].b \in {ResponseType, AnswerLength}

(* The reader looks at every second byte up to the 2m-th, the first that    *)
(* stops it: there it holds one byte or none, then it is stuck without a    *)
(* length, or it collects the seven bytes from the one before on.          *)
Searching(k, call) ==
  /\ ~call.found /\ call.taken = k /\ call.reader.expected = 0
  /\ \E i \in 0..k, o \in {0, 1} : k = 2 * i + o /\ Len(call.reader.buf) = o
Stuck(call) ==
  ~call.found /\ call.reader.expected = 0 /\ Len(call.reader.buf) >= 2
Collecting(m, k, call) ==
  /\ call.found = (k >= 2 * m + 5)
  /\ call.found => call.taken = 2 * m + 5
  /\ call.reader.expected = 7
  /\ ~call.found => call.taken = k /\ Len(call.reader.buf) = k - 2 * m + 2
  /\ call.found => Len(call.reader.buf) = 7

AnswerRun(in, m, k, call) ==
  IF k < 2 * m THEN Searching(k, call)
  ELSE IF in[2 * m].b = ResponseType THEN Stuck(call)
  ELSE Collecting(m, k, call)

LEMMA AnswerRunStep ==
  ASSUME NEW in, NEW k \in Nat \ {0}, in[k].b \in Byte, NEW m \in Nat \ {0},
         \A i \in 1..(m - 1) : 2 * i = k => ~Stops(in, i),
         2 * m = k => Stops(in, m),
         NEW call \in Calls, AnswerRun(in, m, k - 1, call)
  PROVE  AnswerRun(in, m, k, StepOf("answer", call, in[k].b))
<1>. DEFINE b == in[k].b
            r == call.reader
            r2 == ResponseByte(AnswerLength, r, b)
            next == StepOf("answer", call, b)
<1>1. b \in Nat /\ r \in Readers /\ call.found \in BOOLEAN /\ call.taken \in Nat
  BY DEF Calls, Byte
<1>2. r.buf \in Seq(Byte) /\ Len(r.buf) \in Nat /\ r.expected \in Nat
  BY <1>1 DEF Readers
<1>3. next = IF call.found THEN call
             ELSE [reader |-> r2, taken |-> call.taken + 1, found |-> Complete(r2)]
  BY DEF StepOf, ReadBy, WantedBy
<1>4. r2 = IF ~Started(r) \/ b = 0 THEN Collect(r, b)
           ELSE IF b = 3 THEN Sized(r, b) ELSE Fresh
  BY DEF ResponseByte, ResponseType, AnswerLength
<1>5. /\ Len(Append(r.buf, b)) = Len(r.buf) + 1
      /\ Collect(r, b).buf = Append(r.buf, b) /\ Collect(r, b).expected = r.expected
      /\ Sized(r, b).buf = Append(r.buf, b) /\ Sized(r, b).expected = 4 + b
      /\ Len(Fresh.buf) = 0 /\ Fresh.expected = 0
  BY <1>1, <1>2 DEF Collect, Sized, Fresh, Readers
<1>6. Started(r) <=> r.expected = 0 /\ Len(r.buf) = 1
  BY DEF Started
<1>7. Complete(r2) <=> r2.expected > 0 /\ Len(r2.buf) = r2.expected
  BY DEF Complete
<1>8. Complete(r2) \in BOOLEAN
  BY DEF Complete
<1>13. ASSUME ~Started(r) \/ b = 0
       PROVE  Len(r2.buf) = Len(r.buf) + 1 /\ r2.expected = r.expected
  <2>1. r2 = Collect(r, b)
    BY <1>4, <1>13
  <2>. HIDE DEF r2, r, b
  <2>. QED  BY <1>5, <2>1
<1>14. ASSUME Started(r), b = 3
       PROVE  Len(r2.buf) = Len(r.buf) + 1 /\ r2.expected = 7
  <2>1. r2 = Sized(r, b) /\ 4 + b = 7
    BY <1>4, <1>14
  <2>. HIDE DEF r2, r, b
  <2>. QED  BY <1>5, <2>1
<1>. HIDE DEF next, r2, r, b
<1>9. ASSUME ~call.found
      PROVE  next.reader = r2 /\ next.taken = call.taken + 1 /\ next.found = Complete(r2)
  BY <1>3, <1>9
<1>10. CASE k - 1 < 2 * m
  <2>1. Searching(k - 1, call)
    BY <1>10 DEF AnswerRun
  <2>2. PICK i \in 0..(k - 1), o \in {0, 1} : k - 1 = 2 * i + o /\ Len(r.buf) = o
    BY <2>1 DEF Searching, r
  <2>3. ~call.found /\ call.taken = k - 1 /\ r.expected = 0
    BY <2>1 DEF Searching, r
  <2>4. CASE o = 0
    <3>1. Len(r2.buf) = 1 /\ r2.expected = 0
      <4>1. ~Started(r)
        BY <1>6, <2>2, <2>4
      <4>. QED  BY <1>13, <2>2, <2>3, <2>4, <4>1
    <3>2. ~Complete(r2)
      BY <1>7, <3>1
    <3>3. k = 2 * i + 1 /\ i \in 0..k
      BY <2>2, <2>4
    <3>4. k < 2 * m
      BY <1>10, <3>3
    <3>5. next.found = FALSE
      BY <1>8, <1>9, <2>3, <3>2
    <3>6. next.taken = k /\ next.reader = r2
      BY <1>9, <2>3
    <3>7. Searching(k, next)
      BY <3>1, <3>3, <3>5, <3>6 DEF Searching
    <3>. QED  BY <3>4, <3>7 DEF AnswerRun, next, b
  <2>5. CASE o = 1
    <3>1. k = 2 * (i + 1) /\ i + 1 \in 1..k /\ i + 1 \in 0..k /\ i + 1 <= m
      BY <1>10, <2>2, <2>5
    <3>2. Started(r)
      BY <1>6, <2>2, <2>3, <2>5
    <3>3. next.taken = k /\ next.reader = r2 /\ next.found = Complete(r2)
      BY <1>9, <2>3
    <3>4. CASE i + 1 # m
      <4>1. i + 1 \in 1..(m - 1) /\ k < 2 * m
        BY <3>1, <3>4
      <4>2. ~Stops(in, i + 1)
        BY <3>1, <4>1
      <4>3. b # 0 /\ b # 3
        BY <3>1, <4>2 DEF Stops, ResponseType, AnswerLength, b
      <4>4. Len(r2.buf) = 0 /\ r2.expected = 0
        BY <1>4, <1>5, <3>2, <4>3
      <4>5. ~Complete(r2)
        BY <1>7, <4>4
      <4>6. ~next.found
        BY <3>3, <4>5
      <4>7. k = 2 * (i + 1) + 0
        BY <3>1
      <4>8. Searching(k, next)
        BY <3>1, <3>3, <4>4, <4>6, <4>7 DEF Searching
      <4>. QED  BY <4>1, <4>8 DEF AnswerRun, next, b
    <3>5. CASE i + 1 = m
      <4>1. k = 2 * m /\ ~(k < 2 * m)
        BY <3>1, <3>5
      <4>2. b \in {0, 3} /\ in[2 * m].b = b
        BY <4>1 DEF Stops, ResponseType, AnswerLength, b
      <4>3. CASE b = 0
        <5>1. Len(r2.buf) = 2 /\ r2.expected = 0
          BY <1>13, <2>2, <2>3, <2>5, <4>3
        <5>2. ~Complete(r2)
          BY <1>7, <5>1
        <5>3. ~next.found
          BY <3>3, <5>2
        <5>4. Stuck(next)
          BY <3>3, <5>1, <5>3 DEF Stuck
        <5>. QED  BY <4>1, <4>2, <4>3, <5>4 DEF AnswerRun, ResponseType, next, b
      <4>4. CASE b = 3
        <5>1. Len(r2.buf) = 2 /\ r2.expected = 7
          BY <1>14, <2>2, <2>3, <2>5, <3>2, <4>4
        <5>2. ~Complete(r2)
          BY <1>7, <5>1
        <5>3. next.found = FALSE
          BY <1>8, <3>3, <5>2
        <5>4. (k >= 2 * m + 5) = FALSE /\ k - 2 * m + 2 = 2
          BY <4>1
        <5>5. Collecting(m, k, next)
          BY <3>3, <5>1, <5>3, <5>4 DEF Collecting
        <5>. QED  BY <4>1, <4>2, <4>4, <5>5 DEF AnswerRun, ResponseType, next, b
      <4>. QED  BY <4>2, <4>3, <4>4
    <3>. QED  BY <3>4, <3>5
  <2>. QED  BY <2>2, <2>4, <2>5
<1>11. CASE ~(k - 1 < 2 * m) /\ in[2 * m].b = ResponseType
  <2>1. ~call.found /\ r.expected = 0 /\ Len(r.buf) >= 2
    BY <1>11 DEF AnswerRun, Stuck, r
  <2>2. r2.expected = 0 /\ Len(r2.buf) >= 2
    <3>1. ~Started(r)
      <4>1. \A l \in Nat : l >= 2 => l # 1
        OBVIOUS
      <4>2. Len(r.buf) # 1
        BY <1>2, <2>1, <4>1
      <4>. QED  BY <1>6, <4>2
    <3>2. Len(r2.buf) = Len(r.buf) + 1 /\ r2.expected = r.expected
      BY <1>13, <3>1
    <3>. QED  BY <1>2, <2>1, <3>2
  <2>3. ~Complete(r2)
    BY <1>7, <2>2
  <2>4. ~next.found /\ next.reader = r2
    BY <1>9, <2>1, <2>3
  <2>5. Stuck(next) /\ ~(k < 2 * m)
    BY <1>11, <2>2, <2>4 DEF Stuck
  <2>. QED  BY <1>11, <2>5 DEF AnswerRun, next, b
<1>12. CASE ~(k - 1 < 2 * m) /\ in[2 * m].b # ResponseType
  <2>0. ~(k < 2 * m)
    BY <1>12
  <2>1. Collecting(m, k - 1, call)
    BY <1>12 DEF AnswerRun
  <2>2. CASE call.found
    <3>1. next = call
      BY <1>3, <2>2
    <3>2. k - 1 >= 2 * m + 5 /\ k >= 2 * m + 5
      <4>1. k - 1 >= 2 * m + 5
        BY <2>1, <2>2 DEF Collecting
      <4>. QED  BY <4>1
    <3>3. Collecting(m, k, next)
      BY <2>1, <2>2, <3>1, <3>2 DEF Collecting
    <3>. QED  BY <1>12, <2>0, <3>3 DEF AnswerRun, next, b
  <2>3. CASE ~call.found
    <3>1. /\ ~(k - 1 >= 2 * m + 5) /\ r.expected = 7 /\ call.taken = k - 1
          /\ Len(r.buf) = (k - 1) - 2 * m + 2
      BY <2>1, <2>3 DEF Collecting, r
    <3>2. r2.expected = 7 /\ Len(r2.buf) = k - 2 * m + 2
      <4>1. ~Started(r)
        BY <1>6, <3>1
      <4>2. Len(r2.buf) = Len(r.buf) + 1 /\ r2.expected = r.expected
        BY <1>13, <4>1
      <4>3. ((k - 1) - 2 * m + 2) + 1 = k - 2 * m + 2
        OBVIOUS
      <4>. QED  BY <3>1, <4>2, <4>3
    <3>3. Complete(r2) <=> k >= 2 * m + 5
      BY <1>7, <3>1, <3>2
    <3>4. next.reader = r2 /\ next.taken = k
      BY <1>9, <2>3, <3>1
    <3>5. next.found = (k >= 2 * m + 5)
      BY <1>8, <1>9, <2>3, <3>3
    <3>6. k >= 2 * m + 5 => k = 2 * m + 5 /\ k - 2 * m + 2 = 7
      BY <3>1
    <3>7. Collecting(m, k, next)
      BY <3>2, <3>4, <3>5, <3>6 DEF Collecting
    <3>. QED  BY <1>12, <2>0, <3>7 DEF AnswerRun, next, b
  <2>. QED  BY <2>2, <2>3
<1>. QED  BY <1>10, <1>11, <1>12

LEMMA AnswersRun ==
  ASSUME NEW in, Len(in) \in Nat, \A k \in 1..Len(in) : in[k].b \in Byte,
         NEW m \in Nat \ {0},
         \A i \in 1..(m - 1) : 2 * i <= Len(in) => ~Stops(in, i),
         2 * m <= Len(in) => Stops(in, m)
  PROVE  AnswerRun(in, m, Len(in), AnswerCall(in))
<1>. DEFINE n == Len(in)
            f == RunOf("answer", in)
            S == {k \in 0..n : AnswerRun(in, m, k, f[k])}
<1>1. f \in [0..n -> Calls] /\ f[0] = StartCall
      /\ \A k \in 1..n : f[k] = StepOf("answer", f[k - 1], in[k].b)
  BY RunSteps
<1>. HIDE DEF f
<1>2. 0 \in S
  <2>1. Searching(0, StartCall)
    <3>1. StartCall.found = FALSE /\ StartCall.taken = 0 /\ StartCall.reader.expected = 0
          /\ Len(StartCall.reader.buf) = 0
      BY DEF StartCall, Fresh
    <3>2. 0 = 2 * 0 + 0 /\ 0 \in 0..0
      OBVIOUS
    <3>. QED  BY <3>1, <3>2 DEF Searching
  <2>2. 0 \in 0..n /\ 0 < 2 * m
    OBVIOUS
  <2>. QED  BY <1>1, <2>1, <2>2 DEF AnswerRun
<1>3. ASSUME NEW k \in 1..n, k - 1 \in S PROVE k \in S
  <2>1. k \in 0..n /\ k - 1 \in 0..n /\ k \in Nat \ {0} /\ in[k].b \in Byte
    OBVIOUS
  <2>2. f[k - 1] \in Calls /\ AnswerRun(in, m, k - 1, f[k - 1])
    BY <1>1, <1>3, <2>1
  <2>3. (\A i \in 1..(m - 1) : 2 * i = k => ~Stops(in, i)) /\ (2 * m = k => Stops(in, m))
    OBVIOUS
  <2>4. AnswerRun(in, m, k, StepOf("answer", f[k - 1], in[k].b))
    BY <2>1, <2>2, <2>3, AnswerRunStep
  <2>. QED  BY <1>1, <2>1, <2>4
<1>4. n \in Nat /\ n \in 0..n
  OBVIOUS
<1>5. n \in S
  <2>. HIDE DEF S, n
  <2>. QED  BY <1>2, <1>3, <1>4, Climb
<1>6. AnswerCall(in) = f[n]
  BY CallsAreRuns DEF f
<1>. QED  BY <1>5, <1>6

(* On every input, of whatever length: a reader of responses finds one      *)
(* exactly if the first of the even bytes that is a zero or the length      *)
(* awaited is the length, and five more bytes have come; and it takes       *)
(* nothing behind them (ble_rsp_connect_direct and ble_rsp_write_command of *)
(* bledAPI.py).                                                            *)
THEOREM AnswersByPairs ==
  ASSUME NEW in, Len(in) \in Nat, \A k \in 1..Len(in) : in[k].b \in Byte
  PROVE  LET pairs == {i \in 1..(Len(in) \div 2) :
                         in[2 * i].b \in {ResponseType, AnswerLength}}
             first == 2 * Min(pairs)
             found == /\ pairs # {}
                      /\ in[first].b = AnswerLength
                      /\ Len(in) >= first + 5
         IN  /\ AnswerCall(in).found = found
             /\ found => AnswerCall(in).taken = first + 5
<1>. DEFINE n == Len(in)
            pairs == {i \in 1..(n \div 2) : in[2 * i].b \in {ResponseType, AnswerLength}}
            first == 2 * Min(pairs)
            found == pairs # {} /\ in[first].b = AnswerLength /\ n >= first + 5
            call == AnswerCall(in)
<1>1. n \in Nat /\ \A k \in 1..n : in[k].b \in Byte
  OBVIOUS
<1>2. \A i \in Nat \ {0} : i \in 1..(n \div 2) <=> 2 * i <= n
  BY <1>1
<1>3. \A i \in pairs : i \in Nat \ {0} /\ 2 * i <= n /\ Stops(in, i)
  <2>1. \A i \in pairs : i \in 1..(n \div 2) /\ Stops(in, i)
    BY DEF Stops
  <2>2. n \div 2 \in Nat
    BY <1>1
  <2>3. \A i \in 1..(n \div 2) : i \in Nat \ {0}
    BY <2>2
  <2>. HIDE DEF pairs, n
  <2>. QED  BY <1>2, <2>1, <2>3
<1>4. ASSUME NEW i \in Nat \ {0}, 2 * i <= n, Stops(in, i) PROVE i \in pairs
  BY <1>2, <1>4 DEF Stops
<1>. HIDE DEF pairs, call, n
<1>5. CASE pairs = {}
  <2>. DEFINE m == n + 1
  <2>1. m \in Nat \ {0} /\ ~(2 * m <= n) /\ n < 2 * m
    BY <1>1
  <2>2. \A i \in 1..(m - 1) : 2 * i <= n => ~Stops(in, i)
    BY <1>1, <1>4, <1>5
  <2>. HIDE DEF m
  <2>3. AnswerRun(in, m, n, call)
    BY <1>1, <2>1, <2>2, AnswersRun DEF n, call
  <2>4. call.found = FALSE
    <3>1. ~call.found
      BY <2>1, <2>3 DEF AnswerRun, Searching
    <3>2. call.found \in BOOLEAN
      <4>1. RunOf("answer", in) \in [0..n -> Calls] /\ n \in 0..n
        BY <1>1, RunSteps DEF n
      <4>2. call \in Calls
        BY <4>1, CallsAreRuns DEF call, n
      <4>. QED  BY <4>2 DEF Calls
    <3>. QED  BY <3>1, <3>2
  <2>. QED  BY <1>5, <2>4 DEF pairs, call, n
<1>6. CASE pairs # {}
  <2>. DEFINE m == Min(pairs)
  <2>1. m \in pairs /\ \A i \in pairs : m <= i
    <3>1. PICK t \in pairs : \A u \in pairs : ~(<<u, t>> \in OpToRel(<, Nat))
      <4>1. pairs \subseteq Nat
        BY <1>3
      <4>. QED  BY <1>6, <4>1, NatLessThanWellFounded, WFMin
    <3>2. ASSUME NEW i \in pairs PROVE t <= i
      <4>1. i \in Nat /\ t \in Nat
        BY <1>3
      <4>2. ~(i < t)
        BY <3>1, <4>1 DEF OpToRel
      <4>. QED  BY <4>1, <4>2
    <3>. QED  BY <3>2 DEF Min
  <2>. HIDE DEF m
  <2>2. m \in Nat \ {0} /\ 2 * m <= n /\ Stops(in, m) /\ ~(n < 2 * m)
    BY <1>1, <1>3, <2>1
  <2>3. \A i \in 1..(m - 1) : 2 * i <= n => ~Stops(in, i)
    <3>1. ASSUME NEW i \in 1..(m - 1), 2 * i <= n PROVE ~Stops(in, i)
      <4>1. i \in Nat \ {0} /\ ~(m <= i)
        BY <2>2
      <4>. QED  BY <1>4, <2>1, <3>1, <4>1
    <3>. QED  BY <3>1
  <2>4. AnswerRun(in, m, n, call)
    BY <1>1, <2>2, <2>3, AnswersRun DEF n, call
  <2>5. call.found \in BOOLEAN
    <3>1. RunOf("answer", in) \in [0..n -> Calls] /\ n \in 0..n
      BY <1>1, RunSteps DEF n
    <3>2. call \in Calls
      BY <3>1, CallsAreRuns DEF call, n
    <3>. QED  BY <3>2 DEF Calls
  <2>6. CASE in[2 * m].b = ResponseType
    <3>1. call.found = FALSE
      BY <2>2, <2>4, <2>5, <2>6 DEF AnswerRun, Stuck
    <3>2. found = FALSE
      BY <2>6 DEF ResponseType, AnswerLength, m
    <3>. QED  BY <3>1, <3>2 DEF pairs, call, n
  <2>7. CASE in[2 * m].b # ResponseType
    <3>1. Collecting(m, n, call)
      BY <2>2, <2>4, <2>7 DEF AnswerRun
    <3>2. in[2 * m].b = AnswerLength
      BY <2>2, <2>7 DEF Stops
    <3>3. found = (n >= 2 * m + 5)
      BY <1>6, <3>2 DEF m
    <3>. QED  BY <3>1, <3>3 DEF Collecting, pairs, call, n, m
  <2>. QED  BY <2>6, <2>7
<1>. QED  BY <1>5, <1>6

-----------------------------------------------------------------------------
(* Packets, cell by cell. *)

LEMMA SmallByte == \A n \in Nat : n <= 255 => n \in Byte
BY DEF Byte

CellsOf(p, kind, t, c, d, payload) ==
  LET n == Len(payload)
  IN  /\ Len(p) = 4 + n /\ p = [i \in 1..(4 + n) |-> p[i]]
      /\ p[1].b = t /\ p[2].b = n /\ p[3].b = c /\ p[4].b = d
      /\ \A j \in 1..n : p[4 + j].b = payload[j]
      /\ \A i \in 1..(4 + n) : p[i].b \in Byte
      /\ \A i \in 1..(4 + n) : p[i].kind = kind /\ p[i].last = (i = 4 + n)
      /\ \A i \in 1..(4 + n) : p[i] = [b |-> p[i].b, kind |-> kind, last |-> i = 4 + n]

LEMMA PacketOf ==
  ASSUME NEW kind, NEW t \in Byte, NEW c \in Byte, NEW d \in Byte,
         NEW payload \in Seq(Byte), Len(payload) <= 255
  PROVE  CellsOf(Packet(kind, <<t, Len(payload), c, d>> \o payload), kind, t, c, d, payload)
<1>. DEFINE n == Len(payload)
            head == <<t, n, c, d>>
            bytes == head \o payload
            p == Packet(kind, bytes)
<1>1. n \in Byte /\ n \in Nat
  <2>1. n \in Nat
    OBVIOUS
  <2>. QED  BY <2>1, SmallByte
<1>2. head \in Seq(Byte) /\ Len(head) = 4 /\ head[1] = t /\ head[2] = n /\ head[3] = c /\ head[4] = d
  <2>. HIDE DEF n
  <2>. QED  BY <1>1
<1>3. payload \in Seq(Byte) /\ Len(payload) = n
  OBVIOUS
<1>. HIDE DEF head, n
<1>4. /\ bytes \in Seq(Byte) /\ Len(bytes) = 4 + n
      /\ \A i \in 1..(4 + n) : bytes[i] = IF i <= 4 THEN head[i] ELSE payload[i - 4]
  <2>1. /\ bytes \in Seq(Byte) /\ Len(bytes) = Len(head) + Len(payload)
        /\ \A i \in 1..(Len(head) + Len(payload)) :
             bytes[i] = IF i <= Len(head) THEN head[i] ELSE payload[i - Len(head)]
    BY <1>2, <1>3, ConcatProperties, ZenonT(40)
  <2>. HIDE DEF bytes
  <2>2. Len(head) = 4 /\ Len(payload) = n
    BY <1>2, <1>3
  <2>. QED  BY <2>1, <2>2
<1>. HIDE DEF bytes
<1>. DEFINE cell(i) == [b |-> bytes[i], kind |-> kind, last |-> i = 4 + n]
<1>5. \A i : cell(i).b = bytes[i] /\ cell(i).kind = kind /\ cell(i).last = (i = 4 + n)
  OBVIOUS
<1>6. p = [i \in 1..(4 + n) |-> cell(i)]
  BY <1>4 DEF Packet
<1>. HIDE DEF p
<1>7. \A i \in 1..(4 + n) : p[i].b = bytes[i] /\ p[i].kind = kind /\ p[i].last = (i = 4 + n)
  <2>. HIDE DEF cell
  <2>. QED  BY <1>5, <1>6
<1>8. Len(p) = 4 + n /\ p = [i \in 1..(4 + n) |-> p[i]]
  <2>. HIDE DEF cell
  <2>. QED  BY <1>1, <1>6
<1>9. p[1].b = t /\ p[2].b = n /\ p[3].b = c /\ p[4].b = d
  <2>1. 1 \in 1..(4 + n) /\ 2 \in 1..(4 + n) /\ 3 \in 1..(4 + n) /\ 4 \in 1..(4 + n)
    BY <1>1
  <2>2. bytes[1] = head[1] /\ bytes[2] = head[2] /\ bytes[3] = head[3] /\ bytes[4] = head[4]
    BY <1>4, <2>1
  <2>. QED  BY <1>2, <1>7, <2>1, <2>2
<1>10. ASSUME NEW j \in 1..n PROVE p[4 + j].b = payload[j]
  <2>1. 4 + j \in 1..(4 + n) /\ ~(4 + j <= 4) /\ (4 + j) - 4 = j
    BY <1>1
  <2>2. bytes[4 + j] = payload[j]
    BY <1>4, <2>1
  <2>3. p[4 + j].b = bytes[4 + j]
    BY <1>7, <2>1
  <2>. QED  BY <2>2, <2>3
<1>11. \A i \in 1..(4 + n) : p[i].b \in Byte
  <2>1. \A i \in 1..(4 + n) : bytes[i] \in Byte
    BY <1>4
  <2>. QED  BY <1>7, <2>1
<1>12. \A i \in 1..(4 + n) : p[i] = [b |-> p[i].b, kind |-> kind, last |-> i = 4 + n]
  <2>1. \A i \in 1..(4 + n) : p[i] = cell(i) /\ p[i].b = bytes[i]
    BY <1>6, <1>7
  <2>. QED  BY <2>1
<1>. HIDE DEF cell
<1>. QED  BY <1>7, <1>8, <1>9, <1>10, <1>11, <1>12 DEF CellsOf, p, n, bytes, head

-----------------------------------------------------------------------------
(* The readers of groups and of attributes. *)

(* In the input lie m packets of groups, one behind the other and each of   *)
(* its own length, and behind them the end of the procedure: at tells where. *)
SizeAt(in, o) == 4 + in[o + 2].b
EndBehindGroups(in, m, at) ==
  /\ at \in [0..m -> Nat] /\ at[0] = 0
  /\ \A q \in 0..m : in[at[q] + 2].b \in Byte \ {EventType}
  /\ \A q \in 0..(m - 1) : /\ in[at[q] + 4].b = GroupCommand
                           /\ at[q + 1] = at[q] + SizeAt(in, at[q])
  /\ in[at[m] + 4].b = CompletedCommand

(* The reader is in the packet behind o, of which it holds r bytes.         *)
InGroup(in, o, r, reader) ==
  /\ r < SizeAt(in, o)
  /\ Len(reader.buf) = r
  /\ reader.expected = (IF r >= 2 THEN SizeAt(in, o) ELSE 0)
  /\ r >= 4 => reader.buf[4] = in[o + 4].b

GroupRun(in, m, at, k, call) ==
  ~call.found =>
    \E q \in 0..m, r \in Nat : k = at[q] + r /\ InGroup(in, at[q], r, call.reader)

LEMMA SizeOfByte ==
  ASSUME NEW in, NEW o, in[o + 2].b \in Byte
  PROVE  SizeAt(in, o) \in Nat /\ SizeAt(in, o) >= 4
<1>. DEFINE b == in[o + 2].b
<1>1. b \in Nat
  BY DEF Byte
<1>2. SizeAt(in, o) = 4 + b
  BY DEF SizeAt
<1>. HIDE DEF b
<1>. QED  BY <1>1, <1>2

LEMMA GroupRunStep ==
  ASSUME NEW in, NEW m \in Nat, NEW at, EndBehindGroups(in, m, at),
         NEW k \in Nat \ {0}, in[k].b \in Byte,
         NEW call \in Calls, GroupRun(in, m, at, k - 1, call)
  PROVE  GroupRun(in, m, at, k, StepOf("group", call, in[k].b))
<1>. DEFINE b == in[k].b
            r0 == call.reader
            ev == EventByte(r0, b)
            r2 == GroupByte(r0, b)
            next == StepOf("group", call, b)
<1>1. next = IF call.found THEN call
             ELSE [reader |-> r2, taken |-> call.taken + 1, found |-> IsCompleted(r2)]
  BY DEF StepOf, ReadBy, WantedBy
<1>. HIDE DEF next
<1>2. CASE call.found
  BY <1>1, <1>2 DEF GroupRun, next
<1>3. CASE ~call.found
  <2>1. PICK q \in 0..m, r \in Nat : k - 1 = at[q] + r /\ InGroup(in, at[q], r, r0)
    BY <1>3 DEF GroupRun
  <2>. DEFINE o == at[q]
              size == SizeAt(in, o)
  <2>2. /\ r < size /\ Len(r0.buf) = r /\ r0.expected = (IF r >= 2 THEN size ELSE 0)
        /\ r >= 4 => r0.buf[4] = in[o + 4].b
    BY <2>1 DEF InGroup
  <2>3. next.reader = r2 /\ next.found = IsCompleted(r2)
    BY <1>1, <1>3
  <2>4. o \in Nat /\ q \in Nat /\ in[o + 2].b \in Byte \ {EventType}
    BY DEF EndBehindGroups
  <2>5. size \in Nat /\ size >= 4 /\ size - 4 = in[o + 2].b
    <3>1. size \in Nat /\ size >= 4
      BY <2>4, SizeOfByte
    <3>2. size = 4 + in[o + 2].b /\ in[o + 2].b \in Nat
      BY <2>4 DEF Byte, SizeAt
    <3>. HIDE DEF size
    <3>. QED  BY <3>1, <3>2
  <2>6. k = o + (r + 1)
    BY <2>1, <2>4
  <2>7. r0 \in Readers /\ r0.buf \in Seq(Byte) /\ b \in Nat
    <3>1. r0 \in Readers
      BY DEF Calls
    <3>2. b \in Nat
      BY DEF Byte
    <3>. QED  BY <3>1, <3>2 DEF Readers
  <2>8. ev.buf = Append(r0.buf, b)
    BY <2>7 DEF EventByte, Sized, Collect, Readers
  <2>. HIDE DEF size, o
  <2>9. Len(ev.buf) = r + 1 /\ (r + 1 >= 4 => ev.buf[4] = in[o + 4].b)
    <3>1. Len(Append(r0.buf, b)) = r + 1
      BY <2>2, <2>7
    <3>2. CASE r >= 4
      <4>1. Append(r0.buf, b)[4] = r0.buf[4]
        BY <2>2, <2>7, <3>2
      <4>. QED  BY <2>2, <2>8, <3>1, <3>2, <4>1
    <3>3. CASE r = 3
      <4>1. Append(r0.buf, b)[4] = b
        <5>1. Append(r0.buf, b)[Len(r0.buf) + 1] = b
          BY <2>7
        <5>2. Len(r0.buf) + 1 = 4
          BY <2>2, <3>3
        <5>. QED  BY <5>1, <5>2
      <4>2. k = o + 4
        BY <2>6, <3>3
      <4>. QED  BY <2>8, <3>1, <4>1, <4>2
    <3>4. CASE r < 3
      <4>1. ~(r + 1 >= 4)
        BY <3>4
      <4>. QED  BY <2>8, <3>1, <4>1
    <3>5. r >= 4 \/ r = 3 \/ r < 3
      OBVIOUS
    <3>. QED  BY <3>2, <3>3, <3>4, <3>5
  <2>10. ev.expected = (IF r + 1 >= 2 THEN size ELSE 0)
    <3>1. CASE r = 1
      <4>1. Started(r0) /\ k = o + 2
        BY <2>2, <2>6, <3>1 DEF Started
      <4>2. b = size - 4 /\ b # EventType
        BY <2>4, <2>5, <4>1
      <4>3. ev = Sized(r0, b)
        BY <4>1, <4>2 DEF EventByte
      <4>4. ev.expected = 4 + b
        BY <4>3 DEF Sized
      <4>. QED  BY <2>5, <3>1, <4>2, <4>4
    <3>2. CASE r # 1
      <4>1. ~Started(r0)
        BY <2>2, <3>2 DEF Started
      <4>2. ev.expected = r0.expected
        BY <2>7, <4>1 DEF EventByte, Collect, Readers
      <4>3. r + 1 >= 2 <=> r >= 2
        BY <3>2
      <4>. QED  BY <2>2, <4>2, <4>3
    <3>. QED  BY <3>1, <3>2
  <2>11. Complete(ev) <=> r + 1 = size
    BY <2>5, <2>9, <2>10 DEF Complete
  <2>12. r2 = IF Complete(ev) /\ ev.buf[4] = GroupCommand THEN Fresh ELSE ev
    BY DEF GroupByte
  <2>. HIDE DEF ev, r2, b, r0
  <2>13. CASE r + 1 # size
    <3>1. r2 = ev
      BY <2>11, <2>12, <2>13
    <3>2. r + 1 < size /\ r + 1 \in Nat
      BY <2>2, <2>5, <2>13
    <3>3. InGroup(in, o, r + 1, r2)
      BY <2>9, <2>10, <3>1, <3>2 DEF InGroup, size
    <3>. QED  BY <2>3, <2>6, <3>2, <3>3 DEF GroupRun, next, b, o
  <2>14. CASE r + 1 = size /\ q < m
    <3>1. q \in 0..(m - 1)
      BY <2>4, <2>14
    <3>2. in[o + 4].b = GroupCommand /\ at[q + 1] = o + size
      BY <3>1 DEF EndBehindGroups, o, size
    <3>3. ev.buf[4] = GroupCommand
      BY <2>5, <2>9, <2>14, <3>2
    <3>4. r2 = Fresh
      BY <2>11, <2>12, <2>14, <3>3
    <3>5. k = at[q + 1] + 0 /\ q + 1 \in 0..m
      BY <2>4, <2>5, <2>6, <2>14, <3>1, <3>2
    <3>6. InGroup(in, at[q + 1], 0, r2)
      <4>1. Len(Fresh.buf) = 0 /\ Fresh.expected = 0
        BY DEF Fresh
      <4>2. in[at[q + 1] + 2].b \in Byte
        BY <3>5 DEF EndBehindGroups
      <4>3. 0 < SizeAt(in, at[q + 1])
        BY <4>2 DEF SizeAt, Byte
      <4>. QED  BY <3>4, <4>1, <4>3 DEF InGroup
    <3>. QED  BY <2>3, <3>5, <3>6 DEF GroupRun, next, b
  <2>15. CASE r + 1 = size /\ ~(q < m)
    <3>1. q = m
      BY <2>4, <2>15
    <3>2. in[o + 4].b = CompletedCommand
      BY <3>1 DEF EndBehindGroups, o
    <3>3. ev.buf[4] = CompletedCommand /\ CompletedCommand # GroupCommand
      BY <2>5, <2>9, <2>15, <3>2 DEF CompletedCommand, GroupCommand
    <3>4. r2 = ev
      BY <2>12, <3>3
    <3>5. IsCompleted(r2)
      BY <2>11, <2>15, <3>3, <3>4 DEF IsCompleted
    <3>6. next.found
      BY <2>3, <3>5
    <3>. QED  BY <3>6 DEF GroupRun, next, b
  <2>. QED  BY <2>13, <2>14, <2>15
<1>. QED  BY <1>2, <1>3

LEMMA GroupsRun ==
  ASSUME NEW in, Len(in) \in Nat, \A k \in 1..Len(in) : in[k].b \in Byte,
         NEW m \in Nat, NEW at, EndBehindGroups(in, m, at)
  PROVE  GroupRun(in, m, at, Len(in), GroupCall(in))
<1>. DEFINE n == Len(in)
            f == RunOf("group", in)
            S == {k \in 0..n : GroupRun(in, m, at, k, f[k])}
<1>1. f \in [0..n -> Calls] /\ f[0] = StartCall
      /\ \A k \in 1..n : f[k] = StepOf("group", f[k - 1], in[k].b)
  BY RunSteps
<1>. HIDE DEF f
<1>2. 0 \in S
  <2>1. StartCall.reader = Fresh /\ Len(Fresh.buf) = 0 /\ Fresh.expected = 0
    BY DEF StartCall, Fresh
  <2>2. at[0] = 0 /\ 0 \in 0..m /\ in[at[0] + 2].b \in Byte
    BY DEF EndBehindGroups
  <2>3. InGroup(in, at[0], 0, Fresh)
    <3>1. SizeAt(in, at[0]) \in Nat /\ SizeAt(in, at[0]) >= 4
      BY <2>2, SizeOfByte
    <3>2. 0 < SizeAt(in, at[0])
      BY <3>1
    <3>. QED  BY <2>1, <3>2 DEF InGroup
  <2>4. 0 = at[0] + 0 /\ 0 \in Nat /\ 0 \in 0..n
    BY <2>2
  <2>. QED  BY <1>1, <2>1, <2>2, <2>3, <2>4 DEF GroupRun
<1>3. ASSUME NEW k \in 1..n, k - 1 \in S PROVE k \in S
  <2>1. k \in 0..n /\ k - 1 \in 0..n /\ k \in Nat \ {0} /\ in[k].b \in Byte
    OBVIOUS
  <2>2. f[k - 1] \in Calls /\ GroupRun(in, m, at, k - 1, f[k - 1])
    BY <1>1, <1>3, <2>1
  <2>3. f[k] = StepOf("group", f[k - 1], in[k].b)
    BY <1>1
  <2>. QED  BY <2>1, <2>2, <2>3, GroupRunStep
<1>4. n \in Nat /\ n \in 0..n
  OBVIOUS
<1>5. n \in S
  <2>. HIDE DEF S, n
  <2>. QED  BY <1>2, <1>3, <1>4, Climb
<1>6. GroupCall(in) = f[n]
  BY CallsAreRuns DEF f
<1>. QED  BY <1>5, <1>6

(* On every input that begins with packets of groups, in any number and of  *)
(* any lengths, and holds the end of the procedure behind them: the reader  *)
(* of groups (ble_msg_attclient_group_found_evt_t of bledAPI.py) comes to   *)
(* that end in the one call, since it starts again behind each group.      *)
THEOREM GroupsByPackets ==
  ASSUME NEW in, Len(in) \in Nat, \A k \in 1..Len(in) : in[k].b \in Byte,
         NEW m \in Nat, NEW at, EndBehindGroups(in, m, at),
         Len(in) >= at[m] + SizeAt(in, at[m])
  PROVE  GroupCall(in).found
<1>. SUFFICES ASSUME ~GroupCall(in).found PROVE FALSE
  OBVIOUS
<1>1. PICK q \in 0..m, r \in Nat :
        Len(in) = at[q] + r /\ InGroup(in, at[q], r, GroupCall(in).reader)
  BY GroupsRun DEF GroupRun
<1>2. r < SizeAt(in, at[q])
  BY <1>1 DEF InGroup
<1>3. \A j \in 0..m :
        at[j] \in Nat /\ SizeAt(in, at[j]) \in Nat /\ SizeAt(in, at[j]) >= 4
  <2>1. \A j \in 0..m : at[j] \in Nat /\ in[at[j] + 2].b \in Byte
    BY DEF EndBehindGroups
  <2>. QED  BY <2>1, SizeOfByte
<1>4. \A j \in 0..(m - 1) : at[j + 1] = at[j] + SizeAt(in, at[j])
  BY DEF EndBehindGroups
<1>5. CASE q = m
  BY <1>1, <1>2, <1>3, <1>5
<1>6. CASE q # m
  <2>. DEFINE S == {j \in 0..m : j <= q \/ at[q + 1] <= at[j]}
  <2>1. q + 1 \in 0..m /\ q \in 0..(m - 1)
    BY <1>6
  <2>2. 0 \in S
    OBVIOUS
  <2>3. ASSUME NEW j \in 1..m, j - 1 \in S PROVE j \in S
    <3>1. j - 1 \in 0..(m - 1) /\ j - 1 \in 0..m /\ j \in 0..m /\ (j - 1) + 1 = j
      OBVIOUS
    <3>2. CASE j - 1 <= q
      <4>1. j <= q \/ j = q + 1
        BY <3>2
      <4>2. at[q + 1] \in Nat
        BY <1>3, <2>1
      <4>3. j <= q \/ at[q + 1] <= at[j]
        BY <4>1, <4>2
      <4>. QED  BY <3>1, <4>3
    <3>3. CASE ~(j - 1 <= q)
      <4>1. at[q + 1] <= at[j - 1]
        BY <2>3, <3>3
      <4>2. at[j] = at[j - 1] + SizeAt(in, at[j - 1])
        BY <1>4, <3>1
      <4>3. at[q + 1] \in Nat /\ at[j - 1] \in Nat /\ SizeAt(in, at[j - 1]) \in Nat
        BY <1>3, <2>1, <3>1
      <4>4. at[q + 1] <= at[j]
        BY <4>1, <4>2, <4>3
      <4>. QED  BY <3>1, <4>4
    <3>. QED  BY <3>2, <3>3
  <2>4. m \in S
    <3>1. m \in 0..m
      OBVIOUS
    <3>. HIDE DEF S
    <3>. QED  BY <2>2, <2>3, <3>1, Climb
  <2>5. at[q + 1] <= at[m]
    BY <1>6, <2>4
  <2>6. at[q + 1] = at[q] + SizeAt(in, at[q])
    BY <1>4, <2>1
  <2>7. /\ at[q] \in Nat /\ SizeAt(in, at[q]) \in Nat
        /\ at[m] \in Nat /\ SizeAt(in, at[m]) \in Nat
    BY <1>3
  <2>8. Len(in) = at[q] + r
    BY <1>1
  <2>. QED  BY <1>2, <2>5, <2>6, <2>7, <2>8
<1>. QED  BY <1>5, <1>6

(* On every input: the reader of attributes                                 *)
(* (ble_evt_attclient_find_information_found) finds the end of the          *)
(* procedure if it is the first packet there, as the second byte measures   *)
(* it, and nothing behind any other, since it does not start again.        *)
THEOREM InformationByLength ==
  ASSUME NEW in, Len(in) \in Nat, \A k \in 1..Len(in) : in[k].b \in Byte
  PROVE  InformationCall(in).found =
           (/\ Len(in) >= 4
            /\ in[2].b # EventType
            /\ Len(in) >= 4 + in[2].b
            /\ in[4].b = CompletedCommand)
<1>1. EventRun("information", in, Len(in), InformationCall(in))
  <2>1. "information" \in Events
    BY DEF Events
  <2>2. EventRun("information", in, Len(in), RunOf("information", in)[Len(in)])
    BY <2>1, EventsRun
  <2>. QED  BY <2>2, CallsAreRuns
<1>. QED  BY <1>1 DEF EventRun, FoundBehind, Hit, Wants

-----------------------------------------------------------------------------
(* The inputs that are fed to the readers. *)

Fed == [b : Byte, last : BOOLEAN,
        kind : {"loose", "answer", "value", "group", "information", "completed"}]

(* As long as only groups were fed, the next packet lies behind them; and    *)
(* nothing else does as long as no loose bytes were.                       *)
AllGroups(ks, k) == \A j \in 1..k : ks[j] = "group"
LiesAt(in, o, p) == o + Len(p) <= Len(in) /\ \A j \in 1..Len(p) : in[o + j].b = p[j].b

InputInv ==
  /\ input \in Seq(Fed) /\ kinds \in Seq(DOMAIN Packets)
  /\ \A k \in 1..Len(kinds) : AllGroups(kinds, k - 1) => LiesAt(input, 12 * (k - 1), Packets[kinds[k]])
  /\ (\A i \in DOMAIN input : input[i].kind # "loose") /\ AllGroups(kinds, Len(kinds)) =>
       Len(input) = 12 * Len(kinds)

(* The packets: their lengths, and the bytes that the readers look at.      *)
LEMMA FedPackets ==
  /\ DOMAIN Packets = {"answer", "value", "group", "information", "completed"}
  /\ \A name \in DOMAIN Packets : Packets[name] \in Seq(Fed)
  /\ Len(Packets["group"]) = 12
  /\ Packets["group"][2].b = 8 /\ Packets["group"][4].b = GroupCommand
  /\ Len(Packets["completed"]) = 9
  /\ Packets["completed"][2].b = 5 /\ Packets["completed"][4].b = CompletedCommand
  /\ Len(Packets["information"]) = 9
  /\ Packets["information"][2].b = 5 /\ Packets["information"][4].b = InformationCommand
<1>1. /\ DOMAIN Packets = {"answer", "value", "group", "information", "completed"}
      /\ Packets["answer"] = Response("answer", 4, 6, <<0, 0, 0>>)
      /\ Packets["value"] = Event("value", 4, 5, <<0, 28, 0, 1, 1, 7>>)
      /\ Packets["group"] = Event("group", 4, 2, <<0, 1, 0, 4, 0, 2, 0, 40>>)
      /\ Packets["information"] = Event("information", 4, 4, <<0, 1, 0, 1, 40>>)
      /\ Packets["completed"] = Event("completed", 4, 1, <<0, 0, 0, 9, 0>>)
  BY DEF Packets
<1>2. /\ {0, 1, 2, 4, 5, 6, 7, 9, 28, 40} \subseteq Byte
      /\ ResponseType \in Byte /\ EventType \in Byte
  BY DEF Byte, ResponseType, EventType
<1>. DEFINE names == {"loose", "answer", "value", "group", "information", "completed"}
<1>3. ASSUME NEW kind \in names, NEW t \in Byte, NEW c \in Byte, NEW d \in Byte,
             NEW payload \in Seq(Byte), Len(payload) <= 255
      PROVE  LET p == Packet(kind, <<t, Len(payload), c, d>> \o payload)
             IN  /\ p \in Seq(Fed) /\ Len(p) = 4 + Len(payload)
                 /\ p[2].b = Len(payload) /\ p[4].b = d
  <2>. DEFINE n == Len(payload)
              p == Packet(kind, <<t, n, c, d>> \o payload)
  <2>0. CellsOf(p, kind, t, c, d, payload)
    BY <1>3, PacketOf
  <2>2. n \in Nat
    OBVIOUS
  <2>. HIDE DEF p, n
  <2>1. /\ Len(p) = 4 + n /\ p = [i \in 1..(4 + n) |-> p[i]]
        /\ p[2].b = n /\ p[4].b = d
        /\ \A i \in 1..(4 + n) : p[i].b \in Byte
        /\ \A i \in 1..(4 + n) : p[i] = [b |-> p[i].b, kind |-> kind, last |-> i = 4 + n]
    BY <2>0 DEF CellsOf, n
  <2>3. ASSUME NEW i \in 1..(4 + n) PROVE p[i] \in Fed
    <3>1. \A x \in Byte, l \in BOOLEAN : [b |-> x, kind |-> kind, last |-> l] \in Fed
      BY DEF Fed
    <3>2. (i = 4 + n) \in BOOLEAN /\ p[i].b \in Byte
      BY <2>1
    <3>3. [b |-> p[i].b, kind |-> kind, last |-> i = 4 + n] \in Fed
      BY <3>1, <3>2, Zenon
    <3>. QED  BY <2>1, <3>3
  <2>4. p \in Seq(Fed)
    BY <2>1, <2>2, <2>3
  <2>. QED  BY <2>1, <2>4 DEF p, n
<1>. HIDE DEF names
<1>. DEFINE FedAs(p, n, d) ==
       p \in Seq(Fed) /\ Len(p) = 4 + n /\ p[2].b = n /\ p[4].b = d
<1>4. "answer" \in names /\ "value" \in names /\ "group" \in names /\ "information" \in names
      /\ "completed" \in names
  BY DEF names
<1>10. ASSUME NEW kind \in names, NEW c \in Byte, NEW d \in Byte,
              NEW payload \in Seq(Byte), Len(payload) <= 255
       PROVE  FedAs(Event(kind, c, d, payload), Len(payload), d)
  <2>1. LET p == Packet(kind, <<EventType, Len(payload), c, d>> \o payload)
        IN  /\ p \in Seq(Fed) /\ Len(p) = 4 + Len(payload)
            /\ p[2].b = Len(payload) /\ p[4].b = d
    BY <1>2, <1>3, <1>10
  <2>. QED  BY <2>1 DEF Event, FedAs
<1>. HIDE DEF FedAs
<1>5. Packets["answer"] \in Seq(Fed)
  <2>1. <<0, 0, 0>> \in Seq(Byte) /\ Len(<<0, 0, 0>>) = 3 /\ 3 <= 255
    BY <1>2
  <2>2. Response("answer", 4, 6, <<0, 0, 0>>) \in Seq(Fed)
    BY <1>2, <1>3, <1>4, <2>1 DEF Response
  <2>. QED  BY <1>1, <2>2
<1>6. Packets["value"] \in Seq(Fed)
  <2>. DEFINE payload == <<0, 28, 0, 1, 1, 7>>
  <2>1. payload \in Seq(Byte) /\ Len(payload) <= 255
    BY <1>2
  <2>. HIDE DEF payload
  <2>2. FedAs(Event("value", 4, 5, payload), Len(payload), 5)
    BY <1>2, <1>10, <1>4, <2>1
  <2>. QED  BY <1>1, <2>2 DEF payload, FedAs
<1>7. /\ Packets["group"] \in Seq(Fed) /\ Len(Packets["group"]) = 12
      /\ Packets["group"][2].b = 8 /\ Packets["group"][4].b = GroupCommand
  <2>. DEFINE payload == <<0, 1, 0, 4, 0, 2, 0, 40>>
  <2>1. payload \in Seq(Byte) /\ Len(payload) = 8 /\ 8 <= 255 /\ 4 + 8 = 12
    BY <1>2
  <2>. HIDE DEF payload
  <2>2. FedAs(Event("group", 4, 2, payload), Len(payload), 2)
    <3>1. Len(payload) <= 255
      BY <2>1
    <3>. QED  BY <1>2, <1>10, <1>4, <3>1, <2>1
  <2>3. FedAs(Packets["group"], 8, 2)
    BY <1>1, <2>1, <2>2 DEF payload
  <2>. QED  BY <2>3 DEF FedAs, GroupCommand
<1>8. /\ Packets["information"] \in Seq(Fed) /\ Len(Packets["information"]) = 9
      /\ Packets["information"][2].b = 5 /\ Packets["information"][4].b = InformationCommand
  <2>. DEFINE payload == <<0, 1, 0, 1, 40>>
  <2>1. payload \in Seq(Byte) /\ Len(payload) = 5 /\ 5 <= 255 /\ 4 + 5 = 9
    BY <1>2
  <2>. HIDE DEF payload
  <2>2. FedAs(Event("information", 4, 4, payload), Len(payload), 4)
    <3>1. Len(payload) <= 255
      BY <2>1
    <3>. QED  BY <1>2, <1>10, <1>4, <3>1, <2>1
  <2>3. FedAs(Packets["information"], 5, 4)
    BY <1>1, <2>1, <2>2 DEF payload
  <2>. QED  BY <2>3 DEF FedAs, InformationCommand
<1>9. /\ Packets["completed"] \in Seq(Fed) /\ Len(Packets["completed"]) = 9
      /\ Packets["completed"][2].b = 5 /\ Packets["completed"][4].b = CompletedCommand
  <2>. DEFINE payload == <<0, 0, 0, 9, 0>>
  <2>1. payload \in Seq(Byte) /\ Len(payload) = 5 /\ 5 <= 255 /\ 4 + 5 = 9
    BY <1>2
  <2>. HIDE DEF payload
  <2>2. FedAs(Event("completed", 4, 1, payload), Len(payload), 1)
    <3>1. Len(payload) <= 255
      BY <2>1
    <3>. QED  BY <1>2, <1>10, <1>4, <3>1, <2>1
  <2>3. FedAs(Packets["completed"], 5, 1)
    BY <1>1, <2>1, <2>2 DEF payload
  <2>. QED  BY <2>3 DEF FedAs, CompletedCommand
<1>. QED  BY <1>1, <1>5, <1>6, <1>7, <1>8, <1>9

LEMMA InputInit == ReadersInit => InputInv
<1>. SUFFICES ASSUME ReadersInit PROVE InputInv
  OBVIOUS
<1>1. input = <<>> /\ kinds = <<>> /\ Len(<<>>) = 0 /\ 1..0 = {} /\ 0 = 12 * 0
  BY DEF ReadersInit
<1>. QED  BY <1>1 DEF InputInv

LEMMA InputNext == InputInv /\ [Feed]_readerVars => InputInv'
<1>. SUFFICES ASSUME InputInv, [Feed]_readerVars PROVE InputInv'
  OBVIOUS
<1>0. /\ input \in Seq(Fed) /\ kinds \in Seq(DOMAIN Packets)
      /\ Len(input) \in Nat /\ Len(kinds) \in Nat
  BY DEF InputInv
<1>1. CASE FeedByte
  <2>1. PICK c : input' = Append(input, c) /\ c \in Fed /\ c.kind = "loose" /\ kinds' = kinds
    <3>1. PICK b \in Bytes : input' = Append(input, [b |-> b, kind |-> "loose", last |-> FALSE])
      BY <1>1 DEF FeedByte
    <3>2. b \in Byte
      BY ReadersAssumption DEF Byte
    <3>3. [b |-> b, kind |-> "loose", last |-> FALSE] \in Fed
      BY <3>2 DEF Fed
    <3>. QED  BY <1>1, <3>1, <3>3 DEF FeedByte
  <2>2. /\ input' \in Seq(Fed) /\ Len(input') = Len(input) + 1
        /\ input'[Len(input) + 1] = c
        /\ \A i \in 1..Len(input) : input'[i] = input[i]
    BY <1>0, <2>1
  <2>3. ~(\A i \in DOMAIN input' : input'[i].kind # "loose")
    <3>1. Len(input) + 1 \in DOMAIN input'
      BY <1>0, <2>2
    <3>. QED  BY <2>1, <2>2, <3>1
  <2>4. ASSUME NEW k \in 1..Len(kinds), AllGroups(kinds, k - 1)
        PROVE  LiesAt(input', 12 * (k - 1), Packets[kinds'[k]])
    <3>. DEFINE o == 12 * (k - 1)
                p == Packets[kinds[k]]
    <3>1. o + Len(p) <= Len(input) /\ \A j \in 1..Len(p) : input[o + j].b = p[j].b
      BY <2>4 DEF InputInv, LiesAt
    <3>2. o \in Nat /\ Len(p) \in Nat
      <4>1. kinds[k] \in DOMAIN Packets
        BY <1>0
      <4>2. p \in Seq(Fed)
        BY <4>1, FedPackets
      <4>. HIDE DEF p
      <4>. QED  BY <1>0, <4>2
    <3>. HIDE DEF o, p
    <3>3. o + Len(p) <= Len(input')
      BY <1>0, <2>2, <3>1, <3>2
    <3>4. ASSUME NEW j \in 1..Len(p) PROVE input'[o + j].b = p[j].b
      <4>1. o + j \in 1..Len(input)
        BY <1>0, <3>1, <3>2
      <4>. QED  BY <2>2, <3>1, <4>1
    <3>. QED  BY <2>1, <3>3, <3>4 DEF LiesAt, o, p
  <2>5. \A k \in 1..Len(kinds) : AllGroups(kinds', k - 1) => AllGroups(kinds, k - 1)
    BY <2>1 DEF AllGroups
  <2>. QED  BY <1>0, <2>1, <2>2, <2>3, <2>4, <2>5 DEF InputInv
<1>2. CASE FeedPacket
  <2>1. PICK name \in DOMAIN Packets : input' = input \o Packets[name] /\ kinds' = Append(kinds, name)
    BY <1>2 DEF FeedPacket
  <2>. DEFINE p == Packets[name]
              n == Len(input)
              m == Len(kinds)
  <2>2. p \in Seq(Fed) /\ Len(p) \in Nat
    BY FedPackets
  <2>3. /\ input' \in Seq(Fed) /\ Len(input') = n + Len(p)
        /\ \A i \in 1..n : input'[i] = input[i]
        /\ \A j \in 1..Len(p) : input'[n + j] = p[j]
    <3>1. /\ input \o p \in Seq(Fed) /\ Len(input \o p) = n + Len(p)
          /\ \A i \in 1..(n + Len(p)) : (input \o p)[i] = IF i <= n THEN input[i] ELSE p[i - n]
      BY <1>0, <2>2, ConcatProperties
    <3>. HIDE DEF p, n
    <3>2. \A i \in 1..n : i \in 1..(n + Len(p)) /\ i <= n
      BY <1>0, <2>2 DEF n
    <3>3. \A j \in 1..Len(p) : n + j \in 1..(n + Len(p)) /\ ~(n + j <= n) /\ (n + j) - n = j
      BY <1>0, <2>2 DEF n
    <3>. QED  BY <2>1, <3>1, <3>2, <3>3 DEF p
  <2>4. /\ kinds' \in Seq(DOMAIN Packets) /\ Len(kinds') = m + 1 /\ kinds'[m + 1] = name
        /\ \A k \in 1..m : kinds'[k] = kinds[k]
    BY <1>0, <2>1
  <2>5. \A i \in DOMAIN input : input[i].kind # "loose"
    BY <1>2 DEF FeedPacket
  <2>. HIDE DEF p, n, m
  <2>6. n \in Nat /\ m \in Nat
    BY <1>0 DEF n, m
  <2>7. \A k \in 0..m : AllGroups(kinds', k) => AllGroups(kinds, k)
    <3>1. \A k \in 0..m : \A j \in 1..k : j \in 1..m
      BY <2>6
    <3>. QED  BY <2>4, <3>1 DEF AllGroups
  <2>8. AllGroups(kinds, m) => n = 12 * m
    BY <2>5 DEF InputInv, n, m
  <2>9. ASSUME NEW k \in 1..(m + 1), AllGroups(kinds', k - 1)
        PROVE  LiesAt(input', 12 * (k - 1), Packets[kinds'[k]])
    <3>0. AllGroups(kinds, k - 1)
      BY <2>6, <2>7, <2>9
    <3>1. CASE k = m + 1
      <4>1. 12 * (k - 1) = n
        BY <2>6, <2>8, <3>0, <3>1
      <4>2. n + Len(p) <= Len(input') /\ \A j \in 1..Len(p) : input'[n + j].b = p[j].b
        BY <2>2, <2>3, <2>6
      <4>. QED  BY <2>4, <3>1, <4>1, <4>2 DEF LiesAt, p
    <3>2. CASE k # m + 1
      <4>. DEFINE o == 12 * (k - 1)
                  q == Packets[kinds[k]]
      <4>1. k \in 1..m
        BY <2>6, <3>2
      <4>2. o + Len(q) <= n /\ \A j \in 1..Len(q) : input[o + j].b = q[j].b
        BY <3>0, <4>1 DEF InputInv, LiesAt, n, m
      <4>3. kinds[k] \in DOMAIN Packets
        BY <1>0, <4>1 DEF m
      <4>4. q \in Seq(Fed)
        BY <4>3, FedPackets
      <4>5. kinds'[k] = kinds[k]
        BY <2>4, <4>1
      <4>. HIDE DEF q
      <4>6. o \in Nat /\ Len(q) \in Nat
        BY <2>6, <4>1, <4>4
      <4>. HIDE DEF o
      <4>7. o + Len(q) <= Len(input')
        BY <2>2, <2>3, <2>6, <4>2, <4>6
      <4>8. ASSUME NEW j \in 1..Len(q) PROVE input'[o + j].b = q[j].b
        <5>1. o + j \in 1..n
          BY <2>6, <4>2, <4>6
        <5>. QED  BY <2>3, <4>2, <5>1
      <4>. QED  BY <4>5, <4>7, <4>8 DEF LiesAt, o, q
    <3>. QED  BY <3>1, <3>2
  <2>10. ASSUME AllGroups(kinds', m + 1) PROVE Len(input') = 12 * (m + 1)
    <3>1. name = "group" /\ AllGroups(kinds', m)
      <4>1. m + 1 \in 1..(m + 1) /\ \A j \in 1..m : j \in 1..(m + 1)
        BY <2>6
      <4>2. \A j \in 1..(m + 1) : kinds'[j] = "group"
        BY <2>10 DEF AllGroups
      <4>3. name = "group"
        BY <2>4, <4>1, <4>2
      <4>4. \A j \in 1..m : kinds'[j] = "group"
        BY <4>1, <4>2
      <4>. QED  BY <4>3, <4>4 DEF AllGroups
    <3>2. Len(p) = 12 /\ n = 12 * m
      <4>1. m \in 0..m
        BY <2>6
      <4>2. AllGroups(kinds, m)
        BY <2>7, <3>1, <4>1
      <4>3. Len(p) = 12
        BY <3>1, FedPackets DEF p
      <4>. QED  BY <2>8, <4>2, <4>3
    <3>. QED  BY <2>3, <2>6, <3>2
  <2>11. \A k \in 1..Len(kinds') : AllGroups(kinds', k - 1) => LiesAt(input', 12 * (k - 1), Packets[kinds'[k]])
    BY <2>4, <2>9
  <2>12. AllGroups(kinds', Len(kinds')) => Len(input') = 12 * Len(kinds')
    <3>1. AllGroups(kinds', Len(kinds')) => AllGroups(kinds', m + 1)
      BY <2>4 DEF AllGroups
    <3>. QED  BY <2>4, <2>10, <3>1
  <2>. QED  BY <2>3, <2>4, <2>11, <2>12 DEF InputInv
<1>3. CASE UNCHANGED readerVars
  BY <1>3 DEF readerVars, InputInv, AllGroups, LiesAt
<1>. QED  BY <1>1, <1>2, <1>3 DEF Feed

(* What a step of the input can rely on: it is a sequence of bytes. *)
LEMMA FedBytes == InputInv => Len(input) \in Nat /\ \A k \in 1..Len(input) : input[k].b \in Byte
<1>. SUFFICES ASSUME InputInv PROVE Len(input) \in Nat /\ \A k \in 1..Len(input) : input[k].b \in Byte
  OBVIOUS
<1>1. input \in Seq(Fed)
  BY DEF InputInv
<1>2. \A c \in Fed : c.b \in Byte
  BY DEF Fed
<1>. QED  BY <1>1, <1>2

(* In every input, whatever its bytes and its packets: a reader of responses *)
(* finds one where the pairs of bytes say so, and leaves what is behind it  *)
(* (ble_rsp_connect_direct and ble_rsp_write_command of bledAPI.py).       *)
THEOREM AnswersFollowPairs == ReadersSpec => []AnswerByPairs
<1>1. InputInv => AnswerByPairs
  BY FedBytes, AnswersByPairs DEF AnswerByPairs
<1>. QED  BY <1>1, InputInit, InputNext, PTL DEF ReadersSpec

(* And the reader of values where the second byte and the fourth say so     *)
(* (ble_event_attclient_attribute_value).                                  *)
THEOREM ValuesFollowLength == ReadersSpec => []ValueByLength
<1>1. InputInv => ValueByLength
  BY FedBytes, ValuesByLength DEF ValueByLength
<1>. QED  BY <1>1, InputInit, InputNext, PTL DEF ReadersSpec

(* The reader of groups comes to the end of the procedure behind any number *)
(* of the groups that are fed, whatever is fed behind it.                  *)
THEOREM GroupsAlwaysEnd == ReadersSpec => []GroupsEnd
<1>1. InputInv => GroupsEnd
  <2>. SUFFICES ASSUME InputInv,
                       NEW i \in DOMAIN kinds, kinds[i] = "completed",
                       \A j \in 1..(i - 1) : kinds[j] = "group"
                PROVE  GroupCall(input).found
    BY DEF GroupsEnd
  <2>1. Len(kinds) \in Nat /\ i \in 1..Len(kinds) /\ i \in Nat /\ i - 1 \in Nat
    BY DEF InputInv
  <2>. DEFINE m == i - 1
  <2>2. AllGroups(kinds, m)
    BY DEF AllGroups
  <2>3. ASSUME NEW q \in 0..(m - 1)
        PROVE  input[12 * q + 2].b = 8 /\ input[12 * q + 4].b = GroupCommand
    <3>1. q + 1 \in 1..Len(kinds) /\ q + 1 \in 1..(i - 1) /\ (q + 1) - 1 = q /\ q \in 0..m
      BY <2>1
    <3>2. kinds[q + 1] = "group" /\ AllGroups(kinds, q)
      <4>1. \A j \in 1..q : j \in 1..m
        BY <2>1, <3>1
      <4>. QED  BY <2>2, <3>1, <4>1 DEF AllGroups
    <3>3. LiesAt(input, 12 * q, Packets["group"])
      BY <3>1, <3>2 DEF InputInv
    <3>4. 2 \in 1..12 /\ 4 \in 1..12
      OBVIOUS
    <3>. QED  BY <3>3, <3>4, FedPackets DEF LiesAt
  <2>4. /\ 12 * m + 9 <= Len(input)
        /\ input[12 * m + 2].b = 5 /\ input[12 * m + 4].b = CompletedCommand
    <3>1. LiesAt(input, 12 * m, Packets["completed"])
      BY <2>1, <2>2 DEF InputInv
    <3>2. 2 \in 1..9 /\ 4 \in 1..9
      OBVIOUS
    <3>. QED  BY <3>1, <3>2, FedPackets DEF LiesAt
  <2>. DEFINE at == [q \in 0..m |-> 12 * q]
  <2>5. m \in Nat /\ m \in 0..m /\ at[m] = 12 * m
    BY <2>1
  <2>6. EndBehindGroups(input, m, at)
    <3>1. /\ at \in [0..m -> Nat] /\ at[0] = 0
          /\ \A q \in 0..m : at[q] = 12 * q
          /\ \A q \in 0..(m - 1) : q \in 0..m /\ q + 1 \in 0..m /\ at[q + 1] = 12 * q + 12
      BY <2>5
    <3>. HIDE DEF at, m
    <3>2. \A q \in 0..m : q \in 0..(m - 1) \/ q = m
      BY <2>5
    <3>3. ASSUME NEW q \in 0..m PROVE input[at[q] + 2].b \in Byte \ {EventType}
      <4>1. at[q] = 12 * q
        BY <3>1
      <4>2. input[12 * q + 2].b = 8 \/ input[12 * q + 2].b = 5
        BY <2>3, <2>4, <3>2
      <4>3. 8 \in Byte \ {EventType} /\ 5 \in Byte \ {EventType}
        BY DEF Byte, EventType
      <4>. QED  BY <4>1, <4>2, <4>3
    <3>4. ASSUME NEW q \in 0..(m - 1)
          PROVE  input[at[q] + 4].b = GroupCommand /\ at[q + 1] = at[q] + SizeAt(input, at[q])
      <4>1. at[q] = 12 * q /\ at[q + 1] = 12 * q + 12 /\ q \in Nat
        BY <3>1
      <4>2. input[at[q] + 2].b = 8 /\ input[at[q] + 4].b = GroupCommand
        BY <2>3, <4>1
      <4>. QED  BY <4>1, <4>2 DEF SizeAt
    <3>5. input[at[m] + 4].b = CompletedCommand
      BY <2>4, <2>5, <3>1
    <3>. QED  BY <3>1, <3>3, <3>4, <3>5 DEF EndBehindGroups
  <2>7. Len(input) >= at[m] + SizeAt(input, at[m])
    <3>1. SizeAt(input, at[m]) = 9
      BY <2>4, <2>5 DEF SizeAt
    <3>. QED  BY <2>4, <2>5, <3>1
  <2>. HIDE DEF at, m
  <2>. QED  BY <2>5, <2>6, <2>7, FedBytes, GroupsByPackets
<1>. QED  BY <1>1, InputInit, InputNext, PTL DEF ReadersSpec

(* And the reader of attributes finds the end only in front, in every input *)
(* of any bytes and packets.                                               *)
THEOREM InformationFollowsLength == ReadersSpec => []InformationHidesEnd
<1>1. InputInv => InformationHidesEnd
  BY FedBytes, InformationByLength DEF InformationHidesEnd
<1>. QED  BY <1>1, InputInit, InputNext, PTL DEF ReadersSpec

-----------------------------------------------------------------------------
(* Types.  The packets of the dongle are bytes that fit one, the input only *)
(* loses its beginning, and what a reader found has the fields that the    *)
(* script takes from it.                                                   *)

Kinds0 == {"answer", "status", "gone", "imu", "pose", "report"}

LEMMA PacketCells ==
  ASSUME NEW kind \in Kinds0, NEW bytes \in Seq(Byte)
  PROVE  Packet(kind, bytes) \in Seq(Cells)
<1>. DEFINE n == Len(bytes)
            cell(i) == [b |-> bytes[i], kind |-> kind, last |-> i = n]
<1>1. Packet(kind, bytes) = [i \in 1..n |-> cell(i)] /\ n \in Nat
  BY DEF Packet
<1>2. ASSUME NEW i \in 1..n PROVE cell(i) \in Cells
  <2>1. bytes[i] \in Byte
    OBVIOUS
  <2>2. ASSUME NEW c \in BOOLEAN
        PROVE  [b |-> bytes[i], kind |-> kind, last |-> c] \in Cells
    BY <2>1 DEF Cells, Kinds0, Byte
  <2>3. (i = n) \in BOOLEAN
    OBVIOUS
  <2>. HIDE DEF n
  <2>. QED  BY <2>2, <2>3
<1>. HIDE DEF n, cell
<1>. QED  BY <1>1, <1>2

LEMMA PacketTypes ==
  ASSUME NEW kind \in Kinds0, NEW c \in Byte, NEW d \in Byte,
         NEW payload \in Seq(Byte), Len(payload) <= 255
  PROVE  Response(kind, c, d, payload) \in Seq(Cells)
         /\ Event(kind, c, d, payload) \in Seq(Cells)
<1>1. Len(payload) \in Byte /\ ResponseType \in Byte /\ EventType \in Byte
  <2>1. Len(payload) \in Nat
    OBVIOUS
  <2>2. Len(payload) \in Byte
    BY <2>1, SmallByte
  <2>3. ResponseType \in Byte /\ EventType \in Byte
    BY DEF Byte, ResponseType, EventType
  <2>. QED  BY <2>2, <2>3
<1>2. ASSUME NEW t \in Byte
      PROVE  <<t, Len(payload), c, d>> \o payload \in Seq(Byte)
  <2>. DEFINE n == Len(payload)
  <2>1. n \in Byte
    BY <1>1
  <2>. HIDE DEF n
  <2>2. <<t, n, c, d>> \in Seq(Byte)
    BY <2>1
  <2>3. <<t, n, c, d>> \o payload \in Seq(Byte)
    BY <2>2, ConcatProperties
  <2>. QED  BY <2>3 DEF n
<1>. QED  BY <1>1, <1>2, PacketCells DEF Response, Event

LEMMA ShortTypes ==
  ASSUME NEW kind \in Kinds0, NEW c \in Byte, NEW d \in Byte,
         NEW x \in Byte, NEW y \in Byte, NEW z \in Byte
  PROVE  Response(kind, c, d, <<x, y, z>>) \in Seq(Cells)
         /\ Event(kind, c, d, <<x, y, z>>) \in Seq(Cells)
<1>1. <<x, y, z>> \in Seq(Byte) /\ Len(<<x, y, z>>) = 3 /\ 3 <= 255
  OBVIOUS
<1>. QED  BY <1>1, PacketTypes

LEMMA JoinedBytes ==
  ASSUME NEW s \in Seq(Byte), NEW t \in Seq(Byte), Len(s) + Len(t) <= 255
  PROVE  s \o t \in Seq(Byte) /\ Len(s \o t) <= 255
BY ConcatProperties

(* What the dongle sends. *)
LEMMA SentTypes ==
  ASSUME NEW h \in Byte, NEW ok \in BOOLEAN, NEW n \in Byte, NEW p \in Byte
  PROVE  /\ ConnectAnswer(ok, h) \in Seq(Cells) /\ WriteAnswer(ok, h) \in Seq(Cells)
         /\ DisconnectAnswer(h) \in Seq(Cells) /\ Disconnected(h) \in Seq(Cells)
         /\ Status(h) \in Seq(Cells) /\ ScanReport \in Seq(Cells)
         /\ ImuEvent(n, h) \in Seq(Cells) /\ PoseEvent(p, h) \in Seq(Cells)
<1>1. {0, 1, 2, 3, 4, 5, 6, 8, 9, 28, 35, 129} \subseteq Byte
  BY DEF Byte
<1>2. {"answer", "gone", "status", "imu", "pose", "report"} \subseteq Kinds0
  BY DEF Kinds0
<1>3. ConnectAnswer(ok, h) \in Seq(Cells) /\ WriteAnswer(ok, h) \in Seq(Cells)
  <2>1. Code(ok) \in Seq(Byte) /\ Len(Code(ok)) = 2
    BY <1>1 DEF Code
  <2>2. <<h>> \in Seq(Byte) /\ Len(<<h>>) = 1
    OBVIOUS
  <2>. DEFINE s == Code(ok)
              t == <<h>>
  <2>. HIDE DEF s, t
  <2>3. /\ s \o t \in Seq(Byte) /\ Len(s \o t) <= 255
        /\ t \o s \in Seq(Byte) /\ Len(t \o s) <= 255
    <3>1. s \in Seq(Byte) /\ Len(s) = 2 /\ t \in Seq(Byte) /\ Len(t) = 1
      BY <2>1, <2>2 DEF s, t
    <3>2. Len(s) + Len(t) <= 255 /\ Len(t) + Len(s) <= 255
      BY <3>1
    <3>. QED  BY <3>1, <3>2, JoinedBytes
  <2>4. Response("answer", 6, 3, Code(ok) \o <<h>>) \in Seq(Cells)
        /\ Response("answer", 4, 6, <<h>> \o Code(ok)) \in Seq(Cells)
    BY <1>1, <1>2, <2>3, PacketTypes DEF s, t
  <2>. QED  BY <2>4 DEF ConnectAnswer, WriteAnswer
<1>4. DisconnectAnswer(h) \in Seq(Cells) /\ Disconnected(h) \in Seq(Cells)
  BY <1>1, <1>2, ShortTypes DEF DisconnectAnswer, Disconnected
<1>5. Status(h) \in Seq(Cells)
  <2>. DEFINE payload == [i \in 1..StatusLen |-> IF i = 1 THEN h ELSE 9]
  <2>1. StatusLen \in Nat /\ StatusLen <= 255
    BY LinkAssumption
  <2>2. payload \in Seq(Byte) /\ Len(payload) = StatusLen
    BY <1>1, <2>1
  <2>. HIDE DEF payload
  <2>3. Event("status", 3, 0, payload) \in Seq(Cells)
    BY <1>1, <1>2, <2>1, <2>2, PacketTypes
  <2>. QED  BY <2>3 DEF Status, payload
<1>6. ScanReport \in Seq(Cells)
  <2>. DEFINE payload == [i \in 1..11 |-> 9]
  <2>1. payload \in Seq(Byte) /\ Len(payload) <= 255
    BY <1>1
  <2>. HIDE DEF payload
  <2>2. Event("report", 6, 0, payload) \in Seq(Cells)
    BY <1>1, <1>2, <2>1, PacketTypes
  <2>. QED  BY <2>2 DEF ScanReport, payload
<1>7. ImuEvent(n, h) \in Seq(Cells)
  <2>. DEFINE front == <<h, ImuHandle, 0, 1, ImuLen>>
  <2>1. ImuLen \in Nat /\ ImuLen <= 250 /\ ImuLen \in Byte
    BY LinkAssumption DEF Byte
  <2>2. front \in Seq(Byte) /\ Len(front) = 5
    BY <1>1, <2>1 DEF ImuHandle
  <2>3. ImuData(n) \in Seq(Byte) /\ Len(ImuData(n)) = ImuLen
    BY <2>1 DEF ImuData
  <2>. HIDE DEF front
  <2>4. 5 + ImuLen <= 255
    BY <2>1
  <2>5. front \o ImuData(n) \in Seq(Byte) /\ Len(front \o ImuData(n)) <= 255
    BY <2>2, <2>3, <2>4, JoinedBytes
  <2>6. Event("imu", 4, 5, front \o ImuData(n)) \in Seq(Cells)
    BY <1>1, <1>2, <2>5, PacketTypes
  <2>. QED  BY <2>6 DEF ImuEvent, front
<1>8. PoseEvent(p, h) \in Seq(Cells)
  <2>. DEFINE payload == <<h, ClassifierHandle, 0, 1, 1, p>>
  <2>1. payload \in Seq(Byte) /\ Len(payload) = 6 /\ 6 <= 255
    BY <1>1 DEF ClassifierHandle
  <2>. HIDE DEF payload
  <2>2. Event("pose", 4, 5, payload) \in Seq(Cells)
    BY <1>1, <1>2, <2>1, PacketTypes
  <2>. QED  BY <2>2 DEF PoseEvent, payload
<1>. QED  BY <1>3, <1>4, <1>5, <1>6, <1>7, <1>8

(* What is left of the input, and what a reader found. *)
LEMMA RestCells ==
  ASSUME NEW s \in Seq(Cells), NEW k \in Nat
  PROVE  SubSeq(s, k + 1, Len(s)) \in Seq(Cells)
<1>1. \A i \in (k + 1)..Len(s) : s[i] \in Cells
  OBVIOUS
<1>. QED  BY <1>1, SubSeqProperties

LEMMA PayloadType ==
  ASSUME NEW r \in Readers
  PROVE  /\ Payload(r) \in Seq(Byte)
         /\ SubSeq(Payload(r), 6, Len(Payload(r))) \in Seq(Byte)
         /\ Len(r.buf) = 7 => Len(Payload(r)) = 3
<1>1. r.buf \in Seq(Byte) /\ Len(r.buf) \in Nat
  BY DEF Readers
<1>2. \A i \in 5..Len(r.buf) : r.buf[i] \in Byte
  BY <1>1
<1>3. Payload(r) \in Seq(Byte)
      /\ Len(Payload(r)) = IF 5 <= Len(r.buf) THEN Len(r.buf) - 5 + 1 ELSE 0
  BY <1>1, <1>2, SubSeqProperties DEF Payload
<1>4. \A i \in 6..Len(Payload(r)) : Payload(r)[i] \in Byte
  BY <1>3
<1>5. SubSeq(Payload(r), 6, Len(Payload(r))) \in Seq(Byte)
  BY <1>3, <1>4, SubSeqProperties
<1>6. Len(r.buf) = 7 => Len(Payload(r)) = 3
  <2>1. Len(r.buf) = 7 => 5 <= Len(r.buf) /\ Len(r.buf) - 5 + 1 = 3
    OBVIOUS
  <2>. QED  BY <1>3, <2>1
<1>. QED  BY <1>3, <1>5, <1>6

LEMMA CallTypes ==
  ASSUME NEW in \in Seq(Cells)
  PROVE  /\ AnswerCall(in) \in Calls /\ ValueCall(in) \in Calls /\ StatusCall(in) \in Calls
         /\ AnswerCall(in).found => Len(AnswerCall(in).reader.buf) = 7
<1>1. Len(in) \in Nat /\ (\A k \in 1..Len(in) : in[k].b \in Byte) /\ Len(in) \in 0..Len(in)
  BY CellByte
<1>2. ASSUME NEW kind PROVE RunOf(kind, in)[Len(in)] \in Calls
  <2>1. RunOf(kind, in) \in [0..Len(in) -> Calls]
    BY <1>1, RunSteps
  <2>. QED  BY <1>1, <2>1
<1>3. AnswerCall(in) \in Calls /\ ValueCall(in) \in Calls
  BY <1>2, CallsAreRuns
<1>4. StatusCall(in) \in Calls
  <2>1. ASSUME NEW c \in Calls, NEW n \in Nat PROVE [c EXCEPT !.taken = n] \in Calls
    BY DEF Calls
  <2>2. RunOf("status", in)[Len(in)] \in Calls
    BY <1>2
  <2>3. [RunOf("status", in)[Len(in)] EXCEPT !.taken = Len(in)] \in Calls
    BY <1>1, <2>1, <2>2
  <2>. QED  BY <2>3, CallsAreRuns
<1>5. AnswerCall(in).found => Len(AnswerCall(in).reader.buf) = 7
  <2>. DEFINE n == Len(in)
              f == RunOf("answer", in)
              Good(c) == c.reader.expected \in {0, 7} /\ (c.found => Complete(c.reader))
              S == {k \in 0..n : Good(f[k])}
  <2>1. f \in [0..n -> Calls] /\ f[0] = StartCall
        /\ \A k \in 1..n : f[k] = StepOf("answer", f[k - 1], in[k].b)
    BY <1>1, RunSteps
  <2>. HIDE DEF f
  <2>2. 0 \in S
    BY <1>1, <2>1 DEF StartCall, Fresh
  <2>3. ASSUME NEW c \in Calls, NEW b \in Byte, Good(c) PROVE Good(StepOf("answer", c, b))
    <3>. DEFINE r2 == ResponseByte(AnswerLength, c.reader, b)
    <3>1. r2.expected \in {0, 7}
      <4>1. c.reader \in Readers /\ b \in Nat
        BY DEF Calls, Byte
      <4>2. Collect(c.reader, b).expected = c.reader.expected
            /\ Sized(c.reader, b).expected = 4 + b /\ Fresh.expected = 0
        BY <4>1 DEF Collect, Sized, Fresh, Readers
      <4>3. r2 = Collect(c.reader, b) \/ (r2 = Sized(c.reader, b) /\ b = 3) \/ r2 = Fresh
        BY DEF ResponseByte, AnswerLength
      <4>4. b = 3 => 4 + b = 7
        OBVIOUS
      <4>. HIDE DEF r2
      <4>. QED  BY <2>3, <4>2, <4>3, <4>4
    <3>2. StepOf("answer", c, b) = IF c.found THEN c
            ELSE [reader |-> r2, taken |-> c.taken + 1, found |-> Complete(r2)]
      BY DEF StepOf, ReadBy, WantedBy
    <3>. HIDE DEF r2
    <3>. QED  BY <2>3, <3>1, <3>2
  <2>4. ASSUME NEW k \in 1..n, k - 1 \in S PROVE k \in S
    <3>1. k \in 0..n /\ k - 1 \in 0..n /\ in[k].b \in Byte
      BY <1>1
    <3>2. f[k - 1] \in Calls /\ Good(f[k - 1])
      BY <2>1, <2>4, <3>1
    <3>. HIDE DEF Good
    <3>. QED  BY <2>1, <2>3, <3>1, <3>2
  <2>5. n \in S
    <3>. HIDE DEF S, n
    <3>. QED  BY <1>1, <2>2, <2>4, Climb DEF n
  <2>6. AnswerCall(in) = f[n]
    BY CallsAreRuns DEF f
  <2>7. Good(f[n])
    BY <2>5
  <2>8. f[n].found => f[n].reader.expected = 7 /\ Len(f[n].reader.buf) = 7
    <3>. DEFINE c == f[n]
    <3>. HIDE DEF c
    <3>1. c.reader.expected \in {0, 7}
          /\ (c.found => c.reader.expected > 0 /\ Len(c.reader.buf) = c.reader.expected)
      BY <2>7 DEF Complete, c
    <3>2. ASSUME c.found PROVE c.reader.expected = 7 /\ Len(c.reader.buf) = 7
      <4>1. c.reader.expected > 0 /\ Len(c.reader.buf) = c.reader.expected
        BY <3>1, <3>2, Zenon
      <4>2. \A e \in {0, 7} : e > 0 => e = 7
        OBVIOUS
      <4>. QED  BY <3>1, <4>1, <4>2, Zenon
    <3>. QED  BY <3>2 DEF c
  <2>. QED  BY <2>6, <2>8
<1>. QED  BY <1>3, <1>4, <1>5

-----------------------------------------------------------------------------
(* The types.  A reply is only read as long as connections may be asked for. *)

TypesInv == TypeOK /\ (pc # "exited" => attempt <= Attempts)

LEMMA ByteRange == Byte = 0..255
BY DEF Byte

LEMMA StepFacts ==
  /\ Len(Steps) = 3
  /\ \A i \in 1..Len(Steps) : Steps[i] \in ToSet(Steps)
<1>1. Len(Steps) = 3 /\ DOMAIN Steps = 1..3
  BY DEF Steps
<1>. QED  BY <1>1 DEF ToSet

(* What an answer, a status and a value leave of the input, and the bytes  *)
(* the script takes from them.                                             *)
LEMMA AnswerTypes ==
  ASSUME TypeOK
  PROVE  LET call == AnswerCall(rx)
             payload == Payload(call.reader)
         IN  /\ Dropped(call.taken) \in Seq(Cells)
             /\ call.found => payload[3] \in 0..255
<1>. DEFINE call == AnswerCall(rx)
            payload == Payload(call.reader)
<1>1. rx \in Seq(Cells)
  BY DEF TypeOK
<1>2. call \in Calls /\ (call.found => Len(call.reader.buf) = 7)
  BY <1>1, CallTypes
<1>. HIDE DEF call
<1>3. call.taken \in Nat /\ call.reader \in Readers
  BY <1>2 DEF Calls
<1>4. Dropped(call.taken) \in Seq(Cells)
  BY <1>1, <1>3, RestCells DEF Dropped
<1>5. payload \in Seq(Byte) /\ (call.found => Len(payload) = 3)
  BY <1>2, <1>3, PayloadType
<1>. HIDE DEF payload
<1>6. ASSUME call.found PROVE payload[3] \in Byte
  <2>1. Len(payload) = 3
    BY <1>5, <1>6
  <2>2. 3 \in 1..Len(payload)
    BY <2>1
  <2>. QED  BY <1>5, <2>2, ElementOfSeq
<1>. QED  BY <1>4, <1>6, ByteRange DEF call, payload

LEMMA StatusTypes ==
  ASSUME TypeOK
  PROVE  LET call == StatusCall(rx)
             payload == Payload(call.reader)
         IN  /\ Dropped(call.taken) \in Seq(Cells)
             /\ ~(Len(payload) < StatusLen) => ConnectionOf(payload) \in 0..255
<1>. DEFINE call == StatusCall(rx)
            payload == Payload(call.reader)
<1>1. rx \in Seq(Cells)
  BY DEF TypeOK
<1>2. call \in Calls
  BY <1>1, CallTypes
<1>. HIDE DEF call
<1>3. call.taken \in Nat /\ call.reader \in Readers
  BY <1>2 DEF Calls
<1>4. Dropped(call.taken) \in Seq(Cells)
  BY <1>1, <1>3, RestCells DEF Dropped
<1>5. payload \in Seq(Byte)
  BY <1>3, PayloadType
<1>. HIDE DEF payload
<1>6. ~(Len(payload) < StatusLen) => payload[1] \in Byte
  <2>1. StatusLen \in Nat /\ StatusLen >= 2
    BY LinkAssumption
  <2>2. Len(payload) \in Nat
    BY <1>5
  <2>3. ~(Len(payload) < StatusLen) => 1 \in 1..Len(payload)
    BY <2>1, <2>2
  <2>. QED  BY <1>5, <2>3
<1>. QED  BY <1>4, <1>6, ByteRange DEF call, payload, ConnectionOf

LEMMA ValueTypes ==
  ASSUME TypeOK
  PROVE  LET call == ValueCall(rx)
             payload == Payload(call.reader)
         IN  /\ Dropped(call.taken) \in Seq(Cells)
             /\ SubSeq(payload, 6, Len(payload)) \in Seq(0..255)
<1>. DEFINE call == ValueCall(rx)
<1>1. rx \in Seq(Cells)
  BY DEF TypeOK
<1>2. call \in Calls
  BY <1>1, CallTypes
<1>. HIDE DEF call
<1>3. call.taken \in Nat /\ call.reader \in Readers
  BY <1>2 DEF Calls
<1>4. Dropped(call.taken) \in Seq(Cells)
  BY <1>1, <1>3, RestCells DEF Dropped
<1>5. SubSeq(Payload(call.reader), 6, Len(Payload(call.reader))) \in Seq(Byte)
  BY <1>3, PayloadType
<1>. QED  BY <1>4, <1>5, ByteRange DEF call

LEMMA InitTypes == Init => TypesInv
<1>. SUFFICES ASSUME Init PROVE TypesInv
  OBVIOUS
<1>1. line \in Seq(Cells)
  BY DEF Init
<1>2. attempt = 1 /\ 1 \in 1..(Attempts + 1) /\ 1 <= Attempts /\ cuts = 0 /\ 0 \in 0..MaxCuts
      /\ 0 \in 0..MaxImu /\ 0 \in 0..MaxPoses /\ 0 \in 0..MaxUpdates /\ 0 \in 0..MaxLate
  BY LinkAssumption DEF Init
<1>3. step \in 1..Len(Steps)
  BY StepFacts DEF Init
<1>4. connection \in 0..255 /\ handle \in 0..255
  BY DEF Init
<1>5. rx \in Seq(Cells) /\ board \in Seq(Seq(0..255))
  BY DEF Init
<1>. QED  BY <1>1, <1>2, <1>3, <1>4, <1>5, ZenonT(40) DEF Init, TypesInv, TypeOK

LEMMA Joined == ASSUME NEW s \in Seq(Cells), NEW t \in Seq(Cells) PROVE s \o t \in Seq(Cells)
BY ConcatProperties

LEMMA AppendedData ==
  ASSUME NEW s \in Seq(Seq(0..255)), NEW e \in Seq(0..255)
  PROVE  Append(s, e) \in Seq(Seq(0..255))
<1>. DEFINE S == Seq(0..255)
<1>. HIDE DEF S
<1>1. ASSUME NEW q \in Seq(S), NEW d \in S PROVE Append(q, d) \in Seq(S)
  OBVIOUS
<1>. QED  BY <1>1 DEF S

(* What the types are made of, for steps that change one part of them. *)
ScriptTypes ==
  /\ pc \in {"flush", "ask", "asked", "status", "write", "written", "stream",
            "closing", "closed", "exited"}
  /\ attempt \in 1..(Attempts + 1) /\ step \in 1..Len(Steps)
  /\ connection \in 0..255 /\ handle \in 0..255
  /\ result \in {"none", "0000", "error"}
  /\ pc # "exited" => attempt <= Attempts

WireTypes ==
  /\ rx \in Seq(Cells) /\ line \in Seq(Cells)
  /\ board \in Seq(Seq(0..255))
  /\ cuts \in 0..MaxCuts

DongleTypes ==
  /\ link \in {"none", "opening", "up", "down"} /\ assigned \in Handles
  /\ done \subseteq ToSet(Steps)
  /\ imu \in 0..MaxImu /\ poses \in 0..MaxPoses /\ updates \in 0..MaxUpdates
  /\ late \in 0..MaxLate

FlagTypes == torn \in BOOLEAN /\ mixed \in BOOLEAN /\ behind \in BOOLEAN

LEMMA TypeParts == TypesInv <=> ScriptTypes /\ WireTypes /\ DongleTypes /\ FlagTypes
BY DEF TypesInv, TypeOK, ScriptTypes, WireTypes, DongleTypes, FlagTypes

LEMMA ScriptKept == ScriptTypes /\ UNCHANGED script => ScriptTypes'
BY DEF ScriptTypes, script

LEMMA DongleKept == DongleTypes /\ UNCHANGED dongle => DongleTypes'
BY DEF DongleTypes, dongle

LEMMA FlagsKept == FlagTypes /\ UNCHANGED history => FlagTypes'
BY DEF FlagTypes, history

LEMMA ScriptSteps ==
  ASSUME TypesInv, Script
  PROVE  TypesInv'
<1>0. ScriptTypes /\ WireTypes /\ DongleTypes /\ FlagTypes /\ TypeOK
  BY TypeParts DEF TypesInv
<1>. DEFINE answer == AnswerCall(rx)
            status == StatusCall(rx)
            value == ValueCall(rx)
<1>. SUFFICES ScriptTypes' /\ WireTypes' /\ DongleTypes' /\ FlagTypes'
  BY DEF TypesInv, TypeOK, ScriptTypes, WireTypes, DongleTypes, FlagTypes
<1>1. CASE Flush
  <2>1. ScriptTypes'
    BY <1>0, <1>1 DEF Flush, ScriptTypes
  <2>2. WireTypes'
    BY <1>0, <1>1 DEF Flush, WireTypes, wires
  <2>3. FlagTypes'
    BY <1>0, <1>1 DEF Flush, FlagTypes, Cut
  <2>. QED  BY <1>0, <1>1, <2>1, <2>2, <2>3, DongleKept DEF Flush
<1>2. CASE AskConnection
  <2>1. PICK ok \in BOOLEAN : line' = line \o ConnectAnswer(ok, assigned)
                              /\ link' = IF ok THEN "opening" ELSE link
    BY <1>2 DEF AskConnection
  <2>2. assigned \in Byte /\ 0 \in Byte
    BY <1>0, LinkAssumption DEF DongleTypes, Byte
  <2>3. ConnectAnswer(ok, assigned) \in Seq(Cells)
    BY <2>2, SentTypes
  <2>4. line' \in Seq(Cells)
    BY <1>0, <2>1, <2>3, Joined DEF WireTypes
  <2>5. ScriptTypes'
    BY <1>0, <1>2 DEF AskConnection, ScriptTypes
  <2>6. WireTypes'
    BY <1>0, <1>2, <2>4 DEF AskConnection, WireTypes
  <2>7. DongleTypes'
    BY <1>0, <1>2, <2>1 DEF AskConnection, DongleTypes
  <2>. QED  BY <1>0, <1>2, <2>5, <2>6, <2>7, FlagsKept DEF AskConnection
<1>3. CASE NoAnswer
  <2>1. WireTypes'
    BY <1>0, <1>3, AnswerTypes DEF NoAnswer, TakeAnswer, WireTypes, wires
  <2>2. FlagTypes'
    BY <1>0, <1>3 DEF NoAnswer, TakeAnswer, FlagTypes, Cut
  <2>3. connection' \in 0..255
    BY <1>0, <1>3 DEF NoAnswer, ScriptTypes
  <2>4. ScriptTypes'
    BY <1>0, <1>3, <2>3 DEF NoAnswer, ScriptTypes
  <2>. QED  BY <1>0, <1>3, <2>1, <2>2, <2>4, DongleKept DEF NoAnswer
<1>4. CASE ReadConnect
  <2>1. WireTypes'
    BY <1>0, <1>4, AnswerTypes DEF ReadConnect, TakeAnswer, WireTypes, wires
  <2>2. FlagTypes'
    BY <1>0, <1>4 DEF ReadConnect, TakeAnswer, FlagTypes, Cut
  <2>3. ScriptTypes'
    <3>1. connection' \in 0..255
      BY <1>0, <1>4, AnswerTypes DEF ReadConnect
    <3>2. attempt \in 1..Attempts
      BY <1>0, <1>4, LinkAssumption DEF ReadConnect, ScriptTypes
    <3>3. \/ pc' = "status" /\ result' = "0000" /\ attempt' = attempt
          \/ /\ result' = "error" /\ attempt' = attempt + 1
             /\ pc' = IF attempt < Attempts THEN "ask" ELSE "exited"
      BY <1>4 DEF ReadConnect, MayAskAgain
    <3>4. /\ attempt + 1 \in 1..(Attempts + 1) /\ attempt \in 1..(Attempts + 1)
          /\ attempt <= Attempts /\ (attempt < Attempts => attempt + 1 <= Attempts)
      BY <3>2, LinkAssumption
    <3>5. step' = step /\ handle' = handle
      BY <1>4 DEF ReadConnect
    <3>. QED  BY <1>0, <3>1, <3>3, <3>4, <3>5 DEF ScriptTypes
  <2>. QED  BY <1>0, <1>4, <2>1, <2>2, <2>3, DongleKept DEF ReadConnect
<1>5. CASE ReadStatus
  <2>1. WireTypes'
    BY <1>0, <1>5, StatusTypes DEF ReadStatus, WireTypes, wires
  <2>2. FlagTypes'
    BY <1>0, <1>5 DEF ReadStatus, FlagTypes, Cut
  <2>3. ScriptTypes'
    <3>1. connection' \in 0..255
      <4>1. \/ connection' = 0
            \/ connection' = connection
            \/ /\ ~(Len(Payload(StatusCall(rx).reader)) < StatusLen)
               /\ connection' = ConnectionOf(Payload(StatusCall(rx).reader))
        BY <1>5 DEF ReadStatus
      <4>2. connection \in 0..255
        BY <1>0 DEF ScriptTypes
      <4>3. ~(Len(Payload(StatusCall(rx).reader)) < StatusLen)
              => ConnectionOf(Payload(StatusCall(rx).reader)) \in 0..255
        BY <1>0, StatusTypes, Zenon
      <4>4. 0 \in 0..255
        OBVIOUS
      <4>. QED  BY <4>1, <4>2, <4>3, <4>4, Zenon
    <3>2. pc = "status" /\ pc' \in {"status", "exited", "write"}
      BY <1>5 DEF ReadStatus
    <3>3. UNCHANGED <<attempt, step, handle, result>>
      BY <1>5 DEF ReadStatus
    <3>. QED  BY <1>0, <3>1, <3>2, <3>3 DEF ScriptTypes
  <2>. QED  BY <1>0, <1>5, <2>1, <2>2, <2>3, DongleKept DEF ReadStatus
<1>6. CASE Write
  <2>1. connection \in Byte /\ 0 \in Byte
    BY <1>0 DEF ScriptTypes, Byte
  <2>2. \A ok \in BOOLEAN : WriteAnswer(ok, connection) \in Seq(Cells)
    BY <2>1, SentTypes
  <2>. DEFINE ok == link = "up" /\ connection = assigned
  <2>3. ok \in BOOLEAN
    OBVIOUS
  <2>4. line' = line \o WriteAnswer(ok, connection)
        /\ done' = IF ok THEN done \cup {Steps[step]} ELSE done
    BY <1>6 DEF Write
  <2>. HIDE DEF ok
  <2>5. line' \in Seq(Cells)
    BY <1>0, <2>2, <2>3, <2>4, Joined DEF WireTypes
  <2>6. done' \subseteq ToSet(Steps)
    BY <1>0, <2>4, StepFacts DEF DongleTypes, ScriptTypes
  <2>7. ScriptTypes'
    BY <1>0, <1>6 DEF Write, ScriptTypes
  <2>8. WireTypes'
    BY <1>0, <1>6, <2>5 DEF Write, WireTypes
  <2>9. DongleTypes'
    BY <1>0, <1>6, <2>6 DEF Write, DongleTypes
  <2>. QED  BY <1>0, <1>6, <2>7, <2>8, <2>9, FlagsKept DEF Write
<1>7. CASE ReadWritten
  <2>1. WireTypes'
    BY <1>0, <1>7, AnswerTypes DEF ReadWritten, TakeAnswer, WireTypes, wires
  <2>2. FlagTypes'
    BY <1>0, <1>7 DEF ReadWritten, TakeAnswer, FlagTypes, Cut
  <2>3. ScriptTypes'
    <3>1. step' \in 1..Len(Steps)
      BY <1>0, <1>7, StepFacts DEF ReadWritten, ScriptTypes
    <3>2. pc = "written" /\ pc' \in {"write", "stream"} /\ handle' = 0
          /\ result' \in {"0000", "error"}
      BY <1>7 DEF ReadWritten
    <3>3. attempt' = attempt /\ connection' = connection
      BY <1>7 DEF ReadWritten
    <3>4. 0 \in 0..255
      OBVIOUS
    <3>. QED  BY <1>0, <3>1, <3>2, <3>3, <3>4 DEF ScriptTypes
  <2>. QED  BY <1>0, <1>7, <2>1, <2>2, <2>3, DongleKept DEF ReadWritten
<1>8. CASE ReadValue
  <2>1. WireTypes'
    <3>. DEFINE data == SubSeq(Payload(value.reader), 6, Len(Payload(value.reader)))
    <3>1. rx' \in Seq(Cells) /\ data \in Seq(0..255)
      BY <1>0, <1>8, ValueTypes DEF ReadValue
    <3>2. board' = board \/ board' = Append(board, data)
      BY <1>8 DEF ReadValue
    <3>. HIDE DEF data
    <3>3. board' \in Seq(Seq(0..255))
      <4>1. board \in Seq(Seq(0..255))
        BY <1>0 DEF WireTypes
      <4>2. Append(board, data) \in Seq(Seq(0..255))
        BY <3>1, <4>1, AppendedData
      <4>. QED  BY <3>2, <4>1, <4>2
    <3>4. UNCHANGED <<line, cuts>>
      BY <1>8 DEF ReadValue, wires
    <3>. QED  BY <1>0, <3>1, <3>3, <3>4 DEF WireTypes
  <2>2. FlagTypes'
    BY <1>0, <1>8 DEF ReadValue, FlagTypes, Cut
  <2>3. ScriptTypes'
    <3>1. pc = "stream" /\ pc' \in {"stream", "exited"}
      BY <1>8 DEF ReadValue
    <3>2. UNCHANGED <<attempt, step, connection, handle, result>>
      BY <1>8 DEF ReadValue
    <3>. QED  BY <1>0, <3>1, <3>2 DEF ScriptTypes
  <2>. QED  BY <1>0, <1>8, <2>1, <2>2, <2>3, DongleKept DEF ReadValue
<1>9. CASE ReadDisconnect
  <2>1. rx' \in Seq(Cells)
    <3>. DEFINE k == IF Len(rx) < 7 THEN Len(rx) ELSE 7
    <3>1. rx \in Seq(Cells)
      BY <1>0 DEF WireTypes
    <3>2. k \in Nat
      BY <3>1
    <3>3. rx' = SubSeq(rx, k + 1, Len(rx))
      BY <1>9 DEF ReadDisconnect, Dropped
    <3>. HIDE DEF k
    <3>. QED  BY <3>1, <3>2, <3>3, RestCells
  <2>2. WireTypes'
    BY <1>0, <1>9, <2>1 DEF ReadDisconnect, WireTypes, wires
  <2>3. ScriptTypes'
    BY <1>0, <1>9 DEF ReadDisconnect, ScriptTypes
  <2>. QED  BY <1>0, <1>9, <2>2, <2>3, DongleKept, FlagsKept DEF ReadDisconnect
<1>. QED
  BY <1>1, <1>2, <1>3, <1>4, <1>5, <1>6, <1>7, <1>8, <1>9 DEF Script

LEMMA InterruptSteps ==
  ASSUME TypesInv, Interrupt
  PROVE  TypesInv'
<1>0. ScriptTypes /\ WireTypes /\ DongleTypes /\ FlagTypes
  BY TypeParts
<1>. SUFFICES ScriptTypes' /\ WireTypes' /\ DongleTypes' /\ FlagTypes'
  BY DEF TypesInv, TypeOK, ScriptTypes, WireTypes, DongleTypes, FlagTypes
<1>. DEFINE hit == link = "up" /\ Closing = assigned
<1>1. \/ UNCHANGED <<rx, line, link, torn>>
      \/ /\ rx' = <<>> /\ torn' = (torn \/ Cut(Len(rx)))
         /\ link' = IF hit THEN "down" ELSE link
         /\ line' = line \o DisconnectAnswer(Closing)
                         \o (IF hit THEN Disconnected(Closing) ELSE <<>>)
  BY DEF Interrupt
<1>2. UNCHANGED <<attempt, step, connection, handle, result, board, cuts, assigned,
                  done, imu, poses, updates, late, mixed, behind>>
      /\ pc' \in {"exited", "closing"} /\ pc # "exited"
  BY DEF Interrupt
<1>3. ScriptTypes'
  BY <1>0, <1>2 DEF ScriptTypes
<1>4. DongleTypes'
  BY <1>0, <1>1, <1>2 DEF DongleTypes
<1>5. FlagTypes'
  BY <1>0, <1>1, <1>2 DEF FlagTypes, Cut
<1>6. rx' \in Seq(Cells) /\ line' \in Seq(Cells)
  <2>1. Closing \in Byte /\ 0 \in Byte /\ TRUE \in BOOLEAN
    BY <1>0 DEF Closing, ScriptTypes, Byte
  <2>2. DisconnectAnswer(Closing) \in Seq(Cells) /\ Disconnected(Closing) \in Seq(Cells)
    BY <2>1, SentTypes
  <2>3. (IF hit THEN Disconnected(Closing) ELSE <<>>) \in Seq(Cells)
    <3>1. <<>> \in Seq(Cells)
      OBVIOUS
    <3>. HIDE DEF hit
    <3>. QED  BY <2>2, <3>1
  <2>4. rx \in Seq(Cells) /\ line \in Seq(Cells)
    BY <1>0 DEF WireTypes
  <2>5. line \o DisconnectAnswer(Closing) \in Seq(Cells)
    BY <2>2, <2>4, Joined
  <2>. DEFINE gone == IF hit THEN Disconnected(Closing) ELSE <<>>
              front == line \o DisconnectAnswer(Closing)
  <2>6. front \o gone \in Seq(Cells)
    <3>. HIDE DEF gone, front
    <3>1. front \in Seq(Cells) /\ gone \in Seq(Cells)
      BY <2>3, <2>5 DEF gone, front
    <3>. QED  BY <3>1, Joined
  <2>7. <<>> \in Seq(Cells)
    OBVIOUS
  <2>. QED  BY <1>1, <2>4, <2>6, <2>7
<1>7. WireTypes'
  BY <1>0, <1>2, <1>6 DEF WireTypes
<1>. QED  BY <1>3, <1>4, <1>5, <1>7

LEMMA SendTypes ==
  ASSUME TypesInv, NEW event \in Seq(Cells), SendEvent(event), DongleTypes'
  PROVE  TypesInv'
<1>0. ScriptTypes /\ WireTypes /\ DongleTypes /\ FlagTypes
  BY TypeParts
<1>1. ScriptTypes' /\ FlagTypes'
  BY <1>0, ScriptKept, FlagsKept DEF SendEvent
<1>2. line' \in Seq(Cells)
  BY <1>0, Joined DEF SendEvent, WireTypes
<1>3. WireTypes'
  BY <1>0, <1>2 DEF SendEvent, WireTypes
<1>. QED  BY <1>1, <1>3 DEF TypesInv, TypeOK, ScriptTypes, WireTypes, DongleTypes, FlagTypes

LEMMA DeviceSteps ==
  ASSUME TypesInv, Device
  PROVE  TypesInv'
<1>0. DongleTypes
  BY TypeParts
<1>1. assigned \in Byte /\ 0 \in Byte /\ TRUE \in BOOLEAN
  BY <1>0, LinkAssumption DEF DongleTypes, Byte
<1>2. Status(assigned) \in Seq(Cells) /\ Disconnected(assigned) \in Seq(Cells)
  BY <1>1, SentTypes
<1>3. CASE LinkUp
  <2>1. SendEvent(Status(assigned)) /\ DongleTypes'
    BY <1>0, <1>3 DEF LinkUp, SendEvent, DongleTypes
  <2>. QED  BY <1>2, <2>1, SendTypes
<1>4. CASE UpdateLink
  <2>1. SendEvent(Status(assigned))
    BY <1>4 DEF UpdateLink
  <2>2. updates' \in 0..MaxUpdates
    BY <1>0, <1>4, LinkAssumption DEF UpdateLink, DongleTypes
  <2>3. DongleTypes'
    BY <1>0, <1>4, <2>2 DEF UpdateLink, SendEvent, DongleTypes
  <2>. QED  BY <1>2, <2>1, <2>3, SendTypes
<1>5. CASE LoseLink
  <2>1. SendEvent(Disconnected(assigned)) /\ DongleTypes'
    BY <1>0, <1>5 DEF LoseLink, SendEvent, DongleTypes
  <2>. QED  BY <1>2, <2>1, SendTypes
<1>6. CASE SendImu
  <2>1. imu' \in 0..MaxImu /\ imu + 1 \in Byte
    BY <1>0, <1>6, LinkAssumption DEF SendImu, DongleTypes, Byte
  <2>2. ImuEvent(imu + 1, assigned) \in Seq(Cells)
    BY <1>1, <2>1, SentTypes
  <2>3. SendEvent(ImuEvent(imu + 1, assigned))
    BY <1>6 DEF SendImu
  <2>4. DongleTypes'
    BY <1>0, <1>6, <2>1 DEF SendImu, SendEvent, DongleTypes
  <2>. QED  BY <2>2, <2>3, <2>4, SendTypes
<1>7. CASE SendPose
  <2>1. PICK p \in PoseBytes : SendEvent(PoseEvent(p, assigned))
    BY <1>7 DEF SendPose
  <2>2. p \in Byte
    BY LinkAssumption DEF Byte
  <2>3. PoseEvent(p, assigned) \in Seq(Cells)
    BY <1>1, <2>2, SentTypes
  <2>4. poses' \in 0..MaxPoses
    BY <1>0, <1>7, LinkAssumption DEF SendPose, DongleTypes
  <2>5. DongleTypes'
    BY <1>0, <1>7, <2>1, <2>4 DEF SendPose, SendEvent, DongleTypes
  <2>. QED  BY <2>1, <2>3, <2>5, SendTypes
<1>. QED  BY <1>3, <1>4, <1>5, <1>6, <1>7 DEF Device

LEMMA LateSteps ==
  ASSUME TypesInv, SendLate
  PROVE  TypesInv'
<1>0. DongleTypes
  BY TypeParts
<1>1. PICK event \in {ScanReport} \cup {Disconnected(h) : h \in Handles} : SendEvent(event)
  BY DEF SendLate
<1>2. event \in Seq(Cells)
  <2>1. \A h \in Handles : h \in Byte
    BY LinkAssumption DEF Byte
  <2>2. 0 \in Byte /\ TRUE \in BOOLEAN
    BY DEF Byte
  <2>3. ScanReport \in Seq(Cells) /\ \A h \in Byte : Disconnected(h) \in Seq(Cells)
    BY <2>2, SentTypes
  <2>. QED  BY <2>1, <2>3
<1>3. late' \in 0..MaxLate
  BY <1>0, LinkAssumption DEF SendLate, DongleTypes
<1>4. DongleTypes'
  BY <1>0, <1>1, <1>3 DEF SendLate, SendEvent, DongleTypes
<1>. QED  BY <1>1, <1>2, <1>4, SendTypes

LEMMA ArriveSteps ==
  ASSUME TypesInv, Arrive
  PROVE  TypesInv'
<1>0. ScriptTypes /\ WireTypes /\ DongleTypes /\ FlagTypes
  BY TypeParts
<1>1. PICK k \in 1..Len(line) :
        /\ line[k].last \/ cuts < MaxCuts
        /\ cuts' = IF line[k].last THEN cuts ELSE cuts + 1
        /\ rx' = rx \o SubSeq(line, 1, k)
        /\ line' = SubSeq(line, k + 1, Len(line))
  BY DEF Arrive
<1>2. rx \in Seq(Cells) /\ line \in Seq(Cells) /\ k \in Nat
  BY <1>0 DEF WireTypes
<1>3. line' \in Seq(Cells)
  BY <1>1, <1>2, RestCells
<1>4. rx' \in Seq(Cells)
  <2>1. \A i \in 1..k : line[i] \in Cells
    BY <1>1, <1>2
  <2>2. SubSeq(line, 1, k) \in Seq(Cells)
    BY <1>1, <1>2, <2>1, SubSeqProperties
  <2>. QED  BY <1>1, <1>2, <2>2, Joined
<1>5. cuts' \in 0..MaxCuts
  BY <1>0, <1>1, LinkAssumption DEF WireTypes
<1>6. WireTypes'
  BY <1>0, <1>3, <1>4, <1>5 DEF Arrive, WireTypes
<1>7. ScriptTypes' /\ DongleTypes' /\ FlagTypes'
  BY <1>0, ScriptKept, DongleKept, FlagsKept DEF Arrive
<1>. QED  BY <1>6, <1>7 DEF TypesInv, TypeOK, ScriptTypes, WireTypes, DongleTypes, FlagTypes

(* In every session, with packets of every length a byte can say and bytes *)
(* arriving in every division, what the script holds is what it takes it   *)
(* for: a reply it found has the bytes it looks at, handles and data are   *)
(* bytes, and no more connections are asked for than it may.               *)
THEOREM LinkTypes == Spec => []TypeOK
<1>1. TypesInv /\ [Next]_vars => TypesInv'
  <2>. SUFFICES ASSUME TypesInv, [Next]_vars PROVE TypesInv'
    OBVIOUS
  <2>1. CASE UNCHANGED vars
    BY <2>1 DEF TypesInv, TypeOK, vars
  <2>. QED
    BY <2>1, ScriptSteps, InterruptSteps, DeviceSteps, LateSteps, ArriveSteps DEF Next
<1>2. TypesInv => TypeOK
  BY DEF TypesInv
<1>. QED  BY <1>1, <1>2, InitTypes, PTL DEF Spec

(* One sequence lies in another, o places from its start. *)
Within(t, s, o) == \A j \in 1..Len(t) : o + j \in 1..Len(s) /\ t[j] = s[o + j]
IsRest(t, s, k) ==
  /\ s \in Seq(Cells) /\ t \in Seq(Cells) /\ k \in Nat
  /\ k + Len(t) = Len(s) /\ Within(t, s, k)
IsJoin(u, s, p) ==
  /\ u \in Seq(Cells) /\ s \in Seq(Cells) /\ p \in Seq(Cells)
  /\ Len(u) = Len(s) + Len(p) /\ Within(s, u, 0) /\ Within(p, u, Len(s))

LEMMA RestOf ==
  ASSUME NEW s \in Seq(Cells), NEW k \in 0..Len(s)
  PROVE  IsRest(SubSeq(s, k + 1, Len(s)), s, k)
<1>. DEFINE t == SubSeq(s, k + 1, Len(s))
<1>1. k \in Nat /\ Len(s) \in Nat
  OBVIOUS
<1>2. t \in Seq(Cells)
  BY <1>1, RestCells
<1>3. Len(t) = Len(s) - k
  BY <1>1
<1>4. ASSUME NEW j \in 1..Len(t) PROVE k + j \in 1..Len(s) /\ t[j] = s[k + j]
  BY <1>1, <1>3
<1>. HIDE DEF t
<1>. QED  BY <1>1, <1>2, <1>3, <1>4 DEF IsRest, Within, t

LEMMA JoinOf ==
  ASSUME NEW s \in Seq(Cells), NEW p \in Seq(Cells)
  PROVE  IsJoin(s \o p, s, p)
<1>. DEFINE u == s \o p
<1>1. Len(s) \in Nat /\ Len(p) \in Nat
  OBVIOUS
<1>2. /\ u \in Seq(Cells) /\ Len(u) = Len(s) + Len(p)
      /\ \A i \in 1..(Len(s) + Len(p)) : u[i] = IF i <= Len(s) THEN s[i] ELSE p[i - Len(s)]
  BY ConcatProperties
<1>. HIDE DEF u
<1>3. ASSUME NEW j \in 1..Len(s) PROVE 0 + j \in 1..Len(u) /\ s[j] = u[0 + j]
  <2>1. j \in 1..(Len(s) + Len(p)) /\ j <= Len(s) /\ 0 + j = j
    BY <1>1
  <2>. QED  BY <1>2, <2>1
<1>4. ASSUME NEW j \in 1..Len(p) PROVE Len(s) + j \in 1..Len(u) /\ p[j] = u[Len(s) + j]
  <2>1. Len(s) + j \in 1..(Len(s) + Len(p)) /\ ~(Len(s) + j <= Len(s)) /\ (Len(s) + j) - Len(s) = j
    BY <1>1
  <2>. QED  BY <1>2, <2>1
<1>. QED  BY <1>2, <1>3, <1>4 DEF IsJoin, Within, u

-----------------------------------------------------------------------------
(* Whole packets. *)

(* The cell is the last of its packet. *)
Final(cell) == cell.last

Piece(s, i, n) == [k \in 1..n |-> s[i - 1 + k]]
Shaped(p, n) ==
  /\ n >= 5 /\ Final(p[n])
  /\ \A k \in 1..n : p[k].kind = p[1].kind
  /\ \A k \in 1..(n - 1) : ~Final(p[k])
Filled(p, n, h) ==
  /\ p[1].kind = "answer" => n = 7
  /\ p[1].kind = "status" => n = 4 + StatusLen /\ p[5].b = h
  /\ p[1].kind = "imu" =>
       /\ n = 9 + ImuLen
       /\ p[4].b = ValueCommand /\ p[6].b = ImuHandle /\ p[7].b = 0
       /\ \A k \in 10..n : p[k].b = p[n].b
  /\ p[1].kind = "pose" =>
       n = 10 /\ p[4].b = ValueCommand /\ p[6].b = ClassifierHandle
  /\ p[1].kind \notin {"imu", "pose"} => p[4].b \notin {ValueCommand, CompletedCommand}
Whole(p, n, h) == Shaped(p, n) /\ Filled(p, n, h)
PacketAt(s, i, h) ==
  LET n == 4 + s[i + 1].b
  IN  n \in Nat /\ i + n - 1 <= Len(s) /\ Whole(Piece(s, i, n), n, h)

Starts(s) == {i \in 1..Len(s) : i = 1 \/ Final(s[i - 1])}
Ends(s, kind) == {i \in 1..Len(s) : s[i].kind = kind /\ Final(s[i])}
Framed(s, h) ==
  (Len(s) > 0 => Final(s[Len(s)])) /\ \A i \in Starts(s) : PacketAt(s, i, h)

LEMMA StartIn ==
  ASSUME NEW s, NEW i \in 1..Len(s), i = 1 \/ Final(s[i - 1])
  PROVE  i \in Starts(s)
BY DEF Starts

LEMMA PieceMoves ==
  ASSUME NEW t, NEW s, NEW o \in Nat, Within(t, s, o), Len(t) \in Nat,
         NEW i \in Nat \ {0}, NEW n \in Nat, i + n - 1 <= Len(t)
  PROVE  Piece(t, i, n) = Piece(s, o + i, n)
<1>1. ASSUME NEW k \in 1..n PROVE t[i - 1 + k] = s[o + i - 1 + k]
  <2>1. i - 1 + k \in 1..Len(t) /\ o + (i - 1 + k) = o + i - 1 + k
    OBVIOUS
  <2>. QED  BY <2>1 DEF Within
<1>. DEFINE a(k) == t[i - 1 + k]
            b(k) == s[o + i - 1 + k]
<1>2. \A k \in 1..n : a(k) = b(k)
  BY <1>1
<1>3. Piece(t, i, n) = [k \in 1..n |-> a(k)] /\ Piece(s, o + i, n) = [k \in 1..n |-> b(k)]
  BY DEF Piece
<1>. HIDE DEF a, b
<1>. QED  BY <1>2, <1>3

(* Every packet of a piece is one of the whole, and the other way round if *)
(* the piece reaches the end.                                              *)
LEMMA PacketUp ==
  ASSUME NEW t, NEW s, NEW o \in Nat, Within(t, s, o), Len(t) \in Nat, Len(s) \in Nat,
         o + Len(t) <= Len(s), NEW i \in Nat \ {0}, NEW h, PacketAt(t, i, h)
  PROVE  PacketAt(s, o + i, h)
<1>. DEFINE n == 4 + t[i + 1].b
<1>1. n \in Nat /\ i + n - 1 <= Len(t) /\ Whole(Piece(t, i, n), n, h)
  BY DEF PacketAt
<1>2. n >= 5
  BY <1>1 DEF Whole, Shaped
<1>3. t[i + 1] = s[o + i + 1]
  <2>. HIDE DEF n
  <2>1. i + 1 \in 1..Len(t) /\ o + (i + 1) = o + i + 1
    BY <1>1, <1>2
  <2>. QED  BY <2>1 DEF Within
<1>4. n = 4 + s[o + i + 1].b
  BY <1>3
<1>. HIDE DEF n
<1>5. Piece(t, i, n) = Piece(s, o + i, n)
  BY <1>1, PieceMoves
<1>6. o + i + n - 1 <= Len(s)
  BY <1>1
<1>. QED  BY <1>1, <1>4, <1>5, <1>6 DEF PacketAt

LEMMA PacketDown ==
  ASSUME NEW t, NEW s, NEW o \in Nat, Within(t, s, o), Len(t) \in Nat, Len(s) \in Nat,
         o + Len(t) = Len(s), NEW i \in 1..Len(t), NEW h, PacketAt(s, o + i, h)
  PROVE  PacketAt(t, i, h)
<1>. DEFINE n == 4 + s[o + i + 1].b
<1>1. n \in Nat /\ o + i + n - 1 <= Len(s) /\ Whole(Piece(s, o + i, n), n, h)
  BY DEF PacketAt
<1>2. n >= 5
  BY <1>1 DEF Whole, Shaped
<1>3. t[i + 1] = s[o + i + 1]
  <2>. HIDE DEF n
  <2>1. i + 1 \in 1..Len(t) /\ o + (i + 1) = o + i + 1
    BY <1>1, <1>2
  <2>. QED  BY <2>1 DEF Within
<1>4. n = 4 + t[i + 1].b
  BY <1>3
<1>. HIDE DEF n
<1>6. i + n - 1 <= Len(t)
  BY <1>1
<1>5. Piece(t, i, n) = Piece(s, o + i, n)
  BY <1>1, <1>6, PieceMoves
<1>. QED  BY <1>1, <1>4, <1>5, <1>6 DEF PacketAt

(* Behind whole packets the rest is framed, and so is what is joined. *)
LEMMA FramedRest ==
  ASSUME NEW t, NEW s, NEW k, IsRest(t, s, k), NEW h, Framed(s, h), k = 0 \/ Final(s[k])
  PROVE  Framed(t, h)
<1>1. k \in Nat /\ Len(t) \in Nat /\ Len(s) \in Nat /\ k + Len(t) = Len(s) /\ Within(t, s, k)
  BY DEF IsRest
<1>2. ASSUME Len(t) > 0 PROVE Final(t[Len(t)])
  <2>1. Len(t) \in 1..Len(t) /\ Len(s) > 0
    BY <1>1, <1>2
  <2>2. t[Len(t)] = s[Len(s)]
    BY <1>1, <2>1 DEF Within
  <2>3. Final(s[Len(s)])
    BY <2>1 DEF Framed
  <2>. QED  BY <2>2, <2>3
<1>3. ASSUME NEW i \in Starts(t) PROVE PacketAt(t, i, h)
  <2>1. i \in 1..Len(t) /\ (i = 1 \/ Final(t[i - 1]))
    BY DEF Starts
  <2>2. k + i \in 1..Len(s)
    BY <1>1, <2>1
  <2>3. k + i = 1 \/ Final(s[k + i - 1])
    <3>1. CASE i = 1
      <4>1. k + i - 1 = k /\ (k = 0 => k + i = 1)
        BY <1>1, <3>1
      <4>2. CASE k = 0
        BY <4>1, <4>2
      <4>3. CASE Final(s[k])
        BY <4>1, <4>3, Zenon
      <4>. QED  BY <4>2, <4>3
    <3>2. CASE i # 1 /\ Final(t[i - 1])
      <4>1. i - 1 \in 1..Len(t) /\ k + (i - 1) = k + i - 1
        BY <1>1, <2>1, <3>2
      <4>2. t[i - 1] = s[k + i - 1]
        BY <1>1, <4>1 DEF Within
      <4>. QED  BY <3>2, <4>2
    <3>. QED  BY <2>1, <3>1, <3>2
  <2>4. k + i \in Starts(s)
    BY <1>1, <2>1, <2>2, <2>3, StartIn
  <2>5. PacketAt(s, k + i, h)
    BY <2>4 DEF Framed
  <2>. QED  BY <1>1, <2>1, <2>5, PacketDown
<1>. QED  BY <1>2, <1>3 DEF Framed

LEMMA FramedJoin ==
  ASSUME NEW u, NEW s, NEW p, IsJoin(u, s, p), NEW h, Framed(s, h), Framed(p, h)
  PROVE  Framed(u, h)
<1>. DEFINE k == Len(s)
<1>1. /\ k \in Nat /\ Len(p) \in Nat /\ Len(u) \in Nat /\ Len(u) = k + Len(p)
      /\ Within(s, u, 0) /\ Within(p, u, k)
  BY DEF IsJoin
<1>. HIDE DEF k
<1>2. ASSUME Len(u) > 0 PROVE Final(u[Len(u)])
  <2>1. CASE Len(p) > 0
    <3>1. Len(p) \in 1..Len(p)
      BY <1>1, <2>1
    <3>2. u[Len(u)] = p[Len(p)]
      BY <1>1, <3>1 DEF Within
    <3>. QED  BY <2>1, <3>2 DEF Framed
  <2>2. CASE ~(Len(p) > 0)
    <3>1. Len(s) = Len(u) /\ Len(s) \in 1..Len(s) /\ Len(s) > 0 /\ 0 + Len(s) = Len(u)
      BY <1>1, <1>2, <2>2 DEF k
    <3>2. u[Len(u)] = s[Len(s)]
      BY <1>1, <3>1 DEF Within
    <3>. QED  BY <3>1, <3>2 DEF Framed
  <2>. QED  BY <2>1, <2>2
<1>3. ASSUME NEW i \in Starts(u) PROVE PacketAt(u, i, h)
  <2>1. i \in 1..Len(u) /\ (i = 1 \/ Final(u[i - 1]))
    BY DEF Starts
  <2>2. CASE i <= k
    <3>1. i \in 1..k /\ 0 + i = i
      BY <1>1, <2>1, <2>2
    <3>2. i = 1 \/ Final(s[i - 1])
      <4>1. CASE i # 1 /\ Final(u[i - 1])
        <5>1. i - 1 \in 1..Len(s) /\ 0 + (i - 1) = i - 1
          BY <1>1, <3>1, <4>1 DEF k
        <5>2. s[i - 1] = u[i - 1]
          BY <1>1, <5>1 DEF Within
        <5>. QED  BY <4>1, <5>2
      <4>. QED  BY <2>1, <4>1
    <3>3. i \in Starts(s)
      BY <3>1, <3>2 DEF Starts, k
    <3>4. PacketAt(s, i, h)
      BY <3>3 DEF Framed
    <3>5. i \in Nat \ {0} /\ 0 + Len(s) <= Len(u) /\ 0 \in Nat /\ Len(s) \in Nat
      BY <1>1, <3>1 DEF k
    <3>6. PacketAt(u, 0 + i, h)
      BY <1>1, <3>4, <3>5, PacketUp
    <3>. QED  BY <3>1, <3>6
  <2>3. CASE ~(i <= k)
    <3>. DEFINE j == i - k
    <3>1. j \in 1..Len(p) /\ k + j = i /\ j \in Nat \ {0}
      BY <1>1, <2>1, <2>3
    <3>2. j = 1 \/ Final(p[j - 1])
      <4>1. CASE j # 1
        <5>1. j - 1 \in 1..Len(p) /\ k + (j - 1) = i - 1 /\ i # 1
          BY <1>1, <3>1, <4>1
        <5>2. p[j - 1] = u[i - 1]
          BY <1>1, <5>1 DEF Within
        <5>. QED  BY <2>1, <5>1, <5>2
      <4>. QED  BY <4>1
    <3>. HIDE DEF j
    <3>3. j \in Starts(p)
      BY <3>1, <3>2 DEF Starts
    <3>4. PacketAt(p, j, h)
      BY <3>3 DEF Framed
    <3>5. PacketAt(u, k + j, h)
      <4>1. k + Len(p) <= Len(u)
        BY <1>1
      <4>. QED  BY <1>1, <3>1, <3>4, <4>1, PacketUp
    <3>. QED  BY <3>1, <3>5
  <2>. QED  BY <2>2, <2>3
<1>. QED  BY <1>2, <1>3 DEF Framed

-----------------------------------------------------------------------------
(* Where packets end. *)

LEMMA EndsRest ==
  ASSUME NEW t, NEW s, NEW k, IsRest(t, s, k), NEW kind
  PROVE  /\ \A i \in Ends(t, kind) : k + i \in Ends(s, kind) /\ s[k + i] = t[i]
         /\ \A j \in Ends(s, kind) : j > k => j - k \in Ends(t, kind) /\ t[j - k] = s[j]
<1>1. k \in Nat /\ Len(t) \in Nat /\ Len(s) \in Nat /\ k + Len(t) = Len(s) /\ Within(t, s, k)
  BY DEF IsRest
<1>2. ASSUME NEW i \in Ends(t, kind) PROVE k + i \in Ends(s, kind) /\ s[k + i] = t[i]
  <2>1. i \in 1..Len(t) /\ t[i].kind = kind /\ Final(t[i])
    BY DEF Ends
  <2>2. k + i \in 1..Len(s) /\ t[i] = s[k + i]
    BY <1>1, <2>1 DEF Within
  <2>. QED  BY <1>1, <2>1, <2>2 DEF Ends
<1>3. ASSUME NEW j \in Ends(s, kind), j > k
      PROVE  j - k \in Ends(t, kind) /\ t[j - k] = s[j]
  <2>1. j \in 1..Len(s) /\ s[j].kind = kind /\ Final(s[j])
    BY DEF Ends
  <2>2. j - k \in 1..Len(t) /\ k + (j - k) = j
    BY <1>1, <1>3, <2>1
  <2>3. t[j - k] = s[j]
    BY <1>1, <2>2 DEF Within
  <2>. QED  BY <1>1, <2>1, <2>2, <2>3 DEF Ends
<1>. QED  BY <1>2, <1>3

LEMMA EndsJoin ==
  ASSUME NEW u, NEW s, NEW p, IsJoin(u, s, p), NEW kind
  PROVE  /\ \A i \in Ends(s, kind) : i \in Ends(u, kind) /\ u[i] = s[i]
         /\ \A j \in Ends(p, kind) : Len(s) + j \in Ends(u, kind) /\ u[Len(s) + j] = p[j]
         /\ \A i \in Ends(u, kind) :
              \/ i \in Ends(s, kind) /\ u[i] = s[i]
              \/ i > Len(s) /\ i - Len(s) \in Ends(p, kind) /\ u[i] = p[i - Len(s)]
<1>. DEFINE k == Len(s)
<1>1. /\ k \in Nat /\ Len(p) \in Nat /\ Len(u) \in Nat /\ Len(u) = k + Len(p)
      /\ Within(s, u, 0) /\ Within(p, u, k)
  BY DEF IsJoin
<1>. HIDE DEF k
<1>2. ASSUME NEW i \in 1..Len(s) PROVE i \in 1..Len(u) /\ u[i] = s[i]
  <2>1. 0 + i = i
    BY <1>1 DEF k
  <2>. QED  BY <1>1, <2>1 DEF Within
<1>3. ASSUME NEW j \in 1..Len(p) PROVE k + j \in 1..Len(u) /\ u[k + j] = p[j]
  BY <1>1 DEF Within
<1>4. ASSUME NEW i \in Ends(s, kind) PROVE i \in Ends(u, kind) /\ u[i] = s[i]
  BY <1>2 DEF Ends
<1>5. ASSUME NEW j \in Ends(p, kind) PROVE k + j \in Ends(u, kind) /\ u[k + j] = p[j]
  <2>1. j \in 1..Len(p) /\ p[j].kind = kind /\ Final(p[j])
    BY DEF Ends
  <2>. QED  BY <1>1, <1>3, <2>1 DEF Ends
<1>6. ASSUME NEW i \in Ends(u, kind)
      PROVE  \/ i \in Ends(s, kind) /\ u[i] = s[i]
             \/ i > k /\ i - k \in Ends(p, kind) /\ u[i] = p[i - k]
  <2>1. i \in 1..Len(u) /\ u[i].kind = kind /\ Final(u[i])
    BY DEF Ends
  <2>2. CASE i <= k
    <3>1. i \in 1..Len(s)
      BY <1>1, <2>1, <2>2 DEF k
    <3>. QED  BY <1>2, <2>1, <3>1 DEF Ends
  <2>3. CASE ~(i <= k)
    <3>1. i - k \in 1..Len(p) /\ k + (i - k) = i /\ i > k
      BY <1>1, <2>1, <2>3
    <3>2. u[i] = p[i - k]
      BY <1>3, <3>1
    <3>. QED  BY <1>1, <2>1, <3>1, <3>2 DEF Ends
  <2>. QED  BY <2>2, <2>3
<1>. QED  BY <1>4, <1>5, <1>6 DEF k

(* The motion data on their way are in order, and behind what the board has. *)
Sorted(s, m) ==
  /\ \A i \in Ends(s, "imu") : s[i].b \in 1..m
  /\ \A i, j \in Ends(s, "imu") : i < j => s[i].b < s[j].b
Ahead(bd, s) == \A d \in DOMAIN bd, i \in Ends(s, "imu") : bd[d][1] < s[i].b

(* The one answer on its way has these bytes. *)
OneAnswer(s, x, y, z) ==
  \E i \in Ends(s, "answer") :
    /\ \A j \in Ends(s, "answer") : j = i
    /\ i > 2 /\ s[i - 2].kind = "answer"
    /\ s[i - 2].b = x /\ s[i - 1].b = y /\ s[i].b = z
Behind(s, a, b) == \A i \in Ends(s, a), j \in Ends(s, b) : j < i

LEMMA SortedRest ==
  ASSUME NEW t, NEW s, NEW k, IsRest(t, s, k), NEW m, Sorted(s, m)
  PROVE  Sorted(t, m)
<1>1. k \in Nat
  BY DEF IsRest
<1>2. \A i \in Ends(t, "imu") : k + i \in Ends(s, "imu") /\ s[k + i] = t[i]
  BY EndsRest
<1>3. \A i \in Ends(t, "imu") : i \in Nat
  BY DEF Ends
<1>4. \A i, j \in Ends(t, "imu") : i < j => k + i < k + j
  BY <1>1, <1>3
<1>. QED  BY <1>2, <1>4 DEF Sorted

LEMMA AheadRest ==
  ASSUME NEW t, NEW s, NEW k, IsRest(t, s, k), NEW bd, Ahead(bd, s)
  PROVE  Ahead(bd, t)
<1>1. \A i \in Ends(t, "imu") : k + i \in Ends(s, "imu") /\ s[k + i] = t[i]
  BY EndsRest
<1>. QED  BY <1>1 DEF Ahead

LEMMA NoEndsRest ==
  ASSUME NEW t, NEW s, NEW k, IsRest(t, s, k), NEW kind, Ends(s, kind) = {}
  PROVE  Ends(t, kind) = {}
BY EndsRest

LEMMA BehindRest ==
  ASSUME NEW t, NEW s, NEW k, IsRest(t, s, k), NEW a, NEW b, Behind(s, a, b)
  PROVE  Behind(t, a, b)
<1>1. k \in Nat
  BY DEF IsRest
<1>2. \A i \in Ends(t, a) : k + i \in Ends(s, a)
  BY EndsRest
<1>3. \A i \in Ends(t, b) : k + i \in Ends(s, b)
  BY EndsRest
<1>4. \A i \in Ends(t, a), j \in Ends(t, b) : i \in Nat /\ j \in Nat
  BY DEF Ends
<1>. QED  BY <1>1, <1>2, <1>3, <1>4 DEF Behind

(* What is taken without a byte of an answer leaves the answer whole. *)
LEMMA OneAnswerRest ==
  ASSUME NEW t, NEW s, NEW k, IsRest(t, s, k), NEW x, NEW y, NEW z, OneAnswer(s, x, y, z),
         \A j \in 1..k : s[j].kind # "answer"
  PROVE  OneAnswer(t, x, y, z)
<1>1. k \in Nat /\ Len(t) \in Nat /\ Len(s) \in Nat /\ k + Len(t) = Len(s) /\ Within(t, s, k)
  BY DEF IsRest
<1>2. PICK i \in Ends(s, "answer") :
        /\ \A j \in Ends(s, "answer") : j = i
        /\ i > 2 /\ s[i - 2].kind = "answer"
        /\ s[i - 2].b = x /\ s[i - 1].b = y /\ s[i].b = z
  BY DEF OneAnswer
<1>3. i \in 1..Len(s)
  BY DEF Ends
<1>4. i - 2 > k
  <2>1. ~(i - 2 \in 1..k)
    BY <1>2
  <2>. QED  BY <1>1, <1>2, <1>3, <2>1
<1>5. i - k \in Ends(t, "answer") /\ t[i - k] = s[i]
  <2>1. i > k
    BY <1>1, <1>3, <1>4
  <2>. QED  BY <2>1, EndsRest
<1>6. \A j \in Ends(t, "answer") : j = i - k
  <2>1. ASSUME NEW j \in Ends(t, "answer") PROVE j = i - k
    <3>1. k + j \in Ends(s, "answer") /\ j \in Nat
      BY EndsRest DEF Ends
    <3>2. k + j = i
      BY <1>2, <3>1
    <3>. QED  BY <1>1, <1>3, <3>1, <3>2
  <2>. QED  BY <2>1
<1>7. t[i - k - 2] = s[i - 2] /\ t[i - k - 1] = s[i - 1] /\ i - k > 2
  <2>1. i - k - 2 \in 1..Len(t) /\ k + (i - k - 2) = i - 2
    BY <1>1, <1>3, <1>4
  <2>2. i - k - 1 \in 1..Len(t) /\ k + (i - k - 1) = i - 1
    BY <1>1, <1>3, <1>4
  <2>3. i - k > 2
    BY <1>1, <1>3, <1>4
  <2>. QED  BY <1>1, <2>1, <2>2, <2>3 DEF Within
<1>. QED  BY <1>2, <1>5, <1>6, <1>7 DEF OneAnswer

LEMMA SortedJoin ==
  ASSUME NEW u, NEW s, NEW p, IsJoin(u, s, p), NEW m \in Nat, Sorted(s, m),
         NEW n \in Nat, m <= n,
         \A j \in Ends(p, "imu") : j = Len(p) /\ p[j].b = n /\ m < n
  PROVE  Sorted(u, n)
<1>0. Len(s) \in Nat /\ Len(p) \in Nat /\ \A i \in Ends(s, "imu") : i \in 1..Len(s)
  BY DEF IsJoin, Ends
<1>1. ASSUME NEW i \in Ends(u, "imu")
      PROVE  \/ i \in Ends(s, "imu") /\ u[i].b = s[i].b
             \/ i = Len(s) + Len(p) /\ u[i].b = n /\ m < n
  <2>1. CASE i \in Ends(s, "imu") /\ u[i] = s[i]
    BY <2>1
  <2>2. CASE i > Len(s) /\ i - Len(s) \in Ends(p, "imu") /\ u[i] = p[i - Len(s)]
    <3>1. i - Len(s) = Len(p) /\ p[i - Len(s)].b = n /\ m < n /\ i \in Nat
      BY <2>2 DEF Ends
    <3>. QED  BY <1>0, <2>2, <3>1
  <2>. QED  BY <2>1, <2>2, EndsJoin
<1>2. ASSUME NEW i \in Ends(u, "imu") PROVE u[i].b \in 1..n
  <2>1. \A v \in 1..m : v \in 1..n
    OBVIOUS
  <2>2. m < n => n \in 1..n
    OBVIOUS
  <2>. QED  BY <1>1, <2>1, <2>2 DEF Sorted
<1>3. ASSUME NEW i \in Ends(u, "imu"), NEW j \in Ends(u, "imu"), i < j
      PROVE  u[i].b < u[j].b
  <2>1. CASE i \in Ends(s, "imu") /\ u[i].b = s[i].b
    <3>1. s[i].b \in 1..m
      BY <2>1 DEF Sorted
    <3>2. CASE j \in Ends(s, "imu") /\ u[j].b = s[j].b
      BY <1>3, <2>1, <3>2 DEF Sorted
    <3>3. CASE j = Len(s) + Len(p) /\ u[j].b = n /\ m < n
      BY <2>1, <3>1, <3>3
    <3>. QED  BY <1>1, <3>2, <3>3
  <2>2. CASE i = Len(s) + Len(p)
    <3>1. j \in 1..(Len(s) + Len(p))
      BY DEF Ends, IsJoin
    <3>. QED  BY <1>0, <1>3, <2>2, <3>1
  <2>. QED  BY <1>1, <2>1, <2>2
<1>. QED  BY <1>2, <1>3 DEF Sorted

LEMMA OneAnswerJoin ==
  ASSUME NEW u, NEW s, NEW p, IsJoin(u, s, p), NEW x, NEW y, NEW z
  PROVE  /\ OneAnswer(s, x, y, z) /\ Ends(p, "answer") = {} => OneAnswer(u, x, y, z)
         /\ OneAnswer(p, x, y, z) /\ Ends(s, "answer") = {} => OneAnswer(u, x, y, z)
<1>0. /\ Len(s) \in Nat /\ Len(p) \in Nat /\ Len(u) \in Nat
      /\ \A j \in 1..Len(s) : u[j] = s[j]
      /\ \A j \in 1..Len(p) : u[Len(s) + j] = p[j]
  <2>1. /\ Len(s) \in Nat /\ Len(p) \in Nat /\ Len(u) \in Nat
        /\ Within(s, u, 0) /\ Within(p, u, Len(s))
    BY DEF IsJoin
  <2>2. \A j \in 1..Len(s) : 0 + j = j
    OBVIOUS
  <2>. QED  BY <2>1, <2>2 DEF Within
<1>1. ASSUME OneAnswer(s, x, y, z), Ends(p, "answer") = {} PROVE OneAnswer(u, x, y, z)
  <2>1. PICK i \in Ends(s, "answer") :
          /\ \A j \in Ends(s, "answer") : j = i
          /\ i > 2 /\ s[i - 2].kind = "answer"
          /\ s[i - 2].b = x /\ s[i - 1].b = y /\ s[i].b = z
    BY <1>1 DEF OneAnswer
  <2>2. i \in 1..Len(s) /\ i \in Ends(u, "answer")
    BY EndsJoin DEF Ends
  <2>3. \A j \in Ends(u, "answer") : j = i
    BY <1>1, <2>1, EndsJoin
  <2>4. i - 2 \in 1..Len(s) /\ i - 1 \in 1..Len(s)
    BY <1>0, <2>1, <2>2
  <2>. QED  BY <1>0, <2>1, <2>2, <2>3, <2>4 DEF OneAnswer
<1>2. ASSUME OneAnswer(p, x, y, z), Ends(s, "answer") = {} PROVE OneAnswer(u, x, y, z)
  <2>1. PICK i \in Ends(p, "answer") :
          /\ \A j \in Ends(p, "answer") : j = i
          /\ i > 2 /\ p[i - 2].kind = "answer"
          /\ p[i - 2].b = x /\ p[i - 1].b = y /\ p[i].b = z
    BY <1>2 DEF OneAnswer
  <2>. DEFINE k == Len(s) + i
  <2>2. i \in 1..Len(p) /\ k \in Ends(u, "answer")
    BY EndsJoin DEF Ends
  <2>3. ASSUME NEW j \in Ends(u, "answer") PROVE j = k
    <3>1. j - Len(s) \in Ends(p, "answer")
      BY <1>2, EndsJoin
    <3>2. j - Len(s) = i /\ j \in Nat
      <4>1. j \in Nat
        BY DEF Ends
      <4>. QED  BY <2>1, <3>1, <4>1
    <3>. QED  BY <1>0, <2>2, <3>2
  <2>4. i - 2 \in 1..Len(p) /\ i - 1 \in 1..Len(p)
    BY <1>0, <2>1, <2>2
  <2>5. u[Len(s) + (i - 2)] = p[i - 2] /\ u[Len(s) + (i - 1)] = p[i - 1] /\ u[k] = p[i]
    BY <1>0, <2>2, <2>4
  <2>6. Len(s) + (i - 2) = k - 2 /\ Len(s) + (i - 1) = k - 1 /\ k > 2
    BY <1>0, <2>1, <2>2
  <2>. HIDE DEF k
  <2>7. u[k - 2] = p[i - 2] /\ u[k - 1] = p[i - 1]
    BY <2>5, <2>6
  <2>. QED  BY <2>1, <2>2, <2>3, <2>5, <2>6, <2>7 DEF OneAnswer
<1>. QED  BY <1>1, <1>2

(* A packet sent last is behind all others. *)
LEMMA BehindJoin ==
  ASSUME NEW u, NEW s, NEW p, IsJoin(u, s, p), NEW a, NEW b,
         Behind(s, a, b) \/ Ends(s, a) = {}, Ends(p, b) = {} \/ (Ends(s, a) = {} /\ Ends(p, a) = {})
  PROVE  Behind(u, a, b)
<1>0. Len(s) \in Nat /\ \A i \in Ends(s, a) \cup Ends(s, b) : i \in 1..Len(s)
  BY DEF IsJoin, Ends
<1>. SUFFICES ASSUME NEW i \in Ends(u, a), NEW j \in Ends(u, b) PROVE j < i
  BY DEF Behind
<1>1. i \in Ends(s, a) \/ (i > Len(s) /\ i - Len(s) \in Ends(p, a))
  BY EndsJoin
<1>2. j \in Ends(s, b) \/ (j > Len(s) /\ j - Len(s) \in Ends(p, b))
  BY EndsJoin
<1>3. j \in Ends(s, b)
  BY <1>1, <1>2
<1>4. CASE i \in Ends(s, a)
  BY <1>3, <1>4 DEF Behind
<1>5. CASE i > Len(s)
  <2>1. j \in 1..Len(s) /\ i \in Nat
    BY <1>0, <1>3 DEF Ends
  <2>. QED  BY <1>0, <1>5, <2>1
<1>. QED  BY <1>1, <1>4, <1>5

-----------------------------------------------------------------------------
(* What is sent are whole packets. *)

Sent(p, kind, h) ==
  /\ p \in Seq(Cells) /\ Framed(p, h)
  /\ Ends(p, kind) = {Len(p)} /\ \A other : other # kind => Ends(p, other) = {}

LEMMA WholeSent ==
  ASSUME NEW p \in Seq(Cells), NEW h, Whole(p, Len(p), h), Len(p) = 4 + p[2].b
  PROVE  Sent(p, p[1].kind, h)
<1>. DEFINE n == Len(p)
<1>1. /\ n \in Nat /\ n >= 5 /\ Final(p[n])
      /\ \A k \in 1..n : p[k].kind = p[1].kind
      /\ \A k \in 1..(n - 1) : ~Final(p[k])
  BY DEF Whole, Shaped
<1>2. Starts(p) = {1}
  <2>1. ASSUME NEW i \in Starts(p) PROVE i = 1
    <3>1. i \in 1..n /\ (i = 1 \/ Final(p[i - 1]))
      BY DEF Starts
    <3>2. i # 1 => i - 1 \in 1..(n - 1)
      BY <1>1, <3>1
    <3>. QED  BY <1>1, <3>1, <3>2
  <2>2. 1 \in Starts(p)
    BY <1>1 DEF Starts
  <2>. QED  BY <2>1, <2>2
<1>3. Piece(p, 1, n) = p
  <2>1. p = [k \in 1..n |-> p[k]]
    OBVIOUS
  <2>2. \A k \in 1..n : 1 - 1 + k = k
    OBVIOUS
  <2>. HIDE DEF n
  <2>3. Piece(p, 1, n) = [k \in 1..n |-> p[k]]
    BY <2>2 DEF Piece
  <2>. QED  BY <2>1, <2>3
<1>4. PacketAt(p, 1, h)
  <2>1. 1 + 1 = 2 /\ 1 + n - 1 <= Len(p)
    BY <1>1
  <2>. QED  BY <1>1, <1>3, <2>1 DEF PacketAt
<1>5. Framed(p, h)
  BY <1>1, <1>2, <1>4 DEF Framed
<1>6. ASSUME NEW kind, NEW i \in Ends(p, kind) PROVE i = n /\ p[1].kind = kind
  <2>1. i \in 1..n /\ p[i].kind = kind /\ Final(p[i])
    BY DEF Ends
  <2>2. i # n => i \in 1..(n - 1)
    BY <1>1, <2>1
  <2>. QED  BY <1>1, <2>1, <2>2
<1>7. n \in Ends(p, p[1].kind)
  BY <1>1 DEF Ends
<1>. HIDE DEF n
<1>. QED  BY <1>5, <1>6, <1>7 DEF Sent, n

LEMMA CellsShaped ==
  ASSUME NEW p, NEW kind, NEW t, NEW c, NEW d, NEW payload \in Seq(Byte), Len(payload) >= 1,
         CellsOf(p, kind, t, c, d, payload)
  PROVE  /\ Shaped(p, Len(p)) /\ p[1].kind = kind /\ Len(p) = 4 + p[2].b
         /\ Len(p) = 4 + Len(payload)
         /\ p[4].b = d /\ \A j \in 1..Len(payload) : p[4 + j].b = payload[j]
<1>. DEFINE n == Len(payload)
<1>1. /\ Len(p) = 4 + n /\ p[2].b = n /\ p[4].b = d
      /\ \A j \in 1..n : p[4 + j].b = payload[j]
      /\ \A i \in 1..(4 + n) : p[i].kind = kind /\ p[i].last = (i = 4 + n)
  BY DEF CellsOf
<1>2. n \in Nat /\ n >= 1
  OBVIOUS
<1>. HIDE DEF n
<1>3. 1 \in 1..(4 + n) /\ 4 + n \in 1..(4 + n) /\ 4 + n >= 5
  BY <1>2
<1>4. Final(p[4 + n])
  BY <1>1, <1>3 DEF Final
<1>5. ASSUME NEW k \in 1..(4 + n - 1) PROVE ~Final(p[k])
  <2>1. k \in 1..(4 + n) /\ ~(k = 4 + n)
    BY <1>2
  <2>2. p[k].last = (k = 4 + n)
    BY <1>1, <2>1
  <2>. QED  BY <2>1, <2>2 DEF Final
<1>6. Shaped(p, Len(p))
  <2>1. \A k \in 1..(4 + n) : p[k].kind = p[1].kind
    BY <1>1, <1>3
  <2>2. Shaped(p, 4 + n)
    BY <1>2, <1>3, <1>4, <1>5, <2>1 DEF Shaped
  <2>. QED  BY <1>1, <2>2
<1>. QED  BY <1>1, <1>3, <1>6 DEF n

(* A response or an event, byte by byte. *)
Made(p, kind, d, payload) ==
  /\ p \in Seq(Cells)
  /\ Shaped(p, Len(p)) /\ p[1].kind = kind /\ Len(p) = 4 + p[2].b
  /\ Len(p) = 4 + Len(payload)
  /\ p[4].b = d /\ \A j \in 1..Len(payload) : p[4 + j].b = payload[j]

LEMMA MadeOf ==
  ASSUME NEW kind \in Kinds0, NEW c \in Byte, NEW d \in Byte,
         NEW payload \in Seq(Byte), Len(payload) <= 255, Len(payload) >= 1
  PROVE  /\ Made(Response(kind, c, d, payload), kind, d, payload)
         /\ Made(Event(kind, c, d, payload), kind, d, payload)
<1>1. ResponseType \in Byte /\ EventType \in Byte
  BY DEF Byte, ResponseType, EventType
<1>2. CellsOf(Response(kind, c, d, payload), kind, ResponseType, c, d, payload)
  BY <1>1, PacketOf DEF Response
<1>3. CellsOf(Event(kind, c, d, payload), kind, EventType, c, d, payload)
  BY <1>1, PacketOf DEF Event
<1>4. Response(kind, c, d, payload) \in Seq(Cells) /\ Event(kind, c, d, payload) \in Seq(Cells)
  BY PacketTypes
<1>5. ASSUME NEW p, NEW t, p \in Seq(Cells), CellsOf(p, kind, t, c, d, payload)
      PROVE  Made(p, kind, d, payload)
  BY <1>5, CellsShaped DEF Made
<1>. QED  BY <1>2, <1>3, <1>4, <1>5

LEMMA MadeSent ==
  ASSUME NEW p, NEW kind, NEW d, NEW payload, NEW h, Made(p, kind, d, payload),
         Filled(p, Len(p), h)
  PROVE  Sent(p, kind, h)
BY WholeSent DEF Made, Whole

LEMMA AnswerSent ==
  ASSUME NEW c \in Byte, NEW d \in Byte, d \notin {ValueCommand, CompletedCommand},
         NEW payload \in Seq(Byte), Len(payload) = 3, NEW h
  PROVE  /\ Sent(Response("answer", c, d, payload), "answer", h)
         /\ OneAnswer(Response("answer", c, d, payload), payload[1], payload[2], payload[3])
<1>. DEFINE p == Response("answer", c, d, payload)
<1>1. Made(p, "answer", d, payload)
  <2>1. "answer" \in Kinds0 /\ Len(payload) <= 255 /\ Len(payload) >= 1
    BY DEF Kinds0
  <2>. QED  BY <2>1, MadeOf
<1>. HIDE DEF p
<1>2. /\ p[1].kind = "answer" /\ Len(p) = 7 /\ p[4].b = d
      /\ p[5].b = payload[1] /\ p[6].b = payload[2] /\ p[7].b = payload[3]
  <2>1. /\ p[1].kind = "answer" /\ Len(p) = 4 + 3 /\ p[4].b = d
        /\ \A j \in 1..3 : p[4 + j].b = payload[j]
    BY <1>1 DEF Made
  <2>2. p[4 + 1].b = payload[1] /\ p[4 + 2].b = payload[2] /\ p[4 + 3].b = payload[3]
    BY <2>1
  <2>. QED  BY <2>1, <2>2
<1>3. Filled(p, Len(p), h)
  BY <1>2 DEF Filled
<1>4. Sent(p, "answer", h)
  BY <1>1, <1>3, MadeSent
<1>5. OneAnswer(p, payload[1], payload[2], payload[3])
  <2>1. Ends(p, "answer") = {7}
    BY <1>2, <1>4 DEF Sent
  <2>. DEFINE i == 7
  <2>2. p[7 - 2].kind = "answer"
    <3>1. \A k \in 1..7 : p[k].kind = "answer"
      BY <1>1, <1>2 DEF Made, Shaped
    <3>2. 7 - 2 \in 1..7
      OBVIOUS
    <3>. QED  BY <3>1, <3>2
  <2>3. p[i - 2].b = payload[1] /\ p[i - 1].b = payload[2] /\ p[i].b = payload[3]
    BY <1>2
  <2>4. i \in Ends(p, "answer") /\ (\A j \in Ends(p, "answer") : j = i) /\ i > 2
    BY <2>1
  <2>5. p[i - 2].kind = "answer"
    BY <2>2
  <2>. HIDE DEF i
  <2>. QED  BY <2>3, <2>4, <2>5 DEF OneAnswer
<1>. QED  BY <1>4, <1>5 DEF p

LEMMA JoinedAt ==
  ASSUME NEW s \in Seq(Byte), NEW t \in Seq(Byte)
  PROVE  /\ s \o t \in Seq(Byte) /\ Len(s \o t) = Len(s) + Len(t)
         /\ \A j \in 1..Len(s) : (s \o t)[j] = s[j]
         /\ \A j \in 1..Len(t) : (s \o t)[Len(s) + j] = t[j]
<1>. DEFINE u == s \o t
<1>1. Len(s) \in Nat /\ Len(t) \in Nat
  OBVIOUS
<1>2. /\ u \in Seq(Byte) /\ Len(u) = Len(s) + Len(t)
      /\ \A i \in 1..(Len(s) + Len(t)) : u[i] = IF i <= Len(s) THEN s[i] ELSE t[i - Len(s)]
  BY ConcatProperties
<1>. HIDE DEF u
<1>3. ASSUME NEW j \in 1..Len(s) PROVE u[j] = s[j]
  BY <1>1, <1>2
<1>4. ASSUME NEW j \in 1..Len(t) PROVE u[Len(s) + j] = t[j]
  <2>1. Len(s) + j \in 1..(Len(s) + Len(t)) /\ ~(Len(s) + j <= Len(s)) /\ (Len(s) + j) - Len(s) = j
    BY <1>1
  <2>. QED  BY <1>2, <2>1
<1>. QED  BY <1>2, <1>3, <1>4 DEF u

LEMMA CodeBytes ==
  ASSUME NEW ok \in BOOLEAN, NEW h \in Byte
  PROVE  /\ Code(ok) \o <<h>> \in Seq(Byte) /\ Len(Code(ok) \o <<h>>) = 3
         /\ (Code(ok) \o <<h>>)[1] = Code(ok)[1] /\ (Code(ok) \o <<h>>)[2] = Code(ok)[2]
         /\ (Code(ok) \o <<h>>)[3] = h
         /\ <<h>> \o Code(ok) \in Seq(Byte) /\ Len(<<h>> \o Code(ok)) = 3
         /\ (<<h>> \o Code(ok))[1] = h
         /\ (<<h>> \o Code(ok))[2] = Code(ok)[1] /\ (<<h>> \o Code(ok))[3] = Code(ok)[2]
<1>1. Code(ok) \in Seq(Byte) /\ Len(Code(ok)) = 2
  <2>1. 0 \in Byte /\ 129 \in Byte /\ 1 \in Byte
    BY DEF Byte
  <2>2. <<0, 0>> \in Seq(Byte) /\ <<129, 1>> \in Seq(Byte)
    BY <2>1
  <2>. QED  BY <2>2 DEF Code
<1>2. <<h>> \in Seq(Byte) /\ Len(<<h>>) = 1 /\ <<h>>[1] = h
  OBVIOUS
<1>. DEFINE s == Code(ok)
            t == <<h>>
<1>. HIDE DEF s, t
<1>3. s \in Seq(Byte) /\ Len(s) = 2 /\ t \in Seq(Byte) /\ Len(t) = 1 /\ t[1] = h
  BY <1>1, <1>2 DEF s, t
<1>4. /\ s \o t \in Seq(Byte) /\ Len(s \o t) = 3
      /\ (s \o t)[1] = s[1] /\ (s \o t)[2] = s[2] /\ (s \o t)[3] = t[1]
  <2>1. /\ s \o t \in Seq(Byte) /\ Len(s \o t) = Len(s) + Len(t)
        /\ \A j \in 1..Len(s) : (s \o t)[j] = s[j]
        /\ \A j \in 1..Len(t) : (s \o t)[Len(s) + j] = t[j]
    BY <1>3, JoinedAt
  <2>. DEFINE u == s \o t
  <2>. HIDE DEF u
  <2>2. u[1] = s[1] /\ u[2] = s[2] /\ u[2 + 1] = t[1] /\ u \in Seq(Byte) /\ Len(u) = 3
    BY <1>3, <2>1 DEF u
  <2>. QED  BY <2>2 DEF u
<1>5. /\ t \o s \in Seq(Byte) /\ Len(t \o s) = 3
      /\ (t \o s)[1] = t[1] /\ (t \o s)[2] = s[1] /\ (t \o s)[3] = s[2]
  <2>1. /\ t \o s \in Seq(Byte) /\ Len(t \o s) = Len(t) + Len(s)
        /\ \A j \in 1..Len(t) : (t \o s)[j] = t[j]
        /\ \A j \in 1..Len(s) : (t \o s)[Len(t) + j] = s[j]
    BY <1>3, JoinedAt
  <2>. DEFINE u == t \o s
  <2>. HIDE DEF u
  <2>2. u[1] = t[1] /\ u[1 + 1] = s[1] /\ u[1 + 2] = s[2] /\ u \in Seq(Byte) /\ Len(u) = 3
    BY <1>3, <2>1 DEF u
  <2>. QED  BY <2>2 DEF u
<1>. QED  BY <1>3, <1>4, <1>5 DEF s, t

LEMMA AnswersSent ==
  ASSUME NEW ok \in BOOLEAN, NEW a \in Byte, NEW h
  PROVE  /\ Sent(ConnectAnswer(ok, a), "answer", h)
         /\ OneAnswer(ConnectAnswer(ok, a), Code(ok)[1], Code(ok)[2], a)
         /\ Sent(WriteAnswer(ok, a), "answer", h)
         /\ OneAnswer(WriteAnswer(ok, a), a, Code(ok)[1], Code(ok)[2])
         /\ Sent(DisconnectAnswer(a), "answer", h)
<1>1. 0 \in Byte /\ 3 \in Byte /\ 4 \in Byte /\ 6 \in Byte
  BY DEF Byte
<1>2. \A d \in {0, 3, 6} : d \notin {ValueCommand, CompletedCommand}
  BY DEF ValueCommand, CompletedCommand
<1>. DEFINE s == Code(ok) \o <<a>>
            t == <<a>> \o Code(ok)
<1>3. /\ s \in Seq(Byte) /\ Len(s) = 3 /\ s[1] = Code(ok)[1] /\ s[2] = Code(ok)[2] /\ s[3] = a
      /\ t \in Seq(Byte) /\ Len(t) = 3 /\ t[1] = a /\ t[2] = Code(ok)[1] /\ t[3] = Code(ok)[2]
  BY CodeBytes
<1>4. ConnectAnswer(ok, a) = Response("answer", 6, 3, s)
      /\ WriteAnswer(ok, a) = Response("answer", 4, 6, t)
  BY DEF ConnectAnswer, WriteAnswer
<1>. HIDE DEF s, t
<1>5. Sent(Response("answer", 6, 3, s), "answer", h)
      /\ OneAnswer(Response("answer", 6, 3, s), s[1], s[2], s[3])
  BY <1>1, <1>2, <1>3, AnswerSent
<1>6. Sent(Response("answer", 4, 6, t), "answer", h)
      /\ OneAnswer(Response("answer", 4, 6, t), t[1], t[2], t[3])
  BY <1>1, <1>2, <1>3, AnswerSent
<1>7. Sent(DisconnectAnswer(a), "answer", h)
  <2>. DEFINE r == <<a, 0, 0>>
  <2>1. r \in Seq(Byte) /\ Len(r) = 3
    BY <1>1
  <2>. HIDE DEF r
  <2>2. Sent(Response("answer", 3, 0, r), "answer", h)
    BY <1>1, <1>2, <2>1, AnswerSent
  <2>. QED  BY <2>2 DEF r, DisconnectAnswer
<1>. QED  BY <1>3, <1>4, <1>5, <1>6, <1>7

(* The end of a connection says the same whatever the connection is now. *)
LEMMA GoneSent ==
  ASSUME NEW h \in Byte, NEW g \in Byte
  PROVE  Sent(Disconnected(h), "gone", g)
<1>0. {0, 1, 2, 3, 4, 5, 6, 8, 9, 28, 35} \subseteq Byte /\ "gone" \in Kinds0
      /\ 4 \notin {ValueCommand, CompletedCommand}
  BY DEF Byte, Kinds0, ValueCommand, CompletedCommand
<1>. DEFINE payload == <<h, 8, 2>>
            p == Event("gone", 3, 4, payload)
<1>1. payload \in Seq(Byte) /\ Len(payload) <= 255 /\ Len(payload) >= 1
  BY <1>0
<1>2. p = Disconnected(h)
  BY DEF Disconnected
<1>. HIDE DEF payload
<1>3. Made(p, "gone", 4, payload)
  BY <1>0, <1>1, MadeOf
<1>. HIDE DEF p
<1>4. Filled(p, Len(p), g)
  BY <1>0, <1>3 DEF Filled, Made
<1>. QED  BY <1>2, <1>3, <1>4, MadeSent

LEMMA EventsSent ==
  ASSUME NEW h \in Byte, NEW n \in Byte, NEW v \in Byte
  PROVE  /\ Sent(Status(h), "status", h) /\ Sent(Disconnected(h), "gone", h)
         /\ Sent(ScanReport, "report", h) /\ Sent(PoseEvent(v, h), "pose", h)
         /\ Sent(ImuEvent(n, h), "imu", h) /\ ImuEvent(n, h)[Len(ImuEvent(n, h))].b = n
<1>1. {0, 1, 2, 3, 4, 5, 6, 8, 9, 28, 35} \subseteq Byte
  BY DEF Byte
<1>2. {"gone", "status", "imu", "pose", "report"} \subseteq Kinds0
  BY DEF Kinds0
<1>3. \A d \in {0, 4} : d \notin {ValueCommand, CompletedCommand}
  BY DEF ValueCommand, CompletedCommand
<1>4. Sent(Status(h), "status", h)
  <2>. DEFINE payload == [i \in 1..StatusLen |-> IF i = 1 THEN h ELSE 9]
              p == Event("status", 3, 0, payload)
  <2>1. StatusLen \in Nat /\ StatusLen <= 255 /\ StatusLen >= 1
    BY LinkAssumption
  <2>2. payload \in Seq(Byte) /\ Len(payload) = StatusLen /\ payload[1] = h
    BY <1>1, <2>1
  <2>3. p = Status(h)
    BY DEF Status
  <2>. HIDE DEF payload
  <2>4. Made(p, "status", 0, payload)
    BY <1>1, <1>2, <2>1, <2>2, MadeOf
  <2>. HIDE DEF p
  <2>5. p[1].kind = "status" /\ Len(p) = 4 + StatusLen /\ p[4].b = 0 /\ p[5].b = h
    <3>1. p[4 + 1].b = payload[1]
      BY <2>1, <2>2, <2>4 DEF Made
    <3>. QED  BY <2>2, <2>4, <3>1 DEF Made
  <2>6. Filled(p, Len(p), h)
    BY <1>3, <2>5 DEF Filled
  <2>. QED  BY <2>3, <2>4, <2>6, MadeSent
<1>5. Sent(Disconnected(h), "gone", h)
  BY GoneSent
<1>6. Sent(ScanReport, "report", h)
  <2>. DEFINE payload == [i \in 1..11 |-> 9]
              p == Event("report", 6, 0, payload)
  <2>1. payload \in Seq(Byte) /\ Len(payload) <= 255 /\ Len(payload) >= 1
    BY <1>1
  <2>2. p = ScanReport
    BY DEF ScanReport
  <2>. HIDE DEF payload
  <2>3. Made(p, "report", 0, payload)
    BY <1>1, <1>2, <2>1, MadeOf
  <2>. HIDE DEF p
  <2>4. Filled(p, Len(p), h)
    BY <1>3, <2>3 DEF Filled, Made
  <2>. QED  BY <2>2, <2>3, <2>4, MadeSent
<1>7. Sent(PoseEvent(v, h), "pose", h)
  <2>. DEFINE payload == <<h, ClassifierHandle, 0, 1, 1, v>>
              p == Event("pose", 4, 5, payload)
  <2>1. payload \in Seq(Byte) /\ Len(payload) = 6 /\ payload[2] = ClassifierHandle
    BY <1>1 DEF ClassifierHandle
  <2>2. p = PoseEvent(v, h)
    BY DEF PoseEvent
  <2>. HIDE DEF payload
  <2>3. Made(p, "pose", 5, payload)
    <3>1. Len(payload) <= 255 /\ Len(payload) >= 1
      BY <2>1
    <3>. QED  BY <1>1, <1>2, <2>1, <3>1, MadeOf
  <2>. HIDE DEF p
  <2>4. p[1].kind = "pose" /\ Len(p) = 10 /\ p[4].b = 5 /\ p[6].b = ClassifierHandle
    <3>1. /\ p[1].kind = "pose" /\ Len(p) = 4 + Len(payload) /\ p[4].b = 5
          /\ \A j \in 1..Len(payload) : p[4 + j].b = payload[j]
      BY <2>3 DEF Made
    <3>2. p[4 + 2].b = payload[2]
      BY <2>1, <3>1
    <3>. QED  BY <2>1, <3>1, <3>2
  <2>5. Filled(p, Len(p), h)
    BY <2>4 DEF Filled, ValueCommand
  <2>. QED  BY <2>2, <2>3, <2>5, MadeSent
<1>8. Sent(ImuEvent(n, h), "imu", h) /\ ImuEvent(n, h)[Len(ImuEvent(n, h))].b = n
  <2>. DEFINE front == <<h, ImuHandle, 0, 1, ImuLen>>
              data == ImuData(n)
              payload == front \o data
              p == Event("imu", 4, 5, payload)
  <2>1. ImuLen \in Nat /\ ImuLen <= 250 /\ ImuLen >= 1 /\ ImuLen \in Byte
    BY LinkAssumption DEF Byte
  <2>2. front \in Seq(Byte) /\ Len(front) = 5 /\ front[2] = ImuHandle /\ front[3] = 0
    BY <1>1, <2>1 DEF ImuHandle
  <2>3. data \in Seq(Byte) /\ Len(data) = ImuLen /\ \A j \in 1..ImuLen : data[j] = n
    BY <2>1 DEF ImuData
  <2>4. p = ImuEvent(n, h)
    BY DEF ImuEvent
  <2>. HIDE DEF front, data
  <2>5. /\ payload \in Seq(Byte) /\ Len(payload) = 5 + ImuLen
        /\ payload[2] = ImuHandle /\ payload[3] = 0
        /\ \A j \in 1..ImuLen : payload[5 + j] = n
    <3>1. /\ payload \in Seq(Byte) /\ Len(payload) = Len(front) + Len(data)
          /\ \A j \in 1..Len(front) : payload[j] = front[j]
          /\ \A j \in 1..Len(data) : payload[Len(front) + j] = data[j]
      BY <2>2, <2>3, JoinedAt
    <3>. HIDE DEF payload
    <3>2. /\ Len(payload) = 5 + ImuLen
          /\ \A j \in 1..5 : payload[j] = front[j]
          /\ \A j \in 1..ImuLen : payload[5 + j] = data[j]
      BY <2>2, <2>3, <3>1
    <3>3. payload[2] = front[2] /\ payload[3] = front[3]
      BY <3>2
    <3>. QED  BY <2>2, <2>3, <3>1, <3>2, <3>3
  <2>. HIDE DEF payload
  <2>6. Made(p, "imu", 5, payload)
    <3>1. Len(payload) <= 255 /\ Len(payload) >= 1
      BY <2>1, <2>5
    <3>. QED  BY <1>1, <1>2, <2>5, <3>1, MadeOf
  <2>. HIDE DEF p
  <2>7. /\ p[1].kind = "imu" /\ Len(p) = 9 + ImuLen /\ p[4].b = 5
        /\ p[6].b = ImuHandle /\ p[7].b = 0
    <3>1. /\ p[1].kind = "imu" /\ Len(p) = 4 + Len(payload) /\ p[4].b = 5
          /\ \A j \in 1..Len(payload) : p[4 + j].b = payload[j]
      BY <2>6 DEF Made
    <3>2. p[4 + 2].b = payload[2] /\ p[4 + 3].b = payload[3]
      BY <2>1, <2>5, <3>1
    <3>. QED  BY <2>1, <2>5, <3>1, <3>2
  <2>8. \A k \in 10..Len(p) : p[k].b = n
    <3>1. ASSUME NEW k \in 10..Len(p) PROVE p[k].b = n
      <4>1. k - 9 \in 1..ImuLen /\ k - 4 \in 1..Len(payload) /\ 4 + (k - 4) = k /\ 5 + (k - 9) = k - 4
        BY <2>1, <2>5, <2>7
      <4>2. p[k].b = payload[k - 4]
        BY <2>6, <4>1 DEF Made
      <4>3. payload[k - 4] = n
        BY <2>5, <4>1
      <4>. QED  BY <4>2, <4>3
    <3>. QED  BY <3>1
  <2>9. Len(p) \in 10..Len(p)
    BY <2>1, <2>7
  <2>10. Filled(p, Len(p), h)
    BY <2>7, <2>8, <2>9 DEF Filled, ValueCommand
  <2>. QED  BY <2>4, <2>6, <2>8, <2>9, <2>10, MadeSent
<1>. QED  BY <1>4, <1>5, <1>6, <1>7, <1>8

-----------------------------------------------------------------------------
(* What a reader holds are the last of the bytes it has taken. *)

Held(in, k, c) ==
  /\ c.taken \in 0..k
  /\ ~c.found => c.taken = k
  /\ c.found \/ k >= 1 => c.taken >= 1
  /\ Len(c.reader.buf) <= c.taken
  /\ \A j \in 1..Len(c.reader.buf) : c.reader.buf[j] = in[c.taken - Len(c.reader.buf) + j].b

LEMMA ReadOn ==
  ASSUME NEW kind, NEW r \in Readers, NEW b \in Byte
  PROVE  \/ ReadBy(kind, r, b).buf = Append(r.buf, b)
         \/ ReadBy(kind, r, b).buf = <<>>
<1>1. Collect(r, b).buf = Append(r.buf, b) /\ Sized(r, b).buf = Append(r.buf, b)
      /\ Fresh.buf = <<>>
  BY DEF Collect, Sized, Fresh, Readers
<1>2. \/ ReadBy(kind, r, b) = Collect(r, b)
      \/ ReadBy(kind, r, b) = Sized(r, b)
      \/ ReadBy(kind, r, b) = Fresh
  BY DEF ReadBy, ResponseByte, EventByte, GroupByte
<1>. QED  BY <1>1, <1>2

LEMMA HeldStep ==
  ASSUME NEW kind, NEW in, NEW k \in Nat \ {0}, in[k].b \in Byte,
         NEW c \in Calls, Held(in, k - 1, c)
  PROVE  Held(in, k, StepOf(kind, c, in[k].b))
<1>. DEFINE r == ReadBy(kind, c.reader, in[k].b)
            next == StepOf(kind, c, in[k].b)
<1>0. c.reader \in Readers /\ c.reader.buf \in Seq(Byte) /\ c.taken \in Nat
  BY DEF Calls, Readers
<1>1. CASE c.found
  <2>1. next = c
    BY <1>1 DEF StepOf
  <2>2. /\ c.taken \in 0..(k - 1) /\ c.taken >= 1 /\ Len(c.reader.buf) <= c.taken
        /\ \A j \in 1..Len(c.reader.buf) : c.reader.buf[j] = in[c.taken - Len(c.reader.buf) + j].b
    BY <1>1 DEF Held
  <2>3. c.taken \in 0..k
    BY <2>2
  <2>. QED  BY <1>1, <2>1, <2>2, <2>3 DEF Held
<1>2. CASE ~c.found
  <2>1. next = [reader |-> r, taken |-> c.taken + 1, found |-> WantedBy(kind, r)]
    BY <1>2 DEF StepOf
  <2>2. /\ c.taken = k - 1 /\ Len(c.reader.buf) <= c.taken
        /\ \A j \in 1..Len(c.reader.buf) : c.reader.buf[j] = in[c.taken - Len(c.reader.buf) + j].b
    BY <1>2 DEF Held
  <2>3. r.buf = Append(c.reader.buf, in[k].b) \/ r.buf = <<>>
    BY <1>0, ReadOn
  <2>. HIDE DEF r
  <2>. DEFINE n == Len(c.reader.buf)
  <2>4. next.reader = r /\ next.taken = k
    BY <2>1, <2>2
  <2>. HIDE DEF next
  <2>5. CASE r.buf = <<>>
    <3>1. Len(r.buf) = 0
      BY <2>5
    <3>2. k \in 0..k /\ k >= 1 /\ 0 <= k /\ 1..0 = {}
      OBVIOUS
    <3>. QED  BY <2>4, <3>1, <3>2 DEF Held, next
  <2>6. CASE r.buf = Append(c.reader.buf, in[k].b)
    <3>1. Len(r.buf) = n + 1 /\ r.buf[n + 1] = in[k].b /\ \A j \in 1..n : r.buf[j] = c.reader.buf[j]
      BY <1>0, <2>6
    <3>2. n \in Nat /\ n <= k - 1
      BY <1>0, <2>2
    <3>. HIDE DEF n
    <3>3. ASSUME NEW j \in 1..(n + 1) PROVE r.buf[j] = in[k - (n + 1) + j].b
      <4>1. CASE j = n + 1
        <5>1. k - (n + 1) + j = k
          BY <3>2, <4>1
        <5>. QED  BY <3>1, <4>1, <5>1
      <4>2. CASE j # n + 1
        <5>1. j \in 1..n /\ k - (n + 1) + j = c.taken - n + j
          BY <2>2, <3>2, <4>2
        <5>. QED  BY <2>2, <3>1, <5>1 DEF n
      <4>. QED  BY <4>1, <4>2
    <3>4. k \in 0..k /\ k >= 1 /\ n + 1 <= k
      BY <3>2
    <3>. QED  BY <2>4, <3>1, <3>3, <3>4 DEF Held, next
  <2>. QED  BY <2>3, <2>5, <2>6
<1>. QED  BY <1>1, <1>2

LEMMA HeldRun ==
  ASSUME NEW kind, NEW in, Len(in) \in Nat, \A k \in 1..Len(in) : in[k].b \in Byte
  PROVE  Held(in, Len(in), RunOf(kind, in)[Len(in)])
<1>. DEFINE n == Len(in)
            f == RunOf(kind, in)
            S == {k \in 0..n : Held(in, k, f[k])}
<1>1. f \in [0..n -> Calls] /\ f[0] = StartCall
      /\ \A k \in 1..n : f[k] = StepOf(kind, f[k - 1], in[k].b)
  BY RunSteps
<1>. HIDE DEF f
<1>2. 0 \in S
  <2>1. Held(in, 0, StartCall)
    <3>1. StartCall.found = FALSE /\ StartCall.taken = 0 /\ StartCall.reader = Fresh
          /\ Fresh.buf = <<>>
      BY DEF StartCall, Fresh
    <3>2. Len(<<>>) = 0 /\ 1..0 = {} /\ ~(0 >= 1) /\ 0 \in 0..0 /\ 0 <= 0
      OBVIOUS
    <3>. QED  BY <3>1, <3>2 DEF Held
  <2>2. 0 \in 0..n
    OBVIOUS
  <2>. QED  BY <1>1, <2>1, <2>2
<1>3. ASSUME NEW k \in 1..n, k - 1 \in S PROVE k \in S
  <2>1. k \in 0..n /\ k - 1 \in 0..n /\ k \in Nat \ {0} /\ in[k].b \in Byte
    OBVIOUS
  <2>2. f[k - 1] \in Calls /\ Held(in, k - 1, f[k - 1])
    BY <1>1, <1>3, <2>1
  <2>3. f[k] = StepOf(kind, f[k - 1], in[k].b)
    BY <1>1
  <2>. QED  BY <2>1, <2>2, <2>3, HeldStep
<1>4. n \in Nat /\ n \in 0..n
  OBVIOUS
<1>5. n \in S
  <2>. HIDE DEF S, n
  <2>. QED  BY <1>2, <1>3, <1>4, Climb
<1>. QED  BY <1>5 DEF f

LEMMA ByteNat == \A x \in Byte : x \in Nat
BY DEF Byte

LEMMA CellsGiven ==
  ASSUME NEW in \in Seq(Cells)
  PROVE  Len(in) \in Nat /\ \A k \in 1..Len(in) : in[k].b \in Byte
BY CellByte

LEMMA HeldCalls ==
  ASSUME NEW in \in Seq(Cells)
  PROVE  Held(in, Len(in), AnswerCall(in)) /\ Held(in, Len(in), ValueCall(in))
<1>1. Held(in, Len(in), RunOf("answer", in)[Len(in)])
  BY CellsGiven, HeldRun
<1>2. Held(in, Len(in), RunOf("value", in)[Len(in)])
  BY CellsGiven, HeldRun
<1>. QED  BY <1>1, <1>2, CallsAreRuns

(* A reader of responses that finds none has taken all there was. *)
LEMMA AnswerTaken ==
  ASSUME NEW in \in Seq(Cells), Len(in) > 0
  PROVE  LET call == AnswerCall(in)
         IN  call.taken \in 1..Len(in) /\ (~call.found => call.taken = Len(in))
<1>1. Held(in, Len(in), AnswerCall(in))
  BY HeldCalls
<1>. QED  BY <1>1, CellsGiven DEF Held

LEMMA ValueTaken ==
  ASSUME NEW in \in Seq(Cells), Len(in) > 0
  PROVE  ValueCall(in).taken \in 1..Len(in)
<1>1. Held(in, Len(in), ValueCall(in))
  BY HeldCalls
<1>. QED  BY <1>1, CellsGiven DEF Held

(* The payload of what a reader holds. *)
LEMMA PayloadBytes ==
  ASSUME NEW r \in Readers, NEW n \in Nat, Len(r.buf) = n, n >= 4
  PROVE  /\ Payload(r) \in Seq(Byte) /\ Len(Payload(r)) = n - 4
         /\ \A j \in 1..(n - 4) : Payload(r)[j] = r.buf[4 + j]
<1>1. r.buf \in Seq(Byte)
  BY DEF Readers
<1>2. Payload(r) \in Seq(Byte)
  BY PayloadType
<1>3. Len(Payload(r)) = n - 4
  BY <1>1 DEF Payload
<1>4. ASSUME NEW j \in 1..(n - 4) PROVE Payload(r)[j] = r.buf[4 + j]
  <2>1. Payload(r)[j] = r.buf[5 + j - 1]
    BY <1>1 DEF Payload
  <2>2. 5 + j - 1 = 4 + j
    OBVIOUS
  <2>. QED  BY <2>1, <2>2
<1>. QED  BY <1>2, <1>3, <1>4

-----------------------------------------------------------------------------
(* The packet in front, and what the readers make of it. *)

FirstPart(s, n, h) ==
  n \in Nat /\ n <= Len(s) /\ n = 4 + s[2].b /\ Shaped(s, n) /\ Filled(s, n, h)

LEMMA FrontPacket ==
  ASSUME NEW s \in Seq(Cells), NEW h, Framed(s, h), Len(s) > 0
  PROVE  FirstPart(s, 4 + s[2].b, h)
<1>. DEFINE n == 4 + s[1 + 1].b
            p == Piece(s, 1, n)
<1>1. PacketAt(s, 1, h)
  BY DEF Framed, Starts
<1>2. n \in Nat /\ 1 + n - 1 <= Len(s) /\ Whole(p, n, h)
  BY <1>1 DEF PacketAt
<1>3. n = 4 + s[2].b
  BY <1>2
<1>. HIDE DEF n
<1>4. \A k \in 1..n : p[k] = s[k]
  <2>1. \A k \in 1..n : 1 - 1 + k = k
    BY <1>2
  <2>. QED  BY <2>1 DEF Piece
<1>. HIDE DEF p
<1>5. n >= 5 /\ 1 \in 1..n /\ 4 \in 1..n /\ 5 \in 1..n /\ n \in 1..n /\ \A k \in 1..(n - 1) : k \in 1..n
  BY <1>2 DEF Whole, Shaped
<1>6. Shaped(s, n)
  BY <1>2, <1>4, <1>5 DEF Whole, Shaped
<1>7. Filled(s, n, h)
  <2>1. p[1] = s[1] /\ p[4] = s[4] /\ p[5] = s[5] /\ p[n] = s[n]
    BY <1>4, <1>5
  <2>2. s[1].kind = "imu" \/ s[1].kind = "pose" => n >= 10 \/ n = 10
    <3>1. ImuLen \in Nat /\ ImuLen >= 1
      BY LinkAssumption
    <3>2. s[1].kind = "imu" => n = 9 + ImuLen
      BY <1>2, <2>1 DEF Whole, Filled
    <3>3. s[1].kind = "pose" => n = 10
      BY <1>2, <2>1 DEF Whole, Filled
    <3>. QED  BY <3>1, <3>2, <3>3
  <2>3. s[1].kind = "imu" \/ s[1].kind = "pose" =>
          p[6] = s[6] /\ p[7] = s[7] /\ \A k \in 10..n : p[k] = s[k]
    BY <1>2, <1>4, <2>2
  <2>. QED  BY <1>2, <2>1, <2>3 DEF Whole, Filled
<1>. QED  BY <1>2, <1>3, <1>6, <1>7 DEF FirstPart

(* What of it has come. *)
LEMMA FrontCut ==
  ASSUME NEW s, NEW n, NEW h, FirstPart(s, n, h), NEW in, Len(in) \in Nat, Len(in) > 0,
         Within(in, s, 0)
  PROVE  /\ \A k \in 1..Len(in) : in[k] = s[k]
         /\ Final(in[Len(in)]) => n <= Len(in)
<1>1. ASSUME NEW k \in 1..Len(in) PROVE in[k] = s[k]
  <2>1. 0 + k = k
    OBVIOUS
  <2>. QED  BY <2>1 DEF Within
<1>2. ASSUME ~(n <= Len(in)) PROVE ~Final(in[Len(in)])
  <2>1. Len(in) \in 1..(n - 1) /\ Len(in) \in 1..Len(in)
    BY <1>2 DEF FirstPart
  <2>. QED  BY <1>1, <2>1 DEF FirstPart, Shaped
<1>. QED  BY <1>1, <1>2

LEMMA AnswerInFront ==
  ASSUME NEW s \in Seq(Cells), NEW n, NEW h, FirstPart(s, n, h),
         NEW in \in Seq(Cells), Len(in) > 0, Within(in, s, 0), in[1].kind = "answer",
         Final(in[AnswerCall(in).taken])
  PROVE  LET call == AnswerCall(in)
         IN  /\ n = 7 /\ call.found /\ call.taken = 7 /\ 7 <= Len(in)
             /\ Payload(call.reader) \in Seq(Byte) /\ Len(Payload(call.reader)) = 3
             /\ \A j \in 1..3 : Payload(call.reader)[j] = s[4 + j].b
<1>. DEFINE call == AnswerCall(in)
<1>0. Len(in) \in Nat /\ \A k \in 1..Len(in) : in[k].b \in Byte
  BY CellsGiven
<1>1. /\ \A k \in 1..Len(in) : in[k] = s[k]
      /\ Final(in[Len(in)]) => n <= Len(in)
  BY <1>0, FrontCut
<1>2. n = 7 /\ n = 4 + s[2].b
  <2>1. s[1].kind = "answer"
    BY <1>0, <1>1
  <2>. QED  BY <2>1 DEF FirstPart, Filled
<1>3. 2 <= Len(in) => in[2 * 1].b = AnswerLength
  <2>1. 2 <= Len(in) => in[2] = s[2]
    BY <1>0, <1>1
  <2>2. s \in Seq(Cells) /\ 2 \in 1..Len(s)
    BY <1>2 DEF FirstPart
  <2>3. s[2].b \in Nat
    <3>1. s[2] \in Cells
      BY <2>2
    <3>2. s[2].b \in Byte
      BY <3>1, CellByte
    <3>. QED  BY <3>2, ByteNat
  <2>4. s[2].b = 3
    BY <1>2, <2>3
  <2>. QED  BY <2>1, <2>4 DEF AnswerLength
<1>4. AnswerRun(in, 1, Len(in), call)
  <2>1. 2 * 1 <= Len(in) => Stops(in, 1)
    BY <1>3 DEF Stops
  <2>2. 1 \in Nat \ {0} /\ \A i \in 1..(1 - 1) : 2 * i <= Len(in) => ~Stops(in, i)
    OBVIOUS
  <2>. QED  BY <1>0, <2>1, <2>2, AnswersRun
<1>5. Held(in, Len(in), call) /\ call \in Calls
  BY HeldCalls, CallTypes
<1>. HIDE DEF call
<1>6. CASE Len(in) < 2
  <2>1. ~call.found
    BY <1>0, <1>4, <1>6 DEF AnswerRun, Searching
  <2>2. call.taken = Len(in)
    BY <1>5, <2>1 DEF Held
  <2>3. Final(in[Len(in)])
    BY <2>2 DEF call
  <2>. QED  BY <1>0, <1>1, <1>2, <1>6, <2>3
<1>7. CASE ~(Len(in) < 2)
  <2>1. in[2 * 1].b # ResponseType
    BY <1>0, <1>3, <1>7 DEF AnswerLength, ResponseType
  <2>2. Collecting(1, Len(in), call)
    BY <1>0, <1>4, <1>7, <2>1 DEF AnswerRun
  <2>5. call.found <=> Len(in) >= 7
    <3>1. call.found = (Len(in) >= 2 * 1 + 5)
      BY <2>2 DEF Collecting
    <3>2. (Len(in) >= 2 * 1 + 5) <=> Len(in) >= 7
      BY <1>0
    <3>. QED  BY <3>1, <3>2, Zenon
  <2>3. CASE ~(Len(in) >= 7)
    <3>1. ~call.found
      BY <2>3, <2>5, Zenon
    <3>2. call.taken = Len(in)
      BY <1>5, <3>1 DEF Held
    <3>3. Final(in[Len(in)])
      BY <3>2 DEF call
    <3>. QED  BY <1>0, <1>1, <1>2, <2>3, <3>3
  <2>4. CASE Len(in) >= 7
    <3>1. call.found
      BY <2>4, <2>5, Zenon
    <3>2. call.taken = 7 /\ Len(call.reader.buf) = 7
      BY <2>2, <3>1 DEF Collecting
    <3>3. \A j \in 1..7 : call.reader.buf[j] = in[j].b
      <4>1. \A j \in 1..7 : call.reader.buf[j] = in[7 - 7 + j].b
        BY <1>5, <3>2 DEF Held
      <4>2. \A j \in 1..7 : 7 - 7 + j = j
        OBVIOUS
      <4>. QED  BY <4>1, <4>2
    <3>4. call.reader \in Readers
      BY <1>5 DEF Calls
    <3>5. /\ Payload(call.reader) \in Seq(Byte) /\ Len(Payload(call.reader)) = 7 - 4
          /\ \A j \in 1..(7 - 4) : Payload(call.reader)[j] = call.reader.buf[4 + j]
      <4>1. 7 \in Nat /\ 7 >= 4
        OBVIOUS
      <4>. DEFINE r == call.reader
      <4>2. r \in Readers /\ Len(r.buf) = 7
        BY <3>2, <3>4
      <4>. HIDE DEF r
      <4>3. /\ Payload(r) \in Seq(Byte) /\ Len(Payload(r)) = 7 - 4
            /\ \A j \in 1..(7 - 4) : Payload(r)[j] = r.buf[4 + j]
        BY <4>1, <4>2, PayloadBytes
      <4>. QED  BY <4>3 DEF r
    <3>6. \A j \in 1..3 : 4 + j \in 1..7 /\ 4 + j \in 1..Len(in)
      BY <1>0, <2>4
    <3>7. \A j \in 1..3 : Payload(call.reader)[j] = s[4 + j].b
      BY <1>1, <3>3, <3>5, <3>6, SMTT(30)
    <3>. QED  BY <1>0, <1>2, <2>4, <3>1, <3>2, <3>5, <3>7 DEF call
  <2>. QED  BY <2>3, <2>4
<1>. QED  BY <1>0, <1>6, <1>7

LEMMA StatusLength == StatusLen \in Nat
BY LinkAssumption

LEMMA StatusInFront ==
  ASSUME NEW s \in Seq(Cells), NEW n, NEW h, FirstPart(s, n, h),
         NEW in \in Seq(Cells), Len(in) > 0, Within(in, s, 0), in[1].kind = "status",
         Final(in[Len(in)]), StatusLen # EventType
  PROVE  LET call == StatusCall(in)
         IN  /\ call.found /\ n <= Len(in)
             /\ Len(Payload(call.reader)) = StatusLen /\ Payload(call.reader)[1] = h
<1>. DEFINE run == RunOf("status", in)[Len(in)]
            call == StatusCall(in)
<1>0. Len(in) \in Nat /\ \A k \in 1..Len(in) : in[k].b \in Byte
  BY CellsGiven
<1>1. n <= Len(in) /\ \A k \in 1..Len(in) : in[k] = s[k]
  BY <1>0, FrontCut
<1>2. n = 4 + StatusLen /\ s[5].b = h /\ n = 4 + s[2].b /\ n >= 5
  <2>1. s[1].kind = "status"
    BY <1>0, <1>1
  <2>. QED  BY <2>1 DEF FirstPart, Filled, Shaped
<1>3. in[2].b = StatusLen /\ in[5].b = h
  <2>0. StatusLen \in Nat
    BY StatusLength
  <2>1. 2 \in 1..Len(in) /\ 5 \in 1..Len(in)
    BY <1>0, <1>1, <1>2, <2>0
  <2>2. in[2] = s[2] /\ in[5] = s[5]
    BY <1>1, <2>1
  <2>3. s[2].b \in Nat
    BY <1>0, <2>1, <2>2, ByteNat
  <2>4. s[2].b = StatusLen
    BY <1>2, <2>0, <2>3
  <2>. QED  BY <1>2, <2>2, <2>4
<1>4. EventRun("status", in, Len(in), run)
  <2>1. "status" \in Events
    BY DEF Events
  <2>. QED  BY <1>0, <2>1, EventsRun
<1>5. run \in Calls
  <2>1. RunOf("status", in) \in [0..Len(in) -> Calls] /\ Len(in) \in 0..Len(in)
    BY <1>0, RunSteps
  <2>. QED  BY <2>1
<1>6. call.reader = run.reader /\ call.found = run.found
  <2>1. call = [run EXCEPT !.taken = Len(in)]
    BY CallsAreRuns
  <2>. HIDE DEF run, call
  <2>. QED  BY <1>5, <2>1 DEF Calls
<1>. HIDE DEF run, call
<1>7. FoundBehind("status", in, Len(in))
  <2>1. Len(in) >= 4 /\ Len(in) >= 4 + in[2].b
    BY <1>0, <1>1, <1>2, <1>3, LinkAssumption
  <2>2. Hit("status", in)
    BY <1>3 DEF Hit, Wants
  <2>. QED  BY <2>1, <2>2 DEF FoundBehind
<1>8. run.found
  <2>1. run.found = FoundBehind("status", in, Len(in))
    BY <1>4 DEF EventRun
  <2>. QED  BY <1>7, <2>1, Zenon
<1>9. /\ run.taken = 4 + in[2].b
      /\ Len(run.reader.buf) = run.taken
      /\ \A j \in 1..run.taken : run.reader.buf[j] = in[j].b
  BY <1>4, <1>8 DEF EventRun
<1>. DEFINE r == run.reader
            m == 4 + StatusLen
<1>10. r \in Readers /\ m \in Nat /\ m >= 5 /\ Len(r.buf) = m /\ r.buf[5] = h
  <2>1. m \in Nat /\ m >= 5
    BY LinkAssumption
  <2>2. Len(r.buf) = m /\ 5 \in 1..m
    BY <1>3, <1>9, <2>1
  <2>3. r.buf[5] = h
    BY <1>3, <1>9, <2>2
  <2>. QED  BY <1>5, <2>1, <2>2, <2>3 DEF Calls
<1>. HIDE DEF r, m
<1>11. /\ Len(Payload(r)) = m - 4
       /\ \A j \in 1..(m - 4) : Payload(r)[j] = r.buf[4 + j]
  BY <1>10, PayloadBytes
<1>12. Payload(r)[1] = r.buf[4 + 1]
  BY <1>10, <1>11
<1>13. m - 4 = StatusLen /\ 4 + 1 = 5
  BY LinkAssumption DEF m
<1>. QED  BY <1>1, <1>6, <1>8, <1>10, <1>11, <1>12, <1>13 DEF r, call

(* A reader of values takes the report of a value and nothing else, and     *)
(* finds nothing in anything else.                                         *)
LEMMA ValueInFront ==
  ASSUME NEW s \in Seq(Cells), NEW n, NEW h, FirstPart(s, n, h),
         NEW in \in Seq(Cells), Len(in) > 0, Within(in, s, 0),
         Final(in[ValueCall(in).taken]), 5 + ImuLen # EventType
  PROVE  LET call == ValueCall(in)
         IN  /\ in[1].kind \in {"imu", "pose"} =>
                  /\ call.found /\ call.taken = n /\ n <= Len(in)
                  /\ Len(call.reader.buf) = n
                  /\ \A j \in 1..n : call.reader.buf[j] = s[j].b
             /\ in[1].kind \notin {"imu", "pose"} => ~call.found /\ call.taken = Len(in)
<1>. DEFINE call == ValueCall(in)
<1>0. Len(in) \in Nat /\ \A k \in 1..Len(in) : in[k].b \in Byte
  BY CellsGiven
<1>1. /\ \A k \in 1..Len(in) : in[k] = s[k]
      /\ Final(in[Len(in)]) => n <= Len(in)
  BY <1>0, FrontCut
<1>2. EventRun("value", in, Len(in), call)
  <2>1. "value" \in Events
    BY DEF Events
  <2>2. EventRun("value", in, Len(in), RunOf("value", in)[Len(in)])
    BY <1>0, <2>1, EventsRun
  <2>. QED  BY <2>2, CallsAreRuns
<1>3. in[1] = s[1]
  BY <1>0, <1>1
<1>4. Final(in[call.taken])
  OBVIOUS
<1>. HIDE DEF call
<1>5. call.found <=> FoundBehind("value", in, Len(in))
  <2>1. call.found = FoundBehind("value", in, Len(in))
    BY <1>2 DEF EventRun
  <2>2. FoundBehind("value", in, Len(in)) \in BOOLEAN
    BY DEF FoundBehind, Hit, Wants
  <2>. QED  BY <2>1, <2>2
<1>6. n \in Nat /\ n >= 5 /\ n <= Len(s) /\ n = 4 + s[2].b
  BY DEF FirstPart, Shaped
<1>7. CASE in[1].kind \in {"imu", "pose"}
  <2>1. s[4].b = ValueCommand /\ n - 4 # EventType
    <3>1. Filled(s, n, h) /\ s[1].kind \in {"imu", "pose"}
      BY <1>3, <1>7 DEF FirstPart
    <3>2. CASE s[1].kind = "imu"
      <4>1. n = 9 + ImuLen /\ s[4].b = ValueCommand
        BY <3>1, <3>2 DEF Filled
      <4>. QED  BY <4>1, LinkAssumption
    <3>3. CASE s[1].kind = "pose"
      <4>1. n = 10 /\ s[4].b = ValueCommand
        BY <3>1, <3>3 DEF Filled
      <4>. QED  BY <4>1 DEF EventType
    <3>. QED  BY <3>1, <3>2, <3>3
  <2>2. CASE ~(n <= Len(in))
    <3>1. ~FoundBehind("value", in, Len(in))
      <4>1. CASE Len(in) >= 2
        <5>1. in[2] = s[2]
          BY <1>0, <1>1, <4>1
        <5>. QED  BY <1>6, <2>2, <5>1 DEF FoundBehind
      <4>2. CASE ~(Len(in) >= 2)
        BY <1>0, <4>2 DEF FoundBehind
      <4>. QED  BY <4>1, <4>2
    <3>2. ~call.found
      BY <1>5, <3>1, Zenon
    <3>3. call.taken = Len(in)
      BY <1>2, <3>2 DEF EventRun
    <3>. QED  BY <1>1, <1>4, <2>2, <3>3
  <2>3. CASE n <= Len(in)
    <3>1. in[2] = s[2] /\ in[4] = s[4] /\ s[2].b \in Nat /\ Len(in) >= 4
      <4>1. 2 \in 1..Len(in) /\ 4 \in 1..Len(in) /\ Len(in) >= 4
        BY <1>0, <1>6, <2>3
      <4>2. in[2] = s[2] /\ in[4] = s[4]
        BY <1>1, <4>1
      <4>3. in[2].b \in Nat
        BY <1>0, <4>1, ByteNat
      <4>. QED  BY <4>1, <4>2, <4>3
    <3>2. s[2].b # EventType /\ Len(in) >= 4 + in[2].b
      BY <1>6, <2>1, <2>3, <3>1
    <3>3. FoundBehind("value", in, Len(in))
      BY <2>1, <3>1, <3>2 DEF FoundBehind, Hit, Wants
    <3>4. call.found
      BY <1>5, <3>3, Zenon
    <3>5. /\ call.taken = 4 + in[2].b /\ Len(call.reader.buf) = call.taken
          /\ \A j \in 1..call.taken : call.reader.buf[j] = in[j].b
      BY <1>2, <3>4 DEF EventRun
    <3>6. call.taken = n
      BY <1>6, <3>1, <3>5
    <3>7. \A j \in 1..n : call.reader.buf[j] = s[j].b
      <4>1. \A j \in 1..n : j \in 1..Len(in)
        BY <1>0, <1>6, <2>3
      <4>. QED  BY <1>1, <3>5, <3>6, <4>1
    <3>. QED  BY <1>7, <2>3, <3>4, <3>5, <3>6, <3>7 DEF call
  <2>. QED  BY <2>2, <2>3
<1>8. CASE in[1].kind \notin {"imu", "pose"}
  <2>1. s[4].b \notin {ValueCommand, CompletedCommand}
    BY <1>3, <1>8 DEF FirstPart, Filled
  <2>2. ~FoundBehind("value", in, Len(in))
    <3>1. CASE Len(in) >= 4
      <4>1. in[4] = s[4]
        BY <1>0, <1>1, <3>1
      <4>. QED  BY <2>1, <4>1 DEF FoundBehind, Hit, Wants
    <3>2. CASE ~(Len(in) >= 4)
      BY <3>2 DEF FoundBehind
    <3>. QED  BY <3>1, <3>2
  <2>3. ~call.found
    BY <1>5, <2>2, Zenon
  <2>4. call.taken = Len(in)
    BY <1>2, <2>3 DEF EventRun
  <2>. QED  BY <1>8, <2>3, <2>4 DEF call
<1>. QED  BY <1>7, <1>8

-----------------------------------------------------------------------------
(* The bytes on their way, arrived or not, and what the steps do to them. *)

Transit == rx \o line

LEMMA RestJoined ==
  ASSUME NEW r \in Seq(Cells), NEW l \in Seq(Cells), NEW k \in 0..Len(r)
  PROVE  IsRest(SubSeq(r, k + 1, Len(r)) \o l, r \o l, k)
<1>. DEFINE q == SubSeq(r, k + 1, Len(r))
            t == q \o l
            s == r \o l
<1>1. IsRest(q, r, k)
  BY RestOf
<1>2. q \in Seq(Cells) /\ k + Len(q) = Len(r) /\ Within(q, r, k)
  BY <1>1 DEF IsRest
<1>. HIDE DEF q
<1>3. IsJoin(t, q, l) /\ IsJoin(s, r, l)
  BY <1>2, JoinOf
<1>. HIDE DEF t, s
<1>4. /\ t \in Seq(Cells) /\ Len(t) = Len(q) + Len(l) /\ Within(q, t, 0) /\ Within(l, t, Len(q))
      /\ s \in Seq(Cells) /\ Len(s) = Len(r) + Len(l) /\ Within(r, s, 0) /\ Within(l, s, Len(r))
  BY <1>3 DEF IsJoin
<1>5. k \in Nat /\ Len(q) \in Nat /\ Len(l) \in Nat /\ Len(r) \in Nat
  BY <1>2
<1>5a. /\ k + Len(q) = Len(r) /\ Len(t) = Len(q) + Len(l) /\ Len(s) = Len(r) + Len(l)
       /\ k + Len(t) = Len(s)
  <2>1. k + Len(q) = Len(r)
    BY <1>2
  <2>2. Len(t) = Len(q) + Len(l) /\ Len(s) = Len(r) + Len(l)
    BY <1>4
  <2>. QED  BY <1>5, <2>1, <2>2, SMTT(30)
<1>6. ASSUME NEW j \in 1..Len(t) PROVE k + j \in 1..Len(s) /\ t[j] = s[k + j]
  <2>1. k + j \in 1..Len(s)
    BY <1>2, <1>4, <1>5
  <2>2. CASE j <= Len(q)
    <3>1. j \in 1..Len(q) /\ 0 + j = j
      BY <1>4, <1>5, <2>2
    <3>2. q[j] = t[j]
      BY <1>4, <3>1 DEF Within
    <3>3. k + j \in 1..Len(r) /\ q[j] = r[k + j] /\ 0 + (k + j) = k + j
      BY <1>2, <1>5, <3>1 DEF Within
    <3>4. r[k + j] = s[k + j]
      BY <1>4, <3>3 DEF Within
    <3>. QED  BY <2>1, <3>2, <3>3, <3>4
  <2>3. CASE ~(j <= Len(q))
    <3>. DEFINE i == j - Len(q)
    <3>1. i \in 1..Len(l) /\ Len(q) + i = j /\ Len(r) + i = k + j
      <4>1. j \in 1..(Len(q) + Len(l))
        BY <1>5a
      <4>2. j \in Nat /\ j > Len(q) /\ j <= Len(q) + Len(l)
        BY <1>5, <2>3, <4>1
      <4>3. i \in 1..Len(l) /\ Len(q) + i = j
        BY <1>5, <4>2
      <4>4. Len(r) + i = k + j
        BY <1>5, <1>5a, <4>2
      <4>. QED  BY <4>3, <4>4
    <3>. HIDE DEF i
    <3>2. l[i] = t[j]
      BY <1>4, <3>1 DEF Within
    <3>3. l[i] = s[k + j]
      BY <1>4, <3>1 DEF Within
    <3>. QED  BY <2>1, <3>2, <3>3
  <2>. QED  BY <2>2, <2>3
<1>. QED  BY <1>4, <1>5, <1>5a, <1>6 DEF IsRest, Within, t, s, q

LEMMA Associates ==
  ASSUME NEW r \in Seq(Cells), NEW l \in Seq(Cells), NEW p \in Seq(Cells)
  PROVE  r \o (l \o p) = (r \o l) \o p
BY ConcatAssociative

LEMMA JoinJoined ==
  ASSUME NEW r \in Seq(Cells), NEW l \in Seq(Cells), NEW p \in Seq(Cells)
  PROVE  IsJoin(r \o (l \o p), r \o l, p)
<1>1. r \o (l \o p) = (r \o l) \o p
  BY Associates
<1>2. r \o l \in Seq(Cells)
  BY Joined
<1>. QED  BY <1>1, <1>2, JoinOf

LEMMA SameRest ==
  ASSUME NEW t, NEW s, IsRest(t, s, 0)
  PROVE  t = s
<1>1. /\ s \in Seq(Cells) /\ t \in Seq(Cells) /\ 0 + Len(t) = Len(s) /\ Within(t, s, 0)
  BY DEF IsRest
<1>2. Len(t) = Len(s) /\ \A j \in 1..Len(t) : 0 + j = j
  BY <1>1
<1>3. \A j \in 1..Len(t) : t[j] = s[j]
  BY <1>1, <1>2 DEF Within
<1>. QED  BY <1>1, <1>2, <1>3

(* The bytes that arrive are still the first of those on their way. *)
LEMMA ArriveTransit ==
  ASSUME NEW r \in Seq(Cells), NEW l \in Seq(Cells), NEW k \in 1..Len(l)
  PROVE  (r \o SubSeq(l, 1, k)) \o SubSeq(l, k + 1, Len(l)) = r \o l
<1>. DEFINE a == SubSeq(l, 1, k)
            b == SubSeq(l, k + 1, Len(l))
<1>1. a \in Seq(Cells) /\ Len(a) = k /\ \A j \in 1..k : a[j] = l[j]
  <2>1. \A i \in 1..k : l[i] \in Cells
    OBVIOUS
  <2>. QED  BY <2>1, SubSeqProperties
<1>2. IsRest(b, l, k)
  <2>1. k \in 0..Len(l)
    OBVIOUS
  <2>. QED  BY <2>1, RestOf
<1>3. b \in Seq(Cells) /\ k + Len(b) = Len(l) /\ Within(b, l, k) /\ k \in Nat
  BY <1>2 DEF IsRest
<1>. HIDE DEF a, b
<1>4. IsJoin(a \o b, a, b)
  BY <1>1, <1>3, JoinOf
<1>. DEFINE c == a \o b
<1>. HIDE DEF c
<1>5. /\ c \in Seq(Cells) /\ Len(c) = Len(a) + Len(b)
      /\ Within(a, c, 0) /\ Within(b, c, Len(a))
  BY <1>4 DEF IsJoin, c
<1>6. Len(b) \in Nat /\ Len(c) = Len(l) /\ Len(l) \in Nat
  BY <1>1, <1>3, <1>5
<1>7. ASSUME NEW j \in 1..Len(l) PROVE c[j] = l[j]
  <2>1. CASE j <= k
    <3>1. j \in 1..k /\ 0 + j = j
      BY <1>3, <2>1
    <3>. QED  BY <1>1, <1>5, <3>1 DEF Within
  <2>2. CASE ~(j <= k)
    <3>. DEFINE i == j - k
    <3>1. i \in 1..Len(b) /\ k + i = j
      BY <1>3, <1>6, <2>2
    <3>. HIDE DEF i
    <3>. QED  BY <1>1, <1>3, <1>5, <3>1 DEF Within
  <2>. QED  BY <2>1, <2>2
<1>8. c = l
  BY <1>5, <1>6, <1>7
<1>9. (r \o a) \o b = r \o (a \o b)
  <2>1. a \in Seq(Cells) /\ b \in Seq(Cells) /\ r \in Seq(Cells)
    BY <1>1, <1>3
  <2>. QED  BY <2>1, Associates
<1>. QED  BY <1>8, <1>9 DEF a, b, c

-----------------------------------------------------------------------------
(* The invariant of the session. *)

FrameInv == torn \/ pc = "closed" \/ Framed(Transit, assigned)

(* What the board has, of m motion events. *)
Listed(bd, m) ==
  /\ \A i \in DOMAIN bd : \E n \in 1..m : bd[i] = ImuData(n)
  /\ \A i, j \in DOMAIN bd : i < j => bd[i][1] < bd[j][1]

OrderInv ==
  /\ Sorted(Transit, imu)
  /\ torn \/ (Listed(board, imu) /\ Ahead(board, Transit))

Asking == pc \in {"flush", "ask"}
Early == pc \in {"flush", "ask", "asked", "status", "write"} \/ (pc = "written" /\ step < 3)
Connected == pc \in {"write", "written", "stream", "closing", "closed"}

Session ==
  /\ Ends(Transit, "status") # {} => link \in {"up", "down"}
  /\ Asking => link = "none" /\ Ends(Transit, "answer") = {}
  /\ pc = "asked" =>
       /\ \E ok \in BOOLEAN : /\ OneAnswer(Transit, Code(ok)[1], Code(ok)[2], assigned)
                              /\ ok <=> link # "none"
       /\ Behind(Transit, "status", "answer")
  /\ pc = "status" => link # "none" /\ Ends(Transit, "answer") = {}
  /\ pc \in {"asked", "status"} /\ link \in {"up", "down"} => Ends(Transit, "status") # {}
  /\ Connected => connection = assigned /\ link \in {"up", "down"}
  /\ pc \in {"closing", "closed"} => link = "down"
  /\ pc = "write" => Ends(Transit, "answer") = {}
  /\ Early => "mode" \notin done
  /\ pc = "written" =>
       /\ \E ok \in BOOLEAN : /\ OneAnswer(Transit, connection, Code(ok)[1], Code(ok)[2])
                              /\ "mode" \in done => ok
       /\ Behind(Transit, "imu", "answer")
  /\ pc = "stream" => ("mode" \in done => result = "0000")
  /\ imu > 0 => "mode" \in done
SessionInv == torn \/ mixed \/ Session

Served(s, bd, m) ==
  /\ bd = [i \in 1..Len(bd) |-> ImuData(i)] /\ Len(bd) <= m
  /\ \A n \in (Len(bd) + 1)..m : \E i \in Ends(s, "imu") : s[i].b = n
CompleteInv ==
  torn \/ mixed \/ behind \/ pc \in {"closing", "closed", "exited"}
       \/ Served(Transit, board, imu)

LinkInv == TypesInv /\ FrameInv /\ OrderInv /\ SessionInv /\ CompleteInv

LEMMA Typed ==
  ASSUME TypesInv
  PROVE  /\ rx \in Seq(Cells) /\ line \in Seq(Cells) /\ Transit \in Seq(Cells)
         /\ board \in Seq(Seq(0..255)) /\ imu \in Nat /\ step \in 1..3
         /\ assigned \in Byte /\ connection \in Byte /\ 0 \in Byte
         /\ link \in {"none", "opening", "up", "down"}
         /\ torn \in BOOLEAN /\ mixed \in BOOLEAN /\ behind \in BOOLEAN
<1>1. rx \in Seq(Cells) /\ line \in Seq(Cells)
  BY DEF TypesInv, TypeOK
<1>2. Transit \in Seq(Cells)
  BY <1>1, Joined DEF Transit
<1>3. imu \in Nat
  BY LinkAssumption DEF TypesInv, TypeOK
<1>4. step \in 1..3
  BY StepFacts DEF TypesInv, TypeOK
<1>5. assigned \in Byte /\ connection \in Byte /\ 0 \in Byte
  BY LinkAssumption DEF TypesInv, TypeOK, Byte
<1>. QED  BY <1>1, <1>2, <1>3, <1>4, <1>5 DEF TypesInv, TypeOK

(* What has arrived comes first. *)
LEMMA Arrived ==
  ASSUME TypesInv
  PROVE  /\ Within(rx, Transit, 0) /\ Len(rx) <= Len(Transit)
         /\ \A j \in 1..Len(rx) : j \in 1..Len(Transit) /\ Transit[j] = rx[j]
<1>1. rx \in Seq(Cells) /\ line \in Seq(Cells)
  BY Typed
<1>2. IsJoin(Transit, rx, line)
  BY <1>1, JoinOf DEF Transit
<1>3. Within(rx, Transit, 0) /\ Len(Transit) = Len(rx) + Len(line)
  BY <1>2 DEF IsJoin
<1>4. Len(rx) \in Nat /\ Len(line) \in Nat
  BY <1>1
<1>5. ASSUME NEW j \in 1..Len(rx) PROVE j \in 1..Len(Transit) /\ Transit[j] = rx[j]
  <2>1. 0 + j = j
    OBVIOUS
  <2>. QED  BY <1>3, <2>1 DEF Within
<1>. QED  BY <1>3, <1>4, <1>5

(* Without motion data sent, none is on its way. *)
LEMMA NoImu ==
  ASSUME NEW s, NEW m \in Nat, Sorted(s, m), ~(m > 0)
  PROVE  Ends(s, "imu") = {}
BY DEF Sorted

LEMMA CompleteRest ==
  ASSUME NEW t, NEW s, NEW k, IsRest(t, s, k), \A i \in Ends(s, "imu") : i > k,
         NEW bd, NEW m, Served(s, bd, m)
  PROVE  Served(t, bd, m)
<1>1. \A j \in Ends(s, "imu") : j - k \in Ends(t, "imu") /\ t[j - k] = s[j]
  BY EndsRest
<1>2. ASSUME NEW n \in (Len(bd) + 1)..m PROVE \E i \in Ends(t, "imu") : t[i].b = n
  <2>1. PICK j \in Ends(s, "imu") : s[j].b = n
    BY DEF Served
  <2>2. j - k \in Ends(t, "imu") /\ t[j - k].b = n
    BY <1>1, <2>1
  <2>. QED  BY <2>2
<1>. QED  BY <1>2 DEF Served

LEMMA CompleteJoin ==
  ASSUME NEW u, NEW s, NEW p, IsJoin(u, s, p), NEW bd, NEW m \in Nat, NEW n \in Nat, m <= n,
         Len(bd) \in Nat, Served(s, bd, m),
         \A v \in (m + 1)..n : \E j \in Ends(p, "imu") : p[j].b = v
  PROVE  Served(u, bd, n)
<1>1. ASSUME NEW v \in (Len(bd) + 1)..n PROVE \E i \in Ends(u, "imu") : u[i].b = v
  <2>1. CASE v <= m
    <3>1. v \in (Len(bd) + 1)..m
      BY <2>1
    <3>2. PICK j \in Ends(s, "imu") : s[j].b = v
      BY <3>1 DEF Served
    <3>. QED  BY <3>2, EndsJoin
  <2>2. CASE ~(v <= m)
    <3>1. v \in (m + 1)..n
      BY <2>2
    <3>2. PICK j \in Ends(p, "imu") : p[j].b = v
      BY <3>1
    <3>3. Len(s) + j \in Ends(u, "imu") /\ u[Len(s) + j] = p[j]
      BY EndsJoin
    <3>. QED  BY <3>2, <3>3
  <2>. QED  BY <2>1, <2>2
<1>2. Len(bd) <= n
  BY DEF Served
<1>. QED  BY <1>1, <1>2 DEF Served

-----------------------------------------------------------------------------
(* What a step does that only takes bytes from the input, or only sends. *)

LEMMA ListedMore ==
  ASSUME NEW bd, NEW m \in Nat, Listed(bd, m), NEW n \in Nat, m <= n
  PROVE  Listed(bd, n)
<1>1. \A v \in 1..m : v \in 1..n
  OBVIOUS
<1>. QED  BY <1>1 DEF Listed

LEMMA ImuFirst ==
  ASSUME NEW v
  PROVE  ImuData(v)[1] = v
<1>1. 1 \in 1..ImuLen
  BY LinkAssumption
<1>. QED  BY <1>1 DEF ImuData

LEMMA SentJoin ==
  ASSUME NEW u, NEW s, NEW p, IsJoin(u, s, p), NEW kind, NEW h, Sent(p, kind, h),
         NEW m \in Nat, NEW n \in Nat, m <= n,
         kind = "imu" => m < n /\ p[Len(p)].b = n
  PROVE  /\ Framed(s, h) => Framed(u, h)
         /\ Sorted(s, m) => Sorted(u, n)
         /\ \A bd : Listed(bd, m) /\ Ahead(bd, s) => Listed(bd, n) /\ Ahead(bd, u)
<1>1. Framed(p, h) /\ Ends(p, kind) = {Len(p)} /\ \A other : other # kind => Ends(p, other) = {}
  BY DEF Sent
<1>2. \A j \in Ends(p, "imu") : j = Len(p) /\ p[j].b = n /\ m < n
  BY <1>1
<1>3. Framed(s, h) => Framed(u, h)
  BY <1>1, FramedJoin
<1>4. Sorted(s, m) => Sorted(u, n)
  BY <1>2, SortedJoin
<1>5. ASSUME NEW bd, Listed(bd, m), Ahead(bd, s) PROVE Listed(bd, n) /\ Ahead(bd, u)
  <2>1. Listed(bd, n)
    BY <1>5, ListedMore
  <2>2. ASSUME NEW d \in DOMAIN bd, NEW i \in Ends(u, "imu") PROVE bd[d][1] < u[i].b
    <3>1. CASE i \in Ends(s, "imu") /\ u[i] = s[i]
      BY <1>5, <3>1 DEF Ahead
    <3>2. CASE i - Len(s) \in Ends(p, "imu") /\ u[i] = p[i - Len(s)]
      <4>1. u[i].b = n /\ m < n
        BY <1>2, <3>2
      <4>2. PICK v \in 1..m : bd[d] = ImuData(v)
        BY <1>5 DEF Listed
      <4>3. bd[d][1] = v
        BY <4>2, ImuFirst
      <4>4. v < n
        BY <4>1
      <4>. QED  BY <4>1, <4>3, <4>4
    <3>. QED  BY <3>1, <3>2, EndsJoin
  <2>. QED  BY <2>1, <2>2 DEF Ahead
<1>. QED  BY <1>3, <1>4, <1>5

LEMMA Sends ==
  ASSUME TypesInv, FrameInv, OrderInv,
         NEW p, NEW kind, Sent(p, kind, assigned),
         rx' = rx, line' = line \o p, torn' = torn, board' = board, assigned' = assigned,
         imu' \in Nat, imu <= imu', kind = "imu" => imu < imu' /\ p[Len(p)].b = imu',
         pc # "closed" \/ pc' = "closed"
  PROVE  IsJoin(Transit', Transit, p) /\ FrameInv' /\ OrderInv'
<1>1. rx \in Seq(Cells) /\ line \in Seq(Cells) /\ p \in Seq(Cells) /\ imu \in Nat
  BY Typed DEF Sent
<1>2. IsJoin(rx \o (line \o p), rx \o line, p)
  BY <1>1, JoinJoined
<1>3. IsJoin(Transit', Transit, p)
  BY <1>2 DEF Transit
<1>4. /\ Framed(Transit, assigned) => Framed(Transit', assigned)
      /\ Sorted(Transit, imu) => Sorted(Transit', imu')
      /\ \A bd : Listed(bd, imu) /\ Ahead(bd, Transit) => Listed(bd, imu') /\ Ahead(bd, Transit')
  BY <1>1, <1>3, SentJoin
<1>5. FrameInv'
  BY <1>4 DEF FrameInv
<1>6. OrderInv'
  BY <1>4 DEF OrderInv
<1>. QED  BY <1>3, <1>5, <1>6

(* What is left of the input, and what it takes for a call not to tear. *)
LEMMA Takes ==
  ASSUME TypesInv, NEW k \in 0..Len(rx), rx' = Dropped(k), line' = line
  PROVE  IsRest(Transit', Transit, k) /\ \A j \in 1..k : Transit[j] = rx[j]
<1>1. rx \in Seq(Cells) /\ line \in Seq(Cells)
  BY Typed
<1>2. IsRest(SubSeq(rx, k + 1, Len(rx)) \o line, rx \o line, k)
  BY <1>1, RestJoined
<1>3. \A j \in 1..k : j \in 1..Len(rx)
  BY <1>1
<1>. QED  BY <1>2, <1>3, Arrived DEF Transit, Dropped

LEMMA Drops ==
  ASSUME TypesInv, FrameInv, OrderInv, pc # "closed",
         NEW k \in 0..Len(rx), rx' = Dropped(k), line' = line,
         torn' = (torn \/ Cut(k)), assigned' = assigned, imu' = imu
  PROVE  /\ FrameInv' /\ Sorted(Transit', imu')
         /\ board' = board => OrderInv'
         /\ ~torn' => /\ ~torn /\ Framed(Transit, assigned)
                      /\ k = 0 \/ (Final(rx[k]) /\ Final(Transit[k]))
                      /\ Listed(board, imu) /\ Ahead(board, Transit)
<1>1. IsRest(Transit', Transit, k) /\ \A j \in 1..k : Transit[j] = rx[j]
  BY Takes
<1>2. Sorted(Transit', imu')
  BY <1>1, SortedRest DEF OrderInv
<1>3. ASSUME ~torn'
      PROVE  /\ ~torn /\ Framed(Transit, assigned)
             /\ k = 0 \/ (Final(rx[k]) /\ Final(Transit[k]))
             /\ Listed(board, imu) /\ Ahead(board, Transit)
  <2>1. ~torn /\ ~Cut(k)
    BY <1>3
  <2>2. k > 0 => Final(rx[k])
    BY <2>1 DEF Cut, Final
  <2>3. k = 0 \/ k \in 1..k
    OBVIOUS
  <2>4. k \in 1..k => k > 0
    OBVIOUS
  <2>5. k = 0 \/ (Final(rx[k]) /\ Final(Transit[k]))
    BY <1>1, <2>2, <2>3, <2>4
  <2>. QED  BY <2>1, <2>5 DEF FrameInv, OrderInv
<1>4. FrameInv'
  <2>1. ASSUME ~torn' PROVE Framed(Transit', assigned)
    BY <1>1, <1>3, <2>1, FramedRest
  <2>. QED  BY <2>1 DEF FrameInv
<1>5. ASSUME board' = board PROVE OrderInv'
  <2>1. ASSUME ~torn' PROVE Ahead(board, Transit')
    BY <1>1, <1>3, <2>1, AheadRest
  <2>. QED  BY <1>2, <1>3, <1>5, <2>1 DEF OrderInv
<1>. QED  BY <1>2, <1>3, <1>4, <1>5

-----------------------------------------------------------------------------
(* A response that is read is the one that was awaited. *)

LEMMA FirstCell ==
  ASSUME TypesInv, rx # <<>>
  PROVE  /\ Len(rx) \in Nat /\ Len(rx) > 0 /\ Len(Transit) > 0
         /\ Transit[1] = rx[1] /\ Within(rx, Transit, 0)
<1>1. rx \in Seq(Cells) /\ Transit \in Seq(Cells)
  BY Typed
<1>2. Len(rx) \in Nat /\ Len(rx) > 0 /\ Len(Transit) \in Nat
  BY <1>1
<1>3. 1 \in 1..Len(rx)
  BY <1>2
<1>. QED  BY <1>2, <1>3, Arrived

(* The first packet ends where it does, and no packet ends in it. *)
LEMMA FrontEnds ==
  ASSUME NEW s \in Seq(Cells), NEW n, NEW h, FirstPart(s, n, h)
  PROVE  /\ n \in Ends(s, s[1].kind)
         /\ \A kind : \A i \in Ends(s, kind) : i >= n /\ (i = n => kind = s[1].kind)
<1>1. /\ n \in Nat /\ n <= Len(s) /\ n >= 5 /\ Final(s[n])
      /\ \A k \in 1..n : s[k].kind = s[1].kind
      /\ \A k \in 1..(n - 1) : ~Final(s[k])
  BY DEF FirstPart, Shaped
<1>2. n \in 1..n /\ n \in 1..Len(s)
  BY <1>1
<1>3. n \in Ends(s, s[1].kind)
  BY <1>1, <1>2 DEF Ends
<1>4. ASSUME NEW kind, NEW i \in Ends(s, kind) PROVE i >= n /\ (i = n => kind = s[1].kind)
  <2>1. i \in 1..Len(s) /\ s[i].kind = kind /\ Final(s[i])
    BY DEF Ends
  <2>2. ~(i >= n) => i \in 1..(n - 1)
    BY <1>1, <2>1
  <2>. QED  BY <1>1, <1>2, <2>1, <2>2
<1>. QED  BY <1>3, <1>4

LEMMA CodeTold ==
  ASSUME NEW ok \in BOOLEAN
  PROVE  (Code(ok)[1] = 0 /\ Code(ok)[2] = 0) <=> ok
<1>1. CASE ok = TRUE
  BY <1>1 DEF Code
<1>2. CASE ok = FALSE
  BY <1>2 DEF Code
<1>. QED  BY <1>1, <1>2

LEMMA TwoZeros ==
  ASSUME NEW q \in Seq(Byte), Len(q) = 2
  PROVE  q = Code(TRUE) <=> (q[1] = 0 /\ q[2] = 0)
<1>. DEFINE z == <<0, 0>>
<1>1. z \in Seq(Byte) /\ Len(z) = 2 /\ z[1] = 0 /\ z[2] = 0
  BY DEF Byte
<1>2. z = Code(TRUE)
  BY DEF Code
<1>. HIDE DEF z
<1>3. ASSUME q[1] = 0, q[2] = 0 PROVE q = z
  <2>1. \A i \in 1..2 : q[i] = z[i]
    BY <1>1, <1>3
  <2>. QED  BY <1>1, <2>1
<1>. QED  BY <1>1, <1>2, <1>3

LEMMA PairOf ==
  ASSUME NEW p \in Seq(Byte), Len(p) = 3
  PROVE  /\ SubSeq(p, 1, 2) = Code(TRUE) <=> (p[1] = 0 /\ p[2] = 0)
         /\ SubSeq(p, 2, 3) = Code(TRUE) <=> (p[2] = 0 /\ p[3] = 0)
<1>. DEFINE q == SubSeq(p, 1, 2)
            r == SubSeq(p, 2, 3)
<1>1. q \in Seq(Byte) /\ Len(q) = 2 /\ q[1] = p[1] /\ q[2] = p[2]
  BY SubSeqProperties
<1>2. r \in Seq(Byte) /\ Len(r) = 2 /\ r[1] = p[2] /\ r[2] = p[3]
  <2>1. \A i \in 2..3 : p[i] \in Byte
    BY SMTT(30)
  <2>2. r \in Seq(Byte) /\ Len(r) = 3 - 2 + 1 /\ \A i \in 1..(3 - 2 + 1) : r[i] = p[2 + i - 1]
    BY <2>1, SubSeqProperties
  <2>. HIDE DEF r
  <2>3. Len(r) = 2 /\ r[1] = p[2 + 1 - 1] /\ r[2] = p[2 + 2 - 1]
    BY <2>2
  <2>. QED  BY <2>2, <2>3
<1>. HIDE DEF q, r
<1>3. (q = Code(TRUE) <=> (q[1] = 0 /\ q[2] = 0)) /\ (r = Code(TRUE) <=> (r[1] = 0 /\ r[2] = 0))
  BY <1>1, <1>2, TwoZeros
<1>. QED  BY <1>1, <1>2, <1>3 DEF q, r

(* The one answer is taken, and nothing in front of it. *)
AnswerTook(x, y, z, k, p) ==
  /\ k = 7 /\ p \in Seq(Byte) /\ Len(p) = 3
  /\ p[1] = x /\ p[2] = y /\ p[3] = z
  /\ 7 \in 0..Len(rx)

LEMMA AnswerRead ==
  ASSUME TypesInv, FrameInv, OrderInv, pc # "closed",
         AnswerCall(rx).found, TakeAnswer(AnswerCall(rx)), line' = line,
         assigned' = assigned, imu' = imu, ~torn', ~mixed',
         NEW x, NEW y, NEW z, OneAnswer(Transit, x, y, z)
  PROVE  /\ AnswerTook(x, y, z, AnswerCall(rx).taken, Payload(AnswerCall(rx).reader))
         /\ IsRest(Transit', Transit, 7)
         /\ Ends(Transit', "answer") = {}
         /\ \A kind : Behind(Transit, kind, "answer") => \A i \in Ends(Transit, kind) : i > 7
<1>. DEFINE call == AnswerCall(rx)
            k == call.taken
            payload == Payload(call.reader)
<1>1. rx \in Seq(Cells) /\ Transit \in Seq(Cells) /\ Len(rx) \in Nat
  BY Typed
<1>2. call.found /\ Held(rx, Len(rx), call)
  BY <1>1, HeldCalls
<1>3. /\ rx' = Dropped(k) /\ torn' = (torn \/ Cut(k))
      /\ mixed' = (mixed \/ (/\ rx[1].kind # "answer"
                             /\ call.found \/ "answer" \in Kinds(k)))
  BY DEF TakeAnswer
<1>. HIDE DEF call
<1>4. k \in 0..Len(rx) /\ k >= 1
  BY <1>1, <1>2 DEF Held
<1>5. rx # <<>>
  BY <1>1, <1>4
<1>6. rx[1].kind = "answer"
  BY <1>2, <1>3
<1>7. Framed(Transit, assigned) /\ (k = 0 \/ Final(rx[k]))
  BY <1>3, <1>4, Drops
<1>8. Final(rx[k])
  BY <1>4, <1>7
<1>. DEFINE n == 4 + Transit[2].b
<1>9. FirstPart(Transit, n, assigned)
  BY <1>1, <1>5, <1>7, FirstCell, FrontPacket
<1>. HIDE DEF n
<1>10. /\ n = 7 /\ k = 7 /\ 7 <= Len(rx)
       /\ payload \in Seq(Byte) /\ Len(payload) = 3
       /\ \A j \in 1..3 : payload[j] = Transit[4 + j].b
  BY <1>1, <1>5, <1>6, <1>8, <1>9, FirstCell, AnswerInFront DEF call
<1>. HIDE DEF k, payload
<1>11. 7 \in Ends(Transit, "answer")
  BY <1>1, <1>5, <1>6, <1>9, <1>10, FrontEnds, FirstCell
<1>12. PICK i \in Ends(Transit, "answer") :
         /\ \A j \in Ends(Transit, "answer") : j = i
         /\ Transit[i - 2].b = x /\ Transit[i - 1].b = y /\ Transit[i].b = z
  BY DEF OneAnswer
<1>13. i = 7 /\ \A j \in Ends(Transit, "answer") : j = 7
  BY <1>11, <1>12
<1>14. payload[1] = x /\ payload[2] = y /\ payload[3] = z
  <2>1. payload[1] = Transit[4 + 1].b /\ payload[2] = Transit[4 + 2].b /\ payload[3] = Transit[4 + 3].b
    BY <1>10
  <2>2. 4 + 1 = i - 2 /\ 4 + 2 = i - 1 /\ 4 + 3 = i
    BY <1>13
  <2>. QED  BY <1>12, <2>1, <2>2
<1>15. AnswerTook(x, y, z, k, payload)
  BY <1>1, <1>10, <1>14 DEF AnswerTook
<1>16. IsRest(Transit', Transit, 7)
  BY <1>3, <1>4, <1>10, Takes
<1>17. Ends(Transit', "answer") = {}
  <2>1. ASSUME NEW j \in Ends(Transit', "answer") PROVE FALSE
    <3>1. 7 + j = 7
      BY <1>13, <1>16, EndsRest
    <3>2. j \in 1..Len(Transit')
      BY DEF Ends
    <3>. QED  BY <3>1, <3>2
  <2>. QED  BY <2>1
<1>18. ASSUME NEW kind, Behind(Transit, kind, "answer"), NEW j \in Ends(Transit, kind) PROVE j > 7
  BY <1>11, <1>18 DEF Behind
<1>. QED  BY <1>15, <1>16, <1>17, <1>18 DEF call, k, payload

(* A reader that finds no response takes in no byte of it. *)
LEMMA AnswerKept ==
  ASSUME TypesInv, FrameInv, OrderInv, pc # "closed", rx # <<>>,
         ~AnswerCall(rx).found, TakeAnswer(AnswerCall(rx)), line' = line,
         assigned' = assigned, imu' = imu, ~torn', ~mixed'
  PROVE  \E k \in 0..Len(rx) : /\ IsRest(Transit', Transit, k)
                               /\ \A j \in 1..k : Transit[j].kind # "answer"
                               /\ \A j \in Ends(Transit, "answer") : j > k
<1>. DEFINE call == AnswerCall(rx)
            k == call.taken
<1>1. rx \in Seq(Cells) /\ Transit \in Seq(Cells) /\ Len(rx) \in Nat
  BY Typed
<1>2. k \in 1..Len(rx) /\ ~call.found
  BY <1>1, FirstCell, AnswerTaken
<1>3. /\ rx' = Dropped(k) /\ torn' = (torn \/ Cut(k))
      /\ mixed' = (mixed \/ (/\ rx[1].kind # "answer"
                             /\ call.found \/ "answer" \in Kinds(k)))
  BY DEF TakeAnswer
<1>. HIDE DEF call
<1>4. k \in 0..Len(rx) /\ k # 0
  BY <1>1, <1>2
<1>5. Framed(Transit, assigned) /\ Final(rx[k])
  BY <1>3, <1>4, Drops
<1>6. rx[1].kind # "answer"
  <2>1. SUFFICES ASSUME rx[1].kind = "answer" PROVE FALSE
    OBVIOUS
  <2>. DEFINE n == 4 + Transit[2].b
  <2>2. FirstPart(Transit, n, assigned)
    BY <1>1, <1>5, FirstCell, FrontPacket
  <2>. HIDE DEF n
  <2>3. call.found
    BY <1>1, <1>5, <2>1, <2>2, FirstCell, AnswerInFront DEF call
  <2>. QED  BY <1>2, <2>3
<1>7. "answer" \notin Kinds(k)
  BY <1>3, <1>6
<1>8. \A j \in 1..k : rx[j].kind # "answer"
  BY <1>7 DEF Kinds
<1>. HIDE DEF k
<1>9. IsRest(Transit', Transit, k) /\ \A j \in 1..k : Transit[j] = rx[j]
  BY <1>3, <1>4, Takes
<1>10. \A j \in 1..k : Transit[j].kind # "answer"
  BY <1>8, <1>9
<1>11. ASSUME NEW j \in Ends(Transit, "answer") PROVE j > k
  <2>1. j \in 1..Len(Transit) /\ Transit[j].kind = "answer"
    BY DEF Ends
  <2>2. ~(j > k) => j \in 1..k
    BY <1>1, <1>2, <2>1
  <2>. QED  BY <1>10, <2>1, <2>2
<1>. QED  BY <1>4, <1>9, <1>10, <1>11

-----------------------------------------------------------------------------
(* Every step keeps the invariant. *)

Kept == FrameInv' /\ OrderInv' /\ SessionInv' /\ CompleteInv'

LEMMA EndIn ==
  ASSUME NEW s \in Seq(Cells), NEW kind
  PROVE  \A i \in Ends(s, kind) : i \in Nat /\ i >= 1
BY DEF Ends

(* With nothing sent and nothing written the board is complete. *)
LEMMA NothingSent ==
  ASSUME TypesInv, OrderInv, Session, "mode" \notin done
  PROVE  imu = 0 /\ Ends(Transit, "imu") = {}
<1>1. imu \in Nat /\ ~(imu > 0)
  BY Typed DEF Session
<1>. QED  BY <1>1, NoImu DEF OrderInv

LEMMA InitKept == Init => FrameInv /\ OrderInv /\ SessionInv /\ CompleteInv
<1>. SUFFICES ASSUME Init PROVE FrameInv /\ OrderInv /\ SessionInv /\ CompleteInv
  OBVIOUS
<1>1. rx = <<>> /\ line = <<>> /\ board = <<>> /\ imu = 0 /\ assigned \in Byte
  BY LinkAssumption DEF Init, Byte
<1>4. Transit = line
  BY <1>1 DEF Transit
<1>5. /\ Framed(line, assigned) /\ Ends(line, "imu") = {} /\ Ends(line, "status") = {}
      /\ Ends(line, "answer") = {}
  BY <1>1 DEF Framed, Starts, Ends
<1>6. FrameInv
  BY <1>4, <1>5 DEF FrameInv
<1>7. OrderInv
  BY <1>1, <1>4, <1>5 DEF OrderInv, Sorted, Listed, Ahead
<1>8. SessionInv
  BY <1>1, <1>4, <1>5 DEF SessionInv, Session, Init, Asking, Early, Connected
<1>9. Served(Transit, board, imu)
  BY <1>1 DEF Served
<1>. QED  BY <1>6, <1>7, <1>8, <1>9 DEF CompleteInv

LEMMA SameKept ==
  ASSUME LinkInv, Transit' = Transit,
         UNCHANGED <<pc, step, connection, result, board, link, assigned, done, imu, history>>
  PROVE  Kept
<1>1. FrameInv' /\ OrderInv'
  BY DEF LinkInv, FrameInv, OrderInv, history
<1>2. SessionInv'
  BY DEF LinkInv, SessionInv, Session, Asking, Early, Connected, history
<1>3. CompleteInv'
  BY DEF LinkInv, CompleteInv, history
<1>. QED  BY <1>1, <1>2, <1>3 DEF Kept

LEMMA ArriveKept ==
  ASSUME LinkInv, Arrive
  PROVE  Kept
<1>1. rx \in Seq(Cells) /\ line \in Seq(Cells)
  BY Typed DEF LinkInv
<1>2. PICK k \in 1..Len(line) : rx' = rx \o SubSeq(line, 1, k) /\ line' = SubSeq(line, k + 1, Len(line))
  BY DEF Arrive
<1>3. Transit' = Transit
  BY <1>1, <1>2, ArriveTransit DEF Transit
<1>. QED  BY <1>3, SameKept DEF Arrive, script, dongle

LEMMA StutterKept ==
  ASSUME LinkInv, UNCHANGED vars
  PROVE  Kept
<1>1. Transit' = Transit
  BY DEF Transit, vars
<1>. QED  BY <1>1, SameKept DEF vars, history

(* The board stays complete while no motion data is taken from the input. *)
LEMMA CompleteTakes ==
  ASSUME CompleteInv, NEW k, IsRest(Transit', Transit, k),
         ~torn' => ~torn, ~mixed' => ~mixed, behind' = behind, board' = board, imu' = imu,
         pc \notin {"closing", "closed", "exited"},
         ~torn' /\ ~mixed' => \A i \in Ends(Transit, "imu") : i > k
  PROVE  CompleteInv'
<1>1. ASSUME ~torn', ~mixed', ~behind' PROVE Served(Transit', board', imu')
  <2>1. Served(Transit, board, imu)
    BY <1>1 DEF CompleteInv
  <2>. QED  BY <1>1, <2>1, CompleteRest
<1>. QED  BY <1>1 DEF CompleteInv

LEMMA FlushKept ==
  ASSUME LinkInv, Flush
  PROVE  Kept
<1>1. rx \in Seq(Cells) /\ Len(rx) \in Nat
  BY Typed DEF LinkInv
<1>. DEFINE k == Len(rx)
<1>2. /\ pc = "flush" /\ pc' = "ask" /\ line' = line /\ torn' = (torn \/ Cut(k))
      /\ assigned' = assigned /\ imu' = imu /\ board' = board /\ link' = link /\ done' = done
      /\ mixed' = mixed /\ behind' = behind
  BY DEF Flush, wires, dongle
<1>3. rx' = Dropped(k)
  BY <1>1 DEF Flush, Dropped
<1>4. k \in 0..Len(rx)
  BY <1>1
<1>. HIDE DEF k
<1>5. FrameInv' /\ OrderInv' /\ (~torn' => ~torn)
  BY <1>2, <1>3, <1>4, Drops DEF LinkInv
<1>6. IsRest(Transit', Transit, k)
  BY <1>2, <1>3, <1>4, Takes DEF LinkInv
<1>7. ASSUME ~torn', ~mixed' PROVE Session' /\ Ends(Transit, "imu") = {}
  <2>1. Session
    BY <1>2, <1>5, <1>7 DEF LinkInv, SessionInv
  <2>2. "mode" \notin done /\ link = "none" /\ Ends(Transit, "answer") = {} /\ Ends(Transit, "status") = {}
    BY <1>2, <2>1 DEF Session, Asking, Early
  <2>3. imu = 0 /\ Ends(Transit, "imu") = {}
    BY <2>1, <2>2, NothingSent DEF LinkInv
  <2>4. Ends(Transit', "answer") = {} /\ Ends(Transit', "status") = {}
    BY <1>6, <2>2, NoEndsRest
  <2>5. Session'
    BY <1>2, <2>2, <2>3, <2>4 DEF Session, Asking, Early, Connected
  <2>. QED  BY <2>3, <2>5
<1>8. CompleteInv'
  BY <1>2, <1>5, <1>6, <1>7, CompleteTakes DEF LinkInv
<1>. QED  BY <1>5, <1>7, <1>8 DEF Kept, SessionInv

LEMMA AskKept ==
  ASSUME LinkInv, AskConnection
  PROVE  Kept
<1>1. PICK ok \in BOOLEAN : /\ line' = line \o ConnectAnswer(ok, assigned)
                            /\ link' = IF ok THEN "opening" ELSE link
  BY DEF AskConnection
<1>2. /\ pc = "ask" /\ pc' = "asked" /\ rx' = rx /\ torn' = torn /\ mixed' = mixed
      /\ assigned' = assigned /\ imu' = imu /\ board' = board /\ done' = done
  BY DEF AskConnection, history
<1>3. assigned \in Byte /\ Transit \in Seq(Cells) /\ imu \in Nat
  BY Typed DEF LinkInv
<1>. DEFINE p == ConnectAnswer(ok, assigned)
<1>4. Sent(p, "answer", assigned) /\ OneAnswer(p, Code(ok)[1], Code(ok)[2], assigned)
  BY <1>3, AnswersSent
<1>5. line' = line \o p
  BY <1>1
<1>. HIDE DEF p
<1>6. IsJoin(Transit', Transit, p) /\ FrameInv' /\ OrderInv'
  <2>1. imu' \in Nat /\ imu <= imu'
    BY <1>2, <1>3
  <2>. QED  BY <1>2, <1>4, <1>5, <2>1, Sends DEF LinkInv
<1>7. Ends(p, "status") = {} /\ Ends(p, "imu") = {}
  BY <1>4 DEF Sent
<1>8. ASSUME ~torn', ~mixed' PROVE (Session' /\ Served(Transit', board', imu')) \/ (Session' /\ behind')
  <2>1. Session
    BY <1>2, <1>8 DEF LinkInv, SessionInv
  <2>2. "mode" \notin done /\ link = "none" /\ Ends(Transit, "answer") = {} /\ Ends(Transit, "status") = {}
    BY <1>2, <2>1 DEF Session, Asking, Early
  <2>3. imu = 0 /\ Ends(Transit, "imu") = {}
    BY <2>1, <2>2, NothingSent DEF LinkInv
  <2>4. OneAnswer(Transit', Code(ok)[1], Code(ok)[2], assigned')
    BY <1>2, <1>4, <1>6, <2>2, OneAnswerJoin
  <2>5. Ends(Transit', "status") = {}
    BY <1>6, <1>7, <2>2, EndsJoin
  <2>6. Behind(Transit', "status", "answer")
    BY <2>5 DEF Behind
  <2>7. ok <=> link' # "none"
    BY <1>1, <2>2
  <2>8. link' \in {"none", "opening"}
    BY <1>1, <2>2
  <2>9. Session'
    BY <1>2, <2>2, <2>3, <2>4, <2>5, <2>6, <2>7, <2>8 DEF Session, Asking, Early, Connected
  <2>10. ~behind' => Served(Transit', board', imu')
    <3>1. ASSUME ~behind' PROVE Served(Transit, board, imu)
      BY <1>2, <1>8, <3>1 DEF LinkInv, CompleteInv, AskConnection, history
    <3>2. Len(board) \in Nat
      BY Typed DEF LinkInv
    <3>. QED  BY <1>2, <1>3, <1>6, <3>1, <3>2, CompleteJoin
  <2>. QED  BY <2>9, <2>10
<1>. QED  BY <1>6, <1>8 DEF Kept, SessionInv, CompleteInv

(* What a step that reads an answer leaves alone. *)
LEMMA TakeParts ==
  ASSUME TakeAnswer(AnswerCall(rx))
  PROVE  /\ rx' = Dropped(AnswerCall(rx).taken)
         /\ torn' = (torn \/ Cut(AnswerCall(rx).taken))
         /\ ~torn' => ~torn
         /\ ~mixed' => ~mixed
BY DEF TakeAnswer

LEMMA FoundTaken ==
  ASSUME TypesInv, AnswerCall(rx).found
  PROVE  AnswerCall(rx).taken \in 0..Len(rx) /\ rx # <<>>
<1>1. rx \in Seq(Cells) /\ Len(rx) \in Nat
  BY Typed
<1>2. Held(rx, Len(rx), AnswerCall(rx))
  BY <1>1, HeldCalls
<1>3. AnswerCall(rx).taken \in 0..Len(rx) /\ AnswerCall(rx).taken >= 1
  BY <1>1, <1>2 DEF Held
<1>. QED  BY <1>1, <1>3

LEMMA NoAnswerKept ==
  ASSUME LinkInv, NoAnswer
  PROVE  Kept
<1>. DEFINE call == AnswerCall(rx)
<1>1. /\ pc \in {"asked", "written"} /\ rx # <<>> /\ ~call.found /\ TakeAnswer(call)
      /\ pc' = pc /\ step' = step /\ result' = result
      /\ pc = "written" => connection' = connection
      /\ board' = board /\ line' = line /\ link' = link /\ assigned' = assigned
      /\ done' = done /\ imu' = imu /\ behind' = behind
  BY DEF NoAnswer, wires, dongle
<1>2. rx \in Seq(Cells) /\ Len(rx) \in Nat /\ Len(rx) > 0 /\ Transit \in Seq(Cells)
  BY <1>1, Typed, FirstCell DEF LinkInv
<1>3. call.taken \in 0..Len(rx)
  <2>1. call.taken \in 1..Len(rx)
    BY <1>2, AnswerTaken
  <2>. QED  BY <2>1
<1>4. rx' = Dropped(call.taken) /\ torn' = (torn \/ Cut(call.taken)) /\ (~torn' => ~torn) /\ (~mixed' => ~mixed)
  BY <1>1, TakeParts
<1>5. FrameInv' /\ OrderInv'
  BY <1>1, <1>3, <1>4, Drops DEF LinkInv
<1>6. ASSUME ~torn', ~mixed'
      PROVE  Session' /\ (~behind' => Served(Transit', board', imu'))
  <2>1. Session
    BY <1>4, <1>6 DEF LinkInv, SessionInv
  <2>2. PICK k \in 0..Len(rx) : /\ IsRest(Transit', Transit, k)
                                /\ \A j \in 1..k : Transit[j].kind # "answer"
                                /\ \A j \in Ends(Transit, "answer") : j > k
    BY <1>1, <1>6, AnswerKept DEF LinkInv
  <2>3. \A x, y, z : OneAnswer(Transit, x, y, z) => OneAnswer(Transit', x, y, z)
    BY <2>2, OneAnswerRest
  <2>4. \A a, b : Behind(Transit, a, b) => Behind(Transit', a, b)
    BY <2>2, BehindRest
  <2>5. \A kind : Ends(Transit', kind) # {} => Ends(Transit, kind) # {}
    BY <2>2, NoEndsRest
  <2>6. PICK i \in Ends(Transit, "answer") : TRUE
    BY <1>1, <2>1 DEF Session, OneAnswer
  <2>7. ASSUME NEW kind, Behind(Transit, kind, "answer"), NEW j \in Ends(Transit, kind)
        PROVE  j > k /\ Ends(Transit', kind) # {}
    <3>1. i < j /\ i > k
      BY <2>2, <2>6, <2>7 DEF Behind
    <3>2. i \in Nat /\ j \in Nat /\ k \in Nat
      BY <1>2, EndIn
    <3>3. j > k
      BY <3>1, <3>2
    <3>. QED  BY <2>2, <3>3, EndsRest
  <2>8. Session'
    BY <1>1, <2>1, <2>3, <2>4, <2>5, <2>7 DEF Session, Asking, Early, Connected
  <2>9. \A j \in Ends(Transit, "imu") : j > k
    <3>1. CASE pc = "asked"
      <4>1. "mode" \notin done
        BY <2>1, <3>1 DEF Session, Early
      <4>. QED  BY <2>1, <4>1, NothingSent DEF LinkInv
    <3>2. CASE pc = "written"
      BY <2>1, <2>7, <3>2 DEF Session
    <3>. QED  BY <1>1, <3>1, <3>2
  <2>10. ASSUME ~behind' PROVE Served(Transit', board', imu')
    <3>1. Served(Transit, board, imu)
      BY <1>1, <1>4, <1>6, <2>10 DEF LinkInv, CompleteInv
    <3>. QED  BY <1>1, <2>2, <2>9, <3>1, CompleteRest
  <2>. QED  BY <2>8, <2>10
<1>. QED  BY <1>5, <1>6 DEF Kept, SessionInv, CompleteInv

LEMMA ReadConnectKept ==
  ASSUME LinkInv, ReadConnect
  PROVE  Kept
<1>. DEFINE call == AnswerCall(rx)
            payload == Payload(call.reader)
<1>1. /\ pc = "asked" /\ call.found /\ TakeAnswer(call)
      /\ connection' = payload[3]
      /\ step' = step /\ board' = board /\ line' = line /\ link' = link /\ assigned' = assigned
      /\ done' = done /\ imu' = imu /\ behind' = behind
  BY DEF ReadConnect, wires, dongle
<1>2. /\ SubSeq(payload, 1, 2) = Code(TRUE) => pc' = "status"
      /\ SubSeq(payload, 1, 2) # Code(TRUE) => pc' \in {"ask", "exited"}
  BY DEF ReadConnect
<1>3. call.taken \in 0..Len(rx)
  BY <1>1, FoundTaken DEF LinkInv
<1>4. rx' = Dropped(call.taken) /\ torn' = (torn \/ Cut(call.taken)) /\ (~torn' => ~torn) /\ (~mixed' => ~mixed)
  BY <1>1, TakeParts
<1>5. FrameInv' /\ OrderInv'
  BY <1>1, <1>3, <1>4, Drops DEF LinkInv
<1>6. ASSUME ~torn', ~mixed'
      PROVE  Session' /\ (~behind' => Served(Transit', board', imu'))
  <2>1. Session
    BY <1>4, <1>6 DEF LinkInv, SessionInv
  <2>2. PICK ok \in BOOLEAN : /\ OneAnswer(Transit, Code(ok)[1], Code(ok)[2], assigned)
                              /\ ok <=> link # "none"
    BY <1>1, <2>1 DEF Session
  <2>3. /\ AnswerTook(Code(ok)[1], Code(ok)[2], assigned, call.taken, payload)
        /\ IsRest(Transit', Transit, 7) /\ Ends(Transit', "answer") = {}
        /\ \A kind : Behind(Transit, kind, "answer") => \A i \in Ends(Transit, kind) : i > 7
    BY <1>1, <1>6, <2>2, AnswerRead DEF LinkInv
  <2>4. SubSeq(payload, 1, 2) = Code(TRUE) <=> ok
    <3>. HIDE DEF payload
    <3>1. payload \in Seq(Byte) /\ Len(payload) = 3 /\ payload[1] = Code(ok)[1] /\ payload[2] = Code(ok)[2]
      BY <2>3 DEF AnswerTook
    <3>. QED  BY <3>1, CodeTold, PairOf
  <2>5. "mode" \notin done
    BY <1>1, <2>1 DEF Session, Early
  <2>6. imu = 0 /\ Ends(Transit, "imu") = {}
    BY <2>1, <2>5, NothingSent DEF LinkInv
  <2>7. \A i \in Ends(Transit, "status") : i > 7
    BY <1>1, <2>1, <2>3 DEF Session
  <2>8. Ends(Transit, "status") # {} <=> Ends(Transit', "status") # {}
    BY <2>3, <2>7, EndsRest
  <2>9. pc' = "status" \/ (pc' \in {"ask", "exited"} /\ link = "none")
    BY <1>2, <2>2, <2>4
  <2>10. pc' = "status" => link # "none"
    BY <1>2, <2>2, <2>4
  <2>. HIDE DEF payload
  <2>11. Session'
    BY <1>1, <2>1, <2>3, <2>5, <2>6, <2>8, <2>9, <2>10 DEF Session, Asking, Early, Connected
  <2>12. ASSUME ~behind' PROVE Served(Transit', board', imu')
    <3>1. Served(Transit, board, imu)
      BY <1>1, <1>4, <1>6, <2>12 DEF LinkInv, CompleteInv
    <3>. QED  BY <1>1, <2>3, <2>6, <3>1, CompleteRest
  <2>. QED  BY <2>11, <2>12
<1>. QED  BY <1>5, <1>6 DEF Kept, SessionInv, CompleteInv

LEMMA ReadStatusKept ==
  ASSUME LinkInv, ReadStatus
  PROVE  Kept
<1>. DEFINE call == StatusCall(rx)
            payload == Payload(call.reader)
            k == Len(rx)
<1>1. /\ pc = "status" /\ rx # <<>> /\ rx' = Dropped(call.taken)
      /\ torn' = (torn \/ Cut(call.taken)) /\ mixed' = (mixed \/ rx[1].kind # "status")
      /\ step' = step /\ board' = board /\ line' = line /\ link' = link /\ assigned' = assigned
      /\ done' = done /\ imu' = imu /\ behind' = behind
  BY DEF ReadStatus, wires, dongle
<1>2. call.found /\ ~(Len(payload) < StatusLen) =>
        pc' = "write" /\ connection' = ConnectionOf(payload)
  BY DEF ReadStatus
<1>3. call.taken = k
  BY DEF StatusCall
<1>4. /\ rx \in Seq(Cells) /\ k \in Nat /\ k \in 0..Len(rx) /\ k > 0
      /\ Transit \in Seq(Cells) /\ Transit[1] = rx[1] /\ Within(rx, Transit, 0) /\ Len(Transit) > 0
  <2>1. rx \in Seq(Cells) /\ Transit \in Seq(Cells)
    BY Typed DEF LinkInv
  <2>2. Len(rx) \in Nat /\ Len(rx) \in 0..Len(rx)
    BY <2>1
  <2>. QED  BY <1>1, <2>1, <2>2, FirstCell DEF LinkInv
<1>5. rx' = Dropped(k) /\ torn' = (torn \/ Cut(k))
  BY <1>1, <1>3
<1>. HIDE DEF k
<1>6. FrameInv' /\ OrderInv'
  BY <1>1, <1>4, <1>5, Drops DEF LinkInv
<1>7. IsRest(Transit', Transit, k)
  BY <1>1, <1>4, <1>5, Takes DEF LinkInv
<1>8. ~torn' => ~torn /\ Framed(Transit, assigned) /\ Final(rx[k])
  <2>1. k # 0
    BY <1>4
  <2>. QED  BY <1>1, <1>4, <1>5, <2>1, Drops DEF LinkInv
<1>9. ASSUME ~torn', ~mixed' PROVE Session' /\ Ends(Transit, "imu") = {}
  <2>1. Session
    BY <1>1, <1>8, <1>9 DEF LinkInv, SessionInv
  <2>2. rx[1].kind = "status"
    BY <1>1, <1>9
  <2>. DEFINE n == 4 + Transit[2].b
  <2>3. FirstPart(Transit, n, assigned)
    BY <1>4, <1>8, <1>9, FrontPacket
  <2>. HIDE DEF n
  <2>4. StatusLen # EventType /\ StatusLen \in Nat
    BY LinkAssumption
  <2>5. call.found /\ Len(payload) = StatusLen /\ payload[1] = assigned
    BY <1>4, <1>8, <1>9, <2>2, <2>3, <2>4, StatusInFront DEF k
  <2>6. pc' = "write" /\ connection' = assigned
    BY <1>2, <2>4, <2>5 DEF ConnectionOf
  <2>. HIDE DEF call, payload
  <2>7. Ends(Transit, "status") # {}
    BY <1>4, <2>2, <2>3, FrontEnds
  <2>8. "mode" \notin done /\ link \in {"up", "down"} /\ Ends(Transit, "answer") = {}
    BY <1>1, <2>1, <2>7 DEF Session, Early
  <2>9. imu = 0 /\ Ends(Transit, "imu") = {}
    BY <2>1, <2>8, NothingSent DEF LinkInv
  <2>10. Ends(Transit', "answer") = {}
    BY <1>7, <2>8, NoEndsRest
  <2>11. Session'
    BY <1>1, <2>6, <2>8, <2>9, <2>10 DEF Session, Asking, Early, Connected
  <2>. QED  BY <2>9, <2>11
<1>10. CompleteInv'
  BY <1>1, <1>7, <1>8, <1>9, CompleteTakes DEF LinkInv
<1>. QED  BY <1>6, <1>9, <1>10 DEF Kept, SessionInv

LEMMA WriteKept ==
  ASSUME LinkInv, Write
  PROVE  Kept
<1>1. PICK ok \in BOOLEAN : /\ line' = line \o WriteAnswer(ok, connection)
                            /\ done' = IF ok THEN done \cup {Steps[step]} ELSE done
  BY DEF Write
<1>2. /\ pc = "write" /\ pc' = "written" /\ rx' = rx /\ torn' = torn /\ mixed' = mixed
      /\ behind' = behind /\ step' = step /\ connection' = connection /\ link' = link
      /\ assigned' = assigned /\ imu' = imu /\ board' = board
  BY DEF Write, history
<1>3. /\ connection \in Byte /\ Transit \in Seq(Cells) /\ imu \in Nat /\ step \in 1..3
      /\ Len(board) \in Nat
  BY Typed DEF LinkInv
<1>. DEFINE p == WriteAnswer(ok, connection)
<1>4. Sent(p, "answer", assigned) /\ OneAnswer(p, connection, Code(ok)[1], Code(ok)[2])
  BY <1>3, AnswersSent
<1>5. line' = line \o p
  BY <1>1
<1>. HIDE DEF p
<1>6. IsJoin(Transit', Transit, p) /\ FrameInv' /\ OrderInv'
  <2>1. imu' \in Nat /\ imu <= imu'
    BY <1>2, <1>3
  <2>. QED  BY <1>2, <1>4, <1>5, <2>1, Sends DEF LinkInv
<1>7. Ends(p, "status") = {} /\ Ends(p, "imu") = {}
  BY <1>4 DEF Sent
<1>8. ASSUME ~torn', ~mixed'
      PROVE  Session' /\ (~behind' => Served(Transit', board', imu'))
  <2>1. Session
    BY <1>2, <1>8 DEF LinkInv, SessionInv
  <2>2. /\ "mode" \notin done /\ Ends(Transit, "answer") = {}
        /\ connection = assigned /\ link \in {"up", "down"}
    BY <1>2, <2>1 DEF Session, Early, Connected
  <2>3. imu = 0 /\ Ends(Transit, "imu") = {}
    BY <2>1, <2>2, NothingSent DEF LinkInv
  <2>4. OneAnswer(Transit', connection', Code(ok)[1], Code(ok)[2])
    BY <1>2, <1>4, <1>6, <2>2, OneAnswerJoin
  <2>5. Ends(Transit', "imu") = {}
    BY <1>6, <1>7, <2>3, EndsJoin
  <2>6. Behind(Transit', "imu", "answer")
    BY <2>5 DEF Behind
  <2>7. "mode" \in done' => ok
    BY <1>1, <2>2
  <2>8. step < 3 => "mode" \notin done'
    <3>1. step < 3 => Steps[step] # "mode"
      <4>1. step = 1 \/ step = 2 \/ step = 3
        BY <1>3
      <4>. QED  BY <4>1 DEF Steps
    <3>. QED  BY <1>1, <2>2, <3>1
  <2>9. Session'
    BY <1>2, <2>2, <2>3, <2>4, <2>6, <2>7, <2>8 DEF Session, Asking, Early, Connected
  <2>10. ASSUME ~behind' PROVE Served(Transit', board', imu')
    <3>1. Served(Transit, board, imu)
      BY <1>2, <1>8, <2>10 DEF LinkInv, CompleteInv
    <3>. QED  BY <1>2, <1>3, <1>6, <3>1, CompleteJoin
  <2>. QED  BY <2>9, <2>10
<1>. QED  BY <1>6, <1>8 DEF Kept, SessionInv, CompleteInv

LEMMA ReadWrittenKept ==
  ASSUME LinkInv, ReadWritten
  PROVE  Kept
<1>. DEFINE call == AnswerCall(rx)
            payload == Payload(call.reader)
<1>1. /\ pc = "written" /\ call.found /\ TakeAnswer(call)
      /\ connection' = connection /\ board' = board /\ line' = line /\ link' = link
      /\ assigned' = assigned /\ done' = done /\ imu' = imu /\ behind' = behind
  BY DEF ReadWritten, wires, dongle
<1>2. /\ SubSeq(payload, 2, 3) = Code(TRUE) => result' = "0000"
      /\ (step < 3 /\ pc' = "write") \/ pc' = "stream"
  BY StepFacts DEF ReadWritten
<1>3. call.taken \in 0..Len(rx)
  BY <1>1, FoundTaken DEF LinkInv
<1>4. rx' = Dropped(call.taken) /\ torn' = (torn \/ Cut(call.taken)) /\ (~torn' => ~torn) /\ (~mixed' => ~mixed)
  BY <1>1, TakeParts
<1>5. FrameInv' /\ OrderInv'
  BY <1>1, <1>3, <1>4, Drops DEF LinkInv
<1>6. ASSUME ~torn', ~mixed'
      PROVE  Session' /\ (~behind' => Served(Transit', board', imu'))
  <2>1. Session
    BY <1>4, <1>6 DEF LinkInv, SessionInv
  <2>2. PICK ok \in BOOLEAN : /\ OneAnswer(Transit, connection, Code(ok)[1], Code(ok)[2])
                              /\ "mode" \in done => ok
    BY <1>1, <2>1 DEF Session
  <2>3. /\ AnswerTook(connection, Code(ok)[1], Code(ok)[2], call.taken, payload)
        /\ IsRest(Transit', Transit, 7) /\ Ends(Transit', "answer") = {}
        /\ \A kind : Behind(Transit, kind, "answer") => \A i \in Ends(Transit, kind) : i > 7
    BY <1>1, <1>6, <2>2, AnswerRead DEF LinkInv
  <2>4. SubSeq(payload, 2, 3) = Code(TRUE) <=> ok
    <3>. HIDE DEF payload
    <3>1. payload \in Seq(Byte) /\ Len(payload) = 3 /\ payload[2] = Code(ok)[1] /\ payload[3] = Code(ok)[2]
      BY <2>3 DEF AnswerTook
    <3>. QED  BY <3>1, CodeTold, PairOf
  <2>5. "mode" \in done => result' = "0000"
    BY <1>2, <2>2, <2>4
  <2>. HIDE DEF payload, call
  <2>6. Ends(Transit', "status") # {} => link \in {"up", "down"}
    BY <2>1, <2>3, NoEndsRest DEF Session
  <2>7. connection = assigned /\ link \in {"up", "down"} /\ (step < 3 => "mode" \notin done)
        /\ (imu > 0 => "mode" \in done)
    BY <1>1, <2>1 DEF Session, Connected, Early
  <2>8. Session'
    BY <1>1, <1>2, <2>3, <2>5, <2>6, <2>7 DEF Session, Asking, Early, Connected
  <2>9. \A i \in Ends(Transit, "imu") : i > 7
    BY <1>1, <2>1, <2>3 DEF Session
  <2>10. ASSUME ~behind' PROVE Served(Transit', board', imu')
    <3>1. Served(Transit, board, imu)
      BY <1>1, <1>4, <1>6, <2>10 DEF LinkInv, CompleteInv
    <3>. QED  BY <1>1, <2>3, <2>9, <3>1, CompleteRest
  <2>. QED  BY <2>8, <2>10
<1>. QED  BY <1>5, <1>6 DEF Kept, SessionInv, CompleteInv

LEMMA ReadDisconnectKept ==
  ASSUME LinkInv, ReadDisconnect
  PROVE  Kept
<1>. DEFINE k == IF Len(rx) < 7 THEN Len(rx) ELSE 7
<1>1. /\ pc = "closing" /\ pc' = "closed" /\ rx' = Dropped(k) /\ line' = line
      /\ torn' = torn /\ mixed' = mixed /\ connection' = connection /\ board' = board
      /\ link' = link /\ assigned' = assigned /\ done' = done /\ imu' = imu
  BY DEF ReadDisconnect, wires, dongle, history
<1>2. k \in 0..Len(rx)
  <2>1. rx \in Seq(Cells)
    BY Typed DEF LinkInv
  <2>2. Len(rx) \in Nat
    BY <2>1
  <2>. QED  BY <2>2
<1>. HIDE DEF k
<1>3. IsRest(Transit', Transit, k)
  BY <1>1, <1>2, Takes DEF LinkInv
<1>4. OrderInv'
  <2>1. Sorted(Transit', imu) /\ (Ahead(board, Transit) => Ahead(board, Transit'))
    BY <1>3, SortedRest, AheadRest DEF LinkInv, OrderInv
  <2>. QED  BY <1>1, <2>1 DEF LinkInv, OrderInv
<1>5. ASSUME ~torn, ~mixed PROVE Session'
  <2>1. Session
    BY <1>5 DEF LinkInv, SessionInv
  <2>. QED  BY <1>1, <2>1 DEF Session, Asking, Early, Connected
<1>6. FrameInv' /\ CompleteInv'
  BY <1>1 DEF FrameInv, CompleteInv
<1>. QED  BY <1>1, <1>4, <1>5, <1>6 DEF Kept, SessionInv

LEMMA AheadJoin ==
  ASSUME NEW u, NEW s, NEW p, IsJoin(u, s, p), Ends(p, "imu") = {}, NEW bd, Ahead(bd, s)
  PROVE  Ahead(bd, u)
<1>1. \A i \in Ends(u, "imu") : i \in Ends(s, "imu") /\ u[i] = s[i]
  BY EndsJoin
<1>. QED  BY <1>1 DEF Ahead

(* The answer to the closing command and, behind it, the event of the end. *)
ClosingSent(hit, h) == DisconnectAnswer(h) \o (IF hit THEN Disconnected(h) ELSE <<>>)

LEMMA ClosingJoin ==
  ASSUME NEW s \in Seq(Cells), NEW h \in Byte, NEW g, NEW hit \in BOOLEAN,
         NEW m \in Nat
  PROVE  LET u == s \o DisconnectAnswer(h) \o (IF hit THEN Disconnected(h) ELSE <<>>)
         IN  /\ u \in Seq(Cells)
             /\ Framed(s, g) => Framed(u, g)
             /\ Sorted(s, m) => Sorted(u, m)
             /\ \A bd : Listed(bd, m) /\ Ahead(bd, s) => Ahead(bd, u)
<1>. DEFINE p == DisconnectAnswer(h)
            q == Disconnected(h)
            t == s \o p
            w == t \o q
<1>1. Sent(p, "answer", g)
  BY AnswersSent
<1>2. Sent(q, "gone", g)
  <2>1. 0 \in Byte
    BY DEF Byte
  <2>2. Made(q, "gone", 4, <<h, 8, 2>>)
    <3>1. {2, 4, 8} \subseteq Byte /\ "gone" \in Kinds0
      BY DEF Byte, Kinds0
    <3>2. <<h, 8, 2>> \in Seq(Byte) /\ Len(<<h, 8, 2>>) <= 255 /\ Len(<<h, 8, 2>>) >= 1
      BY <3>1
    <3>. DEFINE payload == <<h, 8, 2>>
    <3>3. payload \in Seq(Byte) /\ Len(payload) <= 255 /\ Len(payload) >= 1
      BY <3>2
    <3>4. q = Event("gone", 3, 4, payload)
      BY DEF Disconnected
    <3>. HIDE DEF payload, q
    <3>5. 3 \in Byte
      BY DEF Byte
    <3>6. Made(Event("gone", 3, 4, payload), "gone", 4, payload)
      BY <3>1, <3>3, <3>5, MadeOf
    <3>. QED  BY <3>4, <3>6 DEF payload
  <2>. HIDE DEF q
  <2>3. 4 \notin {ValueCommand, CompletedCommand}
    BY DEF ValueCommand, CompletedCommand
  <2>4. Filled(q, Len(q), g)
    BY <2>2, <2>3 DEF Filled, Made
  <2>. QED  BY <2>2, <2>4, MadeSent
<1>. HIDE DEF p, q
<1>3. p \in Seq(Cells) /\ q \in Seq(Cells)
  BY <1>1, <1>2 DEF Sent
<1>4. t \in Seq(Cells) /\ IsJoin(t, s, p)
  BY <1>3, Joined, JoinOf
<1>5. m <= m /\ "answer" # "imu" /\ "gone" # "imu"
  OBVIOUS
<1>. HIDE DEF t
<1>6. /\ Framed(s, g) => Framed(t, g)
      /\ Sorted(s, m) => Sorted(t, m)
      /\ \A bd : Listed(bd, m) /\ Ahead(bd, s) => Listed(bd, m) /\ Ahead(bd, t)
  BY <1>1, <1>4, <1>5, SentJoin
<1>7. w \in Seq(Cells) /\ IsJoin(w, t, q)
  BY <1>3, <1>4, Joined, JoinOf
<1>. HIDE DEF w
<1>8. /\ Framed(t, g) => Framed(w, g)
      /\ Sorted(t, m) => Sorted(w, m)
      /\ \A bd : Listed(bd, m) /\ Ahead(bd, t) => Listed(bd, m) /\ Ahead(bd, w)
  BY <1>2, <1>5, <1>7, SentJoin
<1>9. CASE hit
  <2>1. s \o DisconnectAnswer(h) \o (IF hit THEN Disconnected(h) ELSE <<>>) = w
    BY <1>9 DEF w, t, p, q
  <2>. HIDE DEF w
  <2>. QED  BY <1>6, <1>7, <1>8, <2>1
<1>10. CASE ~hit
  <2>1. t \o <<>> = t
    BY <1>4
  <2>2. s \o DisconnectAnswer(h) \o (IF hit THEN Disconnected(h) ELSE <<>>) = t \o <<>>
    BY <1>10 DEF t, p
  <2>. QED  BY <1>4, <1>6, <2>1, <2>2
<1>. QED  BY <1>9, <1>10

LEMMA InterruptKept ==
  ASSUME LinkInv, Interrupt
  PROVE  Kept
<1>1. /\ connection' = connection /\ board' = board /\ assigned' = assigned /\ step' = step
      /\ done' = done /\ imu' = imu /\ mixed' = mixed /\ result' = result
  BY DEF Interrupt
<1>2. CASE pc \in {"asked", "status", "written"} /\ pc' = "exited" /\ UNCHANGED <<rx, line, link, torn>>
  <2>1. Transit' = Transit
    BY <1>2 DEF Transit
  <2>2. FrameInv' /\ OrderInv'
    BY <1>1, <1>2, <2>1 DEF LinkInv, FrameInv, OrderInv
  <2>3. SessionInv'
    BY <1>1, <1>2, <2>1 DEF LinkInv, SessionInv, Session, Asking, Early, Connected
  <2>4. CompleteInv'
    BY <1>2 DEF CompleteInv
  <2>. QED  BY <2>2, <2>3, <2>4 DEF Kept
<1>3. CASE pc = "stream" /\ pc' = "closing" /\ rx' = <<>>
  <2>. DEFINE hit == link = "up" /\ connection = assigned
              k == Len(rx)
  <2>1. /\ torn' = (torn \/ Cut(k))
        /\ link' = IF hit THEN "down" ELSE link
        /\ line' = line \o DisconnectAnswer(connection) \o (IF hit THEN Disconnected(connection) ELSE <<>>)
    BY <1>3 DEF Interrupt, Closing
  <2>2. /\ rx \in Seq(Cells) /\ line \in Seq(Cells) /\ connection \in Byte /\ imu \in Nat
        /\ k \in Nat /\ k \in 0..Len(rx)
    BY Typed DEF LinkInv
  <2>3. IsRest(line, Transit, k)
    <3>1. IsRest(SubSeq(rx, k + 1, Len(rx)) \o line, rx \o line, k)
      BY <2>2, RestJoined
    <3>2. SubSeq(rx, k + 1, Len(rx)) = <<>>
      BY <2>2
    <3>3. <<>> \o line = line
      BY <2>2
    <3>. QED  BY <3>1, <3>2, <3>3 DEF Transit
  <2>4. /\ line' \in Seq(Cells)
        /\ Framed(line, assigned) => Framed(line', assigned)
        /\ Sorted(line, imu) => Sorted(line', imu)
        /\ \A bd : Listed(bd, imu) /\ Ahead(bd, line) => Ahead(bd, line')
    <3>1. hit \in BOOLEAN
      OBVIOUS
    <3>. HIDE DEF hit
    <3>. QED  BY <2>1, <2>2, <3>1, ClosingJoin
  <2>5. Transit' = line'
    BY <1>3, <2>4 DEF Transit
  <2>6. ~torn' => ~torn /\ (k = 0 \/ Final(Transit[k]))
    <3>. HIDE DEF k
    <3>1. ASSUME ~torn' PROVE ~torn /\ (k > 0 => Final(rx[k]))
      BY <2>1, <3>1 DEF Cut, Final
    <3>2. k = 0 \/ (k > 0 /\ k \in 1..Len(rx))
      BY <2>2
    <3>3. k = 0 \/ Transit[k] = rx[k]
      BY <3>2, Arrived DEF LinkInv
    <3>. QED  BY <3>1, <3>2, <3>3
  <2>. HIDE DEF k
  <2>7. FrameInv'
    <3>1. ASSUME ~torn' PROVE Framed(Transit', assigned)
      <4>1. Framed(Transit, assigned)
        BY <1>3, <2>6, <3>1 DEF LinkInv, FrameInv
      <4>. QED  BY <2>3, <2>4, <2>5, <2>6, <3>1, <4>1, FramedRest
    <3>. QED  BY <1>1, <3>1 DEF FrameInv
  <2>8. OrderInv'
    <3>1. Sorted(Transit', imu)
      BY <2>3, <2>4, <2>5, SortedRest DEF LinkInv, OrderInv
    <3>2. ASSUME ~torn' PROVE Listed(board, imu) /\ Ahead(board, Transit')
      <4>1. Listed(board, imu) /\ Ahead(board, Transit)
        BY <2>6, <3>2 DEF LinkInv, OrderInv
      <4>2. Ahead(board, line)
        BY <2>3, <4>1, AheadRest
      <4>. QED  BY <2>4, <2>5, <4>1, <4>2
    <3>. QED  BY <1>1, <3>1, <3>2 DEF OrderInv
  <2>9. ASSUME ~torn', ~mixed' PROVE Session'
    <3>1. Session
      BY <1>1, <2>6, <2>9 DEF LinkInv, SessionInv
    <3>2. connection = assigned /\ link \in {"up", "down"} /\ (imu > 0 => "mode" \in done)
      BY <1>3, <3>1 DEF Session, Connected
    <3>3. link' = "down"
      BY <2>1, <3>2
    <3>. QED  BY <1>1, <1>3, <3>2, <3>3 DEF Session, Asking, Early, Connected
  <2>10. CompleteInv'
    BY <1>3 DEF CompleteInv
  <2>. QED  BY <2>7, <2>8, <2>9, <2>10 DEF Kept, SessionInv
<1>. QED  BY <1>2, <1>3 DEF Interrupt

(* What the dongle sends by itself. *)
Told(p, kind) ==
  /\ Sent(p, kind, assigned) /\ kind \in {"status", "gone", "imu", "pose"}
  /\ line' = line \o p
  /\ link \in {"opening", "up"} /\ link' \in {"up", "down"}
  /\ link = "opening" => kind = "status"
  /\ kind = "imu" => imu' = imu + 1 /\ p[Len(p)].b = imu' /\ "mode" \in done
  /\ kind # "imu" => imu' = imu

LEMMA DeviceTells ==
  ASSUME TypesInv, Device
  PROVE  /\ \E p, kind : Told(p, kind)
         /\ UNCHANGED <<script, rx, board, cuts, assigned, done, history>>
<1>1. assigned \in Byte /\ 0 \in Byte /\ imu \in Nat
  BY Typed
<1>2. CASE LinkUp \/ UpdateLink
  <2>1. Told(Status(assigned), "status")
    BY <1>1, <1>2, EventsSent DEF Told, LinkUp, UpdateLink, SendEvent
  <2>. QED  BY <1>2, <2>1 DEF LinkUp, UpdateLink, SendEvent
<1>3. CASE LoseLink
  <2>1. Told(Disconnected(assigned), "gone")
    BY <1>1, <1>3, EventsSent DEF Told, LoseLink, SendEvent
  <2>. QED  BY <1>3, <2>1 DEF LoseLink, SendEvent
<1>4. CASE SendImu
  <2>. DEFINE n == imu + 1
              p == ImuEvent(n, assigned)
  <2>1. n \in Byte
    BY <1>1, <1>4, LinkAssumption DEF SendImu, Byte
  <2>. HIDE DEF n
  <2>2. Sent(p, "imu", assigned) /\ p[Len(p)].b = n
    BY <1>1, <2>1, EventsSent
  <2>3. /\ line' = line \o p /\ link = "up" /\ link' = link /\ imu' = n /\ "mode" \in done
    BY <1>4 DEF SendImu, SendEvent, n
  <2>. HIDE DEF p
  <2>4. Told(p, "imu")
    BY <2>2, <2>3 DEF Told, n
  <2>. QED  BY <1>4, <2>4 DEF SendImu, SendEvent
<1>5. CASE SendPose
  <2>1. PICK v \in PoseBytes : line' = line \o PoseEvent(v, assigned)
    BY <1>5 DEF SendPose, SendEvent
  <2>2. v \in Byte
    BY LinkAssumption DEF Byte
  <2>3. Told(PoseEvent(v, assigned), "pose")
    BY <1>1, <1>5, <2>1, <2>2, EventsSent DEF Told, SendPose
  <2>. QED  BY <1>5, <2>3 DEF SendPose, SendEvent
<1>. QED  BY <1>2, <1>3, <1>4, <1>5 DEF Device

LEMMA DeviceKept ==
  ASSUME LinkInv, Device
  PROVE  Kept
<1>1. PICK p, kind : Told(p, kind)
  BY DeviceTells DEF LinkInv
<1>2. /\ pc' = pc /\ step' = step /\ connection' = connection /\ result' = result /\ rx' = rx
      /\ board' = board /\ assigned' = assigned /\ done' = done /\ torn' = torn
      /\ mixed' = mixed /\ behind' = behind
  BY DeviceTells DEF LinkInv, script, history
<1>3. imu \in Nat /\ Len(board) \in Nat
  BY Typed DEF LinkInv
<1>4. /\ Sent(p, kind, assigned) /\ kind \in {"status", "gone", "imu", "pose"}
      /\ line' = line \o p /\ link \in {"opening", "up"} /\ link' \in {"up", "down"}
      /\ link = "opening" => kind = "status"
      /\ kind = "imu" => imu' = imu + 1 /\ p[Len(p)].b = imu' /\ "mode" \in done
      /\ kind # "imu" => imu' = imu
  BY <1>1 DEF Told
<1>5. imu' \in Nat /\ imu <= imu' /\ (kind = "imu" => imu < imu' /\ p[Len(p)].b = imu')
  BY <1>3, <1>4
<1>6. IsJoin(Transit', Transit, p) /\ FrameInv' /\ OrderInv'
  BY <1>2, <1>4, <1>5, Sends DEF LinkInv
<1>7. Ends(p, kind) = {Len(p)} /\ \A other : other # kind => Ends(p, other) = {}
  BY <1>4 DEF Sent
<1>8. Ends(p, "answer") = {}
  BY <1>4, <1>7
<1>9. ASSUME ~torn, ~mixed PROVE Session'
  <2>1. Session
    BY <1>9 DEF LinkInv, SessionInv
  <2>2. \A x, y, z : OneAnswer(Transit, x, y, z) => OneAnswer(Transit', x, y, z)
    BY <1>6, <1>8, OneAnswerJoin
  <2>3. \A a : Behind(Transit, a, "answer") => Behind(Transit', a, "answer")
    BY <1>6, <1>8, BehindJoin
  <2>4. Ends(Transit, "answer") = {} => Ends(Transit', "answer") = {}
    BY <1>6, <1>8, EndsJoin
  <2>5. Ends(Transit, "status") # {} \/ link = "opening" => Ends(Transit', "status") # {}
    <3>1. link = "opening" => Ends(p, "status") # {}
      BY <1>4, <1>7
    <3>. QED  BY <1>6, <3>1, EndsJoin
  <2>6. imu' > 0 => "mode" \in done
    BY <1>4, <2>1 DEF Session
  <2>7. pc \in {"asked", "status"} => Ends(Transit', "status") # {}
    BY <1>4, <2>1, <2>5 DEF Session
  <2>8. link # "none" /\ link' # "none" /\ link' \in {"up", "down"} /\ (link = "opening" \/ link = "up")
    BY <1>4
  <2>9. pc \notin {"closing", "closed"}
    BY <2>1, <2>8 DEF Session
  <2>10. ~Asking
    BY <2>1, <2>8 DEF Session
  <2>11. pc = "asked" =>
           /\ \E ok \in BOOLEAN : /\ OneAnswer(Transit', Code(ok)[1], Code(ok)[2], assigned)
                                  /\ ok <=> link' # "none"
           /\ Behind(Transit', "status", "answer")
    BY <2>1, <2>2, <2>3, <2>8 DEF Session
  <2>12. pc = "written" =>
           /\ \E ok \in BOOLEAN : /\ OneAnswer(Transit', connection, Code(ok)[1], Code(ok)[2])
                                  /\ "mode" \in done => ok
           /\ Behind(Transit', "imu", "answer")
    BY <2>1, <2>2, <2>3 DEF Session
  <2>13. /\ pc = "status" => Ends(Transit', "answer") = {}
         /\ pc = "write" => Ends(Transit', "answer") = {}
         /\ Connected => connection = assigned
         /\ Early => "mode" \notin done
         /\ pc = "stream" => ("mode" \in done => result = "0000")
    BY <2>1, <2>4 DEF Session
  <2>. QED
    BY <1>2, <2>6, <2>7, <2>8, <2>9, <2>10, <2>11, <2>12, <2>13
    DEF Session, Asking, Early, Connected
<1>10. CompleteInv'
  <2>1. ASSUME Served(Transit, board, imu) PROVE Served(Transit', board, imu')
    <3>1. \A v \in (imu + 1)..imu' : \E j \in Ends(p, "imu") : p[j].b = v
      <4>1. CASE kind = "imu"
        <5>1. Len(p) \in Ends(p, "imu") /\ p[Len(p)].b = imu' /\ imu' = imu + 1
          BY <1>4, <1>7, <4>1
        <5>2. \A v \in (imu + 1)..imu' : v = imu'
          BY <1>3, <5>1
        <5>. QED  BY <5>1, <5>2
      <4>2. CASE kind # "imu"
        BY <1>3, <1>4, <4>2
      <4>. QED  BY <4>1, <4>2
    <3>. QED  BY <1>3, <1>5, <1>6, <2>1, <3>1, CompleteJoin
  <2>. QED  BY <1>2, <2>1 DEF LinkInv, CompleteInv
<1>. QED  BY <1>2, <1>6, <1>9, <1>10 DEF Kept, SessionInv

(* What comes late is nothing the script waits for. *)
LEMMA LateKept ==
  ASSUME LinkInv, SendLate
  PROVE  Kept
<1>1. /\ pc' = pc /\ step' = step /\ connection' = connection /\ result' = result /\ rx' = rx
      /\ board' = board /\ assigned' = assigned /\ done' = done /\ torn' = torn
      /\ mixed' = mixed /\ behind' = behind /\ link' = link /\ imu' = imu
  BY DEF SendLate, SendEvent, script, history
<1>2. imu \in Nat /\ Len(board) \in Nat /\ assigned \in Byte
  BY Typed DEF LinkInv
<1>3. \E p, kind : /\ Sent(p, kind, assigned) /\ kind \in {"gone", "report"}
                   /\ line' = line \o p
  <2>1. PICK event \in {ScanReport} \cup {Disconnected(h) : h \in Handles} : line' = line \o event
    BY DEF SendLate, SendEvent
  <2>2. CASE event = ScanReport
    <3>1. 0 \in Byte
      BY DEF Byte
    <3>2. Sent(ScanReport, "report", assigned)
      BY <1>2, <3>1, EventsSent
    <3>. QED  BY <2>1, <2>2, <3>2
  <2>3. CASE event # ScanReport
    <3>1. PICK h \in Handles : event = Disconnected(h)
      BY <2>3
    <3>2. h \in Byte
      BY LinkAssumption DEF Byte
    <3>3. Sent(Disconnected(h), "gone", assigned)
      BY <1>2, <3>2, GoneSent
    <3>. QED  BY <2>1, <3>1, <3>3
  <2>. QED  BY <2>2, <2>3
<1>4. PICK p, kind : /\ Sent(p, kind, assigned) /\ kind \in {"gone", "report"}
                    /\ line' = line \o p
  BY <1>3
<1>5. imu' \in Nat /\ imu <= imu' /\ kind # "imu"
  BY <1>1, <1>2, <1>4
<1>6. IsJoin(Transit', Transit, p) /\ FrameInv' /\ OrderInv'
  BY <1>1, <1>4, <1>5, Sends DEF LinkInv
<1>7. Ends(p, "answer") = {} /\ Ends(p, "status") = {} /\ Ends(p, "imu") = {}
  BY <1>4 DEF Sent
<1>8. ASSUME ~torn, ~mixed PROVE Session'
  <2>1. Session
    BY <1>8 DEF LinkInv, SessionInv
  <2>2. \A x, y, z : OneAnswer(Transit, x, y, z) => OneAnswer(Transit', x, y, z)
    BY <1>6, <1>7, OneAnswerJoin
  <2>3. \A a : Behind(Transit, a, "answer") => Behind(Transit', a, "answer")
    BY <1>6, <1>7, BehindJoin
  <2>4. /\ Ends(Transit, "answer") = {} => Ends(Transit', "answer") = {}
        /\ Ends(Transit, "status") = {} <=> Ends(Transit', "status") = {}
    BY <1>6, <1>7, EndsJoin
  <2>. QED  BY <1>1, <2>1, <2>2, <2>3, <2>4 DEF Session, Asking, Early, Connected
<1>9. CompleteInv'
  <2>1. ASSUME Served(Transit, board, imu) PROVE Served(Transit', board, imu')
    <3>1. (imu + 1)..imu' = {}
      BY <1>1, <1>2
    <3>. QED  BY <1>1, <1>2, <1>6, <2>1, <3>1, CompleteJoin
  <2>. QED  BY <1>1, <2>1 DEF LinkInv, CompleteInv
<1>. QED  BY <1>1, <1>6, <1>8, <1>9 DEF Kept, SessionInv

(* The value in front, and what the script makes of it. *)
ValueRead(n, p, found, cmd) ==
  /\ found /\ n <= Len(rx) /\ FirstPart(Transit, n, assigned)
  /\ p \in Seq(Byte) /\ Len(p) = n - 4
  /\ \A j \in 1..(n - 4) : p[j] = Transit[4 + j].b
  /\ cmd = Transit[4].b

LEMMA ValueFront ==
  ASSUME TypesInv, rx # <<>>, Framed(Transit, assigned), Final(rx[ValueCall(rx).taken])
  PROVE  LET call == ValueCall(rx)
         IN  \/ /\ rx[1].kind \in {"imu", "pose"}
                /\ ValueRead(call.taken, Payload(call.reader), call.found, call.reader.buf[4])
             \/ rx[1].kind \notin {"imu", "pose"} /\ ~call.found
<1>. DEFINE call == ValueCall(rx)
            n == 4 + Transit[2].b
<1>1. /\ rx \in Seq(Cells) /\ Transit \in Seq(Cells) /\ Len(rx) \in Nat /\ Len(rx) > 0
      /\ Len(Transit) > 0 /\ Within(rx, Transit, 0)
  BY Typed, FirstCell
<1>2. FirstPart(Transit, n, assigned)
  BY <1>1, FrontPacket
<1>. HIDE DEF n
<1>3. 5 + ImuLen # EventType
  BY LinkAssumption
<1>4. /\ rx[1].kind \in {"imu", "pose"} =>
           /\ call.found /\ call.taken = n /\ n <= Len(rx)
           /\ Len(call.reader.buf) = n
           /\ \A j \in 1..n : call.reader.buf[j] = Transit[j].b
      /\ rx[1].kind \notin {"imu", "pose"} => ~call.found /\ call.taken = Len(rx)
  BY <1>1, <1>2, <1>3, ValueInFront
<1>5. call.reader \in Readers
  BY <1>1, CallTypes DEF Calls
<1>. HIDE DEF call
<1>6. n \in Nat /\ n >= 5
  BY <1>2 DEF FirstPart, Shaped
<1>7. ASSUME rx[1].kind \in {"imu", "pose"}
      PROVE  ValueRead(call.taken, Payload(call.reader), call.found, call.reader.buf[4])
  <2>1. /\ Payload(call.reader) \in Seq(Byte) /\ Len(Payload(call.reader)) = n - 4
        /\ \A j \in 1..(n - 4) : Payload(call.reader)[j] = call.reader.buf[4 + j]
    BY <1>4, <1>5, <1>6, <1>7, PayloadBytes
  <2>2. \A j \in 1..(n - 4) : Payload(call.reader)[j] = Transit[4 + j].b
    <3>1. \A j \in 1..(n - 4) : 4 + j \in 1..n
      BY <1>6
    <3>. QED  BY <1>4, <1>7, <2>1, <3>1
  <2>3. call.reader.buf[4] = Transit[4].b
    <3>1. 4 \in 1..n
      BY <1>6
    <3>. QED  BY <1>4, <1>7, <3>1
  <2>4. call.found /\ call.taken = n /\ n <= Len(rx)
    BY <1>4, <1>7
  <2>. QED  BY <1>2, <2>1, <2>2, <2>3, <2>4 DEF ValueRead
<1>. QED  BY <1>4, <1>7 DEF call

(* Motion data is told from a pose, and passed on as it was sent. *)
LEMMA ImuTold ==
  ASSUME TypesInv, rx # <<>>, rx[1].kind = "imu",
         NEW n, NEW p, NEW found, NEW cmd, ValueRead(n, p, found, cmd)
  PROVE  /\ cmd = ValueCommand /\ IsMotion(p) /\ ~(Len(p) < 5)
         /\ SubSeq(p, 6, Len(p)) = ImuData(Transit[n].b)
         /\ Len(SubSeq(p, 6, Len(p))) = ImuLen
<1>1. Transit \in Seq(Cells) /\ Transit[1].kind = "imu"
  BY Typed, FirstCell
<1>2. /\ n \in Nat /\ p \in Seq(Byte) /\ Len(p) = n - 4
      /\ \A j \in 1..(n - 4) : p[j] = Transit[4 + j].b
      /\ cmd = Transit[4].b
  BY DEF ValueRead, FirstPart
<1>3. /\ n = 9 + ImuLen
      /\ Transit[4].b = ValueCommand /\ Transit[6].b = ImuHandle /\ Transit[7].b = 0
      /\ \A k \in 10..n : Transit[k].b = Transit[n].b
  BY <1>1 DEF ValueRead, FirstPart, Filled
<1>4. ImuLen \in Nat /\ ImuLen >= 1
  BY LinkAssumption
<1>5. Len(p) = 5 + ImuLen
  BY <1>2, <1>3, <1>4
<1>6. p[2] = ImuHandle /\ p[3] = 0
  <2>1. 2 \in 1..(n - 4) /\ 3 \in 1..(n - 4)
    BY <1>3, <1>4
  <2>2. p[2] = Transit[4 + 2].b /\ p[3] = Transit[4 + 3].b
    BY <1>2, <2>1
  <2>. QED  BY <1>3, <2>2
<1>7. IsMotion(p)
  <2>1. /\ \A i \in 2..3 : p[i] \in Byte
    BY <1>2, <1>4, <1>5
  <2>. DEFINE r == SubSeq(p, 2, 3)
              z == <<ImuHandle, 0>>
  <2>2. r \in Seq(Byte) /\ Len(r) = 3 - 2 + 1 /\ \A i \in 1..(3 - 2 + 1) : r[i] = p[2 + i - 1]
    BY <1>2, <2>1, SubSeqProperties
  <2>3. z \in Seq(Byte) /\ Len(z) = 2 /\ z[1] = ImuHandle /\ z[2] = 0
    BY DEF Byte, ImuHandle
  <2>. HIDE DEF r, z
  <2>4. Len(r) = 2 /\ r[1] = p[2 + 1 - 1] /\ r[2] = p[2 + 2 - 1]
    BY <2>2
  <2>5. \A i \in 1..2 : r[i] = z[i]
    BY <1>6, <2>3, <2>4
  <2>6. r = z
    BY <2>2, <2>3, <2>4, <2>5
  <2>. QED  BY <2>6 DEF IsMotion, r, z
<1>8. SubSeq(p, 6, Len(p)) = ImuData(Transit[n].b) /\ Len(SubSeq(p, 6, Len(p))) = ImuLen
  <2>. DEFINE v == Transit[n].b
              r == SubSeq(p, 6, 5 + ImuLen)
              d == ImuData(v)
  <2>1. \A i \in 6..(5 + ImuLen) : p[i] \in Byte
    BY <1>2, <1>4, <1>5
  <2>2. /\ r \in Seq(Byte) /\ Len(r) = ImuLen
        /\ \A i \in 1..ImuLen : r[i] = p[6 + i - 1]
    <3>1. /\ r \in Seq(Byte) /\ Len(r) = 5 + ImuLen - 6 + 1
          /\ \A i \in 1..(5 + ImuLen - 6 + 1) : r[i] = p[6 + i - 1]
      <4>1. 6 \in Nat /\ 5 + ImuLen \in Nat
        BY <1>4
      <4>2. r \in Seq(Byte) /\ Len(r) = IF 6 <= 5 + ImuLen THEN 5 + ImuLen - 6 + 1 ELSE 0
        BY <1>2, <1>4, <2>1, SubSeqProperties
      <4>3. \A i \in 1..(5 + ImuLen - 6 + 1) : r[i] = p[6 + i - 1]
        BY <1>2, <1>4, <2>1, SubSeqProperties
      <4>. QED  BY <1>4, <4>2, <4>3
    <3>. HIDE DEF r
    <3>2. 5 + ImuLen - 6 + 1 = ImuLen
      BY <1>4
    <3>. QED  BY <3>1, <3>2
  <2>. HIDE DEF r
  <2>3. ASSUME NEW i \in 1..ImuLen PROVE r[i] = v
    <3>1. 6 + i - 1 \in 1..(n - 4) /\ 4 + (6 + i - 1) \in 10..n
      BY <1>3, <1>4
    <3>2. p[6 + i - 1] = Transit[4 + (6 + i - 1)].b
      BY <1>2, <3>1
    <3>3. Transit[4 + (6 + i - 1)].b = v
      BY <1>3, <3>1
    <3>. QED  BY <2>2, <3>2, <3>3
  <2>. HIDE DEF v
  <2>4. r = d
    <3>1. r = [i \in 1..ImuLen |-> r[i]]
      BY <1>4, <2>2
    <3>. QED  BY <2>3, <3>1 DEF ImuData
  <2>. QED  BY <1>5, <2>2, <2>4 DEF r, v
<1>9. ~(Len(p) < 5)
  BY <1>4, <1>5
<1>. QED  BY <1>2, <1>3, <1>7, <1>8, <1>9

LEMMA PoseTold ==
  ASSUME TypesInv, rx # <<>>, rx[1].kind = "pose",
         NEW n, NEW p, NEW found, NEW cmd, ValueRead(n, p, found, cmd)
  PROVE  ~IsMotion(p) /\ ~(Len(p) < 5)
<1>1. Transit \in Seq(Cells) /\ Transit[1].kind = "pose"
  BY Typed, FirstCell
<1>2. /\ n \in Nat /\ p \in Seq(Byte) /\ Len(p) = n - 4
      /\ \A j \in 1..(n - 4) : p[j] = Transit[4 + j].b
  BY DEF ValueRead, FirstPart
<1>3. n = 10 /\ Transit[6].b = ClassifierHandle
  BY <1>1 DEF ValueRead, FirstPart, Filled
<1>4. p[2] = ClassifierHandle /\ Len(p) = 6
  <2>1. 2 \in 1..(n - 4)
    BY <1>3
  <2>2. p[2] = Transit[4 + 2].b
    BY <1>2, <2>1
  <2>. QED  BY <1>2, <1>3, <2>2
<1>5. ~IsMotion(p)
  <2>1. \A i \in 2..3 : p[i] \in Byte
    <3>1. \A i \in 1..6 : p[i] \in Byte
      <4>1. p \in Seq(Byte)
        BY <1>2
      <4>2. Len(p) = 6
        BY <1>4
      <4>3. \A i \in 1..Len(p) : p[i] \in Byte
        BY <4>1
      <4>. QED  BY <4>2, <4>3
    <3>. QED  BY <3>1
  <2>. DEFINE r == SubSeq(p, 2, 3)
              z == <<ImuHandle, 0>>
  <2>2. r \in Seq(Byte) /\ Len(r) = 3 - 2 + 1 /\ \A i \in 1..(3 - 2 + 1) : r[i] = p[2 + i - 1]
    BY <1>2, <2>1, SubSeqProperties
  <2>. HIDE DEF r
  <2>3. r[1] = p[2 + 1 - 1]
    BY <2>2
  <2>4. r[1] = ClassifierHandle
    BY <1>4, <2>3
  <2>5. z[1] = ImuHandle
    OBVIOUS
  <2>. HIDE DEF z
  <2>6. r # z
    BY <2>4, <2>5 DEF ClassifierHandle, ImuHandle
  <2>. QED  BY <2>6 DEF IsMotion, r, z
<1>. QED  BY <1>4, <1>5

(* The motion data in front is the next the board needs, if it has all before. *)
LEMMA NextInOrder ==
  ASSUME NEW s \in Seq(Cells), NEW n, NEW h, FirstPart(s, n, h), s[1].kind = "imu",
         NEW m \in Nat, Sorted(s, m), NEW bd \in Seq(Seq(0..255)),
         Listed(bd, m), Ahead(bd, s), Served(s, bd, m)
  PROVE  s[n].b = Len(bd) + 1
<1>. DEFINE v == s[n].b
            l == Len(bd)
<1>1. n \in Ends(s, "imu") /\ \A i \in Ends(s, "imu") : i >= n
  BY FrontEnds
<1>2. v \in 1..m /\ l \in Nat
  BY <1>1 DEF Sorted
<1>3. v > l
  <2>1. CASE l = 0
    BY <1>2, <2>1
  <2>2. CASE l # 0
    <3>1. l \in 1..l /\ l \in DOMAIN bd
      BY <1>2, <2>2
    <3>2. bd[l] = ImuData(l)
      <4>1. bd = [i \in 1..l |-> ImuData(i)]
        BY DEF Served
      <4>. QED  BY <3>1, <4>1
    <3>3. bd[l][1] < v
      BY <1>1, <3>1 DEF Ahead
    <3>. QED  BY <1>2, <3>2, <3>3, ImuFirst
  <2>. QED  BY <2>1, <2>2
<1>4. l + 1 \in (l + 1)..m
  BY <1>2, <1>3
<1>5. PICK i \in Ends(s, "imu") : s[i].b = l + 1
  BY <1>4 DEF Served
<1>6. i >= n /\ i \in Nat /\ n \in Nat
  BY <1>1, EndIn
<1>7. CASE i = n
  BY <1>5, <1>7
<1>8. CASE i # n
  <2>1. v < l + 1
    BY <1>1, <1>5, <1>6, <1>8 DEF Sorted
  <2>. QED  BY <1>2, <1>3, <2>1
<1>. QED  BY <1>7, <1>8

LEMMA BoardGrows ==
  ASSUME NEW s \in Seq(Cells), NEW t, NEW n, NEW h, FirstPart(s, n, h), s[1].kind = "imu",
         IsRest(t, s, n), NEW m \in Nat, Sorted(s, m), NEW bd \in Seq(Seq(0..255)),
         Listed(bd, m), Ahead(bd, s)
  PROVE  LET more == Append(bd, ImuData(s[n].b))
         IN  /\ Listed(more, m) /\ Ahead(more, t)
             /\ Served(s, bd, m) => Served(t, more, m)
<1>. DEFINE v == s[n].b
            l == Len(bd)
            more == Append(bd, ImuData(v))
<1>1. /\ n \in Ends(s, "imu") /\ n \in Nat
      /\ \A i \in Ends(s, "imu") : i >= n /\ i \in Nat
  BY FrontEnds, EndIn
<1>2. v \in 1..m /\ l \in Nat
  BY <1>1 DEF Sorted
<1>3. v \in Nat
  BY <1>2
<1>. DEFINE e == ImuData(v)
<1>4. DOMAIN bd = 1..l /\ DOMAIN more = 1..(l + 1) /\ Len(more) = l + 1
      /\ more[l + 1] = e /\ \A i \in 1..l : more[i] = bd[i]
  <2>. HIDE DEF e
  <2>. QED  BY <1>2 DEF e
<1>5. e[1] = v
  BY ImuFirst
<1>. HIDE DEF v, l, more, e
<1>6. \A i \in 1..(l + 1) : i \in 1..l \/ i = l + 1
  BY <1>2
<1>7. \A i \in 1..l : bd[i][1] < v
  BY <1>1, <1>4 DEF Ahead, v
<1>8. Listed(more, m)
  <2>1. ASSUME NEW i \in 1..(l + 1) PROVE \E k \in 1..m : more[i] = ImuData(k)
    <3>1. CASE i \in 1..l
      BY <1>4, <3>1 DEF Listed
    <3>2. CASE i = l + 1
      BY <1>2, <1>4, <3>2 DEF e
    <3>. QED  BY <1>6, <3>1, <3>2
  <2>2. ASSUME NEW i \in 1..(l + 1), NEW j \in 1..(l + 1), i < j PROVE more[i][1] < more[j][1]
    <3>1. i \in 1..l
      BY <1>2, <2>2
    <3>2. CASE j \in 1..l
      BY <1>4, <2>2, <3>1, <3>2 DEF Listed
    <3>3. CASE j = l + 1
      BY <1>4, <1>5, <1>7, <3>1, <3>3
    <3>. QED  BY <1>6, <3>2, <3>3
  <2>. QED  BY <1>4, <2>1, <2>2 DEF Listed
<1>9. \A i \in Ends(t, "imu") : n + i \in Ends(s, "imu") /\ s[n + i] = t[i] /\ n < n + i
  <2>1. \A i \in Ends(t, "imu") : i \in Nat /\ i >= 1
    BY DEF Ends
  <2>2. \A i \in Ends(t, "imu") : n < n + i
    BY <1>1, <2>1
  <2>. QED  BY <2>2, EndsRest
<1>10. Ahead(more, t)
  <2>1. ASSUME NEW d \in 1..(l + 1), NEW i \in Ends(t, "imu") PROVE more[d][1] < t[i].b
    <3>1. CASE d \in 1..l
      BY <1>4, <1>9, <3>1 DEF Ahead
    <3>2. CASE d = l + 1
      <4>1. v < s[n + i].b
        BY <1>1, <1>9 DEF Sorted, v
      <4>. QED  BY <1>4, <1>5, <1>9, <3>2, <4>1
    <3>. QED  BY <1>6, <3>1, <3>2
  <2>. QED  BY <1>4, <2>1 DEF Ahead
<1>11. ASSUME Served(s, bd, m) PROVE Served(t, more, m)
  <2>1. v = l + 1
    BY <1>11, NextInOrder DEF v, l
  <2>2. more = [i \in 1..(l + 1) |-> ImuData(i)]
    <3>1. bd = [i \in 1..l |-> ImuData(i)]
      BY <1>11 DEF Served, l
    <3>2. \A i \in 1..l : bd[i] = ImuData(i)
      BY <3>1
    <3>3. \A i \in 1..(l + 1) : more[i] = ImuData(i)
      BY <1>4, <1>6, <2>1, <3>2 DEF e
    <3>4. more = [i \in 1..(l + 1) |-> more[i]]
      <4>1. more \in Seq(Seq(0..255) \cup {e})
        BY DEF more, e
      <4>. QED  BY <1>4, <4>1
    <3>. DEFINE f(i) == more[i]
                g(i) == ImuData(i)
    <3>5. \A i \in 1..(l + 1) : f(i) = g(i)
      BY <3>3
    <3>6. more = [i \in 1..(l + 1) |-> f(i)]
      BY <3>4
    <3>. HIDE DEF f
    <3>. QED  BY <3>5, <3>6
  <2>3. ASSUME NEW k \in (l + 1 + 1)..m PROVE \E i \in Ends(t, "imu") : t[i].b = k
    <3>1. k \in (l + 1)..m /\ k # v
      BY <1>2, <2>1
    <3>2. PICK i \in Ends(s, "imu") : s[i].b = k
      BY <1>11, <3>1 DEF Served, l
    <3>3. i > n
      <4>1. i >= n /\ i \in Nat /\ n \in Nat
        BY <1>1
      <4>2. i # n
        BY <3>1, <3>2 DEF v
      <4>. QED  BY <4>1, <4>2
    <3>4. i - n \in Ends(t, "imu") /\ t[i - n] = s[i]
      BY <3>3, EndsRest
    <3>. QED  BY <3>2, <3>4
  <2>4. Len(more) <= m
    BY <1>2, <1>4, <2>1
  <2>. QED  BY <1>4, <2>2, <2>3, <2>4 DEF Served
<1>. QED  BY <1>8, <1>10, <1>11 DEF more, v, e

LEMMA ReadValueKept ==
  ASSUME LinkInv, ReadValue
  PROVE  Kept
<1>. DEFINE call == ValueCall(rx)
            k == call.taken
            payload == Payload(call.reader)
            cmd == call.reader.buf[4]
            data == SubSeq(payload, 6, Len(payload))
            found == call.found
<1>1. /\ pc = "stream" /\ rx # <<>> /\ rx' = Dropped(k) /\ torn' = (torn \/ Cut(k))
      /\ behind' = (behind \/ rx[1].kind \notin {"imu", "pose"})
      /\ mixed' = mixed /\ step' = step /\ line' = line /\ link' = link /\ connection' = connection
      /\ assigned' = assigned /\ done' = done /\ imu' = imu /\ result' = result
  BY DEF ReadValue, wires, dongle
<1>2. /\ ~found => pc' = pc /\ board' = board
      /\ found /\ ~(Len(payload) < 5) /\ ~IsMotion(payload) => pc' = pc /\ board' = board
      /\ found /\ ~(Len(payload) < 5) /\ result # "0000" => pc' = pc /\ board' = board
      /\ found /\ ~(Len(payload) < 5) /\ result = "0000" /\ cmd = ValueCommand /\ IsMotion(payload)
           => board' = Append(board, data) /\ (Len(data) = ImuLen => pc' = pc)
      /\ pc' \in {"stream", "exited"}
  BY <1>1 DEF ReadValue
<1>3. /\ rx \in Seq(Cells) /\ Len(rx) \in Nat /\ Len(rx) > 0 /\ Transit \in Seq(Cells)
      /\ Transit[1] = rx[1] /\ imu \in Nat /\ board \in Seq(Seq(0..255))
  BY <1>1, Typed, FirstCell DEF LinkInv
<1>4. k \in 0..Len(rx) /\ k # 0
  <2>1. k \in 1..Len(rx)
    BY <1>3, ValueTaken
  <2>. HIDE DEF k
  <2>. QED  BY <1>3, <2>1
<1>. HIDE DEF call, k, payload, cmd, data, found
<1>5. /\ FrameInv' /\ Sorted(Transit', imu')
      /\ board' = board => OrderInv'
      /\ ~torn' => /\ ~torn /\ Framed(Transit, assigned) /\ Final(rx[k])
                   /\ Listed(board, imu) /\ Ahead(board, Transit)
  BY <1>1, <1>4, Drops DEF LinkInv
<1>6. IsRest(Transit', Transit, k)
  BY <1>1, <1>4, Takes DEF LinkInv
<1>7. ~torn' => \/ rx[1].kind \in {"imu", "pose"} /\ ValueRead(k, payload, found, cmd)
                \/ rx[1].kind \notin {"imu", "pose"} /\ ~found
  BY <1>1, <1>5, ValueFront DEF LinkInv, call, k, payload, cmd, found
<1>8. SessionInv'
  <2>1. ASSUME ~torn', ~mixed' PROVE Session'
    <3>1. Session
      BY <1>1, <1>5, <2>1 DEF LinkInv, SessionInv
    <3>2. Ends(Transit', "status") # {} => link \in {"up", "down"}
      BY <1>6, <3>1, NoEndsRest DEF Session
    <3>3. connection = assigned /\ link \in {"up", "down"} /\ (imu > 0 => "mode" \in done)
          /\ ("mode" \in done => result = "0000")
      BY <1>1, <3>1 DEF Session, Connected
    <3>. QED  BY <1>1, <1>2, <3>2, <3>3 DEF Session, Asking, Early, Connected
  <2>. QED  BY <2>1 DEF SessionInv
<1>9. CASE torn'
  BY <1>5, <1>8, <1>9 DEF Kept, OrderInv, CompleteInv
<1>10. CASE ~torn' /\ rx[1].kind \notin {"imu", "pose"}
  <2>1. board' = board /\ behind'
    BY <1>1, <1>2, <1>7, <1>10
  <2>. QED  BY <1>5, <1>8, <2>1 DEF Kept, CompleteInv
<1>11. CASE ~torn' /\ rx[1].kind = "pose"
  <2>1. ValueRead(k, payload, found, cmd)
    BY <1>7, <1>11
  <2>2. board' = board
    BY <1>1, <1>2, <1>11, <2>1, PoseTold DEF LinkInv, ValueRead
  <2>3. FirstPart(Transit, k, assigned) /\ Transit[1].kind = "pose"
    BY <1>3, <1>11, <2>1 DEF ValueRead
  <2>4. ASSUME NEW i \in Ends(Transit, "imu") PROVE i > k
    <3>1. i >= k /\ i # k
      BY <1>3, <2>3, FrontEnds
    <3>2. i \in Nat /\ k \in Nat
      BY <1>3, <1>4, EndIn
    <3>. QED  BY <3>1, <3>2
  <2>5. CompleteInv'
    <3>1. ASSUME ~mixed', ~behind' PROVE Served(Transit', board', imu')
      <4>1. Served(Transit, board, imu)
        BY <1>1, <1>5, <1>11, <3>1 DEF LinkInv, CompleteInv
      <4>. QED  BY <1>1, <1>6, <2>2, <2>4, <4>1, CompleteRest
    <3>. QED  BY <3>1 DEF CompleteInv
  <2>. QED  BY <1>5, <1>8, <2>2, <2>5 DEF Kept
<1>12. CASE ~torn' /\ rx[1].kind = "imu"
  <2>1. ValueRead(k, payload, found, cmd)
    BY <1>7, <1>12
  <2>2. /\ found /\ cmd = ValueCommand /\ IsMotion(payload) /\ ~(Len(payload) < 5)
        /\ data = ImuData(Transit[k].b) /\ Len(data) = ImuLen
    BY <1>1, <1>12, <2>1, ImuTold DEF LinkInv, ValueRead, data
  <2>3. FirstPart(Transit, k, assigned) /\ Transit[1].kind = "imu"
    BY <1>3, <1>12, <2>1 DEF ValueRead
  <2>4. Sorted(Transit, imu) /\ Listed(board, imu) /\ Ahead(board, Transit)
    BY <1>5, <1>12 DEF LinkInv, OrderInv
  <2>5. CASE result = "0000"
    <3>1. board' = Append(board, ImuData(Transit[k].b))
      BY <1>2, <2>2, <2>5
    <3>2. /\ Listed(board', imu) /\ Ahead(board', Transit')
          /\ Served(Transit, board, imu) => Served(Transit', board', imu)
      BY <1>3, <1>6, <2>3, <2>4, <3>1, BoardGrows
    <3>3. OrderInv'
      BY <1>1, <1>5, <3>2 DEF OrderInv
    <3>4. CompleteInv'
      <4>1. ASSUME ~mixed', ~behind' PROVE Served(Transit', board', imu')
        <5>1. Served(Transit, board, imu)
          BY <1>1, <1>5, <1>12, <4>1 DEF LinkInv, CompleteInv
        <5>. QED  BY <1>1, <3>2, <5>1
      <4>. QED  BY <4>1 DEF CompleteInv
    <3>. QED  BY <1>5, <1>8, <3>3, <3>4 DEF Kept
  <2>6. CASE result # "0000"
    <3>1. board' = board
      BY <1>2, <2>2, <2>6
    <3>2. mixed
      <4>1. SUFFICES ASSUME ~mixed PROVE FALSE
        OBVIOUS
      <4>2. Session
        BY <1>5, <1>12, <4>1 DEF LinkInv, SessionInv
      <4>3. k \in Ends(Transit, "imu")
        BY <1>3, <2>3, FrontEnds
      <4>4. imu > 0
        BY <1>3, <2>4, <4>3, NoImu
      <4>. QED  BY <1>1, <2>6, <4>2, <4>4 DEF Session
    <3>. QED  BY <1>1, <1>5, <1>8, <3>1, <3>2 DEF Kept, CompleteInv
  <2>. QED  BY <2>5, <2>6
<1>. QED  BY <1>9, <1>10, <1>11, <1>12

LEMMA LinkInvariant == Spec => []LinkInv
<1>1. Init => LinkInv
  BY InitTypes, InitKept DEF LinkInv
<1>2. LinkInv /\ [Next]_vars => LinkInv'
  <2>. SUFFICES ASSUME LinkInv, [Next]_vars PROVE LinkInv'
    OBVIOUS
  <2>1. TypesInv'
    <3>1. CASE UNCHANGED vars
      BY <3>1 DEF LinkInv, TypesInv, TypeOK, vars
    <3>. QED
      BY <3>1, ScriptSteps, InterruptSteps, DeviceSteps, LateSteps, ArriveSteps DEF LinkInv, Next
  <2>2. Kept
    BY StutterKept, FlushKept, AskKept, NoAnswerKept, ReadConnectKept, ReadStatusKept,
       WriteKept, ReadWrittenKept, ReadValueKept, ReadDisconnectKept, InterruptKept,
       DeviceKept, LateKept, ArriveKept DEF Next, Script
  <2>. QED  BY <2>1, <2>2 DEF LinkInv, Kept
<1>. QED  BY <1>1, <1>2, PTL DEF Spec

(* In every session, for every length of the events and every division of   *)
(* what arrives: as long as no call ended in the middle of a packet and     *)
(* nothing else was taken in with it, the packet the script polls for is in *)
(* its input or on its way, so that polling again is worth it.              *)
THEOREM AnswersStay == Spec => []AnswerNotLost
<1>1. LinkInv => AnswerNotLost
  <2>. SUFFICES ASSUME LinkInv, ~torn, ~mixed
       PROVE  /\ pc \in {"asked", "written"} => InTransit("answer")
              /\ pc = "status" /\ link # "opening" => InTransit("status")
    BY DEF AnswerNotLost
  <2>1. rx \in Seq(Cells) /\ line \in Seq(Cells) /\ Transit \in Seq(Cells)
    BY Typed DEF LinkInv
  <2>2. Session
    BY DEF LinkInv, SessionInv
  <2>3. ASSUME NEW kind, Ends(Transit, kind) # {} PROVE InTransit(kind)
    <3>1. PICK i \in 1..Len(Transit) : Transit[i].kind = kind
      BY <2>3 DEF Ends
    <3>2. /\ Len(Transit) = Len(rx) + Len(line) /\ Within(rx, Transit, 0)
          /\ Within(line, Transit, Len(rx)) /\ Len(rx) \in Nat /\ Len(line) \in Nat
      <4>1. IsJoin(Transit, rx, line)
        BY <2>1, JoinOf DEF Transit
      <4>. QED  BY <2>1, <4>1 DEF IsJoin
    <3>3. CASE i <= Len(rx)
      <4>1. i \in 1..Len(rx) /\ 0 + i = i
        BY <3>2, <3>3
      <4>2. rx[i] = Transit[i]
        BY <3>2, <4>1 DEF Within
      <4>3. rx[i] \in ToSet(rx)
        BY <2>1, <4>1 DEF ToSet
      <4>. QED  BY <3>1, <4>2, <4>3 DEF InTransit
    <3>4. CASE ~(i <= Len(rx))
      <4>. DEFINE j == i - Len(rx)
      <4>1. j \in 1..Len(line) /\ Len(rx) + j = i
        BY <3>2, <3>4
      <4>. HIDE DEF j
      <4>2. line[j] = Transit[i]
        BY <3>2, <4>1 DEF Within
      <4>3. line[j] \in ToSet(line)
        BY <2>1, <4>1 DEF ToSet
      <4>. QED  BY <3>1, <4>2, <4>3 DEF InTransit
    <3>. QED  BY <3>3, <3>4
  <2>4. pc \in {"asked", "written"} => Ends(Transit, "answer") # {}
    BY <2>2 DEF Session, OneAnswer
  <2>5. pc = "status" /\ link # "opening" => Ends(Transit, "status") # {}
    <3>1. link \in {"none", "opening", "up", "down"}
      BY Typed DEF LinkInv
    <3>. QED  BY <2>2, <3>1 DEF Session
  <2>. QED  BY <2>3, <2>4, <2>5
<1>. QED  BY <1>1, LinkInvariant, PTL

(* The handle the script writes to is the one the dongle assigned, whatever *)
(* else the dongle says meanwhile: the first status is that of the           *)
(* connection it asked for.                                                  *)
THEOREM WritesReachTheArmband == Spec => []WritesToAssigned
<1>1. LinkInv => WritesToAssigned
  BY DEF LinkInv, SessionInv, Session, Connected, WritesToAssigned
<1>. QED  BY <1>1, LinkInvariant, PTL

(* Whatever the dongle sends between them and however it is cut, the data   *)
(* the board is given was sent by the armband, whole, once and in its order.*)
THEOREM BoardKeepsOrder == Spec => []BoardInOrder
<1>1. LinkInv => BoardInOrder
  BY DEF LinkInv, OrderInv, Listed, BoardInOrder
<1>. QED  BY <1>1, LinkInvariant, PTL

(* A session that was closed by hand and not misled leaves no connection. *)
THEOREM ClosedIsDown == Spec => []ClosedMeansDown
<1>1. LinkInv => ClosedMeansDown
  BY DEF LinkInv, SessionInv, Session, ClosedMeansDown
<1>. QED  BY <1>1, LinkInvariant, PTL

LEMMA SameSize ==
  ASSUME NEW S, IsFiniteSet(S), NEW T, NEW f \in [S -> T],
         \A x, y \in S : f[x] = f[y] => x = y,
         \A z \in T : \E x \in S : f[x] = z
  PROVE  IsFiniteSet(T) /\ Cardinality(T) = Cardinality(S)
<1>1. f \in Bijection(S, T)
  <2>1. DOMAIN f = S
    OBVIOUS
  <2>2. f \in Injection(S, T)
    BY <2>1 DEF Injection, IsInjective
  <2>. QED  BY <2>2 DEF Bijection, Surjection
<1>2. ExistsBijection(S, T)
  BY <1>1 DEF ExistsBijection
<1>. QED  BY <1>2, FS_Bijection

(* The packets of a kind that end in what has arrived and in what has not. *)
LEMMA CountJoin ==
  ASSUME NEW u, NEW s, NEW p, IsJoin(u, s, p), NEW kind
  PROVE  /\ IsFiniteSet(Ends(u, kind))
         /\ Cardinality(Ends(s, kind)) \in Nat /\ Cardinality(Ends(p, kind)) \in Nat
         /\ Cardinality(Ends(u, kind)) = Cardinality(Ends(s, kind)) + Cardinality(Ends(p, kind))
<1>. DEFINE A == Ends(s, kind)
            B == Ends(p, kind)
            E == Ends(u, kind)
            k == Len(s)
            C == {i \in E : i > k}
<1>1. /\ u \in Seq(Cells) /\ s \in Seq(Cells) /\ p \in Seq(Cells)
      /\ Len(u) \in Nat /\ k \in Nat /\ Len(p) \in Nat
  BY DEF IsJoin
<1>2. /\ A \subseteq 1..k /\ B \subseteq 1..Len(p) /\ E \subseteq 1..Len(u)
  BY DEF Ends
<1>3. /\ \A i \in A : i \in E
      /\ \A j \in B : k + j \in E
      /\ \A i \in E : i \in A \/ (i > k /\ i - k \in B)
  BY EndsJoin
<1>. HIDE DEF A, B, E, k
<1>4. IsFiniteSet(A) /\ IsFiniteSet(B) /\ IsFiniteSet(E)
  <2>1. IsFiniteSet(1..k) /\ IsFiniteSet(1..Len(p)) /\ IsFiniteSet(1..Len(u))
    BY <1>1, FS_Interval
  <2>. QED  BY <1>2, <2>1, FS_Subset
<1>5. IsFiniteSet(C) /\ Cardinality(C) = Cardinality(B)
  <2>. DEFINE f == [j \in B |-> k + j]
  <2>1. \A j \in B : j \in Nat /\ j >= 1
    BY <1>2
  <2>2. \A j \in B : k + j \in C
    BY <1>1, <1>3, <2>1
  <2>3. f \in [B -> C]
    BY <2>2
  <2>4. \A x, y \in B : f[x] = f[y] => x = y
    BY <1>1, <2>1
  <2>5. ASSUME NEW z \in C PROVE \E x \in B : f[x] = z
    <3>1. z \in E /\ z > k /\ z \in Nat
      BY <1>2
    <3>2. z \notin A
      BY <1>1, <1>2, <3>1
    <3>3. z - k \in B
      BY <1>3, <3>1, <3>2
    <3>4. f[z - k] = k + (z - k)
      BY <3>3
    <3>5. k + (z - k) = z
      BY <1>1, <3>1
    <3>. QED  BY <3>3, <3>4, <3>5
  <2>. HIDE DEF f, C
  <2>. QED  BY <1>4, <2>3, <2>4, <2>5, SameSize
<1>6. E = A \cup C
  BY <1>1, <1>2, <1>3
<1>7. A \cap C = {}
  <2>1. \A i \in A : ~(i > k)
    BY <1>1, <1>2
  <2>. QED  BY <2>1
<1>. HIDE DEF C
<1>8. Cardinality(E) = Cardinality(A) + Cardinality(C) - Cardinality(A \cap C)
  BY <1>4, <1>5, <1>6, FS_Union
<1>9. Cardinality(A \cap C) = 0
  BY <1>7, FS_EmptySet
<1>10. Cardinality(A) \in Nat /\ Cardinality(B) \in Nat
  BY <1>4, FS_CardinalityType
<1>. QED  BY <1>4, <1>5, <1>8, <1>9, <1>10 DEF A, B, E

(* The motion data still on their way are those the board misses. *)
LEMMA WaitingCount ==
  ASSUME NEW s \in Seq(Cells), NEW m \in Nat, NEW bd \in Seq(Seq(0..255)),
         Sorted(s, m), Ahead(bd, s), Served(s, bd, m), IsFiniteSet(Ends(s, "imu"))
  PROVE  Cardinality(Ends(s, "imu")) = m - Len(bd)
<1>. DEFINE E == Ends(s, "imu")
            l == Len(bd)
            D == (l + 1)..m
            f == [i \in E |-> s[i].b]
<1>1. l \in Nat /\ l <= m /\ bd = [i \in 1..l |-> ImuData(i)]
  BY DEF Served
<1>2. ASSUME NEW i \in E PROVE s[i].b \in D
  <2>1. s[i].b \in 1..m
    BY DEF Sorted
  <2>2. CASE l = 0
    BY <2>1, <2>2
  <2>3. CASE l # 0
    <3>1. l \in 1..l /\ l \in DOMAIN bd
      BY <1>1, <2>3
    <3>2. bd[l] = ImuData(l)
      BY <1>1, <3>1
    <3>3. bd[l][1] < s[i].b
      BY <3>1 DEF Ahead
    <3>. QED  BY <1>1, <2>1, <3>2, <3>3, ImuFirst
  <2>. QED  BY <2>2, <2>3
<1>3. f \in [E -> D]
  BY <1>2
<1>4. ASSUME NEW x \in E, NEW y \in E, f[x] = f[y] PROVE x = y
  <2>1. s[x].b = s[y].b /\ s[x].b \in Int
    <3>1. s[x].b \in 1..m
      BY DEF Sorted
    <3>. QED  BY <1>4, <3>1
  <2>2. x \in Nat /\ y \in Nat
    BY EndIn
  <2>3. ~(x < y) /\ ~(y < x)
    BY <2>1 DEF Sorted
  <2>. QED  BY <2>2, <2>3
<1>5. \A z \in D : \E x \in E : f[x] = z
  BY DEF Served
<1>6. IsFiniteSet(D) /\ Cardinality(D) = m - l
  <2>1. l + 1 \in Int /\ m \in Int
    BY <1>1
  <2>2. IsFiniteSet(D) /\ Cardinality(D) = IF l + 1 > m THEN 0 ELSE m - (l + 1) + 1
    BY <2>1, FS_Interval
  <2>. HIDE DEF D, l
  <2>3. (IF l + 1 > m THEN 0 ELSE m - (l + 1) + 1) = m - l
    BY <1>1
  <2>. QED  BY <2>2, <2>3
<1>. HIDE DEF D, f, l
<1>7. Cardinality(D) = Cardinality(E)
  BY <1>3, <1>4, <1>5, SameSize
<1>. QED  BY <1>6, <1>7 DEF l

(* While the stream lasts, nothing but a call that ended in a packet, another *)
(* packet taken in, or an event in front of a value costs the board data: it  *)
(* has the first of them all, and those it misses are in the input or on      *)
(* their way.                                                                 *)
THEOREM BoardMissesNothing == Spec => []BoardComplete
<1>1. LinkInv => BoardComplete
  <2>. DEFINE waiting == Cardinality({i \in 1..Len(rx) : rx[i].kind = "imu" /\ rx[i].last})
                         + Cardinality({i \in 1..Len(line) : line[i].kind = "imu" /\ line[i].last})
  <2>. SUFFICES ASSUME LinkInv, ~torn, ~mixed, ~behind, pc \notin {"closing", "closed", "exited"}
                PROVE  board = [i \in 1..(imu - waiting) |-> ImuData(i)]
    BY DEF BoardComplete
  <2>1. Served(Transit, board, imu) /\ Sorted(Transit, imu) /\ Ahead(board, Transit)
    BY DEF LinkInv, CompleteInv, OrderInv
  <2>2. /\ rx \in Seq(Cells) /\ line \in Seq(Cells) /\ Transit \in Seq(Cells)
        /\ imu \in Nat /\ board \in Seq(Seq(0..255)) /\ Len(board) \in Nat
    BY Typed DEF LinkInv
  <2>3. waiting = Cardinality(Ends(rx, "imu")) + Cardinality(Ends(line, "imu"))
    BY DEF Ends, Final
  <2>. HIDE DEF waiting
  <2>4. IsJoin(Transit, rx, line)
    BY <2>2, JoinOf DEF Transit
  <2>5. IsFiniteSet(Ends(Transit, "imu")) /\ waiting = Cardinality(Ends(Transit, "imu"))
    BY <2>3, <2>4, CountJoin
  <2>6. waiting = imu - Len(board)
    BY <2>1, <2>2, <2>5, WaitingCount
  <2>7. imu - waiting = Len(board)
    BY <2>2, <2>6
  <2>8. board = [i \in 1..Len(board) |-> ImuData(i)]
    BY <2>1 DEF Served
  <2>. QED  BY <2>7, <2>8
<1>. QED  BY <1>1, LinkInvariant, PTL

-----------------------------------------------------------------------------
(* The session in the large.                                               *)

LEMMA SessionInit == Init => Arm!Init
<1>. SUFFICES ASSUME Init PROVE Arm!Init
  OBVIOUS
<1>1. Phase = "asking"
  BY DEF Init, Phase
<1>. QED  BY <1>1 DEF Init, Arm!Init

(* What is in the input or on its way is no promise of the session. *)
LEMMA SessionReads ==
  ASSUME Arm!Losses, UNCHANGED <<Phase, step, link, done, imu, board>>
  PROVE  Arm!Next
BY DEF Arm!Next, Arm!Read

(* No step gets back what was lost. *)
LEMMA LossesStay == TypesInv /\ TypesInv' /\ [Next]_vars => Arm!Losses
<1>. SUFFICES ASSUME TypesInv, TypesInv', [Next]_vars PROVE Arm!Losses
  OBVIOUS
<1>1. /\ torn \in BOOLEAN /\ mixed \in BOOLEAN /\ behind \in BOOLEAN
      /\ torn' \in BOOLEAN /\ mixed' \in BOOLEAN /\ behind' \in BOOLEAN
  BY DEF TypesInv, TypeOK
<1>2. (torn => torn') /\ (mixed => mixed') /\ (behind => behind')
  <2>1. CASE Flush
    BY <2>1 DEF Flush
  <2>2. CASE AskConnection
    BY <2>2 DEF AskConnection, history
  <2>3. CASE NoAnswer
    BY <2>3 DEF NoAnswer, TakeAnswer
  <2>4. CASE ReadConnect
    BY <2>4 DEF ReadConnect, TakeAnswer
  <2>5. CASE ReadStatus
    BY <2>5 DEF ReadStatus
  <2>6. CASE Write
    BY <2>6 DEF Write, history
  <2>7. CASE ReadWritten
    BY <2>7 DEF ReadWritten, TakeAnswer
  <2>8. CASE ReadValue
    BY <2>8 DEF ReadValue
  <2>9. CASE ReadDisconnect
    BY <2>9 DEF ReadDisconnect, history
  <2>10. CASE Interrupt
    <3>1. torn' = torn \/ torn' = (torn \/ Cut(Len(rx)))
      BY <2>10 DEF Interrupt
    <3>2. mixed' = mixed /\ behind' = behind
      BY <2>10 DEF Interrupt
    <3>3. torn => torn'
      <4>1. CASE torn' = torn
        BY <1>1, <4>1
      <4>2. CASE torn' = (torn \/ Cut(Len(rx)))
        BY <1>1, <4>2
      <4>. QED  BY <3>1, <4>1, <4>2
    <3>. QED  BY <1>1, <3>2, <3>3
  <2>11. CASE Device
    BY <2>11 DEF Device, LinkUp, UpdateLink, LoseLink, SendImu, SendPose, SendEvent, history
  <2>12. CASE Arrive
    BY <2>12 DEF Arrive, history
  <2>13. CASE UNCHANGED vars
    BY <2>13 DEF vars
  <2>14. CASE SendLate
    BY <2>14 DEF SendLate, SendEvent, history
  <2>. QED
    BY <2>1, <2>2, <2>3, <2>4, <2>5, <2>6, <2>7, <2>8, <2>9, <2>10, <2>11, <2>12, <2>13, <2>14
    DEF Next, Script
<1>. QED  BY <1>1, <1>2 DEF Arm!Losses

(* A value that was not torn is no reason to end the stream. *)
LEMMA StreamGoesOn ==
  ASSUME LinkInv, ReadValue, ~torn'
  PROVE  pc' = "stream"
<1>. DEFINE call == ValueCall(rx)
            k == call.taken
            payload == Payload(call.reader)
            cmd == call.reader.buf[4]
            data == SubSeq(payload, 6, Len(payload))
            found == call.found
<1>1. /\ pc = "stream" /\ rx # <<>> /\ rx' = Dropped(k) /\ torn' = (torn \/ Cut(k))
      /\ assigned' = assigned /\ imu' = imu /\ line' = line
  BY DEF ReadValue, wires, dongle
<1>2. /\ ~found => pc' = pc
      /\ found /\ ~(Len(payload) < 5) /\ ~IsMotion(payload) => pc' = pc
      /\ found /\ ~(Len(payload) < 5) /\ Len(data) = ImuLen => pc' = pc
  BY DEF ReadValue
<1>3. rx \in Seq(Cells) /\ Len(rx) \in Nat /\ Len(rx) > 0
  BY <1>1, Typed, FirstCell DEF LinkInv
<1>4. k \in 0..Len(rx) /\ k # 0
  <2>1. k \in 1..Len(rx)
    BY <1>3, ValueTaken
  <2>. HIDE DEF k
  <2>. QED  BY <1>3, <2>1
<1>. HIDE DEF call, k, payload, cmd, data, found
<1>5. ~torn /\ Framed(Transit, assigned) /\ Final(rx[k])
  BY <1>1, <1>4, Drops DEF LinkInv
<1>6. \/ rx[1].kind \in {"imu", "pose"} /\ ValueRead(k, payload, found, cmd)
      \/ rx[1].kind \notin {"imu", "pose"} /\ ~found
  BY <1>1, <1>5, ValueFront DEF LinkInv, call, k, payload, cmd, found
<1>7. CASE rx[1].kind \notin {"imu", "pose"}
  BY <1>1, <1>2, <1>6, <1>7
<1>8. CASE rx[1].kind = "pose"
  <2>1. ValueRead(k, payload, found, cmd)
    BY <1>6, <1>8
  <2>. QED  BY <1>1, <1>2, <1>8, <2>1, PoseTold DEF LinkInv, ValueRead
<1>9. CASE rx[1].kind = "imu"
  <2>1. ValueRead(k, payload, found, cmd)
    BY <1>6, <1>9
  <2>2. found /\ ~(Len(payload) < 5) /\ Len(data) = ImuLen
    BY <1>1, <1>9, <2>1, ImuTold DEF LinkInv, ValueRead, data
  <2>. QED  BY <1>1, <1>2, <2>2
<1>. QED  BY <1>7, <1>8, <1>9

(* What is passed on from an input that was not torn is newer than all      *)
(* that was, and the next if nothing else was lost.                        *)
LEMMA PassedOn ==
  ASSUME LinkInv, LinkInv', ReadValue, board' # board
  PROVE  Arm!Pass
<1>. DEFINE l == Len(board)
            data == board'[Len(board')]
<1>1. pc = "stream" /\ pc' \in {"stream", "exited"}
      /\ step' = step /\ link' = link /\ done' = done /\ imu' = imu
  BY DEF ReadValue, wires, dongle
<1>2. \E d : board' = Append(board, d)
  BY DEF ReadValue
<1>3. /\ board \in Seq(Seq(0..255)) /\ board' \in Seq(Seq(0..255)) /\ l \in Nat
      /\ imu \in Nat
  BY Typed DEF LinkInv, TypesInv, TypeOK
<1>4. Len(board') = l + 1 /\ board' = Append(board, data)
      /\ data = board'[l + 1] /\ \A i \in 1..l : board'[i] = board[i]
  <2>1. PICK d : board' = Append(board, d)
    BY <1>2
  <2>2. Len(board') = l + 1 /\ board'[l + 1] = d /\ \A i \in 1..l : board'[i] = board[i]
    BY <1>3, <2>1
  <2>. QED  BY <2>1, <2>2
<1>. HIDE DEF l, data
<1>5. DOMAIN board = 1..l /\ DOMAIN board' = 1..(l + 1)
      /\ l + 1 \in 1..(l + 1) /\ \A i \in 1..l : i \in 1..(l + 1) /\ i < l + 1
  BY <1>3, <1>4 DEF l
<1>6. ASSUME ~torn' PROVE Arm!IsNewer(data)
  <2>1. Listed(board', imu)
    BY <1>1, <1>6 DEF LinkInv, OrderInv
  <2>2. PICK n \in 1..imu : data = ImuData(n)
    BY <1>4, <1>5, <2>1 DEF Listed
  <2>3. ASSUME NEW m \in n..imu, NEW i \in 1..l, board[i] = ImuData(m)
        PROVE  FALSE
    <3>1. board'[i][1] < board'[l + 1][1]
      BY <1>5, <2>1 DEF Listed
    <3>2. board'[i] = ImuData(m) /\ board'[l + 1] = ImuData(n)
      BY <1>4, <2>2, <2>3
    <3>3. ImuData(m)[1] = m /\ ImuData(n)[1] = n
      BY ImuFirst
    <3>4. m < n
      BY <3>1, <3>2, <3>3
    <3>. QED  BY <1>3, <3>4
  <2>. QED  BY <1>5, <2>2, <2>3 DEF Arm!IsNewer
<1>7. ASSUME ~torn' PROVE pc' = "stream"
  BY <1>7, StreamGoesOn
<1>8. ASSUME ~torn', ~mixed', ~behind' PROVE data = ImuData(l + 1)
  <2>1. Served(Transit', board', imu')
    BY <1>7, <1>8 DEF LinkInv, CompleteInv
  <2>2. board' = [i \in 1..(l + 1) |-> ImuData(i)]
    BY <1>4, <2>1 DEF Served
  <2>. QED  BY <1>4, <1>5, <2>2
<1>9. Phase = "stream" /\ (pc' = "stream" => Phase' = "stream")
      /\ (pc' = "exited" => Phase' = "over")
  BY <1>1 DEF Phase
<1>10. torn' \/ Arm!IsNewer(data)
  BY <1>6
<1>11. Arm!Whole' => data = ImuData(Len(board'))
  BY <1>4, <1>8 DEF Arm!Whole, Arm!Sound
<1>12. Phase' = Phase \/ (Phase' = "over" /\ torn')
  BY <1>1, <1>7, <1>9
<1>. QED  BY <1>1, <1>4, <1>9, <1>10, <1>11, <1>12 DEF Arm!Pass, data, l

LEMMA Phases ==
  /\ pc \in {"flush", "ask", "asked", "status"} => Phase = "asking"
  /\ pc = "write" => Phase = "giving"
  /\ pc = "written" => Phase = "given"
  /\ pc = "stream" => Phase = "stream"
  /\ pc \in {"closing", "closed", "exited"} => Phase = "over"
  /\ pc' \in {"flush", "ask", "asked", "status"} => Phase' = "asking"
  /\ pc' = "write" => Phase' = "giving"
  /\ pc' = "written" => Phase' = "given"
  /\ pc' = "stream" => Phase' = "stream"
  /\ pc' \in {"closing", "closed", "exited"} => Phase' = "over"
BY DEF Phase

(* Each step of the script is one of the session, or reads. *)
LEMMA FlushRefines == Arm!Losses /\ Flush => Arm!Next
<1>. SUFFICES ASSUME Arm!Losses, Flush PROVE Arm!Next
  OBVIOUS
<1>1. /\ pc = "flush" /\ pc' = "ask" /\ step' = step /\ link' = link /\ done' = done
      /\ imu' = imu /\ board' = board
  BY DEF Flush, dongle
<1>2. Phase' = Phase
  BY <1>1, Phases
<1>. QED  BY <1>1, <1>2, SessionReads

LEMMA AskRefines == LinkInv /\ Arm!Losses /\ AskConnection => Arm!Next
<1>. SUFFICES ASSUME LinkInv, Arm!Losses, AskConnection PROVE Arm!Next
  OBVIOUS
<1>1. /\ pc = "ask" /\ pc' = "asked" /\ step' = step /\ done' = done
      /\ imu' = imu /\ board' = board
      /\ link' = link \/ link' = "opening"
  BY DEF AskConnection
<1>2. Phase' = Phase /\ Phase = "asking"
  BY <1>1, Phases
<1>3. CASE link' = link
  BY <1>1, <1>2, <1>3, SessionReads
<1>4. CASE link' = "opening"
  <2>1. Arm!Sound => link = "none"
    BY <1>1 DEF Arm!Sound, LinkInv, SessionInv, Session, Asking
  <2>2. Arm!Grant
    BY <1>1, <1>2, <1>4, <2>1 DEF Arm!Grant
  <2>. QED  BY <2>2 DEF Arm!Next
<1>. QED  BY <1>1, <1>3, <1>4

LEMMA NoAnswerRefines == Arm!Losses /\ NoAnswer => Arm!Next
<1>. SUFFICES ASSUME Arm!Losses, NoAnswer PROVE Arm!Next
  OBVIOUS
<1>1. /\ pc' = pc /\ step' = step /\ link' = link /\ done' = done
      /\ imu' = imu /\ board' = board
  BY DEF NoAnswer, dongle
<1>2. Phase' = Phase
  BY <1>1 DEF Phase
<1>. QED  BY <1>1, <1>2, SessionReads

LEMMA ReadConnectRefines == Arm!Losses /\ ReadConnect => Arm!Next
<1>. SUFFICES ASSUME Arm!Losses, ReadConnect PROVE Arm!Next
  OBVIOUS
<1>1. /\ pc = "asked" /\ step' = step /\ link' = link /\ done' = done
      /\ imu' = imu /\ board' = board
      /\ pc' \in {"status", "ask", "exited"}
  BY DEF ReadConnect, dongle
<1>2. CASE pc' \in {"status", "ask"}
  <2>1. Phase' = Phase
    BY <1>1, <1>2, Phases
  <2>. QED  BY <1>1, <2>1, SessionReads
<1>3. CASE pc' = "exited"
  <2>1. Phase = "asking" /\ Phase' = "over"
    BY <1>1, <1>3, Phases
  <2>2. Arm!GiveUp
    BY <1>1, <2>1 DEF Arm!GiveUp
  <2>. QED  BY <2>2 DEF Arm!Next
<1>. QED  BY <1>1, <1>2, <1>3

LEMMA ReadStatusRefines == LinkInv' /\ Arm!Losses /\ ReadStatus => Arm!Next
<1>. SUFFICES ASSUME LinkInv', Arm!Losses, ReadStatus PROVE Arm!Next
  OBVIOUS
<1>1. /\ pc = "status" /\ step' = step /\ link' = link /\ done' = done
      /\ imu' = imu /\ board' = board
      /\ pc' = pc \/ pc' = "exited" \/ pc' = "write"
  BY DEF ReadStatus, dongle
<1>2. Phase = "asking"
  BY <1>1, Phases
<1>3. CASE pc' = pc
  <2>1. Phase' = Phase
    BY <1>1, <1>3, Phases
  <2>. QED  BY <1>1, <2>1, SessionReads
<1>4. CASE pc' = "exited"
  <2>1. Phase' = "over"
    BY <1>4, Phases
  <2>2. Arm!GiveUp
    BY <1>1, <1>2, <2>1 DEF Arm!GiveUp
  <2>. QED  BY <2>2 DEF Arm!Next
<1>5. CASE pc' = "write"
  <2>1. Phase' = "giving"
    BY <1>5, Phases
  <2>2. Arm!Sound' => link \in {"up", "down"}
    BY <1>1, <1>5 DEF Arm!Sound, LinkInv, SessionInv, Session, Connected
  <2>3. Arm!Begin
    BY <1>1, <1>2, <2>1, <2>2 DEF Arm!Begin
  <2>. QED  BY <2>3 DEF Arm!Next
<1>. QED  BY <1>1, <1>3, <1>4, <1>5

LEMMA WriteRefines == LinkInv /\ Arm!Losses /\ Write => Arm!Next
<1>. SUFFICES ASSUME LinkInv, Arm!Losses, Write PROVE Arm!Next
  OBVIOUS
<1>1. /\ pc = "write" /\ pc' = "written" /\ step' = step /\ link' = link
      /\ imu' = imu /\ board' = board
      /\ link = "up" /\ connection = assigned => done' = done \cup {Steps[step]}
      /\ ~(link = "up" /\ connection = assigned) => done' = done
  BY DEF Write
<1>2. Phase = "giving" /\ Phase' = "given"
  BY <1>1, Phases
<1>3. Arm!Sound => connection = assigned
  BY <1>1 DEF Arm!Sound, LinkInv, SessionInv, Session, Connected
<1>4. \/ link = "up" /\ done' = done \cup {Steps[step]}
      \/ ~(Arm!Sound /\ link = "up") /\ done' = done
  BY <1>1, <1>3
<1>5. Arm!Give
  BY <1>1, <1>2, <1>4 DEF Arm!Give
<1>. QED  BY <1>5 DEF Arm!Next

LEMMA ReadWrittenRefines == Arm!Losses /\ ReadWritten => Arm!Next
<1>. SUFFICES ASSUME Arm!Losses, ReadWritten PROVE Arm!Next
  OBVIOUS
<1>1. /\ pc = "written" /\ link' = link /\ done' = done /\ imu' = imu /\ board' = board
      /\ step < Len(Steps) => pc' = "write" /\ step' = step + 1
      /\ ~(step < Len(Steps)) => pc' = "stream" /\ step' = step
  BY DEF ReadWritten, dongle
<1>2. Phase = "given"
  BY <1>1, Phases
<1>3. Arm!Go
  BY <1>1, <1>2, Phases DEF Arm!Go
<1>. QED  BY <1>3 DEF Arm!Next

LEMMA ReadValueRefines == LinkInv /\ LinkInv' /\ Arm!Losses /\ ReadValue => Arm!Next
<1>. SUFFICES ASSUME LinkInv, LinkInv', Arm!Losses, ReadValue PROVE Arm!Next
  OBVIOUS
<1>1. /\ pc = "stream" /\ step' = step /\ link' = link /\ done' = done /\ imu' = imu
      /\ pc' = pc \/ pc' = "exited"
  BY DEF ReadValue, dongle
<1>2. Phase = "stream"
  BY <1>1, Phases
<1>3. CASE board' # board
  BY <1>3, PassedOn DEF Arm!Next
<1>4. CASE board' = board /\ pc' = pc
  <2>1. Phase' = Phase
    BY <1>1, <1>4, Phases
  <2>. QED  BY <1>1, <1>4, <2>1, SessionReads
<1>5. CASE board' = board /\ pc' = "exited"
  <2>1. torn'
    BY <1>5, StreamGoesOn
  <2>2. Phase' = "over"
    BY <1>5, Phases
  <2>3. Arm!GiveUp
    BY <1>1, <1>2, <1>5, <2>1, <2>2 DEF Arm!GiveUp
  <2>. QED  BY <2>3 DEF Arm!Next
<1>. QED  BY <1>1, <1>3, <1>4, <1>5

LEMMA ReadDisconnectRefines == Arm!Losses /\ ReadDisconnect => Arm!Next
<1>. SUFFICES ASSUME Arm!Losses, ReadDisconnect PROVE Arm!Next
  OBVIOUS
<1>1. /\ pc = "closing" /\ pc' = "closed" /\ step' = step /\ link' = link /\ done' = done
      /\ imu' = imu /\ board' = board
  BY DEF ReadDisconnect, dongle
<1>2. Phase' = Phase
  BY <1>1, Phases
<1>. QED  BY <1>1, <1>2, SessionReads

LEMMA InterruptRefines == LinkInv /\ Arm!Losses /\ Interrupt => Arm!Next
<1>. SUFFICES ASSUME LinkInv, Arm!Losses, Interrupt PROVE Arm!Next
  OBVIOUS
<1>1. step' = step /\ done' = done /\ imu' = imu /\ board' = board
  BY DEF Interrupt
<1>2. \/ pc \in {"asked", "status", "written"} /\ pc' = "exited" /\ link' = link
      \/ /\ pc = "stream" /\ pc' = "closing"
         /\ link' = IF link = "up" /\ connection = assigned THEN "down" ELSE link
  BY DEF Interrupt, Closing
<1>3. CASE pc \in {"asked", "status", "written"} /\ pc' = "exited" /\ link' = link
  <2>1. Phase \in {"asking", "given"} /\ Phase' = "over"
    BY <1>3, Phases
  <2>2. Arm!GiveUp
    BY <1>1, <1>3, <2>1 DEF Arm!GiveUp
  <2>. QED  BY <2>2 DEF Arm!Next
<1>4. CASE /\ pc = "stream" /\ pc' = "closing"
           /\ link' = IF link = "up" /\ connection = assigned THEN "down" ELSE link
  <2>1. Phase = "stream" /\ Phase' = "over"
    BY <1>4, Phases
  <2>2. Arm!Sound => connection = assigned
    BY <1>4 DEF Arm!Sound, LinkInv, SessionInv, Session, Connected
  <2>3. Arm!Sound' => Arm!Sound
    BY DEF Arm!Sound, Arm!Losses
  <2>4. \/ link' = link /\ (Arm!Sound' => link # "up")
        \/ link = "up" /\ link' = "down"
    BY <1>4, <2>2, <2>3
  <2>5. Arm!Close
    BY <1>1, <2>1, <2>4 DEF Arm!Close
  <2>. QED  BY <2>5 DEF Arm!Next
<1>. QED  BY <1>2, <1>3, <1>4

(* So is each step of the dongle and the armband. *)
LEMMA DeviceRefines == Arm!Losses /\ Device => Arm!Next
<1>. SUFFICES ASSUME Arm!Losses, Device PROVE Arm!Next
  OBVIOUS
<1>1. pc' = pc /\ step' = step /\ done' = done /\ board' = board
  BY DEF Device, LinkUp, UpdateLink, LoseLink, SendImu, SendPose, SendEvent, script
<1>2. Phase' = Phase
  BY <1>1 DEF Phase
<1>3. CASE LinkUp
  <2>1. Arm!LinkUp
    BY <1>1, <1>2, <1>3 DEF LinkUp, Arm!LinkUp
  <2>. QED  BY <2>1 DEF Arm!Next
<1>4. CASE LoseLink
  <2>1. Arm!LoseLink
    BY <1>1, <1>2, <1>4 DEF LoseLink, Arm!LoseLink
  <2>. QED  BY <2>1 DEF Arm!Next
<1>5. CASE SendImu
  <2>1. Arm!Produce
    BY <1>1, <1>2, <1>5 DEF SendImu, Arm!Produce
  <2>. QED  BY <2>1 DEF Arm!Next
<1>6. CASE UpdateLink
  <2>1. link' = link /\ imu' = imu
    BY <1>6 DEF UpdateLink
  <2>. QED  BY <1>1, <1>2, <2>1, SessionReads
<1>7. CASE SendPose
  <2>1. link' = link /\ imu' = imu
    BY <1>7 DEF SendPose
  <2>. QED  BY <1>1, <1>2, <2>1, SessionReads
<1>. QED  BY <1>3, <1>4, <1>5, <1>6, <1>7 DEF Device

LEMMA LateRefines == Arm!Losses /\ SendLate => Arm!Next
<1>. SUFFICES ASSUME Arm!Losses, SendLate PROVE Arm!Next
  OBVIOUS
<1>1. /\ pc' = pc /\ step' = step /\ link' = link /\ done' = done
      /\ imu' = imu /\ board' = board
  BY DEF SendLate, SendEvent, script
<1>2. Phase' = Phase
  BY <1>1 DEF Phase
<1>. QED  BY <1>1, <1>2, SessionReads

LEMMA ArriveRefines == Arm!Losses /\ Arrive => Arm!Next
<1>. SUFFICES ASSUME Arm!Losses, Arrive PROVE Arm!Next
  OBVIOUS
<1>1. /\ pc' = pc /\ step' = step /\ link' = link /\ done' = done
      /\ imu' = imu /\ board' = board
  BY DEF Arrive, script, dongle
<1>2. Phase' = Phase
  BY <1>1 DEF Phase
<1>. QED  BY <1>1, <1>2, SessionReads

(* In every session, for every length of the events and every division of   *)
(* what arrives: the script, the dongle and the wire together take the      *)
(* steps of a session that knows of no packets.  The connection is granted, *)
(* the commands are given one by one, and data are passed on in order,      *)
(* until the script closes the connection; what was lost takes from it no   *)
(* more than the abstract session says.                                     *)
THEOREM LinkImplementsSession == Spec => ImplementsSession
<1>1. LinkInv /\ LinkInv' /\ [Next]_vars => [Arm!Next]_(Arm!vars)
  <2>. SUFFICES ASSUME LinkInv, LinkInv', [Next]_vars PROVE [Arm!Next]_(Arm!vars)
    OBVIOUS
  <2>1. Arm!Losses
    BY LossesStay DEF LinkInv
  <2>2. CASE UNCHANGED vars
    <3>1. Phase' = Phase
      BY <2>2 DEF vars, Phase
    <3>. QED  BY <2>2, <3>1 DEF vars, Arm!vars
  <2>3. CASE Next
    BY <2>1, <2>3, FlushRefines, AskRefines, NoAnswerRefines, ReadConnectRefines,
       ReadStatusRefines, WriteRefines, ReadWrittenRefines, ReadValueRefines,
       ReadDisconnectRefines, InterruptRefines, DeviceRefines, LateRefines, ArriveRefines
    DEF Next, Script
  <2>. QED  BY <2>2, <2>3
<1>. QED  BY <1>1, LinkInvariant, SessionInit, PTL DEF Spec, ImplementsSession, Arm!Spec

(* What a session keeps that has begun with its first command. *)
Begun ==
  /\ step \in Nat \ {0}
  /\ Phase = "asking" => step = 1
  /\ Arm!Sound /\ Phase \in {"giving", "given", "stream"} => link \in {"up", "down"}
  /\ Arm!Configured

LEMMA BegunKept == Begun /\ [Arm!Next]_(Arm!vars) => Begun'
<1>. SUFFICES ASSUME Begun, [Arm!Next]_(Arm!vars) PROVE Begun'
  OBVIOUS
<1>1. DOMAIN Steps = 1..3 /\ Len(Steps) = 3
  BY DEF Steps
<1>2. CASE UNCHANGED Arm!vars
  BY <1>2 DEF Begun, Arm!vars, Arm!Configured, Arm!Past, Arm!Sound
<1>3. CASE Arm!Next
  <2>1. Arm!Sound' => Arm!Sound
    BY <1>3 DEF Arm!Next, Arm!Losses, Arm!Sound
  <2>2. CASE Arm!Grant
    BY <2>1, <2>2 DEF Arm!Grant, Begun, Arm!Configured, Arm!Past
  <2>3. CASE Arm!LinkUp
    BY <2>1, <2>3 DEF Arm!LinkUp, Begun, Arm!Configured, Arm!Past
  <2>4. CASE Arm!LoseLink
    BY <2>1, <2>4 DEF Arm!LoseLink, Begun, Arm!Configured, Arm!Past
  <2>5. CASE Arm!Begin
    BY <1>1, <2>1, <2>5 DEF Arm!Begin, Begun, Arm!Configured, Arm!Past
  <2>6. CASE Arm!Give
    <3>1. /\ Phase = "giving" /\ Phase' = "given" /\ step' = step /\ link' = link
          /\ Arm!Sound /\ link = "up" => done' = done \cup {Steps[step]}
      BY <2>6 DEF Arm!Give
    <3>2. ASSUME Arm!Sound', link' = "up", NEW n \in DOMAIN Steps, Arm!Past(n)'
          PROVE  Steps[n] \in done'
      <4>1. n < step \/ n = step
        BY <3>1, <3>2 DEF Arm!Past
      <4>2. n < step => Steps[n] \in done
        BY <2>1, <3>1, <3>2 DEF Begun, Arm!Configured, Arm!Past
      <4>. QED  BY <2>1, <3>1, <3>2, <4>1, <4>2
    <3>3. Arm!Configured'
      BY <3>2 DEF Arm!Configured
    <3>. QED  BY <2>1, <3>1, <3>3 DEF Begun
  <2>7. CASE Arm!Go
    <3>1. /\ Phase = "given" /\ link' = link /\ done' = done
          /\ step < 3 => Phase' = "giving" /\ step' = step + 1
          /\ ~(step < 3) => Phase' = "stream" /\ step' = step
      BY <1>1, <2>7 DEF Arm!Go
    <3>2. ASSUME Arm!Sound', link' = "up", NEW n \in DOMAIN Steps, Arm!Past(n)'
          PROVE  Steps[n] \in done'
      <4>1. step \in Nat /\ n \in 1..3
        BY <1>1 DEF Begun
      <4>2. n < step \/ n = step
        BY <3>1, <3>2, <4>1 DEF Arm!Past
      <4>. QED  BY <2>1, <3>1, <3>2, <4>2 DEF Begun, Arm!Configured, Arm!Past
    <3>3. Arm!Configured'
      BY <3>2 DEF Arm!Configured
    <3>. QED  BY <2>1, <3>1, <3>3 DEF Begun
  <2>8. CASE Arm!Produce
    BY <2>1, <2>8 DEF Arm!Produce, Begun, Arm!Configured, Arm!Past
  <2>9. CASE Arm!Pass
    BY <2>1, <2>9 DEF Arm!Pass, Begun, Arm!Configured, Arm!Past
  <2>10. CASE Arm!Close
    BY <2>1, <2>10 DEF Arm!Close, Begun, Arm!Configured, Arm!Past
  <2>11. CASE Arm!GiveUp
    BY <2>1, <2>11 DEF Arm!GiveUp, Begun, Arm!Configured, Arm!Past
  <2>12. CASE Arm!Read
    BY <2>1, <2>12 DEF Arm!Read, Begun, Arm!Configured, Arm!Past
  <2>. QED
    BY <1>3, <2>2, <2>3, <2>4, <2>5, <2>6, <2>7, <2>8, <2>9, <2>10, <2>11, <2>12 DEF Arm!Next
<1>. QED  BY <1>2, <1>3

(* In every session, for every length of the events and every division of   *)
(* what arrives: although the script goes on whatever its commands are      *)
(* answered, and the link can be lost between two of them, an armband whose *)
(* link is up has each command that the script has gone past, and all three *)
(* in the stream, unless packets were torn or taken for one another.  It    *)
(* holds of every abstract session, hence of the one the script implements. *)
THEOREM ArmbandIsConfigured == Spec => []SessionConfigured
<1>1. Init => Begun
  BY SessionInit DEF Begun, Arm!Init, Arm!Configured
<1>2. Begun => SessionConfigured
  BY DEF Begun, SessionConfigured
<1>. QED
  BY <1>1, <1>2, BegunKept, LinkImplementsSession, PTL DEF Spec, ImplementsSession, Arm!Spec
=============================================================================
