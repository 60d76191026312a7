--------------------------- MODULE BledScanProofs ---------------------------
(* Theorems about the first part of the session, for every number of runs  *)
(* and of reports.                                                         *)
EXTENDS BledScan, SequenceTheorems, FiniteSetTheorems, WellFoundedInduction, TLAPS

(* ScanStopped is inductive once the dongle is known to scan or not: the   *)
(* one exchange that makes it scan comes before the states it speaks of.   *)
IInv ==
  /\ scanning \in BOOLEAN
  /\ ScanStopped

(* The command leaves the dongle not scanning, whatever it did before. *)
LEMMA EndScanStops ==
  ASSUME NEW input, NEW code, EndScan(input, code)
  PROVE  scanning' = FALSE
BY DEF EndScan, Obeys, EndProcedure, Exchanges

LEMMA ScanInvInit == Init => IInv
BY DEF Init, IInv, ScanStopped

LEMMA ScanInvNext == IInv /\ [Next]_vars => IInv'
<1>. SUFFICES ASSUME IInv, [Next]_vars PROVE IInv'
  OBVIOUS
<1>. USE DEF IInv, ScanStopped
<1>1. CASE FlushInput
  BY <1>1 DEF FlushInput, dongle
<1>2. CASE Command
  <2>1. pc' = "answer"
    BY <1>2 DEF Command
  <2>2. scanning' \in BOOLEAN
    BY <1>2 DEF Command, Obeys
  <2>. QED  BY <2>1, <2>2
<1>3. CASE ReadAnswer
  <2>1. pc' \in {"failed", "command", "scan"} /\ scanning' = scanning
    BY <1>3 DEF ReadAnswer, dongle
  <2>. QED  BY <2>1
<1>4. CASE Scan
  <2>1. scanning' = scanning
    BY <1>4 DEF Scan, dongle
  <2>2. pc' \in {"found", "scan"} \/ (pc' = "ended" /\ raised' = TRUE)
    BY <1>4 DEF Scan
  <2>. QED  BY <2>1, <2>2
<1>5. CASE Decide
  <2>1. scanning' = FALSE
    BY <1>5, EndScanStops DEF Decide, Refuse
  <2>. QED  BY <2>1
<1>6. CASE ReadEnd
  <2>1. PICK n \in 0..Len(rx) :
          IF Passes(EndProcedure, Bytes(n))
          THEN pc' = "connect" /\ rx' = Taken(n) /\ UNCHANGED dongle
          ELSE pc' = "failed" /\ EndScan(Dropped(n), EndCode)
    BY <1>6 DEF ReadEnd
  <2>2. CASE pc' = "connect" /\ UNCHANGED dongle
    BY <1>6, <2>2 DEF ReadEnd, dongle
  <2>3. CASE pc' = "failed" /\ EndScan(Dropped(n), EndCode)
    BY <2>3, EndScanStops
  <2>. QED  BY <2>1, <2>2, <2>3
<1>7. CASE Interrupt
  <2>1. CASE pc' = "ended" /\ raised' = TRUE /\ UNCHANGED dongle
    BY <2>1 DEF dongle
  <2>2. CASE pc' = "found" /\ EndScan(rx, EndCode)
    BY <2>2, EndScanStops
  <2>3. CASE pc' = "ended" /\ EndScan(rx, EndCode)
    BY <2>3, EndScanStops
  <2>. QED  BY <1>7, <2>1, <2>2, <2>3 DEF Interrupt
<1>8. CASE Restart
  BY <1>8 DEF Restart
<1>9. CASE SendReport
  <2>1. scanning /\ pc' = pc /\ scanning' = scanning /\ raised' = raised
    BY <1>9 DEF SendReport, history
  <2>. QED  BY <2>1
<1>10. CASE SendDisconnected
  BY <1>10 DEF SendDisconnected, history
<1>11. CASE UNCHANGED vars
  BY <1>11 DEF vars
<1>. QED
  BY <1>1, <1>2, <1>3, <1>4, <1>5, <1>6, <1>7, <1>8, <1>9, <1>10, <1>11 DEF Next

(* On the ways out of the scan but an exception of the reader of reports   *)
(* the dongle has been told to stop: when the armband is found, another    *)
(* device, or Ctrl-C, whatever was in the input (MyoConnectionTest.py from *)
(* the scan loop to the second flush).                                     *)
THEOREM ScanIsStopped == Spec => []ScanStopped
<1>1. IInv => ScanStopped
  BY DEF IInv
<1>. QED  BY <1>1, ScanInvInit, ScanInvNext, PTL DEF Spec

-----------------------------------------------------------------------------
(* Types.  What a call of the reader makes of the input is defined byte by *)
(* byte; that it keeps its type is shown by the first byte at which it does *)
(* not.                                                                    *)

(* A set of numbers that is climbed step by step holds all of them. *)
LEMMA Climb ==
  ASSUME NEW n \in Nat, NEW S, 0 \in S, \A k \in 1..n : k - 1 \in S => k \in S
  PROVE  0..n \subseteq S
<1>. SUFFICES ASSUME ~(0..n \subseteq S) PROVE FALSE
  OBVIOUS
<1>. DEFINE T == (0..n) \ S
<1>1. T \subseteq Nat /\ T # {}
  OBVIOUS
<1>2. PICK t \in T : \A u \in T : ~(<<u, t>> \in OpToRel(<, Nat))
  <2>. HIDE DEF T
  <2>. QED  BY <1>1, NatLessThanWellFounded, WFMin
<1>3. t \in 1..n /\ t \notin S /\ t - 1 \in 0..n
  OBVIOUS
<1>4. t - 1 \in S
  <2>1. t - 1 \in Nat /\ t \in Nat /\ t - 1 < t
    BY <1>3
  <2>2. <<t - 1, t>> \in OpToRel(<, Nat)
    BY <2>1 DEF OpToRel
  <2>. QED  BY <1>2, <1>3, <2>2
<1>. QED  BY <1>3, <1>4

Bytes255 == 0..255
Readers == [buf : Seq(Bytes255), expected : Nat]
Scans == [reader : Readers, find : BOOLEAN, raised : BOOLEAN,
          UUID : {"none", "myo", "other"}, sender : Bytes255]
StartScan == [reader |-> Fresh, find |-> FALSE, raised |-> FALSE,
              UUID |-> "none", sender |-> 0]

LEMMA ReportByteType ==
  ASSUME NEW r \in Readers, NEW b \in Bytes255
  PROVE  ReportByte(r, b) \in Readers
<1>1. Append(r.buf, b) \in Seq(Bytes255) /\ r.expected \in Nat /\ 4 + b \in Nat
  BY DEF Readers, Bytes255
<1>2. Collect(r, b) \in Readers
  BY <1>1 DEF Collect, Readers
<1>3. Collect(r, b) \in Readers /\ Sized(r, b) \in Readers
  BY <1>1, <1>2 DEF Sized, Readers
<1>. QED  BY <1>3 DEF ReportByte

(* Whatever the event, what is known of the device keeps its type. *)
LEMMA WithEventType ==
  ASSUME NEW scan \in Scans, NEW r \in Readers
  PROVE  WithEvent(scan, r) \in Scans
<1>. DEFINE payload == Payload(r)
            field == payload[ReportLen]
<1>1. payload \in Seq(Bytes255)
  <2>1. r.buf \in Seq(Bytes255) /\ Len(r.buf) \in Nat
    BY DEF Readers
  <2>2. \A i \in 5..Len(r.buf) : r.buf[i] \in Bytes255
    BY <2>1
  <2>. QED  BY <2>1, <2>2, SubSeqProperties DEF Payload
<1>2. [scan EXCEPT !.find = TRUE] \in Scans /\ [scan EXCEPT !.raised = TRUE] \in Scans
  BY DEF Scans
<1>3. ASSUME ~(Len(payload) < ReportLen)
      PROVE  payload[3] \in Bytes255
  BY <1>1, <1>3 DEF ReportLen
<1>4. ASSUME NEW s \in Bytes255
      PROVE  [scan EXCEPT !.find = TRUE, !.sender = s,
                          !.UUID = CASE field = MyoService -> "myo"
                                     [] field = OtherService -> "other"
                                     [] OTHER -> @] \in Scans
  <2>. DEFINE u == CASE field = MyoService -> "myo"
                     [] field = OtherService -> "other"
                     [] OTHER -> scan.UUID
  <2>1. u \in {"none", "myo", "other"}
    BY DEF Scans, MyoService, OtherService
  <2>. HIDE DEF u, field
  <2>2. [scan EXCEPT !.find = TRUE, !.sender = s, !.UUID = u] \in Scans
    BY <2>1 DEF Scans
  <2>. QED  BY <2>2 DEF u
<1>. HIDE DEF payload
<1>. QED  BY <1>2, <1>3, <1>4 DEF WithEvent, payload

LEMMA ScanByteType ==
  ASSUME NEW scan \in Scans, NEW b \in Bytes255
  PROVE  ScanByte(scan, b) \in Scans
<1>. DEFINE r == ReportByte(scan.reader, b)
<1>1. r \in Readers
  BY ReportByteType DEF Scans
<1>2. Fresh \in Readers
  BY DEF Fresh, Readers
<1>3. WithEvent(scan, r) \in Scans
  BY <1>1, WithEventType
<1>4. [WithEvent(scan, r) EXCEPT !.reader = Fresh] \in Scans
      /\ [scan EXCEPT !.reader = r] \in Scans
  <2>. HIDE DEF r
  <2>. QED  BY <1>1, <1>2, <1>3 DEF Scans
<1>. QED  BY <1>4 DEF ScanByte

LEMMA CellByte ==
  \A c \in Cells : c.b \in 0..255 /\ c.last \in BOOLEAN
<1>. DEFINE K == {x.name : x \in ToSet(Exchanges)} \cup {"report", "gone"}
<1>1. Cells = [b : 0..255, last : BOOLEAN, kind : K]
  BY DEF Cells
<1>. HIDE DEF K
<1>. QED  BY <1>1

(* A call of the reader is a computation from the start, byte by byte. *)
LEMMA ScanRun ==
  ASSUME NEW input \in Seq(Cells)
  PROVE  \E scan : /\ scan[0] = StartScan
                   /\ \A k \in 1..Len(input) : scan[k] = ScanByte(scan[k - 1], input[k].b)
                   /\ \A k \in 0..Len(input) : scan[k] \in Scans
                   /\ ScanOf(input) = scan[Len(input)]
<1>. DEFINE n == Len(input)
            Is(f, m) == f = [k \in 0..m |-> IF k = 0 THEN StartScan
                                           ELSE ScanByte(f[k - 1], input[k].b)]
<1>1. n \in Nat /\ \A k \in 1..n : input[k].b \in Bytes255
  BY CellByte DEF Bytes255
<1>2. \E f : Is(f, n)
  <2>. DEFINE S == {m \in 0..n : \E f : Is(f, m)}
  <2>1. 0 \in S
    <3>1. Is([k \in 0..0 |-> StartScan], 0)
      OBVIOUS
    <3>2. \E f : Is(f, 0)
      BY <3>1
    <3>3. 0 \in 0..n
      BY <1>1
    <3>. QED  BY <3>2, <3>3
  <2>2. ASSUME NEW m \in 1..n, m - 1 \in S PROVE m \in S
    <3>1. PICK g : Is(g, m - 1)
      BY <2>2
    <3>. DEFINE f == [k \in 0..m |-> IF k = m THEN ScanByte(g[m - 1], input[m].b)
                                     ELSE g[k]]
    <3>2. ASSUME NEW k \in 0..m
          PROVE  f[k] = IF k = 0 THEN StartScan ELSE ScanByte(f[k - 1], input[k].b)
      <4>1. CASE k = m
        <5>1. m # 0 /\ m - 1 \in 0..m /\ m - 1 # m
          BY <1>1, <2>2
        <5>. QED  BY <4>1, <5>1
      <4>2. CASE k # m
        <5>1. k \in 0..(m - 1) /\ (k # 0 => k - 1 \in 0..m /\ k - 1 # m)
          BY <1>1, <2>2, <4>2
        <5>2. g[k] = IF k = 0 THEN StartScan ELSE ScanByte(g[k - 1], input[k].b)
          BY <3>1, <5>1
        <5>. QED  BY <4>2, <5>1, <5>2
      <4>. QED  BY <4>1, <4>2
    <3>3. f = [k \in 0..m |-> IF k = 0 THEN StartScan ELSE ScanByte(f[k - 1], input[k].b)]
      <4>1. f = [k \in 0..m |-> f[k]]
        OBVIOUS
      <4>. HIDE DEF f
      <4>. QED  BY <3>2, <4>1
    <3>. HIDE DEF f
    <3>4. Is(f, m)
      BY <3>3
    <3>. QED  BY <3>4
  <2>3. n \in S
    <3>1. n \in 0..n
      BY <1>1
    <3>. HIDE DEF S, n
    <3>2. 0..n \subseteq S
      BY <1>1, <2>1, <2>2, Climb
    <3>. QED  BY <3>1, <3>2
  <2>. QED  BY <2>3
<1>. DEFINE scan == CHOOSE f : Is(f, n)
<1>3. Is(scan, n)
  BY <1>2
<1>4. \A k \in 0..n : scan[k] \in Scans
  <2>. DEFINE S == {k \in 0..n : scan[k] \in Scans}
  <2>. HIDE DEF scan
  <2>1. 0 \in S
    <3>1. StartScan \in Scans
      BY DEF StartScan, Scans, Fresh, Readers, Bytes255
    <3>2. scan[0] = StartScan /\ 0 \in 0..n
      BY <1>1, <1>3
    <3>. QED  BY <3>1, <3>2
  <2>2. ASSUME NEW m \in 1..n, m - 1 \in S PROVE m \in S
    <3>1. m \in 0..n /\ m # 0
      BY <1>1
    <3>2. scan[m] = ScanByte(scan[m - 1], input[m].b)
      BY <1>3, <3>1
    <3>. QED  BY <1>1, <2>2, <3>1, <3>2, ScanByteType
  <2>3. 0..n \subseteq S
    <3>. HIDE DEF S, n
    <3>. QED  BY <1>1, <2>1, <2>2, Climb
  <2>. QED  BY <2>3
<1>5. ScanOf(input) = scan[n]
  BY DEF ScanOf, StartScan
<1>6. scan[0] = StartScan /\ \A k \in 1..n : scan[k] = ScanByte(scan[k - 1], input[k].b)
  <2>. HIDE DEF scan
  <2>1. 0 \in 0..n /\ \A k \in 1..n : k \in 0..n /\ k # 0
    BY <1>1
  <2>. QED  BY <1>3, <2>1
<1>. HIDE DEF scan
<1>. QED  BY <1>4, <1>5, <1>6

LEMMA ScanOfType ==
  ASSUME NEW input \in Seq(Cells)
  PROVE  ScanOf(input) \in Scans
<1>1. Len(input) \in Nat /\ Len(input) \in 0..Len(input)
  OBVIOUS
<1>2. PICK scan : (\A k \in 0..Len(input) : scan[k] \in Scans)
                  /\ ScanOf(input) = scan[Len(input)]
  BY ScanRun
<1>. QED  BY <1>1, <1>2

Names == {x.name : x \in ToSet(Exchanges)}

(* The six exchanges, of which no two have the same name. *)
LEMMA ExchangeFacts ==
  /\ Len(Exchanges) = 6 /\ DOMAIN Exchanges = 1..6
  /\ EndProcedure = Exchanges[3]
  /\ \A i \in 1..6 :
        /\ Exchanges[i].head \in Seq(Bytes255) /\ Len(Exchanges[i].head) = 2
        /\ Exchanges[i].front \in Seq(Bytes255) /\ Len(Exchanges[i].front) <= 10
        /\ Exchanges[i].name \in Names
<1>1. Len(Exchanges) = 6 /\ DOMAIN Exchanges = 1..6
  BY DEF Exchanges
<1>2. EndProcedure = Exchanges[3]
  BY DEF EndProcedure
<1>3. [i \in 1..10 |-> 1] \in Seq(Bytes255) /\ Len([i \in 1..10 |-> 1]) = 10
  BY DEF Bytes255
<1>4. <<>> \in Seq(Bytes255) /\ Len(<<>>) = 0
      /\ <<0>> \in Seq(Bytes255) /\ Len(<<0>>) = 1
  BY DEF Bytes255
<1>5. ASSUME NEW i \in 1..6
      PROVE  Exchanges[i].front \in Seq(Bytes255) /\ Len(Exchanges[i].front) <= 10
  <2>1. Exchanges[i].front = <<>> \/ Exchanges[i].front = <<0>>
        \/ Exchanges[i].front = [j \in 1..10 |-> 1]
    <3>1. i = 1 \/ i = 2 \/ i = 3 \/ i = 4 \/ i = 5 \/ i = 6
      OBVIOUS
    <3>2. Exchanges[1].front = <<0>>
      BY DEF Exchanges
    <3>3. Exchanges[2].front = <<>> /\ Exchanges[3].front = <<>>
          /\ Exchanges[5].front = <<>> /\ Exchanges[6].front = <<>>
      BY DEF Exchanges
    <3>4. Exchanges[4].front = [j \in 1..10 |-> 1]
      BY DEF Exchanges
    <3>. QED  BY <3>1, <3>2, <3>3, <3>4, Zenon
  <2>2. CASE Exchanges[i].front = <<>>
    BY <1>4, <2>2
  <2>3. CASE Exchanges[i].front = <<0>>
    BY <1>4, <2>3
  <2>4. CASE Exchanges[i].front = [j \in 1..10 |-> 1]
    BY <1>3, <2>4
  <2>. QED  BY <2>1, <2>2, <2>3, <2>4
<1>6. ASSUME NEW i \in 1..6
      PROVE  Exchanges[i].head \in Seq(Bytes255) /\ Len(Exchanges[i].head) = 2
  <2>1. Exchanges[i].head \in {<<3, 0>>, <<6, 1>>, <<6, 4>>, <<0, 8>>, <<6, 7>>, <<6, 2>>}
    BY DEF Exchanges
  <2>2. \A a, b \in Bytes255 : <<a, b>> \in Seq(Bytes255) /\ Len(<<a, b>>) = 2
    OBVIOUS
  <2>3. {0, 1, 2, 3, 4, 6, 7, 8} \subseteq Bytes255
    BY DEF Bytes255
  <2>4. \A s \in {<<3, 0>>, <<6, 1>>, <<6, 4>>, <<0, 8>>, <<6, 7>>, <<6, 2>>} :
           s \in Seq(Bytes255) /\ Len(s) = 2
    BY <2>2, <2>3, ZenonT(40)
  <2>. QED  BY <2>1, <2>4
<1>7. ASSUME NEW i \in 1..6 PROVE Exchanges[i].name \in Names
  <2>1. Exchanges[i] \in ToSet(Exchanges)
    BY <1>1 DEF ToSet
  <2>. QED  BY <2>1 DEF Names
<1>. QED  BY <1>1, <1>2, <1>5, <1>6, <1>7

LEMMA PacketIsCells ==
  ASSUME NEW kind \in Names \cup {"report", "gone"}, NEW bytes \in Seq(Bytes255)
  PROVE  /\ Packet(kind, bytes) \in Seq(Cells)
         /\ Len(Packet(kind, bytes)) = Len(bytes)
         /\ \A i \in 1..Len(bytes) :
              /\ Packet(kind, bytes)[i].b = bytes[i]
              /\ Packet(kind, bytes)[i].kind = kind
              /\ Packet(kind, bytes)[i].last = (i = Len(bytes))
<1>. DEFINE n == Len(bytes)
            cell(i) == [b |-> bytes[i], kind |-> kind, last |-> i = n]
            K == Names \cup {"report", "gone"}
<1>1. Packet(kind, bytes) = [i \in 1..n |-> cell(i)] /\ n \in Nat
  BY DEF Packet
<1>2. Cells = [b : 0..255, last : BOOLEAN, kind : K]
  BY DEF Cells, Names
<1>3. ASSUME NEW i \in 1..n
      PROVE  /\ cell(i).b = bytes[i] /\ cell(i).kind = kind /\ cell(i).last = (i = n)
             /\ cell(i) \in Cells
  <2>1. bytes[i] \in 0..255
    <3>1. bytes[i] \in Bytes255
      OBVIOUS
    <3>. QED  BY <3>1 DEF Bytes255
  <2>2. ASSUME NEW c, c = (i = n)
        PROVE  [b |-> bytes[i], kind |-> kind, last |-> c] \in [b : 0..255, last : BOOLEAN, kind : K]
    <3>1. c \in BOOLEAN
      BY <2>2
    <3>. HIDE DEF K, n
    <3>. QED  BY <2>1, <3>1 DEF K
  <2>3. cell(i) \in Cells
    BY <1>2, <2>2
  <2>. QED  BY <2>3
<1>. HIDE DEF n, cell
<1>4. Packet(kind, bytes) \in Seq(Cells) /\ Len(Packet(kind, bytes)) = n
  BY <1>1, <1>3
<1>5. \A i \in 1..n : Packet(kind, bytes)[i] = cell(i)
  BY <1>1
<1>. QED  BY <1>3, <1>4, <1>5 DEF n

Codes == {Success, NotConnected, WrongState}

(* A header in front of a payload with two bytes at its end. *)
LEMMA ConcatBytes ==
  ASSUME NEW p \in Seq(Bytes255), NEW q \in Seq(Bytes255)
  PROVE  /\ p \o q \in Seq(Bytes255) /\ Len(p \o q) = Len(p) + Len(q)
         /\ \A i \in 1..Len(q) : (p \o q)[Len(p) + i] = q[i]
<1>1. p \o q \in Seq(Bytes255) /\ Len(p \o q) = Len(p) + Len(q)
  BY ConcatProperties
<1>2. \A i \in 1..Len(q) : (p \o q)[Len(p) + i] = q[i]
  OBVIOUS
<1>. QED  BY <1>1, <1>2

LEMMA PayloadEnd ==
  ASSUME NEW front \in Seq(Bytes255), NEW u \in Bytes255, NEW v \in Bytes255
  PROVE  LET payload == front \o <<v, u>>
         IN  /\ payload \in Seq(Bytes255) /\ Len(payload) = Len(front) + 2
             /\ payload[Len(front) + 2] = u /\ payload[Len(front) + 1] = v
<1>. DEFINE end == <<v, u>>
<1>1. end \in Seq(Bytes255) /\ Len(end) = 2 /\ end[1] = v /\ end[2] = u
  OBVIOUS
<1>2. 1 \in 1..2 /\ 2 \in 1..2
  OBVIOUS
<1>. HIDE DEF end
<1>. QED  BY <1>1, <1>2, ConcatBytes DEF end

LEMMA BytesEnd ==
  ASSUME NEW payload \in Seq(Bytes255), NEW k \in 0..10, Len(payload) = k + 2,
         NEW first \in Seq(Bytes255), Len(first) = 4
  PROVE  LET bytes == first \o payload
         IN  /\ bytes \in Seq(Bytes255) /\ Len(bytes) = k + 6
             /\ bytes[k + 6] = payload[k + 2] /\ bytes[k + 5] = payload[k + 1]
<1>1. 4 + (k + 2) = k + 6 /\ 4 + (k + 1) = k + 5 /\ k + 1 \in 1..(k + 2)
      /\ k + 2 \in 1..(k + 2)
  OBVIOUS
<1>. DEFINE bytes == first \o payload
<1>2. /\ bytes \in Seq(Bytes255) /\ Len(bytes) = Len(first) + Len(payload)
      /\ \A i \in 1..Len(payload) : bytes[Len(first) + i] = payload[i]
  BY ConcatBytes
<1>. HIDE DEF bytes
<1>3. Len(bytes) = 4 + (k + 2) /\ \A i \in 1..(k + 2) : bytes[4 + i] = payload[i]
  BY <1>2
<1>4. bytes[4 + (k + 2)] = payload[k + 2] /\ bytes[4 + (k + 1)] = payload[k + 1]
  BY <1>1, <1>3
<1>. QED  BY <1>1, <1>2, <1>3, <1>4 DEF bytes

(* The answer to an exchange: so many cells, named for it, the last of them *)
(* marked, and the code at the end.                                        *)
LEMMA AnswerShape ==
  ASSUME NEW i \in 1..6, NEW code \in Codes
  PROVE  LET a == AnswerTo(Exchanges[i], code)
             n == LengthOf(Exchanges[i])
         IN  /\ a \in Seq(Cells) /\ Len(a) = n /\ n \in 6..16
             /\ \A j \in 1..n : /\ a[j].kind = Exchanges[i].name
                                /\ a[j].last = (j = n)
             /\ <<a[n].b, a[n - 1].b>> = code
<1>. DEFINE x == Exchanges[i]
            n == LengthOf(x)
<1>1. x.head \in Seq(Bytes255) /\ Len(x.head) = 2 /\ x.front \in Seq(Bytes255)
      /\ Len(x.front) <= 10 /\ x.name \in Names \cup {"report", "gone"}
  BY ExchangeFacts
<1>. HIDE DEF x
<1>2. PICK u \in Bytes255, v \in Bytes255 : code = <<u, v>>
  <2>1. \A u, v \in 0..255 : code = <<u, v>> => \E p, q \in 0..255 : code = <<p, q>>
    OBVIOUS
  <2>2. code = <<0, 0>> \/ code = <<1, 134>> \/ code = <<1, 129>>
    BY DEF Codes, Success, NotConnected, WrongState
  <2>3. \E p, q \in 0..255 : code = <<p, q>>
    <3>1. 0 \in 0..255 /\ 1 \in 0..255 /\ 129 \in 0..255 /\ 134 \in 0..255
      OBVIOUS
    <3>2. CASE code = <<0, 0>>
      BY <2>1, <3>1, <3>2
    <3>3. CASE code = <<1, 134>>
      BY <2>1, <3>1, <3>3
    <3>4. CASE code = <<1, 129>>
      BY <2>1, <3>1, <3>4
    <3>. QED  BY <2>2, <3>2, <3>3, <3>4
  <2>. QED  BY <2>3 DEF Bytes255
<1>3. Reverse(code) = <<v, u>>
  <2>1. Reverse(code) = [k \in 1..2 |-> code[(2 - k) + 1]]
    BY <1>2 DEF Reverse
  <2>2. [k \in 1..2 |-> code[(2 - k) + 1]] = <<v, u>>
    BY <1>2
  <2>. QED  BY <2>1, <2>2
<1>. DEFINE payload == x.front \o <<v, u>>
            first == <<0, Len(payload), x.head[1], x.head[2]>>
            bytes == first \o payload
            k == Len(x.front)
<1>4. k \in 0..10 /\ n = k + 6 /\ n \in 6..16
  <2>1. k \in Nat /\ k <= 10
    BY <1>1
  <2>2. n = 4 + k + 2
    BY DEF LengthOf
  <2>. HIDE DEF k, n
  <2>. QED  BY <2>1, <2>2
<1>. HIDE DEF n
<1>10. payload \in Seq(Bytes255) /\ Len(payload) = k + 2
       /\ payload[k + 2] = u /\ payload[k + 1] = v
  BY <1>1, <1>4, PayloadEnd
<1>. HIDE DEF k, payload
<1>11. first \in Seq(Bytes255) /\ Len(first) = 4
  <2>1. x.head[1] \in Bytes255 /\ x.head[2] \in Bytes255
    BY <1>1
  <2>2. Len(payload) \in Bytes255 /\ 0 \in Bytes255
    <3>1. k + 2 \in 0..255
      BY <1>4
    <3>. QED  BY <1>10, <3>1 DEF Bytes255
  <2>. QED  BY <2>1, <2>2
<1>. HIDE DEF first
<1>12. bytes \in Seq(Bytes255) /\ Len(bytes) = k + 6
       /\ bytes[k + 6] = payload[k + 2] /\ bytes[k + 5] = payload[k + 1]
  BY <1>4, <1>10, <1>11, BytesEnd
<1>5. bytes \in Seq(Bytes255) /\ Len(bytes) = n /\ n \in 6..16
      /\ bytes[n] = u /\ bytes[n - 1] = v
  <2>1. n - 1 = k + 5
    BY <1>4
  <2>. HIDE DEF bytes
  <2>. QED  BY <1>4, <1>10, <1>12, <2>1
<1>6. AnswerTo(x, code) = Packet(x.name, bytes)
  BY <1>3 DEF AnswerTo, Response, ResponseType, bytes, first, payload
<1>. DEFINE a == AnswerTo(x, code)
<1>. HIDE DEF bytes, a
<1>7. a = Packet(x.name, bytes)
  BY <1>6 DEF a
<1>8. /\ a \in Seq(Cells) /\ Len(a) = n
      /\ \A j \in 1..n : a[j].kind = x.name /\ a[j].last = (j = n) /\ a[j].b = bytes[j]
  <2>1. /\ Packet(x.name, bytes) \in Seq(Cells)
        /\ Len(Packet(x.name, bytes)) = Len(bytes)
        /\ \A j \in 1..Len(bytes) :
              /\ Packet(x.name, bytes)[j].b = bytes[j]
              /\ Packet(x.name, bytes)[j].kind = x.name
              /\ Packet(x.name, bytes)[j].last = (j = Len(bytes))
    BY <1>1, <1>5, PacketIsCells
  <2>. QED  BY <1>5, <1>7, <2>1
<1>9. <<a[n].b, a[n - 1].b>> = code
  <2>1. n \in 1..n /\ n - 1 \in 1..n
    BY <1>5
  <2>. QED  BY <1>2, <1>5, <1>8, <2>1
<1>. QED  BY <1>5, <1>8, <1>9 DEF x, n, a

(* Behind a cell that is not the last of its packet comes one of that. *)
Framed(s) ==
  \A i \in 1..Len(s) : s[i].last \/ (i < Len(s) /\ s[i + 1].kind = s[i].kind)

(* The events: nothing at their start or in their name is of an answer. *)
LEMMA EventShape ==
  ASSUME NEW e, \/ \E heard \in Heard : e = Report(heard[1], heard[2])
                \/ e = Event("gone", 3, 4, <<0, 22, 2>>)
  PROVE  /\ e \in Seq(Cells) /\ Len(e) \in 6..16
         /\ \A j \in 1..Len(e) : e[j].kind \in {"report", "gone"}
         /\ e[1].last = FALSE /\ Framed(e)
<1>1. \E bytes \in Seq(Bytes255), kind \in {"report", "gone"} :
         Len(bytes) \in 6..16 /\ e = Packet(kind, bytes)
  <2>1. CASE e = Event("gone", 3, 4, <<0, 22, 2>>)
    <3>. DEFINE bytes == <<128, 3, 3, 4>> \o <<0, 22, 2>>
    <3>1. <<128, 3, 3, 4>> \in Seq(Bytes255) /\ <<0, 22, 2>> \in Seq(Bytes255)
          /\ Len(<<128, 3, 3, 4>>) = 4 /\ Len(<<0, 22, 2>>) = 3
      BY DEF Bytes255
    <3>2. bytes \in Seq(Bytes255) /\ Len(bytes) \in 6..16
      BY <3>1, ConcatProperties
    <3>3. e = Packet("gone", bytes)
      BY <2>1, <3>1 DEF Event, EventType
    <3>. QED  BY <3>2, <3>3
  <2>2. CASE \E heard \in Heard : e = Report(heard[1], heard[2])
    <3>1. PICK d \in Bytes255, f \in Bytes255 : e = Report(d, f)
      <4>1. PICK heard \in Heard : e = Report(heard[1], heard[2])
        BY <2>2
      <4>2. heard[1] \in {Myo, Stranger}
            /\ heard[2] \in {MyoService, OtherService, Unused, Manufacturer}
        BY DEF Heard
      <4>3. heard[1] \in Bytes255 /\ heard[2] \in Bytes255
        BY <4>2 DEF Bytes255, Myo, Stranger, MyoService, OtherService, Manufacturer, Unused
      <4>. QED  BY <4>1, <4>3
    <3>. DEFINE bytes == <<128, 4, 6, 0>> \o <<200, 0, d, f>>
    <3>2. <<128, 4, 6, 0>> \in Seq(Bytes255) /\ <<200, 0, d, f>> \in Seq(Bytes255)
          /\ Len(<<128, 4, 6, 0>>) = 4 /\ Len(<<200, 0, d, f>>) = 4
      BY DEF Bytes255
    <3>3. bytes \in Seq(Bytes255) /\ Len(bytes) \in 6..16
      BY <3>2, ConcatProperties
    <3>4. e = Packet("report", bytes)
      BY <3>1, <3>2 DEF Report, Event, EventType
    <3>. QED  BY <3>3, <3>4
  <2>. QED  BY <2>1, <2>2
<1>2. PICK bytes \in Seq(Bytes255), kind \in {"report", "gone"} :
         Len(bytes) \in 6..16 /\ e = Packet(kind, bytes)
  BY <1>1
<1>3. kind \in Names \cup {"report", "gone"} /\ 1 \in 1..Len(bytes) /\ 1 # Len(bytes)
  <2>1. kind \in Names \cup {"report", "gone"}
    OBVIOUS
  <2>2. 1 \in 1..Len(bytes) /\ 1 # Len(bytes)
    <3>1. \A m \in 6..16 : 1 \in 1..m /\ 1 # m
      OBVIOUS
    <3>. QED  BY <1>2, <3>1
  <2>. QED  BY <2>1, <2>2
<1>4. e \in Seq(Cells) /\ Len(e) = Len(bytes)
      /\ \A j \in 1..Len(bytes) : e[j].kind = kind /\ e[j].last = (j = Len(bytes))
  <2>1. /\ Packet(kind, bytes) \in Seq(Cells)
        /\ Len(Packet(kind, bytes)) = Len(bytes)
        /\ \A i \in 1..Len(bytes) :
              /\ Packet(kind, bytes)[i].b = bytes[i]
              /\ Packet(kind, bytes)[i].kind = kind
              /\ Packet(kind, bytes)[i].last = (i = Len(bytes))
    BY <1>3, PacketIsCells, Zenon
  <2>2. e = Packet(kind, bytes)
    BY <1>2
  <2>. QED  BY <2>1, <2>2, Zenon
<1>5. e \in Seq(Cells) /\ Len(e) \in 6..16 /\ e[1].last = FALSE
      /\ \A j \in 1..Len(e) : e[j].kind \in {"report", "gone"}
  BY <1>2, <1>3, <1>4
<1>6. \A j \in 1..Len(e) : j = Len(e) \/ (j < Len(e) /\ j + 1 \in 1..Len(e))
  BY <1>5
<1>7. Framed(e)
  BY <1>4, <1>6 DEF Framed
<1>. QED  BY <1>5, <1>7

-----------------------------------------------------------------------------
(* The input keeps its type, and at the end of every answer in it stands a  *)
(* code that the script goes on with: the one exchange that a dongle can    *)
(* refuse for what an earlier session left, the start of the scan, comes    *)
(* behind the command that ends it.                                        *)

(* Every answer that ends in a stretch of input, but that to info, is good. *)
GoodEnds(s) ==
  \A j \in 2..Len(s), i \in 1..6 :
    s[j].last /\ s[j].kind = Exchanges[i].name /\ Exchanges[i].name # "info"
      => <<s[j].b, s[j - 1].b>> \in Exchanges[i].good

Inputs == {s \in Seq(Cells) : GoodEnds(s)}

(* From the command that ends the scan to that which starts it. *)
Quiet ==
  \/ pc = "command" /\ stage \in 4..6
  \/ pc = "answer" /\ stage \in 3..5
  => ~scanning

FailInv ==
  /\ TypeOK /\ GoodEnds(rx) /\ Quiet
  /\ pc = "flush" => stage = 1
  /\ FailsOnlyMisread

LEMMA GoodDropped ==
  ASSUME NEW s \in Inputs, NEW k \in 0..Len(s)
  PROVE  SubSeq(s, k + 1, Len(s)) \in Inputs
<1>. DEFINE t == SubSeq(s, k + 1, Len(s))
<1>1. s \in Seq(Cells) /\ Len(s) \in Nat /\ GoodEnds(s)
  BY DEF Inputs
<1>2. \A i \in (k + 1)..Len(s) : s[i] \in Cells
  BY <1>1
<1>3. /\ t \in Seq(Cells)
      /\ Len(t) = IF k + 1 <= Len(s) THEN Len(s) - (k + 1) + 1 ELSE 0
      /\ \A i \in 1..(Len(s) - (k + 1) + 1) : t[i] = s[(k + 1) + i - 1]
  BY <1>1, <1>2, SubSeqProperties
<1>. HIDE DEF t
<1>4. Len(t) = Len(s) - k
  BY <1>1, <1>3
<1>5. \A i \in 1..Len(t) : t[i] = s[k + i]
  <2>1. ASSUME NEW i \in 1..Len(t)
        PROVE  i \in 1..(Len(s) - (k + 1) + 1) /\ (k + 1) + i - 1 = k + i
    BY <1>1, <1>4
  <2>. QED  BY <1>3, <2>1
<1>6. ASSUME NEW j \in 2..Len(t)
      PROVE  t[j] = s[k + j] /\ t[j - 1] = s[(k + j) - 1] /\ k + j \in 2..Len(s)
  <2>1. j \in 1..Len(t) /\ j - 1 \in 1..Len(t) /\ k + (j - 1) = (k + j) - 1
        /\ k + j \in 2..Len(s)
    BY <1>1, <1>4
  <2>2. t[j - 1] = s[k + (j - 1)]
    BY <1>5, <2>1
  <2>. QED  BY <1>5, <2>1, <2>2
<1>7. GoodEnds(t)
  BY <1>1, <1>6, ZenonT(40) DEF GoodEnds
<1>. QED  BY <1>3, <1>7 DEF t, Inputs

LEMMA GoodConcat ==
  ASSUME NEW s \in Inputs, NEW t \in Inputs, Len(t) > 0, t[1].last = FALSE
  PROVE  s \o t \in Inputs
<1>. DEFINE m == Len(s)
            n == Len(t)
            u == s \o t
<1>1. s \in Seq(Cells) /\ t \in Seq(Cells) /\ m \in Nat /\ n \in Nat
      /\ GoodEnds(s) /\ GoodEnds(t)
  BY DEF Inputs
<1>2. u \in Seq(Cells) /\ Len(u) = m + n
  BY <1>1, ConcatProperties
<1>3. \A j \in 1..m : u[j] = s[j]
  BY <1>1
<1>4. \A j \in 1..n : u[m + j] = t[j]
  BY <1>1
<1>. HIDE DEF u, m, n
<1>5. ASSUME NEW j \in 2..(m + n), NEW i \in 1..6, u[j].last,
             u[j].kind = Exchanges[i].name, Exchanges[i].name # "info"
      PROVE  <<u[j].b, u[j - 1].b>> \in Exchanges[i].good
  <2>1. CASE j <= m
    <3>1. j \in 2..m /\ j \in 1..m /\ j - 1 \in 1..m
      BY <1>1, <2>1
    <3>2. u[j] = s[j] /\ u[j - 1] = s[j - 1]
      BY <1>3, <3>1
    <3>. QED  BY <1>1, <1>5, <3>1, <3>2 DEF GoodEnds, m
  <2>2. CASE j = m + 1
    <3>1. 1 \in 1..n
      BY <1>1 DEF n
    <3>2. u[j] = t[1]
      BY <1>4, <2>2, <3>1
    <3>. QED  BY <1>5, <3>2
  <2>3. CASE j > m + 1
    <3>. DEFINE k == j - m
    <3>1. k \in 2..n /\ k \in 1..n /\ k - 1 \in 1..n /\ j = m + k /\ j - 1 = m + (k - 1)
      BY <1>1, <2>3
    <3>. HIDE DEF k
    <3>2. u[j] = t[k] /\ u[j - 1] = t[k - 1]
      BY <1>4, <3>1
    <3>. QED  BY <1>1, <1>5, <3>1, <3>2 DEF GoodEnds, n
  <2>. QED  BY <1>1, <2>1, <2>2, <2>3
<1>6. GoodEnds(u)
  BY <1>2, <1>5 DEF GoodEnds
<1>. QED  BY <1>2, <1>6 DEF u, Inputs

LEMMA NamesDiffer ==
  \A i, j \in 1..6 : Exchanges[i].name = Exchanges[j].name => i = j
BY DEF Exchanges

LEMMA GoodAnswer ==
  ASSUME NEW i \in 1..6, NEW code \in Codes,
         Exchanges[i].name = "info" \/ code \in Exchanges[i].good
  PROVE  LET a == AnswerTo(Exchanges[i], code)
         IN  a \in Inputs /\ Len(a) > 0 /\ a[1].last = FALSE
<1>. DEFINE a == AnswerTo(Exchanges[i], code)
            n == LengthOf(Exchanges[i])
<1>1. /\ a \in Seq(Cells) /\ Len(a) = n /\ n \in 6..16
      /\ \A j \in 1..n : a[j].kind = Exchanges[i].name /\ a[j].last = (j = n)
      /\ <<a[n].b, a[n - 1].b>> = code
  BY AnswerShape
<1>. HIDE DEF a, n
<1>2. 1 \in 1..n /\ 1 # n /\ n > 0
  BY <1>1
<1>3. ASSUME NEW j \in 2..n, NEW k \in 1..6, a[j].last,
             a[j].kind = Exchanges[k].name, Exchanges[k].name # "info"
      PROVE  <<a[j].b, a[j - 1].b>> \in Exchanges[k].good
  <2>1. j \in 1..n
    BY <1>1
  <2>2. j = n
    BY <1>1, <1>3, <2>1
  <2>3. k = i
    BY <1>1, <1>3, <2>1, NamesDiffer
  <2>. QED  BY <1>1, <1>3, <2>2, <2>3
<1>4. GoodEnds(a)
  BY <1>1, <1>3 DEF GoodEnds
<1>. QED  BY <1>1, <1>2, <1>4 DEF a, Inputs

LEMMA GoodEvent ==
  ASSUME NEW e, \/ \E heard \in Heard : e = Report(heard[1], heard[2])
                \/ e = Event("gone", 3, 4, <<0, 22, 2>>)
  PROVE  e \in Inputs /\ Len(e) > 0 /\ e[1].last = FALSE
<1>1. /\ e \in Seq(Cells) /\ Len(e) \in 6..16
      /\ \A j \in 1..Len(e) : e[j].kind \in {"report", "gone"}
      /\ e[1].last = FALSE
  BY EventShape
<1>2. ASSUME NEW i \in 1..6 PROVE Exchanges[i].name \notin {"report", "gone"}
  BY DEF Exchanges
<1>3. \A j \in 2..Len(e) : j \in 1..Len(e)
  BY <1>1
<1>4. GoodEnds(e)
  BY <1>1, <1>2, <1>3 DEF GoodEnds
<1>5. Len(e) > 0
  BY <1>1
<1>. QED  BY <1>1, <1>4, <1>5 DEF Inputs

(* The error code of an answer is what stands at its end. *)
LEMMA CodeAtEnd ==
  ASSUME NEW bytes \in Seq(Bytes255), NEW n \in 6..16, Len(bytes) = n
  PROVE  chn_errcode(bytes, n - 2) = <<bytes[n], bytes[n - 1]>>
<1>. DEFINE end == SubSeq(bytes, n - 1, n)
<1>1. n - (n - 2) = 2 /\ (n - 2) + 1 = n - 1
  OBVIOUS
<1>2. chn_errcode(bytes, n - 2) = Reverse(end)
  BY <1>1 DEF chn_errcode
<1>3. Len(end) = 2 /\ end[1] = bytes[n - 1] /\ end[2] = bytes[n]
  <2>1. n - 1 <= n /\ n - (n - 1) + 1 = 2 /\ (n - 1) + 1 - 1 = n - 1 /\ (n - 1) + 2 - 1 = n
    OBVIOUS
  <2>2. \A i \in (n - 1)..n : bytes[i] \in Bytes255
    <3>1. \A i \in (n - 1)..n : i \in 1..n
      OBVIOUS
    <3>. QED  BY <3>1
  <2>3. Len(end) = 2 /\ \A i \in 1..2 : end[i] = bytes[(n - 1) + i - 1]
    BY <2>1, <2>2, SubSeqProperties
  <2>. QED  BY <2>1, <2>3
<1>. HIDE DEF end
<1>4. Reverse(end) = [i \in 1..2 |-> end[(2 - i) + 1]]
  BY <1>3 DEF Reverse
<1>5. [i \in 1..2 |-> end[(2 - i) + 1]] = <<end[2], end[1]>>
  OBVIOUS
<1>. QED  BY <1>2, <1>3, <1>4, <1>5

(* A read that took an answer and nothing else is content with it. *)
LEMMA RefusedIsMisread ==
  ASSUME rx \in Inputs, NEW i \in 1..6, NEW n \in 0..Len(rx),
         Read(Exchanges[i], n), ~Passes(Exchanges[i], Bytes(n))
  PROVE  misread' = TRUE
<1>. DEFINE x == Exchanges[i]
            a(code) == AnswerTo(x, code)
<1>0. rx \in Seq(Cells) /\ Len(rx) \in Nat /\ GoodEnds(rx)
  BY DEF Inputs
<1>1. SUFFICES ASSUME NEW code \in Codes, SubSeq(rx, 1, n) = a(code)
               PROVE  FALSE
  BY DEF Read, Codes
<1>2. /\ Len(a(code)) = LengthOf(x) /\ LengthOf(x) \in 6..16
      /\ \A j \in 1..LengthOf(x) : a(code)[j].kind = x.name
                                  /\ a(code)[j].last = (j = LengthOf(x))
      /\ <<a(code)[LengthOf(x)].b, a(code)[LengthOf(x) - 1].b>> = code
  BY AnswerShape
<1>3. Len(SubSeq(rx, 1, n)) = n /\ \A j \in 1..n : SubSeq(rx, 1, n)[j] = rx[j]
  <2>1. \A j \in 1..n : rx[j] \in Cells
    BY <1>0
  <2>2. n - 1 + 1 = n /\ \A j \in 1..n : 1 + j - 1 = j
    OBVIOUS
  <2>3. Len(SubSeq(rx, 1, n)) = IF 1 <= n THEN n - 1 + 1 ELSE 0
    BY <2>1, SubSeqProperties
  <2>4. \A j \in 1..(n - 1 + 1) : SubSeq(rx, 1, n)[j] = rx[1 + j - 1]
    BY <2>1, SubSeqProperties
  <2>. QED  BY <2>2, <2>3, <2>4
<1>4. n = LengthOf(x) /\ n \in 6..16
  BY <1>1, <1>2, <1>3
<1>5. /\ rx[n].kind = x.name /\ rx[n].last
      /\ <<rx[n].b, rx[n - 1].b>> = code /\ n \in 2..Len(rx)
  <2>1. n \in 1..n /\ n - 1 \in 1..n /\ n \in 2..Len(rx)
    BY <1>0, <1>4
  <2>2. rx[n] = a(code)[n] /\ rx[n - 1] = a(code)[n - 1]
    BY <1>1, <1>3, <2>1
  <2>. QED  BY <1>2, <1>4, <2>1, <2>2
<1>6. Bytes(n) \in Seq(Bytes255) /\ Len(Bytes(n)) = n
      /\ Bytes(n)[n] = rx[n].b /\ Bytes(n)[n - 1] = rx[n - 1].b
  <2>1. \A j \in 1..n : rx[j].b \in Bytes255
    <3>1. \A j \in 1..n : rx[j] \in Cells
      BY <1>0
    <3>. QED  BY <3>1, CellByte DEF Bytes255
  <2>2. n \in 1..n /\ n - 1 \in 1..n /\ n \in Nat
    BY <1>4
  <2>. QED  BY <2>1, <2>2 DEF Bytes
<1>7. CASE x.name = "info"
  BY <1>4, <1>6, <1>7 DEF Passes
<1>8. CASE x.name # "info"
  <2>1. code \in x.good
    BY <1>0, <1>5, <1>8 DEF GoodEnds
  <2>2. chn_errcode(Bytes(n), n - 2) = code
    BY <1>4, <1>5, <1>6, CodeAtEnd
  <2>3. 4 + Len(x.front) = n - 2
    <3>1. Len(x.front) \in Nat
      BY ExchangeFacts, SMTT(30)
    <3>2. n = 4 + Len(x.front) + 2
      BY <1>4 DEF LengthOf
    <3>. QED  BY <3>1, <3>2
  <2>. QED  BY <1>8, <2>1, <2>2, <2>3 DEF Passes
<1>. QED  BY <1>7, <1>8

(* What the dongle answers, unless it is told to start a scan that runs,   *)
(* is good.                                                                *)
LEMMA CodeIsGood ==
  ASSUME NEW i \in 1..6, i = 6 => ~scanning
  PROVE  /\ CodeOf(Exchanges[i]) \in Codes
         /\ Exchanges[i].name = "info" \/ CodeOf(Exchanges[i]) \in Exchanges[i].good
<1>1. CodeOf(Exchanges[i]) \in Codes
  BY DEF CodeOf, Codes
<1>. DEFINE name == Exchanges[i].name
            good == Exchanges[i].good
<1>3. \/ name = "disconnect" /\ good = {Success, NotConnected}
      \/ name = "end" /\ good = {Success, WrongState}
      \/ name \in {"mode", "params"} /\ good = {Success}
      \/ name = "discover" /\ good = {Success} /\ i = 6
      \/ name = "info"
  BY DEF Exchanges
<1>4. CodeOf(Exchanges[i]) = CASE name = "disconnect" /\ ~linked -> NotConnected
                               [] name = "end" /\ ~scanning -> WrongState
                               [] name = "discover" /\ scanning -> WrongState
                               [] OTHER -> Success
  BY DEF CodeOf
<1>. HIDE DEF name, good
<1>5. name = "info" \/ CodeOf(Exchanges[i]) \in good
  BY <1>3, <1>4
<1>. QED  BY <1>1, <1>5 DEF name, good

(* The answers to the command that ends the scan are all good. *)
EndCodes == {Success, WrongState}

LEMMA EndCodesGood ==
  /\ EndProcedure = Exchanges[3] /\ 3 \in 1..6
  /\ EndCodes \subseteq Codes /\ EndCodes = Exchanges[3].good
  /\ EndCode \in EndCodes /\ WrongState \in EndCodes
<1>1. EndProcedure = Exchanges[3] /\ 3 \in 1..6 /\ 3 # 6
  BY ExchangeFacts
<1>2. EndCodes = Exchanges[3].good /\ Exchanges[3].name # "info"
  BY DEF EndCodes, Exchanges
<1>3. EndCode \in EndCodes
  BY <1>1, <1>2, CodeIsGood DEF EndCode
<1>4. EndCodes \subseteq Codes /\ WrongState \in EndCodes
  BY DEF EndCodes, Codes
<1>. QED  BY <1>1, <1>2, <1>3, <1>4

LEMMA EndAnswerTypes ==
  ASSUME NEW code \in EndCodes
  PROVE  LET a == AnswerTo(EndProcedure, code)
         IN  a \in Inputs /\ Len(a) > 0 /\ a[1].last = FALSE
BY EndCodesGood, GoodAnswer

LEMMA EndScanTypes ==
  ASSUME NEW input \in Inputs, NEW code \in EndCodes, EndScan(input, code), TypeOK
  PROVE  /\ rx' \in Inputs /\ linked' = linked /\ leaving' = leaving
         /\ reports' = reports /\ scanning' = FALSE
<1>1. rx' \in Inputs
  BY EndAnswerTypes, GoodConcat DEF EndScan
<1>2. EndProcedure.name = "end"
  BY DEF EndProcedure, Exchanges
<1>3. linked' = linked /\ leaving' = leaving /\ reports' = reports
  BY <1>2 DEF EndScan, Obeys, TypeOK
<1>. QED  BY <1>1, <1>3, EndScanStops

LEMMA FailInit == Init => FailInv
<1>. SUFFICES ASSUME Init PROVE FailInv
  OBVIOUS
<1>1. 1 \in 1..MaxRuns /\ 0 \in 0..MaxReports
  BY ScanAssumption
<1>2. Len(Exchanges) = 6
  BY ExchangeFacts
<1>3. TypeOK
  <2>1. stage \in 1..Len(Exchanges) /\ sender \in 0..255
    BY <1>2 DEF Init
  <2>2. rx \in Seq(Cells)
    BY DEF Init
  <2>3. runs \in 1..MaxRuns /\ reports \in 0..MaxReports
    BY <1>1 DEF Init
  <2>. QED  BY <2>1, <2>2, <2>3 DEF Init, TypeOK
<1>4. GoodEnds(rx)
  BY DEF Init, GoodEnds
<1>. QED  BY <1>3, <1>4 DEF Init, FailInv, Quiet, FailsOnlyMisread

(* The ends of answers are positions of the stretch. *)
LEMMA EndsCounted ==
  ASSUME NEW s \in Seq(Cells)
  PROVE  /\ AnswerEnds(s) \in SUBSET (1..Len(s))
         /\ IsFiniteSet(AnswerEnds(s)) /\ Cardinality(AnswerEnds(s)) \in Nat
<1>1. AnswerEnds(s) \in SUBSET (1..Len(s)) /\ Len(s) \in Nat
  BY DEF AnswerEnds
<1>2. IsFiniteSet(1..Len(s))
  BY <1>1, FS_Interval
<1>. QED  BY <1>1, <1>2, FS_Subset, FS_CardinalityType

LEMMA FailNext == FailInv /\ [Next]_vars => FailInv'
<1>. SUFFICES ASSUME FailInv, [Next]_vars PROVE FailInv'
  OBVIOUS
<1>0. TypeOK /\ rx \in Inputs /\ rx \in Seq(Cells) /\ Len(rx) \in Nat
      /\ Quiet /\ FailsOnlyMisread /\ (pc = "flush" => stage = 1)
  BY DEF FailInv, Inputs, TypeOK
<1>1. Len(Exchanges) = 6 /\ stage \in 1..6
  BY ExchangeFacts DEF TypeOK, FailInv
<1>2. ASSUME rx' \in Inputs PROVE rx' \in Seq(Cells) /\ GoodEnds(rx)'
  BY <1>2 DEF Inputs, GoodEnds
<1>3. ASSUME NEW n \in 0..Len(rx) PROVE Dropped(n) \in Inputs
  BY <1>0, GoodDropped DEF Dropped
<1>4. CASE FlushInput
  <2>1. pc = "flush" /\ pc' = "command" /\ rx' \in Inputs
        /\ UNCHANGED <<stage, found, dongle, runs, misread, raised, interrupted, crowded>>
    BY <1>3, <1>4 DEF FlushInput
  <2>2. old' \in Nat
    BY <1>2, <1>4, <2>1, EndsCounted DEF FlushInput
  <2>4. TypeOK'
    BY <1>0, <1>2, <2>1, <2>2 DEF TypeOK, found, dongle
  <2>3. Quiet' /\ FailsOnlyMisread' /\ (pc' = "flush" => stage' = 1)
    BY <1>0, <2>1 DEF Quiet, FailsOnlyMisread
  <2>. QED  BY <1>2, <2>1, <2>3, <2>4 DEF FailInv
<1>5. CASE Command
  <2>. DEFINE a == AnswerTo(Exchanges[stage], CodeOf(Exchanges[stage]))
  <2>1. pc = "command" /\ pc' = "answer" /\ rx' = rx \o a /\ Obeys(Exchanges[stage])
        /\ UNCHANGED <<stage, found, runs, history>>
    BY <1>5 DEF Command
  <2>2. stage = 6 => ~scanning
    BY <1>0, <2>1 DEF Quiet
  <2>3. a \in Inputs /\ Len(a) > 0 /\ a[1].last = FALSE
    BY <1>1, <2>2, CodeIsGood, GoodAnswer
  <2>. HIDE DEF a
  <2>4. rx' \in Inputs
    BY <1>0, <2>1, <2>3, GoodConcat
  <2>5. linked' \in BOOLEAN /\ leaving' \in BOOLEAN /\ scanning' \in BOOLEAN
        /\ reports' = reports
    BY <1>0, <2>1 DEF Obeys, TypeOK
  <2>6. TypeOK'
    BY <1>0, <1>2, <2>1, <2>4, <2>5 DEF TypeOK, found, history
  <2>7. stage \in 3..5 => ~scanning'
    <3>1. CASE stage = 3
      BY <2>1, <3>1 DEF Obeys, Exchanges
    <3>2. CASE stage \in 4..5
      <4>1. ~scanning
        BY <1>0, <2>1, <3>2 DEF Quiet
      <4>2. Exchanges[stage].name \in {"info", "params"}
        BY <3>2 DEF Exchanges
      <4>. QED  BY <2>1, <4>1, <4>2 DEF Obeys
    <3>. QED  BY <3>1, <3>2
  <2>8. Quiet' /\ FailsOnlyMisread' /\ (pc' = "flush" => stage' = 1)
    BY <2>1, <2>7 DEF Quiet, FailsOnlyMisread
  <2>. QED  BY <1>2, <2>4, <2>6, <2>8 DEF FailInv
<1>6. CASE ReadAnswer
  <2>1. PICK n \in 0..Len(rx) :
          /\ Read(Exchanges[stage], n)
          /\ rx' = Dropped(n)
          /\ IF ~Passes(Exchanges[stage], Bytes(n)) THEN pc' = "failed" /\ UNCHANGED stage
             ELSE IF MoreAfter(stage) THEN pc' = "command" /\ stage' = stage + 1
             ELSE pc' = "scan" /\ UNCHANGED stage
    BY <1>6 DEF ReadAnswer
  <2>2. pc = "answer" /\ UNCHANGED <<found, dongle, runs, raised, interrupted, crowded, old>>
    BY <1>6 DEF ReadAnswer
  <2>3. rx' \in Inputs
    BY <1>3, <2>1
  <2>4. misread' \in BOOLEAN
    BY <1>0, <2>1 DEF Read, TypeOK
  <2>5. /\ pc' \in {"failed", "command", "scan"} /\ stage' \in 1..6
        /\ pc' = "command" => stage' = stage + 1
    <3>1. MoreAfter(stage) => stage + 1 \in 1..6
      BY <1>1 DEF MoreAfter
    <3>. QED  BY <1>1, <2>1, <3>1
  <2>6. TypeOK'
    BY <1>0, <1>1, <1>2, <2>2, <2>3, <2>4, <2>5 DEF TypeOK, found, dongle
  <2>7. pc' = "failed" => misread' = TRUE
    BY <1>0, <1>1, <2>1, RefusedIsMisread
  <2>8. pc' = "command" /\ stage' \in 4..6 => ~scanning'
    <3>1. stage + 1 \in 4..6 => stage \in 3..5
      BY <1>1
    <3>. QED  BY <1>0, <2>2, <2>5, <3>1 DEF Quiet, dongle
  <2>9. Quiet' /\ FailsOnlyMisread' /\ (pc' = "flush" => stage' = 1)
    BY <2>5, <2>7, <2>8 DEF Quiet, FailsOnlyMisread
  <2>. QED  BY <1>2, <2>3, <2>6, <2>9 DEF FailInv
<1>7. CASE Scan
  <2>1. PICK n \in 1..Len(rx) :
          LET scan == ScanOf(SubSeq(rx, 1, n))
          IN  /\ crowded' = (crowded \/ Cardinality({i \in 1..n : rx[i].last}) > 1)
              /\ rx' = Dropped(n)
              /\ raised' = scan.raised
              /\ IF scan.raised THEN pc' = "ended" /\ UNCHANGED found
                 ELSE /\ UUID' = scan.UUID /\ sender' = scan.sender
                      /\ pc' = IF scan.find THEN "found" ELSE pc
    BY <1>7 DEF Scan
  <2>2. pc = "scan" /\ UNCHANGED <<stage, dongle, runs, misread, interrupted, old>>
    BY <1>7 DEF Scan
  <2>3. rx' \in Inputs
    <3>1. n \in 0..Len(rx)
      BY <1>0
    <3>. QED  BY <1>3, <2>1, <3>1
  <2>4. ScanOf(SubSeq(rx, 1, n)) \in Scans
    <3>1. \A i \in 1..n : rx[i] \in Cells
      BY <1>0
    <3>2. SubSeq(rx, 1, n) \in Seq(Cells)
      BY <1>0, <3>1, SubSeqProperties
    <3>. QED  BY <3>2, ScanOfType
  <2>5. raised' \in BOOLEAN /\ UUID' \in {"none", "myo", "other"} /\ sender' \in 0..255
    BY <1>0, <2>1, <2>4 DEF Scans, TypeOK, found, Bytes255
  <2>6. crowded' \in BOOLEAN
    BY <1>0, <2>1 DEF TypeOK
  <2>7. pc' \in {"ended", "found", "scan"}
    BY <2>1, <2>2
  <2>8. TypeOK'
    BY <1>0, <1>2, <2>2, <2>3, <2>5, <2>6, <2>7 DEF TypeOK, dongle
  <2>9. Quiet' /\ FailsOnlyMisread' /\ (pc' = "flush" => stage' = 1)
    BY <2>7 DEF Quiet, FailsOnlyMisread
  <2>. QED  BY <1>2, <2>3, <2>8, <2>9 DEF FailInv
<1>8. ASSUME NEW input \in Inputs, NEW code \in EndCodes, EndScan(input, code),
             UNCHANGED <<stage, found, runs, misread, crowded, old>>,
             raised' \in BOOLEAN, interrupted' \in BOOLEAN,
             pc' \in {"found", "stopping", "ended"}
      PROVE  FailInv'
  <2>1. rx' \in Inputs /\ linked' = linked /\ leaving' = leaving
        /\ reports' = reports /\ scanning' = FALSE
    BY <1>0, <1>8, EndScanTypes
  <2>2. TypeOK'
    BY <1>0, <1>2, <1>8, <2>1 DEF TypeOK, found
  <2>3. Quiet' /\ FailsOnlyMisread' /\ (pc' = "flush" => stage' = 1)
    BY <1>8 DEF Quiet, FailsOnlyMisread
  <2>. QED  BY <1>2, <2>1, <2>2, <2>3 DEF FailInv
<1>9. CASE Decide
  <2>1. UNCHANGED <<stage, found, runs, history>>
    BY <1>9 DEF Decide
  <2>2. raised' \in BOOLEAN /\ interrupted' \in BOOLEAN
        /\ UNCHANGED <<stage, found, runs, misread, crowded, old>>
    BY <1>0, <2>1 DEF TypeOK, history
  <2>3. CASE pc' = "stopping" /\ EndScan(rx, EndCode)
    BY <1>0, <1>8, <2>2, <2>3, EndCodesGood
  <2>. DEFINE answer == AnswerTo(EndProcedure, EndCode)
  <2>4. CASE pc' = "ended" /\ EndScan(rx \o answer, WrongState)
    <3>1. answer \in Inputs /\ Len(answer) > 0 /\ answer[1].last = FALSE
      BY EndCodesGood, EndAnswerTypes
    <3>. HIDE DEF answer
    <3>2. rx \o answer \in Inputs
      BY <1>0, <3>1, GoodConcat
    <3>. QED  BY <1>8, <2>2, <2>4, <3>2, EndCodesGood
  <2>. QED  BY <1>9, <2>3, <2>4 DEF Decide, Refuse
<1>10. CASE ReadEnd
  <2>1. PICK n \in 0..Len(rx) :
          /\ Read(EndProcedure, n)
          /\ IF Passes(EndProcedure, Bytes(n))
             THEN pc' = "connect" /\ rx' = Taken(n) /\ UNCHANGED dongle
             ELSE pc' = "failed" /\ EndScan(Dropped(n), EndCode)
    BY <1>10 DEF ReadEnd
  <2>2. UNCHANGED <<stage, found, runs, raised, interrupted, crowded, old>>
    BY <1>10 DEF ReadEnd
  <2>3. misread' \in BOOLEAN
    BY <1>0, <2>1 DEF Read, TypeOK
  <2>4. CASE Passes(EndProcedure, Bytes(n))
    <3>1. pc' = "connect" /\ rx' \in Inputs /\ UNCHANGED dongle
      BY <1>3, <2>1, <2>4 DEF Taken
    <3>2. TypeOK'
      BY <1>0, <1>2, <2>2, <2>3, <3>1 DEF TypeOK, found, dongle
    <3>3. Quiet' /\ FailsOnlyMisread' /\ (pc' = "flush" => stage' = 1)
      BY <3>1 DEF Quiet, FailsOnlyMisread
    <3>. QED  BY <1>2, <3>1, <3>2, <3>3 DEF FailInv
  <2>5. CASE ~Passes(EndProcedure, Bytes(n))
    <3>1. pc' = "failed" /\ EndScan(Dropped(n), EndCode)
      BY <2>1, <2>5
    <3>2. rx' \in Inputs /\ linked' = linked /\ leaving' = leaving
          /\ reports' = reports /\ scanning' = FALSE
      BY <1>0, <1>3, <3>1, EndScanTypes, EndCodesGood
    <3>3. misread' = TRUE
      <4>1. EndProcedure = Exchanges[3] /\ 3 \in 1..6
        BY ExchangeFacts
      <4>. QED  BY <1>0, <2>1, <2>5, <4>1, RefusedIsMisread
    <3>4. TypeOK'
      BY <1>0, <1>2, <2>2, <2>3, <3>1, <3>2 DEF TypeOK, found
    <3>5. Quiet' /\ FailsOnlyMisread' /\ (pc' = "flush" => stage' = 1)
      BY <3>1, <3>3 DEF Quiet, FailsOnlyMisread
    <3>. QED  BY <1>2, <3>2, <3>4, <3>5 DEF FailInv
  <2>. QED  BY <2>4, <2>5
<1>11. CASE Interrupt
  <2>1. UNCHANGED <<stage, found, runs, misread, crowded, old>>
    BY <1>11 DEF Interrupt
  <2>2. CASE pc' = "ended" /\ raised' = TRUE /\ UNCHANGED <<rx, dongle, interrupted>>
    <3>1. TypeOK'
      BY <1>0, <2>1, <2>2 DEF TypeOK, found, dongle
    <3>2. Quiet' /\ FailsOnlyMisread' /\ (pc' = "flush" => stage' = 1)
      BY <2>2 DEF Quiet, FailsOnlyMisread
    <3>. QED  BY <1>0, <1>2, <2>2, <3>1, <3>2 DEF FailInv
  <2>3. CASE pc' = "found" /\ interrupted' = TRUE /\ EndScan(rx, EndCode) /\ UNCHANGED raised
    <3>1. raised' \in BOOLEAN /\ interrupted' \in BOOLEAN
      BY <1>0, <2>3 DEF TypeOK
    <3>. QED  BY <1>0, <1>8, <2>1, <2>3, <3>1, EndCodesGood
  <2>4. CASE pc' = "ended" /\ EndScan(rx, EndCode) /\ UNCHANGED <<raised, interrupted>>
    <3>1. raised' \in BOOLEAN /\ interrupted' \in BOOLEAN
      BY <1>0, <2>4 DEF TypeOK
    <3>. QED  BY <1>0, <1>8, <2>1, <2>4, <3>1, EndCodesGood
  <2>. QED  BY <1>11, <2>2, <2>3, <2>4 DEF Interrupt
<1>12. CASE Restart
  <2>1. runs' \in 1..MaxRuns
    BY <1>0, <1>12, ScanAssumption DEF Restart, TypeOK
  <2>2. linked' \in BOOLEAN
    BY <1>0, <1>12 DEF Restart, TypeOK
  <2>3. /\ pc' = "flush" /\ stage' = 1 /\ UUID' = "none" /\ sender' = 0
        /\ misread' = FALSE /\ raised' = FALSE /\ interrupted' = FALSE
        /\ crowded' = FALSE /\ old' = 0 /\ UNCHANGED <<rx, scanning, leaving, reports>>
    BY <1>12 DEF Restart
  <2>4. TypeOK'
    <3>1. stage' \in 1..Len(Exchanges) /\ sender' \in 0..255
      BY <1>1, <2>3
    <3>. QED  BY <1>0, <2>1, <2>2, <2>3, <3>1 DEF TypeOK
  <2>5. Quiet' /\ FailsOnlyMisread' /\ (pc' = "flush" => stage' = 1)
    BY <2>3 DEF Quiet, FailsOnlyMisread
  <2>. QED  BY <1>0, <1>2, <2>3, <2>4, <2>5 DEF FailInv
<1>13. CASE SendReport
  <2>1. PICK heard \in Heard : rx' = rx \o Report(heard[1], heard[2])
    BY <1>13 DEF SendReport
  <2>2. rx' \in Inputs
    <3>. DEFINE e == Report(heard[1], heard[2])
    <3>1. e \in Inputs /\ Len(e) > 0 /\ e[1].last = FALSE
      BY GoodEvent
    <3>. HIDE DEF e
    <3>. QED  BY <1>0, <2>1, <3>1, GoodConcat DEF e
  <2>3. reports' \in 0..MaxReports
    BY <1>0, <1>13, ScanAssumption DEF SendReport, TypeOK
  <2>4. UNCHANGED <<pc, stage, found, scanning, linked, leaving, runs, history>>
    BY <1>13 DEF SendReport
  <2>5. TypeOK'
    BY <1>0, <1>2, <2>2, <2>3, <2>4 DEF TypeOK, found, history
  <2>6. Quiet' /\ FailsOnlyMisread' /\ (pc' = "flush" => stage' = 1)
    BY <1>0, <2>4 DEF Quiet, FailsOnlyMisread, history
  <2>. QED  BY <1>2, <2>2, <2>5, <2>6 DEF FailInv
<1>14. CASE SendDisconnected
  <2>1. rx' = rx \o Event("gone", 3, 4, <<0, 22, 2>>) /\ leaving' = FALSE
        /\ UNCHANGED <<pc, stage, found, scanning, linked, reports, runs, history>>
    BY <1>14 DEF SendDisconnected
  <2>2. rx' \in Inputs
    <3>. DEFINE e == Event("gone", 3, 4, <<0, 22, 2>>)
    <3>1. e \in Inputs /\ Len(e) > 0 /\ e[1].last = FALSE
      BY GoodEvent
    <3>. HIDE DEF e
    <3>. QED  BY <1>0, <2>1, <3>1, GoodConcat DEF e
  <2>3. TypeOK'
    BY <1>0, <1>2, <2>1, <2>2, ZenonT(40) DEF TypeOK, found, history
  <2>4. Quiet' /\ FailsOnlyMisread' /\ (pc' = "flush" => stage' = 1)
    BY <1>0, <2>1 DEF Quiet, FailsOnlyMisread, history
  <2>. QED  BY <1>2, <2>2, <2>3, <2>4 DEF FailInv
<1>15. CASE UNCHANGED vars
  <2>1. TypeOK'
    BY <1>0, <1>15 DEF TypeOK, vars
  <2>2. Quiet' /\ FailsOnlyMisread' /\ (pc' = "flush" => stage' = 1)
    BY <1>0, <1>15 DEF Quiet, FailsOnlyMisread, vars
  <2>. QED  BY <1>0, <1>2, <1>15, <2>1, <2>2 DEF FailInv, vars
<1>. QED
  BY <1>4, <1>5, <1>6, <1>7, <1>9, <1>10, <1>11, <1>12, <1>13, <1>14, <1>15 DEF Next

(* All variables of the model keep their types, whatever the input holds    *)
(* and wherever in a packet the reader of reports starts                    *)
(* (MyoConnectionTest.py up to the connection, ble_event_gap_scan_response).*)
THEOREM ScanTypes == Spec => []TypeOK
<1>1. FailInv => TypeOK
  BY DEF FailInv
<1>. QED  BY <1>1, FailInit, FailNext, PTL DEF Spec

(* In whatever state a session finds the dongle and however often it was   *)
(* started, none of the commands up to the scan is refused: the script fails *)
(* only if a read took other bytes than those of its answer                *)
(* (MyoConnectionTest.py, the six exchanges and the end of the scan).      *)
THEOREM OnlyMisreadFails == Spec => []FailsOnlyMisread
<1>1. FailInv => FailsOnlyMisread
  BY DEF FailInv
<1>. QED  BY <1>1, FailInit, FailNext, PTL DEF Spec

-----------------------------------------------------------------------------
(* The device found.  The reader of reports starts at a byte that looks like *)
(* the type of an event, and no byte in the input does that is not one: so  *)
(* what it reads are whole events, whatever of an earlier one is in front.  *)

(* A scan report of four bytes, from p on; a service of the armband is only *)
(* in a report of the armband.                                             *)
ReportAt(s, p) ==
  /\ p + 7 <= Len(s)
  /\ s[p + 1].b = 4 /\ s[p + 2].b = ReportClass /\ s[p + 7].last
  /\ s[p + 7].b = MyoService => s[p + 6].b = Myo

(* The closed connection of an earlier session. *)
OtherAt(s, p) ==
  /\ p + 6 <= Len(s)
  /\ s[p + 1].b = 3 /\ s[p + 2].b # ReportClass /\ s[p + 6].last

EventsWhole(s) ==
  \A p \in 1..Len(s) : s[p].b = EventType => ReportAt(s, p) \/ OtherAt(s, p)

(* What the reader has in hand after k bytes of s: nothing, or the bytes of *)
(* an event up to there.                                                   *)
Holds(s, k, r, m) ==
  /\ m = Len(r.buf) /\ m <= k
  /\ m > 0 => s[k - m + 1].b = EventType
  /\ \A j \in 1..m : r.buf[j] = s[(k - m) + j].b
  /\ r.expected = IF m < 2 THEN 0 ELSE 4 + s[k - m + 2].b
InHand(s, k, r) ==
  LET m == Len(r.buf)
  IN  Holds(s, k, r, m) /\ (m < 2 \/ m < r.expected)

Marked(s, q) == \E i \in 1..q : s[i].last
MarkedTwice(s, q) == \E i, j \in 1..q : i < j /\ s[i].last /\ s[j].last

(* What the reader has found is of events that ended in the first q bytes. *)
Told(s, q, scan) ==
  /\ scan.UUID # "none" => Marked(s, q)
  /\ scan.UUID = "myo" => scan.sender = Myo \/ MarkedTwice(s, q)

Knows(s, k, scan) ==
  scan.raised \/ (InHand(s, k, scan.reader) /\ Told(s, k - Len(scan.reader.buf), scan))

LEMMA ToldOn ==
  ASSUME NEW s, NEW q \in Nat, NEW n \in Nat, q <= n, NEW scan, Told(s, q, scan)
  PROVE  Told(s, n, scan)
<1>1. 1..q \subseteq 1..n
  OBVIOUS
<1>. QED  BY <1>1 DEF Told, Marked, MarkedTwice

LEMMA WholeEvent ==
  ASSUME NEW s \in Seq(Cells), EventsWhole(s), NEW p \in 1..Len(s), s[p].b = EventType
  PROVE  /\ s[p + 1].b \in {3, 4} /\ p + 3 + s[p + 1].b <= Len(s)
         /\ s[p + 3 + s[p + 1].b].last
         /\ s[p + 2].b = ReportClass =>
              s[p + 1].b = 4 /\ (s[p + 7].b = MyoService => s[p + 6].b = Myo)
<1>1. p \in Nat /\ p + 3 + 4 = p + 7 /\ p + 3 + 3 = p + 6
  OBVIOUS
<1>2. ReportAt(s, p) \/ OtherAt(s, p)
  BY DEF EventsWhole
<1>3. CASE ReportAt(s, p)
  BY <1>1, <1>3 DEF ReportAt
<1>4. CASE OtherAt(s, p)
  BY <1>1, <1>4 DEF OtherAt
<1>. QED  BY <1>2, <1>3, <1>4

(* A whole event in hand. *)
LEMMA EventKnown ==
  ASSUME NEW s \in Seq(Cells), EventsWhole(s), NEW k \in 1..Len(s),
         NEW scan \in Scans, ~scan.raised, NEW r \in Readers, NEW m \in Nat,
         Holds(s, k, r, m), m >= 2, m = r.expected, Told(s, k - m, scan)
  PROVE  WithEvent(scan, r).raised \/ Told(s, k, WithEvent(scan, r))
<1>. DEFINE p == (k - m) + 1
            payload == Payload(r)
            field == payload[ReportLen]
            new == WithEvent(scan, r)
<1>0. k \in Nat /\ m \in Nat /\ m <= k /\ p \in Nat /\ p \in 1..Len(s) /\ p = (k - m) + 1
      /\ p + 1 = k - m + 2
  <2>1. m <= k /\ k \in Nat /\ k <= Len(s) /\ Len(s) \in Nat
    BY DEF Holds
  <2>. QED  BY <2>1
<1>1. s[p].b = EventType /\ r.expected = 4 + s[p + 1].b
  <2>1. m > 0 /\ ~(m < 2)
    OBVIOUS
  <2>2. s[k - m + 1].b = EventType /\ r.expected = 4 + s[k - m + 2].b
    BY <2>1 DEF Holds
  <2>. HIDE DEF p
  <2>. QED  BY <1>0, <2>2
<1>. HIDE DEF p
<1>2. /\ s[p + 1].b \in {3, 4} /\ s[p + 3 + s[p + 1].b].last
      /\ s[p + 2].b = ReportClass =>
           s[p + 1].b = 4 /\ (s[p + 7].b = MyoService => s[p + 6].b = Myo)
  BY <1>0, <1>1, WholeEvent
<1>3. p + 3 + s[p + 1].b = k /\ k - m \in Nat /\ k - m < k /\ m >= 7
  <2>. DEFINE l == s[p + 1].b
  <2>1. m = 4 + l /\ l \in {3, 4}
    BY <1>1, <1>2
  <2>. HIDE DEF l
  <2>2. p + 3 + l = k /\ k - m \in Nat /\ k - m < k /\ m >= 7
    BY <1>0, <2>1
  <2>. QED  BY <2>2 DEF l
<1>11. k - m \in Nat /\ k - m <= k /\ k - m < k /\ m >= 7
  BY <1>3
<1>4. s[k].last
  BY <1>2, <1>3
<1>5. \A j \in 1..m : r.buf[j] = s[(k - m) + j].b
  BY DEF Holds
<1>6. r.buf[3] = s[p + 2].b
  <2>1. 3 \in 1..m /\ (k - m) + 3 = p + 2
    BY <1>0, <1>11, SMTT(30)
  <2>. QED  BY <1>5, <2>1
<1>7. Told(s, k, scan)
  BY <1>0, <1>11, ToldOn
<1>8. CASE r.buf[3] # ReportClass
  <2>1. new = [scan EXCEPT !.find = TRUE]
    BY <1>8 DEF WithEvent
  <2>2. new.UUID = scan.UUID /\ new.sender = scan.sender
    BY <2>1 DEF Scans
  <2>. QED  BY <1>7, <2>2 DEF Told
<1>9. CASE r.buf[3] = ReportClass
  <2>1. m = 8 /\ (s[p + 7].b = MyoService => s[p + 6].b = Myo)
    BY <1>1, <1>2, <1>6, <1>9
  <2>2. r.buf[7] = s[p + 6].b /\ r.buf[8] = s[p + 7].b
    <3>1. 7 \in 1..m /\ 8 \in 1..m /\ (k - m) + 7 = p + 6 /\ (k - m) + 8 = p + 7
      BY <1>0, <2>1
    <3>. QED  BY <1>5, <3>1
  <2>3. Len(payload) = 4 /\ payload[3] = r.buf[7] /\ field = r.buf[8]
    <3>1. r.buf \in Seq(Bytes255) /\ Len(r.buf) = 8
      BY <2>1 DEF Readers, Holds
    <3>. QED  BY <3>1 DEF Payload, ReportLen
  <2>. HIDE DEF payload, field
  <2>4. CASE field = Manufacturer
    <3>1. new = [scan EXCEPT !.raised = TRUE]
      BY <1>9, <2>4 DEF WithEvent, payload, field
    <3>. QED  BY <3>1 DEF Scans
  <2>5. CASE field # Manufacturer
    <3>. DEFINE u == CASE field = MyoService -> "myo"
                       [] field = OtherService -> "other"
                       [] OTHER -> scan.UUID
    <3>1. new = [scan EXCEPT !.find = TRUE, !.sender = payload[3], !.UUID = u]
      <4>1. ~(Len(payload) < ReportLen)
        BY <2>3 DEF ReportLen
      <4>. QED  BY <1>9, <2>5, <4>1 DEF WithEvent, payload, field
    <3>. HIDE DEF u
    <3>2. new.UUID = u /\ new.sender = payload[3]
      BY <3>1 DEF Scans
    <3>3. Marked(s, k)
      BY <1>0, <1>4 DEF Marked
    <3>4. CASE u = "myo" /\ field # MyoService
      <4>1. scan.UUID = "myo"
        BY <3>4 DEF u
      <4>2. Marked(s, k - m)
        BY <4>1 DEF Told
      <4>3. MarkedTwice(s, k)
        <5>1. PICK i \in 1..(k - m) : s[i].last
          BY <4>2 DEF Marked
        <5>2. i \in 1..k /\ k \in 1..k /\ i < k
          BY <1>0, <1>11, SMTT(30)
        <5>. QED  BY <1>4, <5>1, <5>2 DEF MarkedTwice
      <4>. QED  BY <3>2, <3>3, <4>3 DEF Told
    <3>5. CASE field = MyoService
      BY <2>1, <2>2, <2>3, <3>2, <3>3, <3>5 DEF Told
    <3>6. CASE u # "myo"
      BY <3>2, <3>3, <3>6 DEF Told
    <3>. QED  BY <3>4, <3>5, <3>6
  <2>. QED  BY <2>4, <2>5
<1>. QED  BY <1>8, <1>9

LEMMA StepKnows ==
  ASSUME NEW s \in Seq(Cells), EventsWhole(s), NEW k \in 1..Len(s),
         NEW scan \in Scans, Knows(s, k - 1, scan)
  PROVE  Knows(s, k, ScanByte(scan, s[k].b))
<1>. DEFINE r == ReportByte(scan.reader, s[k].b)
            new == ScanByte(scan, s[k].b)
            m == Len(scan.reader.buf)
<1>1. CASE scan.raised
  BY <1>1 DEF ScanByte, Knows
<1>2. CASE ~scan.raised
  <2>1. InHand(s, k - 1, scan.reader) /\ Told(s, (k - 1) - m, scan)
    BY <1>2 DEF Knows
  <2>2. s[k].b \in Bytes255 /\ s[k].b \in Int
    <3>1. s[k] \in Cells
      OBVIOUS
    <3>2. s[k].b \in 0..255
      BY <3>1, CellByte
    <3>3. \A b \in 0..255 : b \in Int
      OBVIOUS
    <3>. QED  BY <3>2, <3>3 DEF Bytes255
  <2>3. r \in Readers /\ scan.reader \in Readers /\ scan.reader.buf \in Seq(Bytes255)
    BY <2>2, ReportByteType DEF Scans, Readers
  <2>4. m \in Nat /\ k \in Nat /\ Len(s) \in Nat /\ k - 1 \in Nat
    BY <2>3
  <2>5. /\ m <= k - 1
        /\ m > 0 => s[(k - 1) - m + 1].b = EventType
        /\ \A j \in 1..m : scan.reader.buf[j] = s[((k - 1) - m) + j].b
        /\ scan.reader.expected = IF m < 2 THEN 0 ELSE 4 + s[(k - 1) - m + 2].b
        /\ m < 2 \/ m < scan.reader.expected
    BY <2>1 DEF InHand, Holds
  <2>. HIDE DEF r, m
  <2>6. ASSUME ~Complete(r), InHand(s, k, r), Told(s, k - Len(r.buf), scan)
        PROVE  Knows(s, k, new)
    <3>1. new = [scan EXCEPT !.reader = r]
      BY <1>2, <2>6 DEF ScanByte, r
    <3>2. new.reader = r /\ new.UUID = scan.UUID /\ new.sender = scan.sender
      BY <3>1 DEF Scans
    <3>. HIDE DEF new
    <3>. QED  BY <2>6, <3>2 DEF Knows, Told
  <2>7. CASE m = 0 /\ s[k].b # EventType
    <3>1. r = scan.reader
      BY <2>7 DEF r, m, ReportByte
    <3>2. Len(r.buf) = 0 /\ r.expected = 0 /\ ~Complete(r)
      BY <2>5, <2>7, <3>1 DEF m, Complete
    <3>3. Holds(s, k, r, 0)
      BY <2>4, <3>2 DEF Holds
    <3>4. Told(s, k - 0, scan)
      <4>1. (k - 1) - m = k - 1 /\ k - 0 = k /\ k - 1 <= k
        BY <2>4, <2>7
      <4>. QED  BY <2>1, <2>4, <4>1, ToldOn
    <3>. QED  BY <2>6, <3>2, <3>3, <3>4 DEF InHand
  <2>8. CASE m = 0 /\ s[k].b = EventType
    <3>1. r = Collect(scan.reader, s[k].b)
      BY <2>8 DEF r, m, ReportByte
    <3>2. r.expected = 0 /\ r.buf = Append(scan.reader.buf, s[k].b)
      BY <2>3, <2>5, <2>8, <3>1 DEF Collect, Readers
    <3>3. Len(r.buf) = 1 /\ r.buf[1] = s[k].b
      BY <2>2, <2>3, <2>8, <3>2 DEF m
    <3>4. ~Complete(r)
      BY <3>2 DEF Complete
    <3>5. Holds(s, k, r, 1)
      <4>1. k - 1 + 1 = k /\ 1 <= k
        BY <2>4
      <4>2. \A j \in 1..1 : r.buf[j] = s[(k - 1) + j].b
        BY <3>3, <4>1
      <4>. QED  BY <2>8, <3>2, <3>3, <4>1, <4>2 DEF Holds
    <3>6. (k - 1) - m = k - 1
      BY <2>4, <2>8
    <3>. QED  BY <2>1, <2>6, <3>3, <3>4, <3>5, <3>6 DEF InHand
  <2>9. CASE m > 0
    <3>1. r.buf = Append(scan.reader.buf, s[k].b)
          /\ r.expected = IF m = 1 THEN 4 + s[k].b ELSE scan.reader.expected
      <4>1. CASE m = 1
        BY <4>1 DEF r, m, ReportByte, Sized
      <4>2. CASE m # 1
        <5>1. r = Collect(scan.reader, s[k].b)
          BY <2>4, <2>9, <4>2 DEF r, m, ReportByte
        <5>. QED  BY <2>3, <4>2, <5>1 DEF Collect, Readers
      <4>. QED  BY <4>1, <4>2
    <3>2. Len(r.buf) = m + 1 /\ r.buf[m + 1] = s[k].b
          /\ \A j \in 1..m : r.buf[j] = scan.reader.buf[j]
      BY <2>2, <2>3, <3>1 DEF m
    <3>3. /\ m + 1 \in Nat /\ m + 1 >= 2 /\ m + 1 <= k /\ k - (m + 1) = (k - 1) - m
          /\ ~(m + 1 < 2) /\ m + 1 > 0 /\ ((k - 1) - m) + (m + 1) = k
          /\ m = 1 => (k - 1) - m + 2 = k
      <4>1. m <= k - 1 /\ m > 0
        BY <2>5, <2>9
      <4>. QED  BY <2>4, <4>1
    <3>4. \A j \in 1..(m + 1) : r.buf[j] = s[((k - 1) - m) + j].b
      <4>1. \A j \in 1..(m + 1) : j \in 1..m \/ j = m + 1
        BY <2>4
      <4>. QED  BY <2>5, <3>2, <3>3, <4>1
    <3>5. r.expected = 4 + s[(k - 1) - m + 2].b
      <4>1. CASE m = 1
        BY <3>1, <3>3, <4>1
      <4>2. CASE m # 1
        <5>1. ~(m < 2)
          BY <2>4, <2>9, <4>2
        <5>. QED  BY <2>5, <3>1, <4>2, <5>1
      <4>. QED  BY <4>1, <4>2
    <3>6. Holds(s, k, r, m + 1)
      BY <2>5, <2>9, <3>2, <3>3, <3>4, <3>5 DEF Holds
    <3>7. m + 1 <= r.expected
      <4>1. CASE m = 1
        <5>. DEFINE b == s[k].b
        <5>1. r.expected = 4 + b /\ b \in 0..255
          BY <2>2, <3>1, <4>1 DEF Bytes255
        <5>. HIDE DEF b
        <5>. QED  BY <4>1, <5>1
      <4>2. CASE m # 1
        <5>1. m < scan.reader.expected /\ scan.reader.expected \in Nat
          BY <2>3, <2>4, <2>5, <2>9, <4>2, SMTT(30) DEF Readers
        <5>. QED  BY <2>4, <3>1, <4>2, <5>1
      <4>. QED  BY <4>1, <4>2
    <3>8. Told(s, k - (m + 1), scan)
      BY <2>1, <3>3
    <3>9. CASE m + 1 = r.expected
      <4>1. Complete(r)
        BY <3>2, <3>3, <3>9 DEF Complete
      <4>2. new = [WithEvent(scan, r) EXCEPT !.reader = Fresh]
        BY <1>2, <4>1 DEF ScanByte, r
      <4>3. WithEvent(scan, r).raised \/ Told(s, k, WithEvent(scan, r))
        BY <1>2, <2>3, <3>3, <3>6, <3>8, <3>9, EventKnown
      <4>4. WithEvent(scan, r) \in Scans
        BY WithEventType, <2>3
      <4>. DEFINE w == WithEvent(scan, r)
      <4>. HIDE DEF w
      <4>5. new = [w EXCEPT !.reader = Fresh] /\ w \in Scans /\ (w.raised \/ Told(s, k, w))
        BY <4>2, <4>3, <4>4 DEF w
      <4>. HIDE DEF new
      <4>6. new.raised = w.raised /\ new.UUID = w.UUID /\ new.sender = w.sender
            /\ new.reader = Fresh
        BY <4>5 DEF Scans
      <4>7. Len(Fresh.buf) = 0 /\ Fresh.expected = 0
        BY DEF Fresh
      <4>8. InHand(s, k, Fresh)
        BY <2>4, <4>7 DEF InHand, Holds
      <4>9. k - 0 = k
        BY <2>4
      <4>10. Told(s, k - Len(new.reader.buf), new) \/ new.raised
        BY <4>5, <4>6, <4>7, <4>9 DEF Told
      <4>11. Knows(s, k, new)
        BY <4>6, <4>8, <4>10 DEF Knows
      <4>. QED  BY <4>11 DEF new
    <3>10. CASE m + 1 # r.expected
      <4>1. ~Complete(r)
        BY <3>2, <3>10 DEF Complete
      <4>2. m + 1 < r.expected
        BY <2>3, <2>4, <3>7, <3>10 DEF Readers
      <4>3. InHand(s, k, r)
        BY <3>2, <3>6, <4>2 DEF InHand
      <4>. QED  BY <2>6, <3>2, <3>8, <4>1, <4>3
    <3>. QED  BY <3>9, <3>10
  <2>. QED  BY <2>4, <2>7, <2>8, <2>9
<1>. QED  BY <1>1, <1>2

(* A call of the reader, on the first bytes of the input.                  *)
LEMMA CallKnows ==
  ASSUME NEW s \in Seq(Cells), EventsWhole(s), NEW n \in 1..Len(s)
  PROVE  LET scan == ScanOf(SubSeq(s, 1, n))
         IN  scan.raised \/ Told(s, n, scan)
<1>. DEFINE input == SubSeq(s, 1, n)
<1>1. n \in Nat /\ Len(s) \in Nat /\ \A k \in 1..n : k \in 1..Len(s)
  OBVIOUS
<1>2. input \in Seq(Cells) /\ Len(input) = n /\ \A k \in 1..n : input[k] = s[k]
  <2>1. \A k \in 1..n : s[k] \in Cells
    BY <1>1
  <2>. QED  BY <1>1, <2>1, SubSeqProperties
<1>. HIDE DEF input
<1>3. PICK scan : /\ scan[0] = StartScan
                  /\ \A k \in 1..n : scan[k] = ScanByte(scan[k - 1], input[k].b)
                  /\ \A k \in 0..n : scan[k] \in Scans
                  /\ ScanOf(input) = scan[n]
  BY <1>2, ScanRun
<1>. DEFINE S == {k \in 0..n : Knows(s, k, scan[k])}
<1>4. 0 \in S
  <2>1. StartScan.reader = Fresh /\ StartScan.UUID = "none"
    BY DEF StartScan
  <2>2. Len(Fresh.buf) = 0 /\ Fresh.expected = 0
    BY DEF Fresh
  <2>3. InHand(s, 0, Fresh)
    BY <2>2 DEF InHand, Holds
  <2>4. Knows(s, 0, StartScan)
    BY <2>1, <2>3 DEF Knows, Told
  <2>. QED  BY <1>1, <1>3, <2>4
<1>5. ASSUME NEW k \in 1..n, k - 1 \in S PROVE k \in S
  <2>1. k \in 1..Len(s) /\ k - 1 \in 0..n /\ k \in 0..n
    BY <1>1
  <2>2. Knows(s, k - 1, scan[k - 1]) /\ scan[k - 1] \in Scans
    BY <1>3, <1>5, <2>1
  <2>3. scan[k] = ScanByte(scan[k - 1], s[k].b)
    BY <1>2, <1>3
  <2>4. Knows(s, k, scan[k])
    BY <2>1, <2>2, <2>3, StepKnows
  <2>. QED  BY <2>1, <2>4
<1>6. n \in S
  <2>1. n \in 0..n
    BY <1>1
  <2>. HIDE DEF S
  <2>2. 0..n \subseteq S
    BY <1>1, <1>4, <1>5, Climb
  <2>. QED  BY <2>1, <2>2
<1>. DEFINE last == scan[n]
            m == Len(last.reader.buf)
<1>7. Knows(s, n, last) /\ last \in Scans
  <2>1. n \in 0..n
    BY <1>1
  <2>. QED  BY <1>3, <1>6, <2>1
<1>. HIDE DEF last
<1>8. ASSUME ~last.raised PROVE Told(s, n, last)
  <2>1. InHand(s, n, last.reader) /\ Told(s, n - m, last)
    BY <1>7, <1>8 DEF Knows
  <2>2. m \in Nat
    <3>1. last.reader.buf \in Seq(Bytes255)
      BY <1>7 DEF Scans, Readers
    <3>. QED  BY <3>1
  <2>3. m <= n
    BY <2>1 DEF InHand, Holds
  <2>4. n - m \in Nat /\ n - m <= n
    BY <1>1, <2>2, <2>3
  <2>. QED  BY <1>1, <2>1, <2>4, ToldOn
<1>. QED  BY <1>3, <1>8 DEF last, input

(* Two marked bytes make a crowded call. *)
LEMMA TwoAreCrowded ==
  ASSUME NEW s, NEW n \in Nat, MarkedTwice(s, n)
  PROVE  Cardinality({i \in 1..n : s[i].last}) > 1
<1>. DEFINE T == {i \in 1..n : s[i].last}
<1>1. PICK i \in 1..n, j \in 1..n : i < j /\ s[i].last /\ s[j].last
  BY DEF MarkedTwice
<1>2. IsFiniteSet(T) /\ Cardinality(T) \in Nat
  <2>1. IsFiniteSet(1..n)
    BY FS_Interval
  <2>2. T \in SUBSET (1..n)
    OBVIOUS
  <2>. HIDE DEF T
  <2>3. IsFiniteSet(T)
    BY <2>1, <2>2, FS_Subset
  <2>. QED  BY <2>3, FS_CardinalityType
<1>3. i \in T /\ j \in T /\ i # j
  BY <1>1
<1>. HIDE DEF T
<1>4. Cardinality(T) # 0
  BY <1>2, <1>3, FS_EmptySet
<1>5. Cardinality(T) # 1
  BY <1>2, <1>3, FS_Singleton
<1>. QED  BY <1>2, <1>4, <1>5 DEF T

-----------------------------------------------------------------------------
(* The events in the input stay whole. *)

LEMMA WholeDropped ==
  ASSUME NEW s \in Seq(Cells), EventsWhole(s), NEW k \in 0..Len(s)
  PROVE  EventsWhole(SubSeq(s, k + 1, Len(s)))
<1>. DEFINE t == SubSeq(s, k + 1, Len(s))
<1>1. k \in Nat /\ Len(s) \in Nat /\ k <= Len(s)
  OBVIOUS
<1>2. Len(t) = Len(s) - k /\ \A i \in 1..Len(t) : t[i] = s[k + i]
  BY <1>1
<1>. HIDE DEF t
<1>3. \A p \in 1..Len(t) : k + p \in 1..Len(s)
  BY <1>1, <1>2
<1>4. ASSUME NEW p \in 1..Len(t), ReportAt(s, k + p) PROVE ReportAt(t, p)
  <2>1. /\ p + 1 \in 1..Len(t) /\ p + 2 \in 1..Len(t) /\ p + 6 \in 1..Len(t)
        /\ p + 7 \in 1..Len(t) /\ p + 7 <= Len(t)
        /\ (k + p) + 1 = k + (p + 1) /\ (k + p) + 2 = k + (p + 2)
        /\ (k + p) + 6 = k + (p + 6) /\ (k + p) + 7 = k + (p + 7)
    <3>1. (k + p) + 7 <= Len(s)
      BY <1>4 DEF ReportAt
    <3>. QED  BY <1>1, <1>2, <3>1
  <2>2. /\ t[p + 1] = s[(k + p) + 1] /\ t[p + 2] = s[(k + p) + 2]
        /\ t[p + 6] = s[(k + p) + 6] /\ t[p + 7] = s[(k + p) + 7]
    BY <1>2, <2>1
  <2>. QED  BY <1>4, <2>1, <2>2 DEF ReportAt
<1>5. ASSUME NEW p \in 1..Len(t), OtherAt(s, k + p) PROVE OtherAt(t, p)
  <2>1. /\ p + 1 \in 1..Len(t) /\ p + 2 \in 1..Len(t) /\ p + 6 \in 1..Len(t)
        /\ p + 6 <= Len(t)
        /\ (k + p) + 1 = k + (p + 1) /\ (k + p) + 2 = k + (p + 2)
        /\ (k + p) + 6 = k + (p + 6)
    <3>1. (k + p) + 6 <= Len(s)
      BY <1>5 DEF OtherAt
    <3>. QED  BY <1>1, <1>2, <3>1
  <2>2. /\ t[p + 1] = s[(k + p) + 1] /\ t[p + 2] = s[(k + p) + 2]
        /\ t[p + 6] = s[(k + p) + 6]
    BY <1>2, <2>1
  <2>. QED  BY <1>5, <2>1, <2>2 DEF OtherAt
<1>6. \A p \in 1..Len(t) : t[p] = s[k + p]
  BY <1>2
<1>. QED  BY <1>3, <1>4, <1>5, <1>6 DEF EventsWhole, t

LEMMA WholeConcat ==
  ASSUME NEW s \in Seq(Cells), EventsWhole(s), NEW t \in Seq(Cells), EventsWhole(t)
  PROVE  EventsWhole(s \o t)
<1>. DEFINE m == Len(s)
            n == Len(t)
            u == s \o t
<1>1. m \in Nat /\ n \in Nat /\ Len(u) = m + n
  OBVIOUS
<1>2. \A j \in 1..m : u[j] = s[j]
  OBVIOUS
<1>3. \A j \in 1..n : u[m + j] = t[j]
  OBVIOUS
<1>. HIDE DEF u
<1>4. ASSUME NEW p \in 1..m, u[p].b = EventType PROVE ReportAt(u, p) \/ OtherAt(u, p)
  <2>1. ReportAt(s, p) \/ OtherAt(s, p)
    BY <1>2, <1>4 DEF EventsWhole
  <2>. HIDE DEF m, n
  <2>2. CASE ReportAt(s, p)
    <3>1. p + 7 <= m
      BY <2>2 DEF ReportAt, m
    <3>2. /\ p + 1 \in 1..m /\ p + 2 \in 1..m /\ p + 6 \in 1..m /\ p + 7 \in 1..m
          /\ p + 7 <= m + n
      BY <1>1, <3>1
    <3>. QED  BY <1>1, <1>2, <2>2, <3>2 DEF ReportAt
  <2>3. CASE OtherAt(s, p)
    <3>1. p + 6 <= m
      BY <2>3 DEF OtherAt, m
    <3>2. p + 1 \in 1..m /\ p + 2 \in 1..m /\ p + 6 \in 1..m /\ p + 6 <= m + n
      BY <1>1, <3>1
    <3>. QED  BY <1>1, <1>2, <2>3, <3>2 DEF OtherAt
  <2>. QED  BY <2>1, <2>2, <2>3
<1>5. ASSUME NEW p \in (m + 1)..(m + n), u[p].b = EventType
      PROVE  ReportAt(u, p) \/ OtherAt(u, p)
  <2>. DEFINE q == p - m
  <2>1. q \in 1..n /\ p = m + q
    BY <1>1
  <2>. HIDE DEF q
  <2>2. ReportAt(t, q) \/ OtherAt(t, q)
    BY <1>3, <1>5, <2>1 DEF EventsWhole
  <2>. HIDE DEF m, n
  <2>3. CASE ReportAt(t, q)
    <3>1. q + 7 <= n
      BY <2>3 DEF ReportAt, n
    <3>2. /\ q + 1 \in 1..n /\ q + 2 \in 1..n /\ q + 6 \in 1..n /\ q + 7 \in 1..n
          /\ p + 7 <= m + n
          /\ p + 1 = m + (q + 1) /\ p + 2 = m + (q + 2)
          /\ p + 6 = m + (q + 6) /\ p + 7 = m + (q + 7)
      BY <1>1, <2>1, <3>1
    <3>3. /\ u[p + 1] = t[q + 1] /\ u[p + 2] = t[q + 2]
          /\ u[p + 6] = t[q + 6] /\ u[p + 7] = t[q + 7]
      BY <1>3, <3>2, SMTT(30)
    <3>. QED  BY <1>1, <2>3, <3>2, <3>3 DEF ReportAt
  <2>4. CASE OtherAt(t, q)
    <3>1. q + 6 <= n
      BY <2>4 DEF OtherAt, n
    <3>2. /\ q + 1 \in 1..n /\ q + 2 \in 1..n /\ q + 6 \in 1..n
          /\ p + 6 <= m + n
          /\ p + 1 = m + (q + 1) /\ p + 2 = m + (q + 2) /\ p + 6 = m + (q + 6)
      BY <1>1, <2>1, <3>1
    <3>3. u[p + 1] = t[q + 1] /\ u[p + 2] = t[q + 2] /\ u[p + 6] = t[q + 6]
      BY <1>3, <3>2
    <3>. QED  BY <1>1, <2>4, <3>2, <3>3 DEF OtherAt
  <2>. QED  BY <2>2, <2>3, <2>4
<1>6. \A p \in 1..(m + n) : p \in 1..m \/ p \in (m + 1)..(m + n)
  BY <1>1
<1>. HIDE DEF m, n
<1>. QED  BY <1>1, <1>4, <1>5, <1>6 DEF EventsWhole, u

(* Bytes that do not look like the type of an event. *)
Plain == Bytes255 \ {EventType}

LEMMA WholeAnswer ==
  ASSUME NEW i \in 1..6, NEW code \in Codes
  PROVE  EventsWhole(AnswerTo(Exchanges[i], code))
<1>. DEFINE x == Exchanges[i]
            payload == x.front \o Reverse(code)
            first == <<0, Len(payload), x.head[1], x.head[2]>>
            bytes == first \o payload
<1>1. \A b \in 0..127 : b \in Plain
  BY DEF Plain, Bytes255, EventType
<1>2. x.front \in Seq(Plain) /\ Len(x.front) \in 0..10
  <2>1. x.front = <<>> \/ x.front = <<0>> \/ x.front = [j \in 1..10 |-> 1]
    <3>1. i = 1 \/ i = 2 \/ i = 3 \/ i = 4 \/ i = 5 \/ i = 6
      OBVIOUS
    <3>2. Exchanges[1].front = <<0>>
      BY DEF Exchanges
    <3>3. Exchanges[2].front = <<>> /\ Exchanges[3].front = <<>>
          /\ Exchanges[5].front = <<>> /\ Exchanges[6].front = <<>>
      BY DEF Exchanges
    <3>4. Exchanges[4].front = [j \in 1..10 |-> 1]
      BY DEF Exchanges
    <3>. QED  BY <3>1, <3>2, <3>3, <3>4, Zenon
  <2>. HIDE DEF x
  <2>2. 0 \in Plain /\ 1 \in Plain
    BY <1>1
  <2>3. CASE x.front = <<>>
    BY <2>3
  <2>4. CASE x.front = <<0>>
    BY <2>2, <2>4
  <2>5. CASE x.front = [j \in 1..10 |-> 1]
    <3>1. [j \in 1..10 |-> 1] \in Seq(Plain) /\ Len([j \in 1..10 |-> 1]) = 10
      BY <2>2
    <3>2. 10 \in 0..10
      OBVIOUS
    <3>. QED  BY <2>5, <3>1, <3>2
  <2>. QED  BY <2>1, <2>3, <2>4, <2>5
<1>3. Reverse(code) \in Seq(Plain) /\ Len(Reverse(code)) = 2
  <2>1. 0 \in Plain /\ 1 \in Plain /\ 129 \in Plain /\ 134 \in Plain
    BY DEF Plain, Bytes255, EventType
  <2>2. PICK u \in Plain, v \in Plain : code = <<u, v>>
    <3>1. code = <<0, 0>> \/ code = <<1, 134>> \/ code = <<1, 129>>
      BY DEF Codes, Success, NotConnected, WrongState
    <3>. QED  BY <2>1, <3>1
  <2>3. Reverse(code) = [k \in 1..2 |-> code[(2 - k) + 1]]
    BY <2>2 DEF Reverse
  <2>4. [k \in 1..2 |-> code[(2 - k) + 1]] = <<v, u>>
    BY <2>2
  <2>. QED  BY <2>3, <2>4
<1>4. x.head[1] \in Plain /\ x.head[2] \in Plain
  <2>1. x.head \in {<<3, 0>>, <<6, 1>>, <<6, 4>>, <<0, 8>>, <<6, 7>>, <<6, 2>>}
    BY DEF Exchanges
  <2>. HIDE DEF x
  <2>2. x.head[1] \in 0..127 /\ x.head[2] \in 0..127
    BY <2>1
  <2>. QED  BY <1>1, <2>2
<1>5. x.name \in Names
  BY ExchangeFacts
<1>6. AnswerTo(x, code) = Packet(x.name, bytes)
  BY DEF AnswerTo, Response, ResponseType
<1>. HIDE DEF x
<1>7. payload \in Seq(Plain) /\ Len(payload) \in 2..12
  <2>1. payload \in Seq(Plain) /\ Len(payload) = Len(x.front) + Len(Reverse(code))
    BY <1>2, <1>3, ConcatProperties
  <2>2. \A l \in 0..10 : l + 2 \in 2..12
    OBVIOUS
  <2>3. Len(payload) = Len(x.front) + 2
    BY <1>3, <2>1
  <2>. HIDE DEF payload
  <2>. QED  BY <1>2, <2>1, <2>2, <2>3
<1>. HIDE DEF payload
<1>8. first \in Seq(Plain)
  <2>1. 0 \in Plain /\ Len(payload) \in Plain
    <3>1. \A l \in 2..12 : l \in 0..127
      OBVIOUS
    <3>2. Len(payload) \in 0..127 /\ 0 \in 0..127
      BY <1>7, <3>1
    <3>. QED  BY <1>1, <3>2
  <2>. QED  BY <1>4, <2>1
<1>. HIDE DEF first
<1>9. bytes \in Seq(Plain)
  BY <1>7, <1>8, ConcatProperties
<1>. HIDE DEF bytes
<1>10. bytes \in Seq(Bytes255) /\ \A j \in 1..Len(bytes) : bytes[j] # EventType
  BY <1>9 DEF Plain
<1>. DEFINE a == AnswerTo(x, code)
<1>11. Len(a) = Len(bytes) /\ \A j \in 1..Len(bytes) : a[j].b = bytes[j]
  BY <1>5, <1>6, <1>10, PacketIsCells
<1>. HIDE DEF a
<1>. QED  BY <1>10, <1>11 DEF EventsWhole, a, x

(* A packet whose first byte alone looks like the type of an event. *)
LEMMA WholePacket ==
  ASSUME NEW kind \in {"report", "gone"}, NEW bytes \in Seq(Bytes255),
         \A j \in 2..Len(bytes) : bytes[j] # EventType,
         \/ /\ Len(bytes) = 8 /\ bytes[2] = 4 /\ bytes[3] = ReportClass
            /\ bytes[8] = MyoService => bytes[7] = Myo
         \/ Len(bytes) = 7 /\ bytes[2] = 3 /\ bytes[3] # ReportClass
  PROVE  EventsWhole(Packet(kind, bytes))
<1>. DEFINE e == Packet(kind, bytes)
            n == Len(bytes)
<1>1. kind \in Names \cup {"report", "gone"}
  OBVIOUS
<1>2. /\ Len(e) = n
      /\ \A j \in 1..n : e[j].b = bytes[j] /\ e[j].last = (j = n)
  BY <1>1, PacketIsCells
<1>. HIDE DEF e
<1>3. ASSUME NEW p \in 1..n, e[p].b = EventType PROVE p = 1
  <2>1. p = 1 \/ p \in 2..n
    OBVIOUS
  <2>. QED  BY <1>2, <1>3, <2>1
<1>4. CASE /\ n = 8 /\ bytes[2] = 4 /\ bytes[3] = ReportClass
           /\ bytes[8] = MyoService => bytes[7] = Myo
  <2>1. 2 \in 1..n /\ 3 \in 1..n /\ 7 \in 1..n /\ 8 \in 1..n
    BY <1>4
  <2>2. e[2].b = 4 /\ e[3].b = ReportClass /\ e[8].last /\ e[8].b = bytes[8] /\ e[7].b = bytes[7]
    BY <1>2, <1>4, <2>1
  <2>3. 1 + 7 = 8 /\ 1 + 1 = 2 /\ 1 + 2 = 3 /\ 1 + 6 = 7
    OBVIOUS
  <2>4. ReportAt(e, 1)
    BY <1>2, <1>4, <2>2, <2>3 DEF ReportAt
  <2>. QED  BY <1>2, <1>3, <2>4 DEF EventsWhole, e
<1>5. CASE n = 7 /\ bytes[2] = 3 /\ bytes[3] # ReportClass
  <2>1. 2 \in 1..n /\ 3 \in 1..n /\ 7 \in 1..n
    BY <1>5
  <2>2. e[2].b = 3 /\ e[3].b # ReportClass /\ e[7].last
    BY <1>2, <1>5, <2>1
  <2>3. 1 + 1 = 2 /\ 1 + 2 = 3 /\ 1 + 6 = 7
    OBVIOUS
  <2>4. OtherAt(e, 1)
    BY <1>2, <1>5, <2>2, <2>3 DEF OtherAt
  <2>. QED  BY <1>2, <1>3, <2>4 DEF EventsWhole, e
<1>. QED  BY <1>4, <1>5

LEMMA WholeReport ==
  ASSUME NEW heard \in Heard
  PROVE  EventsWhole(Report(heard[1], heard[2]))
<1>. DEFINE d == heard[1]
            f == heard[2]
            bytes == <<128, 4, 6, 0>> \o <<200, 0, d, f>>
<1>1. /\ d \in Bytes255 \ {128} /\ f \in Bytes255 \ {128}
      /\ f = MyoService => d = Myo
  BY DEF Heard, Bytes255, Myo, Stranger, MyoService, OtherService, Manufacturer, Unused
<1>. HIDE DEF d, f
<1>2. Len(bytes) = 8 /\ DOMAIN bytes = 1..8
      /\ bytes[1] = 128 /\ bytes[2] = 4 /\ bytes[3] = 6 /\ bytes[4] = 0
      /\ bytes[5] = 200 /\ bytes[6] = 0 /\ bytes[7] = d /\ bytes[8] = f
  OBVIOUS
<1>3. Report(d, f) = Packet("report", bytes)
  BY DEF Report, Event, EventType
<1>. HIDE DEF bytes
<1>4. bytes \in Seq(Bytes255) /\ Len(bytes) = 8
  <2>1. <<128, 4, 6, 0>> \in Seq(Bytes255) /\ <<200, 0, d, f>> \in Seq(Bytes255)
    BY <1>1 DEF Bytes255
  <2>. QED  BY <1>2, <2>1, ConcatProperties DEF bytes
<1>5. bytes[2] = 4 /\ bytes[3] = ReportClass /\ bytes[8] = f /\ bytes[7] = d
  BY <1>2 DEF ReportClass
<1>6. \A j \in 2..8 : bytes[j] # EventType
  <2>1. \A j \in 2..8 : j = 2 \/ j = 3 \/ j = 4 \/ j = 5 \/ j = 6 \/ j = 7 \/ j = 8
    OBVIOUS
  <2>2. bytes[2] = 4 /\ bytes[3] = 6 /\ bytes[4] = 0 /\ bytes[5] = 200 /\ bytes[6] = 0
    BY <1>2
  <2>. QED  BY <1>1, <1>5, <2>1, <2>2 DEF EventType
<1>7. EventsWhole(Packet("report", bytes))
  BY <1>1, <1>4, <1>5, <1>6, WholePacket
<1>. QED  BY <1>3, <1>7 DEF d, f

LEMMA WholeGone == EventsWhole(Event("gone", 3, 4, <<0, 22, 2>>))
<1>. DEFINE bytes == <<128, 3, 3, 4>> \o <<0, 22, 2>>
<1>1. Len(bytes) = 7 /\ DOMAIN bytes = 1..7
      /\ bytes[1] = 128 /\ bytes[2] = 3 /\ bytes[3] = 3 /\ bytes[4] = 4
      /\ bytes[5] = 0 /\ bytes[6] = 22 /\ bytes[7] = 2
  OBVIOUS
<1>2. Event("gone", 3, 4, <<0, 22, 2>>) = Packet("gone", bytes)
  BY DEF Event, EventType
<1>. HIDE DEF bytes
<1>3. bytes \in Seq(Bytes255) /\ Len(bytes) = 7
  <2>1. <<128, 3, 3, 4>> \in Seq(Bytes255) /\ <<0, 22, 2>> \in Seq(Bytes255)
    BY DEF Bytes255
  <2>. QED  BY <1>1, <2>1, ConcatProperties DEF bytes
<1>4. bytes[2] = 3 /\ bytes[3] # ReportClass
  BY <1>1 DEF ReportClass
<1>5. \A j \in 2..7 : bytes[j] # EventType
  <2>1. \A j \in 2..7 : j = 2 \/ j = 3 \/ j = 4 \/ j = 5 \/ j = 6 \/ j = 7
    OBVIOUS
  <2>2. bytes[2] = 3 /\ bytes[3] = 3 /\ bytes[4] = 4 /\ bytes[5] = 0 /\ bytes[6] = 22 /\ bytes[7] = 2
    BY <1>1
  <2>. QED  BY <2>1, <2>2 DEF EventType
<1>. QED  BY <1>2, <1>3, <1>4, <1>5, WholePacket

(* The device found is known from the call of the reader that found it, and *)
(* the script goes on with no other.                                       *)
FoundMyo ==
  /\ UUID = "myo" => crowded \/ sender = Myo
  /\ pc \in {"stopping", "connect"} => UUID = "myo"

MyoInv == EventsWhole(rx) /\ FoundMyo

LEMMA EndAnswerWhole ==
  ASSUME NEW code \in EndCodes
  PROVE  /\ AnswerTo(EndProcedure, code) \in Seq(Cells)
         /\ EventsWhole(AnswerTo(EndProcedure, code))
BY EndCodesGood, AnswerShape, WholeAnswer

LEMMA EndWhole ==
  ASSUME NEW input \in Seq(Cells), EventsWhole(input),
         NEW code \in EndCodes, EndScan(input, code)
  PROVE  EventsWhole(rx)'
<1>. DEFINE a == AnswerTo(EndProcedure, code)
<1>1. a \in Seq(Cells) /\ EventsWhole(a)
  BY EndAnswerWhole
<1>2. rx' = input \o a
  BY DEF EndScan
<1>. HIDE DEF a
<1>3. EventsWhole(input \o a)
  BY <1>1, WholeConcat
<1>. QED  BY <1>2, <1>3

LEMMA MyoInit == Init => MyoInv
BY DEF Init, MyoInv, EventsWhole, FoundMyo

LEMMA MyoNext == FailInv /\ MyoInv /\ [Next]_vars => MyoInv'
<1>. SUFFICES ASSUME FailInv, MyoInv, [Next]_vars PROVE MyoInv'
  OBVIOUS
<1>0. rx \in Seq(Cells) /\ Len(rx) \in Nat /\ EventsWhole(rx) /\ FoundMyo /\ stage \in 1..6
      /\ (stage = 6 /\ pc = "command" => ~scanning)
  <2>1. rx \in Seq(Cells) /\ stage \in 1..6
    BY ExchangeFacts DEF FailInv, TypeOK
  <2>2. stage = 6 /\ pc = "command" => ~scanning
    BY DEF FailInv, Quiet
  <2>. QED  BY <2>1, <2>2 DEF MyoInv
<1>1. ASSUME NEW n \in 0..Len(rx) PROVE Dropped(n) \in Seq(Cells) /\ EventsWhole(Dropped(n))
  <2>1. rx \in Inputs
    BY DEF FailInv, TypeOK, Inputs
  <2>2. Dropped(n) \in Inputs
    BY <2>1, GoodDropped DEF Dropped
  <2>. QED  BY <1>0, <2>2, WholeDropped DEF Dropped, Inputs
<1>2. ASSUME NEW e \in Seq(Cells), EventsWhole(e), rx' = rx \o e PROVE EventsWhole(rx)'
  <2>1. EventsWhole(rx \o e)
    BY <1>0, <1>2, WholeConcat
  <2>. QED  BY <1>2, <2>1
<1>3. CASE FlushInput
  <2>1. /\ pc' = "command" /\ UUID' = UUID /\ sender' = sender /\ crowded' = crowded
        /\ \E k \in 0..Len(rx) : rx' = Dropped(k)
    BY <1>3 DEF FlushInput, found, history
  <2>. QED  BY <1>0, <1>1, <2>1 DEF MyoInv, FoundMyo
<1>4. CASE Command
  <2>. DEFINE code == CodeOf(Exchanges[stage])
              a == AnswerTo(Exchanges[stage], code)
  <2>1. /\ pc = "command" /\ pc' = "answer" /\ rx' = rx \o a
        /\ UUID' = UUID /\ sender' = sender /\ crowded' = crowded
    BY <1>4 DEF Command, found, history
  <2>2. code \in Codes
    BY <1>0, <2>1, CodeIsGood
  <2>. HIDE DEF code
  <2>3. a \in Seq(Cells) /\ EventsWhole(a)
    BY <1>0, <2>2, AnswerShape, WholeAnswer
  <2>. HIDE DEF a
  <2>. QED  BY <1>0, <1>2, <2>1, <2>3 DEF MyoInv, FoundMyo
<1>5. CASE ReadAnswer
  <2>1. /\ pc' \in {"failed", "command", "scan"}
        /\ UUID' = UUID /\ sender' = sender /\ crowded' = crowded
        /\ \E n \in 0..Len(rx) : rx' = Dropped(n)
    BY <1>5 DEF ReadAnswer, found
  <2>. QED  BY <1>0, <1>1, <2>1 DEF MyoInv, FoundMyo
<1>6. CASE Scan
  <2>1. PICK n \in 1..Len(rx) :
          LET scan == ScanOf(SubSeq(rx, 1, n))
          IN  /\ crowded' = (crowded \/ Cardinality({i \in 1..n : rx[i].last}) > 1)
              /\ rx' = Dropped(n)
              /\ raised' = scan.raised
              /\ IF scan.raised THEN pc' = "ended" /\ UNCHANGED found
                 ELSE /\ UUID' = scan.UUID /\ sender' = scan.sender
                      /\ pc' = IF scan.find THEN "found" ELSE pc
    BY <1>6 DEF Scan
  <2>. DEFINE scan == ScanOf(SubSeq(rx, 1, n))
  <2>2. scan.raised \/ Told(rx, n, scan)
    BY <1>0, CallKnows
  <2>. HIDE DEF scan
  <2>3. n \in 0..Len(rx) /\ n \in Nat
    BY <1>0
  <2>4. MarkedTwice(rx, n) => crowded' = TRUE
    BY <2>1, <2>3, TwoAreCrowded
  <2>5. EventsWhole(rx)'
    BY <1>1, <2>1, <2>3
  <2>6. crowded => crowded'
    BY <2>1
  <2>7. pc = "scan" /\ pc' \in {"ended", "found", "scan"}
    BY <1>6, <2>1 DEF Scan
  <2>8. CASE scan.raised
    <3>1. UUID' = UUID /\ sender' = sender
      BY <2>1, <2>8 DEF found, scan
    <3>. QED  BY <1>0, <2>5, <2>6, <2>7, <3>1 DEF MyoInv, FoundMyo
  <2>9. CASE ~scan.raised
    <3>1. UUID' = scan.UUID /\ sender' = scan.sender
      BY <2>1, <2>9 DEF scan
    <3>2. UUID' = "myo" => sender' = Myo \/ crowded'
      BY <2>2, <2>4, <2>9, <3>1 DEF Told
    <3>. QED  BY <2>5, <2>7, <3>2 DEF MyoInv, FoundMyo
  <2>. QED  BY <2>8, <2>9
<1>7. CASE Decide
  <2>1. UUID' = UUID /\ sender' = sender /\ crowded' = crowded
    BY <1>7 DEF Decide, found, history
  <2>2. CASE IsMyo
    <3>1. pc' = "stopping" /\ EndScan(rx, EndCode)
      BY <1>7, <2>2 DEF Decide
    <3>. QED  BY <1>0, <2>1, <2>2, <3>1, EndWhole, EndCodesGood DEF MyoInv, FoundMyo, IsMyo
  <2>3. CASE ~IsMyo
    <3>. DEFINE a == AnswerTo(EndProcedure, EndCode)
    <3>1. pc' = "ended" /\ EndScan(rx \o a, WrongState)
      BY <1>7, <2>3 DEF Decide, Refuse
    <3>2. a \in Seq(Cells) /\ EventsWhole(a)
      BY EndCodesGood, EndAnswerWhole
    <3>. HIDE DEF a
    <3>3. rx \o a \in Seq(Cells) /\ EventsWhole(rx \o a)
      BY <1>0, <3>2, WholeConcat, ConcatProperties
    <3>4. EventsWhole(rx)'
      BY <3>1, <3>3, EndWhole, EndCodesGood
    <3>. QED  BY <1>0, <2>1, <3>1, <3>4 DEF MyoInv, FoundMyo
  <2>. QED  BY <2>2, <2>3
<1>8. CASE ReadEnd
  <2>1. pc = "stopping" /\ UUID' = UUID /\ sender' = sender /\ crowded' = crowded
    BY <1>8 DEF ReadEnd, found
  <2>2. PICK n \in 0..Len(rx) : \/ pc' = "connect" /\ rx' = Dropped(n)
                                \/ pc' = "failed" /\ EndScan(Dropped(n), EndCode)
    BY <1>8 DEF ReadEnd, Taken
  <2>3. EventsWhole(rx)'
    BY <1>1, <2>2, EndWhole, EndCodesGood
  <2>. QED  BY <1>0, <2>1, <2>2, <2>3 DEF MyoInv, FoundMyo
<1>9. CASE Interrupt
  <2>1. /\ UUID' = UUID /\ sender' = sender /\ crowded' = crowded
        /\ pc' \in {"ended", "found"} /\ (rx' = rx \/ EndScan(rx, EndCode))
    BY <1>9 DEF Interrupt, found
  <2>2. EventsWhole(rx)'
    BY <1>0, <2>1, EndWhole, EndCodesGood
  <2>. QED  BY <1>0, <2>1, <2>2 DEF MyoInv, FoundMyo
<1>10. CASE Restart
  <2>1. UUID' = "none" /\ pc' = "flush" /\ rx' = rx
    BY <1>10 DEF Restart
  <2>. QED  BY <1>0, <2>1 DEF MyoInv, FoundMyo
<1>11. CASE SendReport
  <2>1. PICK heard \in Heard : rx' = rx \o Report(heard[1], heard[2])
    BY <1>11 DEF SendReport
  <2>2. Report(heard[1], heard[2]) \in Seq(Cells) /\ EventsWhole(Report(heard[1], heard[2]))
    BY EventShape, WholeReport
  <2>3. pc' = pc /\ UUID' = UUID /\ sender' = sender /\ crowded' = crowded
    BY <1>11 DEF SendReport, found, history
  <2>. QED  BY <1>0, <1>2, <2>1, <2>2, <2>3 DEF MyoInv, FoundMyo
<1>12. CASE SendDisconnected
  <2>. DEFINE e == Event("gone", 3, 4, <<0, 22, 2>>)
  <2>1. rx' = rx \o e
    BY <1>12 DEF SendDisconnected
  <2>2. e \in Seq(Cells) /\ EventsWhole(e)
    BY EventShape, WholeGone
  <2>3. pc' = pc /\ UUID' = UUID /\ sender' = sender /\ crowded' = crowded
    BY <1>12 DEF SendDisconnected, found, history
  <2>. HIDE DEF e
  <2>. QED  BY <1>0, <1>2, <2>1, <2>2, <2>3 DEF MyoInv, FoundMyo
<1>13. CASE UNCHANGED vars
  BY <1>0, <1>13 DEF MyoInv, FoundMyo, vars
<1>. QED
  BY <1>3, <1>4, <1>5, <1>6, <1>7, <1>8, <1>9, <1>10, <1>11, <1>12, <1>13 DEF Next

(* With one report in a call of the reader, whatever the earlier sessions   *)
(* left in the input and wherever a read cut it, the device that the script *)
(* connects to is the armband (MyoConnectionTest.py from the scan loop on,  *)
(* ble_msg_gap_set_scan_response_evt_t).                                   *)
THEOREM AloneIsMyo == Spec => []AloneConnectsToMyo
<1>1. MyoInv => AloneConnectsToMyo
  BY DEF MyoInv, FoundMyo, AloneConnectsToMyo
<1>2. Init => FailInv /\ MyoInv
  BY FailInit, MyoInit
<1>3. (FailInv /\ MyoInv) /\ [Next]_vars => (FailInv /\ MyoInv)'
  BY FailNext, MyoNext
<1>. QED  BY <1>1, <1>2, <1>3, PTL DEF Spec

-----------------------------------------------------------------------------
(* The ends of the answers in the input, and how many of them a run that    *)
(* reads one answer after the other comes by before the first of its own.   *)

Before(s, p) == {i \in AnswerEnds(s) : i < p}

(* Behind k answers stands one to the first command of a session. *)
FirstNew(s, k) ==
  \E p \in AnswerEnds(s) :
    s[p].kind = Exchanges[1].name /\ Cardinality(Before(s, p)) = k

RowInv ==
  ~misread /\ old < Len(Exchanges) =>
    /\ pc = "command" =>
         \/ stage = 1 /\ Cardinality(AnswerEnds(rx)) = old
         \/ stage > 1 /\ old = 0 /\ AnswerEnds(rx) = {}
         \/ stage > 1 /\ stage <= old + 1 /\ FirstNew(rx, old - (stage - 1))
    /\ pc = "answer" =>
         \/ old = 0 /\ \E p : AnswerEnds(rx) = {p}
         \/ old > 0 /\ stage <= old + 1 /\ FirstNew(rx, old - (stage - 1))
    /\ pc \in {"scan", "found"} /\ ~interrupted => AnswerEnds(rx) = {}
    /\ pc = "stopping" /\ ~interrupted => \E p : AnswerEnds(rx) = {p}
    /\ pc = "connect" /\ ~interrupted => AnswerEnds(rx) = {}

(* An end is one of a cell that is no event's. *)
LEMMA IsEnd ==
  ASSUME NEW s \in Seq(Cells), NEW i
  PROVE  i \in AnswerEnds(s) <=> i \in 1..Len(s) /\ s[i].last /\ ~FromEvent(s[i])
BY DEF AnswerEnds

LEMMA ConcatEnds ==
  ASSUME NEW s \in Seq(Cells), NEW t \in Seq(Cells)
  PROVE  LET u == s \o t
         IN  /\ u \in Seq(Cells) /\ Len(u) = Len(s) + Len(t)
             /\ \A q \in AnswerEnds(s) : /\ q \in AnswerEnds(u) /\ u[q] = s[q]
                                         /\ Before(u, q) = Before(s, q)
             /\ \A j \in AnswerEnds(t) : /\ Len(s) + j \in AnswerEnds(u)
                                         /\ u[Len(s) + j] = t[j]
             /\ \A q \in AnswerEnds(u) :
                  q \in AnswerEnds(s) \/ \E j \in AnswerEnds(t) : q = Len(s) + j
<1>. DEFINE u == s \o t
            m == Len(s)
            n == Len(t)
<1>1. m \in Nat /\ n \in Nat
  OBVIOUS
<1>2. u \in Seq(Cells) /\ Len(u) = m + n
  BY ConcatProperties
<1>3. \A j \in 1..m : u[j] = s[j]
  OBVIOUS
<1>4. \A j \in 1..n : u[m + j] = t[j]
  OBVIOUS
<1>. HIDE DEF u, m, n
<1>5. ASSUME NEW q \in 1..m PROVE q \in AnswerEnds(u) <=> q \in AnswerEnds(s)
  <2>1. q \in 1..(m + n)
    BY <1>1
  <2>. QED  BY <1>2, <1>3, <2>1, IsEnd DEF m
<1>6. ASSUME NEW j \in 1..n PROVE m + j \in AnswerEnds(u) <=> j \in AnswerEnds(t)
  <2>1. m + j \in 1..(m + n)
    BY <1>1
  <2>. QED  BY <1>2, <1>4, <2>1, IsEnd DEF n
<1>7. ASSUME NEW q \in AnswerEnds(s)
      PROVE  q \in AnswerEnds(u) /\ u[q] = s[q] /\ Before(u, q) = Before(s, q)
  <2>1. q \in 1..m
    BY IsEnd DEF m
  <2>2. ASSUME NEW i PROVE i \in Before(u, q) <=> i \in Before(s, q)
    <3>1. i \in AnswerEnds(u) /\ i < q => i \in 1..m
      <4>1. i \in AnswerEnds(u) => i \in 1..(m + n)
        BY <1>2, IsEnd
      <4>. QED  BY <1>1, <2>1, <4>1
    <3>2. i \in AnswerEnds(s) => i \in 1..m
      BY IsEnd DEF m
    <3>. QED  BY <1>5, <3>1, <3>2 DEF Before
  <2>3. Before(u, q) = Before(s, q)
    BY <2>2
  <2>. QED  BY <1>3, <1>5, <2>1, <2>3
<1>8. ASSUME NEW j \in AnswerEnds(t)
      PROVE  m + j \in AnswerEnds(u) /\ u[m + j] = t[j]
  <2>1. j \in 1..n
    BY IsEnd DEF n
  <2>. QED  BY <1>4, <1>6, <2>1
<1>9. ASSUME NEW q \in AnswerEnds(u)
      PROVE  q \in AnswerEnds(s) \/ \E j \in AnswerEnds(t) : q = m + j
  <2>1. q \in 1..(m + n)
    BY <1>2, IsEnd
  <2>2. CASE q \in 1..m
    BY <1>5, <2>2
  <2>3. CASE q \notin 1..m
    <3>1. q - m \in 1..n /\ q = m + (q - m)
      BY <1>1, <2>1, <2>3
    <3>2. q - m \in AnswerEnds(t)
      BY <1>6, <3>1
    <3>. QED  BY <3>1, <3>2
  <2>. QED  BY <2>2, <2>3
<1>. QED  BY <1>2, <1>7, <1>8, <1>9 DEF u, m, n

(* What the ends are when the input has lost its first k cells. *)
LEMMA DroppedEnds ==
  ASSUME NEW s \in Seq(Cells), NEW k \in 0..Len(s)
  PROVE  LET t == SubSeq(s, k + 1, Len(s))
         IN  /\ t \in Seq(Cells)
             /\ \A j \in AnswerEnds(t) : j \in Nat /\ j > 0 /\ k + j \in AnswerEnds(s)
             /\ \A q \in AnswerEnds(s) : q > k => q - k \in AnswerEnds(t) /\ t[q - k] = s[q]
<1>. DEFINE t == SubSeq(s, k + 1, Len(s))
            m == Len(s)
<1>1. m \in Nat /\ k \in 0..m
  OBVIOUS
<1>2. \A i \in (k + 1)..m : s[i] \in Cells
  BY <1>1
<1>3. /\ t \in Seq(Cells)
      /\ Len(t) = IF k + 1 <= m THEN m - (k + 1) + 1 ELSE 0
      /\ \A i \in 1..(m - (k + 1) + 1) : t[i] = s[(k + 1) + i - 1]
  BY <1>1, <1>2, SubSeqProperties
<1>. HIDE DEF t, m
<1>4. Len(t) = m - k
  BY <1>1, <1>3
<1>5. ASSUME NEW j \in 1..(m - k) PROVE k + j \in 1..m /\ t[j] = s[k + j]
  <2>1. j \in 1..(m - (k + 1) + 1) /\ (k + 1) + j - 1 = k + j /\ k + j \in 1..m
    BY <1>1
  <2>. QED  BY <1>3, <2>1
<1>6. ASSUME NEW j \in 1..(m - k) PROVE j \in AnswerEnds(t) <=> k + j \in AnswerEnds(s)
  BY <1>3, <1>4, <1>5, IsEnd DEF m
<1>7. ASSUME NEW j \in AnswerEnds(t) PROVE j \in Nat /\ j > 0 /\ k + j \in AnswerEnds(s)
  <2>1. j \in 1..(m - k)
    BY <1>3, <1>4, IsEnd
  <2>. QED  BY <1>1, <1>6, <2>1
<1>8. ASSUME NEW q \in AnswerEnds(s), q > k
      PROVE  q - k \in AnswerEnds(t) /\ t[q - k] = s[q]
  <2>1. q \in 1..m
    BY IsEnd DEF m
  <2>2. q - k \in 1..(m - k) /\ k + (q - k) = q
    BY <1>1, <1>8, <2>1
  <2>3. t[q - k] = s[k + (q - k)] /\ (q - k \in AnswerEnds(t) <=> k + (q - k) \in AnswerEnds(s))
    BY <1>5, <1>6, <2>2
  <2>. QED  BY <2>2, <2>3
<1>. QED  BY <1>3, <1>7, <1>8 DEF t, m

(* An answer behind the input has one end, and that is the last of all. *)
LEMMA AnswerBehind ==
  ASSUME NEW s \in Seq(Cells), NEW i \in 1..6, NEW code \in Codes
  PROVE  LET u == s \o AnswerTo(Exchanges[i], code)
         IN  /\ u \in Seq(Cells)
             /\ \E p \in AnswerEnds(u) : /\ AnswerEnds(u) = AnswerEnds(s) \cup {p}
                                         /\ u[p].kind = Exchanges[i].name
                                         /\ Before(u, p) = AnswerEnds(s)
             /\ \A k : FirstNew(s, k) => FirstNew(u, k)
<1>. DEFINE a == AnswerTo(Exchanges[i], code)
            n == LengthOf(Exchanges[i])
            u == s \o a
            p == Len(s) + n
<1>1. /\ a \in Seq(Cells) /\ Len(a) = n /\ n \in 6..16
      /\ \A j \in 1..n : a[j].kind = Exchanges[i].name /\ a[j].last = (j = n)
  BY AnswerShape
<1>. HIDE DEF a, n
<1>2. ~FromEvent([kind |-> Exchanges[i].name])
  BY DEF Exchanges, FromEvent
<1>3. n \in 1..n /\ Len(s) \in Nat /\ n \in Nat
  BY <1>1
<1>4. \A j : j \in AnswerEnds(a) <=> j = n
  <2>1. ASSUME NEW j \in 1..n PROVE ~FromEvent(a[j])
    BY <1>1, <1>2 DEF FromEvent
  <2>. QED  BY <1>1, <1>3, <2>1, IsEnd
<1>5. /\ u \in Seq(Cells) /\ Len(u) = Len(s) + n
      /\ \A q \in AnswerEnds(s) : /\ q \in AnswerEnds(u) /\ u[q] = s[q]
                                  /\ Before(u, q) = Before(s, q)
      /\ p \in AnswerEnds(u) /\ u[p] = a[n]
      /\ \A q \in AnswerEnds(u) : q \in AnswerEnds(s) \/ q = p
  <2>1. /\ u \in Seq(Cells) /\ Len(u) = Len(s) + Len(a)
        /\ \A q \in AnswerEnds(s) : /\ q \in AnswerEnds(u) /\ u[q] = s[q]
                                    /\ Before(u, q) = Before(s, q)
        /\ \A j \in AnswerEnds(a) : /\ Len(s) + j \in AnswerEnds(u)
                                    /\ u[Len(s) + j] = a[j]
        /\ \A q \in AnswerEnds(u) :
             q \in AnswerEnds(s) \/ \E j \in AnswerEnds(a) : q = Len(s) + j
    BY <1>1, ConcatEnds
  <2>. HIDE DEF u
  <2>2. p \in AnswerEnds(u) /\ u[p] = a[n]
    BY <1>4, <2>1
  <2>3. \A q \in AnswerEnds(u) : q \in AnswerEnds(s) \/ q = p
    BY <1>4, <2>1
  <2>4. Len(u) = Len(s) + n
    BY <1>1, <2>1
  <2>. QED  BY <2>1, <2>2, <2>3, <2>4
<1>. HIDE DEF u
<1>6. \A q \in AnswerEnds(s) : q < p
  <2>1. ASSUME NEW q \in AnswerEnds(s) PROVE q < p
    <3>1. q \in 1..Len(s)
      BY IsEnd
    <3>. QED  BY <1>3, <1>1, <3>1
  <2>. QED  BY <2>1
<1>7. p \in Nat /\ ~(p < p)
  BY <1>3
<1>. HIDE DEF p
<1>8. AnswerEnds(u) = AnswerEnds(s) \cup {p}
  BY <1>5
<1>9. Before(u, p) = AnswerEnds(s)
  BY <1>6, <1>7, <1>8 DEF Before
<1>10. u[p].kind = Exchanges[i].name
  BY <1>1, <1>3, <1>5
<1>11. ASSUME NEW k, FirstNew(s, k) PROVE FirstNew(u, k)
  BY <1>5, <1>11 DEF FirstNew
<1>. QED  BY <1>5, <1>8, <1>9, <1>10, <1>11 DEF u, a

(* An event behind the input has none. *)
LEMMA EventBehind ==
  ASSUME NEW s \in Seq(Cells),
         NEW e, \/ \E heard \in Heard : e = Report(heard[1], heard[2])
                \/ e = Event("gone", 3, 4, <<0, 22, 2>>)
  PROVE  /\ AnswerEnds(s \o e) = AnswerEnds(s)
         /\ \A k : FirstNew(s, k) => FirstNew(s \o e, k)
<1>. DEFINE u == s \o e
<1>1. e \in Seq(Cells) /\ \A j \in 1..Len(e) : FromEvent(e[j])
  BY EventShape DEF FromEvent
<1>2. \A j : j \notin AnswerEnds(e)
  BY <1>1, IsEnd
<1>3. /\ \A q \in AnswerEnds(s) : /\ q \in AnswerEnds(u) /\ u[q] = s[q]
                                  /\ Before(u, q) = Before(s, q)
      /\ \A q \in AnswerEnds(u) : q \in AnswerEnds(s)
  BY <1>1, <1>2, ConcatEnds
<1>. HIDE DEF u
<1>4. AnswerEnds(u) = AnswerEnds(s)
  BY <1>3
<1>5. ASSUME NEW k, FirstNew(s, k) PROVE FirstNew(u, k)
  BY <1>3, <1>5 DEF FirstNew
<1>. QED  BY <1>4, <1>5 DEF u

(* A read that is no misread takes one answer to the exchange, whole. *)
LEMMA ExactRead ==
  ASSUME rx \in Inputs, NEW i \in 1..6, NEW n \in 0..Len(rx),
         Read(Exchanges[i], n), ~misread'
  PROVE  /\ ~misread
         /\ n \in AnswerEnds(rx) /\ rx[n].kind = Exchanges[i].name
         /\ \A q \in AnswerEnds(rx) : n <= q
<1>. DEFINE x == Exchanges[i]
            m == LengthOf(x)
            a(code) == AnswerTo(x, code)
<1>0. rx \in Seq(Cells) /\ Len(rx) \in Nat
  BY DEF Inputs
<1>1. ~misread /\ \E code \in Codes : SubSeq(rx, 1, n) = a(code)
  BY DEF Read, Codes
<1>2. PICK code \in Codes : SubSeq(rx, 1, n) = a(code)
  BY <1>1
<1>3. /\ Len(a(code)) = m /\ m \in 6..16
      /\ \A j \in 1..m : a(code)[j].kind = x.name /\ a(code)[j].last = (j = m)
  BY AnswerShape
<1>4. Len(SubSeq(rx, 1, n)) = n /\ \A j \in 1..n : SubSeq(rx, 1, n)[j] = rx[j]
  <2>1. \A j \in 1..n : rx[j] \in Cells
    BY <1>0
  <2>2. n - 1 + 1 = n /\ \A j \in 1..n : 1 + j - 1 = j
    OBVIOUS
  <2>3. Len(SubSeq(rx, 1, n)) = IF 1 <= n THEN n - 1 + 1 ELSE 0
    BY <2>1, SubSeqProperties
  <2>4. \A j \in 1..(n - 1 + 1) : SubSeq(rx, 1, n)[j] = rx[1 + j - 1]
    BY <2>1, SubSeqProperties
  <2>. QED  BY <2>2, <2>3, <2>4
<1>5. n = m /\ n \in 6..16
  BY <1>2, <1>3, <1>4
<1>6. \A j \in 1..n : rx[j].kind = x.name /\ rx[j].last = (j = n)
  BY <1>2, <1>3, <1>4, <1>5, SMTT(30)
<1>7. ~FromEvent([kind |-> x.name])
  BY DEF Exchanges, FromEvent
<1>8. n \in 1..n /\ n \in 1..Len(rx)
  BY <1>0, <1>5
<1>9. n \in AnswerEnds(rx) /\ rx[n].kind = x.name
  BY <1>0, <1>6, <1>7, <1>8, IsEnd DEF FromEvent
<1>10. ASSUME NEW q \in AnswerEnds(rx) PROVE n <= q
  <2>1. q \in 1..Len(rx) /\ rx[q].last
    BY <1>0, IsEnd
  <2>2. q < n => q \in 1..n /\ q # n
    BY <1>5, <2>1
  <2>3. ~(q < n)
    BY <1>6, <2>1, <2>2
  <2>4. q \in Nat /\ n \in Nat
    BY <1>0, <1>5, <2>1
  <2>. QED  BY <2>3, <2>4
<1>. QED  BY <1>1, <1>9, <1>10

(* Of answers in a row the first is taken: the others move up by one place. *)
LEMMA FirstTaken ==
  ASSUME NEW s \in Seq(Cells), NEW n \in AnswerEnds(s), \A q \in AnswerEnds(s) : n <= q,
         NEW p \in AnswerEnds(s), p # n
  PROVE  LET t == SubSeq(s, n + 1, Len(s))
         IN  /\ p - n \in AnswerEnds(t) /\ t[p - n] = s[p]
             /\ Cardinality(Before(s, p)) = Cardinality(Before(t, p - n)) + 1
<1>. DEFINE t == SubSeq(s, n + 1, Len(s))
            S == Before(s, p)
            T == Before(t, p - n)
<1>1. n \in 1..Len(s) /\ n \in 0..Len(s) /\ n \in Nat
  <2>1. n \in 1..Len(s) /\ Len(s) \in Nat
    BY IsEnd
  <2>. QED  BY <2>1
<1>2. /\ t \in Seq(Cells)
      /\ \A j \in AnswerEnds(t) : j \in Nat /\ j > 0 /\ n + j \in AnswerEnds(s)
      /\ \A q \in AnswerEnds(s) : q > n => q - n \in AnswerEnds(t) /\ t[q - n] = s[q]
  BY <1>1, DroppedEnds
<1>. HIDE DEF t
<1>3. ASSUME NEW q \in AnswerEnds(s) PROVE q \in Nat /\ n <= q
  BY IsEnd
<1>4. p \in Nat /\ p > n
  BY <1>1, <1>3
<1>5. p - n \in AnswerEnds(t) /\ t[p - n] = s[p]
  BY <1>2, <1>4
<1>6. IsFiniteSet(S) /\ IsFiniteSet(T) /\ Cardinality(T) \in Nat
  <2>1. IsFiniteSet(AnswerEnds(s)) /\ IsFiniteSet(AnswerEnds(t))
    BY <1>2, EndsCounted
  <2>2. S \in SUBSET AnswerEnds(s) /\ T \in SUBSET AnswerEnds(t)
    BY DEF Before
  <2>. QED  BY <2>1, <2>2, FS_Subset, FS_CardinalityType
<1>7. n \in S /\ \A q \in S : q \in Nat /\ n <= q /\ q < p /\ q \in AnswerEnds(s)
  BY <1>1, <1>3, <1>4 DEF Before
<1>8. ASSUME NEW j \in T PROVE j \in Nat /\ n + j \in S \ {n}
  <2>1. j \in Nat /\ j > 0 /\ n + j \in AnswerEnds(s) /\ j < p - n
    BY <1>2 DEF Before
  <2>2. n + j < p /\ n + j # n
    BY <1>1, <1>4, <2>1
  <2>. QED  BY <2>1, <2>2 DEF Before
<1>9. ASSUME NEW q \in S \ {n} PROVE q - n \in T /\ n + (q - n) = q
  <2>1. q \in Nat /\ q > n /\ q < p /\ q \in AnswerEnds(s)
    BY <1>1, <1>7
  <2>2. q - n \in AnswerEnds(t)
    BY <1>2, <2>1
  <2>3. q - n < p - n /\ n + (q - n) = q
    BY <1>1, <1>4, <2>1
  <2>. QED  BY <2>2, <2>3 DEF Before
<1>10. ExistsBijection(T, S \ {n})
  <2>. DEFINE f == [j \in T |-> n + j]
  <2>. HIDE DEF S, T
  <2>1. f \in [T -> S \ {n}]
    BY <1>8
  <2>2. \A a, b \in T : f[a] = f[b] => a = b
    <3>1. \A a, b \in T : n + a = n + b => a = b
      BY <1>1, <1>8
    <3>. QED  BY <3>1
  <2>3. \A q \in S \ {n} : \E j \in T : f[j] = q
    BY <1>9
  <2>. HIDE DEF f
  <2>4. f \in Bijection(T, S \ {n})
    BY <2>1, <2>2, <2>3 DEF Bijection, Injection, Surjection, IsInjective
  <2>. QED  BY <2>4 DEF ExistsBijection
<1>11. Cardinality(S \ {n}) = Cardinality(T)
  <2>. HIDE DEF S, T
  <2>. QED  BY <1>6, <1>10, FS_Bijection
<1>12. Cardinality(S \ {n}) = Cardinality(S) - 1 /\ Cardinality(S) \in Nat
  <2>. HIDE DEF S, T
  <2>. QED  BY <1>6, <1>7, FS_RemoveElement, FS_CardinalityType
<1>13. Cardinality(S) = Cardinality(T) + 1
  <2>. HIDE DEF S, T
  <2>. QED  BY <1>6, <1>11, <1>12
<1>. QED  BY <1>5, <1>13 DEF t

LEMMA FramedConcat ==
  ASSUME NEW s \in Seq(Cells), NEW t \in Seq(Cells), Framed(s), Framed(t)
  PROVE  Framed(s \o t)
<1>. DEFINE u == s \o t
            m == Len(s)
            n == Len(t)
<1>1. m \in Nat /\ n \in Nat
  OBVIOUS
<1>2. u \in Seq(Cells) /\ Len(u) = m + n
  BY ConcatProperties
<1>3. \A j \in 1..m : u[j] = s[j]
  OBVIOUS
<1>4. \A j \in 1..n : u[m + j] = t[j]
  OBVIOUS
<1>5. /\ \A i \in 1..m : s[i].last \/ (i < m /\ s[i + 1].kind = s[i].kind)
      /\ \A i \in 1..n : t[i].last \/ (i < n /\ t[i + 1].kind = t[i].kind)
  BY DEF Framed
<1>. HIDE DEF u, m, n
<1>6. ASSUME NEW i \in 1..(m + n)
      PROVE  u[i].last \/ (i < m + n /\ u[i + 1].kind = u[i].kind)
  <2>1. CASE i \in 1..m
    <3>1. s[i].last \/ (i < m /\ s[i + 1].kind = s[i].kind)
      BY <1>5, <2>1
    <3>2. i < m => i + 1 \in 1..m /\ i < m + n
      BY <1>1, <2>1
    <3>. QED  BY <1>3, <2>1, <3>1, <3>2
  <2>2. CASE i \notin 1..m
    <3>. DEFINE j == i - m
    <3>1. j \in 1..n /\ i = m + j /\ i + 1 = m + (j + 1) /\ (j < n => j + 1 \in 1..n /\ i < m + n)
      BY <1>1, <2>2
    <3>. HIDE DEF j
    <3>2. t[j].last \/ (j < n /\ t[j + 1].kind = t[j].kind)
      BY <1>5, <3>1
    <3>. QED  BY <1>4, <3>1, <3>2
  <2>. QED  BY <2>1, <2>2
<1>7. Framed(u)
  BY <1>2, <1>6 DEF Framed
<1>. QED  BY <1>7 DEF u

LEMMA FramedDropped ==
  ASSUME NEW s \in Seq(Cells), NEW k \in 0..Len(s), Framed(s)
  PROVE  Framed(SubSeq(s, k + 1, Len(s)))
<1>. DEFINE t == SubSeq(s, k + 1, Len(s))
            m == Len(s)
<1>1. m \in Nat /\ k \in 0..m
  OBVIOUS
<1>2. \A i \in (k + 1)..m : s[i] \in Cells
  BY <1>1
<1>3. /\ Len(t) = IF k + 1 <= m THEN m - (k + 1) + 1 ELSE 0
      /\ \A i \in 1..(m - (k + 1) + 1) : t[i] = s[(k + 1) + i - 1]
  BY <1>1, <1>2, SubSeqProperties
<1>4. \A i \in 1..m : s[i].last \/ (i < m /\ s[i + 1].kind = s[i].kind)
  BY DEF Framed
<1>. HIDE DEF t, m
<1>5. Len(t) = m - k
  BY <1>1, <1>3
<1>6. ASSUME NEW j \in 1..(m - k) PROVE k + j \in 1..m /\ t[j] = s[k + j]
  <2>1. j \in 1..(m - (k + 1) + 1) /\ (k + 1) + j - 1 = k + j /\ k + j \in 1..m
    BY <1>1
  <2>. QED  BY <1>3, <2>1
<1>7. ASSUME NEW j \in 1..(m - k)
      PROVE  t[j].last \/ (j < m - k /\ t[j + 1].kind = t[j].kind)
  <2>1. s[k + j].last \/ (k + j < m /\ s[(k + j) + 1].kind = s[k + j].kind)
    BY <1>4, <1>6
  <2>2. k + j < m => j < m - k /\ j + 1 \in 1..(m - k) /\ (k + j) + 1 = k + (j + 1)
    BY <1>1
  <2>. QED  BY <1>6, <2>1, <2>2
<1>8. Framed(t)
  BY <1>5, <1>7 DEF Framed
<1>. QED  BY <1>8 DEF t

LEMMA FramedAnswer ==
  ASSUME NEW i \in 1..6, NEW code \in Codes
  PROVE  AnswerTo(Exchanges[i], code) \in Seq(Cells) /\ Framed(AnswerTo(Exchanges[i], code))
<1>. DEFINE a == AnswerTo(Exchanges[i], code)
            n == LengthOf(Exchanges[i])
<1>1. /\ a \in Seq(Cells) /\ Len(a) = n /\ n \in 6..16
      /\ \A j \in 1..n : a[j].kind = Exchanges[i].name /\ a[j].last = (j = n)
  BY AnswerShape
<1>. HIDE DEF a, n
<1>2. \A j \in 1..n : j = n \/ (j < n /\ j + 1 \in 1..n)
  BY <1>1
<1>3. Framed(a)
  BY <1>1, <1>2 DEF Framed
<1>. QED  BY <1>1, <1>3 DEF a

LEMMA FramedEvent ==
  ASSUME NEW e, \/ \E heard \in Heard : e = Report(heard[1], heard[2])
                \/ e = Event("gone", 3, 4, <<0, 22, 2>>)
  PROVE  e \in Seq(Cells) /\ Framed(e)
BY EventShape

(* Where no answer ends there is nothing of an answer. *)
LEMMA NoEndNoAnswer ==
  ASSUME NEW s \in Seq(Cells), Framed(s), AnswerEnds(s) = {}, NEW i \in 1..Len(s)
  PROVE  FromEvent(s[i])
<1>. DEFINE n == Len(s)
            T == {k \in Nat : k < n /\ ~FromEvent(s[n - k])}
<1>1. n \in Nat
  OBVIOUS
<1>. SUFFICES ASSUME ~FromEvent(s[i]) PROVE FALSE
  OBVIOUS
<1>. HIDE DEF n
<1>2. n - i \in T
  <2>1. i \in 1..n
    BY DEF n
  <2>2. n - i \in Nat /\ n - i < n /\ n - (n - i) = i
    BY <1>1, <2>1
  <2>. QED  BY <2>2
<1>3. PICK k \in T : \A u \in T : ~(<<u, k>> \in OpToRel(<, Nat))
  <2>1. T \subseteq Nat /\ T # {}
    BY <1>2
  <2>. HIDE DEF T
  <2>. QED  BY <2>1, NatLessThanWellFounded, WFMin
<1>4. k \in Nat /\ k < n /\ ~FromEvent(s[n - k]) /\ n - k \in 1..n
  BY <1>1
<1>5. s[n - k].last => n - k \in AnswerEnds(s)
  BY <1>4, IsEnd DEF n
<1>6. n - k < n /\ s[(n - k) + 1].kind = s[n - k].kind
  BY <1>4, <1>5 DEF Framed, n
<1>7. k - 1 \in Nat /\ k - 1 < k /\ k - 1 < n /\ (n - k) + 1 = n - (k - 1)
  BY <1>1, <1>4, <1>6
<1>8. ~FromEvent(s[n - (k - 1)])
  BY <1>4, <1>6, <1>7 DEF FromEvent
<1>9. k - 1 \in T
  BY <1>7, <1>8
<1>10. <<k - 1, k>> \in OpToRel(<, Nat)
  BY <1>4, <1>7 DEF OpToRel
<1>. QED  BY <1>3, <1>9, <1>10

FramedInv == Framed(rx)

LEMMA FramedNext == FailInv /\ FramedInv /\ [Next]_vars => FramedInv'
<1>. SUFFICES ASSUME FailInv, Framed(rx), [Next]_vars PROVE Framed(rx')
  BY DEF FramedInv
<1>0. rx \in Inputs /\ rx \in Seq(Cells) /\ Len(rx) \in Nat /\ stage \in 1..6
      /\ (pc = "command" /\ stage = 6 => ~scanning)
  BY ExchangeFacts DEF FailInv, Inputs, TypeOK, Quiet
<1>1. ASSUME NEW n \in 0..Len(rx)
      PROVE  Dropped(n) \in Seq(Cells) /\ Framed(Dropped(n))
  <2>1. Dropped(n) \in Seq(Cells)
    BY <1>0, GoodDropped DEF Dropped, Inputs
  <2>. QED  BY <1>0, <2>1, FramedDropped DEF Dropped
<1>2. \A code \in EndCodes : /\ AnswerTo(EndProcedure, code) \in Seq(Cells)
                              /\ Framed(AnswerTo(EndProcedure, code))
  BY EndCodesGood, FramedAnswer
<1>3. \A input, code : EndScan(input, code) => rx' = input \o AnswerTo(EndProcedure, code)
  BY DEF EndScan
<1>4. ASSUME NEW input \in Seq(Cells), Framed(input), NEW code \in EndCodes,
             EndScan(input, code)
      PROVE  Framed(rx')
  BY <1>2, <1>3, <1>4, FramedConcat
<1>5. CASE FlushInput
  BY <1>1, <1>5 DEF FlushInput
<1>6. CASE Command
  <2>1. CodeOf(Exchanges[stage]) \in Codes
    BY <1>0, <1>6, CodeIsGood DEF Command
  <2>. DEFINE a == AnswerTo(Exchanges[stage], CodeOf(Exchanges[stage]))
  <2>2. a \in Seq(Cells) /\ Framed(a)
    BY <1>0, <2>1, FramedAnswer
  <2>3. rx' = rx \o a
    BY <1>6 DEF Command
  <2>. HIDE DEF a
  <2>. QED  BY <1>0, <2>2, <2>3, FramedConcat
<1>7. CASE ReadAnswer
  BY <1>1, <1>7 DEF ReadAnswer
<1>8. CASE Scan
  <2>1. PICK n \in 1..Len(rx) : rx' = Dropped(n)
    BY <1>8 DEF Scan
  <2>2. n \in 0..Len(rx)
    BY <1>0
  <2>. QED  BY <1>1, <2>1, <2>2
<1>9. CASE Decide
  <2>. DEFINE answer == AnswerTo(EndProcedure, EndCode)
  <2>1. EndScan(rx, EndCode) \/ EndScan(rx \o answer, WrongState)
    BY <1>9 DEF Decide, Refuse
  <2>2. answer \in Seq(Cells) /\ Framed(answer)
    BY <1>2, EndCodesGood
  <2>. HIDE DEF answer
  <2>3. rx \o answer \in Seq(Cells) /\ Framed(rx \o answer)
    BY <1>0, <2>2, FramedConcat, ConcatProperties
  <2>. QED  BY <1>0, <1>4, <2>1, <2>3, EndCodesGood
<1>10. CASE ReadEnd
  <2>1. PICK n \in 0..Len(rx) : rx' = Dropped(n) \/ EndScan(Dropped(n), EndCode)
    BY <1>10 DEF ReadEnd, Taken
  <2>. QED  BY <1>1, <1>4, <2>1, EndCodesGood
<1>11. CASE Interrupt
  <2>1. rx' = rx \/ EndScan(rx, EndCode)
    BY <1>11 DEF Interrupt
  <2>. QED  BY <1>0, <1>4, <2>1, EndCodesGood
<1>12. CASE Restart
  BY <1>12 DEF Restart
<1>13. CASE SendReport
  <2>1. PICK heard \in Heard : rx' = rx \o Report(heard[1], heard[2])
    BY <1>13 DEF SendReport
  <2>. DEFINE e == Report(heard[1], heard[2])
  <2>2. e \in Seq(Cells) /\ Framed(e)
    BY FramedEvent
  <2>. HIDE DEF e
  <2>. QED  BY <1>0, <2>1, <2>2, FramedConcat DEF e
<1>14. CASE SendDisconnected
  <2>. DEFINE e == Event("gone", 3, 4, <<0, 22, 2>>)
  <2>1. rx' = rx \o e
    BY <1>14 DEF SendDisconnected
  <2>2. e \in Seq(Cells) /\ Framed(e)
    BY FramedEvent
  <2>. HIDE DEF e
  <2>. QED  BY <1>0, <2>1, <2>2, FramedConcat
<1>15. CASE UNCHANGED vars
  BY <1>15 DEF vars
<1>. QED
  BY <1>5, <1>6, <1>7, <1>8, <1>9, <1>10, <1>11, <1>12, <1>13, <1>14, <1>15 DEF Next

LEMMA RowInit == Init => RowInv
BY DEF Init, RowInv

LEMMA RowNext == FailInv /\ RowInv /\ [Next]_vars => RowInv'
<1>. SUFFICES ASSUME FailInv, RowInv, [Next]_vars, ~misread', old' < Len(Exchanges)
              PROVE  RowInv'
  BY DEF RowInv
<1>0. TypeOK /\ rx \in Inputs /\ rx \in Seq(Cells) /\ Len(rx) \in Nat
      /\ Quiet /\ (pc = "flush" => stage = 1)
  BY DEF FailInv, Inputs, TypeOK
<1>1. Len(Exchanges) = 6 /\ stage \in 1..6 /\ old \in Nat
  BY ExchangeFacts DEF TypeOK, FailInv
<1>2. ASSUME ~misread, old < 6
      PROVE  /\ pc = "command" =>
                  \/ stage = 1 /\ Cardinality(AnswerEnds(rx)) = old
                  \/ stage > 1 /\ old = 0 /\ AnswerEnds(rx) = {}
                  \/ stage > 1 /\ stage <= old + 1 /\ FirstNew(rx, old - (stage - 1))
             /\ pc = "answer" =>
                  \/ old = 0 /\ \E p : AnswerEnds(rx) = {p}
                  \/ old > 0 /\ stage <= old + 1 /\ FirstNew(rx, old - (stage - 1))
             /\ pc \in {"scan", "found"} /\ ~interrupted => AnswerEnds(rx) = {}
             /\ pc = "stopping" /\ ~interrupted => \E p : AnswerEnds(rx) = {p}
             /\ pc = "connect" /\ ~interrupted => AnswerEnds(rx) = {}
  BY <1>1, <1>2 DEF RowInv
<1>3. ASSUME NEW n \in 0..Len(rx), AnswerEnds(rx) = {} \/ AnswerEnds(rx) = {n}
      PROVE  AnswerEnds(Dropped(n)) = {}
  <2>1. \A j \in AnswerEnds(Dropped(n)) : j \in Nat /\ j > 0 /\ n + j \in AnswerEnds(rx)
    BY <1>0, DroppedEnds DEF Dropped
  <2>2. \A j \in Nat : j > 0 => n + j # n
    BY <1>0
  <2>. QED  BY <1>3, <2>1, <2>2
<1>4. CASE FlushInput
  <2>1. pc' = "command" /\ stage' = 1 /\ old' = Cardinality(AnswerEnds(rx'))
    BY <1>0, <1>4 DEF FlushInput
  <2>. QED  BY <2>1 DEF RowInv
<1>5. CASE Command
  <2>. DEFINE a == AnswerTo(Exchanges[stage], CodeOf(Exchanges[stage]))
  <2>1. pc = "command" /\ pc' = "answer" /\ rx' = rx \o a
        /\ UNCHANGED <<stage, misread, interrupted, old>>
    BY <1>5 DEF Command, history
  <2>2. CodeOf(Exchanges[stage]) \in Codes
    <3>1. stage = 6 => ~scanning
      BY <1>0, <2>1 DEF Quiet
    <3>. QED  BY <1>1, <3>1, CodeIsGood
  <2>3. /\ \E p \in AnswerEnds(rx') : /\ AnswerEnds(rx') = AnswerEnds(rx) \cup {p}
                                      /\ rx'[p].kind = Exchanges[stage].name
                                      /\ Before(rx', p) = AnswerEnds(rx)
        /\ \A k : FirstNew(rx, k) => FirstNew(rx', k)
    BY <1>0, <1>1, <2>1, <2>2, AnswerBehind
  <2>. HIDE DEF a
  <2>4. \/ old = 0 /\ \E p : AnswerEnds(rx') = {p}
        \/ old > 0 /\ stage <= old + 1 /\ FirstNew(rx', old - (stage - 1))
    <3>1. CASE stage = 1 /\ Cardinality(AnswerEnds(rx)) = old
      <4>1. CASE old = 0
        <5>1. AnswerEnds(rx) = {}
          BY <1>0, <3>1, <4>1, EndsCounted, FS_EmptySet
        <5>. QED  BY <2>3, <4>1, <5>1
      <4>2. CASE old # 0
        <5>1. old > 0 /\ stage <= old + 1 /\ old - (stage - 1) = old
          BY <1>1, <3>1, <4>2
        <5>2. FirstNew(rx', old)
          BY <2>3, <3>1 DEF FirstNew
        <5>. QED  BY <5>1, <5>2
      <4>. QED  BY <4>1, <4>2
    <3>2. CASE stage > 1 /\ old = 0 /\ AnswerEnds(rx) = {}
      BY <2>3, <3>2
    <3>3. CASE stage > 1 /\ stage <= old + 1 /\ FirstNew(rx, old - (stage - 1))
      <4>1. old > 0
        BY <1>1, <3>3
      <4>. QED  BY <2>3, <3>3, <4>1
    <3>. QED  BY <1>1, <1>2, <2>1, <3>1, <3>2, <3>3
  <2>. QED  BY <2>1, <2>4 DEF RowInv
<1>6. CASE ReadAnswer
  <2>1. PICK n \in 0..Len(rx) :
          /\ Read(Exchanges[stage], n)
          /\ rx' = Dropped(n)
          /\ IF ~Passes(Exchanges[stage], Bytes(n)) THEN pc' = "failed" /\ UNCHANGED stage
             ELSE IF MoreAfter(stage) THEN pc' = "command" /\ stage' = stage + 1
             ELSE pc' = "scan" /\ UNCHANGED stage
    BY <1>6 DEF ReadAnswer
  <2>2. pc = "answer" /\ UNCHANGED <<interrupted, old>>
    BY <1>6 DEF ReadAnswer
  <2>3. /\ ~misread
        /\ n \in AnswerEnds(rx) /\ rx[n].kind = Exchanges[stage].name
        /\ \A q \in AnswerEnds(rx) : n <= q
    BY <1>0, <1>1, <2>1, ExactRead
  <2>4. \/ pc' = "failed"
        \/ pc' = "command" /\ stage' = stage + 1 /\ stage < 6
        \/ pc' = "scan" /\ stage = 6
    BY <1>1, <2>1 DEF MoreAfter
  <2>5. CASE old = 0 /\ \E p : AnswerEnds(rx) = {p}
    <3>1. AnswerEnds(rx) = {n}
      BY <2>3, <2>5
    <3>2. AnswerEnds(rx') = {}
      BY <1>3, <2>1, <3>1
    <3>3. pc' = "command" => stage' > 1
      BY <1>1, <2>4
    <3>. QED  BY <2>2, <2>4, <2>5, <3>2, <3>3 DEF RowInv
  <2>6. CASE old > 0 /\ stage <= old + 1 /\ FirstNew(rx, old - (stage - 1))
    <3>. DEFINE k == old - (stage - 1)
    <3>1. PICK p \in AnswerEnds(rx) :
            rx[p].kind = Exchanges[1].name /\ Cardinality(Before(rx, p)) = k
      BY <2>6 DEF FirstNew
    <3>2. p # n
      <4>1. SUFFICES ASSUME p = n PROVE FALSE
        OBVIOUS
      <4>2. 1 = stage
        BY <1>1, <2>3, <3>1, <4>1, NamesDiffer
      <4>3. Before(rx, p) = {}
        <5>1. \A q \in AnswerEnds(rx) : q \in Nat /\ ~(q < n)
          <6>1. \A q \in AnswerEnds(rx) : q \in Nat
            BY <1>0, IsEnd
          <6>2. n \in Nat
            BY <1>0
          <6>. QED  BY <2>3, <6>1, <6>2
        <5>. QED  BY <4>1, <5>1 DEF Before
      <4>4. k = 0
        BY <3>1, <4>3, FS_EmptySet
      <4>. QED  BY <1>1, <2>6, <4>2, <4>4
    <3>3. /\ p - n \in AnswerEnds(rx') /\ rx'[p - n] = rx[p]
          /\ Cardinality(Before(rx, p)) = Cardinality(Before(rx', p - n)) + 1
      BY <1>0, <2>1, <2>3, <3>2, FirstTaken DEF Dropped
    <3>4. Cardinality(Before(rx', p - n)) \in Nat
      <4>1. rx' \in Seq(Cells)
        BY <1>0, <2>1, GoodDropped DEF Dropped, Inputs
      <4>2. IsFiniteSet(AnswerEnds(rx')) /\ Before(rx', p - n) \in SUBSET AnswerEnds(rx')
        BY <4>1, EndsCounted DEF Before
      <4>. QED  BY <4>2, FS_Subset, FS_CardinalityType
    <3>5. Cardinality(Before(rx', p - n)) = old - stage /\ old - stage >= 0
      <4>. DEFINE c == Cardinality(Before(rx', p - n))
      <4>1. c \in Nat /\ c + 1 = old - (stage - 1)
        BY <3>1, <3>3, <3>4
      <4>. HIDE DEF c
      <4>2. c = old - stage /\ old - stage >= 0
        BY <1>1, <4>1
      <4>. QED  BY <4>2 DEF c
    <3>6. FirstNew(rx', old - stage)
      BY <3>1, <3>3, <3>5 DEF FirstNew
    <3>7. stage < 6
      BY <1>1, <2>2, <3>5
    <3>8. pc' = "command" => stage' > 1 /\ stage' <= old + 1 /\ old - (stage' - 1) = old - stage
      BY <1>1, <2>4, <3>5
    <3>. QED  BY <2>2, <2>4, <3>6, <3>7, <3>8 DEF RowInv
  <2>. QED  BY <1>1, <1>2, <2>2, <2>3, <2>5, <2>6
<1>7. CASE Scan
  <2>1. PICK n \in 1..Len(rx) : rx' = Dropped(n)
    BY <1>7 DEF Scan
  <2>2. pc = "scan" /\ UNCHANGED <<stage, misread, interrupted, old>>
        /\ pc' \in {"ended", "found", "scan"}
    BY <1>7 DEF Scan
  <2>3. ~interrupted => AnswerEnds(rx') = {}
    <3>1. n \in 0..Len(rx)
      BY <1>0
    <3>. QED  BY <1>1, <1>2, <1>3, <2>1, <2>2, <3>1
  <2>. QED  BY <2>2, <2>3 DEF RowInv
<1>8. CASE Decide
  <2>. DEFINE a == AnswerTo(EndProcedure, CodeOf(EndProcedure))
  <2>1. /\ pc = "found" /\ pc' \in {"stopping", "ended"}
        /\ pc' = "stopping" => rx' = rx \o a
    BY <1>8 DEF Decide, EndScan, EndCode
  <2>2. UNCHANGED <<stage, misread, interrupted, old>>
    BY <1>8 DEF Decide, history
  <2>3. CodeOf(Exchanges[3]) \in Codes /\ a = AnswerTo(Exchanges[3], CodeOf(Exchanges[3]))
    BY ExchangeFacts, CodeIsGood
  <2>. HIDE DEF a
  <2>4. \E p : AnswerEnds(rx \o a) = AnswerEnds(rx) \cup {p}
    <3>. DEFINE code == CodeOf(Exchanges[3])
    <3>1. 3 \in 1..6 /\ code \in Codes /\ a = AnswerTo(Exchanges[3], code)
      BY <2>3
    <3>. HIDE DEF code
    <3>. DEFINE u == rx \o AnswerTo(Exchanges[3], code)
    <3>2. \E p \in AnswerEnds(u) : /\ AnswerEnds(u) = AnswerEnds(rx) \cup {p}
                                   /\ u[p].kind = Exchanges[3].name
                                   /\ Before(u, p) = AnswerEnds(rx)
      BY <1>0, <3>1, AnswerBehind
    <3>. HIDE DEF u
    <3>3. \E p : AnswerEnds(u) = AnswerEnds(rx) \cup {p}
      BY <3>2
    <3>. QED  BY <3>1, <3>3 DEF u
  <2>5. ~interrupted => AnswerEnds(rx) = {}
    <3>1. ~misread /\ old < 6
      BY <1>1, <2>2
    <3>. QED  BY <1>2, <2>1, <3>1
  <2>6. pc' = "stopping" /\ ~interrupted => \E p : AnswerEnds(rx') = {p}
    <3>1. PICK p : AnswerEnds(rx \o a) = AnswerEnds(rx) \cup {p}
      BY <2>4
    <3>2. ASSUME pc' = "stopping", ~interrupted PROVE AnswerEnds(rx') = {p}
      BY <2>1, <2>5, <3>1, <3>2
    <3>. QED  BY <3>2
  <2>7. interrupted' = interrupted
    BY <2>2
  <2>. QED  BY <2>1, <2>6, <2>7 DEF RowInv
<1>9. CASE ReadEnd
  <2>1. PICK n \in 0..Len(rx) :
          /\ Read(EndProcedure, n)
          /\ IF Passes(EndProcedure, Bytes(n))
             THEN pc' = "connect" /\ rx' = Taken(n) /\ UNCHANGED dongle
             ELSE pc' = "failed" /\ EndScan(Dropped(n), EndCode)
    BY <1>9 DEF ReadEnd
  <2>2. pc = "stopping" /\ UNCHANGED <<interrupted, old>>
    BY <1>9 DEF ReadEnd
  <2>3. ~misread /\ n \in AnswerEnds(rx)
    <3>1. EndProcedure = Exchanges[3] /\ 3 \in 1..6
      BY ExchangeFacts
    <3>. QED  BY <1>0, <2>1, <3>1, ExactRead
  <2>4. pc' = "failed" \/ (pc' = "connect" /\ rx' = Dropped(n))
    BY <2>1 DEF Taken
  <2>5. ~interrupted => AnswerEnds(rx) = {n}
    BY <1>1, <1>2, <2>2, <2>3
  <2>6. pc' = "connect" /\ ~interrupted => AnswerEnds(rx') = {}
    BY <1>3, <2>4, <2>5
  <2>. QED  BY <2>2, <2>4, <2>6 DEF RowInv
<1>10. CASE Interrupt
  <2>1. pc' = "ended" \/ (pc' = "found" /\ interrupted' = TRUE)
    BY <1>10 DEF Interrupt
  <2>. QED  BY <2>1 DEF RowInv
<1>11. CASE Restart
  <2>1. pc' = "flush"
    BY <1>11 DEF Restart
  <2>. QED  BY <2>1 DEF RowInv
<1>12. ASSUME NEW e, rx' = rx \o e,
              \/ \E heard \in Heard : e = Report(heard[1], heard[2])
              \/ e = Event("gone", 3, 4, <<0, 22, 2>>),
              UNCHANGED <<pc, stage, misread, interrupted, old>>
       PROVE  RowInv'
  <2>1. AnswerEnds(rx') = AnswerEnds(rx) /\ \A k : FirstNew(rx, k) => FirstNew(rx', k)
    BY <1>0, <1>12, EventBehind
  <2>. QED  BY <1>12, <2>1 DEF RowInv
<1>13. CASE SendReport
  <2>1. PICK heard \in Heard : rx' = rx \o Report(heard[1], heard[2])
    BY <1>13 DEF SendReport
  <2>2. UNCHANGED <<pc, stage, misread, interrupted, old>>
    BY <1>13 DEF SendReport, history
  <2>. QED  BY <1>12, <2>1, <2>2
<1>14. CASE SendDisconnected
  <2>1. rx' = rx \o Event("gone", 3, 4, <<0, 22, 2>>)
    BY <1>14 DEF SendDisconnected
  <2>2. UNCHANGED <<pc, stage, misread, interrupted, old>>
    BY <1>14 DEF SendDisconnected, history
  <2>. QED  BY <1>12, <2>1, <2>2
<1>15. CASE UNCHANGED vars
  BY <1>15 DEF vars, RowInv
<1>. QED
  BY <1>4, <1>5, <1>6, <1>7, <1>8, <1>9, <1>10, <1>11, <1>13, <1>14, <1>15 DEF Next

(* Behind a scan that was not stopped by hand, with all answers read by    *)
(* themselves, nothing but events is left for the session to read, however *)
(* often the script was started: of up to five answers that earlier starts *)
(* left behind the first is read for that to the first command, and the    *)
(* row of them ends in one that does not fit (MyoConnectionTest.py, the    *)
(* exchanges up to the connection).                                        *)
THEOREM EventsAreLeft == Spec => []OnlyEventsLeft
<1>1. Init => FramedInv
  BY DEF Init, FramedInv, Framed
<1>2. FailInv /\ FramedInv /\ RowInv => OnlyEventsLeft
  <2>. SUFFICES ASSUME FailInv, FramedInv, RowInv, pc = "connect", ~misread, ~interrupted,
                       old < Len(Exchanges), NEW i \in DOMAIN rx
                PROVE  FromEvent(rx[i])
    BY DEF OnlyEventsLeft
  <2>1. AnswerEnds(rx) = {}
    BY DEF RowInv
  <2>2. rx \in Seq(Cells) /\ i \in 1..Len(rx)
    BY DEF FailInv, TypeOK
  <2>. QED  BY <2>1, <2>2, NoEndNoAnswer DEF FramedInv
<1>. QED  BY <1>1, <1>2, FailInit, FailNext, FramedNext, RowInit, RowNext, PTL DEF Spec
=============================================================================
