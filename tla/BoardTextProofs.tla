--------------------------- MODULE BoardTextProofs ---------------------------
(* What Serialize and ByteSize make of a message, and what reading, cutting *)
(* and splitting make of the text of the board, for every number of fields  *)
(* and every buffer.                                                        *)
EXTENDS BoardText, SequenceTheorems, FiniteSetTheorems, WellFoundedInduction,
        TLAPS

(* The first of some positions. *)
LEMMA LeastOf ==
  ASSUME NEW S, S \subseteq Nat, S # {}
  PROVE  \E m \in S : \A y \in S : m <= y
<1>1. PICK m \in S : \A y \in S : ~(<<y, m>> \in OpToRel(<, Nat))
  BY NatLessThanWellFounded, WFMin
<1>2. ASSUME NEW y \in S PROVE m <= y
  <2>1. m \in Nat /\ y \in Nat
    OBVIOUS
  <2>2. ~(y < m)
    BY <1>1, <2>1 DEF OpToRel
  <2>. QED  BY <2>1, <2>2
<1>. QED  BY <1>2

LEMMA FirstOf ==
  ASSUME NEW S, S \subseteq Nat, S # {}
  PROVE  Min(S) \in S /\ \A y \in S : Min(S) <= y
<1>1. \E x \in S : \A y \in S : x =< y
  BY LeastOf
<1>. QED  BY <1>1 DEF Min

-----------------------------------------------------------------------------
(* The numbers of a finite set, counted from the least. *)

Upto(S, x) == {j \in S : j <= x}
Counted(S, x) == Cardinality(Upto(S, x))

LEMMA SetOfNumbers ==
  ASSUME NEW n \in Nat, NEW S \in SUBSET (0..n)
  PROVE  /\ IsFiniteSet(S) /\ Cardinality(S) \in Nat
         /\ \A x \in S : x \in Nat /\ x \in Int /\ x - 1 \in Int /\ 0 <= x /\ x <= n
<1>1. IsFiniteSet(0..n)
  BY FS_Interval
<1>2. IsFiniteSet(S) /\ Cardinality(S) \in Nat
  BY <1>1, FS_Subset, FS_CardinalityType
<1>3. \A x \in 0..n : x \in Nat /\ x \in Int /\ x - 1 \in Int /\ 0 <= x /\ x <= n
  OBVIOUS
<1>. QED  BY <1>2, <1>3

LEMMA CountStep ==
  ASSUME NEW n \in Nat, NEW S \in SUBSET (0..n), NEW x \in Int
  PROVE  /\ Counted(S, x) \in 0..Cardinality(S) /\ Counted(S, x) \in Int
         /\ x < 0 => Counted(S, x) = 0
         /\ x >= n => Counted(S, x) = Cardinality(S)
         /\ Counted(S, x) = Counted(S, x - 1) + (IF x \in S THEN 1 ELSE 0)
<1>1. \A j \in S : j \in Int /\ 0 <= j /\ j <= n
  BY SetOfNumbers
<1>2. IsFiniteSet(S) /\ Cardinality(S) \in Nat
  BY SetOfNumbers
<1>3. ASSUME NEW y PROVE IsFiniteSet(Upto(S, y)) /\ Counted(S, y) \in 0..Cardinality(S)
  <2>1. Upto(S, y) \in SUBSET S
    BY DEF Upto
  <2>2. IsFiniteSet(Upto(S, y)) /\ Counted(S, y) \in Nat /\ Counted(S, y) <= Cardinality(S)
    BY <1>2, <2>1, FS_Subset, FS_CardinalityType DEF Counted
  <2>. QED  BY <1>2, <2>2
<1>4. x < 0 => Counted(S, x) = 0
  <2>. SUFFICES ASSUME x < 0 PROVE Counted(S, x) = 0
    OBVIOUS
  <2>1. ASSUME NEW j \in S PROVE ~(j <= x)
    BY <1>1
  <2>2. Upto(S, x) = {}
    BY <2>1 DEF Upto
  <2>. QED  BY <2>2, FS_EmptySet DEF Counted
<1>5. x >= n => Counted(S, x) = Cardinality(S)
  <2>. SUFFICES ASSUME x >= n PROVE Counted(S, x) = Cardinality(S)
    OBVIOUS
  <2>1. ASSUME NEW j \in S PROVE j <= x
    BY <1>1
  <2>2. Upto(S, x) = S
    BY <2>1 DEF Upto
  <2>. QED  BY <2>2 DEF Counted
<1>6. Counted(S, x) = Counted(S, x - 1) + (IF x \in S THEN 1 ELSE 0)
  <2>1. CASE x \in S
    <3>0. ASSUME NEW j \in S PROVE j <= x <=> j <= x - 1 \/ j = x
      BY <1>1
    <3>3. ~(x <= x - 1)
      OBVIOUS
    <3>1. Upto(S, x) = Upto(S, x - 1) \cup {x} /\ x \notin Upto(S, x - 1)
      BY <2>1, <3>0, <3>3 DEF Upto
    <3>2. Cardinality(Upto(S, x - 1) \cup {x}) = Cardinality(Upto(S, x - 1)) + 1
      BY <1>3, <3>1, FS_AddElement
    <3>. QED  BY <2>1, <3>1, <3>2 DEF Counted
  <2>2. CASE x \notin S
    <3>0. ASSUME NEW j \in S PROVE j <= x <=> j <= x - 1
      BY <1>1, <2>2
    <3>1. Upto(S, x) = Upto(S, x - 1)
      BY <3>0 DEF Upto
    <3>2. Counted(S, x - 1) \in Nat
      BY <1>3
    <3>. QED  BY <2>2, <3>1, <3>2 DEF Counted
  <2>. QED  BY <2>1, <2>2
<1>. QED  BY <1>2, <1>3, <1>4, <1>5, <1>6

(* A later number has counted more. *)
LEMMA CountGrows ==
  ASSUME NEW n \in Nat, NEW S \in SUBSET (0..n), NEW x \in Int, NEW y \in Int, x <= y
  PROVE  Counted(S, x) <= Counted(S, y)
<1>0. \A j \in S : j \in Int
  BY SetOfNumbers
<1>4. ASSUME NEW j \in S, j <= x PROVE j <= y
  BY <1>0, <1>4
<1>1. Upto(S, x) \in SUBSET Upto(S, y)
  BY <1>4 DEF Upto
<1>2. Upto(S, y) \in SUBSET S /\ IsFiniteSet(S)
  BY SetOfNumbers DEF Upto
<1>3. IsFiniteSet(Upto(S, y))
  BY <1>2, FS_Subset
<1>. QED  BY <1>1, <1>3, FS_Subset DEF Counted

LEMMA CountGrowsAt ==
  ASSUME NEW n \in Nat, NEW S \in SUBSET (0..n), NEW x \in Int, NEW y \in S, x < y
  PROVE  Counted(S, x) < Counted(S, y)
<1>0. y \in Int /\ y - 1 \in Int /\ Cardinality(S) \in Nat
  BY SetOfNumbers
<1>1. y \in Int /\ y - 1 \in Int /\ x <= y - 1
  BY <1>0
<1>2. Counted(S, x) <= Counted(S, y - 1)
  BY <1>1, CountGrows
<1>3. Counted(S, y) = Counted(S, y - 1) + 1
  BY <1>1, CountStep
<1>4. /\ Counted(S, x) \in 0..Cardinality(S) /\ Counted(S, y - 1) \in 0..Cardinality(S)
      /\ Cardinality(S) \in Nat
  BY <1>0, <1>1, CountStep
<1>. QED  BY <1>2, <1>3, <1>4

(* There is a k-th number for every k. *)
LEMMA NthOf ==
  ASSUME NEW n \in Nat, NEW S \in SUBSET (0..n), NEW k \in 1..Cardinality(S)
  PROVE  Nth(S, k) \in S /\ Counted(S, Nth(S, k)) = k
<1>0. Cardinality(S) \in Nat
  BY SetOfNumbers
<1>1. Cardinality(S) \in Nat /\ k \in Nat /\ k >= 1 /\ k <= Cardinality(S)
  BY <1>0
<1>. DEFINE T == {x \in 0..n : Counted(S, x) >= k}
<1>2. n \in T
  <2>1. n \in Int /\ n >= n
    OBVIOUS
  <2>2. Counted(S, n) = Cardinality(S)
    BY <2>1, CountStep
  <2>. QED  BY <1>1, <2>2
<1>3. PICK x \in T : \A y \in T : x <= y
  <2>1. T \subseteq Nat /\ T # {}
    BY <1>2
  <2>. HIDE DEF T
  <2>. QED  BY <2>1, LeastOf
<1>4. x \in 0..n /\ x \in Int /\ x - 1 \in Int /\ Counted(S, x) >= k
  OBVIOUS
<1>5. Counted(S, x - 1) < k
  <2>1. CASE x = 0
    <3>1. x - 1 < 0
      BY <2>1
    <3>2. Counted(S, x - 1) = 0
      BY <1>4, <3>1, CountStep
    <3>. QED  BY <1>1, <3>2
  <2>2. CASE x # 0
    <3>1. x - 1 \in 0..n /\ x - 1 \notin T
      BY <1>3, <1>4, <2>2
    <3>2. Counted(S, x - 1) \in Int
      BY <1>4, CountStep
    <3>. QED  BY <1>1, <3>1, <3>2
  <2>. QED  BY <2>1, <2>2
<1>6. Counted(S, x) = Counted(S, x - 1) + (IF x \in S THEN 1 ELSE 0)
  BY <1>4, CountStep
<1>7. Counted(S, x - 1) \in Int /\ Counted(S, x) \in Int
  BY <1>4, CountStep
<1>8. x \in S /\ Counted(S, x) = k
  BY <1>1, <1>4, <1>5, <1>6, <1>7
<1>. QED  BY <1>8 DEF Nth, Counted, Upto

LEMMA NthInOrder ==
  ASSUME NEW n \in Nat, NEW S \in SUBSET (0..n),
         NEW k \in 1..Cardinality(S), NEW l \in 1..Cardinality(S), k < l
  PROVE  Nth(S, k) < Nth(S, l)
<1>1. /\ Nth(S, k) \in S /\ Counted(S, Nth(S, k)) = k
      /\ Nth(S, l) \in S /\ Counted(S, Nth(S, l)) = l
  BY NthOf
<1>2. Nth(S, k) \in Int /\ Nth(S, l) \in Int
  BY <1>1, SetOfNumbers
<1>3. Nth(S, l) <= Nth(S, k) => Counted(S, Nth(S, l)) <= Counted(S, Nth(S, k))
  BY <1>2, CountGrows
<1>4. Cardinality(S) \in Nat
  BY SetOfNumbers
<1>. QED  BY <1>1, <1>2, <1>3, <1>4

(* Every number of the set is one of them. *)
LEMMA EveryNth ==
  ASSUME NEW n \in Nat, NEW S \in SUBSET (0..n), NEW x \in S
  PROVE  Counted(S, x) \in 1..Cardinality(S) /\ Nth(S, Counted(S, x)) = x
<1>1. x \in Int /\ x - 1 \in Int /\ Cardinality(S) \in Nat
  BY SetOfNumbers
<1>2. /\ Counted(S, x) = Counted(S, x - 1) + 1 /\ Counted(S, x - 1) \in 0..Cardinality(S)
      /\ Counted(S, x) \in 0..Cardinality(S) /\ Cardinality(S) \in Nat
  BY <1>1, CountStep
<1>3. Counted(S, x) \in 1..Cardinality(S)
  BY <1>2
<1>. DEFINE y == Nth(S, Counted(S, x))
<1>4. y \in S /\ Counted(S, y) = Counted(S, x)
  BY <1>3, NthOf
<1>5. y \in Int
  BY <1>4, SetOfNumbers
<1>6. ~(x < y) /\ ~(y < x)
  <2>. HIDE DEF y
  <2>1. x < y => Counted(S, x) < Counted(S, y)
    BY <1>1, <1>4, CountGrowsAt
  <2>2. y < x => Counted(S, y) < Counted(S, x)
    BY <1>5, CountGrowsAt
  <2>. QED  BY <1>2, <1>4, <2>1, <2>2
<1>. QED  BY <1>1, <1>3, <1>5, <1>6

-----------------------------------------------------------------------------
(* The message. *)

(* A message without a zero field has N units, unit f carrying field f. *)
THEOREM WholeMessage ==
  ASSUME NEW sensor, \A f \in Fields : sensor[f] # Zero
  PROVE  /\ ByteSize(sensor) = N
         /\ Serialize(sensor) = [f \in Fields |-> Unit(sensor, f)]
<1>1. N \in Nat
  BY FrameAssumption
<1>2. Present(sensor) = 1..N
  BY DEF Present, Fields
<1>3. Cardinality(1..N) = N
  BY <1>1, FS_Interval
<1>4. ByteSize(sensor) = N
  BY <1>2, <1>3 DEF ByteSize
<1>5. ASSUME NEW k \in 1..N
      PROVE  NthPresent(sensor, k) = k
  <2>1. ASSUME NEW f \in 1..N
        PROVE  Cardinality({g \in Present(sensor) : g <= f}) = f
    <3>1. {g \in Present(sensor) : g <= f} = 1..f
      BY <1>1, <1>2
    <3>2. Cardinality(1..f) = f
      BY FS_Interval
    <3>. QED  BY <3>1, <3>2
  <2>. QED  BY <1>2, <2>1 DEF NthPresent, Nth
<1>6. Serialize(sensor) = [k \in 1..N |-> Unit(sensor, k)]
  BY <1>4, <1>5 DEF Serialize
<1>. QED  BY <1>4, <1>6 DEF Fields

(* A message with a zero field is shorter than N units. *)
THEOREM ShortMessage ==
  ASSUME NEW sensor, NEW f \in Fields, sensor[f] = Zero
  PROVE  ByteSize(sensor) \in 0..(N - 1)
<1>1. N \in Nat
  BY FrameAssumption
<1>2. IsFiniteSet(1..N) /\ Cardinality(1..N) = N
  BY <1>1, FS_Interval
<1>3. Present(sensor) \subseteq 1..N /\ f \in 1..N /\ f \notin Present(sensor)
  BY DEF Present, Fields
<1>4. /\ IsFiniteSet(Present(sensor))
      /\ Cardinality(Present(sensor)) \in Nat
      /\ Cardinality(Present(sensor)) < Cardinality(1..N)
  BY <1>2, <1>3, FS_Subset, FS_CardinalityType
<1>. QED  BY <1>1, <1>2, <1>4 DEF ByteSize

(* No message is longer than a sensor without zeros. *)
LEMMA AnyMessage ==
  ASSUME NEW m
  PROVE  ByteSize(m) \in 0..N
<1>1. N \in Nat
  BY FrameAssumption
<1>2. IsFiniteSet(1..N) /\ Cardinality(1..N) = N
  BY <1>1, FS_Interval
<1>3. Present(m) \in SUBSET (1..N)
  BY DEF Present, Fields
<1>4. IsFiniteSet(Present(m)) /\ Cardinality(Present(m)) <= N
  BY <1>2, <1>3, FS_Subset
<1>5. Cardinality(Present(m)) \in Nat
  BY <1>4, FS_CardinalityType
<1>. QED  BY <1>1, <1>4, <1>5 DEF ByteSize

-----------------------------------------------------------------------------
(* The text of the board, and what a read makes of it. *)

LEMMA BoardConstants ==
  N \in Nat /\ N >= 1 /\ BufCells \in Nat /\ BufCells >= 2 /\ MaxReadings \in Nat
BY FrameAssumption, TextAssumption

(* What a text can be cut down to. *)
Texts(n) == {t \in Seq(Cells) : Len(t) <= n}

LEMMA FrontIsText ==
  ASSUME NEW n \in Nat, NEW t \in Texts(n), NEW m \in Int, m <= Len(t)
  PROVE  SubSeq(t, 1, m) \in Texts(n)
<1>1. t \in Seq(Cells) /\ Len(t) \in Nat /\ Len(t) <= n
  BY DEF Texts
<1>2. CASE m < 1
  <2>1. SubSeq(t, 1, m) = <<>>
    BY <1>1, <1>2, SubSeqEmpty
  <2>. QED  BY <2>1 DEF Texts
<1>3. CASE m >= 1
  <2>1. SubSeq(t, 1, m) \in Seq(Cells) /\ Len(SubSeq(t, 1, m)) = m
    BY <1>1, <1>3
  <2>. QED  BY <1>1, <2>1 DEF Texts
<1>. QED  BY <1>2, <1>3

LEMMA RestIsText ==
  ASSUME NEW n \in Nat, NEW t \in Texts(n), NEW m \in 1..(Len(t) + 1)
  PROVE  SubSeq(t, m, Len(t)) \in Texts(n)
<1>1. t \in Seq(Cells) /\ Len(t) \in Nat /\ Len(t) <= n
  BY DEF Texts
<1>2. CASE m > Len(t)
  <2>1. SubSeq(t, m, Len(t)) = <<>>
    BY <1>1, <1>2, SubSeqEmpty
  <2>. QED  BY <2>1 DEF Texts
<1>3. CASE m <= Len(t)
  <2>1. SubSeq(t, m, Len(t)) \in Seq(Cells) /\ Len(SubSeq(t, m, Len(t))) = Len(t) - m + 1
    BY <1>1, <1>3
  <2>2. Len(t) - m + 1 <= n
    BY <1>1
  <2>. QED  BY <2>1, <2>2 DEF Texts
<1>. QED  BY <1>1, <1>2, <1>3

LEMMA NewlineAt ==
  ASSUME NEW t \in Seq(Cells)
  PROVE  SelectInSeq(t, IsNewline) \in 0..Len(t)
<1>. DEFINE I == {i \in 1..Len(t) : IsNewline(t[i])}
<1>1. SelectInSeq(t, IsNewline) = IF I # {} THEN Min(I) ELSE 0
  BY DEF SelectInSeq
<1>2. I \subseteq Nat /\ \A i \in I : i \in 1..Len(t)
  OBVIOUS
<1>3. I # {} => Min(I) \in I
  <2>. HIDE DEF I
  <2>. QED  BY <1>2, FirstOf
<1>. QED  BY <1>1, <1>2, <1>3

LEMMA NulAt ==
  ASSUME NEW t \in Seq(Cells)
  PROVE  SelectInSeq(t, LAMBDA c : c = Nul) \in 0..Len(t)
<1>. DEFINE I == {i \in 1..Len(t) : t[i] = Nul}
<1>1. SelectInSeq(t, LAMBDA c : c = Nul) = IF I # {} THEN Min(I) ELSE 0
  BY DEF SelectInSeq
<1>2. I \subseteq Nat /\ \A i \in I : i \in 1..Len(t)
  OBVIOUS
<1>3. I # {} => Min(I) \in I
  <2>. HIDE DEF I
  <2>. QED  BY <1>2, FirstOf
<1>. QED  BY <1>1, <1>2, <1>3

(* Both halves of a cell that a read cuts are cells. *)
LEMMA CutCells ==
  ASSUME NEW c \in Cells, Cuttable(c), NEW halves \in Cuts(c)
  PROVE  halves[1] \in Cells /\ halves[2] \in Cells
<1>1. Junk \in Cells
  BY DEF Cells
<1>2. CASE c = Set
  BY <1>1, <1>2 DEF Cuts
<1>3. CASE c # Set
  <2>1. PICK r \in 1..MaxReadings, f \in Fields, p \in {"whole", "head", "tail"} :
          c = Num(r, f, p)
    BY <1>3 DEF Cuttable, Cells, Comma, Newline, Set, Cmd, Nul, Junk, Mark
  <2>2. /\ [c EXCEPT !.part = "head"] = Num(r, f, "head")
        /\ [c EXCEPT !.part = "tail"] = Num(r, f, "tail")
    BY <2>1 DEF Num
  <2>3. Num(r, f, "head") \in Cells /\ Num(r, f, "tail") \in Cells
    BY DEF Cells
  <2>. QED  BY <1>1, <1>3, <2>2, <2>3 DEF Cuts
<1>. QED  BY <1>2, <1>3

LEMMA RestOfQueue ==
  ASSUME NEW q \in Seq(Cells), NEW k \in 1..Len(q)
  PROVE  /\ SubSeq(q, k + 1, Len(q)) \in Seq(Cells)
         /\ Len(SubSeq(q, k + 1, Len(q))) = Len(q) - k
         /\ SubSeq(q, 1, k) \in Seq(Cells) /\ Len(SubSeq(q, 1, k)) = k
         /\ SubSeq(q, 1, k - 1) \in Seq(Cells) /\ Len(SubSeq(q, 1, k - 1)) = k - 1
         /\ q[k] \in Cells
<1>1. Len(q) \in Nat /\ k \in Nat /\ k >= 1 /\ k <= Len(q) /\ q[k] \in Cells
  OBVIOUS
<1>2. SubSeq(q, k + 1, Len(q)) \in Seq(Cells) /\ Len(SubSeq(q, k + 1, Len(q))) = Len(q) - k
  BY <1>1
<1>3. SubSeq(q, 1, k) \in Seq(Cells) /\ Len(SubSeq(q, 1, k)) = k
  BY <1>1
<1>4. SubSeq(q, 1, k - 1) \in Seq(Cells) /\ Len(SubSeq(q, 1, k - 1)) = k - 1
  BY <1>1
<1>. QED  BY <1>1, <1>2, <1>3, <1>4

(* A read never returns more than the buffer holds, and never makes the    *)
(* queue longer, also when it cuts a cell.                                 *)
LEMMA ReadTypes ==
  ASSUME NEW q \in Seq(Cells), NEW r \in Reads(q)
  PROVE  /\ r[1] \in Seq(Cells) /\ Len(r[1]) <= BufCells
         /\ r[2] \in Seq(Cells) /\ Len(r[2]) <= Len(q)
<1>. DEFINE most == IF Len(q) < BufCells THEN Len(q) ELSE BufCells
            Ahead(k) == SubSeq(q, 1, k - 1)
            After(k) == SubSeq(q, k + 1, Len(q))
<1>1. Len(q) \in Nat /\ BufCells \in Nat /\ most \in Nat /\ most <= Len(q) /\ most <= BufCells
  BY BoardConstants
<1>2. ASSUME NEW k \in 1..most
      PROVE  /\ Ahead(k) \in Seq(Cells) /\ Len(Ahead(k)) = k - 1
             /\ After(k) \in Seq(Cells) /\ Len(After(k)) = Len(q) - k
             /\ q[k] \in Cells
  BY <1>1, RestOfQueue
<1>3. ASSUME NEW s \in Seq(Cells), NEW c \in Cells
      PROVE  /\ s \o <<c>> \in Seq(Cells) /\ Len(s \o <<c>>) = Len(s) + 1
             /\ <<c>> \o s \in Seq(Cells) /\ Len(<<c>> \o s) = Len(s) + 1
  <2>1. <<c>> \in Seq(Cells) /\ Len(<<c>>) = 1 /\ Len(s) \in Nat
    OBVIOUS
  <2>2. s \o <<c>> \in Seq(Cells) /\ Len(s \o <<c>>) = Len(s) + 1
    BY <2>1, ConcatProperties
  <2>3. <<c>> \o s \in Seq(Cells) /\ Len(<<c>> \o s) = Len(s) + 1
    BY <2>1, ConcatProperties
  <2>. QED  BY <2>2, <2>3
<1>4. CASE r \in {<<Ahead(k), <<q[k]>> \o After(k)>> : k \in 1..most}
  <2>1. PICK k \in 1..most : r = <<Ahead(k), <<q[k]>> \o After(k)>>
    BY <1>4
  <2>2. r[1] = Ahead(k) /\ r[2] = <<q[k]>> \o After(k)
    BY <2>1
  <2>3. k \in Nat /\ k >= 1 /\ k <= most
    BY <1>1
  <2>. HIDE DEF Ahead, After, most
  <2>4. Len(r[2]) = (Len(q) - k) + 1 /\ r[2] \in Seq(Cells)
    BY <1>2, <1>3, <2>2
  <2>5. r[1] \in Seq(Cells) /\ Len(r[1]) = k - 1
    BY <1>2, <2>2
  <2>. QED  BY <1>1, <2>3, <2>4, <2>5
<1>5. CASE r = <<SubSeq(q, 1, most), After(most)>>
  <2>1. r[1] = SubSeq(q, 1, most) /\ r[2] = SubSeq(q, most + 1, Len(q))
    BY <1>5
  <2>. HIDE DEF most
  <2>2. CASE most = 0
    <3>1. r[1] = <<>>
      BY <1>1, <2>1, <2>2, SubSeqEmpty
    <3>2. r[2] \in Seq(Cells) /\ Len(r[2]) <= Len(q)
      BY <1>1, <2>1, <2>2
    <3>. QED  BY <1>1, <3>1, <3>2
  <2>3. CASE most # 0
    BY <1>1, <2>1, <2>3, RestOfQueue
  <2>. QED  BY <2>2, <2>3
<1>6. CASE r \in UNION {{<<Ahead(k) \o <<c[1]>>, <<c[2]>> \o After(k)>> :
                           c \in Cuts(q[k])} :
                        k \in {i \in 1..most : Cuttable(q[i])}}
  <2>1. PICK k \in 1..most : /\ Cuttable(q[k])
                            /\ \E c \in Cuts(q[k]) :
                                 r = <<Ahead(k) \o <<c[1]>>, <<c[2]>> \o After(k)>>
    BY <1>6
  <2>2. PICK c \in Cuts(q[k]) : r = <<Ahead(k) \o <<c[1]>>, <<c[2]>> \o After(k)>>
    BY <2>1
  <2>3. c[1] \in Cells /\ c[2] \in Cells
    BY <1>2, <2>1, CutCells
  <2>4. r[1] = Ahead(k) \o <<c[1]>> /\ r[2] = <<c[2]>> \o After(k)
    BY <2>2
  <2>5. k \in Nat /\ k >= 1 /\ k <= most
    BY <1>1
  <2>. HIDE DEF Ahead, After, most
  <2>6. r[1] \in Seq(Cells) /\ Len(r[1]) = (k - 1) + 1
    BY <1>2, <1>3, <2>3, <2>4
  <2>7. r[2] \in Seq(Cells) /\ Len(r[2]) = (Len(q) - k) + 1
    BY <1>2, <1>3, <2>3, <2>4, ZenonT(40)
  <2>. QED  BY <1>1, <2>5, <2>6, <2>7
<1>. QED  BY <1>4, <1>5, <1>6 DEF Reads

LEMMA ReadingIsText ==
  ASSUME NEW r \in 1..MaxReadings
  PROVE  ReadingLine(r) \in Seq(Cells) /\ Len(ReadingLine(r)) = 2 * N
<1>1. N \in Nat
  BY BoardConstants
<1>2. ASSUME NEW i \in 1..(2 * N)
      PROVE  (IF i = 2 * N THEN Newline ELSE IF i % 2 = 0 THEN Comma
              ELSE Num(r, (i + 1) \div 2, "whole")) \in Cells
  <2>1. Newline \in Cells /\ Comma \in Cells
    BY DEF Cells
  <2>2. ASSUME NEW f \in Fields PROVE Num(r, f, "whole") \in Cells
    BY DEF Cells
  <2>3. (i + 1) \div 2 \in Fields
    BY <1>1 DEF Fields
  <2>. QED  BY <2>1, <2>2, <2>3
<1>3. ReadingLine(r) \in [1..(2 * N) -> Cells]
  BY <1>2 DEF ReadingLine
<1>. QED  BY <1>1, <1>3

-----------------------------------------------------------------------------
(* The order of the numbers in a text. *)

IsNum(c) == c.kind = "num"

(* The mark c is between the positions i and j. *)
Apart(s, c, i, j) == \E m \in i..j : s[m] = c

(* The numbers of a text come in the order in which the board printed them: *)
(* reading by reading; what no newline separates is of one reading, field  *)
(* by field; and what no comma separates either is of one field.           *)
Ordered(s) ==
  \A i, j \in 1..Len(s) :
    i <= j /\ IsNum(s[i]) /\ IsNum(s[j]) =>
      /\ s[i].rd <= s[j].rd
      /\ \/ Apart(s, Newline, i, j)
         \/ /\ s[i].rd = s[j].rd /\ s[i].fld <= s[j].fld
            /\ Apart(s, Comma, i, j) \/ s[i].fld = s[j].fld

(* The readings whose numbers are in a text, or in the values of a message. *)
Rds(s) == {s[i].rd : i \in {k \in 1..Len(s) : IsNum(s[k])}}
Carried(val) == IF val.kind = "parsed" THEN ToSet(val.digits) ELSE {}
CarriedRds(vals) == {a.rd : a \in UNION {Carried(vals[f]) : f \in DOMAIN vals}}
Before(A, B) == \A a \in A, b \in B : a <= b

(* Four sets of readings, each no newer than the next, and none after last. *)
Chain(A, B, C, D, last) ==
  /\ Before(A, B) /\ Before(A, C) /\ Before(A, D)
  /\ Before(B, C) /\ Before(B, D) /\ Before(C, D)
  /\ \A r \in A \cup B \cup C \cup D : r \in Nat /\ r <= last

(* The values of a message are of one reading, in its order. *)
InOrder(vals) ==
  \A f, g \in DOMAIN vals :
    \A a \in Carried(vals[f]), b \in Carried(vals[g]) :
      a.rd = b.rd /\ (f <= g => a.fld <= b.fld)

LEMMA CellFacts ==
  ASSUME NEW c \in Cells
  PROVE  /\ IsNum(c) => /\ c.rd \in 1..MaxReadings /\ c.fld \in Fields
                        /\ c.rd \in Int /\ c.fld \in Int
                        /\ c # Newline /\ c # Comma
         /\ ~IsNum(Newline) /\ ~IsNum(Comma) /\ ~IsNum(Junk) /\ ~IsNum(Set)
         /\ ~IsNum(Cmd) /\ ~IsNum(Nul) /\ Newline # Comma
<1>1. /\ ~IsNum(Newline) /\ ~IsNum(Comma) /\ ~IsNum(Junk) /\ ~IsNum(Set)
      /\ ~IsNum(Cmd) /\ ~IsNum(Nul) /\ Newline # Comma
  BY DEF IsNum, Newline, Comma, Junk, Set, Cmd, Nul, Mark
<1>2. ASSUME IsNum(c) PROVE c.rd \in 1..MaxReadings /\ c.fld \in Fields
  BY <1>1, <1>2 DEF Cells, Num
<1>. QED  BY <1>1, <1>2, BoardConstants DEF Fields

(* What is taken out of an ordered text, here and there or cut in two, is  *)
(* ordered when no separator was lost.                                     *)
LEMMA Thinned ==
  ASSUME NEW s, NEW t, Ordered(s),
         NEW p \in [1..Len(t) -> 1..Len(s)],
         \A i \in 1..Len(t) : IsNum(t[i]) =>
           IsNum(s[p[i]]) /\ s[p[i]].rd = t[i].rd /\ s[p[i]].fld = t[i].fld,
         \A i, j \in 1..Len(t) : i <= j => p[i] <= p[j],
         \A i, j \in 1..Len(t) : i <= j =>
           /\ Apart(s, Newline, p[i], p[j]) => Apart(t, Newline, i, j)
           /\ Apart(s, Comma, p[i], p[j]) => Apart(t, Comma, i, j)
  PROVE  Ordered(t) /\ Rds(t) \subseteq Rds(s)
<1>1. ASSUME NEW i \in 1..Len(t), NEW j \in 1..Len(t), i <= j, IsNum(t[i]), IsNum(t[j])
      PROVE  /\ t[i].rd <= t[j].rd
             /\ \/ Apart(t, Newline, i, j)
                \/ /\ t[i].rd = t[j].rd /\ t[i].fld <= t[j].fld
                   /\ Apart(t, Comma, i, j) \/ t[i].fld = t[j].fld
  <2>1. p[i] \in 1..Len(s) /\ p[j] \in 1..Len(s) /\ p[i] <= p[j]
    BY <1>1
  <2>2. /\ IsNum(s[p[i]]) /\ s[p[i]].rd = t[i].rd /\ s[p[i]].fld = t[i].fld
        /\ IsNum(s[p[j]]) /\ s[p[j]].rd = t[j].rd /\ s[p[j]].fld = t[j].fld
    BY <1>1
  <2>3. /\ s[p[i]].rd <= s[p[j]].rd
        /\ \/ Apart(s, Newline, p[i], p[j])
           \/ /\ s[p[i]].rd = s[p[j]].rd /\ s[p[i]].fld <= s[p[j]].fld
              /\ Apart(s, Comma, p[i], p[j]) \/ s[p[i]].fld = s[p[j]].fld
    BY <2>1, <2>2 DEF Ordered
  <2>4. /\ Apart(s, Newline, p[i], p[j]) => Apart(t, Newline, i, j)
        /\ Apart(s, Comma, p[i], p[j]) => Apart(t, Comma, i, j)
    BY <1>1
  <2>. QED  BY <2>2, <2>3, <2>4
<1>2. Ordered(t)
  BY <1>1 DEF Ordered
<1>3. Rds(t) \subseteq Rds(s)
  BY DEF Rds
<1>. QED  BY <1>2, <1>3

(* A stretch of a text. *)
LEMMA StretchOrdered ==
  ASSUME NEW s \in Seq(Cells), Ordered(s), NEW t, NEW m \in Nat,
         Len(t) \in Nat, m + Len(t) <= Len(s),
         \A i \in 1..Len(t) :
           /\ s[m + i] = Newline => t[i] = Newline
           /\ s[m + i] = Comma => t[i] = Comma
           /\ IsNum(t[i]) => /\ IsNum(s[m + i])
                             /\ s[m + i].rd = t[i].rd /\ s[m + i].fld = t[i].fld
  PROVE  Ordered(t) /\ Rds(t) \subseteq Rds(s)
<1>. DEFINE p == [i \in 1..Len(t) |-> m + i]
<1>1. Len(s) \in Nat
  OBVIOUS
<1>2. ASSUME NEW i \in 1..Len(t) PROVE m + i \in 1..Len(s)
  BY <1>1
<1>3. p \in [1..Len(t) -> 1..Len(s)]
  BY <1>2
<1>4. \A i \in 1..Len(t) : IsNum(t[i]) =>
        IsNum(s[p[i]]) /\ s[p[i]].rd = t[i].rd /\ s[p[i]].fld = t[i].fld
  OBVIOUS
<1>5. \A i, j \in 1..Len(t) : i <= j => p[i] <= p[j]
  OBVIOUS
<1>6. ASSUME NEW i \in 1..Len(t), NEW j \in 1..Len(t), NEW q \in p[i]..p[j]
      PROVE  q - m \in i..j /\ q - m \in 1..Len(t) /\ m + (q - m) = q
  BY <1>6
<1>7. ASSUME NEW i \in 1..Len(t), NEW j \in 1..Len(t)
      PROVE  /\ Apart(s, Newline, p[i], p[j]) => Apart(t, Newline, i, j)
             /\ Apart(s, Comma, p[i], p[j]) => Apart(t, Comma, i, j)
  <2>. HIDE DEF p
  <2>1. ASSUME NEW q \in p[i]..p[j]
        PROVE  /\ s[q] = Newline => t[q - m] = Newline
               /\ s[q] = Comma => t[q - m] = Comma
    BY <1>6
  <2>. QED  BY <1>6, <2>1 DEF Apart
<1>. HIDE DEF p
<1>. QED  BY <1>3, <1>4, <1>5, <1>7, Thinned

LEMMA SubSeqOrdered ==
  ASSUME NEW s \in Seq(Cells), Ordered(s), NEW a \in 1..(Len(s) + 1), NEW b \in Int,
         b <= Len(s)
  PROVE  /\ Ordered(SubSeq(s, a, b)) /\ Rds(SubSeq(s, a, b)) \subseteq Rds(s)
         /\ SubSeq(s, a, b) \in Seq(Cells)
         /\ Len(SubSeq(s, a, b)) = IF a <= b THEN b - a + 1 ELSE 0
         /\ \A i \in 1..Len(SubSeq(s, a, b)) : SubSeq(s, a, b)[i] = s[a - 1 + i]
<1>1. Len(s) \in Nat
  OBVIOUS
<1>2. CASE a > b
  <2>1. SubSeq(s, a, b) = <<>>
    BY <1>1, <1>2, SubSeqEmpty
  <2>2. /\ Ordered(<<>>) /\ Rds(<<>>) = {} /\ <<>> \in Seq(Cells) /\ Len(<<>>) = 0
        /\ 1..Len(<<>>) = {}
    BY DEF Ordered, Rds
  <2>. QED  BY <1>2, <2>1, <2>2
<1>3. CASE a <= b
  <2>. DEFINE t == SubSeq(s, a, b)
              m == a - 1
  <2>1. /\ t \in Seq(Cells) /\ Len(t) = b - a + 1
        /\ \A i \in 1..(b - a + 1) : t[i] = s[a + i - 1]
    BY <1>1, <1>3, SubSeqProperties
  <2>2. m \in Nat /\ Len(t) \in Nat /\ m + Len(t) <= Len(s)
    BY <1>1, <1>3, <2>1
  <2>3. ASSUME NEW i \in 1..Len(t) PROVE t[i] = s[m + i]
    <3>1. i \in 1..(b - a + 1) /\ a + i - 1 = m + i
      BY <1>1, <1>3, <2>1
    <3>. QED  BY <2>1, <3>1
  <2>. HIDE DEF t
  <2>4. Ordered(t) /\ Rds(t) \subseteq Rds(s)
    <3>. HIDE DEF m
    <3>. QED  BY <2>2, <2>3, StretchOrdered
  <2>. QED  BY <1>3, <2>1, <2>3, <2>4 DEF t
<1>. QED  BY <1>1, <1>2, <1>3

-----------------------------------------------------------------------------
(* Reads. *)

(* What a read hands out or leaves for a cell: the cell or a half of it. *)
Like(c, d) ==
  /\ d = Newline => c = Newline
  /\ d = Comma => c = Comma
  /\ IsNum(c) => IsNum(d) /\ d.rd = c.rd /\ d.fld = c.fld

LEMMA CutLike ==
  ASSUME NEW c \in Cells, Cuttable(c), NEW halves \in Cuts(c)
  PROVE  Like(halves[1], c) /\ Like(halves[2], c)
<1>1. ~IsNum(Junk) /\ Set # Newline /\ Set # Comma
  BY DEF IsNum, Junk, Set, Newline, Comma, Mark
<1>2. CASE c = Set
  BY <1>1, <1>2 DEF Cuts, Like
<1>3. CASE c # Set
  <2>1. PICK r \in 1..MaxReadings, f \in Fields, p \in {"whole", "head", "tail"} :
          c = Num(r, f, p)
    BY <1>3 DEF Cuttable, Cells, Comma, Newline, Set, Cmd, Nul, Junk, Mark
  <2>2. /\ [c EXCEPT !.part = "head"] = Num(r, f, "head")
        /\ [c EXCEPT !.part = "tail"] = Num(r, f, "tail")
    BY <2>1 DEF Num
  <2>3. IsNum(c) /\ c.rd = r /\ c.fld = f /\ c # Newline /\ c # Comma
    BY <2>1 DEF Num, IsNum, Newline, Comma, Mark
  <2>4. /\ Like(Num(r, f, "head"), c) /\ Like(Num(r, f, "tail"), c) /\ Like(Junk, c)
    BY <1>1, <2>3 DEF Like, Num
  <2>. QED  BY <1>3, <2>2, <2>4 DEF Cuts
<1>. QED  BY <1>2, <1>3

LEMMA FrontThen ==
  ASSUME NEW q \in Seq(Cells), NEW k \in 1..Len(q), NEW c \in Cells
  PROVE  /\ Len(SubSeq(q, 1, k - 1) \o <<c>>) = k
         /\ \A i \in 1..k : (SubSeq(q, 1, k - 1) \o <<c>>)[i] = IF i = k THEN c ELSE q[i]
<1>. DEFINE s == SubSeq(q, 1, k - 1)
<1>1. Len(q) \in Nat /\ k \in Nat /\ k - 1 \in Nat
  OBVIOUS
<1>2. s \in Seq(Cells) /\ Len(s) = k - 1 /\ \A i \in 1..(k - 1) : s[i] = q[i]
  BY <1>1
<1>. HIDE DEF s
<1>3. <<c>> \in Seq(Cells) /\ Len(<<c>>) = 1 /\ <<c>>[1] = c
  OBVIOUS
<1>4. /\ Len(s \o <<c>>) = Len(s) + 1
      /\ \A i \in 1..(Len(s) + 1) :
           (s \o <<c>>)[i] = IF i <= Len(s) THEN s[i] ELSE <<c>>[i - Len(s)]
  BY <1>2, <1>3, ConcatProperties
<1>5. Len(s \o <<c>>) = k
  BY <1>1, <1>2, <1>4
<1>6. ASSUME NEW i \in 1..k PROVE (s \o <<c>>)[i] = IF i = k THEN c ELSE q[i]
  <2>1. i \in 1..(Len(s) + 1)
    BY <1>1, <1>2
  <2>2. CASE i = k
    <3>1. i - Len(s) = 1 /\ ~(i <= Len(s))
      BY <1>1, <1>2, <2>2
    <3>. QED  BY <1>3, <1>4, <2>1, <2>2, <3>1
  <2>3. CASE i # k
    <3>1. i \in 1..(k - 1) /\ i <= Len(s)
      BY <1>1, <1>2, <2>3
    <3>. QED  BY <1>2, <1>4, <2>1, <2>3, <3>1
  <2>. QED  BY <2>2, <2>3
<1>. QED  BY <1>5, <1>6 DEF s

LEMMA ThenRest ==
  ASSUME NEW q \in Seq(Cells), NEW k \in 1..Len(q), NEW c \in Cells
  PROVE  /\ Len(<<c>> \o SubSeq(q, k + 1, Len(q))) = Len(q) - k + 1
         /\ \A i \in 1..(Len(q) - k + 1) :
              (<<c>> \o SubSeq(q, k + 1, Len(q)))[i] = IF i = 1 THEN c ELSE q[k - 1 + i]
<1>. DEFINE s == SubSeq(q, k + 1, Len(q))
<1>1. Len(q) \in Nat /\ k \in Nat /\ k >= 1 /\ k <= Len(q)
  OBVIOUS
<1>2. s \in Seq(Cells) /\ Len(s) = Len(q) - k /\ \A i \in 1..(Len(q) - k) : s[i] = q[k + i]
  BY <1>1
<1>. HIDE DEF s
<1>3. <<c>> \in Seq(Cells) /\ Len(<<c>>) = 1 /\ <<c>>[1] = c
  OBVIOUS
<1>4. /\ Len(<<c>> \o s) = 1 + Len(s)
      /\ \A i \in 1..(1 + Len(s)) :
           (<<c>> \o s)[i] = IF i <= 1 THEN <<c>>[i] ELSE s[i - 1]
  BY <1>2, <1>3, ConcatProperties, ZenonT(40)
<1>5. Len(<<c>> \o s) = Len(q) - k + 1
  BY <1>1, <1>2, <1>4
<1>6. ASSUME NEW i \in 1..(Len(q) - k + 1)
      PROVE  (<<c>> \o s)[i] = IF i = 1 THEN c ELSE q[k - 1 + i]
  <2>1. i \in 1..(1 + Len(s))
    BY <1>1, <1>2
  <2>2. CASE i = 1
    BY <1>3, <1>4, <2>1, <2>2
  <2>3. CASE i # 1
    <3>1. ~(i <= 1) /\ i - 1 \in 1..(Len(q) - k) /\ k + (i - 1) = k - 1 + i
      BY <1>1, <2>3
    <3>. QED  BY <1>2, <1>4, <2>1, <2>3, <3>1
  <2>. QED  BY <2>2, <2>3
<1>. QED  BY <1>5, <1>6 DEF s

(* What a read hands out and what it leaves are two stretches of the queue, *)
(* which share at most the cell that was cut.                              *)
LEMMA ReadStretches ==
  ASSUME NEW q \in Seq(Cells), NEW r \in Reads(q)
  PROVE  \E m \in Nat :
           /\ m + Len(r[2]) = Len(q) /\ Len(r[1]) <= m + 1 /\ Len(r[1]) <= Len(q)
           /\ \A i \in 1..Len(r[1]) : Like(r[1][i], q[i])
           /\ \A i \in 1..Len(r[2]) : Like(r[2][i], q[m + i])
<1>. DEFINE most == IF Len(q) < BufCells THEN Len(q) ELSE BufCells
            Ahead(k) == SubSeq(q, 1, k - 1)
            After(k) == SubSeq(q, k + 1, Len(q))
<1>1. Len(q) \in Nat /\ BufCells \in Nat /\ most \in Nat /\ most <= Len(q)
  BY BoardConstants
<1>2. ASSUME NEW c PROVE Like(c, c)
  BY DEF Like
<1>3. ASSUME NEW k \in 1..Len(q), NEW a \in Seq(Cells), NEW c \in Cells,
             Len(a) <= k,
             \A i \in 1..Len(a) : Like(a[i], q[i]),
             Like(c, q[k]),
             r[1] = a, r[2] = <<c>> \o After(k)
      PROVE  \E m \in Nat :
               /\ m + Len(r[2]) = Len(q) /\ Len(r[1]) <= m + 1 /\ Len(r[1]) <= Len(q)
               /\ \A i \in 1..Len(r[1]) : Like(r[1][i], q[i])
               /\ \A i \in 1..Len(r[2]) : Like(r[2][i], q[m + i])
  <2>1. k \in Nat /\ k >= 1 /\ k <= Len(q) /\ k - 1 \in Nat /\ Len(a) \in Nat
    BY <1>1
  <2>2. /\ Len(r[2]) = Len(q) - k + 1
        /\ \A i \in 1..(Len(q) - k + 1) : r[2][i] = IF i = 1 THEN c ELSE q[k - 1 + i]
    BY <1>3, ThenRest
  <2>3. ASSUME NEW i \in 1..Len(r[2]) PROVE Like(r[2][i], q[(k - 1) + i])
    <3>1. CASE i = 1
      <4>1. (k - 1) + i = k
        BY <2>1, <3>1
      <4>. QED  BY <1>3, <2>2, <3>1, <4>1
    <3>2. CASE i # 1
      BY <1>2, <2>2, <3>2
    <3>. QED  BY <3>1, <3>2
  <2>4. (k - 1) + Len(r[2]) = Len(q) /\ Len(r[1]) <= (k - 1) + 1 /\ Len(r[1]) <= Len(q)
    BY <1>1, <1>3, <2>1, <2>2
  <2>. QED  BY <1>3, <2>1, <2>3, <2>4
<1>4. ASSUME NEW k \in 1..most
      PROVE  k \in 1..Len(q) /\ q[k] \in Cells /\ k \in Nat
  BY <1>1
<1>5. CASE r \in {<<Ahead(k), <<q[k]>> \o After(k)>> : k \in 1..most}
  <2>1. PICK k \in 1..most : r = <<Ahead(k), <<q[k]>> \o After(k)>>
    BY <1>5
  <2>2. k \in 1..Len(q) /\ q[k] \in Cells /\ k \in Nat
    BY <1>4
  <2>3. /\ Ahead(k) \in Seq(Cells) /\ Len(Ahead(k)) = k - 1
        /\ \A i \in 1..(k - 1) : Ahead(k)[i] = q[i]
    BY <1>1, <2>2
  <2>4. r[1] = Ahead(k) /\ r[2] = <<q[k]>> \o After(k)
    BY <2>1
  <2>. HIDE DEF Ahead, After
  <2>5. Len(Ahead(k)) <= k
    BY <2>2, <2>3
  <2>. QED  BY <1>2, <1>3, <2>2, <2>3, <2>4, <2>5
<1>6. CASE r = <<SubSeq(q, 1, most), After(most)>>
  <2>1. r[1] = SubSeq(q, 1, most) /\ r[2] = SubSeq(q, most + 1, Len(q))
    BY <1>6
  <2>. HIDE DEF most
  <2>2. Len(r[1]) = most /\ \A i \in 1..most : r[1][i] = q[i]
    BY <1>1, <2>1
  <2>3. Len(r[2]) = Len(q) - most /\ \A i \in 1..(Len(q) - most) : r[2][i] = q[most + i]
    BY <1>1, <2>1
  <2>4. most + Len(r[2]) = Len(q) /\ Len(r[1]) <= most + 1 /\ Len(r[1]) <= Len(q)
    BY <1>1, <2>2, <2>3
  <2>. QED  BY <1>1, <1>2, <2>2, <2>3, <2>4
<1>7. CASE r \in UNION {{<<Ahead(k) \o <<c[1]>>, <<c[2]>> \o After(k)>> :
                           c \in Cuts(q[k])} :
                        k \in {i \in 1..most : Cuttable(q[i])}}
  <2>1. PICK k \in 1..most : /\ Cuttable(q[k])
                            /\ \E c \in Cuts(q[k]) :
                                 r = <<Ahead(k) \o <<c[1]>>, <<c[2]>> \o After(k)>>
    BY <1>7
  <2>2. PICK c \in Cuts(q[k]) : r = <<Ahead(k) \o <<c[1]>>, <<c[2]>> \o After(k)>>
    BY <2>1
  <2>3. k \in 1..Len(q) /\ q[k] \in Cells /\ k \in Nat
    BY <1>4
  <2>4. c[1] \in Cells /\ c[2] \in Cells /\ Like(c[1], q[k]) /\ Like(c[2], q[k])
    BY <2>1, <2>3, CutCells, CutLike
  <2>5. r[1] = Ahead(k) \o <<c[1]>> /\ r[2] = <<c[2]>> \o After(k)
    BY <2>2
  <2>6. /\ Len(Ahead(k) \o <<c[1]>>) = k
        /\ \A i \in 1..k : (Ahead(k) \o <<c[1]>>)[i] = IF i = k THEN c[1] ELSE q[i]
    <3>1. ASSUME NEW d \in Cells
          PROVE  LET t == SubSeq(q, 1, k - 1) \o <<d>>
                 IN  Len(t) = k /\ \A i \in 1..k : t[i] = IF i = k THEN d ELSE q[i]
      <4>. HIDE DEF Ahead, After, most
      <4>. QED  BY <2>3, FrontThen
    <3>. QED  BY <2>4, <3>1
  <2>7. Ahead(k) \o <<c[1]>> \in Seq(Cells)
    <3>1. Ahead(k) \in Seq(Cells)
      BY <2>3, RestOfQueue
    <3>. HIDE DEF Ahead
    <3>. QED  BY <2>4, <3>1
  <2>. DEFINE a == Ahead(k) \o <<c[1]>>
  <2>. HIDE DEF a, After
  <2>8. a \in Seq(Cells) /\ Len(a) = k /\ r[1] = a /\ \A i \in 1..k : a[i] = IF i = k THEN c[1] ELSE q[i]
    BY <2>5, <2>6, <2>7 DEF a
  <2>9. ASSUME NEW i \in 1..Len(a) PROVE Like(a[i], q[i])
    BY <1>2, <2>4, <2>8
  <2>10. Len(a) <= k
    BY <2>3, <2>8
  <2>. QED  BY <1>3, <2>3, <2>4, <2>5, <2>8, <2>9, <2>10
<1>. QED  BY <1>5, <1>6, <1>7 DEF Reads

(* Both are ordered, and nothing that was read comes behind what is left. *)
LEMMA ReadOrdered ==
  ASSUME NEW q \in Seq(Cells), Ordered(q), NEW r \in Reads(q)
  PROVE  /\ Ordered(r[1]) /\ Rds(r[1]) \subseteq Rds(q)
         /\ Ordered(r[2]) /\ Rds(r[2]) \subseteq Rds(q)
         /\ Before(Rds(r[1]), Rds(r[2]))
         /\ (q # <<>> => q[Len(q)] = Newline) =>
              (r[2] # <<>> => r[2][Len(r[2])] = Newline)
<1>1. PICK m \in Nat :
        /\ m + Len(r[2]) = Len(q) /\ Len(r[1]) <= m + 1 /\ Len(r[1]) <= Len(q)
        /\ \A i \in 1..Len(r[1]) : Like(r[1][i], q[i])
        /\ \A i \in 1..Len(r[2]) : Like(r[2][i], q[m + i])
  BY ReadStretches
<1>2. r[1] \in Seq(Cells) /\ r[2] \in Seq(Cells)
  BY ReadTypes
<1>3. Len(q) \in Nat /\ Len(r[1]) \in Nat /\ Len(r[2]) \in Nat
  BY <1>2
<1>4. Ordered(r[1]) /\ Rds(r[1]) \subseteq Rds(q)
  <2>1. 0 \in Nat /\ 0 + Len(r[1]) <= Len(q)
    BY <1>1, <1>3
  <2>2. ASSUME NEW i \in 1..Len(r[1]) PROVE Like(r[1][i], q[0 + i])
    <3>1. 0 + i = i
      BY <1>3
    <3>. QED  BY <1>1, <3>1
  <2>. QED  BY <1>3, <2>1, <2>2, StretchOrdered DEF Like
<1>5. Ordered(r[2]) /\ Rds(r[2]) \subseteq Rds(q)
  <2>1. m + Len(r[2]) <= Len(q)
    BY <1>1, <1>3
  <2>. QED  BY <1>1, <1>3, <2>1, StretchOrdered DEF Like
<1>6. Before(Rds(r[1]), Rds(r[2]))
  <2>1. ASSUME NEW i \in 1..Len(r[1]), IsNum(r[1][i]),
               NEW j \in 1..Len(r[2]), IsNum(r[2][j])
        PROVE  r[1][i].rd <= r[2][j].rd
    <3>1. i \in 1..Len(q) /\ m + j \in 1..Len(q) /\ i <= m + j
      BY <1>1, <1>3
    <3>2. IsNum(q[i]) /\ q[i].rd = r[1][i].rd /\ IsNum(q[m + j]) /\ q[m + j].rd = r[2][j].rd
      BY <1>1, <2>1 DEF Like
    <3>3. q[i].rd <= q[m + j].rd
      BY <3>1, <3>2 DEF Ordered
    <3>. QED  BY <3>2, <3>3
  <2>. QED  BY <2>1 DEF Before, Rds
<1>7. ASSUME q # <<>> => q[Len(q)] = Newline, r[2] # <<>>
      PROVE  r[2][Len(r[2])] = Newline
  <2>1. Len(r[2]) \in 1..Len(r[2]) /\ m + Len(r[2]) = Len(q) /\ Len(q) # 0
    BY <1>1, <1>2, <1>3, <1>7
  <2>2. q # <<>>
    BY <2>1
  <2>3. Like(r[2][Len(r[2])], q[m + Len(r[2])])
    BY <1>1, <2>1
  <2>. QED  BY <1>7, <2>1, <2>2, <2>3 DEF Like
<1>. QED  BY <1>4, <1>5, <1>6, <1>7

-----------------------------------------------------------------------------
(* Lines and pieces. *)

LEMMA FirstNewline ==
  ASSUME NEW t \in Seq(Cells)
  PROVE  LET end == SelectInSeq(t, IsNewline)
         IN  /\ end \in 0..Len(t)
             /\ end = 0 => \A i \in 1..Len(t) : t[i] # Newline
             /\ \A i \in 1..(end - 1) : t[i] # Newline
<1>. DEFINE I == {i \in 1..Len(t) : IsNewline(t[i])}
            end == SelectInSeq(t, IsNewline)
<1>1. end = IF I # {} THEN Min(I) ELSE 0
  BY DEF SelectInSeq
<1>2. I \subseteq Nat /\ \A i \in I : i \in 1..Len(t)
  OBVIOUS
<1>3. I # {} => Min(I) \in I /\ \A y \in I : Min(I) <= y
  <2>. HIDE DEF I
  <2>. QED  BY <1>2, FirstOf
<1>. HIDE DEF end
<1>4. end \in 0..Len(t)
  BY <1>1, <1>2, <1>3
<1>5. end = 0 => \A i \in 1..Len(t) : t[i] # Newline
  <2>. SUFFICES ASSUME end = 0, NEW i \in 1..Len(t), t[i] = Newline PROVE FALSE
    OBVIOUS
  <2>1. i \in I
    BY DEF IsNewline
  <2>2. Min(I) \in 1..Len(t) /\ Min(I) = 0
    BY <1>1, <1>2, <1>3, <2>1
  <2>. QED  BY <2>2
<1>6. ASSUME NEW i \in 1..(end - 1), t[i] = Newline PROVE FALSE
  <2>1. end \in Nat /\ Len(t) \in Nat /\ end <= Len(t)
    BY <1>4
  <2>2. i \in 1..Len(t) /\ i < end
    BY <2>1, <1>6
  <2>3. i \in I
    BY <1>6, <2>2 DEF IsNewline
  <2>4. end <= i
    BY <1>1, <1>3, <2>3
  <2>. QED  BY <2>1, <2>2, <2>4
<1>. QED  BY <1>4, <1>5, <1>6 DEF end

(* What lies in front of the first newline, and what lies behind it. *)
LEMMA FirstLineOrdered ==
  ASSUME NEW t \in Seq(Cells), Ordered(t)
  PROVE  /\ FirstLine(t) \in Seq(Cells) /\ Ordered(FirstLine(t))
         /\ Rds(FirstLine(t)) \subseteq Rds(t)
         /\ \A i \in 1..Len(FirstLine(t)) : FirstLine(t)[i] # Newline
         /\ AfterFirst(t) \in Seq(Cells) /\ Ordered(AfterFirst(t))
         /\ Rds(AfterFirst(t)) \subseteq Rds(t)
<1>. DEFINE end == SelectInSeq(t, IsNewline)
            line == FirstLine(t)
            rest == AfterFirst(t)
<1>1. /\ end \in 0..Len(t)
      /\ end = 0 => \A i \in 1..Len(t) : t[i] # Newline
      /\ \A i \in 1..(end - 1) : t[i] # Newline
  BY FirstNewline
<1>2. line = SubSeq(t, 1, end - 1) /\ rest = SubSeq(t, end + 1, Len(t))
  BY DEF FirstLine, AfterFirst
<1>3. Len(t) \in Nat
  OBVIOUS
<1>. HIDE DEF end, line, rest
<1>4. /\ 1 \in 1..(Len(t) + 1) /\ end - 1 \in Int /\ end - 1 <= Len(t)
      /\ end + 1 \in 1..(Len(t) + 1) /\ Len(t) \in Int /\ Len(t) <= Len(t)
  BY <1>1, <1>3
<1>5. /\ line \in Seq(Cells) /\ Ordered(line) /\ Rds(line) \subseteq Rds(t)
      /\ Len(line) = IF 1 <= end - 1 THEN (end - 1) - 1 + 1 ELSE 0
      /\ \A i \in 1..Len(line) : line[i] = t[1 - 1 + i]
  BY <1>2, <1>4, SubSeqOrdered
<1>6. rest \in Seq(Cells) /\ Ordered(rest) /\ Rds(rest) \subseteq Rds(t)
  BY <1>2, <1>4, SubSeqOrdered
<1>7. ASSUME NEW i \in 1..Len(line) PROVE line[i] # Newline
  <2>1. i \in 1..(end - 1) /\ 1 - 1 + i = i
    BY <1>1, <1>3, <1>5
  <2>. QED  BY <1>1, <1>5, <2>1
<1>. QED  BY <1>5, <1>6, <1>7 DEF line, rest

(* Where the k-th piece of a line begins. *)
At(line, k) == Nth(Ends(line), k)

LEMMA PieceCount ==
  ASSUME NEW line \in Seq(Cells)
  PROVE  /\ Ends(line) \in SUBSET (0..(Len(line) + 1)) /\ Len(line) + 1 \in Nat
         /\ Pieces(line) \in Nat /\ Pieces(line) >= 1
         /\ Cardinality(Ends(line)) = Pieces(line) + 1
<1>1. Len(line) \in Nat
  OBVIOUS
<1>2. Ends(line) \in SUBSET (0..(Len(line) + 1)) /\ Len(line) + 1 \in Nat
  BY <1>1 DEF Ends
<1>3. IsFiniteSet(Ends(line)) /\ Cardinality(Ends(line)) \in Nat
  BY <1>2, SetOfNumbers
<1>4. {0, Len(line) + 1} \in SUBSET Ends(line)
  BY <1>1 DEF Ends
<1>5. Cardinality({0, Len(line) + 1}) = 2
  <2>. DEFINE n == Len(line) + 1
  <2>1. n # 0
    BY <1>1
  <2>. HIDE DEF n
  <2>2. IsFiniteSet({0}) /\ Cardinality({0}) = 1
    BY FS_Singleton
  <2>3. n \notin {0} /\ {0, n} = {0} \cup {n}
    BY <2>1
  <2>4. Cardinality({0} \cup {n}) = Cardinality({0}) + 1
    BY <2>2, <2>3, FS_AddElement
  <2>5. Cardinality({0, n}) = 2
    BY <2>2, <2>3, <2>4
  <2>. QED  BY <2>5 DEF n
<1>6. Cardinality({0, Len(line) + 1}) <= Cardinality(Ends(line))
  BY <1>3, <1>4, FS_Subset
<1>. QED  BY <1>2, <1>3, <1>5, <1>6 DEF Pieces

LEMMA PieceFacts ==
  ASSUME NEW line \in Seq(Cells), NEW k \in 1..Pieces(line)
  PROVE  /\ At(line, k) \in 0..(Len(line) + 1) /\ At(line, k + 1) \in 0..(Len(line) + 1)
         /\ At(line, k) < At(line, k + 1)
         /\ Piece(line, k) \in Seq(Cells)
         /\ Len(Piece(line, k)) = At(line, k + 1) - At(line, k) - 1
         /\ \A i \in 1..Len(Piece(line, k)) : Piece(line, k)[i] = line[At(line, k) + i]
         /\ \A q \in (At(line, k) + 1)..(At(line, k + 1) - 1) : line[q] # Comma
<1>. DEFINE E == Ends(line)
            n == Len(line) + 1
            a == At(line, k)
            b == At(line, k + 1)
<1>1. /\ E \in SUBSET (0..n) /\ n \in Nat /\ Cardinality(E) = Pieces(line) + 1
      /\ Pieces(line) \in Nat
  BY PieceCount
<1>2. k \in 1..Cardinality(E) /\ k + 1 \in 1..Cardinality(E) /\ k < k + 1 /\ k \in Nat
  BY <1>1
<1>. HIDE DEF E, n
<1>3. a \in E /\ b \in E /\ Counted(E, a) = k /\ Counted(E, b) = k + 1 /\ a < b
  BY <1>1, <1>2, NthOf, NthInOrder DEF At, E
<1>. HIDE DEF a, b
<1>4. a \in 0..n /\ b \in 0..n /\ a \in Int /\ b \in Int
  BY <1>1, <1>3, SetOfNumbers
<1>5. ASSUME NEW q \in (a + 1)..(b - 1) PROVE line[q] # Comma
  <2>. SUFFICES ASSUME line[q] = Comma PROVE FALSE
    OBVIOUS
  <2>1. q \in 0..n /\ q \in Int /\ a < q /\ q < b
    BY <1>1, <1>4, <1>5
  <2>2. q \in E
    BY <2>1 DEF E, n, Ends
  <2>3. Counted(E, a) < Counted(E, q) /\ Counted(E, q) < Counted(E, b)
    BY <1>1, <1>3, <1>4, <2>1, <2>2, CountGrowsAt
  <2>4. Counted(E, q) \in Int
    BY <1>1, <2>1, CountStep
  <2>. QED  BY <1>2, <1>3, <2>3, <2>4
<1>6. Len(line) \in Nat /\ n = Len(line) + 1
  BY DEF n
<1>7. /\ Piece(line, k) \in Seq(Cells)
      /\ Len(Piece(line, k)) = b - a - 1
      /\ \A i \in 1..Len(Piece(line, k)) : Piece(line, k)[i] = line[a + i]
  <2>1. Piece(line, k) = SubSeq(line, a + 1, b - 1)
    BY DEF Piece, a, b, At
  <2>2. CASE a + 1 > b - 1
    <3>1. b - a - 1 = 0 /\ a + 1 \in Int /\ b - 1 \in Int
      BY <1>3, <1>4, <2>2
    <3>2. Piece(line, k) = <<>>
      BY <2>1, <2>2, <3>1, SubSeqEmpty
    <3>. QED  BY <3>1, <3>2
  <2>3. CASE a + 1 <= b - 1
    <3>1. a + 1 \in 1..Len(line) /\ b - 1 \in 1..Len(line) /\ (b - 1) - (a + 1) + 1 = b - a - 1
      BY <1>4, <1>6, <2>3
    <3>2. /\ Piece(line, k) \in Seq(Cells) /\ Len(Piece(line, k)) = b - a - 1
          /\ \A i \in 1..(b - a - 1) : Piece(line, k)[i] = line[(a + 1) + i - 1]
      BY <2>1, <2>3, <3>1, SubSeqProperties
    <3>3. ASSUME NEW i \in 1..(b - a - 1) PROVE (a + 1) + i - 1 = a + i
      BY <1>4
    <3>. QED  BY <3>2, <3>3
  <2>. QED  BY <1>4, <2>2, <2>3
<1>. QED  BY <1>3, <1>4, <1>5, <1>7 DEF a, b, n

(* A later piece begins where or after an earlier one ends. *)
LEMMA PiecesInOrder ==
  ASSUME NEW line \in Seq(Cells), NEW k \in 1..Pieces(line), NEW l \in 1..Pieces(line), k < l
  PROVE  At(line, k + 1) <= At(line, l)
<1>. DEFINE E == Ends(line)
            n == Len(line) + 1
<1>1. /\ E \in SUBSET (0..n) /\ n \in Nat /\ Cardinality(E) = Pieces(line) + 1
      /\ Pieces(line) \in Nat
  BY PieceCount
<1>2. l \in 1..Cardinality(E) /\ k + 1 \in 1..Cardinality(E) /\ (k + 1 = l \/ k + 1 < l)
  BY <1>1
<1>. HIDE DEF E, n
<1>3. Nth(E, l) \in Int
  BY <1>1, <1>2, NthOf, SetOfNumbers
<1>4. CASE k + 1 = l
  BY <1>3, <1>4 DEF At, E
<1>5. CASE k + 1 < l
  <2>1. Nth(E, k + 1) < Nth(E, l) /\ Nth(E, k + 1) \in Int
    BY <1>1, <1>2, <1>5, NthInOrder, NthOf, SetOfNumbers
  <2>. QED  BY <1>3, <2>1 DEF At, E
<1>. QED  BY <1>2, <1>4, <1>5

LEMMA DigitsOf ==
  ASSUME NEW piece \in Seq(Cells), NEW d \in ToSet(Digits(piece))
  PROVE  \E i \in 1..Len(piece) : piece[i] = d /\ IsNum(d)
<1>. DEFINE I == {i \in 1..Len(piece) : piece[i].kind # "num"}
            end == SelectInSeq(piece, LAMBDA c : c.kind # "num")
<1>1. end = IF I # {} THEN Min(I) ELSE 0
  BY DEF SelectInSeq
<1>2. I \subseteq Nat /\ \A i \in I : i \in 1..Len(piece)
  OBVIOUS
<1>3. I # {} => Min(I) \in I /\ \A y \in I : Min(I) <= y
  <2>. HIDE DEF I
  <2>. QED  BY <1>2, FirstOf
<1>4. Digits(piece) = IF end = 0 THEN piece ELSE SubSeq(piece, 1, end - 1)
  BY DEF Digits
<1>. HIDE DEF end
<1>5. Len(piece) \in Nat /\ end \in 0..Len(piece)
  BY <1>1, <1>2, <1>3
<1>6. CASE end = 0
  <2>1. I = {}
    <3>. SUFFICES ASSUME I # {} PROVE FALSE
      OBVIOUS
    <3>1. Min(I) \in 1..Len(piece) /\ Min(I) = 0
      BY <1>1, <1>2, <1>3, <1>6
    <3>. QED  BY <3>1
  <2>2. PICK i \in 1..Len(piece) : piece[i] = d
    BY <1>4, <1>6 DEF ToSet
  <2>3. i \notin I
    BY <2>1
  <2>. QED  BY <2>2, <2>3 DEF IsNum
<1>7. CASE end # 0
  <2>1. /\ Len(SubSeq(piece, 1, end - 1)) = end - 1
        /\ \A i \in 1..(end - 1) : SubSeq(piece, 1, end - 1)[i] = piece[i]
    BY <1>5, <1>7
  <2>2. DOMAIN SubSeq(piece, 1, end - 1) = 1..(end - 1)
    BY <1>5, <1>7
  <2>3. PICK i \in 1..(end - 1) : piece[i] = d
    BY <1>4, <1>7, <2>1, <2>2 DEF ToSet
  <2>4. i \in 1..Len(piece) /\ i < end /\ end \in Nat
    BY <1>5
  <2>5. i \notin I
    <3>1. end = Min(I) /\ \A y \in I : end <= y
      BY <1>1, <1>3, <1>7
    <3>. QED  BY <2>4, <3>1
  <2>. QED  BY <2>3, <2>4, <2>5 DEF IsNum
<1>. QED  BY <1>6, <1>7

(* Where in the line a number of a piece stands. *)
LEMMA PieceDigits ==
  ASSUME NEW line \in Seq(Cells), NEW k \in 1..Pieces(line),
         NEW a \in ToSet(Digits(Piece(line, k)))
  PROVE  \E p \in 1..Len(line) :
           line[p] = a /\ IsNum(a) /\ At(line, k) < p /\ p < At(line, k + 1)
<1>1. /\ At(line, k) \in 0..(Len(line) + 1) /\ At(line, k + 1) \in 0..(Len(line) + 1)
      /\ Piece(line, k) \in Seq(Cells)
      /\ Len(Piece(line, k)) = At(line, k + 1) - At(line, k) - 1
      /\ \A i \in 1..Len(Piece(line, k)) : Piece(line, k)[i] = line[At(line, k) + i]
  BY PieceFacts
<1>2. PICK i \in 1..Len(Piece(line, k)) : Piece(line, k)[i] = a /\ IsNum(a)
  BY <1>1, DigitsOf
<1>. DEFINE s == At(line, k)
            e == At(line, k + 1)
            m == Len(Piece(line, k))
<1>3. s \in 0..(Len(line) + 1) /\ e \in 0..(Len(line) + 1) /\ m = e - s - 1 /\ Len(line) \in Nat
  BY <1>1
<1>4. i \in 1..m
  OBVIOUS
<1>5. line[s + i] = a
  BY <1>1, <1>2
<1>. HIDE DEF s, e, m
<1>6. s + i \in 1..Len(line) /\ s < s + i /\ s + i < e
  BY <1>3, <1>4
<1>. QED  BY <1>2, <1>5, <1>6 DEF s, e

(* The numbers read from the pieces of one line, in the order of the pieces. *)
LEMMA PiecesOfOneReading ==
  ASSUME NEW line \in Seq(Cells), Ordered(line),
         \A i \in 1..Len(line) : line[i] # Newline,
         NEW k \in 1..Pieces(line), NEW l \in 1..Pieces(line), k <= l,
         NEW a \in ToSet(Digits(Piece(line, k))), NEW b \in ToSet(Digits(Piece(line, l)))
  PROVE  /\ a \in Cells /\ IsNum(a) /\ b \in Cells /\ IsNum(b)
         /\ a.rd \in Rds(line)
         /\ a.rd = b.rd /\ a.fld <= b.fld
<1>1. PICK p \in 1..Len(line) :
        line[p] = a /\ IsNum(a) /\ At(line, k) < p /\ p < At(line, k + 1)
  BY PieceDigits
<1>2. PICK q \in 1..Len(line) :
        line[q] = b /\ IsNum(b) /\ At(line, l) < q /\ q < At(line, l + 1)
  BY PieceDigits
<1>3. a \in Cells /\ b \in Cells /\ a.rd \in Rds(line)
  BY <1>1, <1>2 DEF Rds
<1>4. ASSUME NEW i \in 1..Len(line), NEW j \in 1..Len(line)
      PROVE  ~Apart(line, Newline, i, j)
  BY DEF Apart
<1>5. a.rd \in Int /\ a.fld \in Int /\ b.rd \in Int /\ b.fld \in Int
  BY <1>1, <1>2, <1>3, CellFacts
<1>6. Len(line) \in Nat /\ p \in Int /\ q \in Int
  OBVIOUS
<1>7. /\ At(line, k) \in Int /\ At(line, k + 1) \in Int /\ At(line, l) \in Int
      /\ At(line, l + 1) \in Int
  <2>1. /\ At(line, k) \in 0..(Len(line) + 1) /\ At(line, k + 1) \in 0..(Len(line) + 1)
        /\ At(line, l) \in 0..(Len(line) + 1) /\ At(line, l + 1) \in 0..(Len(line) + 1)
    BY PieceFacts
  <2>. QED  BY <1>6, <2>1
<1>8. CASE p <= q
  <2>1. /\ a.rd = b.rd /\ a.fld <= b.fld
    BY <1>1, <1>2, <1>4, <1>8 DEF Ordered
  <2>. QED  BY <1>1, <1>2, <1>3, <2>1
<1>9. CASE q < p
  <2>1. k = l
    <3>. SUFFICES ASSUME k < l PROVE FALSE
      <4>1. k \in Int /\ l \in Int
        OBVIOUS
      <4>. QED  BY <4>1
    <3>1. At(line, k + 1) <= At(line, l)
      BY PiecesInOrder
    <3>. QED  BY <1>1, <1>2, <1>6, <1>7, <1>9, <3>1
  <2>2. ~Apart(line, Comma, q, p)
    <3>1. ASSUME NEW m \in q..p PROVE m \in (At(line, k) + 1)..(At(line, k + 1) - 1)
      BY <1>1, <1>2, <1>6, <1>7, <2>1
    <3>2. \A m \in (At(line, k) + 1)..(At(line, k + 1) - 1) : line[m] # Comma
      BY PieceFacts
    <3>. QED  BY <3>1, <3>2 DEF Apart
  <2>3. b.rd = a.rd /\ b.fld = a.fld
    BY <1>1, <1>2, <1>4, <1>9, <2>2 DEF Ordered
  <2>. QED  BY <1>1, <1>2, <1>3, <1>5, <2>3
<1>. QED  BY <1>6, <1>8, <1>9

(* A message whose fields were read from the pieces of one line. *)
LEMMA LineValues ==
  ASSUME NEW line \in Seq(Cells), Ordered(line),
         \A i \in 1..Len(line) : line[i] # Newline,
         NEW vals, DOMAIN vals = Fields,
         \A f \in Fields : \/ vals[f] = Zero \/ vals[f] = MinusOne
                           \/ vals[f] = Parsed(Digits(PieceOf(line, f)))
  PROVE  /\ InOrder(vals) /\ CarriedRds(vals) \subseteq Rds(line)
         /\ \A f \in Fields : \A a \in Carried(vals[f]) : a \in Cells /\ IsNum(a)
<1>1. Pieces(line) \in Nat /\ Pieces(line) >= 1 /\ N \in Nat
  BY PieceCount, BoardConstants
<1>2. ASSUME NEW f \in Fields
      PROVE  PieceIndex(line, f) \in 1..Pieces(line)
  BY <1>1 DEF PieceIndex, Fields
<1>3. ASSUME NEW f \in Fields, NEW g \in Fields, f <= g
      PROVE  PieceIndex(line, f) <= PieceIndex(line, g)
  BY <1>1, <1>3 DEF PieceIndex, Fields
<1>4. ASSUME NEW f \in Fields, NEW a \in Carried(vals[f])
      PROVE  a \in ToSet(Digits(Piece(line, PieceIndex(line, f))))
  <2>1. vals[f].kind = "parsed" /\ a \in ToSet(vals[f].digits)
    BY <1>4 DEF Carried
  <2>2. vals[f] # Zero /\ vals[f] # MinusOne
    <3>1. Zero.kind # "parsed" /\ MinusOne.kind # "parsed"
      BY DEF Zero, MinusOne
    <3>. QED  BY <2>1, <3>1
  <2>3. vals[f].digits = Digits(PieceOf(line, f))
    BY <2>2 DEF Parsed
  <2>. QED  BY <2>1, <2>3 DEF PieceOf
<1>5. ASSUME NEW f \in Fields, NEW g \in Fields, f <= g,
             NEW a \in Carried(vals[f]), NEW b \in Carried(vals[g])
      PROVE  /\ a \in Cells /\ IsNum(a) /\ a.rd \in Rds(line)
             /\ a.rd = b.rd /\ a.fld <= b.fld
  <2>1. PieceIndex(line, f) <= PieceIndex(line, g)
    BY <1>3, <1>5
  <2>. QED  BY <1>2, <1>4, <1>5, <2>1, PiecesOfOneReading
<1>6. ASSUME NEW f \in Fields, NEW a \in Carried(vals[f])
      PROVE  a \in Cells /\ IsNum(a) /\ a.rd \in Rds(line)
  <2>1. f <= f
    BY <1>1 DEF Fields
  <2>. QED  BY <1>5, <1>6, <2>1
<1>7. InOrder(vals)
  <2>1. ASSUME NEW f \in Fields, NEW g \in Fields,
               NEW a \in Carried(vals[f]), NEW b \in Carried(vals[g])
        PROVE  a.rd = b.rd /\ (f <= g => a.fld <= b.fld)
    <3>1. f <= g \/ g <= f
      BY <1>1 DEF Fields
    <3>. QED  BY <1>5, <2>1, <3>1
  <2>. QED  BY <2>1 DEF InOrder
<1>8. CarriedRds(vals) \subseteq Rds(line)
  BY <1>6 DEF CarriedRds
<1>. QED  BY <1>6, <1>7, <1>8

-----------------------------------------------------------------------------
(* What the board prints. *)

LEMMA ConcatOrdered ==
  ASSUME NEW s \in Seq(Cells), Ordered(s), s # <<>> => s[Len(s)] = Newline,
         NEW t \in Seq(Cells), Ordered(t), t # <<>>, t[Len(t)] = Newline,
         Before(Rds(s), Rds(t))
  PROVE  /\ s \o t \in Seq(Cells) /\ Ordered(s \o t)
         /\ (s \o t)[Len(s \o t)] = Newline
         /\ Rds(s \o t) \subseteq Rds(s) \cup Rds(t)
<1>. DEFINE u == s \o t
            m == Len(s)
            n == Len(t)
<1>1. m \in Nat /\ n \in Nat /\ n # 0
  OBVIOUS
<1>2. /\ u \in Seq(Cells) /\ Len(u) = m + n
      /\ \A i \in 1..(m + n) : u[i] = IF i <= m THEN s[i] ELSE t[i - m]
  BY ConcatProperties
<1>. HIDE DEF u
<1>3. ASSUME NEW i \in 1..(m + n)
      PROVE  \/ i <= m /\ i \in 1..m /\ u[i] = s[i]
             \/ i > m /\ i - m \in 1..n /\ u[i] = t[i - m]
  BY <1>1, <1>2
<1>4. ASSUME NEW i \in 1..(m + n), NEW j \in 1..(m + n), i <= j, IsNum(u[i]), IsNum(u[j])
      PROVE  /\ u[i].rd <= u[j].rd
             /\ \/ Apart(u, Newline, i, j)
                \/ /\ u[i].rd = u[j].rd /\ u[i].fld <= u[j].fld
                   /\ Apart(u, Comma, i, j) \/ u[i].fld = u[j].fld
  <2>1. CASE j <= m
    <3>1. i \in 1..m /\ j \in 1..m /\ u[i] = s[i] /\ u[j] = s[j]
      BY <1>1, <1>2, <1>4, <2>1
    <3>2. ASSUME NEW c, Apart(s, c, i, j) PROVE Apart(u, c, i, j)
      <4>1. PICK q \in i..j : s[q] = c
        BY <3>2 DEF Apart
      <4>2. q \in 1..(m + n) /\ q <= m
        BY <1>1, <2>1
      <4>. QED  BY <1>2, <4>1, <4>2 DEF Apart
    <3>. QED  BY <1>4, <3>1, <3>2 DEF Ordered
  <2>2. CASE i > m
    <3>1. /\ i - m \in 1..n /\ j - m \in 1..n /\ u[i] = t[i - m] /\ u[j] = t[j - m]
          /\ i - m <= j - m
      BY <1>1, <1>2, <1>4, <2>2, SMTT(30)
    <3>2. ASSUME NEW c, Apart(t, c, i - m, j - m) PROVE Apart(u, c, i, j)
      <4>1. PICK q \in (i - m)..(j - m) : t[q] = c
        BY <3>2 DEF Apart
      <4>2. q + m \in i..j /\ q + m \in 1..(m + n) /\ ~(q + m <= m) /\ (q + m) - m = q
        BY <1>1, <2>2
      <4>. QED  BY <1>2, <4>1, <4>2 DEF Apart
    <3>. QED  BY <1>4, <3>1, <3>2 DEF Ordered
  <2>3. CASE i <= m /\ j > m
    <3>1. i \in 1..m /\ j - m \in 1..n /\ u[i] = s[i] /\ u[j] = t[j - m]
      BY <1>3, <2>3, <1>1
    <3>2. u[i].rd \in Rds(s) /\ u[j].rd \in Rds(t)
      BY <1>4, <3>1 DEF Rds
    <3>3. u[i].rd <= u[j].rd
      BY <3>2 DEF Before
    <3>4. m \in i..j /\ m \in 1..(m + n) /\ m <= m /\ s # <<>>
      BY <1>1, <2>3, <3>1
    <3>5. u[m] = Newline
      BY <1>2, <3>4
    <3>. QED  BY <3>3, <3>4, <3>5 DEF Apart
  <2>. QED  BY <1>1, <2>1, <2>2, <2>3
<1>5. Ordered(u)
  BY <1>2, <1>4 DEF Ordered
<1>6. u[Len(u)] = Newline
  <2>1. m + n \in 1..(m + n) /\ ~(m + n <= m) /\ (m + n) - m = n
    BY <1>1
  <2>. QED  BY <1>2, <2>1
<1>7. Rds(u) \subseteq Rds(s) \cup Rds(t)
  <2>1. ASSUME NEW i \in 1..(m + n), IsNum(u[i]) PROVE u[i].rd \in Rds(s) \cup Rds(t)
    BY <1>3, <2>1 DEF Rds
  <2>. QED  BY <1>2, <2>1 DEF Rds
<1>. QED  BY <1>2, <1>5, <1>6, <1>7 DEF u

LEMMA ReadingOrdered ==
  ASSUME NEW r \in 1..MaxReadings
  PROVE  LET t == ReadingLine(r)
         IN  t \in Seq(Cells) /\ Ordered(t) /\ t # <<>> /\ t[Len(t)] = Newline /\ Rds(t) \subseteq {r}
<1>. DEFINE t == ReadingLine(r)
<1>1. t \in Seq(Cells) /\ Len(t) = 2 * N /\ N \in Nat /\ N >= 1 /\ r \in Int
  BY ReadingIsText, BoardConstants
<1>2. ASSUME NEW i \in 1..(2 * N)
      PROVE  t[i] = IF i = 2 * N THEN Newline ELSE IF i % 2 = 0 THEN Comma
                    ELSE Num(r, (i + 1) \div 2, "whole")
  BY DEF ReadingLine
<1>. HIDE DEF t
<1>3. ~IsNum(Newline) /\ ~IsNum(Comma)
  BY DEF IsNum, Newline, Comma, Mark
<1>4. ASSUME NEW i \in 1..(2 * N), IsNum(t[i])
      PROVE  i # 2 * N /\ i % 2 # 0 /\ t[i].rd = r /\ t[i].fld = (i + 1) \div 2
  <2>1. i # 2 * N /\ i % 2 # 0
    BY <1>2, <1>3, <1>4, Zenon
  <2>2. t[i] = Num(r, (i + 1) \div 2, "whole")
    BY <1>2, <2>1
  <2>3. \A f : Num(r, f, "whole").rd = r /\ Num(r, f, "whole").fld = f
    BY DEF Num
  <2>. QED  BY <2>1, <2>2, <2>3
<1>5. ASSUME NEW i \in 1..(2 * N), NEW j \in 1..(2 * N), i <= j, IsNum(t[i]), IsNum(t[j])
      PROVE  /\ t[i].rd <= t[j].rd /\ t[i].rd = t[j].rd /\ t[i].fld <= t[j].fld
             /\ Apart(t, Comma, i, j) \/ t[i].fld = t[j].fld
  <2>1. /\ i # 2 * N /\ i % 2 # 0 /\ t[i].rd = r /\ t[i].fld = (i + 1) \div 2
        /\ j # 2 * N /\ j % 2 # 0 /\ t[j].rd = r /\ t[j].fld = (j + 1) \div 2
    BY <1>4, <1>5
  <2>2. (i + 1) \div 2 <= (j + 1) \div 2
    BY <1>1, <1>5
  <2>3. ASSUME i # j PROVE Apart(t, Comma, i, j)
    <3>1. i + 1 \in i..j /\ i + 1 \in 1..(2 * N) /\ i + 1 # 2 * N /\ (i + 1) % 2 = 0
      BY <1>1, <1>5, <2>1, <2>3
    <3>. QED  BY <1>2, <3>1 DEF Apart
  <2>4. r <= r
    BY <1>1
  <2>. QED  BY <2>1, <2>2, <2>3, <2>4
<1>6. Ordered(t)
  BY <1>1, <1>5 DEF Ordered
<1>7. t # <<>> /\ t[Len(t)] = Newline
  <2>1. 2 * N \in 1..(2 * N) /\ 2 * N # 0
    BY <1>1
  <2>. QED  BY <1>1, <1>2, <2>1
<1>8. Rds(t) \subseteq {r}
  BY <1>1, <1>4 DEF Rds
<1>. QED  BY <1>1, <1>6, <1>7, <1>8 DEF t

LEMMA ReplyOrdered ==
  /\ ReplyLine \in Seq(Cells) /\ Len(ReplyLine) = 3 /\ Ordered(ReplyLine) /\ ReplyLine # <<>>
  /\ ReplyLine[Len(ReplyLine)] = Newline /\ Rds(ReplyLine) = {}
<1>1. Set \in Cells /\ Newline \in Cells
  BY DEF Cells
<1>2. /\ ReplyLine \in Seq(Cells) /\ Len(ReplyLine) = 3 /\ ReplyLine # <<>>
      /\ ReplyLine[1] = Set /\ ReplyLine[2] = Newline /\ ReplyLine[3] = Newline
  BY <1>1 DEF ReplyLine
<1>3. ~IsNum(Newline) /\ ~IsNum(Set)
  BY DEF IsNum, Newline, Set, Mark
<1>4. ASSUME NEW i \in 1..3 PROVE ~IsNum(ReplyLine[i])
  <2>1. i = 1 \/ i = 2 \/ i = 3
    OBVIOUS
  <2>. QED  BY <1>2, <1>3, <2>1
<1>. QED  BY <1>2, <1>4 DEF Ordered, Rds

-----------------------------------------------------------------------------
(* What a message carries. *)

LEMMA NumbersOfUnits ==
  ASSUME NEW units
  PROVE  /\ Numbers(units) = UNION {Carried(units[i].val) : i \in DOMAIN units}
         /\ \A u : Numbers(<<u>>) = Carried(u.val)
<1>1. Numbers(units) = UNION {Carried(units[i].val) : i \in DOMAIN units}
  BY DEF Numbers, Carried
<1>2. ASSUME NEW u PROVE Numbers(<<u>>) = Carried(u.val)
  <2>1. DOMAIN <<u>> = {1} /\ <<u>>[1] = u
    OBVIOUS
  <2>. QED  BY <2>1 DEF Numbers, Carried
<1>. QED  BY <1>1, <1>2

(* Units that carry the values of a message, some or all, in its order. *)
LEMMA CarriedInOrder ==
  ASSUME NEW vals, InOrder(vals), NEW units, NEW g \in [DOMAIN units -> DOMAIN vals],
         \A i \in DOMAIN units : units[i].val = vals[g[i]],
         \A i, j \in DOMAIN units : i <= j => g[i] <= g[j]
  PROVE  OneReading(units) /\ \A a \in Numbers(units) : a.rd \in CarriedRds(vals)
<1>1. ASSUME NEW i \in DOMAIN units, NEW j \in DOMAIN units,
             NEW a \in Numbers(<<units[i]>>), NEW b \in Numbers(<<units[j]>>)
      PROVE  a.rd = b.rd /\ (i <= j => a.fld <= b.fld)
  <2>1. a \in Carried(vals[g[i]]) /\ b \in Carried(vals[g[j]])
    BY NumbersOfUnits
  <2>. QED  BY <2>1 DEF InOrder
<1>2. ASSUME NEW a \in Numbers(units) PROVE a.rd \in CarriedRds(vals)
  <2>1. PICK i \in DOMAIN units : a \in Carried(units[i].val)
    BY NumbersOfUnits
  <2>2. a \in Carried(vals[g[i]]) /\ g[i] \in DOMAIN vals
    BY <2>1
  <2>. QED  BY <2>2 DEF CarriedRds
<1>. QED  BY <1>1, <1>2 DEF OneReading

-----------------------------------------------------------------------------
(* The buffer. *)

LEMMA BufferIsText ==
  ASSUME NEW b \in [1..BufCells -> Cells]
  PROVE  /\ TextOf(b) \in Texts(BufCells)
         /\ \A i \in 1..Len(TextOf(b)) : i \in 1..BufCells /\ TextOf(b)[i] = b[i]
<1>. DEFINE end == SelectInSeq(b, LAMBDA c : c = Nul)
<1>0. BufCells \in Nat
  BY BoardConstants
<1>1. b \in Seq(Cells) /\ Len(b) = BufCells
  BY <1>0
<1>2. b \in Texts(BufCells)
  BY <1>0, <1>1 DEF Texts
<1>3. end \in 0..BufCells
  BY <1>1, NulAt
<1>4. TextOf(b) = IF end = 0 THEN b ELSE SubSeq(b, 1, end - 1)
  BY DEF TextOf
<1>. HIDE DEF end
<1>5. CASE end = 0
  BY <1>1, <1>2, <1>4, <1>5
<1>6. CASE end # 0
  <2>. DEFINE m == end - 1
  <2>1. m \in Nat /\ m <= Len(b) /\ m <= BufCells /\ m \in Int
    BY <1>0, <1>1, <1>3, <1>6
  <2>2. TextOf(b) = SubSeq(b, 1, m)
    BY <1>4, <1>6
  <2>. HIDE DEF m
  <2>3. TextOf(b) \in Texts(BufCells)
    BY <1>0, <1>2, <2>1, <2>2, FrontIsText
  <2>4. SubSeq(b, 1, m) = [i \in 1..m |-> b[i]]
    BY <2>1
  <2>5. Len(TextOf(b)) = m
    BY <2>1, <2>2, <2>4
  <2>6. \A i \in 1..m : i \in 1..BufCells
    BY <1>0, <2>1
  <2>. QED  BY <2>2, <2>3, <2>4, <2>5, <2>6
<1>. QED  BY <1>5, <1>6

LEMMA ReadIntoBuffer ==
  ASSUME NEW b \in [1..BufCells -> Cells], NEW got \in Seq(Cells)
  PROVE  /\ WithRead(b, got) \in [1..BufCells -> Cells]
         /\ \A i \in 1..BufCells : WithRead(b, got)[i] = IF i <= Len(got) THEN got[i] ELSE b[i]
<1>1. ASSUME NEW i \in 1..BufCells
      PROVE  (IF i <= Len(got) THEN got[i] ELSE b[i]) \in Cells
  <2>1. i <= Len(got) => got[i] \in Cells
    OBVIOUS
  <2>. QED  BY <2>1
<1>. QED  BY <1>1 DEF WithRead

(* A text whose numbers are all of what was read last. *)
LEMMA FreshTextOrdered ==
  ASSUME NEW got \in Seq(Cells), Ordered(got), NEW t, Len(t) \in Nat,
         \A i \in 1..Len(t) : IF i <= Len(got) THEN t[i] = got[i] ELSE ~IsNum(t[i])
  PROVE  Ordered(t) /\ Rds(t) \subseteq Rds(got)
<1>1. Len(got) \in Nat
  OBVIOUS
<1>2. ASSUME NEW i \in 1..Len(t), IsNum(t[i])
      PROVE  i \in 1..Len(got) /\ t[i] = got[i]
  BY <1>1, <1>2
<1>3. ASSUME NEW i \in 1..Len(t), NEW j \in 1..Len(t), i <= j, IsNum(t[i]), IsNum(t[j])
      PROVE  /\ t[i].rd <= t[j].rd
             /\ \/ Apart(t, Newline, i, j)
                \/ /\ t[i].rd = t[j].rd /\ t[i].fld <= t[j].fld
                   /\ Apart(t, Comma, i, j) \/ t[i].fld = t[j].fld
  <2>1. i \in 1..Len(got) /\ t[i] = got[i] /\ j \in 1..Len(got) /\ t[j] = got[j]
    BY <1>2, <1>3
  <2>2. ASSUME NEW c, Apart(got, c, i, j) PROVE Apart(t, c, i, j)
    <3>1. PICK q \in i..j : got[q] = c
      BY <2>2 DEF Apart
    <3>2. q \in 1..Len(t) /\ q <= Len(got)
      BY <1>1, <2>1
    <3>. QED  BY <3>1, <3>2 DEF Apart
  <2>. QED  BY <1>3, <2>1, <2>2 DEF Ordered
<1>4. Ordered(t)
  BY <1>3 DEF Ordered
<1>5. Rds(t) \subseteq Rds(got)
  BY <1>2 DEF Rds
<1>. QED  BY <1>4, <1>5

LEMMA TextRds ==
  ASSUME NEW s \in Seq(Cells)
  PROVE  Rds(s) \subseteq 1..MaxReadings
<1>1. ASSUME NEW i \in 1..Len(s), IsNum(s[i]) PROVE s[i].rd \in 1..MaxReadings
  BY <1>1, CellFacts
<1>. QED  BY <1>1 DEF Rds

LEMMA EmptyText ==
  Ordered(<<>>) /\ Rds(<<>>) = {} /\ <<>> \in Seq(Cells) /\ Len(<<>>) = 0
BY DEF Ordered, Rds

(* What is sent of the buffer of the message. *)
LEMMA FrontOfMessage ==
  ASSUME NEW buffer, NEW size \in 0..N
  PROVE  LET units == SubSeq(buffer, 1, size)
         IN  units \in Seq({buffer[f] : f \in Fields}) /\ Len(units) = size
<1>. DEFINE U == {buffer[f] : f \in Fields}
<1>0. N \in Nat /\ size \in Nat
  BY BoardConstants
<1>1. SubSeq(buffer, 1, size) = [i \in 1..size |-> buffer[i]]
  BY <1>0
<1>2. \A i \in 1..size : buffer[i] \in U
  BY <1>0 DEF Fields
<1>. HIDE DEF U
<1>3. [i \in 1..size |-> buffer[i]] \in [1..size -> U]
  BY <1>2
<1>4. /\ [i \in 1..size |-> buffer[i]] \in Seq(U)
      /\ Len([i \in 1..size |-> buffer[i]]) = size
  BY <1>0, <1>3
<1>. QED  BY <1>1, <1>4 DEF U

(* All numbers of a message that is of one reading are of it. *)
LEMMA OneRd ==
  ASSUME NEW units, OneReading(units), NEW a \in Numbers(units), NEW b \in Numbers(units)
  PROVE  a.rd = b.rd
<1>1. PICK i \in DOMAIN units : a \in Carried(units[i].val)
  BY NumbersOfUnits
<1>2. PICK j \in DOMAIN units : b \in Carried(units[j].val)
  BY NumbersOfUnits
<1>3. a \in Numbers(<<units[i]>>) /\ b \in Numbers(<<units[j]>>)
  BY <1>1, <1>2, NumbersOfUnits
<1>. QED  BY <1>3 DEF OneReading
=============================================================================
