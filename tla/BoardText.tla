------------------------------ MODULE BoardText ------------------------------
(***************************************************************************)
(* The text of the serial line, and how the programs that read it take a   *)
(* line of N numbers out of the buffer the port was read into.             *)
(*                                                                         *)
(* The text is abstracted to cells: a number of a reading (which reading,  *)
(* which field of it), the separators, the word "set" of the board's       *)
(* answers, a command, the string terminator, and text that is none of     *)
(* these.  A number or the word "set" may be cut in two by the end of a    *)
(* read.                                                                   *)
(***************************************************************************)
EXTENDS SensorFrame, Sequences, SequencesExt

CONSTANTS
  BufCells,     (* cells of the buffer the port is read into   *)
  MaxReadings   (* bound on the readings the board prints      *)

ASSUME TextAssumption ==
  /\ BufCells \in Nat /\ BufCells >= 2
  /\ MaxReadings \in Nat

-----------------------------------------------------------------------------
(* Cells. *)

Num(r, f, part) == [kind |-> "num", rd |-> r, fld |-> f, part |-> part]
Mark(kind) == [kind |-> kind]
Comma == Mark("comma")
Newline == Mark("newline")
Set == Mark("set")
Cmd == Mark("command")
Nul == Mark("nul")
Junk == Mark("junk")

Cells == {Num(r, f, p) : r \in 1..MaxReadings, f \in Fields,
                         p \in {"whole", "head", "tail"}}
           \cup {Comma, Newline, Set, Cmd, Nul, Junk}

(* A line of one reading, and the board's answer to a command. *)
ReadingLine(r) ==
  [i \in 1..(2 * N) |-> IF i = 2 * N THEN Newline
                        ELSE IF i % 2 = 0 THEN Comma
                        ELSE Num(r, (i + 1) \div 2, "whole")]
ReplyLine == <<Set, Newline, Newline>>

(* A cell cut in two by the end of a read: either half of a number may be  *)
(* a number again, and one of them may be a lone sign or point.            *)
Cuttable(c) == c = Set \/ (c.kind = "num" /\ c.part = "whole")
Cuts(c) ==
  LET head == [c EXCEPT !.part = "head"]
      tail == [c EXCEPT !.part = "tail"]
  IN  IF c = Set THEN {<<Junk, Junk>>}
      ELSE {<<head, tail>>, <<Junk, tail>>, <<head, Junk>>}

-----------------------------------------------------------------------------
(* The buffer. *)

(* A read overwrites the front of buff, and terminates nothing. *)
WithRead(b, got) ==
  [i \in 1..BufCells |-> IF i <= Len(got) THEN got[i] ELSE b[i]]

(* std::string buff1 = buff: the cells before the first terminator. *)
TextOf(b) ==
  LET end == SelectInSeq(b, LAMBDA c : c = Nul)
  IN  IF end = 0 THEN b ELSE SubSeq(b, 1, end - 1)

(* What the driver can hand out for one read: any prefix of its queue that *)
(* fits, the last cell possibly cut, and what then stays in the queue.     *)
Reads(queue) ==
  LET most == IF Len(queue) < BufCells THEN Len(queue) ELSE BufCells
      Before(k) == SubSeq(queue, 1, k - 1)
      After(k) == SubSeq(queue, k + 1, Len(queue))
  IN  {<<Before(k), <<queue[k]>> \o After(k)>> : k \in 1..most}
        \cup {<<SubSeq(queue, 1, most), After(most)>>}
        \cup UNION {{<<Before(k) \o <<c[1]>>, <<c[2]>> \o After(k)>> :
                        c \in Cuts(queue[k])} :
                     k \in {i \in 1..most : Cuttable(queue[i])}}

-----------------------------------------------------------------------------
(* Lines and pieces. *)

IsNewline(c) == c = Newline

FirstLine(text) == SubSeq(text, 1, SelectInSeq(text, IsNewline) - 1)
AfterFirst(text) == SubSeq(text, SelectInSeq(text, IsNewline) + 1, Len(text))

(* The pieces of a line lie between its commas and its two ends. *)
Ends(line) == {i \in 0..(Len(line) + 1) : i \in 1..Len(line) => line[i] = Comma}
Pieces(line) == Cardinality(Ends(line)) - 1
Piece(line, k) ==
  SubSeq(line, Nth(Ends(line), k) + 1, Nth(Ends(line), k + 1) - 1)

(* The piece field f is read from: once no comma is left, the last again. *)
PieceIndex(line, f) == IF f < Pieces(line) THEN f ELSE Pieces(line)
PieceOf(line, f) == Piece(line, PieceIndex(line, f))

(* std::stof: the number at the front of a piece; none if it throws. *)
Digits(piece) ==
  LET end == SelectInSeq(piece, LAMBDA c : c.kind # "num")
  IN  IF end = 0 THEN piece ELSE SubSeq(piece, 1, end - 1)

IsNumber(line, f) == Digits(PieceOf(line, f)) # <<>>

(* Faulty variant of IsComplete: the first number is enough. *)
IsStarted(line) == IsNumber(line, 1)

(* The line is parsed to its end: every field found a number. *)
IsComplete(line) == \A f \in Fields : IsNumber(line, f)

-----------------------------------------------------------------------------
(* The buffer of the message, and what its units carry. *)

(* SerializeToArray: the units overwrite the front of the buffer. *)
WithUnits(buffer, units) ==
  [i \in Fields |-> IF i \in DOMAIN units THEN units[i] ELSE buffer[i]]

(* The numbers of the board a sequence of units carries. *)
Numbers(units) ==
  UNION {IF units[i].val.kind = "parsed" THEN ToSet(units[i].val.digits) ELSE {} :
         i \in DOMAIN units}

(* The numbers of a sequence of units come from one reading of the board,  *)
(* in the order of the reading.                                            *)
OneReading(units) ==
  \A i, j \in DOMAIN units :
    \A a \in Numbers(<<units[i]>>), b \in Numbers(<<units[j]>>) :
      a.rd = b.rd /\ (i <= j => a.fld <= b.fld)
=============================================================================
