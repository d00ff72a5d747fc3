--------------------------- MODULE PositionsProofs -------------------------
(***************************************************************************)
(* Theorems about Positions, for every text and both encodings: a position *)
(* of the compiler survives the trip to the editor and back, ranges stay in*)
(* order, and a position of the editor is rounded down to a character.     *)
(***************************************************************************)
EXTENDS Positions, FiniteSetTheorems, WellFoundedInduction, TLAPS

(* A set of natural numbers that is not empty has a least element.         *)
LEMMA LeastExists ==
  ASSUME NEW S, S \subseteq Nat, S # {}
  PROVE  \E x \in S : \A y \in S : x <= y
<1>1. PICK x \in S : \A y \in S : ~ (<<y, x>> \in OpToRel(<, Nat))
  BY NatLessThanWellFounded, WFMin, Zenon
<1>2. ASSUME NEW y \in S PROVE x <= y
  <2>1. ~ (y < x)
    BY <1>1 DEF OpToRel
  <2>2. QED
    BY <2>1
<1>3. QED
  BY <1>2

(* The characters outside the basic plane among the first n.               *)
Astral(line, n) == {i \in 1 .. n : line[i] = 2}

(* They are finitely many, no more than the characters.                    *)
LEMMA AstralCounted ==
  ASSUME NEW line \in Lines, NEW n \in Nat
  PROVE  IsFiniteSet(Astral(line, n)) /\ Cardinality(Astral(line, n)) \in 0 .. n
<1>1. IsFiniteSet(1 .. n) /\ Cardinality(1 .. n) = n
  BY FS_Interval
<1>2. Astral(line, n) \subseteq 1 .. n
  BY DEF Astral
<1>3. QED
  BY <1>1, <1>2, FS_Subset, FS_CardinalityType

(* Every character is a unit at least.                                     *)
LEMMA UnitsNat ==
  ASSUME NEW line \in Lines, NEW n \in Nat, NEW encoding
  PROVE  Units(line, n, encoding) \in Nat /\ Units(line, n, encoding) >= n
BY AstralCounted DEF Units, Astral

(* No characters are no units.                                             *)
LEMMA UnitsZero ==
  ASSUME NEW line \in Lines, NEW encoding
  PROVE  Units(line, 0, encoding) = 0
<1>1. Cardinality(Astral(line, 0)) = 0
  BY AstralCounted
<1>2. QED
  BY <1>1 DEF Units, Astral

(* More characters are more units, one each at least.                      *)
LEMMA UnitsGrow ==
  ASSUME NEW line \in Lines, NEW encoding, NEW m \in Nat, NEW n \in Nat, m < n
  PROVE  Units(line, m, encoding) < Units(line, n, encoding)
<1>1. Astral(line, m) \subseteq Astral(line, n)
  BY DEF Astral
<1>2. Cardinality(Astral(line, m)) <= Cardinality(Astral(line, n))
  BY <1>1, AstralCounted, FS_Subset
<1>3. Cardinality(Astral(line, m)) \in Nat /\ Cardinality(Astral(line, n)) \in Nat
  BY AstralCounted
<1>4. QED
  BY <1>2, <1>3 DEF Units, Astral

(* The next character adds one unit, or two when UTF-16 needs a pair.      *)
LEMMA UnitsStep ==
  ASSUME NEW line \in Lines, NEW encoding, NEW n \in Nat
  PROVE  Units(line, n + 1, encoding)
           = Units(line, n, encoding) + (IF encoding = "utf16" /\ line[n + 1] = 2 THEN 2 ELSE 1)
<1>1. CASE line[n + 1] = 2
  <2>1. Astral(line, n + 1) = Astral(line, n) \cup {n + 1} /\ n + 1 \notin Astral(line, n)
    BY <1>1 DEF Astral
  <2>2. Cardinality(Astral(line, n + 1)) = Cardinality(Astral(line, n)) + 1
    BY <2>1, AstralCounted, FS_AddElement
  <2>3. Cardinality(Astral(line, n)) \in Nat
    BY AstralCounted
  <2>4. QED
    BY <2>2, <2>3 DEF Units, Astral
<1>2. CASE line[n + 1] # 2
  <2>1. Astral(line, n + 1) = Astral(line, n)
    BY <1>2 DEF Astral
  <2>2. Cardinality(Astral(line, n)) \in Nat
    BY AstralCounted
  <2>3. QED
    BY <1>2, <2>2 DEF Units, Astral
<1>3. QED
  BY <1>1, <1>2

(* What from_lsp_column's loop ends with.                                  *)
IsColumn(line, column, units, encoding) ==
  /\ column \in 0 .. Len(line)
  /\ Units(line, column, encoding) <= units
  /\ column < Len(line) => Units(line, column + 1, encoding) > units

(* from_lsp_column's loop does end there.                                  *)
LEMMA LoopEnds ==
  ASSUME NEW line \in Lines, NEW units \in Nat, NEW encoding
  PROVE  IsColumn(line, from_lsp_column(line, units, encoding), units, encoding)
<1>1. Len(line) \in Nat
  OBVIOUS
<1>2. \E column \in 0 .. Len(line) :
         /\ \A n \in 0 .. column : Fits(line, n, units, encoding)
         /\ column < Len(line) => ~ Fits(line, column + 1, units, encoding)
  <2>1. CASE \A n \in 0 .. Len(line) : Fits(line, n, units, encoding)
    BY <2>1
  <2>2. CASE \E n \in 0 .. Len(line) : ~ Fits(line, n, units, encoding)
    <3> DEFINE S == {n \in 0 .. Len(line) : ~ Fits(line, n, units, encoding)}
    <3>0. S \subseteq Nat /\ S # {}
      BY <2>2
    <3> HIDE DEF S
    <3>1. PICK n \in S : \A m \in S : n <= m
      BY <3>0, LeastExists
    <3> USE DEF S
    <3>2. Fits(line, 0, units, encoding)
      BY UnitsZero DEF Fits
    <3>3. n # 0
      BY <3>2
    <3>4. n - 1 \in 0 .. Len(line) /\ n - 1 < Len(line) /\ (n - 1) + 1 = n
      BY <3>3
    <3>5. \A m \in 0 .. n - 1 : Fits(line, m, units, encoding)
      BY <3>1
    <3>6. QED
      BY <3>4, <3>5
  <2>3. QED
    BY <2>2
<1>3. PICK column :
         /\ column = from_lsp_column(line, units, encoding)
         /\ column \in 0 .. Len(line)
         /\ \A n \in 0 .. column : Fits(line, n, units, encoding)
         /\ column < Len(line) => ~ Fits(line, column + 1, units, encoding)
  BY <1>2 DEF from_lsp_column
<1>4. column \in 0 .. column /\ column + 1 \in Nat
  BY <1>3
<1>5. Units(line, column + 1, encoding) \in Nat
  BY <1>4, UnitsNat
<1>6. QED
  BY <1>3, <1>5 DEF IsColumn, Fits

(* There is only one such column.                                          *)
LEMMA ColumnIsUnique ==
  ASSUME NEW line \in Lines, NEW units \in Nat, NEW encoding, NEW k \in 0 .. Len(line),
         Units(line, k, encoding) = units
  PROVE  from_lsp_column(line, units, encoding) = k
<1>1. Len(line) \in Nat
  OBVIOUS
<1>2. PICK c \in 0 .. Len(line) :
         c = from_lsp_column(line, units, encoding) /\ IsColumn(line, c, units, encoding)
  BY LoopEnds DEF IsColumn
<1>3. ~ (k < c)
  <2> SUFFICES ASSUME k < c PROVE FALSE
    OBVIOUS
  <2>1. Units(line, k, encoding) < Units(line, c, encoding)
    BY UnitsGrow
  <2>2. Units(line, c, encoding) \in Nat
    BY UnitsNat
  <2>3. QED
    BY <1>2, <2>1, <2>2 DEF IsColumn
<1>4. ~ (c < k)
  <2> SUFFICES ASSUME c < k PROVE FALSE
    OBVIOUS
  <2>1. Units(line, c + 1, encoding) > units
    BY <1>2 DEF IsColumn
  <2>2. c + 1 = k \/ Units(line, c + 1, encoding) < Units(line, k, encoding)
    BY UnitsGrow
  <2>3. Units(line, c + 1, encoding) \in Nat
    BY UnitsNat
  <2>4. QED
    BY <2>1, <2>2, <2>3
<1>5. QED
  BY <1>2, <1>3, <1>4

(* to_lsp_column counts the characters up to the column asked for, the whole*)
(* line when it is past the end.                                           *)
Clipped(line, n) == IF n < Len(line) THEN n ELSE Len(line)

(* It is a column of the line.                                             *)
LEMMA ClippedInLine ==
  ASSUME NEW line \in Lines, NEW n \in Nat
  PROVE  /\ Len(line) \in Nat
         /\ Clipped(line, n) \in Nat
         /\ Clipped(line, n) \in 0 .. Len(line)
         /\ Clipped(line, n) <= n
BY DEF Clipped

(* A column of the compiler that goes to the editor and comes back is the  *)
(* same column; one past the end of the line comes back as the end.        *)
THEOREM ColumnRoundTrip ==
  ASSUME NEW line \in Lines, NEW n \in Nat, NEW encoding
  PROVE  from_lsp_column(line, to_lsp_column(line, n, encoding), encoding) = Clipped(line, n)
<1>1. to_lsp_column(line, n, encoding) = Units(line, Clipped(line, n), encoding)
  BY DEF to_lsp_column, Clipped
<1>2. Units(line, Clipped(line, n), encoding) \in Nat
  BY ClippedInLine, UnitsNat
<1>3. QED
  BY <1>1, <1>2, ClippedInLine, ColumnIsUnique

(* A column of the editor that comes to the compiler and goes back is never*)
(* moved to the right.  Within the line it stays where it is, or moves one *)
(* unit to the left, and that only in UTF-16, out of the middle of a pair; *)
(* past the end of the line it becomes the end.                            *)
THEOREM ColumnRoundsDown ==
  ASSUME NEW line \in Lines, NEW units \in Nat, NEW encoding \in Encodings,
         NEW column, column = from_lsp_column(line, units, encoding)
  PROVE  LET back == to_lsp_column(line, column, encoding)
         IN  \/ back = units
             \/ /\ encoding = "utf16"
                /\ column < Len(line)
                /\ line[column + 1] = 2
                /\ back = units - 1
             \/ /\ column = Len(line)
                /\ back = Units(line, Len(line), encoding)
                /\ back < units
<1>1. IsColumn(line, column, units, encoding)
  BY LoopEnds
<1>2. /\ column \in Nat
      /\ Len(line) \in Nat
      /\ column \in 0 .. Len(line)
  BY <1>1 DEF IsColumn
<1>3. to_lsp_column(line, column, encoding) = Units(line, column, encoding)
  BY <1>2 DEF to_lsp_column
<1>4. Units(line, column, encoding) \in Nat /\ Units(line, column, encoding) <= units
  BY <1>1, UnitsNat DEF IsColumn
<1>5. CASE column < Len(line)
  <2>1. Units(line, column + 1, encoding) > units
    BY <1>1, <1>5 DEF IsColumn
  <2>2. Units(line, column + 1, encoding) = Units(line, column, encoding)
          + (IF encoding = "utf16" /\ line[column + 1] = 2 THEN 2 ELSE 1)
    BY <1>2, UnitsStep
  <2>3. QED
    BY <1>3, <1>4, <1>5, <2>1, <2>2
<1>6. CASE column = Len(line)
  BY <1>3, <1>4, <1>6
<1>7. QED
  BY <1>2, <1>5, <1>6

(* The positions the compiler gives to what it reads: a line of the text and*)
(* a column of it, the one after its last character included.              *)
InText(text, pos) ==
  /\ pos.line \in 1 .. Len(text)
  /\ pos.col \in 1 .. Len(text[pos.line]) + 1

(* line_at finds a line of the text, the one asked for if there is one.    *)
LEMMA LineOfText ==
  ASSUME NEW text \in Documents, NEW n \in Nat
  PROVE  /\ Len(text) \in Nat
         /\ Len(text) > 0
         /\ line_at(text, n) \in 0 .. Len(text) - 1
         /\ text[line_at(text, n) + 1] \in Lines
         /\ n < Len(text) => line_at(text, n) = n
BY DEF line_at, Documents

(* What the compiler points at, the editor gives back: from_lsp_pos undoes *)
(* to_lsp_pos at every position of the text, in both encodings.            *)
THEOREM PositionRoundTrip ==
  ASSUME NEW text \in Documents, NEW pos \in [line : Nat, col : Nat], InText(text, pos),
         NEW encoding,
         NEW sent, sent = to_lsp_pos(text, pos, encoding)
  PROVE  from_lsp_pos(text, sent.line, sent.character, encoding) = pos
<1> DEFINE line == text[pos.line]
<1>0. Len(text) \in Nat /\ pos.line \in Nat /\ pos.col \in Nat
  OBVIOUS
<1>1. /\ pos.line \in 1 .. Len(text)
      /\ pos.line - 1 \in Nat
      /\ pos.line - 1 < Len(text)
      /\ ZeroBased(pos.line) = pos.line - 1
      /\ (pos.line - 1) + 1 = pos.line
  BY DEF InText, ZeroBased
<1>2. line_at(text, pos.line - 1) = pos.line - 1
  BY <1>1, LineOfText
<1>3. line \in Lines
  BY <1>1 DEF Documents
<1>4. Len(line) \in Nat
  OBVIOUS
<1>5. /\ ZeroBased(pos.col) = pos.col - 1
      /\ pos.col - 1 \in Nat
      /\ Clipped(line, pos.col - 1) = pos.col - 1
      /\ (pos.col - 1) + 1 = pos.col
  BY DEF InText, ZeroBased, Clipped
<1>6. /\ sent.line = pos.line - 1
      /\ sent.character = to_lsp_column(line, pos.col - 1, encoding)
  BY <1>1, <1>2, <1>5 DEF to_lsp_pos
<1>7. from_lsp_column(line, sent.character, encoding) = pos.col - 1
  BY <1>3, <1>5, <1>6, ColumnRoundTrip
<1>8. from_lsp_pos(text, sent.line, sent.character, encoding) = [line |-> pos.line, col |-> pos.col]
  BY <1>2, <1>6, <1>7 DEF from_lsp_pos
<1>9. QED
  BY <1>8

(* Whatever position a client sends, on a line that does not exist or past *)
(* the end of one, the compiler is asked about a position of the text.     *)
THEOREM AnyPositionLandsInText ==
  ASSUME NEW text \in Documents, NEW line \in Nat, NEW character \in Nat, NEW encoding
  PROVE  InText(text, from_lsp_pos(text, line, character, encoding))
<1> DEFINE at == line_at(text, line)
<1>1. /\ Len(text) \in Nat
      /\ at \in 0 .. Len(text) - 1
      /\ text[at + 1] \in Lines
  BY LineOfText
<1> HIDE DEF at
<1>2. /\ Len(text[at + 1]) \in Nat
      /\ from_lsp_column(text[at + 1], character, encoding) \in 0 .. Len(text[at + 1])
  BY <1>1, LoopEnds DEF IsColumn
<1>3. /\ at + 1 \in 1 .. Len(text)
      /\ from_lsp_column(text[at + 1], character, encoding) + 1 \in 1 .. Len(text[at + 1]) + 1
  BY <1>1, <1>2
<1>4. QED
  BY <1>3 DEF InText, from_lsp_pos, at

(* The order of positions: by line, then by column.                        *)
NotAfter(line_1, column_1, line_2, column_2) ==
  line_1 < line_2 \/ (line_1 = line_2 /\ column_1 <= column_2)

(* to_lsp_column keeps the order of columns.                               *)
LEMMA ColumnsOrdered ==
  ASSUME NEW line \in Lines, NEW m \in Nat, NEW n \in Nat, m <= n, NEW encoding
  PROVE  /\ to_lsp_column(line, m, encoding) \in Nat
         /\ to_lsp_column(line, n, encoding) \in Nat
         /\ to_lsp_column(line, m, encoding) <= to_lsp_column(line, n, encoding)
<1>1. /\ to_lsp_column(line, m, encoding) = Units(line, Clipped(line, m), encoding)
      /\ to_lsp_column(line, n, encoding) = Units(line, Clipped(line, n), encoding)
  BY DEF to_lsp_column, Clipped
<1>2. /\ Clipped(line, m) \in Nat
      /\ Clipped(line, n) \in Nat
      /\ Clipped(line, m) < Clipped(line, n) \/ Clipped(line, m) = Clipped(line, n)
  BY DEF Clipped
<1>3. /\ Units(line, Clipped(line, m), encoding) \in Nat
      /\ Units(line, Clipped(line, n), encoding) \in Nat
  BY <1>2, UnitsNat
<1>4. Units(line, Clipped(line, m), encoding) <= Units(line, Clipped(line, n), encoding)
  BY <1>2, <1>3, UnitsGrow
<1>5. QED
  BY <1>1, <1>3, <1>4

(* A range is sent to the editor with its start not after its end whenever *)
(* the compiler's span has it so, in columns past the end of a line too.   *)
THEOREM RangesStayOrdered ==
  ASSUME NEW text \in Documents, NEW encoding,
         NEW span \in [start : [line : Nat, col : Nat], end : [line : Nat, col : Nat]],
         span.start.line \in 1 .. Len(text),
         span.end.line \in 1 .. Len(text),
         NotAfter(span.start.line, span.start.col, span.end.line, span.end.col),
         NEW range, range = span_to_range(text, span, encoding)
  PROVE  NotAfter(range[1].line, range[1].character, range[2].line, range[2].character)
<1> DEFINE a == span.start
           b == span.end
<1>0. /\ Len(text) \in Nat
      /\ a.line \in Nat /\ a.col \in Nat /\ b.line \in Nat /\ b.col \in Nat
  OBVIOUS
<1>1. /\ ZeroBased(a.line) = a.line - 1 /\ ZeroBased(b.line) = b.line - 1
      /\ a.line - 1 \in Nat /\ b.line - 1 \in Nat
      /\ a.line - 1 < Len(text) /\ b.line - 1 < Len(text)
      /\ (a.line - 1) + 1 = a.line /\ (b.line - 1) + 1 = b.line
  BY DEF ZeroBased
<1>2. line_at(text, a.line - 1) = a.line - 1 /\ line_at(text, b.line - 1) = b.line - 1
  BY <1>1, LineOfText
<1>3. /\ range[1].line = a.line - 1
      /\ range[2].line = b.line - 1
      /\ range[1].character = to_lsp_column(text[a.line], ZeroBased(a.col), encoding)
      /\ range[2].character = to_lsp_column(text[b.line], ZeroBased(b.col), encoding)
  BY <1>1, <1>2 DEF span_to_range, to_lsp_pos
<1>4. ASSUME a.line = b.line, a.col <= b.col
      PROVE  range[1].character <= range[2].character
  <2>1. ZeroBased(a.col) \in Nat /\ ZeroBased(b.col) \in Nat /\ ZeroBased(a.col) <= ZeroBased(b.col)
    BY <1>4 DEF ZeroBased
  <2>2. text[a.line] \in Lines
    BY DEF Documents
  <2>3. QED
    BY <1>3, <1>4, <2>1, <2>2, ColumnsOrdered
<1>5. QED
  BY <1>3, <1>4 DEF NotAfter

(* The end of the document the editor is told of, the end of the one edit  *)
(* that replaces it when it is formatted, is not before any position of it.*)
THEOREM NothingAfterTheEnd ==
  ASSUME NEW text \in Documents, NEW pos \in [line : Nat, col : Nat], NEW encoding,
         NEW sent, sent = to_lsp_pos(text, pos, encoding),
         NEW last, last = document_end(text, encoding)
  PROVE  NotAfter(sent.line, sent.character, last.line, last.character)
<1> DEFINE at   == line_at(text, ZeroBased(pos.line))
           line == text[at + 1]
<1>1. ZeroBased(pos.line) \in Nat /\ ZeroBased(pos.col) \in Nat
  BY DEF ZeroBased
<1>2. /\ Len(text) \in Nat
      /\ at \in 0 .. Len(text) - 1
      /\ line \in Lines
  BY <1>1, LineOfText
<1>3. /\ sent.line = at
      /\ sent.character = to_lsp_column(line, ZeroBased(pos.col), encoding)
      /\ last.line = Len(text) - 1
      /\ last.character = to_lsp_column(text[Len(text)], Len(text[Len(text)]), encoding)
  BY DEF to_lsp_pos, document_end
<1>4. CASE at = Len(text) - 1
  <2>0. line = text[Len(text)]
    BY <1>4
  <2> HIDE DEF line, at
  <2>1. /\ Len(line) \in Nat
        /\ Clipped(line, ZeroBased(pos.col)) \in Nat
        /\ Clipped(line, ZeroBased(pos.col)) <= Len(line)
    BY <1>1, <1>2, ClippedInLine
  <2>2. to_lsp_column(line, ZeroBased(pos.col), encoding)
          = to_lsp_column(line, Clipped(line, ZeroBased(pos.col)), encoding)
    BY DEF to_lsp_column, Clipped
  <2>3. to_lsp_column(line, Clipped(line, ZeroBased(pos.col)), encoding)
          <= to_lsp_column(line, Len(line), encoding)
    BY <1>2, <2>1, ColumnsOrdered
  <2>4. QED
    BY <1>3, <1>4, <2>0, <2>2, <2>3 DEF NotAfter
<1> HIDE DEF at, line
<1>5. QED
  BY <1>2, <1>3, <1>4 DEF NotAfter
=============================================================================
