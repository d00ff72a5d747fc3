----------------------------- MODULE Positions -----------------------------
(***************************************************************************)
(* src/src/lsp/pos.rs: positions of the compiler, one-based lines and      *)
(* columns counted in characters, as positions of the language server      *)
(* protocol, zero-based and counted in units of the encoding the client    *)
(* chose, and back.                                                        *)
(*                                                                         *)
(* A text is the sequence of its lines without their line ends, at least   *)
(* one.  A line is the sequence of its characters, and a character is its  *)
(* length in UTF-16 code units.  Counters saturate at 2^32 in the code;    *)
(* lines are shorter.                                                      *)
(***************************************************************************)
EXTENDS Integers, Sequences, FiniteSets

Encodings == {"utf16", "utf32"}
Lines == Seq({1, 2})
Documents == Seq(Lines) \ {<<>>}

(* The units of a line's first n characters: one each, and in UTF-16 one   *)
(* more for each character outside the basic plane.                        *)
Units(line, n, encoding) ==
  n + (IF encoding = "utf16" THEN Cardinality({i \in 1 .. n : line[i] = 2}) ELSE 0)

(* char_width of the characters taken, added up.                           *)
to_lsp_column(line, requested_column, encoding) ==
  Units(line, IF requested_column < Len(line) THEN requested_column ELSE Len(line), encoding)

(* The loop takes characters while the next one still fits.                *)
Fits(line, n, requested_column, encoding) == Units(line, n, encoding) <= requested_column
from_lsp_column(line, requested_column, encoding) ==
  CHOOSE column \in 0 .. Len(line) :
    /\ \A n \in 0 .. column : Fits(line, n, requested_column, encoding)
    /\ column < Len(line) => ~ Fits(line, column + 1, requested_column, encoding)

(* The line asked for, or the last one.                                    *)
line_at(text, requested_line) ==
  IF requested_line < Len(text) THEN requested_line ELSE Len(text) - 1

(* saturating_sub(1).                                                      *)
ZeroBased(n) == IF n > 0 THEN n - 1 ELSE 0

to_lsp_pos(text, pos, encoding) ==
  LET line == line_at(text, ZeroBased(pos.line))
  IN  [line      |-> line,
       character |-> to_lsp_column(text[line + 1], ZeroBased(pos.col), encoding)]

from_lsp_pos(text, line, character, encoding) ==
  LET at == line_at(text, line)
  IN  [line |-> at + 1, col |-> from_lsp_column(text[at + 1], character, encoding) + 1]

span_to_range(text, span, encoding) ==
  <<to_lsp_pos(text, span.start, encoding), to_lsp_pos(text, span.end, encoding)>>

document_end(text, encoding) ==
  [line      |-> Len(text) - 1,
   character |-> to_lsp_column(text[Len(text)], Len(text[Len(text)]), encoding)]
=============================================================================
