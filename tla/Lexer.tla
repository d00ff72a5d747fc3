------------------------------- MODULE Lexer -------------------------------
(***************************************************************************)
(* The lexer of src/src/lexer/mod.rs, from physical lines to tokens and    *)
(* the side stream of comments.                                            *)
(*                                                                         *)
(* A text is a sequence of lines, a line its leading spaces and the        *)
(* lexemes after them; " " is a blank between two lexemes, "#" or "##"     *)
(* opens a comment that runs to the end of the line, "#!" a shebang.       *)
(* Lexemes stand for the characters: literals are not taken apart, except  *)
(* that a number followed at once by a dot becomes a float.                *)
(***************************************************************************)
EXTENDS Integers, SequencesExt

CONSTANTS Idents, Ints, Strings  \* the lexemes that are names, integers, string literals

Line(n, lex) == [ind |-> n, lex |-> lex]
Token(t, line) == [t |-> t, line |-> line]
Newline == "Newline"
Indent == "Indent"
Dedent == "Dedent"
Eof == "Eof"
Structural == {Newline, Indent, Dedent, Eof}

Openers == {"(", "[", "{"}
Closers == {")", "]", "}"}

\* token_ends_expr
EndsExpr == Idents \cup Ints \cup Strings \cup {"true", "false", "self"} \cup Closers

\* The comment that starts at position i of a line: its text keeps the blank
\* after the mark.
CommentAt(lex, i, line, trailing) ==
    [text |-> SubSeq(lex, i + 1, Len(lex)), doc |-> lex[i] = "##", trailing |-> trailing, line |-> line]

IsComment(x) == x \in {"#", "##"}

LastToken(s) == IF s.tokens = <<>> THEN "" ELSE Last(s.tokens).t

\* scan_number, scan_tuple_index and scan_leading_dot_number decide about a
\* number by what touches it: after a dot it is an index; otherwise a dot at
\* once behind it makes it a float, which needs a digit; a digit at once
\* behind a dot that ends no expression is an error too.
BadNumber(lex, i, prev) ==
    \/ /\ lex[i] \in Ints /\ prev # "."
       /\ i < Len(lex) /\ lex[i + 1] = "."
    \/ /\ lex[i] = "." /\ prev \notin EndsExpr
       /\ i < Len(lex) /\ lex[i + 1] \in Ints

Bracket(depth, x) ==
    CASE x \in Openers -> depth + 1
      [] x \in Closers -> IF depth = 0 THEN 0 ELSE depth - 1
      [] OTHER -> depth

\* One lexeme inside a line; a comment takes the rest of it.
ScanLexeme(s, lex, i, line) ==
    IF s.skip \/ lex[i] = " " THEN s
    ELSE IF IsComment(lex[i])
    THEN [s EXCEPT !.comments = Append(@, CommentAt(lex, i, line, s.began)), !.skip = TRUE]
    ELSE IF BadNumber(lex, i, LastToken(s))
    THEN [s EXCEPT !.errs = Append(@, "E0004")]
    ELSE [s EXCEPT !.tokens = Append(@, Token(lex[i], line)),
                   !.depth = Bracket(@, lex[i]), !.began = TRUE]

ScanLine(s, lex, line) ==
    FoldLeft(LAMBDA acc, i : ScanLexeme(acc, lex, i, line),
             [s EXCEPT !.skip = FALSE, !.began = FALSE],
             [i \in 1..Len(lex) |-> i])

Push(s, kinds, line) ==
    [s EXCEPT !.tokens = @ \o [i \in 1..Len(kinds) |-> Token(kinds[i], line)]]

\* handle_indent_transition
IndentTransition(s0, n, line) ==
    LET s == IF s0.have THEN Push(s0, <<Newline>>, line) ELSE s0
        top == Last(s.stack)
        kept == SelectSeq(s.stack, LAMBDA v : v <= n)
        dedented == Push([s EXCEPT !.stack = kept],
                         [i \in 1..(Len(s.stack) - Len(kept)) |-> Dedent], line)
        mismatch(t) == [t EXCEPT !.errs = Append(@, "E0501")]
    IN CASE n = top -> s
         [] n = top + 4 -> Push([s EXCEPT !.stack = Append(@, n)], <<Indent>>, line)
         [] n > top /\ n # top + 4 -> mismatch(s)
         [] n < top -> IF Last(kept) = n THEN dedented ELSE mismatch(dedented)

\* peek_starts_continuation: a deeper line that starts with "." or "|>"
\* continues the logical line before it.
Continues(s, l) == s.have /\ l.ind > s.base /\ l.lex[1] \in {".", "|>"}

\* The start of a line that is neither blank nor a comment of its own.
StartLine(s, l, line) ==
    IF s.depth > 0 \/ Continues(s, l) THEN s
    ELSE [IndentTransition(s, l.ind, line) EXCEPT !.base = l.ind, !.have = TRUE]

RunLine(s, l, line) ==
    IF l.lex = <<>> THEN s
    ELSE IF IsComment(l.lex[1])
    THEN [s EXCEPT !.comments = Append(@, CommentAt(l.lex, 1, line, FALSE))]
    ELSE ScanLine(StartLine(s, l, line), l.lex, line)

HasShebang(text) == Len(text) > 0 /\ text[1].lex # <<>> /\ text[1].lex[1] = "#!"

LexerStart ==
    [tokens |-> <<>>, comments |-> <<>>, errs |-> <<>>, stack |-> <<0>>, depth |-> 0,
     base |-> 0, have |-> FALSE, began |-> FALSE, skip |-> FALSE]

\* Lexer::tokenize: the tokens end with the open Dedents and Eof.
Tokenize(text) ==
    LET first == IF HasShebang(text) THEN 2 ELSE 1
        s == FoldLeft(LAMBDA acc, line : RunLine(acc, text[line], line), LexerStart,
                      [i \in 1..(Len(text) + 1 - first) |-> i + first - 1])
    IN Push(s, [i \in 1..(Len(s.stack) - 1) |-> Dedent] \o <<Eof>>, Len(text) + 1)

=============================================================================
