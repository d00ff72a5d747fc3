------------------------------- MODULE Format -------------------------------
(***************************************************************************)
(* `ybm check --apply` on the text of one file, phase by phase: the lexer, *)
(* the parser with its comments, the printer (format_file_text in          *)
(* src/src/driver.rs), and then the same command again on what it wrote.   *)
(*                                                                         *)
(*   source   the text of the file before the first command,               *)
(*   text     its text now,                                                *)
(*   pass     1 for the first command, 2 for the second, 3 after it,       *)
(*   phase    the phase that is next, or "rejected",                       *)
(*   lexed    the lexer's tokens, comments and diagnostics,                *)
(*   parsed   the parser's tree and its state at the end,                  *)
(*   history  for every command the tree and the comments it read, and     *)
(*            what it wrote.                                               *)
(***************************************************************************)
EXTENDS Parser, Printer

CONSTANT Sources  \* the texts a file may have

VARIABLES source, text, pass, phase, lexed, parsed, history
vars == <<source, text, pass, phase, lexed, parsed, history>>

Nothing == [tokens |-> <<>>, comments |-> <<>>, errs |-> <<>>]
NoTree == Result(Absent, StartState)

Init ==
    /\ source \in Sources /\ text = source
    /\ pass = 1 /\ phase = "lex"
    /\ lexed = Nothing /\ parsed = NoTree /\ history = <<>>

\* lex_all_files: a diagnostic ends the command
Lex ==
    /\ phase = "lex" /\ pass <= 2
    /\ \E s \in {Tokenize(text)} :
          /\ lexed' = [tokens |-> s.tokens, comments |-> s.comments, errs |-> s.errs]
          /\ phase' = IF s.errs = <<>> THEN "parse" ELSE "rejected"
    /\ UNCHANGED <<source, text, pass, parsed, history>>

\* parse_all_files: parse_module, then attach_comments
ParseFile ==
    /\ phase = "parse"
    /\ \E r \in {Parse(lexed.tokens)} :
          /\ parsed' = Result(AttachComments(r.n, lexed.comments), r.p)
          /\ phase' = IF r.p.errs = <<>> THEN "print" ELSE "rejected"
    /\ UNCHANGED <<source, text, pass, lexed, history>>

\* format_module_text, and the write when the text has changed
Write ==
    /\ phase = "print"
    /\ text' = ReattachShebang(text, PrintModule(parsed.n))
    /\ history' = Append(history, [tree |-> parsed.n, comments |-> lexed.comments, wrote |-> text'])
    /\ pass' = pass + 1 /\ phase' = "lex"
    /\ lexed' = Nothing /\ parsed' = NoTree
    /\ UNCHANGED source

Next == Lex \/ ParseFile \/ Write

Spec == Init /\ [][Next]_vars

---------------------------------------------------------------------------
(***************************************************************************)
(* Properties                                                              *)
(***************************************************************************)

RECURSIVE Shape(_)
\* What a tree means: neither lines nor comments, but the fences of its doc
\* comments, which are tests.  An else that holds only an if is an else if,
\* and uses {} is no uses.
ElseIf(n) ==
    IF /\ n.k = "Block" /\ Len(n.kids) = 1
       /\ n.kids[1].k = "ExprStmt" /\ n.kids[1].kids[1].k = "If"
    THEN n.kids[1].kids[1] ELSE n
Plain(n) ==
    CASE n.k = "If" -> [n EXCEPT !.kids[3] = ElseIf(@)]
      [] n.k = "Uses" /\ n.kids = <<>> -> Absent
      [] OTHER -> n
Fences(n) ==
    FlattenSeq([i \in DOMAIN n.c.doc |-> SelectSeq(n.c.doc[i].parts, LAMBDA part : part.fence)])
Shape(n) ==
    LET m == Plain(n)
    IN [k |-> m.k, v |-> m.v, fences |-> Fences(m), kids |-> [i \in DOMAIN m.kids |-> Shape(m.kids[i])]]

\* What the formatter writes is accepted again and is the same program, down
\* to the code in the fences of its doc comments (fmt prints the tree, not
\* the tokens: every bracket, comma, line break and indentation the parser
\* needs must be put back).
RoundTrip ==
    pass = 2 => /\ phase # "rejected"
                /\ phase = "print" => Shape(parsed.n) = Shape(history[1].tree)

\* No comment is lost, doubled, or run into code that it swallows: the
\* comments of the written text are those of the text that was read, their
\* spaces, marks and places aside (attach_comments gives every comment of the
\* queue to one node, and the printer prints all it gave).
Count(comments, words) == Len(SelectSeq(comments, LAMBDA c : Trimmed(c.text) = words))
CommentsKept ==
    pass = 2 /\ phase = "parse" =>
        \A c \in Range(lexed.comments \o history[1].comments) :
            Count(lexed.comments, Trimmed(c.text)) = Count(history[1].comments, Trimmed(c.text))

\* fmt(fmt(x)) = fmt(x): the second command writes the same text (EndLine,
\* multi and the lines of the comments decide about line breaks and blank
\* lines, and they must come out of the written text as they went in).
Idempotent == pass = 3 => history[2].wrote = history[1].wrote

\* What the parser accepts it has read to the end, with the depth of nested
\* expressions and the ban on "?" back where they were (a loop that stops
\* early would drop the rest of the file from the written text, without a
\* diagnostic).
ParsedWhole ==
    phase = "print" => /\ parsed.p.i = Len(lexed.tokens)
                       /\ parsed.p.d = 0 /\ ~parsed.p.noq

=============================================================================
