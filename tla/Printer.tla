------------------------------ MODULE Printer ------------------------------
(***************************************************************************)
(* The printer of src/src/fmt/printer.rs and doc_fence.rs: a tree with its *)
(* comments back to text.  A fragment is a text whose first line goes on   *)
(* where the fragment before it stopped; all its other lines carry their   *)
(* indentation.  indent is the indentation of the statement around.        *)
(***************************************************************************)
EXTENDS Syntax, Lexer, CommentAttach

Empty == <<Line(0, <<>>)>>
Words(lex) == <<Line(0, lex)>>
Pad(indent) == <<Line(indent, <<>>)>>
Break(indent) == Empty \o Pad(indent)  \* a new line and its indentation

Joined(a, b) ==
    Line(IF a.lex = <<>> THEN a.ind + b.ind ELSE a.ind, a.lex \o b.lex)
Cat2(a, b) == Front(a) \o <<Joined(Last(a), b[1])>> \o Tail(b)
Cat(fragments) == FoldLeft(Cat2, Empty, fragments)

\* the fragments with separators between
Separated(fragments, separator) ==
    IF fragments = <<>> THEN Empty
    ELSE FoldLeft(LAMBDA acc, f : Cat(<<acc, separator, f>>), fragments[1], Tail(fragments))
Commas(fragments) == Separated(fragments, Words(<<",", " ">>))

---------------------------------------------------------------------------
\* Comments and blank lines

Marked(mark, text) == IF text = <<>> THEN <<mark>> ELSE <<mark, " ">> \o text

\* format_comment_line and trailing_suffix
CommentLine(text) == Words(Marked("#", Trimmed(text)))
Suffix(texts) == IF texts = <<>> THEN Empty ELSE Cat(<<Words(<<" ">>), CommentLine(texts[1])>>)

\* render_doc_comment: prose is trimmed, the inside of a fence kept
DocPart(part) ==
    IF part.fence
    THEN <<Words(<<"##", " ", FenceMark>> \o part.tag)>>
         \o [i \in DOMAIN part.lines |-> Words(Marked("##", part.lines[i]))]
         \o <<Words(<<"##", " ", FenceMark>>)>>
    ELSE <<Words(Marked("##", Trimmed(part.lines[1])))>>
DocLines(doc) == FlattenSeq([i \in DOMAIN doc.parts |-> DocPart(doc.parts[i])])

\* What stands on one or more lines of a series, with the lines of the
\* source it came from.
Piece(lines, start, end) == [lines |-> lines, start |-> start, end |-> end]

\* push_blank_if_gap and append_with_blank_line_rule: one blank line between
\* two pieces that had one or more between them
WithGaps(pieces) ==
    FlattenSeq([i \in DOMAIN pieces |->
        (IF i > 1 /\ pieces[i].start > pieces[i - 1].end + 1 THEN <<Empty>> ELSE <<>>) \o pieces[i].lines])

\* join_first_unindented
Series(pieces, indent) ==
    LET lines == WithGaps(pieces)
    IN IF lines = <<>> THEN Empty
       ELSE FoldLeft(LAMBDA acc, l : Cat(<<acc, IF l = Empty THEN Break(0) ELSE Break(indent), l>>),
                     lines[1], Tail(lines))

\* assemble_with_leading_trailing
Assembled(lead, doc, trail, core, start, indent) ==
    Series([i \in DOMAIN lead |-> Piece(<<CommentLine(lead[i].text)>>, lead[i].line, lead[i].line)]
           \o [i \in DOMAIN doc |-> Piece(DocLines(doc[i]), doc[i].start, doc[i].end)]
           \o <<Piece(<<Cat2(core, Suffix(trail))>>, start, start)>>, indent)
Commented(n, trail, core, indent) == Assembled(n.c.lead, n.c.doc, trail, core, n.start, indent)

\* effective_start_line
EffectiveStart(n) ==
    CASE n.c.lead # <<>> -> n.c.lead[1].line
      [] n.c.lead = <<>> /\ n.c.doc # <<>> -> n.c.doc[1].start
      [] OTHER -> n.start

---------------------------------------------------------------------------
\* Types, patterns, names

RECURSIVE PrintType(_), PrintPattern(_)
PrintUses(n) ==
    IF n.kids = <<>> THEN Empty
    ELSE Cat(<<Words(<<" ", "uses", " ", "{">>),
               Commas([i \in DOMAIN n.kids |-> Words(<<n.kids[i].v>>)]), Words(<<"}">>)>>)

Types(ns) == Commas([i \in DOMAIN ns |-> PrintType(ns[i])])
Bracketed1(open, inside, close) == Cat(<<Words(<<open>>), inside, Words(<<close>>)>>)

PrintType(n) ==
    IF n.k = "FunType"
    THEN Cat(<<Bracketed1("(", Types(Kid(n, 1).kids), ")"), Words(<<" ", "->", " ">>),
               PrintType(Kid(n, 2)), PrintUses(Kid(n, 3))>>)
    ELSE IF n.kids = <<>> THEN Words(<<n.v>>)
    ELSE Cat2(Words(<<n.v>>), Bracketed1("[", Types(n.kids), "]"))

TypeArgsText(n) == IF n.kids = <<>> THEN Empty ELSE Bracketed1("[", Types(n.kids), "]")
GenericsText(n) ==
    IF n.kids = <<>> THEN Empty
    ELSE Bracketed1("[", Commas([i \in DOMAIN n.kids |-> Words(<<n.kids[i].v>>)]), "]")

Annotation(ty) == IF ty = Absent THEN Empty ELSE Cat2(Words(<<":", " ">>), PrintType(ty))

\* print_param, a lambda's parameter and a variant's field, which may have
\* no name
PrintParam(n) ==
    IF n.v = "" THEN PrintType(Kid(n, 1)) ELSE Cat2(Words(<<n.v>>), Annotation(Kid(n, 1)))
PrintParams(ns) == Commas([i \in DOMAIN ns |-> PrintParam(ns[i])])

PrintPattern(n) ==
    LET fields == Commas([i \in DOMAIN n.kids |-> PrintPattern(n.kids[i])])
    IN CASE n.k = "NegLit" -> Words(<<"-", n.v>>)
         [] n.k = "TuplePat" -> Bracketed1("(", fields, ")")
         [] n.k = "VariantPat" /\ n.kids # <<>> -> Cat2(Words(<<n.v>>), Bracketed1("(", fields, ")"))
         [] OTHER -> Words(<<n.v>>)

---------------------------------------------------------------------------
RECURSIVE Render(_, _)

\* the nodes of a body, one per line, with their blank lines; every one is
\* indented, the first too
Body(ns, indent) ==
    IF ns = <<>> THEN Empty
    ELSE Cat2(Pad(indent),
              Series([i \in DOMAIN ns |-> Piece(<<Render(ns[i], indent)>>, EffectiveStart(ns[i]), EndLine(ns[i]))],
                     indent))

\* print_attached_list: one element per line with its comments
AttachedList(n, open, close, indent) ==
    LET item(i) == Assembled(n.c.leads[i], <<>>, n.c.trails[i],
                             Cat2(Render(n.kids[i], indent + 4), Words(<<",">>)), n.kids[i].start, indent + 4)
        closing == [i \in DOMAIN n.c.closing |-> CommentLine(n.c.closing[i].text)]
        inside == [i \in DOMAIN n.kids |-> item(i)] \o closing
    IN Cat(<<Words(open), Suffix(n.c.open)>>
           \o FlattenSeq([i \in DOMAIN inside |-> <<Break(indent + 4), inside[i]>>])
           \o <<Break(indent), Words(<<close>>)>>)

\* print_bracket_list: a list of two or more that was on several lines has
\* one element per line and a comma after the last
BracketList(n, open, close, indent) ==
    LET items(ind) == [i \in DOMAIN n.kids |-> Render(n.kids[i], ind)]
    IN IF n.c.attached THEN AttachedList(n, open, close, indent)
       ELSE IF Len(n.kids) < 2 \/ ~n.multi
       THEN Cat(<<Words(open), Commas(items(indent)), Words(<<close>>)>>)
       ELSE Cat(<<Words(open)>>
                \o FlattenSeq([i \in DOMAIN n.kids |-> <<Break(indent + 4), items(indent + 4)[i], Words(<<",">>)>>])
                \o <<Break(indent), Words(<<close>>)>>)

\* Mutant: a tuple of one is printed as any other list.
PrintTupleBare(n, indent) == BracketList(n, <<"(">>, ")", indent)

\* the one element of a tuple always has its comma
PrintTuple(n, indent) ==
    IF Len(n.kids) = 1 /\ ~n.c.attached
    THEN Cat(<<Words(<<"(">>), Render(n.kids[1], indent), Words(<<",", ")">>)>>)
    ELSE BracketList(n, <<"(">>, ")", indent)

\* chain_break_prefix: a link on a later line than the end of what it is
\* applied to goes on a line of its own
LinkBreak(receiver, line, indent) == IF line = receiver.end THEN Empty ELSE Break(indent + 4)

PrintMethod(n, indent) ==
    LET args == Kid(n, 3)
        broken == args.open # Kid(n, 1).end
    IN Cat(<<Render(Kid(n, 1), indent), LinkBreak(Kid(n, 1), args.open, indent), Words(<<".", n.v>>),
             TypeArgsText(Kid(n, 2)), BracketList(args, <<"(">>, ")", IF broken THEN indent + 4 ELSE indent)>>)

PrintDot(n, indent) ==
    Cat(<<Render(Kid(n, 1), indent), LinkBreak(Kid(n, 1), n.end, indent), Words(<<".", n.v>>)>>)

\* print_pipe: three stages or more stand one per line
PrintStage(n, indent) ==
    LET callee == Render(Kid(n, 1), indent)
        args == IF Len(n.kids) = 1 THEN Empty
                ELSE BracketList([Kid(n, 2) EXCEPT !.multi = FALSE], <<"(">>, ")", indent)
    IN Cat(<<callee, args, IF n.v = "?" THEN Words(<<"?">>) ELSE Empty>>)

PrintPipe(n, indent) ==
    LET tall == Len(n.kids) >= 4
        stage(s) == IF tall THEN Cat(<<Break(indent + 4), Words(<<"|>", " ">>), PrintStage(s, indent + 4)>>)
                    ELSE Cat(<<Words(<<" ", "|>", " ">>), PrintStage(s, indent)>>)
    IN Cat(<<Render(Kid(n, 1), indent)>> \o [i \in 1..(Len(n.kids) - 1) |-> stage(n.kids[i + 1])])

\* print_lambda: an if or a match starts below the arrow
PrintLambda(n, indent) ==
    LET params == Bracketed1("(", PrintParams(Kid(n, 1).kids), ")")
    IN IF IsBlockShaped(Kid(n, 2))
       THEN Cat(<<params, Words(<<" ", "=>">>), Suffix(n.c.head), Break(indent + 4), Render(Kid(n, 2), indent + 4)>>)
       ELSE Cat(<<params, Words(<<" ", "=>", " ">>), Render(Kid(n, 2), indent)>>)

\* print_if_expr: an else if moves below its else
PrintIf(n, indent) ==
    LET else == Kid(n, 3)
    IN Cat(<<Words(<<"if", " ">>), Render(Kid(n, 1), indent), Suffix(Kid(n, 2).c.head), Break(0),
             Body(Kid(n, 2).kids, indent + 4), Break(indent), Words(<<"else">>)>>
           \o (IF else.k = "If" THEN <<Break(indent + 4), Render(else, indent + 4)>>
               ELSE <<Suffix(else.c.head), Break(0), Body(else.kids, indent + 4)>>))

PrintMatch(n, indent) ==
    Cat(<<Words(<<"match", " ">>), Render(Kid(n, 1), indent), Suffix(n.c.head), Break(0),
          Body(Tail(n.kids), indent + 4)>>)

PrintArm(n, indent) ==
    LET body == Kid(n, 2)
        core == IF body.k = "Block"
                THEN <<Words(<<" ", "=>">>), Suffix(body.c.head), Break(0), Body(body.kids, indent + 4)>>
                ELSE <<Words(<<" ", "=>", " ">>), Render(body, indent)>>
    IN Commented(n, n.c.trail, Cat(<<PrintPattern(Kid(n, 1))>> \o core), indent)

---------------------------------------------------------------------------
\* Statements and declarations

Assign(left, value, indent) == Cat(<<left, Words(<<" ", "=", " ">>), Render(value, indent)>>)

StmtCore(n, indent) ==
    CASE n.k = "Var" -> Assign(Cat(<<Words(<<"var", " ", n.v>>), Annotation(Kid(n, 1))>>), Kid(n, 2), indent)
      [] n.k = "NameAssign" -> Assign(Cat(<<Words(<<n.v>>), Annotation(Kid(n, 1))>>), Kid(n, 2), indent)
      [] n.k = "FieldAssign" -> Assign(Cat(<<Render(Kid(n, 1), indent), Words(<<".", n.v>>)>>), Kid(n, 2), indent)
      [] n.k = "IndexAssign" ->
            Assign(Cat2(Render(Kid(n, 1), indent), Bracketed1("[", Render(Kid(n, 2), indent), "]")), Kid(n, 3), indent)
      [] n.k = "Discard" -> Assign(Words(<<"_">>), Kid(n, 1), indent)
      [] n.k = "Return" -> IF n.kids = <<>> THEN Words(<<"return">>)
                           ELSE Cat2(Words(<<"return", " ">>), Render(Kid(n, 1), indent))
      [] n.k = "ExprStmt" -> Render(Kid(n, 1), indent)

PrintDef(n, indent) ==
    LET self == IF Kid(n, 2).v = "" THEN <<>>
                ELSE <<Words(IF Kid(n, 2).v = "self" THEN <<"self">> ELSE <<"var", " ", "self">>)>>
        params == Commas(self \o [i \in DOMAIN Kid(n, 2).kids |-> PrintParam(Kid(n, 2).kids[i])])
        header == Cat(<<Words(<<"def", " ", n.v>>), GenericsText(Kid(n, 1)), Bracketed1("(", params, ")"),
                        Words(<<":", " ">>), PrintType(Kid(n, 3)), PrintUses(Kid(n, 4))>>)
    IN Cat(<<Commented(n, Kid(n, 5).c.head, header, indent), Break(0), Body(Kid(n, 5).kids, indent + 4)>>)

\* print_struct_decl and print_enum_decl: the fields, then the methods
PrintTypeDecl(n, indent) ==
    LET word == IF n.k = "Struct" THEN "struct" ELSE "enum"
        header == Cat(<<Words(<<word, " ", n.v>>), GenericsText(Kid(n, 1))>>)
    IN Cat(<<Commented(n, n.c.head, header, indent), Break(0),
             Body(IF n.k = "Struct" THEN Kid(n, 2).kids \o Kid(n, 3).kids ELSE Kid(n, 2).kids, indent + 4)>>)

\* print_enum_variant
PrintVariant(n, indent) ==
    LET core == IF n.kids = <<>> THEN Words(<<n.v>>)
                ELSE Cat2(Words(<<n.v>>), Bracketed1("(", PrintParams(n.kids), ")"))
    IN Commented(n, n.c.trail, core, indent)

\* print_module, as lines
RenderModule(module) ==
    LET directive == IF module.v = "module" THEN <<Words(<<"module">>), Break(0), Break(0)>> ELSE <<>>
        items == [i \in DOMAIN module.kids |->
                    Piece(<<Render(module.kids[i], 0)>>, EffectiveStart(module.kids[i]), EndLine(module.kids[i]))]
        rest == [i \in DOMAIN module.c.closing |->
                    Piece(<<CommentLine(module.c.closing[i].text)>>, module.c.closing[i].line, module.c.closing[i].line)]
    IN Cat(Append(directive, Series(items \o rest, 0)))

\* print_expr, print_stmt and print_decl
Render(n, indent) ==
    CASE n.k \in {"Lit", "Ident"} -> Words(<<n.v>>)
      [] n.k = "Placeholder" -> Words(<<"_">>)
      [] n.k = "List" -> BracketList(n, <<"[">>, "]", indent)
      [] n.k \in {"Set", "Dict"} -> BracketList(n, <<"{">>, "}", indent)
      [] n.k = "Tuple" -> PrintTuple(n, indent)
      [] n.k = "ParList" -> BracketList(n, <<"par", " ", "[">>, "]", indent)
      [] n.k = "ParTuple" -> BracketList(n, <<"par", " ", "(">>, ")", indent)
      [] n.k = "Entry" -> Cat(<<Render(Kid(n, 1), indent), Words(<<":", " ">>), Render(Kid(n, 2), indent)>>)
      [] n.k = "Named" -> Cat(<<Words(<<n.v, ":", " ">>), Render(Kid(n, 1), indent)>>)
      [] n.k = "Unary" -> Cat2(Words(IF n.v = "not" THEN <<"not", " ">> ELSE <<"-">>), Render(Kid(n, 1), indent))
      [] n.k = "Binary" ->
            Cat(<<Render(Kid(n, 1), indent), Words(<<" ", n.v, " ">>), Render(Kid(n, 2), indent)>>)
      [] n.k = "Call" ->
            Cat(<<Render(Kid(n, 1), indent), TypeArgsText(Kid(n, 2)), BracketList(Kid(n, 3), <<"(">>, ")", indent)>>)
      [] n.k = "Method" -> PrintMethod(n, indent)
      [] n.k \in {"Field", "TupleIndex"} -> PrintDot(n, indent)
      [] n.k = "Index" -> Cat2(Render(Kid(n, 1), indent), Bracketed1("[", Render(Kid(n, 2), indent), "]"))
      [] n.k = "Question" -> Cat2(Render(Kid(n, 1), indent), Words(<<"?">>))
      [] n.k = "Pipe" -> PrintPipe(n, indent)
      [] n.k = "Lambda" -> PrintLambda(n, indent)
      [] n.k = "If" -> PrintIf(n, indent)
      [] n.k = "Match" -> PrintMatch(n, indent)
      [] n.k = "Group" -> Bracketed1("(", Render(Kid(n, 1), indent), ")")
      [] n.k = "Module" -> RenderModule(n)
      [] n.k = "Arm" -> PrintArm(n, indent)
      [] n.k = "Def" -> PrintDef(n, indent)
      [] n.k \in {"Struct", "Enum"} -> PrintTypeDecl(n, indent)
      [] n.k = "Variant" -> PrintVariant(n, indent)
      [] n.k = "Param" -> Commented(n, n.c.trail, PrintParam(n), indent)
      [] OTHER -> Commented(n, n.c.trail, StmtCore(n, indent), indent)
PrintModule(module) == Render(module, 0)

\* driver.rs puts the shebang back
ReattachShebang(text, body) ==
    IF ~HasShebang(text) THEN body
    ELSE IF Len(text) > 1 /\ text[2].lex = <<>> THEN <<text[1], Line(0, <<>>)>> \o body
    ELSE <<text[1]>> \o body

=============================================================================
