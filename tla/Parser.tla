------------------------------- MODULE Parser -------------------------------
(***************************************************************************)
(* The recursive descent parser of src/src/parser.  Every operator takes   *)
(* the tokens T and the parser's state p and returns the node n it built   *)
(* (ns, a sequence of nodes, for a list) with the state after it.  As in   *)
(* the code nothing fails: an unexpected token adds a diagnostic, and a    *)
(* plausible node takes its place.                                         *)
(*                                                                         *)
(*   i     the position of the next token,                                 *)
(*   d     the depth of nested expressions and types,                      *)
(*   noq   a bare "?" is forbidden here (inside a par branch),             *)
(*   errs  the codes of the diagnostics so far.                            *)
(***************************************************************************)
EXTENDS Syntax, Lexer

CONSTANT MaxParseDepth  \* MAX_PARSE_DEPTH, 2000 in the code

StartState == [i |-> 1, d |-> 0, noq |-> FALSE, errs |-> <<>>]

Result(n, p) == [n |-> n, p |-> p]
Results(ns, p) == [ns |-> ns, p |-> p]

\* peek_kind_at, peek_kind and bump
PeekAt(T, p, k) == IF p.i + k <= Len(T) THEN T[p.i + k].t ELSE ""
Peek(T, p) == PeekAt(T, p, 0)
Bump(T, p) == IF p.i <= Len(T) THEN [p EXCEPT !.i = @ + 1] ELSE p

\* current_span and previous_span, their lines
Here(T, p) == IF p.i <= Len(T) THEN T[p.i].line ELSE 1
Before(T, p) == IF p.i = 1 THEN Here(T, p) ELSE T[p.i - 1].line

Diag(p, code) == [p EXCEPT !.errs = Append(@, code)]
Unexpected(p) == Diag(p, "E0502")
Expect(T, p, x) == IF Peek(T, p) = x THEN Bump(T, p) ELSE Unexpected(p)
At(T, p, set) == Peek(T, p) \in set
AtEnd(T, p) == At(T, p, {"", Eof})

\* expect_ident: the name it read, "" when there is none
Name(T, p) == IF At(T, p, Idents) THEN Peek(T, p) ELSE ""
PastName(T, p) == IF At(T, p, Idents) THEN Bump(T, p) ELSE Unexpected(p)

Leaf(T, p, k) == Result(Node(k, Peek(T, p), <<>>, Here(T, p), Here(T, p)), Bump(T, p))
Poison(line) == Node("Lit", "0", <<>>, line, line)

\* a node that ends with the last token read
Upto(T, k, v, kids, start, p) == Result(Node(k, v, kids, start, Before(T, p)), p)

BlockAhead(T, p) == Peek(T, p) = Newline /\ PeekAt(T, p, 1) = Indent
AtPattern(T, p) == At(T, p, Ints \cup Strings \cup Idents \cup {"true", "false", "_", "(", "-"})

RECURSIVE SkipNewlines(_, _), SkipToSync(_, _, _), ClosingIndex(_, _, _), SkipBrackets(_, _, _)
SkipNewlines(T, p) == IF Peek(T, p) = Newline THEN SkipNewlines(T, Bump(T, p)) ELSE p

\* skip_to_sync_point: up to the Dedent that closes this block, or the end
SkipToSync(T, p, depth) ==
    IF AtEnd(T, p) \/ (Peek(T, p) = Dedent /\ depth = 0) THEN p
    ELSE SkipToSync(T, Bump(T, p),
                    CASE Peek(T, p) = Indent -> depth + 1
                      [] Peek(T, p) = Dedent -> depth - 1
                      [] OTHER -> depth)

\* matching_close_followed_by, from an opening bracket: the position of the
\* bracket that closes it, 0 when there is none
ClosingIndex(T, i, depth) ==
    IF i > Len(T) \/ T[i].t = Eof THEN 0
    ELSE LET now == CASE T[i].t \in Openers -> depth + 1
                      [] T[i].t \in Closers -> depth - 1
                      [] OTHER -> depth
         IN IF T[i].t \in Closers /\ now = 0 THEN i ELSE ClosingIndex(T, i + 1, now)

CloseFollowedBy(T, p, x) ==
    LET close == ClosingIndex(T, p.i, 0)
    IN close # 0 /\ close < Len(T) /\ T[close + 1].t = x

ExplicitTypeArgs(T, p) ==
    /\ Peek(T, p) = "["
    /\ PeekAt(T, p, 1) \in Idents \cup {"(", "void"}
    /\ CloseFollowedBy(T, p, "(")

\* skip_matching_brackets: over a nested pattern, which is forbidden
SkipBrackets(T, p, depth) ==
    CASE At(T, p, Openers) -> SkipBrackets(T, Bump(T, p), depth + 1)
      [] At(T, p, Closers) ->
            IF depth <= 1 THEN Bump(T, p) ELSE SkipBrackets(T, Bump(T, p), depth - 1)
      [] At(T, p, {"", Eof, Newline, Dedent}) -> p
      [] OTHER -> SkipBrackets(T, Bump(T, p), depth)

\* Everything that nests goes through One, which parses what kind names.
RECURSIVE One(_, _, _), CommaTail(_, _, _, _, _), PipeStages(_, _, _), Tier(_, _, _), TierTail(_, _, _),
          Unary(_, _), Postfix(_, _), Stmts(_, _, _), Arms(_, _, _), BareArms(_, _, _), FieldChain(_, _)
Expr(T, p) == One(T, p, "expr")
TypeAnn(T, p) == One(T, p, "type")
StmtOf(T, p) == One(T, p, "stmt")
Block(T, p) == One(T, p, "block")
If(T, p) == One(T, p, "if")
Primary(T, p) == One(T, p, "primary")
FunctionDecl(T, p) == One(T, p, "def")

\* parse_comma_separated: the items up to closing, which is not consumed;
\* one comma may follow the last item.  kind names the parser of an item.
CommaList(T, p, closing, kind) ==
    IF Peek(T, p) = closing THEN Results(<<>>, p)
    ELSE LET first == One(T, p, kind) IN CommaTail(T, first.p, closing, kind, <<first.n>>)

CommaTail(T, p, closing, kind, ns) ==
    IF Peek(T, p) # "," THEN Results(ns, p)
    ELSE IF PeekAt(T, p, 1) = closing THEN Results(ns, Bump(T, p))
    ELSE LET next == One(T, Bump(T, p), kind) IN CommaTail(T, next.p, closing, kind, Append(ns, next.n))

\* an opening bracket, the items, and the closing one
Bracketed(T, p, closing, kind) ==
    LET list == CommaList(T, Bump(T, p), closing, kind)
    IN Results(list.ns, Expect(T, list.p, closing))

---------------------------------------------------------------------------
\* Type annotations (ty_ann.rs)

UsesClause(T, p) ==
    IF Peek(T, p) # "uses" THEN Result(Absent, p)
    ELSE LET names == CommaList(T, Expect(T, Bump(T, p), "{"), "}", "name")
         IN Upto(T, "Uses", "", names.ns, Here(T, p), Expect(T, names.p, "}"))

FunctionType(T, p) ==
    LET params == Bracketed(T, p, ")", "type")
        ret == TypeAnn(T, Expect(T, params.p, "->"))
        uses == UsesClause(T, ret.p)
    IN Upto(T, "FunType", "", <<Node("Types", "", params.ns, 0, 0), ret.n, uses.n>>, Here(T, p), uses.p)

TypeAnnBody(T, p) ==
    CASE At(T, p, {"void"}) -> Leaf(T, p, "Type")
      [] At(T, p, {"("}) -> FunctionType(T, p)
      [] At(T, p, Idents) ->
            LET args == IF PeekAt(T, p, 1) = "[" THEN Bracketed(T, Bump(T, p), "]", "type")
                        ELSE Results(<<>>, Bump(T, p))
            IN Upto(T, "Type", Peek(T, p), args.ns, Here(T, p), args.p)
      [] OTHER -> Result(Absent, Unexpected(p))

NestedType(T, p) ==
    IF p.d >= MaxParseDepth THEN Result(Absent, Unexpected(p))
    ELSE LET r == TypeAnnBody(T, [p EXCEPT !.d = @ + 1]) IN Result(r.n, [r.p EXCEPT !.d = @ - 1])

OptionalType(T, p) ==
    IF Peek(T, p) = ":" THEN TypeAnn(T, Bump(T, p)) ELSE Result(Absent, p)

TypeArgs(T, p) ==
    LET args == IF ExplicitTypeArgs(T, p) THEN Bracketed(T, p, "]", "type") ELSE Results(<<>>, p)
    IN Result(Node("TypeArgs", "", args.ns, 0, 0), args.p)

---------------------------------------------------------------------------
\* Expressions (expr.rs)

\* parse_param, parse_lambda_param and parse_optional_generics' names
NamedTyped(T, p, k) ==
    LET ty == OptionalType(T, PastName(T, p))
    IN Upto(T, k, Name(T, p), <<ty.n>>, Here(T, p), ty.p)

NameNode(T, p) == Upto(T, "Name", Name(T, p), <<>>, Here(T, p), PastName(T, p))

CallArg(T, p) ==
    IF Peek(T, p) = "_" THEN Leaf(T, p, "Placeholder")
    ELSE IF At(T, p, Idents) /\ PeekAt(T, p, 1) = ":"
    THEN LET value == Expr(T, Bump(T, Bump(T, p)))
         IN Result(Node("Named", Peek(T, p), <<value.n>>, value.n.start, value.n.end), value.p)
    ELSE Expr(T, p)

\* parse_call_args: the list's lines are those of its brackets
CallArgs(T, p) ==
    LET args == CommaList(T, Bump(T, p), ")", "arg")
    IN Result(ListNode("Args", args.ns, Here(T, p), Here(T, args.p)), Expect(T, args.p, ")"))

Call(T, callee, p) ==
    LET targs == TypeArgs(T, p)
        args == CallArgs(T, targs.p)
    IN Upto(T, "Call", "", <<callee, targs.n, args.n>>, callee.start, args.p)

\* parse_dot_postfix, at the token after the dot
DotPostfix(T, receiver, p) ==
    CASE At(T, p, Ints) -> Upto(T, "TupleIndex", Peek(T, p), <<receiver>>, receiver.start, Bump(T, p))
      [] At(T, p, Idents) ->
            LET targs == TypeArgs(T, Bump(T, p))
                args == CallArgs(T, targs.p)
                field == IF targs.n.kids = <<>> THEN targs.p ELSE Unexpected(targs.p)
            IN IF Peek(T, targs.p) = "("
               THEN Upto(T, "Method", Peek(T, p), <<receiver, targs.n, args.n>>, receiver.start, args.p)
               ELSE Upto(T, "Field", Peek(T, p), <<receiver>>, receiver.start, field)
      [] OTHER -> Result(receiver, Unexpected(p))

\* a "?" that was just read: not allowed bare inside a par branch
CheckQuestion(p) == IF p.noq THEN Unexpected(p) ELSE p

Postfix(T, r) ==
    LET p == Bump(T, r.p)
        index == Expr(T, p)
    IN CASE At(T, r.p, {"."}) -> Postfix(T, DotPostfix(T, r.n, p))
         [] At(T, r.p, {"("}) \/ ExplicitTypeArgs(T, r.p) -> Postfix(T, Call(T, r.n, r.p))
         [] Peek(T, r.p) = "[" /\ ~ExplicitTypeArgs(T, r.p) ->
               Postfix(T, Upto(T, "Index", "", <<r.n, index.n>>, r.n.start, Expect(T, index.p, "]")))
         [] At(T, r.p, {"?"}) ->
               Postfix(T, Upto(T, "Question", "", <<r.n>>, r.n.start, CheckQuestion(p)))
         [] OTHER -> r

Unary(T, p) ==
    IF ~At(T, p, {"-", "not"}) THEN Postfix(T, Primary(T, p))
    ELSE LET q == Bump(T, p)
             deeper == Unary(T, [q EXCEPT !.d = @ + 1])
             operand == IF p.d >= MaxParseDepth THEN Result(Poison(Here(T, p)), Unexpected(q))
                        ELSE Result(deeper.n, [deeper.p EXCEPT !.d = @ - 1])
         IN Result(Node("Unary", Peek(T, p), <<operand.n>>, Here(T, p), operand.n.end), operand.p)

\* The binary operators from the loosest tier to the tightest.  A comparison
\* is read at most once, the others associate to the left.
Tiers == <<{"or"}, {"and"}, {"==", "!="}, {"<", "<=", ">", ">="}, {"+", "-"}, {"*", "/", "%"}>>
Comparison == 4

Tier(T, p, t) == IF t > Len(Tiers) THEN Unary(T, p) ELSE TierTail(T, Tier(T, p, t + 1), t)

TierTail(T, l, t) ==
    IF ~At(T, l.p, Tiers[t]) THEN l
    ELSE LET r == Tier(T, Bump(T, l.p), t + 1)
             both == Result(Node("Binary", Peek(T, l.p), <<l.n, r.n>>, l.n.start, r.n.end), r.p)
         IN IF t = Comparison THEN both ELSE TierTail(T, both, t)

\* parse_pipe_callee_target: a name and the fields behind it
FieldChain(T, r) ==
    IF Peek(T, r.p) # "." THEN r
    ELSE LET p == Bump(T, r.p)
         IN FieldChain(T, Upto(T, "Field", Name(T, p), <<r.n>>, r.n.start, PastName(T, p)))

PipeStage(T, p) ==
    LET callee == FieldChain(T, Upto(T, "Ident", Name(T, p), <<>>, Here(T, p), PastName(T, p)))
        args == CallArgs(T, callee.p)
        placed == \E i \in DOMAIN args.n.kids : args.n.kids[i].k = "Placeholder"
        called == IF Peek(T, callee.p) # "(" THEN Results(<<callee.n>>, callee.p)
                  ELSE Results(<<callee.n, args.n>>, IF placed THEN args.p ELSE Diag(args.p, "E0503"))
    IN IF Peek(T, called.p) = "?"
       THEN Upto(T, "Stage", "?", called.ns, Here(T, p), CheckQuestion(Bump(T, called.p)))
       ELSE Upto(T, "Stage", "", called.ns, Here(T, p), called.p)

PipeStages(T, p, stages) ==
    IF Peek(T, p) # "|>" THEN Results(stages, p)
    ELSE LET stage == One(T, Bump(T, p), "stage") IN PipeStages(T, stage.p, Append(stages, stage.n))

Pipe(T, p) ==
    LET source == Tier(T, p, 1)
        stages == PipeStages(T, source.p, <<>>)
    IN IF stages.ns = <<>> THEN source
       ELSE Result(Node("Pipe", "", <<source.n>> \o stages.ns, source.n.start, Last(stages.ns).end), stages.p)

\* Mutant: the depth is not taken back.
NestedExprDeeper(T, p) ==
    IF p.d >= MaxParseDepth THEN Result(Poison(Here(T, p)), Unexpected(p))
    ELSE Pipe(T, [p EXCEPT !.d = @ + 1])

NestedExpr(T, p) ==
    IF p.d >= MaxParseDepth THEN Result(Poison(Here(T, p)), Unexpected(p))
    ELSE LET r == Pipe(T, [p EXCEPT !.d = @ + 1]) IN Result(r.n, [r.p EXCEPT !.d = @ - 1])

\* parse_lambda: its body may use "?" again
Lambda(T, p) ==
    LET params == Bracketed(T, p, ")", "lambda_param")
        body == Expr(T, [Expect(T, params.p, "=>") EXCEPT !.noq = FALSE])
    IN Upto(T, "Lambda", "", <<Node("Params", "", params.ns, 0, 0), body.n>>, Here(T, p),
            [body.p EXCEPT !.noq = p.noq])

\* A bracketed literal from its opening bracket at p to the closing one.
ListLit(T, k, ns, p, q, closing) ==
    LET done == Expect(T, q, closing)
    IN Result([ListNode(k, ns, Here(T, p), Here(T, q)) EXCEPT !.end = Before(T, done)], done)

ParenExpr(T, p) ==
    LET first == Expr(T, Bump(T, p))
        rest == CommaList(T, Bump(T, first.p), ")", "expr")
    IN IF CloseFollowedBy(T, p, "=>") THEN Lambda(T, p)
       ELSE IF PeekAt(T, p, 1) = ")" THEN Upto(T, "Tuple", "", <<>>, Here(T, p), Bump(T, Bump(T, p)))
       ELSE IF Peek(T, first.p) = "," THEN ListLit(T, "Tuple", <<first.n>> \o rest.ns, p, rest.p, ")")
       ELSE Upto(T, "Group", "", <<first.n>>, Here(T, p), Expect(T, first.p, ")"))

Entry(T, p) ==
    LET key == Expr(T, p)
        value == Expr(T, Expect(T, key.p, ":"))
    IN Result(Node("Entry", "", <<key.n, value.n>>, key.n.start, value.n.end), value.p)

\* parse_brace_lit: a colon after the first element makes it a dict
BraceLit(T, p) ==
    LET first == Expr(T, Bump(T, p))
        set == CommaTail(T, first.p, "}", "expr", <<first.n>>)
        dict == CommaList(T, Bump(T, p), "}", "entry")
    IN CASE PeekAt(T, p, 1) = "}" -> Upto(T, "Dict", "", <<>>, Here(T, p), Bump(T, Bump(T, p)))
         [] Peek(T, first.p) = ":" /\ PeekAt(T, p, 1) # "}" -> ListLit(T, "Dict", dict.ns, p, dict.p, "}")
         [] OTHER -> ListLit(T, "Set", set.ns, p, set.p, "}")

ParExpr(T, p) ==
    LET q == Bump(T, p)
        kind == IF Peek(T, q) = "[" THEN <<"ParList", "]">> ELSE <<"ParTuple", ")">>
        es == CommaList(T, [Bump(T, q) EXCEPT !.noq = TRUE], kind[2], "expr")
        lit == ListLit(T, kind[1], es.ns, q, [es.p EXCEPT !.noq = p.noq], kind[2])
    IN IF ~At(T, q, {"[", "("}) THEN Result(Poison(Here(T, p)), Unexpected(q))
       ELSE Result([lit.n EXCEPT !.start = Here(T, p), !.multi = FALSE], lit.p)

PrimaryExpr(T, p) ==
    LET list == CommaList(T, Bump(T, p), "]", "expr")
    IN CASE At(T, p, Ints \cup Strings \cup {"true", "false"}) -> Leaf(T, p, "Lit")
         [] At(T, p, Idents \cup {"self"}) -> Leaf(T, p, "Ident")
         [] At(T, p, {"("}) -> ParenExpr(T, p)
         [] At(T, p, {"["}) -> ListLit(T, "List", list.ns, p, list.p, "]")
         [] At(T, p, {"{"}) -> BraceLit(T, p)
         [] At(T, p, {"if"}) -> If(T, p)
         [] At(T, p, {"par"}) -> ParExpr(T, p)
         [] At(T, p, {"match"}) ->
               LET scrutinee == Expr(T, Bump(T, p))
                   arms == IF BlockAhead(T, scrutinee.p)
                           THEN Arms(T, Bump(T, Bump(T, scrutinee.p)), <<>>)
                           ELSE BareArms(T, scrutinee.p, <<>>)
               IN Upto(T, "Match", "", <<scrutinee.n>> \o arms.ns, Here(T, p), arms.p)
         [] OTHER -> Result(Poison(Here(T, p)), Bump(T, Unexpected(p)))

---------------------------------------------------------------------------
\* Patterns (pattern.rs)

LiteralPattern(T, p) ==
    IF Peek(T, p) = "-"
    THEN Upto(T, "NegLit", PeekAt(T, p, 1), <<>>, Here(T, p), Bump(T, Bump(T, p)))
    ELSE Leaf(T, p, "Lit")
AtLiteral(T, p) ==
    \/ At(T, p, Ints \cup Strings \cup {"true", "false"})
    \/ Peek(T, p) = "-" /\ PeekAt(T, p, 1) \in Ints

\* An element of a pattern: no brackets of its own (D-SYN-06).
SubPattern(T, p) ==
    LET q == Bump(T, p)
        node == Node(IF At(T, p, Idents) THEN "Ident" ELSE "Wild", IF At(T, p, Idents) THEN Peek(T, p) ELSE "_",
                     <<>>, Here(T, p), Here(T, p))
    IN CASE AtLiteral(T, p) -> LiteralPattern(T, p)
         [] At(T, p, {"_"}) -> Result(node, q)
         [] At(T, p, Idents) ->
               Result(node, IF At(T, q, {"(", "["}) THEN SkipBrackets(T, Unexpected(q), 0) ELSE q)
         [] At(T, p, {"("}) -> Result(node, SkipBrackets(T, Unexpected(p), 0))
         [] OTHER -> Result(node, Bump(T, Unexpected(p)))

Pattern(T, p) ==
    LET variant == Bracketed(T, Bump(T, p), ")", "sub_pattern")
        tuple == Bracketed(T, p, ")", "sub_pattern")
    IN CASE AtLiteral(T, p) -> LiteralPattern(T, p)
         [] At(T, p, {"_"}) -> Leaf(T, p, "Wild")
         [] At(T, p, {"("}) -> Upto(T, "TuplePat", "", tuple.ns, Here(T, p), tuple.p)
         [] At(T, p, Idents) ->
               IF PeekAt(T, p, 1) = "("
               THEN Upto(T, "VariantPat", Peek(T, p), variant.ns, Here(T, p), variant.p)
               ELSE Leaf(T, p, "Ident")
         [] OTHER -> Result(Node("Wild", "_", <<>>, Here(T, p), Here(T, p)), Bump(T, Unexpected(p)))

---------------------------------------------------------------------------
\* Statements, branches and arms (stmt.rs)

\* the statements up to the Dedent, which is consumed, or the end
Stmts(T, p0, stmts) ==
    LET p == SkipNewlines(T, p0)
        stmt == StmtOf(T, p)
    IN CASE Peek(T, p) = Dedent -> Results(stmts, Bump(T, p))
         [] AtEnd(T, p) -> Results(stmts, p)
         [] OTHER -> Stmts(T, stmt.p, Append(stmts, stmt.n))

IndentedBlock(T, p) ==
    LET q == IF Peek(T, p) = Newline THEN Bump(T, p) ELSE p
        stmts == Stmts(T, Bump(T, q), <<>>)
    IN IF Peek(T, q) # Indent THEN Result(Node("Block", "", <<>>, Here(T, p), Here(T, p)), q)
       ELSE Upto(T, "Block", "", stmts.ns, Here(T, p), stmts.p)

\* parse_branch_block: without an indented block, one expression
Branch(T, p) ==
    LET e == Expr(T, p)
    IN IF BlockAhead(T, p) THEN Block(T, p)
       ELSE Result(Node("Block", "", <<Node("ExprStmt", "", <<e.n>>, e.n.start, e.n.end)>>,
                        e.n.start, e.n.end), e.p)

IfExpr(T, p) ==
    LET cond == Expr(T, Bump(T, p))
        then == Branch(T, cond.p)
        q == Bump(T, then.p)
        missing == Result(Node("Block", "", <<>>, Here(T, then.p), Here(T, then.p)),
                          SkipToSync(T, Unexpected(then.p), 0))
        else == IF Peek(T, then.p) # "else" THEN missing
                ELSE IF Peek(T, q) = "if" THEN If(T, q) ELSE Branch(T, q)
    IN Upto(T, "If", "", <<cond.n, then.n, else.n>>, Here(T, p), else.p)

Arm(T, p) ==
    LET pattern == One(T, p, "pattern")
        q == Expect(T, pattern.p, "=>")
        body == IF BlockAhead(T, q) THEN Block(T, q) ELSE Expr(T, q)
    IN Upto(T, "Arm", "", <<pattern.n, body.n>>, Here(T, p), body.p)

Arms(T, p0, arms) ==
    LET p == SkipNewlines(T, p0)
        arm == Arm(T, p)
    IN CASE Peek(T, p) = Dedent -> Results(arms, Bump(T, p))
         [] AtEnd(T, p) -> Results(arms, p)
         [] OTHER -> Arms(T, arm.p, Append(arms, arm.n))

\* inside brackets there is no layout: an arm ends where a pattern starts
BareArms(T, p, arms) ==
    IF ~AtPattern(T, p) THEN Results(arms, p)
    ELSE LET arm == Arm(T, p) IN BareArms(T, arm.p, Append(arms, arm.n))

VarDecl(T, p) ==
    LET q == Bump(T, p)
        name == IF Peek(T, q) = "_" THEN "_" ELSE Name(T, q)
        ty == OptionalType(T, IF Peek(T, q) = "_" THEN Bump(T, q) ELSE PastName(T, q))
        value == Expr(T, Expect(T, ty.p, "="))
    IN Upto(T, "Var", name, <<ty.n, value.n>>, Here(T, p), value.p)

ReturnStmt(T, p) ==
    LET q == Bump(T, p)
        value == Expr(T, q)
    IN IF At(T, q, {"", Newline, Dedent, Eof}) THEN Upto(T, "Return", "", <<>>, Here(T, p), q)
       ELSE Upto(T, "Return", "", <<value.n>>, Here(T, p), value.p)

\* parse_assignment_or_expr_kind: what follows the first expression, and its
\* shape, decide what the statement is
AssignmentOrExpr(T, p) ==
    LET lhs == Expr(T, p)
        typed == TypeAnn(T, Bump(T, lhs.p))
        value == Expr(T, IF Peek(T, lhs.p) = ":" THEN Expect(T, typed.p, "=") ELSE Bump(T, lhs.p))
        stmt(k, v, kids) == Upto(T, k, v, kids, Here(T, p), value.p)
        annotated == stmt("NameAssign", IF lhs.n.k = "Ident" THEN lhs.n.v ELSE "", <<typed.n, value.n>>)
        bad(r) == Result(r.n, Unexpected(r.p))
    IN CASE Peek(T, lhs.p) = ":" -> IF lhs.n.k = "Ident" THEN annotated ELSE bad(annotated)
         [] Peek(T, lhs.p) = "=" ->
               (CASE lhs.n.k = "Ident" -> stmt("NameAssign", lhs.n.v, <<Absent, value.n>>)
                  [] lhs.n.k = "Field" -> stmt("FieldAssign", lhs.n.v, <<lhs.n.kids[1], value.n>>)
                  [] lhs.n.k = "Index" -> stmt("IndexAssign", "", Append(lhs.n.kids, value.n))
                  [] OTHER -> bad(stmt("ExprStmt", "", <<lhs.n>>)))
         [] OTHER -> Upto(T, "ExprStmt", "", <<lhs.n>>, Here(T, p), lhs.p)

Statement(T, p) ==
    LET discarded == Expr(T, Bump(T, Bump(T, p)))
    IN CASE Peek(T, p) = "var" -> VarDecl(T, p)
         [] Peek(T, p) = "return" -> ReturnStmt(T, p)
         [] Peek(T, p) = "_" /\ PeekAt(T, p, 1) = "=" ->
               Upto(T, "Discard", "", <<discarded.n>>, Here(T, p), discarded.p)
         [] OTHER -> AssignmentOrExpr(T, p)

---------------------------------------------------------------------------
\* Declarations (decl.rs) and the module

Generics(T, p) ==
    LET names == IF Peek(T, p) = "[" THEN Bracketed(T, p, "]", "name") ELSE Results(<<>>, p)
    IN Result(Node("Generics", "", names.ns, 0, 0), names.p)

\* parse_params: self or var self first; the comma after it may be missing
Params(T, p) ==
    LET width == CASE Peek(T, p) = "self" -> 1
                   [] Peek(T, p) = "var" /\ PeekAt(T, p, 1) = "self" -> 2
                   [] OTHER -> 0
        q == [p EXCEPT !.i = @ + width]
        rest == IF width > 0 /\ Peek(T, q) = "," THEN Bump(T, q) ELSE q
        params == IF AtEnd(T, rest) THEN Results(<<>>, rest) ELSE CommaList(T, rest, ")", "param")
    IN Result(Node("Params", <<"", "self", "var self">>[width + 1], params.ns, 0, 0), params.p)

DefOf(T, p) ==
    LET q == Bump(T, p)
        generics == Generics(T, PastName(T, q))
        params == Params(T, Expect(T, generics.p, "("))
        ret == TypeAnn(T, Expect(T, Expect(T, params.p, ")"), ":"))
        uses == UsesClause(T, ret.p)
        body == Block(T, uses.p)
    IN Upto(T, "Def", Name(T, q), <<generics.n, params.n, ret.n, uses.n, body.n>>, Here(T, p), body.p)

Variant(T, p) ==
    LET q == PastName(T, p)
        fields == IF Peek(T, q) = "(" THEN Bracketed(T, q, ")", "variant_field") ELSE Results(<<>>, q)
    IN Upto(T, "Variant", Name(T, p), fields.ns, Here(T, p), fields.p)

VariantField(T, p) ==
    LET named == At(T, p, Idents) /\ PeekAt(T, p, 1) = ":"
        ty == TypeAnn(T, IF named THEN Bump(T, Bump(T, p)) ELSE p)
    IN Result(Node("Param", IF named THEN Peek(T, p) ELSE "", <<ty.n>>, ty.n.start, ty.n.end), ty.p)

RECURSIVE Members(_, _, _, _)
\* the body of a struct or an enum: its members up to the Dedent
Members(T, p0, k, ns) ==
    LET p == SkipNewlines(T, p0)
        member == CASE At(T, p, Idents) -> One(T, p, IF k = "Struct" THEN "param" ELSE "variant")
                    [] At(T, p, {"def"}) /\ k = "Struct" -> FunctionDecl(T, p)
                    [] OTHER -> Result(Absent, SkipToSync(T, Unexpected(p), 0))
    IN CASE Peek(T, p) = Dedent -> Results(ns, Bump(T, p))
         [] AtEnd(T, p) -> Results(ns, p)
         [] OTHER ->
               Members(T, member.p, k, IF member.n = Absent THEN ns ELSE Append(ns, member.n))

\* parse_struct_decl and parse_enum_decl; a struct keeps its fields and its
\* methods apart
TypeDecl(T, p, k) ==
    LET name == Bump(T, p)
        generics == Generics(T, PastName(T, name))
        q == IF Peek(T, generics.p) = Newline THEN Bump(T, generics.p) ELSE generics.p
        body == IF Peek(T, q) = Indent THEN Members(T, Bump(T, q), k, <<>>) ELSE Results(<<>>, q)
        only(kind) == Node("Members", "", SelectSeq(body.ns, LAMBDA n : n.k = kind), 0, 0)
    IN Upto(T, k, Name(T, name),
            IF k = "Struct" THEN <<generics.n, only("Param"), only("Def")>> ELSE <<generics.n, only("Variant")>>,
            Here(T, p), body.p)

Item(T, p) ==
    CASE Peek(T, p) = "def" -> FunctionDecl(T, p)
      [] Peek(T, p) = "struct" -> TypeDecl(T, p, "Struct")
      [] Peek(T, p) = "enum" -> TypeDecl(T, p, "Enum")
      [] OTHER -> StmtOf(T, p)

RECURSIVE Items(_, _, _)
\* parse_items; a Dedent ends the file early
Items(T, p0, items) ==
    LET p == SkipNewlines(T, p0)
        item == One(T, p, "item")
    IN IF AtEnd(T, p) \/ Peek(T, p) = Dedent THEN Results(items, p)
       ELSE Items(T, item.p, Append(items, item.n))

RECURSIVE SkipLine(_, _)
SkipLine(T, p) == IF At(T, p, {"", Newline, Eof}) THEN p ELSE SkipLine(T, Bump(T, p))

\* parse_module: a bare module keyword may come first
Module(T, p) ==
    LET q == Bump(T, p)
        after == IF At(T, q, {Newline, Eof}) THEN q ELSE SkipLine(T, Diag(q, "E5001"))
        directive == Peek(T, p) = "module"
        items == Items(T, IF directive THEN after ELSE p, <<>>)
    IN Result(Node("Module", IF directive THEN "module" ELSE "", items.ns, 0, 0), items.p)

One(T, p, kind) ==
    CASE kind = "expr" -> NestedExpr(T, p)
      [] kind = "arg" -> CallArg(T, p)
      [] kind = "entry" -> Entry(T, p)
      [] kind = "type" -> NestedType(T, p)
      [] kind = "stmt" -> Statement(T, p)
      [] kind = "block" -> IndentedBlock(T, p)
      [] kind = "if" -> IfExpr(T, p)
      [] kind = "primary" -> PrimaryExpr(T, p)
      [] kind = "stage" -> PipeStage(T, p)
      [] kind = "pattern" -> Pattern(T, p)
      [] kind = "def" -> DefOf(T, p)
      [] kind = "item" -> Item(T, p)
      [] kind = "module" -> Module(T, p)
      [] kind = "name" -> NameNode(T, p)
      [] kind \in {"param", "lambda_param"} -> NamedTyped(T, p, "Param")
      [] kind = "sub_pattern" -> SubPattern(T, p)
      [] kind = "variant" -> Variant(T, p)
      [] kind = "variant_field" -> VariantField(T, p)

Parse(T) == One(T, StartState, "module")

=============================================================================
