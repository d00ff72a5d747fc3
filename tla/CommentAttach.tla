--------------------------- MODULE CommentAttach ---------------------------
(***************************************************************************)
(* src/src/parser/comment_attach.rs: the comments the lexer put aside are  *)
(* given to the nodes of the tree by their lines.  The queue q holds those *)
(* not yet given, in the order of their lines; the nodes are visited in    *)
(* the order of the source, and every operator returns the node it         *)
(* attached to (ns for several) with the queue after it.                   *)
(***************************************************************************)
EXTENDS Syntax

Attached(n, q) == [n |-> n, q |-> q]

\* Mutant: the blank after the mark stays in the text.
StripSpaceNever(text) == text

\* strip_one_leading_space, to_leading_comments
StripSpace(text) == IF text # <<>> /\ text[1] = " " THEN Tail(text) ELSE text

Leading(cs) == [i \in DOMAIN cs |-> [text |-> StripSpace(cs[i].text), line |-> cs[i].line]]

\* take_leading_upto
LeadUpto(q, line) == SelectSeq(q, LAMBDA c : c.line < line)
PastLead(q, line) == SelectSeq(q, LAMBDA c : c.line >= line)

\* take_between
Between(q, after, before) == SelectSeq(q, LAMBDA c : after < c.line /\ c.line < before)
PastBetween(q, after, before) == SelectSeq(q, LAMBDA c : ~(after < c.line /\ c.line < before))

\* take_trailing_within: the first trailing comment on those lines, as a
\* sequence of at most one text
TrailingAt(q, from, to) ==
    SelectInSeq(q, LAMBDA c : c.trailing /\ from <= c.line /\ c.line <= to)
Trailing(q, from, to) ==
    LET i == TrailingAt(q, from, to) IN IF i = 0 THEN <<>> ELSE <<StripSpace(q[i].text)>>
PastTrailing(q, from, to) ==
    LET i == TrailingAt(q, from, to) IN IF i = 0 THEN q ELSE RemoveAt(q, i)

\* take_header: the lines from the header's to the one before the body's
\* first; body is 0 when there is no body
Header(q, from, body) == IF body > from THEN Trailing(q, from, body - 1) ELSE <<>>
PastHeader(q, from, body) == IF body > from THEN PastTrailing(q, from, body - 1) ELSE q

---------------------------------------------------------------------------
\* Doc comments

IsSpace(x) == x = " "
Trimmed(text) ==
    LET first == SelectInSeq(text, LAMBDA x : ~IsSpace(x))
    IN IF first = 0 THEN <<>> ELSE SubSeq(text, first, Len(text))
FenceMark == "fence"  \* three backquotes, and the tag after them
IsFence(text) == Trimmed(text) # <<>> /\ Trimmed(text)[1] = FenceMark

\* where the run of "##" lines that ends the leading comments starts
DocRunStart(cs) ==
    CHOOSE i \in 1..(Len(cs) + 1) :
        /\ \A j \in i..Len(cs) : cs[j].doc /\ (j > i => cs[j].line = cs[j - 1].line + 1)
        /\ i > 1 => \/ ~cs[i - 1].doc
                    \/ i <= Len(cs) /\ cs[i].line # cs[i - 1].line + 1

\* build_doc_comment: prose lines and fences in order.  A fence that is never
\* closed is dropped.
DocLine(acc, c) ==
    LET text == StripSpace(c.text)
    IN CASE acc.open # <<>> /\ IsFence(text) ->
              [parts |-> Append(acc.parts, [fence |-> TRUE, tag |-> acc.open[1], lines |-> acc.body]),
               open |-> <<>>, body |-> <<>>]
         [] acc.open # <<>> /\ ~IsFence(text) -> [acc EXCEPT !.body = Append(@, text)]
         [] acc.open = <<>> /\ IsFence(text) -> [acc EXCEPT !.open = <<Tail(Trimmed(text))>>, !.body = <<>>]
         [] OTHER -> [acc EXCEPT !.parts = Append(@, [fence |-> FALSE, tag |-> <<>>, lines |-> <<text>>])]

DocComment(cs) ==
    IF cs = <<>> THEN <<>>
    ELSE <<[parts |-> FoldLeft(DocLine, [parts |-> <<>>, open |-> <<>>, body |-> <<>>], cs).parts,
            start |-> cs[1].line, end |-> Last(cs).line]>>

\* split_doc_run: a node that can be documented takes its leading comments
WithLeading(n, cs) ==
    LET i == DocRunStart(cs)
    IN [n EXCEPT !.c.lead = Leading(SubSeq(cs, 1, i - 1)), !.c.doc = DocComment(SubSeq(cs, i, Len(cs)))]

---------------------------------------------------------------------------
RECURSIVE Attach(_, _, _)

\* The nodes ns one after the other; close is the last line of their parent.
AttachAll(ns, close, q) ==
    FoldLeft(LAMBDA acc, n : LET r == Attach(n, close, acc.q)
                             IN [ns |-> Append(acc.ns, r.n), q |-> r.q],
             [ns |-> <<>>, q |-> q], ns)

Within(n, q) == LET r == AttachAll(n.kids, n.end, q) IN Attached([n EXCEPT !.kids = r.ns], r.q)

\* A body whose header comment is on the lines from its header's.
AttachBlock(n, from, q) ==
    LET first == FirstLine(n.kids)
    IN Within([n EXCEPT !.c.head = Header(q, from, first)], PastHeader(q, from, first))

\* attach_list, one element: the standalone comments before it, the one
\* behind it, and what is inside it; bound is where the next one starts.
ListItem(acc, item, bound) ==
    LET q1 == PastBetween(acc.q, acc.prev, item.start)
        end == EndLine(item)
        q2 == IF end < bound THEN PastTrailing(q1, end, end) ELSE q1
        inside == Attach(item, 0, q2)
    IN [ns |-> Append(acc.ns, inside.n), q |-> inside.q, prev |-> end,
        leads |-> Append(acc.leads, Leading(Between(acc.q, acc.prev, item.start))),
        trails |-> Append(acc.trails, IF end < bound THEN Trailing(q1, end, end) ELSE <<>>)]

\* attach_list: a list that closes on the line close
AttachList(n, close, q) ==
    LET bound(i) == IF i = Len(n.kids) THEN close ELSE n.kids[i + 1].start
        opened == bound(0) > n.open
        r == FoldLeft(LAMBDA acc, i : ListItem(acc, n.kids[i], bound(i)),
                      [ns |-> <<>>, q |-> IF opened THEN PastTrailing(q, n.open, n.open) ELSE q,
                       prev |-> n.open, leads |-> <<>>, trails |-> <<>>],
                      [i \in DOMAIN n.kids |-> i])
        comments == [n.c EXCEPT !.open = IF opened THEN Trailing(q, n.open, n.open) ELSE <<>>,
                                !.leads = r.leads, !.trails = r.trails,
                                !.closing = Leading(Between(r.q, r.prev, close))]
        some == \/ comments.open # <<>> \/ comments.closing # <<>>
                \/ \E i \in DOMAIN n.kids : r.leads[i] # <<>> \/ r.trails[i] # <<>>
    IN Attached([n EXCEPT !.kids = r.ns, !.c = IF some THEN [comments EXCEPT !.attached = TRUE] ELSE @],
                PastBetween(r.q, r.prev, close))

\* attach_to_stmt: leading, then trailing on the true last line, then inside
AttachStmt(n, q) ==
    LET q1 == PastLead(q, n.start)
        end == EndLine(n)
    IN Within([WithLeading(n, LeadUpto(q, n.start)) EXCEPT !.c.trail = Trailing(q1, end, end)],
              PastTrailing(q1, end, end))

AttachLambda(n, q) ==
    LET body == Kid(n, 2)
        from == IF IsBlockShaped(body) THEN body.start ELSE 0
    IN Within([n EXCEPT !.c.head = Header(q, n.start, from)], PastHeader(q, n.start, from))

AttachMatch(n, q) ==
    LET scrutinee == Attach(Kid(n, 1), n.end, q)
        from == EndLine(Kid(n, 1))
        arms == Tail(n.kids)
        r == AttachAll(arms, n.end, PastHeader(scrutinee.q, from, FirstLine(arms)))
    IN Attached([n EXCEPT !.kids = <<scrutinee.n>> \o r.ns,
                          !.c.head = Header(scrutinee.q, from, FirstLine(arms))], r.q)

\* attach_within_if: the header of an else block is the first trailing
\* comment after the then block
AttachIf(n, q) ==
    LET cond == Attach(Kid(n, 1), n.end, q)
        then == AttachBlock(Kid(n, 2), EndLine(Kid(n, 1)), cond.q)
        else == IF Kid(n, 3).k = "If" THEN Attach(Kid(n, 3), n.end, then.q)
                ELSE AttachBlock(Kid(n, 3), EndLine(Kid(n, 2)) + 1, then.q)
    IN Attached([n EXCEPT !.kids = <<cond.n, then.n, else.n>>], else.q)

AttachArm(n, q) ==
    LET q1 == PastLead(q, n.start)
        end == EndLine(n)
        q2 == PastTrailing(q1, end, end)
        body == IF Kid(n, 2).k = "Block" THEN AttachBlock(Kid(n, 2), n.start, q2)
                ELSE Attach(Kid(n, 2), n.end, q2)
    IN Attached([n EXCEPT !.kids[2] = body.n, !.c.lead = Leading(LeadUpto(q, n.start)),
                          !.c.trail = Trailing(q1, end, end)], body.q)

\* a def: the comment on the last line of its signature heads its body
AttachDef(n, q) ==
    LET body == AttachBlock(Kid(n, 5), Kid(n, 3).end, PastLead(q, n.start))
    IN Attached([WithLeading(n, LeadUpto(q, n.start)) EXCEPT !.kids[5] = body.n], body.q)

\* a field or a variant: leading comments and the one behind it
AttachMember(n, q) ==
    LET q1 == PastLead(q, n.start)
    IN Attached([n EXCEPT !.c.lead = Leading(LeadUpto(q, n.start)), !.c.trail = Trailing(q1, n.end, n.end)],
                PastTrailing(q1, n.end, n.end))

AttachTypeDecl(n, q) ==
    LET q1 == PastLead(q, n.start)
        r == AttachAll(n.kids, n.end, PastTrailing(q1, n.start, n.start))
    IN Attached([WithLeading(n, LeadUpto(q, n.start))
                    EXCEPT !.kids = r.ns, !.c.head = Trailing(q1, n.start, n.start)], r.q)

\* attach_to_decl, attach_to_stmt, attach_to_match_arms and attach_within_expr
Attach(n, close, q) ==
    CASE n.k \in ListLits -> AttachList(n, n.end, q)
      [] n.k = "Args" -> AttachList(n, close, q)
      [] n.k = "Lambda" -> AttachLambda(n, q)
      [] n.k = "If" -> AttachIf(n, q)
      [] n.k = "Match" -> AttachMatch(n, q)
      [] n.k = "Arm" -> AttachArm(n, q)
      [] n.k = "Def" -> AttachDef(n, q)
      [] n.k \in {"Struct", "Enum"} -> AttachTypeDecl(n, q)
      [] n.k = "Members" ->
            FoldLeft(LAMBDA acc, m : LET r == IF m.k = "Def" THEN AttachDef(m, acc.q) ELSE AttachMember(m, acc.q)
                                     IN Attached([acc.n EXCEPT !.kids = Append(@, r.n)], r.q),
                     Attached([n EXCEPT !.kids = <<>>], q), n.kids)
      [] n.k \in Valued \cup {"Return"} -> AttachStmt(n, q)
      [] OTHER -> Within(n, q)

\* Mutant: what is left over is forgotten.
ClosedWithoutRest(r) == r.n

\* attach_comments: what is left over closes the module
Closed(r) == [r.n EXCEPT !.c.closing = Leading(r.q)]

AttachComments(module, comments) == Closed(Attach(module, 0, comments))

=============================================================================
