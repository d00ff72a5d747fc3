------------------------------- MODULE Syntax -------------------------------
(***************************************************************************)
(* The syntax tree the formatter works on: src/src/ast with its lines and  *)
(* comments.  Every node has a kind, the lexeme it carries, its children   *)
(* in the order of the source, its first and last line, and the comments   *)
(* attached to it.  A bracketed list also has the line of its opening      *)
(* bracket and whether it closed on another one.                           *)
(***************************************************************************)
EXTENDS Naturals, SequencesExt

NoComments ==
    [lead |-> <<>>, doc |-> <<>>, trail |-> <<>>, head |-> <<>>,
     attached |-> FALSE, open |-> <<>>, leads |-> <<>>, trails |-> <<>>, closing |-> <<>>]

Node(k, v, kids, start, end) ==
    [k |-> k, v |-> v, kids |-> kids, start |-> start, end |-> end,
     open |-> start, multi |-> FALSE, c |-> NoComments]

\* ListComments and was_multiline of a bracketed list
ListNode(k, kids, open, close) == [Node(k, "", kids, open, close) EXCEPT !.multi = open # close]

Absent == Node("Absent", "", <<>>, 0, 0)

Kid(n, i) == n.kids[i]
LastKid(n) == n.kids[Len(n.kids)]

ListLits == {"List", "Set", "Tuple", "Dict", "ParList", "ParTuple"}
IsBlockShaped(n) == n.k \in {"If", "Match"}
Valued == {"Var", "NameAssign", "FieldAssign", "IndexAssign", "Discard", "ExprStmt"}

RECURSIVE EndLine(_)
\* src/src/ast/end_line.rs: the line of the last token of a node.  The last
\* line of a node that ends in a block is the line after its Dedent, so the
\* recursion goes to the last statement; operators, calls and the other
\* expressions answer with their own last line.
EndLine(n) ==
    CASE n.k \in Valued -> EndLine(LastKid(n))
      [] n.k = "Return" -> IF n.kids = <<>> THEN n.start ELSE EndLine(LastKid(n))
      [] n.k \in {"If", "Lambda", "Group", "Arm", "Def", "Entry", "Named"} -> EndLine(LastKid(n))
      [] n.k = "Match" -> IF Len(n.kids) = 1 THEN n.start ELSE EndLine(LastKid(n))
      [] n.k = "Block" -> IF n.kids = <<>> THEN n.start ELSE EndLine(LastKid(n))
      [] n.k = "Enum" -> IF Kid(n, 2).kids = <<>> THEN n.start ELSE LastKid(Kid(n, 2)).end
      [] n.k = "Struct" ->
            IF Kid(n, 3).kids # <<>> THEN EndLine(LastKid(Kid(n, 3)))
            ELSE IF Kid(n, 2).kids # <<>> THEN LastKid(Kid(n, 2)).end
            ELSE n.start
      [] OTHER -> n.end

\* first_stmt_line and first_arm: where an indented body starts, 0 if nowhere
FirstLine(kids) == IF kids = <<>> THEN 0 ELSE kids[1].start

=============================================================================
