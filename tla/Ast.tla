-------------------------------- MODULE Ast --------------------------------
(***************************************************************************)
(* The syntax tree of src/src/ast: expressions, patterns and statements as *)
(* records whose k names the variant.  A block is an expression of its own *)
(* kind, so that a lambda, a branch or an arm has one body; a type         *)
(* annotation is the type it denotes, NoTy when it is left out.  Spans,    *)
(* node ids and comments are not kept.                                     *)
(***************************************************************************)
EXTENDS Types

NoExpr == [k |-> "none"]
IntLit(n) == [k |-> "int", n |-> n]
FloatLit(n) == [k |-> "float", n |-> n]
BoolLit(b) == [k |-> "bool", on |-> b]
StringLit(s) == [k |-> "str", s |-> s]
FString(es) == [k |-> "fstr", es |-> es]
Id(x) == [k |-> "id", x |-> x]
ListLit(es) == [k |-> "list", es |-> es]
SetLit(es) == [k |-> "set", es |-> es]
TupleLit(es) == [k |-> "tuple", es |-> es]
DictLit(kvs) == [k |-> "dict", es |-> kvs]
Unary(op, e) == [k |-> "unary", op |-> op, e |-> e]
Binary(op, l, r) == [k |-> "binary", op |-> op, l |-> l, r |-> r]
Arg(e) == [x |-> "", e |-> e]
Named(x, e) == [x |-> x, e |-> e]
Args(es) == [i \in 1..Len(es) |-> Arg(es[i])]
Call(callee, args) == [k |-> "call", e |-> callee, targs |-> <<>>, args |-> args]
CallF(x, es) == Call(Id(x), Args(es))
Method(e, m, es) == [k |-> "method", e |-> e, x |-> m, targs |-> <<>>, args |-> Args(es)]
Field(e, x) == [k |-> "field", e |-> e, x |-> x]
TupleIndex(e, n) == [k |-> "tindex", e |-> e, n |-> n]
Index(e, i) == [k |-> "index", e |-> e, i |-> i]
Question(e) == [k |-> "question", e |-> e]
Placeholder == [k |-> "placeholder"]
Stage(callee, args, q) == [e |-> callee, args |-> args, q |-> q]
Pipe(e, stages) == [k |-> "pipe", e |-> e, stages |-> stages]
Param(x, ty) == [x |-> x, ty |-> ty]
Lambda(params, body) == [k |-> "lambda", params |-> params, body |-> body]
Block(ss) == [k |-> "block", ss |-> ss]
\* els is a block, or an if of its own for an "else if"
If(c, t, els) == [k |-> "if", e |-> c, body |-> t, els |-> els]
Arm(p, body) == [p |-> p, body |-> body]
Match(e, arms) == [k |-> "match", e |-> e, arms |-> arms]
Par(kind, es) == [k |-> "par", op |-> kind, es |-> es]
Grouping(e) == [k |-> "grouping", e |-> e]

\* patterns; the elements of a tuple or variant pattern are bare names,
\* literals or wildcards
PWild == [k |-> "wild"]
PName(x) == [k |-> "name", x |-> x]
PLit(e) == [k |-> "lit", e |-> e]
PTuple(ps) == [k |-> "ptuple", ps |-> ps]
PVariant(x, ps) == [k |-> "pvariant", x |-> x, ps |-> ps]

VarDecl(x, ty, e) == [k |-> "var", x |-> x, ty |-> ty, e |-> e]
NameAssign(x, ty, e) == [k |-> "assign", x |-> x, ty |-> ty, e |-> e]
FieldAssign(target, x, e) == [k |-> "fassign", target |-> target, x |-> x, e |-> e]
IndexAssign(target, i, e) == [k |-> "iassign", target |-> target, i |-> i, e |-> e]
Discard(e) == [k |-> "discard", e |-> e]
Return(e) == [k |-> "return", e |-> e]
ExprStmt(e) == [k |-> "expr", e |-> e]

\* declarations: self is "none", "self" or "var self"
FnDecl(gen, params, ret, eff, self, body) ==
    [gen |-> gen, params |-> params, ret |-> ret, eff |-> eff, self |-> self, body |-> body]
StructDecl(gen, fields, methods) == [gen |-> gen, fields |-> fields, methods |-> methods]
Variant(x, tys) == [x |-> x, tys |-> tys]
EnumDecl(gen, variants) == [gen |-> gen, variants |-> variants]

\* The variable at the root of a place, "" when the place has none:
\* root_ident in src/src/types/mutability.rs
RECURSIVE RootIdent(_)
RootIdent(e) ==
    CASE e.k = "id" -> e.x
      [] e.k \in {"field", "tindex", "index", "grouping"} -> RootIdent(e.e)
      [] OTHER -> ""

\* Whether control never leaves an expression or a block normally:
\* expr_diverges, block_diverges and stmt_diverges in src/src/types/check_stmt.rs
RECURSIVE Diverges(_)
Diverges(e) ==
    CASE e.k = "if" -> Diverges(e.body) /\ Diverges(e.els)
      [] e.k = "match" -> \A i \in 1..Len(e.arms) : Diverges(e.arms[i].body)
      [] e.k = "grouping" -> Diverges(e.e)
      [] e.k = "block" -> \E i \in 1..Len(e.ss) :
                             \/ e.ss[i].k = "return"
                             \/ e.ss[i].k = "expr" /\ Diverges(e.ss[i].e)
      [] OTHER -> FALSE

Exprs(args) == [i \in 1..Len(args) |-> args[i].e]

\* What an expression, block or statement is made of, in order; a lambda, whose
\* body runs elsewhere, is made of nothing
Parts(e) ==
    CASE e.k \in {"fstr", "list", "set", "tuple", "par"} -> e.es
      [] e.k = "dict" -> FlattenSeq(e.es)
      [] e.k \in {"unary", "field", "tindex", "grouping", "question", "discard", "expr", "var", "assign",
                  "return"} -> <<e.e>>
      [] e.k = "binary" -> <<e.l, e.r>>
      [] e.k \in {"call", "method"} -> <<e.e>> \o Exprs(e.args)
      [] e.k = "index" -> <<e.e, e.i>>
      [] e.k = "pipe" -> <<e.e>> \o FlattenSeq([i \in 1..Len(e.stages) |->
                                                  <<e.stages[i].e>> \o Exprs(e.stages[i].args)])
      [] e.k = "if" -> <<e.e, e.body, e.els>>
      [] e.k = "match" -> <<e.e>> \o [i \in 1..Len(e.arms) |-> e.arms[i].body]
      [] e.k = "block" -> e.ss
      [] e.k = "fassign" -> <<e.target, e.e>>
      [] e.k = "iassign" -> <<e.target, e.i, e.e>>
      [] OTHER -> <<>>

\* contains_bare_question in src/src/types/check_expr.rs: a ? outside any
\* lambda of its own
RECURSIVE ContainsQuestion(_)
ContainsQuestion(e) ==
    \/ e.k = "question"
    \/ e.k = "pipe" /\ \E i \in 1..Len(e.stages) : e.stages[i].q
    \/ \E i \in 1..Len(Parts(e)) : ContainsQuestion(Parts(e)[i])

\* is_stdlib_hof_method in src/src/effects/mod.rs
StdlibHof == {"map", "filter", "fold", "find", "find_by", "any", "all", "flat_map", "sort_by",
              "par_map", "par_each", "each", "unwrap_or_else", "map_err", "and_then"}

\* compute_hof_forwarding in src/src/effects/mod.rs: a body that calls x, pipes
\* into it or hands it to a method of the library
RECURSIVE Forwards(_, _)
Forwards(e, x) ==
    \/ e.k = "call" /\ e.e = Id(x)
    \/ e.k = "pipe" /\ \E i \in 1..Len(e.stages) : e.stages[i].e = Id(x)
    \/ e.k = "method" /\ e.x \in StdlibHof /\ \E i \in 1..Len(e.args) : e.args[i].e = Id(x)
    \/ \E i \in 1..Len(Parts(e)) : Forwards(Parts(e)[i], x)
Forwarded(f) == {i \in 1..Len(f.params) : f.params[i].ty.k = "Fn" /\ Forwards(f.body, f.params[i].name)}
=============================================================================
