----------------------------- MODULE MCLanguage -----------------------------
(* One program's declarations, and the pools of top-level statements: each  *)
(* exercises one part of the language with the others around it.            *)
EXTENDS Language

I(n) == IntLit(n)
Str(c) == StringLit(<<c>>)
Let(x, e) == NameAssign(x, NoTy, e)
Var(x, e) == VarDecl(x, NoTy, e)
Typed(x, ty, e) == VarDecl(x, ty, e)
Do(e) == ExprStmt(e)
Drop(e) == Discard(e)
Ret(e) == Return(e)
One(e) == Block(<<ExprStmt(e)>>)
P(x, ty) == [name |-> x, ty |-> ty]
Fn(params, ret, ss) == FnDecl(<<>>, params, ret, {}, "none", Block(ss))
Fn0(e) == Lambda(<<>>, e)
Fn1(x, e) == Lambda(<<Param(x, NoTy)>>, e)
Fn2(x, y, e) == Lambda(<<Param(x, NoTy), Param(y, NoTy)>>, e)
Add(l, r) == Binary("+", l, r)
Neg(e) == Unary("-", e)
List1(e) == ListLit(<<e>>)
Bare(x) == Stage(Id(x), <<>>, FALSE)
New(e) == Call(Id("Counter"), <<Named("n", e)>>)
Fail(e) == Call(Id("Error"), <<Named("kind", e), Named("message", Str("b")), Named("cause", Id("None"))>>)
IntFn == TFn(<<TInt>>, {}, TInt)
Counter == TNamed("Counter", <<>>)
Shape == TNamed("Shape", <<>>)

a == Id("a")
b == Id("b")
c == Id("c")
f == Id("f")
g == Id("g")
k == Id("k")
n == Id("n")
o == Id("o")
r == Id("r")
s == Id("s")
t == Id("t")
xs == Id("xs")
ys == Id("ys")
\* The declarations all pools share.
MCProgram ==
  [structs |->
     [Counter |-> StructDecl(<<>>, <<P("n", TInt)>>,
        [get |-> FnDecl(<<>>, <<>>, TInt, {}, "self", Block(<<Ret(Field(Id("self"), "n"))>>)),
         bump |-> FnDecl(<<>>, <<P("by", TInt)>>, TInt, {}, "var self", Block(<<
                    FieldAssign(Id("self"), "n", Add(Field(Id("self"), "n"), Id("by"))),
                    Ret(Field(Id("self"), "n"))>>)),
         via |-> FnDecl(<<>>, <<P("f", IntFn)>>, TInt, {}, "self", Block(<<Ret(CallF("f", <<Field(Id("self"), "n")>>))>>))]),
      Box |-> StructDecl(<<"T">>, <<P("v", TVar("T"))>>,
        [open |-> FnDecl(<<>>, <<>>, TVar("T"), {}, "self", Block(<<Ret(Field(Id("self"), "v"))>>))])],
   enums |->
     [Shape |-> EnumDecl(<<>>, <<Variant("Dot", <<>>), Variant("Disc", <<TInt>>), Variant("Rect", <<TInt, TInt>>)>>)],
   consts |-> [LIMIT |-> IntLit(2), NAMES |-> ListV(<<Str("a"), Str("b")>>)],
   functions |->
     [half |-> Fn(<<P("n", TInt)>>, TResult(TInt, TError), <<
                 Ret(If(Binary("==", Binary("%", n, I(2)), I(0)),
                        One(CallF("Ok", <<Binary("/", n, I(2))>>)), One(CallF("Err", <<Fail(Str("a"))>>))))>>),
      quarter |-> Fn(<<P("n", TInt)>>, TResult(TInt, TError), <<
                    Let("k", Question(CallF("half", <<n>>))), Ret(Question(CallF("half", <<k>>)))>>),
      area |-> Fn(<<P("s", Shape)>>, TInt, <<
                 Ret(Match(s, <<Arm(PName("Dot"), I(0)),
                                Arm(PVariant("Disc", <<PName("r")>>), Binary("*", r, r)),
                                Arm(PVariant("Rect", <<PName("a"), PWild>>), a)>>))>>),
      apply |-> Fn(<<P("f", IntFn), P("n", TInt)>>, TInt, <<Ret(CallF("f", <<n>>))>>),
      down |-> Fn(<<P("n", TInt)>>, TInt, <<
                 Ret(If(Binary("<=", n, I(0)), One(I(0)),
                        One(Add(I(1), CallF("down", <<Binary("-", n, I(1))>>)))))>>),
      clock |-> FnDecl(<<>>, <<>>, TInt, {"time"}, "none", Block(<<Ret(Method(Id("time"), "now", <<>>))>>)),
      grown |-> Fn(<<P("c", Counter)>>, TInt, <<Var("o", c), Drop(Method(o, "bump", <<I(2)>>)), Ret(Field(o, "n"))>>),
      same |-> FnDecl(<<"T">>, <<P("a", TVar("T"))>>, TVar("T"), {}, "none", Block(<<Ret(a)>>))]]

MCPrograms == {MCProgram}

\* Arithmetic to both ends of the integers, and what checked arithmetic makes of it.
Ints == {Var("a", I(3)), Var("b", Binary("-", Neg(I(3)), I(1))), Let("a", Binary("*", a, b)),
         Let("a", Binary("/", a, b)), Let("a", Binary("%", b, a)), Let("b", Add(b, I(1))), Let("a", Neg(b)),
         Let("a", Method(Method(Id("math"), "checked_mod", <<b, a>>), "unwrap", <<>>)),
         Do(CallF("assert", <<Binary("and", Binary("<", b, I(3)), Binary("!=", a, Id("LIMIT")))>>)),
         Let("b", CallF("down", <<a>>))}

\* Lists in lists: places, aliases, and methods that change them or not.
Lists == {Var("xs", ListLit(<<List1(I(1)), List1(I(0))>>)), Let("ys", Index(xs, I(0))),
          Do(Method(xs, "push", <<ys>>)), Drop(Method(Index(xs, I(0)), "pop", <<>>)),
          IndexAssign(xs, I(1), Add(ys, Index(xs, I(0)))), IndexAssign(Index(xs, I(1)), I(0), Method(xs, "len", <<>>)),
          Do(Method(Index(xs, Index(ys, I(0))), "insert", <<I(0), I(2)>>)), Let("k", Method(xs, "remove", <<I(0)>>)),
          Let("xs", Method(xs, "sort_by", <<Fn1("o", Method(o, "len", <<>>))>>)),
          Let("xs", Method(xs, "filter", <<Fn1("o", Method(o, "contains", <<I(1)>>))>>))}

\* Dicts and sets, as values and as what a dict holds.
Dicts == {Var("t", DictLit(<<<<I(1), SetLit(<<I(1), I(2), I(1)>>)>>>>)), Typed("s", TSet(TInt), CallF("set", <<>>)),
          IndexAssign(t, I(2), s), Drop(Method(Index(t, I(1)), "insert", <<Method(s, "len", <<>>)>>)),
          Drop(Method(s, "insert", <<Method(t, "len", <<>>)>>)), Drop(Method(Index(t, I(2)), "remove", <<I(1)>>)),
          Let("k", Method(t, "remove", <<I(1)>>)), Let("s", Method(s, "union", <<Index(t, I(1))>>)),
          Let("s", Method(Method(t, "map", <<Fn1("o", TupleIndex(o, 0))>>), "to_set", <<>>)),
          Let("t", Method(t, "filter", <<Fn1("o", Binary("==", TupleIndex(o, 1), s))>>))}

\* Structs and tuples: methods that change self, fields and elements as places.
Structs == {Var("c", New(I(1))), Var("t", TupleLit(<<c, List1(New(I(0)))>>)), Let("k", Index(TupleIndex(t, 1), I(0))),
            Drop(Method(c, "bump", <<I(2)>>)), Drop(Method(TupleIndex(t, 0), "bump", <<Field(c, "n")>>)),
            FieldAssign(Index(TupleIndex(t, 1), I(0)), "n", Method(c, "get", <<>>)),
            Drop(CallF("grown", <<k>>)), FieldAssign(c, "n", Method(Method(Call(Id("Box"), <<Named("v", k)>>), "open", <<>>), "get", <<>>))}

\* Results, options, enums: matching, unwrapping and leaving with ?.
Variants == {Var("a", I(2)), Let("a", Method(CallF("quarter", <<a>>), "unwrap_or", <<I(3)>>)), Let("a", Question(CallF("half", <<a>>))),
             Typed("s", Shape, Id("Dot")), Let("s", CallF("Rect", <<a, I(2)>>)),
             Let("a", CallF("area", <<s>>)), Var("o", Method(List1(I(2)), "first", <<>>)),
             Let("a", Match(o, <<Arm(PName("None"), Id("LIMIT")), Arm(PVariant("Some", <<PName("n")>>), n)>>)),
             Let("a", Match(CallF("half", <<a>>), <<Arm(PVariant("Err", <<PWild>>), One(I(1))), Arm(PVariant("Ok", <<PName("n")>>), One(Add(n, I(1))))>>)),
             Let("o", Method(o, "filter", <<Fn1("n", Binary("<", n, I(2)))>>)), Drop(Question(o)),
             Ret(CallF("half", <<I(1)>>))}

\* Closures keep what they saw; they run on what they are given.
Closures == {Var("a", I(1)), Let("f", Lambda(<<Param("n", TInt)>>, Add(n, a))), Let("g", Id("down")), Let("a", CallF("apply", <<f, I(2)>>)),
             Let("a", CallF("f", <<a>>)), Var("xs", ListLit(<<I(1), I(2)>>)), Let("xs", Method(xs, "map", <<f>>)),
             Let("t", Par("tuple", <<CallF("f", <<I(1)>>), Method(xs, "pop", <<>>)>>))}

\* Lists under functions: sequential and parallel, by name and by value.
Mapped == {Var("xs", ListLit(<<I(1), I(2)>>)), Let("g", Id("down")), Var("a", Method(xs, "fold", <<I(0), Fn2("n", "k", Binary("-", k, n))>>)),
           Do(Method(xs, "push", <<CallF("apply", <<g, I(3)>>)>>)), Let("xs", Method(xs, "par_map", <<Fn1("n", CallF("g", <<n>>))>>)),
           Let("a", CallF("same", <<I(2)>>)), Let("xs", Method(xs, "flat_map", <<Fn1("n", ListLit(<<a>>))>>)),
           Drop(Method(xs, "pop", <<>>)), Let("xs", Par("list", <<CallF("g", <<a>>), Method(xs, "len", <<>>)>>))}

\* Functions with effects: called, and handed to what calls them, as an
\* argument or through a pipe.
Clocked == Fn1("n", Add(n, CallF("clock", <<>>)))
Effectful ==
  {Var("a", I(1)), Let("c", New(a)), Var("xs", ListLit(<<I(2), a>>)), Let("f", Fn0(CallF("clock", <<>>))), Let("a", CallF("f", <<>>)),
   Let("a", CallF("apply", <<Clocked, a>>)), Drop(Method(c, "via", <<Clocked>>)), Drop(CallF("apply", <<Id("down"), a>>)),
   Let("a", Pipe(a, <<Stage(Id("apply"), <<Arg(Clocked), Arg(Placeholder)>>, FALSE)>>)),
   Let("xs", Method(xs, "map", <<Clocked>>)), Do(Method(xs, "shuffle", <<>>)), Drop(Method(xs, "pop", <<>>)),
   Do(Method(xs, "each", <<Fn1("n", Method(Id("time"), "sleep", <<n>>))>>))}

\* Pipes, texts and effects.
Pipes == {Var("a", I(1)), Let("a", Pipe(a, <<Bare("down"), Stage(Id("apply"), <<Arg(Fn1("n", Add(n, I(2)))), Arg(Placeholder)>>, FALSE)>>)),
          Let("a", Pipe(a, <<Stage(Id("half"), <<>>, TRUE)>>)), Let("r", Method(FString(<<a, Str("a")>>), "parse_int", <<>>)),
          Let("a", Method(r, "unwrap_or", <<CallF("clock", <<>>)>>)), Let("f", Fn0(CallF("clock", <<>>))), Let("a", Add(CallF("f", <<>>), I(2))),
          Do(Pipe(a, <<Bare("str"), Bare("print")>>)),
          Do(Method(Id("NAMES"), "each", <<Fn1("n", Method(Id("env"), "set", <<n, FString(<<a>>)>>))>>)),
          Let("a", If(Method(Method(FString(<<a>>), "find", <<Str("1")>>), "is_some", <<>>), One(Neg(a)), One(CallF("clock", <<>>))))}

\* What the checker must turn down, each next to the bindings that make it wrong.
Refused == {Var("a", I(1)), Let("k", New(I(1))), Let("ys", List1(I(1))), Var("o", CallF("Some", <<I(1)>>)), Let("b", StringLit(<<"b">>)),
            Drop(Method(k, "bump", <<I(1)>>)), FieldAssign(k, "n", I(2)), Do(Method(ys, "push", <<I(2)>>)), IndexAssign(ys, I(0), I(2)),
            Let("k", New(I(2))), Let("a", Add(a, b)), Let("a", b), Let("a", o), Drop(Index(ys, b)), Drop(Add(ys, List1(b))),
            Drop(Match(o, <<Arm(PName("None"), I(0))>>)), Drop(Match(o, <<Arm(PVariant("Some", <<PLit(I(2))>>), I(0)), Arm(PName("None"), I(1))>>)),
            Drop(If(a, One(I(1)), One(I(2)))), Drop(CallF("apply", <<Id("area"), a>>)), Drop(CallF("f", <<a>>)), Drop(Method(ys, "join", <<b>>)),
            Drop(Question(a)), Drop(Field(k, "m")), Drop(CallF("print", <<ys>>)), Drop(SetLit(<<CallF("float", <<a>>)>>)),
            Drop(Method(ys, "map", <<Fn1("n", Add(n, b))>>)), Drop(Pipe(b, <<Bare("down")>>)), Drop(ListLit(<<a, b>>)), Do(CallF("half", <<a>>))}

\* Every method of the library on a value of each type it has.
Calls(e, ms, es) == {Drop(Method(e, m, es)) : m \in ms}
Positive == Fn1("n", Binary(">", n, I(1)))
Negated == Fn1("n", Neg(n))
Show == Fn1("n", CallF("print", <<n>>))
Sum2 == Fn2("n", "k", Binary("-", k, n))
ListCalls ==
  {Let("xs", ListLit(<<I(2), I(1)>>)), Var("ys", ListLit(<<Str("b"), Str("a")>>)), Do(Method(ys, "shuffle", <<>>)),
   Do(Method(ys, "extend", <<List1(Str("a"))>>)), Do(Method(ys, "clear", <<>>)), Drop(Method(ys, "join", <<Str("a")>>)),
   Drop(Method(xs, "slice", <<I(0), I(1)>>)), Drop(Method(xs, "fold", <<I(0), Sum2>>)),
   Drop(Method(xs, "flat_map", <<Fn1("n", List1(n))>>)), Drop(Index(ys, I(1)))}
  \cup Calls(xs, {"len", "count", "is_empty", "first", "last", "rev", "sum", "enumerate", "to_set"}, <<>>)
  \cup Calls(xs, {"take", "skip", "get", "contains"}, <<I(1)>>) \cup Calls(xs, {"chain", "zip"}, <<xs>>)
  \cup Calls(xs, {"filter", "find", "any", "all"}, <<Positive>>)
  \cup Calls(xs, {"map", "sort_by", "par_map"}, <<Negated>>) \cup Calls(xs, {"each", "par_each"}, <<Show>>)

KeyedCalls ==
  LET first == Fn1("n", Binary("==", TupleIndex(n, 0), I(1)))
  IN  {Var("s", SetLit(<<I(1), I(2)>>)), Let("t", DictLit(<<<<I(1), Str("a")>>, <<I(2), Str("b")>>>>)),
       Drop(Method(s, "map", <<Negated>>)), Do(Method(s, "each", <<Show>>)), Do(Method(s, "clear", <<>>)),
       Drop(Method(s, "insert", <<Neg(I(1))>>)), Drop(Method(s, "fold", <<I(0), Sum2>>)),
       Drop(Method(t, "map", <<Fn1("n", TupleIndex(n, 1))>>)), Do(Method(t, "each", <<Fn1("n", CallF("print", <<TupleIndex(n, 1)>>))>>)),
       Drop(Method(t, "fold", <<I(0), Fn2("k", "n", Add(k, TupleIndex(n, 0)))>>)), Drop(Index(t, I(0)))}
      \cup Calls(s, {"len", "count", "is_empty", "to_list", "sum"}, <<>>) \cup Calls(s, {"contains"}, <<I(1)>>)
      \cup Calls(s, {"union", "intersection", "difference"}, <<SetLit(<<I(2), I(3)>>)>>)
      \cup Calls(s, {"filter", "any", "all", "find"}, <<Positive>>)
      \cup Calls(t, {"keys", "values", "entries", "len", "is_empty"}, <<>>) \cup Calls(t, {"get", "contains_key"}, <<I(2)>>)
      \cup Calls(t, {"filter", "any", "all", "find"}, <<first>>)

TextCalls ==
  LET isA == Fn1("c", Binary("==", c, Str("a")))
      digits == StringLit(<<"-", "2">>)
  IN  {Let("s", StringLit(<<"a", "b">>)), Let("s", digits), Drop(Method(s, "slice", <<I(0), I(1)>>)),
       Drop(Method(s, "fold", <<I(0), Fn2("n", "c", Add(n, Method(c, "len", <<>>)))>>)),
       Drop(Method(s, "map", <<Fn1("c", Add(c, c))>>)), Drop(Method(s, "flat_map", <<Fn1("c", List1(c))>>)),
       Drop(Method(s, "sort_by", <<Fn1("c", c)>>)),
       Drop(CallF("int", <<CallF("float", <<I(2)>>)>>)), Drop(Method(CallF("float", <<I(2)>>), "to_str", <<>>))}
      \cup Calls(s, {"len", "count", "is_empty", "to_str", "chars", "parse_int", "rev", "enumerate"}, <<>>)
      \cup Calls(s, {"get", "repeat", "take", "skip"}, <<I(1)>>)
      \cup Calls(s, {"contains", "starts_with", "ends_with", "find", "zip", "chain"}, <<Str("b")>>)
      \cup Calls(s, {"filter", "find_by", "any", "all"}, <<isA>>)

VariantCalls ==
  LET opt == Fn1("n", CallF("Some", <<Neg(n)>>))
      res == Fn1("n", CallF("half", <<n>>))
  IN  {Let("r", CallF("half", <<I(2)>>)), Let("r", CallF("half", <<I(1)>>)), Let("o", CallF("Some", <<I(2)>>)),
       Typed("o", TOption(TInt), Id("None")), Let("t", CallF("Int", <<I(1)>>)), Let("t", CallF("Dict", <<DictLit(<<<<Str("a"), CallF("Bool", <<BoolLit(TRUE)>>)>>>>)>>)),
       Let("t", CallF("List", <<List1(Id("Null"))>>)), Drop(Method(o, "filter", <<Positive>>)), Drop(Method(o, "ok_or", <<Str("a")>>)),
       Drop(Method(o, "unwrap_or_else", <<Fn0(I(1))>>)), Drop(Method(r, "unwrap_or_else", <<Fn1("c", Method(Field(c, "kind"), "len", <<>>))>>)),
       Drop(Method(r, "map_err", <<Fn1("c", Field(c, "kind"))>>)), Drop(Method(o, "and_then", <<opt>>)), Drop(Method(r, "and_then", <<res>>)),
       Drop(Method(t, "get", <<Str("a")>>)), Drop(Method(t, "at", <<I(0)>>))}
      \cup Calls(o, {"is_some", "is_none", "unwrap"}, <<>>) \cup Calls(r, {"is_ok", "is_err", "ok", "err", "unwrap"}, <<>>)
      \cup UNION {Calls(e, {"unwrap_or"}, <<I(0)>>) \cup Calls(e, {"map"}, <<Negated>>) : e \in {o, r}}
      \cup Calls(t, {"as_int", "as_float", "as_str", "as_bool", "as_list", "as_dict", "is_null"}, <<>>)

OutsideCalls ==
  LET In(ns, m, es) == Drop(Method(Id(ns), m, es))
      Num(x) == CallF("float", <<I(x)>>)
  IN  {Var("a", I(1)), Let("a", Method(Id("math"), "abs_int", <<Binary("-", Neg(a), I(2))>>)), In("fs", "read", <<Str("a")>>),
       In("fs", "write", <<Str("a"), Str("b")>>), In("fs", "exists", <<Str("a")>>), In("http", "get", <<Str("a")>>),
       In("env", "get", <<Str("a")>>), In("proc", "run", <<Str("a"), List1(Str("b"))>>), In("time", "sleep", <<a>>),
       In("rand", "int", <<I(0), a>>), In("rand", "bool", <<>>), In("math", "abs_float", <<Num(2)>>)}
      \cup {In("math", m, <<Neg(a), I(0)>>) : m \in {"checked_add", "checked_sub", "checked_mul", "checked_div", "checked_mod", "min_int", "max_int"}}
      \cup {In("math", m, <<Num(1), Num(2)>>) : m \in {"min_float", "max_float"}}
      \cup {In("math", m, <<Num(1)>>) : m \in {"floor", "ceil", "round"}}

MCPools == <<Ints, Lists, Dicts, Structs, Variants, Closures, Mapped, Pipes, Effectful, Refused, ListCalls, KeyedCalls, TextCalls, VariantCalls, OutsideCalls>>

\* Programs the checker accepts and the evaluator cannot run.
MCHoles ==
  <<{Var("t", TupleLit(<<Method(ListLit(<<I(1)>>), "first", <<>>), I(2)>>)),
     Drop(Match(t, <<Arm(PTuple(<<PName("None"), PName("n")>>), n)>>))},
    {Do(Method(Id("NAMES"), "push", <<Str("a")>>))},
    {Let("f", Fn1("n", Add(n, I(1)))), Drop(CallF("f", <<Str("a")>>))},
    {Let("print", Lambda(<<Param("n", TInt)>>, n)), Let("k", Pipe(I(2), <<Bare("print")>>)), Drop(Add(k, I(1)))},
    {Ret(I(2))},
    {Drop(Add(CallF("forged", <<Str("a")>>), I(1)))},
    {IndexAssign(Id("NAMES"), I(0), Str("b"))}>>

MCHolePrograms == {[MCProgram EXCEPT !.functions =
                     [forged |-> FnDecl(<<"T">>, <<P("a", TVar("T"))>>, TInt, {}, "none", Block(<<Ret(a)>>))] @@ @]}
=============================================================================
