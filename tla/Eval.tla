-------------------------------- MODULE Eval --------------------------------
(***************************************************************************)
(* The evaluator: src/src/eval/expr.rs, stmt.rs, lvalue.rs, call.rs and    *)
(* env.rs, and of src/src/stdlib the methods that call back into the       *)
(* program.                                                                *)
(*                                                                         *)
(* Evaluating is a function of an expression or a block and an environment *)
(*   scopes  the scopes of the running function, outermost first: name ->  *)
(*           value,                                                        *)
(*   ret     its declared return type, NoTy in a lambda and at top level,  *)
(*   depth   the number of calls it is in,                                 *)
(*   fx      the effects performed so far.                                 *)
(* A result is an outcome of Values with the environment after it.  Values *)
(* are copied, so a caller's variables change only by what is written      *)
(* through its own environment: a callee starts from a scope of its own.   *)
(*                                                                         *)
(* What the checker leaves for the evaluator by node id is decided here    *)
(* from the value: whether a returned value is wrapped, and whether a name *)
(* in a pattern is a unit variant.  Inside a lambda nothing is wrapped.    *)
(* The branches of a par and the calls of par_map run one after another;   *)
(* ParPool has their interleavings.                                        *)
(***************************************************************************)
EXTENDS TypeCheck, Values

CONSTANT MaxCallDepth

R(o, env) == [k |-> o.k, v |-> o.v, env |-> env]
Val(v, env) == R(Done(v), env)
Returned(v, env) == [k |-> "ret", v |-> v, env |-> env]
\* Go on with the value of r; a return, a panic or a dead end goes through (eval_val!)
Then(r, F(_, _)) == IF r.k = "val" THEN F(r.v, r.env) ELSE r

(***************************************************************************)
(* env.rs.                                                                 *)
(***************************************************************************)
BindV(env, x, v) == [env EXCEPT !.scopes[Len(env.scopes)] = (x :> v) @@ @]
Update(env, x, v) ==
    LET i == CHOOSE n \in 1..Len(env.scopes) : /\ x \in DOMAIN env.scopes[n]
                                               /\ \A m \in n + 1..Len(env.scopes) : x \notin DOMAIN env.scopes[m]
    IN  [env EXCEPT !.scopes[i][x] = v]
Push(env) == [env EXCEPT !.scopes = PushScope(@)]
Popped(r) == [r EXCEPT !.env.scopes = Front(@)]
\* visible_bindings: an inner binding hides an outer one
Captured(env) == FoldLeft(LAMBDA merged, scope : scope @@ merged, NoBindings, env.scopes)
\* bind_params
Bound(names, vs) == FoldLeft(LAMBDA scope, i : (names[i] :> vs[i]) @@ scope, NoBindings,
                             [i \in 1..Min({Len(names), Len(vs)}) |-> i])

(***************************************************************************)
(* Types of values.                                                        *)
(***************************************************************************)
FieldsOf(name) == IF name \in DOMAIN BuiltinStruct THEN BuiltinStruct[name] ELSE program.structs[name].fields

\* The field types of a variant of the type t
PayloadTys(t, x) ==
    CASE t.name = "Value" -> IF x = "Null" THEN <<>> ELSE <<ValueParam[x]>>
      [] VariantFieldTys(t, x) = {} -> <<>>
      [] OTHER -> CHOOSE tys \in VariantFieldTys(t, x) : TRUE

RECURSIVE HasType(_, _)
HasType(v, t) ==
    LET Every(vs, u) == \A i \in 1..Len(vs) : HasType(vs[i], u)
        Pairwise(vs, tys) == Len(vs) = Len(tys) /\ \A i \in 1..Len(vs) : HasType(vs[i], tys[i])
    IN  CASE t.k \in {"Unknown", "Var"} -> TRUE
          [] t = TInt -> v.k = "int" /\ Fits(v.n)
          [] t \in {TFloat, TBool, TStr} -> v.k \in {"float", "bool", "str"} /\ LitTy(v) = t
          [] t = TVoid -> v = Void
          [] t.k = "Fn" -> v.k = "closure"
          [] t.k = "List" -> v.k = "list" /\ Every(v.vs, t.a[1])
          [] t.k = "Set" -> v.k = "set" /\ Every(v.vs, t.a[1])
          [] t.k = "Dict" -> v.k = "dict" /\ Every(v.ks, t.a[1]) /\ Every(v.vs, t.a[2])
          [] t.k = "Tuple" -> v.k = "tuple" /\ Pairwise(v.vs, t.a)
          [] v.k \notin {"struct", "enum"} \/ v.name # t.name -> FALSE
          [] v.k = "enum" -> Pairwise(v.vs, PayloadTys(t, v.x))
          [] OTHER -> LET fields == FieldsOf(t.name)
                      IN  Pairwise(v.vs, [i \in 1..Len(fields) |-> FieldTy(t, fields[i].name)])

\* The wrap decided from the declared type alone
WrapReturnedAlways(v, t) ==
    CASE t.k = "Named" /\ t.name = "Result" -> Ok(v)
      [] t.k = "Named" /\ t.name = "Option" -> Some(v)
      [] OTHER -> v

\* The implicit wrap of a returned value: check_return decides it, eval_return applies it
WrapReturned(v, t) ==
    CASE t = NoTy \/ HasType(v, t) -> v
      [] t.k = "Named" /\ t.name = "Result" -> IF HasType(v, t.a[1]) THEN Ok(v) ELSE v
      [] t.k = "Named" /\ t.name = "Option" -> IF HasType(v, t.a[1]) THEN Some(v) ELSE v
      [] OTHER -> v

(***************************************************************************)
(* Places (lvalue.rs): a root variable and the steps into its value.       *)
(***************************************************************************)
FieldStep(x) == [k |-> "field", x |-> x]
TupleStep(n) == [k |-> "tindex", n |-> n]
IndexStep(key) == [k |-> "index", key |-> key]

\* Where a step leads to inside v, 0 for nowhere
At(v, step) ==
    CASE step.k = "field" -> FieldIndex(FieldsOf(v.name), step.x)
      [] step.k = "tindex" -> step.n + 1
      [] v.k = "list" -> IF step.key.n \in 0..Len(v.vs) - 1 THEN step.key.n + 1 ELSE 0
      [] OTHER -> Position(v.ks, step.key)
Leads(v, step) ==
    CASE step.k = "field" -> v.k = "struct" /\ At(v, step) # 0
      [] step.k = "tindex" -> v.k = "tuple" /\ At(v, step) <= Len(v.vs)
      [] OTHER -> \/ v.k = "list" /\ step.key.k = "int"
                  \/ v.k = "dict" /\ IsKey(step.key)
Child(v, step) == CASE ~Leads(v, step) -> Stuck
                    [] At(v, step) = 0 -> Panic(OutOfRange)
                    [] OTHER -> Done(v.vs[At(v, step)])

\* resolve_steps: what is there, and the value with something else there
GetSteps(v, steps) == FoldLeft(LAMBDA o, step : IF o.k = "val" THEN Child(o.v, step) ELSE o, Done(v), steps)
RECURSIVE PutSteps(_, _, _, _)
PutSteps(v, steps, new, insert) ==
    IF steps = <<>> THEN Done(new)
      ELSE LET step == Head(steps)
               child == Child(v, step)
               inner == PutSteps(child.v, Tail(steps), new, insert)
           IN  CASE insert /\ Tail(steps) = <<>> /\ Leads(v, step) /\ v.k = "dict" ->
                      Done(DictPut(v, step.key, new))
                 [] child.k # "val" -> child
                 [] inner.k # "val" -> inner
                 [] OTHER -> Done([v EXCEPT !.vs[At(v, step)] = inner.v])

\* resolve_captured_place, to read and to write
ReadPlace(path, env) == R(GetSteps(Lookup(env.scopes, path.root), path.steps), env)
WritePlace(path, new, insert, result, env) ==
    IF ~Visible(env.scopes, path.root) THEN R(Stuck, env)
      ELSE LET o == PutSteps(Lookup(env.scopes, path.root), path.steps, new, insert)
           IN  IF o.k = "val" THEN Val(result, Update(env, path.root, o.v)) ELSE R(o, env)

(***************************************************************************)
(* Calls that need no closure.                                             *)
(***************************************************************************)
\* eval_flat_builtin_call, invoke_flat_builtin_values
FlatBuiltin(x, vs) ==
    CASE x = "set" -> Done(SetV(<<>>))
      [] x = "int" -> OrStuck(vs[1].k = "float", CheckedInt(vs[1].n))
      [] x = "float" -> OrStuck(vs[1].k = "int", Done(FloatLit(vs[1].n)))
      [] x = "str" -> Text(vs[1])
      [] x \in {"print", "eprint"} -> OrStuck(Text(vs[1]).k = "val", Done(Void))
      [] x = "assert" -> OrStuck(vs[1].k = "bool", IF vs[1].on THEN Done(Void) ELSE Panic(AssertFailed))

\* dispatch_namespace
NamespaceCall(ns, m, vs, env) ==
    R(IF ns = "math" THEN MathCall(m, vs) ELSE OutsideCall(ns, m),
      [env EXCEPT !.fx = @ \cup NamespaceSig(ns, m).eff])

\* eval_ident
IdentValue(x, env) ==
    CASE Visible(env.scopes, x) -> Done(Lookup(env.scopes, x))
      [] x = "None" -> Done(None)
      [] x = "Null" -> Done(EnumV("Value", x, <<>>))
      [] EnumOf(x) # "" -> Done(EnumV(EnumOf(x), x, <<>>))
      [] IsFunction(x) -> Done(ClosureV(x, <<>>, NoExpr, NoBindings))
      [] x \in DOMAIN program.consts -> Done(program.consts[x])
      [] OTHER -> Stuck

\* eval_struct_init: the arguments by the names of the fields
StructOf(x, args, vs) ==
    LET fields == FieldsOf(x)
        Given(i) == SelectLastInSeq(args, LAMBDA arg : arg.x = fields[i].name)
    IN  OrStuck(/\ \A i \in 1..Len(fields) : Given(i) # 0
                /\ \A j \in 1..Len(args) : FieldIndex(fields, args[j].x) # 0,
                Done(StructV(x, [i \in 1..Len(fields) |-> vs[Given(i)]])))

\* classify_mutation
Mutates(v, m) ==
    CASE v.k = "list" -> m \in {"push", "pop", "insert", "remove", "extend", "clear", "shuffle"}
      [] v.k \in {"dict", "set"} -> m \in {"insert", "remove", "clear"}
      [] v.k = "struct" /\ IsStruct(v.name) ->
           /\ m \in DOMAIN program.structs[v.name].methods
           /\ program.structs[v.name].methods[m].self = "var self"
      [] OTHER -> FALSE
CollectionMutate(v, m, vs) ==
    CASE v.k = "list" -> ListMutate(v.vs, m, vs)
      [] v.k = "dict" -> DictMutate(v, m, vs)
      [] OTHER -> SetMutate(v.vs, m, vs)

(***************************************************************************)
(* Patterns: try_match_pattern, match_sub_pattern.                         *)
(***************************************************************************)
Miss == [k |-> "miss", v |-> Void]
NamesUnit(x, v) == v.k = "enum" /\ IsUnitVariant(x, TNamed(v.name, <<>>))

MatchSub(p, v) ==
    CASE p.k = "wild" -> Done(NoBindings)
      [] p.k = "lit" -> OrStuck(p.e.k = v.k, IF p.e = v THEN Done(NoBindings) ELSE Miss)
      [] NamesUnit(p.x, v) -> IF v.x = p.x THEN Done(NoBindings) ELSE Miss
      [] OTHER -> Done(p.x :> v)
MatchAll(ps, vs) ==
    FoldLeft(LAMBDA o, i : LET m == MatchSub(ps[i], vs[i])
                           IN  CASE o.k # "val" -> o
                                 [] m.k # "val" -> m
                                 [] OTHER -> Done(m.v @@ o.v),
             Done(NoBindings), [i \in 1..Min({Len(ps), Len(vs)}) |-> i])
MatchPattern(p, v) ==
    CASE p.k = "pvariant" -> OrStuck(v.k = "enum", IF v.x = p.x THEN MatchAll(p.ps, v.vs) ELSE Miss)
      [] p.k = "ptuple" -> OrStuck(v.k = "tuple", MatchAll(p.ps, v.vs))
      [] OTHER -> MatchSub(p, v)

(***************************************************************************)
(* The evaluator.                                                          *)
(***************************************************************************)
\* Expressions, blocks and statements alike
RECURSIVE Eval(_, _)

\* Arguments and elements from left to right; a placeholder is the piped value
EvalArgs(es, piped, env) ==
    FoldLeft(LAMBDA r, e : Then(r, LAMBDA vs, n :
               Then(IF e = Placeholder THEN Val(piped, n) ELSE Eval(e, n),
                    LAMBDA v, m : Val(Append(vs, v), m))),
             Val(<<>>, env), es)
EvalSeq(es, env) == EvalArgs(es, Void, env)

\* eval_block
EvalBlock(ss, env) == FoldLeft(LAMBDA r, s : Then(r, LAMBDA v, n : Eval(s, n)), Val(Void, env), ss)

\* run_body_with_env, call_lambda: a frame of its own, closed again however
\* the body ends; a return ends here.  The value comes with the frame.
RunBody(body, ret, scope, env) ==
    LET Left(r, caller) ==
          IF r.k \in {"val", "ret"}
            THEN Val([result |-> IF r.k = "val" /\ ret = TVoid THEN Void ELSE r.v,
                      frame |-> r.env.scopes[1]], caller)
            ELSE [r EXCEPT !.env = caller]
        Leave(r) == Left(r, [env EXCEPT !.fx = r.env.fx])
    IN  IF env.depth >= MaxCallDepth
          THEN R(Panic(StackOverflow), env)
          ELSE Leave(Eval(body, [scopes |-> <<scope>>, ret |-> ret, depth |-> env.depth + 1, fx |-> env.fx]))
ResultOf(r) == Then(r, LAMBDA b, n : Val(b.result, n))

\* call_function, call_closure, call_method_with_self; a call in progress is
\* for Eval an expression of its own, made of values
Names(params) == [i \in 1..Len(params) |-> params[i].name]
RunClosure(f, vs, env) ==
    LET decl == program.functions[f.fn]
    IN  CASE f.k # "closure" -> R(Stuck, env)
          [] f.fn # "" -> ResultOf(RunBody(decl.body, decl.ret, Bound(Names(decl.params), vs), env))
          [] OTHER -> ResultOf(RunBody(f.body, NoTy, Bound(f.params, vs) @@ f.captured, env))
RunMethod(self, m, vs, env) ==
    LET decl == program.structs[self.name].methods[m]
    IN  RunBody(decl.body, decl.ret, ("self" :> self) @@ Bound(Names(decl.params), vs), env)
CallClosure(f, vs, env) == Eval([k |-> "calling", f |-> f, vs |-> vs], env)
CallFunction(x, vs, env) == CallClosure(ClosureV(x, <<>>, NoExpr, NoBindings), vs, env)

\* The higher-order methods of lists, dicts and sets (collections.rs)
Predicates == {"filter", "find", "any", "all"}
Iterators == [list |-> Predicates \cup {"map", "each", "flat_map", "sort_by", "par_map", "par_each"},
              dict |-> Predicates \cup {"map", "each"},
              set |-> Predicates \cup {"map", "each"}]
\* The results of f on the items, up to the one that decides find, any or all
IterateOver(items, m, f, env) ==
    LET Decided(rs) == /\ m \in {"find", "any", "all"}
                       /\ rs # <<>>
                       /\ Last(rs) = BoolLit(m # "all")
    IN  FoldLeft(LAMBDA r, v : Then(r, LAMBDA rs, n :
                   IF Decided(rs) THEN r
                     ELSE Then(CallClosure(f, <<v>>, n), LAMBDA u, n1 :
                            R(OrStuck(m \in Predicates => u.k = "bool", Done(Append(rs, u))), n1))),
                 Val(<<>>, env), items)
Iterated(v, items, m, rs) ==
    LET keep == [i \in 1..Len(rs) |-> rs[i].on]
        hit == rs # <<>> /\ Last(rs).on
    IN  CASE m \in {"map", "par_map"} -> Done(ListV(rs))
          [] m \in {"each", "par_each"} -> Done(Void)
          [] m = "filter" -> Done(CASE v.k = "list" -> ListV(Where(items, keep))
                                    [] v.k = "set" -> SetV(Where(items, keep))
                                    [] v.k = "dict" -> DictV(Where(v.ks, keep), Where(v.vs, keep)))
          [] m = "find" -> Done(OptionOf(hit, items[Len(rs)]))
          [] m = "any" -> Done(BoolLit(hit))
          [] m = "all" -> Done(BoolLit(rs = <<>> \/ hit))
          [] m = "flat_map" -> OrStuck(\A i \in 1..Len(rs) : rs[i].k = "list",
                                       Done(ListV(FlattenSeq([i \in 1..Len(rs) |-> rs[i].vs]))))
          [] m = "sort_by" -> OrStuck(\A i \in 1..Len(rs) : rs[i].k = rs[1].k /\ rs[i].k \in {"int", "float", "str"},
                                      Done(ListV(SortedBy(items, rs))))
Collection(v, m, vs, env) ==
    LET items == IF v.k = "dict" THEN Pairs(v) ELSE v.vs
    IN  CASE m = "fold" -> FoldLeft(LAMBDA r, item : Then(r, LAMBDA acc, n : CallClosure(vs[2], <<acc, item>>, n)),
                                    Val(vs[1], env), items)
          [] m \in Iterators[v.k] -> Then(IterateOver(items, m, vs[1], env),
                                          LAMBDA rs, n : R(Iterated(v, items, m, rs), n))
          [] OTHER -> R(CASE v.k = "list" -> ListMethod(v.vs, m, vs)
                          [] v.k = "dict" -> DictMethod(v, m, vs)
                          [] v.k = "set" -> SetMethod(v.vs, m, vs), env)

\* result_method and option_method
VariantCall(v, m, vs, env) ==
    LET Wrapped(x) == Then(CallClosure(vs[1], v.vs, env), LAMBDA u, n : Val(EnumV(v.name, x, <<u>>), n))
    IN  CASE m = "unwrap_or_else" -> IF Good(v) THEN Val(v.vs[1], env) ELSE CallClosure(vs[1], v.vs, env)
          [] m = "map" -> IF Good(v) THEN Wrapped(v.x) ELSE Val(v, env)
          [] m = "map_err" -> IF Good(v) THEN Val(v, env) ELSE Wrapped(v.x)
          [] m = "and_then" -> IF Good(v) THEN CallClosure(vs[1], v.vs, env) ELSE Val(v, env)
          [] m = "filter" -> IF ~Good(v) THEN Val(v, env)
                               ELSE Then(CallClosure(vs[1], v.vs, env), LAMBDA keep, n :
                                      R(OrStuck(keep.k = "bool", Done(IF keep.on THEN v ELSE None)), n))
          [] OTHER -> R(VariantMethod(v, m, vs), env)

\* str_method: these are those of the list of characters
CharMethods == {"map", "filter", "fold", "find_by", "any", "all", "enumerate", "rev", "take", "skip",
                "flat_map", "sort_by", "zip", "chain"}
StrCall(v, m, vs, env) ==
    IF m \notin CharMethods THEN R(StrMethod(v.s, m, vs), env)
      ELSE Collection(Chars(v.s), IF m = "find_by" THEN "find" ELSE m,
                      IF m \in {"zip", "chain"} THEN <<Chars(vs[1].s)>> ELSE vs, env)

\* dispatch_readonly
Readonly(v, m, vs, env) ==
    CASE v.k = "struct" -> IF IsStruct(v.name) /\ m \in DOMAIN program.structs[v.name].methods
                             THEN ResultOf(RunMethod(v, m, vs, env))
                             ELSE R(Stuck, env)
      [] v.k = "enum" /\ v.name \in {"Result", "Option"} -> VariantCall(v, m, vs, env)
      [] v.k = "enum" /\ v.name = "Value" -> R(ValueMethod(v, m, vs), env)
      [] v.k = "str" -> StrCall(v, m, vs, env)
      [] v.k \in {"int", "float"} /\ m = "to_str" -> R(Text(v), env)
      [] v.k \in {"list", "dict", "set"} -> Collection(v, m, vs, env)
      [] OTHER -> R(Stuck, env)

\* capture_place: the index of an outer step before those inside its target
RECURSIVE CapturePlace(_, _)
CapturePlace(e, env) ==
    LET AddStep(r, step) == Then(r, LAMBDA path, n : Val([path EXCEPT !.steps = Append(@, step)], n))
    IN  CASE e.k = "id" -> Val([root |-> e.x, steps |-> <<>>], env)
          [] e.k = "grouping" -> CapturePlace(e.e, env)
          [] e.k = "field" -> AddStep(CapturePlace(e.e, env), FieldStep(e.x))
          [] e.k = "tindex" -> AddStep(CapturePlace(e.e, env), TupleStep(e.n))
          [] e.k = "index" -> Then(Eval(e.i, env), LAMBDA key, n : AddStep(CapturePlace(e.e, n), IndexStep(key)))
          [] OTHER -> R(Stuck, env)

\* rand::shuffle draws unless there is only one order
Drawn(v, m) == IF m = "shuffle" /\ Len(v.vs) >= 2 THEN {"rand"} ELSE {}

\* eval_mutating_method: the receiver is read before the arguments are
\* evaluated and written back, as changed, after them
MutatingMethod(path, v, m, es, env) ==
    Then(EvalSeq(es, env), LAMBDA vs, n :
      IF v.k = "struct"
        THEN Then(RunMethod(v, m, vs, n), LAMBDA b, n1 : WritePlace(path, b.frame["self"], FALSE, b.result, n1))
        ELSE Then(R(CollectionMutate(v, m, vs), [n EXCEPT !.fx = @ \cup Drawn(v, m)]), LAMBDA b, n1 : WritePlace(path, b.after, FALSE, b.result, n1)))

\* eval_method_call
EvalMethod(e, env) ==
    LET es == Exprs(e.args)
        ReadonlyOn(v, n) == Then(EvalSeq(es, n), LAMBDA vs, n1 :
                                   Eval([k |-> "on", v |-> v, x |-> e.x, vs |-> vs], n1))
    IN  CASE IsNamespace(e.e, env.scopes) ->
               Then(EvalSeq(es, env), LAMBDA vs, n : NamespaceCall(e.e.x, e.x, vs, n))
          [] RootIdent(e.e) # "" /\ Visible(env.scopes, RootIdent(e.e)) ->
               Then(CapturePlace(e.e, env), LAMBDA path, n :
                 Then(ReadPlace(path, n), LAMBDA v, n1 :
                   IF Mutates(v, e.x) THEN MutatingMethod(path, v, e.x, es, n1) ELSE ReadonlyOn(v, n1)))
          [] OTHER -> Then(Eval(e.e, env), ReadonlyOn)

\* eval_call of a name that is no variable, in the order of check_call_named
CallByName(x, args, env) ==
    Then(EvalSeq(IF x = "set" THEN <<>> ELSE Exprs(args), env), LAMBDA vs, n :
      CASE x \in Overloaded \cup {"set"} -> R(FlatBuiltin(x, vs), n)
        [] x \in DOMAIN ValueParam -> Val(EnumV("Value", x, vs), n)
        [] x \in DOMAIN BuiltinStruct \/ IsStruct(x) -> R(StructOf(x, args, vs), n)
        [] x \in {"Ok", "Err"} -> Val(EnumV("Result", x, vs), n)
        [] x = "Some" -> Val(EnumV("Option", x, vs), n)
        [] EnumOf(x) # "" -> Val(EnumV(EnumOf(x), x, vs), n)
        [] IsFunction(x) -> CallFunction(x, vs, n)
        [] OTHER -> R(Stuck, n))

\* eval_question
Unwrapped(r) ==
    Then(r, LAMBDA v, n : CASE v.k # "enum" \/ v.x \notin {"Ok", "Some", "Err", "None"} -> R(Stuck, n)
                            [] Good(v) -> Val(v.vs[1], n)
                            [] OTHER -> Returned(v, n))

\* invoke_pipe_call: the builtins go by name, before any variable
InvokePipe(callee, vs, env) ==
    CASE callee.k = "field" /\ IsNamespace(callee.e, env.scopes) -> NamespaceCall(callee.e.x, callee.x, vs, env)
      [] callee.k # "id" -> R(Stuck, env)
      [] callee.x \in Overloaded \cup {"set"} -> R(FlatBuiltin(callee.x, vs), env)
      [] Visible(env.scopes, callee.x) /\ Lookup(env.scopes, callee.x).k = "closure" ->
           CallClosure(Lookup(env.scopes, callee.x), vs, env)
      [] IsFunction(callee.x) -> CallFunction(callee.x, vs, env)
      [] OTHER -> R(Stuck, env)

\* eval_pipe
EvalPipe(e, env) ==
    LET Staged(stage, v, n) ==
          Then(EvalArgs(IF stage.args = <<>> THEN <<Placeholder>> ELSE Exprs(stage.args), v, n),
               LAMBDA vs, n1 : InvokePipe(stage.e, vs, n1))
    IN  FoldLeft(LAMBDA r, stage : Then(r, LAMBDA v, n : IF stage.q THEN Unwrapped(Staged(stage, v, n))
                                                                    ELSE Staged(stage, v, n)),
                 Eval(e.e, env), e.stages)

\* eval_if: an "else if" opens no scope
EvalIf(e, env) ==
    Then(Eval(e.e, env), LAMBDA c, n :
      CASE c.k # "bool" -> R(Stuck, n)
        [] c.on -> Popped(Eval(e.body, Push(n)))
        [] e.els.k = "block" -> Popped(Eval(e.els, Push(n)))
        [] OTHER -> Eval(e.els, n))

\* eval_match: the first arm that matches; there is one if the checker is right
EvalMatch(e, env) ==
    Then(Eval(e.e, env), LAMBDA v, n :
      LET i == SelectInSeq(e.arms, LAMBDA arm : MatchPattern(arm.p, v).k # "miss")
          m == MatchPattern(e.arms[i].p, v)
      IN  IF i = 0 \/ m.k = "stuck" THEN R(Stuck, n)
            ELSE Popped(Eval(e.arms[i].body, [n EXCEPT !.scopes = Append(@, m.v)])))

\* The branches run in the bindings of the par itself
EvalParInPlace(e, env) ==
    Then(EvalSeq(e.es, env), LAMBDA vs, n : Val(IF e.op = "tuple" THEN TupleV(vs) ELSE ListV(vs), n))

\* eval_par_list: every branch has a copy of the visible bindings
EvalPar(e, env) ==
    LET Branch(b, n) ==
          LET r == Eval(b, [n EXCEPT !.scopes = <<Captured(n)>>])
          IN  R(IF r.k = "ret" THEN Stuck ELSE r, [n EXCEPT !.fx = r.env.fx])
        all == FoldLeft(LAMBDA r, b : Then(r, LAMBDA vs, n : Then(Branch(b, n), LAMBDA v, m : Val(Append(vs, v), m))),
                        Val(<<>>, env), e.es)
    IN  Then(all, LAMBDA vs, n : Val(IF e.op = "tuple" THEN TupleV(vs) ELSE ListV(vs), n))

\* eval_dict_lit: keys and values in turn
EvalDict(e, env) ==
    Then(EvalSeq(FlattenSeq(e.es), env), LAMBDA vs, n :
      R(FoldLeft(LAMBDA o, i : IF o.k = "val" THEN OrStuck(IsKey(vs[2 * i - 1]),
                                                           Done(DictPut(o.v, vs[2 * i - 1], vs[2 * i]))) ELSE o,
                 Done(DictV(<<>>, <<>>)), [i \in 1..Len(e.es) |-> i]), n))

\* eval_fstring
JoinTexts(vs) ==
    FoldLeft(LAMBDA o, v : IF o.k = "val" /\ Text(v).k = "val" THEN Done(StringLit(o.v.s \o Text(v).v.s)) ELSE Stuck,
             Done(StringLit(<<>>)), vs)

\* eval_binary_expr
EvalBinary(e, env) ==
    Then(Eval(e.l, env), LAMBDA l, n :
      CASE e.op \notin {"and", "or"} -> Then(Eval(e.r, n), LAMBDA r, m : R(BinaryOp(e.op, l, r), m))
        [] l.k # "bool" -> R(Stuck, n)
        [] l.on = (e.op = "or") -> Val(l, n)
        [] OTHER -> Eval(e.r, n))

\* eval_expr, eval_block and eval_stmt; an assignment evaluates its value, then
\* the indices of its place
Eval(e, env) ==
    LET Step(step) == Then(Eval(e.e, env), LAMBDA v, n : R(Child(v, step), n))
        AssignTo(place, insert) ==
          Then(Eval(e.e, env), LAMBDA v, n :
            Then(CapturePlace(place, n), LAMBDA path, m : WritePlace(path, v, insert, Void, m)))
    IN  CASE e.k \in {"int", "float", "bool", "str"} -> Val(e, env)
          [] e.k = "block" -> EvalBlock(e.ss, env)
          [] e.k = "id" -> R(IdentValue(e.x, env), env)
          [] e.k = "fstr" -> Then(EvalSeq(e.es, env), LAMBDA vs, n : R(JoinTexts(vs), n))
          [] e.k = "list" -> Then(EvalSeq(e.es, env), LAMBDA vs, n : Val(ListV(vs), n))
          [] e.k = "tuple" -> Then(EvalSeq(e.es, env), LAMBDA vs, n : Val(TupleV(vs), n))
          [] e.k = "set" -> Then(EvalSeq(e.es, env), LAMBDA vs, n :
                              R(OrStuck(\A i \in 1..Len(vs) : IsKey(vs[i]), Done(SetV(Keys(vs)))), n))
          [] e.k = "dict" -> EvalDict(e, env)
          [] e.k = "unary" -> Then(Eval(e.e, env), LAMBDA v, n : R(UnaryOp(e.op, v), n))
          [] e.k = "binary" -> EvalBinary(e, env)
          [] e.k = "call" /\ e.e.k = "id" /\ ~Visible(env.scopes, e.e.x) -> CallByName(e.e.x, e.args, env)
          [] e.k = "call" -> Then(Eval(e.e, env), LAMBDA f, n :
                               IF f.k # "closure" THEN R(Stuck, n)
                                 ELSE Then(EvalSeq(Exprs(e.args), n), LAMBDA vs, m : CallClosure(f, vs, m)))
          [] e.k = "method" -> EvalMethod(e, env)
          [] e.k = "field" /\ IsNamespace(e.e, env.scopes) -> Val(FloatLit(3), env)  \* math.PI and math.E
          [] e.k = "field" -> Step(FieldStep(e.x))
          [] e.k = "tindex" -> Step(TupleStep(e.n))
          [] e.k = "index" -> Then(Eval(e.e, env), LAMBDA v, n :
                                Then(Eval(e.i, n), LAMBDA key, m : R(Child(v, IndexStep(key)), m)))
          [] e.k = "question" -> Unwrapped(Eval(e.e, env))
          [] e.k = "pipe" -> EvalPipe(e, env)
          [] e.k = "lambda" -> Val(ClosureV("", [i \in 1..Len(e.params) |-> e.params[i].x], e.body, Captured(env)), env)
          [] e.k = "if" -> EvalIf(e, env)
          [] e.k = "match" -> EvalMatch(e, env)
          [] e.k = "par" -> EvalPar(e, env)
          [] e.k = "grouping" -> Eval(e.e, env)
          [] e.k = "on" -> Readonly(e.v, e.x, e.vs, env)
          [] e.k = "calling" -> RunClosure(e.f, e.vs, env)
          [] e.k = "return" /\ e.e = NoExpr -> Returned(Void, env)
          [] e.k = "return" -> Then(Eval(e.e, env), LAMBDA v, n : Returned(WrapReturned(v, n.ret), n))
          [] e.k = "expr" -> Eval(e.e, env)
          [] e.k = "discard" -> Then(Eval(e.e, env), LAMBDA v, n : Val(Void, n))
          [] e.k = "var" -> Then(Eval(e.e, env), LAMBDA v, n : Val(Void, BindV(n, e.x, v)))
          \* eval_name_assign
          [] e.k = "assign" -> Then(Eval(e.e, env), LAMBDA v, n :
                                 Val(Void, IF Visible(n.scopes, e.x) THEN Update(n, e.x, v) ELSE BindV(n, e.x, v)))
          [] e.k = "fassign" -> AssignTo(Field(e.target, e.x), FALSE)
          [] e.k = "iassign" -> AssignTo(Index(e.target, e.i), TRUE)
=============================================================================
