----------------------------- MODULE TypeCheck -----------------------------
(***************************************************************************)
(* The type checker: src/src/types/check_expr.rs, check_stmt.rs,           *)
(* mutability.rs, exhaustiveness.rs and env.rs.                            *)
(*                                                                         *)
(* Checking is a function of an expression, the type its context expects   *)
(* (NoTy: none), the return type of the enclosing function or lambda (NoTy *)
(* at top level, or when it is not known) and the visible bindings G, a    *)
(* sequence of scopes from the outermost to the innermost.  An expression  *)
(* leaves G as it was: the scopes opened for branches, arms and lambdas    *)
(* are closed again.  The result is                                        *)
(*   ty    the type, Unknown after a diagnostic,                           *)
(*   errs  the codes of the diagnostics,                                   *)
(*   eff   the effects performed, by the checker's own estimate: what the  *)
(*         type of a lambda says of its body,                              *)
(*   use   the effects of the calls in it, by the rules of the effect      *)
(*         phase (src/src/effects/mod.rs), which reads the types recorded  *)
(*         here and walks every call outside a lambda.                     *)
(* A program with no diagnostics is accepted.  Spans, messages and the     *)
(* number of diagnostics of one code are not kept.                         *)
(***************************************************************************)
EXTENDS Ast, Signatures

VARIABLE program  \* the declarations: structs, enums, functions, consts (name -> value)

Checked(ty, errs, eff) == [ty |-> ty, errs |-> errs, eff |-> eff, use |-> {}]
Mismatch == "BranchTypeMismatch"
If1(code, wrong) == IF wrong THEN {code} ELSE {}
MismatchUnless(fits) == If1(Mismatch, ~fits)

Errs(cs) == UNION {cs[i].errs : i \in 1..Len(cs)}
Effs(cs) == UNION {cs[i].eff : i \in 1..Len(cs)}
Uses(cs) == UNION {cs[i].use : i \in 1..Len(cs)}
Tys(cs) == [i \in 1..Len(cs) |-> cs[i].ty]
FnEffects(t) == IF t.k = "Fn" THEN t.eff ELSE {}
\* The declared effects of f, and those its arguments bring
DeclaredEffects(f, tys) ==
    f.eff \cup UNION {FnEffects(tys[i]) : i \in Forwarded(f) \cap (1..Len(tys))}
\* Add what checking the parts cs found to a result.
Plus(c, cs) == [c EXCEPT !.errs = @ \cup Errs(cs), !.eff = @ \cup Effs(cs), !.use = @ \cup Uses(cs)]
Using(c, effects) == [c EXCEPT !.use = @ \cup effects]

(***************************************************************************)
(* Bindings (env.rs).                                                      *)
(***************************************************************************)
Binding(ty, mutable) == [ty |-> ty, mutable |-> mutable]
Visible(G, x) == \E i \in 1..Len(G) : x \in DOMAIN G[i]
Lookup(G, x) == LET i == CHOOSE n \in 1..Len(G) : /\ x \in DOMAIN G[n]
                                                    /\ \A m \in n + 1..Len(G) : x \notin DOMAIN G[m]
                  IN  G[i][x]
BindTy(G, x, ty, mutable) == [G EXCEPT ![Len(G)] = (x :> Binding(ty, mutable)) @@ @]
NoBindings == [x \in {} |-> 0]
PushScope(G) == Append(G, NoBindings)

\* Any place with a root will do
CheckMutablePlaceRoot(target, G) == If1("ImmutableMutation", RootIdent(target) = "")

\* mutability.rs check_mutable_place: the root of the place must be a var
\* binding; a root that is no local binding is left alone.
CheckMutablePlace(target, G) ==
    LET root == RootIdent(target)
    IN  If1("ImmutableMutation", \/ root = ""
                                 \/ Visible(G, root) /\ ~Lookup(G, root).mutable)

(***************************************************************************)
(* Declarations.                                                           *)
(***************************************************************************)
FnTy(f) == TFn([i \in 1..Len(f.params) |-> f.params[i].ty], f.eff, f.ret)
Subst(gen, args) == [g \in {gen[i] : i \in 1..Len(gen)} |->
                       args[CHOOSE i \in 1..Len(gen) : gen[i] = g]]

IsStruct(x) == x \in DOMAIN program.structs
IsFunction(x) == x \in DOMAIN program.functions
\* The enum that declares a variant, "" when none does
EnumOf(x) ==
    LET Declares(en) == \E i \in 1..Len(program.enums[en].variants) : program.enums[en].variants[i].x = x
    IN  IF \E en \in DOMAIN program.enums : Declares(en)
          THEN CHOOSE en \in DOMAIN program.enums : Declares(en)
          ELSE ""
VariantOf(en, x) == LET vs == program.enums[en].variants
                    IN  vs[CHOOSE i \in 1..Len(vs) : vs[i].x = x]

\* Position of a field, 0 when it is not declared
FieldIndex(fields, x) ==
    IF \E i \in 1..Len(fields) : fields[i].name = x
      THEN CHOOSE i \in 1..Len(fields) : fields[i].name = x
      ELSE 0

\* resolve_struct_field: the type of a field, NoTy when there is none
FieldTy(t, x) ==
    IF t.k # "Named" \/ ~(t.name \in DOMAIN BuiltinStruct \/ IsStruct(t.name))
      THEN NoTy
      ELSE LET builtin == t.name \in DOMAIN BuiltinStruct
               fields == IF builtin THEN BuiltinStruct[t.name] ELSE program.structs[t.name].fields
               i == FieldIndex(fields, x)
           IN  CASE i = 0 -> NoTy
                 [] builtin -> fields[i].ty
                 [] OTHER -> Substitute(fields[i].ty, Subst(program.structs[t.name].gen, t.a))

\* variant_field_tys: the field types of a variant of the matched type, a
\* singleton set; empty when the type has no such variant
VariantFieldTys(t, x) ==
    CASE t.k # "Named" -> {}
      [] t.name = "Result" -> CASE x = "Ok" -> {<<t.a[1]>>} [] x = "Err" -> {<<t.a[2]>>} [] OTHER -> {}
      [] t.name = "Option" -> IF x = "Some" THEN {<<t.a[1]>>} ELSE {}
      [] t.name \in DOMAIN program.enums /\ EnumOf(x) = t.name ->
           LET tys == VariantOf(t.name, x).tys
           IN  {[i \in 1..Len(tys) |-> Substitute(tys[i], Subst(program.enums[t.name].gen, t.a))]}
      [] OTHER -> {}

\* is_known_unit_variant
IsUnitVariant(x, t) ==
    /\ t.k = "Named"
    /\ \/ t.name = "Option" /\ x = "None"
       \/ /\ t.name \in DOMAIN program.enums \ {"Option"}
          /\ EnumOf(x) = t.name
          /\ VariantOf(t.name, x).tys = <<>>

(***************************************************************************)
(* Operators on two operands.                                              *)
(***************************************************************************)
IntFloatMix(t, u) == {t, u} = {TInt, TFloat}

\* check_add, check_arith, check_div, check_mod
CheckArith(op, t, u) ==
    CASE IntFloatMix(t, u) -> Checked(Unknown, {"IntFloatMixed"}, {})
      [] t = u /\ t \in (IF op = "%" THEN {TInt} ELSE {TInt, TFloat}) -> Checked(t, {}, {})
      [] op = "+" /\ t = TStr /\ u = TStr -> Checked(TStr, {}, {})
      [] op = "+" /\ t.k = "List" /\ u.k = "List" /\ Unifies(t, u) -> Checked(Unify(t, u), {}, {})
      [] OTHER -> Checked(Unknown, {Mismatch}, {})

\* check_ordering
CheckOrdering(t, u) ==
    LET Orderable == t \in {TInt, TFloat, TStr} /\ u \in {TInt, TFloat, TStr}
    IN  CASE IntFloatMix(t, u) -> Checked(TBool, {"IntFloatMixed"}, {})
          [] Orderable /\ t = u -> Checked(TBool, {}, {})
          [] OTHER -> Checked(TBool, {"UnorderableType"}, {})

\* check_binary, for the types of its two operands
BinaryTy(op, t, u) ==
    LET boolean == op \in {"<", "<=", ">", ">=", "==", "!=", "and", "or"}
    IN  CASE t.k = "Var" \/ u.k = "Var" ->
               IF op \in {"==", "!="} THEN Checked(TBool, {}, {})
                 ELSE Checked(Unknown, {"UnsupportedOperatorForTypeParam"}, {})
          [] t = Unknown \/ u = Unknown -> Checked(IF boolean THEN TBool ELSE Unknown, {}, {})
          [] op \in {"+", "-", "*", "/", "%"} -> CheckArith(op, t, u)
          [] op \in {"<", "<=", ">", ">="} -> CheckOrdering(t, u)
          [] op \in {"==", "!="} -> Checked(TBool, MismatchUnless(Unifies(t, u)), {})
          [] OTHER -> Checked(TBool, MismatchUnless(t = TBool /\ u = TBool), {})

\* check_unary
UnaryTy(op, t) ==
    CASE op = "not" -> Checked(TBool, MismatchUnless(t \in {TBool, Unknown}), {})
      [] t.k = "Var" -> Checked(Unknown, {"UnsupportedOperatorForTypeParam"}, {})
      [] t \in {TInt, TFloat, Unknown} -> Checked(t, {}, {})
      [] OTHER -> Checked(Unknown, {Mismatch}, {})

\* infer_with_expected, for an expected type kept only when it is of kind k
InferWithExpected(want, k) == IF want.k = k THEN Checked(want, {}, {})
                                            ELSE Checked(Unknown, {"UninferableType"}, {})
KeyErr(code, t) == If1(code, ~IsAllowedKeyType(t) /\ t # Unknown)

\* unwrap_question: the type of e? when e has type t in a function returning ret
UnwrapQuestion(t, ret) ==
    CASE t.k = "Named" /\ t.name = "Result" ->
           Checked(t.a[1],
                   If1("QuestionOperatorMismatch",
                       /\ ret # NoTy
                           /\ ~(ret.k = "Named" /\ ret.name = "Result" /\ Unifies(t.a[2], ret.a[2]))),
                   {})
      [] t.k = "Named" /\ t.name = "Option" ->
           Checked(t.a[1],
                   If1("QuestionOperatorMismatch", ret # NoTy /\ ~(ret.k = "Named" /\ ret.name = "Option")),
                   {})
      [] t = Unknown -> Checked(Unknown, {}, {})
      [] OTHER -> Checked(Unknown, {"QuestionOperatorMismatch"}, {})

\* check_question: what the operand of ? is expected to be
QuestionWant(want, ret) ==
    LET t == IF want = NoTy THEN TVar("$Question") ELSE want
    IN  CASE ret.k = "Named" /\ ret.name = "Result" -> TResult(t, ret.a[2])
          [] ret.k = "Named" /\ ret.name = "Option" -> TOption(t)
          [] want = NoTy -> NoTy
          [] OTHER -> TResult(want, TVar("$QuestionErr"))

(***************************************************************************)
(* Patterns: bind_pattern, bind_subpattern, check_exhaustiveness.          *)
(***************************************************************************)
LitTy(e) == CASE e.k = "int" -> TInt [] e.k = "float" -> TFloat
              [] e.k = "bool" -> TBool [] OTHER -> TStr

\* [g, errs] after binding one name, literal or wildcard to a value of type t
BindSubpattern(p, t, b) ==
    CASE p.k = "lit" -> [b EXCEPT !.errs = @ \cup MismatchUnless(Unifies(t, LitTy(p.e)))]
      [] p.k = "name" /\ ~IsUnitVariant(p.x, t) -> [b EXCEPT !.g = BindTy(@, p.x, t, FALSE)]
      [] OTHER -> b

BindPattern(p, t, G) ==
    LET BindAll(tys) ==
          IF Len(p.ps) # Len(tys)
            THEN [g |-> G, errs |-> {Mismatch}]
            ELSE FoldLeft(LAMBDA b, i : BindSubpattern(p.ps[i], tys[i], b),
                          [g |-> G, errs |-> {}], [i \in 1..Len(tys) |-> i])
    IN  CASE p.k = "ptuple" /\ t.k = "Tuple" -> BindAll(t.a)
          [] p.k = "ptuple" -> [g |-> G, errs |-> MismatchUnless(t = Unknown)]
          [] p.k = "pvariant" /\ VariantFieldTys(t, p.x) = {} -> [g |-> G, errs |-> {Mismatch}]
          [] p.k = "pvariant" -> BindAll(CHOOSE tys \in VariantFieldTys(t, p.x) : TRUE)
          [] OTHER -> BindSubpattern(p, t, [g |-> G, errs |-> {}])

\* The variants a match on t must cover, with whether they have no fields
VariantsOf(t) ==
    CASE t.name = "Result" -> [Ok |-> FALSE, Err |-> FALSE]
      [] t.name = "Option" -> [Some |-> FALSE, None |-> TRUE]
      [] OTHER -> LET vs == program.enums[t.name].variants
                  IN  [x \in {vs[i].x : i \in 1..Len(vs)} |-> VariantOf(t.name, x).tys = <<>>]

NoLiterals(p) == \A i \in 1..Len(p.ps) : p.ps[i].k # "lit"
IsCatchAll(p) == p.k \in {"wild", "name"}

\* A bare name catches all, even that of a variant
CoversVariantsByName(variants, ps) ==
    \/ \E p \in ps : IsCatchAll(p)
    \/ DOMAIN variants \subseteq {p.x : p \in {q \in ps : q.k = "pvariant" /\ NoLiterals(q)}}

\* check_named_variants_exhaustiveness
CoversVariants(variants, ps) ==
    LET covered == {p.x : p \in {q \in ps : \/ q.k = "pvariant" /\ NoLiterals(q)
                                            \/ q.k = "name" /\ q.x \in DOMAIN variants /\ variants[q.x]}}
        catchAll == \E p \in ps : \/ p.k = "wild"
                                  \/ p.k = "name" /\ ~(p.x \in DOMAIN variants /\ variants[p.x])
    IN  catchAll \/ DOMAIN variants \subseteq covered

Exhaustive(t, ps) ==
    CASE t.k = "Named" /\ (t.name \in {"Result", "Option"} \/ t.name \in DOMAIN program.enums \ {"Value", "Error"}) ->
           CoversVariants(VariantsOf(t), ps)
      [] t = TBool -> \/ \E p \in ps : IsCatchAll(p)
                      \/ \A b \in BOOLEAN : \E p \in ps : p.k = "lit" /\ p.e.on = b
      [] t.k = "Tuple" -> \E p \in ps : IsCatchAll(p) \/ (p.k = "ptuple" /\ NoLiterals(p))
      [] t = Unknown -> TRUE
      [] OTHER -> \E p \in ps : IsCatchAll(p)

\* ty_of_const_value: the type read off the value of a module constant
RECURSIVE TyOfConst(_)
TyOfConst(v) ==
    LET FirstTy(vs) == IF vs = <<>> THEN Unknown ELSE TyOfConst(vs[1])
    IN  CASE v.k \in {"int", "float", "bool", "str"} -> LitTy(v)
          [] v.k = "list" -> TList(FirstTy(v.vs))
          [] v.k = "set" -> TSet(FirstTy(v.vs))
          [] v.k = "dict" -> TDict(FirstTy(v.ks), FirstTy(v.vs))
          [] v.k = "tuple" -> TTuple([i \in 1..Len(v.vs) |-> TyOfConst(v.vs[i])])
          [] OTHER -> Unknown

\* resolve_unit_variant_ty
UnitVariantTy(en, arity, want) ==
    CASE arity = 0 -> Checked(TNamed(en, <<>>), {}, {})
      [] want.k = "Named" /\ want.name = en /\ Len(want.a) = arity -> Checked(want, {}, {})
      [] OTHER -> Checked(Unknown, {"UninferableType"}, {})

\* check_ident
IdentTy(x, want, G) ==
    CASE Visible(G, x) -> Checked(Lookup(G, x).ty, {}, {})
      [] x = "None" -> UnitVariantTy("Option", 1, want)
      [] x = "Null" -> UnitVariantTy("Value", 0, want)
      [] EnumOf(x) # "" /\ VariantOf(EnumOf(x), x).tys = <<>> ->
           UnitVariantTy(EnumOf(x), Len(program.enums[EnumOf(x)].gen), want)
      [] IsFunction(x) -> Checked(FnTy(program.functions[x]), {}, {})
      [] x \in DOMAIN program.consts -> Checked(TyOfConst(program.consts[x]), {}, {})
      [] OTHER -> Checked(Unknown, {"UninferableType"}, {})

IsNamespace(e, G) == e.k = "id" /\ e.x \in Namespaces /\ ~Visible(G, e.x)

\* D-STDPOL-01: int, float, str, print, eprint and assert take the types of
\* their arguments, whether called or piped to: check_conversion_call,
\* check_str_conversion, check_print_like, check_assert and
\* check_pipe_stdpol01_overload
Overloaded == {"int", "float", "str", "print", "eprint", "assert"}
OverloadedRet == [int |-> TInt, float |-> TFloat, str |-> TStr,
                  print |-> TVoid, eprint |-> TVoid, assert |-> TVoid]
OverloadedWant(x, i) == CASE x = "int" -> TFloat [] x = "float" -> TInt
                          [] x = "assert" -> IF i = 1 THEN TBool ELSE TStr
                          [] OTHER -> NoTy
OverloadedFits(x, tys) ==
    CASE x \in {"int", "float"} -> Len(tys) = 1 /\ Accepts(OverloadedWant(x, 1), tys[1])
      [] x = "str" -> Len(tys) = 1 /\ tys[1] \in {TInt, TFloat, TBool, Unknown}
      [] x \in {"print", "eprint"} -> Len(tys) = 1 /\ tys[1] \in {TInt, TFloat, TBool, TStr, Unknown}
      [] OTHER -> /\ Len(tys) \in 1..2
                  /\ tys[1] \in {TBool, Unknown}
                  /\ Len(tys) = 2 => tys[2] \in {TStr, Unknown}

ValueParam == [Bool |-> TBool, Int |-> TInt, Float |-> TFloat, Str |-> TStr,
               List |-> TList(TValue), Dict |-> TDict(TStr, TValue)]

\* The signature a bare name is called with: check_builtin_variant_ctor and
\* the enum variants and functions of check_call_named
CallableSig(x) ==
    CASE x = "Ok" -> Generic(Sig(<<TVar("$T")>>, TResult(TVar("$T"), TVar("$E"))), <<"$T", "$E">>)
      [] x = "Err" -> Generic(Sig(<<TVar("$E")>>, TResult(TVar("$T"), TVar("$E"))), <<"$T", "$E">>)
      [] x = "Some" -> Generic(Sig(<<TVar("$T")>>, TOption(TVar("$T"))), <<"$T">>)
      [] EnumOf(x) # "" ->
           LET en == program.enums[EnumOf(x)]
           IN  Generic(Sig(VariantOf(EnumOf(x), x).tys,
                           TNamed(EnumOf(x), [i \in 1..Len(en.gen) |-> TVar(en.gen[i])])), en.gen)
      [] IsFunction(x) ->
           LET f == program.functions[x]
           IN  WithEffects(Generic(Sig(FnParams(FnTy(f)), f.ret), f.gen), f.eff)
      [] OTHER -> NoSig

\* The signature of a method declared by a struct, for a receiver of type t:
\* dispatch_struct_method
StructMethodSig(t, x) ==
    LET decl == program.structs[t.name]
        m == decl.methods[x]
        outer == Subst(decl.gen, t.a)
    IN  [params |-> [i \in 1..Len(m.params) |-> Substitute(m.params[i].ty, outer)],
         ret |-> Substitute(m.ret, outer),
         gen |-> m.gen, eff |-> m.eff, hof |-> FALSE, mut |-> m.self = "var self"]

\* The signature of a method call, NoSig when the method is undefined
DispatchSig(t, x) ==
    IF t.k = "Named" /\ IsStruct(t.name)
      THEN IF x \in DOMAIN program.structs[t.name].methods THEN StructMethodSig(t, x) ELSE NoSig
      ELSE MethodSig(t, x)

\* check_typed_args_call: a call whose argument types are known, from a pipe
TypedArgsCall(sig, tys, want) ==
    IF Len(sig.params) # Len(tys)
      THEN Checked(Unknown, {Mismatch}, sig.eff)
      ELSE LET Found(b, i, u) == [s |-> u.s, errs |-> b.errs \cup MismatchUnless(u.ok \/ tys[i] = Unknown)]
               Returns(b, r) == Checked(r.ty, b.errs \cup r.errs, sig.eff)
               Result(b) == Returns(b, FinalizeRet(sig.ret, b.s, sig.gen, want))
           IN  Result(FoldLeft(LAMBDA b, i : Found(b, i, UnifyCollect(sig.params[i], tys[i], b.s)),
                               [s |-> NoBindings, errs |-> {}], [i \in 1..Len(tys) |-> i]))

Indices(n, P(_)) == SelectSeq([i \in 1..n |-> i], P)
LabelErrs(args) == MismatchUnless(\A i \in 1..Len(args) : args[i].x = "")

(***************************************************************************)
(* The checker.                                                            *)
(***************************************************************************)
\* Expressions, blocks and statements alike; a statement gives, for a type, the
\* bindings g after it
RECURSIVE Check(_, _, _, _)

CheckEach(es, want, ret, G) == [i \in 1..Len(es) |-> Check(es[i], want, ret, G)]

\* check_positional_call: the arguments that are no lambdas first, then the
\* lambdas with what the others determined.  arg holds the types by position.
PositionalCall(sig, es, targs, want, ret, G) ==
    IF Len(sig.params) # Len(es)
      THEN LET Found(cs) == [arg |-> Tys(cs)] @@ Plus(Checked(Unknown, {Mismatch}, sig.eff), cs)
           IN  Found(CheckEach(es, NoTy, ret, G))
      ELSE LET IsLambda(i) == es[i].k = "lambda"
               NotLambda(i) == ~IsLambda(i)
               explicit == Subst(SubSeq(sig.gen, 1, Min({Len(targs), Len(sig.gen)})), targs)
               Found(b, i, c, u) ==
                 [s |-> u.s,
                  errs |-> b.errs \cup c.errs \cup MismatchUnless(u.ok \/ c.ty = Unknown),
                  eff |-> b.eff \cup c.eff \cup (IF sig.hof THEN FnEffects(c.ty) ELSE {}),
                  use |-> b.use \cup c.use,
                  arg |-> [b.arg EXCEPT ![i] = c.ty]]
               Matched(b, i, c) == Found(b, i, c, UnifyCollect(sig.params[i], c.ty, b.s))
               Step(b, i) == Matched(b, i, Check(es[i], Substitute(sig.params[i], b.s), ret, G))
               Returns(b, r) ==
                 [ty |-> r.ty, errs |-> b.errs \cup r.errs, eff |-> b.eff, use |-> b.use, arg |-> b.arg]
               Result(b) == Returns(b, FinalizeRet(sig.ret, b.s, sig.gen, want))
           IN  Result(FoldLeft(Step, [s |-> explicit, errs |-> {}, eff |-> sig.eff, use |-> {},
                                      arg |-> [i \in 1..Len(es) |-> NoTy]],
                               Indices(Len(es), NotLambda) \o Indices(Len(es), IsLambda)))

\* check_seq_lit
CheckSeqLit(e, want, ret, G) ==
    LET k == IF e.k = "list" THEN "List" ELSE "Set"
        elem == IF want.k = k THEN want.a[1] ELSE NoTy
        cs == CheckEach(e.es, elem, ret, G)
        Merge(b, c) ==
          CASE b.ty = NoTy -> Checked(c.ty, b.errs, {})
            [] Unifies(b.ty, c.ty) -> Checked(Unify(b.ty, c.ty), b.errs, {})
            [] OTHER -> Checked(b.ty, b.errs \cup {"CollectionElementTypeMismatch"}, {})
        Of(all) == IF k = "List" THEN Checked(TList(all.ty), all.errs, {})
                     ELSE Checked(TSet(all.ty), all.errs \cup KeyErr("SetElementTypeNotAllowed", all.ty), {})
    IN  IF e.es = <<>> THEN InferWithExpected(want, k)
          ELSE Plus(Of(FoldLeft(Merge, Checked(elem, {}, {}), cs)), cs)

\* check_dict_lit
CheckDictLit(e, want, ret, G) ==
    LET elem == IF want.k = "Dict" THEN want.a ELSE <<NoTy, NoTy>>
        Merge(t, u) == CASE t = NoTy -> u [] Unifies(t, u) -> Unify(t, u) [] OTHER -> t
        Wrong(t, u) == If1("CollectionElementTypeMismatch", t # NoTy /\ ~Unifies(t, u))
        Merged(b, ck, cv) ==
          [key |-> Merge(b.key, ck.ty), val |-> Merge(b.val, cv.ty),
           errs |-> b.errs \cup Wrong(b.key, ck.ty) \cup Wrong(b.val, cv.ty) \cup ck.errs \cup cv.errs,
           eff |-> b.eff \cup Effs(<<ck, cv>>), use |-> b.use \cup Uses(<<ck, cv>>)]
        Entry(b, kv) == Merged(b, Check(kv[1], b.key, ret, G), Check(kv[2], b.val, ret, G))
        Of(all) == Plus(Checked(TDict(all.key, all.val), {}, {}), <<all>>)
        Key(c) == [c EXCEPT !.errs = @ \cup IF c.ty.k = "Dict"
                                              THEN KeyErr("DictKeyTypeNotAllowed", c.ty.a[1]) ELSE {}]
    IN  Key(IF e.es = <<>>
              THEN InferWithExpected(want, "Dict")
              ELSE Of(FoldLeft(Entry, [key |-> elem[1], val |-> elem[2], errs |-> {}, eff |-> {}, use |-> {}], e.es)))

\* check_struct_init and check_builtin_struct_init
CheckStructInit(x, args, want, ret, G) ==
    LET builtin == x \in DOMAIN BuiltinStruct
        decl == IF builtin THEN StructDecl(<<>>, BuiltinStruct[x], <<>>) ELSE program.structs[x]
        IsLambda(i) == args[i].e.k = "lambda"
        NotLambda(i) == ~IsLambda(i)
        \* A field that is not declared has no type and takes none
        Wanted(at) == IF at = 0 THEN NoTy ELSE decl.fields[at].ty
        Found(b, i, c, u) ==
          [s |-> u.s, seen |-> b.seen \cup {args[i].x}, eff |-> b.eff \cup c.eff, use |-> b.use \cup c.use,
           errs |-> b.errs \cup c.errs
                      \cup MismatchUnless(/\ u.ok \/ (c.ty = Unknown /\ FieldIndex(decl.fields, args[i].x) # 0)
                                          /\ args[i].x \notin b.seen \/ builtin)]
        Matched(b, i, t, c) ==
          Found(b, i, c, IF t = NoTy THEN [ok |-> FALSE, s |-> b.s] ELSE UnifyCollect(t, c.ty, b.s))
        Typed(b, i, t) == Matched(b, i, t, Check(args[i].e, Substitute(t, b.s), ret, G))
        Step(b, i) == Typed(b, i, Wanted(FieldIndex(decl.fields, args[i].x)))
        order == IF builtin THEN [i \in 1..Len(args) |-> i]
                            ELSE Indices(Len(args), NotLambda) \o Indices(Len(args), IsLambda)
        Missing(b) == MismatchUnless(\A i \in 1..Len(decl.fields) : decl.fields[i].name \in b.seen)
        Returns(b, r) == Plus(Checked(r.ty, r.errs \cup Missing(b), {}), <<b>>)
        Result(b) == Returns(b, FinalizeRet(TNamed(x, [i \in 1..Len(decl.gen) |-> TVar(decl.gen[i])]),
                                            b.s, decl.gen, want))
    IN  Result(FoldLeft(Step, [s |-> NoBindings, seen |-> {}, errs |-> {}, eff |-> {}, use |-> {}], order))

\* effect_of_call, for a callee of type t and arguments of types tys: a name
\* that a function has is that function
CallEffects(x, t, tys) ==
    IF IsFunction(x)
      THEN DeclaredEffects(program.functions[x], tys)
      ELSE FnEffects(t)

\* No method of the library has an effect of its own
MethodEffectsOfArguments(t, m, tys) ==
    CASE t.k = "Named" /\ IsStruct(t.name) /\ m \in DOMAIN program.structs[t.name].methods ->
           DeclaredEffects(program.structs[t.name].methods[m], tys)
      [] m \in StdlibHof -> UNION {FnEffects(tys[i]) : i \in 1..Len(tys)}
      [] OTHER -> {}

\* effect_of_method_call
MethodEffects(t, m, tys) ==
    CASE t.k = "Named" /\ IsStruct(t.name) /\ m \in DOMAIN program.structs[t.name].methods ->
           DeclaredEffects(program.structs[t.name].methods[m], tys)
      [] m = "shuffle" -> {"rand"}
      [] m \in StdlibHof -> UNION {FnEffects(tys[i]) : i \in 1..Len(tys)}
      [] OTHER -> {}

\* check_closure_call
ClosureCall(x, callee, args, want, ret, G) ==
    LET Found(c) == Using(Plus(Checked(c.ty, LabelErrs(args), {}), <<c, callee>>),
                          CallEffects(x, callee.ty, IF callee.ty.k = "Fn" THEN c.arg ELSE <<>>))
    IN  Found(IF callee.ty.k = "Fn"
                THEN PositionalCall(Sig(FnParams(callee.ty), FnRet(callee.ty)), Exprs(args), <<>>, want, ret, G)
                ELSE Plus(Checked(Unknown, MismatchUnless(callee.ty = Unknown), {}),
                          CheckEach(Exprs(args), NoTy, ret, G)))

\* Calls of the names with a rule of their own: check_conversion_call and its
\* kind, check_set_ctor, check_value_variant_ctor
CheckOverloaded(x, args, ret, G) ==
    LET cs == [i \in 1..Len(args) |-> Check(args[i].e, OverloadedWant(x, i), ret, G)]
    IN  Plus(Checked(OverloadedRet[x], MismatchUnless(LabelErrs(args) = {} /\ OverloadedFits(x, Tys(cs))), {}), cs)

CheckSetCtor(e, want, ret, G) ==
    LET c == IF e.targs # <<>> THEN Checked(TSet(e.targs[1]), {}, {}) ELSE InferWithExpected(want, "Set")
        keyErrs == IF c.ty.k = "Set" THEN KeyErr("SetElementTypeNotAllowed", c.ty.a[1]) ELSE {}
    IN  Plus([c EXCEPT !.errs = @ \cup keyErrs \cup MismatchUnless(e.args = <<>>)],
             CheckEach(Exprs(e.args), NoTy, ret, G))

CheckValueCtor(x, args, ret, G) ==
    LET one == Len(args) = 1
        cs == CheckEach(Exprs(args), IF one THEN ValueParam[x] ELSE NoTy, ret, G)
    IN  Plus(Checked(TValue, LabelErrs(args) \cup MismatchUnless(one /\ Accepts(ValueParam[x], cs[1].ty)), {}), cs)

\* check_call_named: what a name that is no local binding may be called as,
\* in the order of priority
CallNamed(x, e, want, ret, G) ==
    LET es == Exprs(e.args)
    IN  CASE x \in Overloaded -> CheckOverloaded(x, e.args, ret, G)
          [] x = "set" -> CheckSetCtor(e, want, ret, G)
          [] x \in DOMAIN ValueParam -> CheckValueCtor(x, e.args, ret, G)
          [] x \in DOMAIN BuiltinStruct \/ IsStruct(x) -> CheckStructInit(x, e.args, want, ret, G)
          [] CallableSig(x) # NoSig ->
               LET Found(c) == Using(Plus(Checked(c.ty, LabelErrs(e.args), {}), <<c>>), CallEffects(x, NoTy, c.arg))
               IN  Found(PositionalCall(CallableSig(x), es, e.targs, want, ret, G))
          [] OTHER -> Plus(Checked(Unknown, {"UninferableType"}, {}), CheckEach(es, NoTy, ret, G))

\* check_call
CheckCall(e, want, ret, G) ==
    IF e.e.k = "id" /\ ~Visible(G, e.e.x)
      THEN CallNamed(e.e.x, e, want, ret, G)
      ELSE ClosureCall(IF e.e.k = "id" THEN e.e.x ELSE "", Check(e.e, NoTy, ret, G), e.args, want, ret, G)

\* The checks on the element type of a list that its method needs
ListMethodErrs(m, elem, es, tys) ==
    CASE m = "join" -> MismatchUnless(elem \in {TStr, Unknown})
      [] m = "to_set" -> KeyErr("SetElementTypeNotAllowed", elem)
      [] m \in {"par_map", "par_each"} ->
           If1("ParallelQuestionOperator",
               es # <<>> /\ es[1].k = "lambda" /\ ContainsQuestion(es[1].body))
      [] m = "sort_by" ->
           If1("UnorderableType", /\ es # <<>>
                                  /\ tys[1].k = "Fn"
                                  /\ FnRet(tys[1]) \notin {TInt, TFloat, TStr, Unknown})
      [] OTHER -> {}

\* check_method_call, dispatch_method and dispatch_struct_method
MethodCall(e, want, ret, G) ==
    LET es == Exprs(e.args)
        namespace == IsNamespace(e.e, G)
        Found(recv, sig, call) ==
          Using(Plus(Checked(call.ty,
                             LabelErrs(e.args)
                               \cup (IF recv.ty.k = "List" THEN ListMethodErrs(e.x, recv.ty.a[1], es, call.arg) ELSE {})
                               \cup (IF sig.mut THEN CheckMutablePlace(e.e, G) ELSE {}),
                             {}), <<call, recv>>),
                IF namespace THEN sig.eff ELSE MethodEffects(recv.ty, e.x, call.arg))
        By(recv, sig) ==
          CASE recv.ty = Unknown -> Plus(recv, CheckEach(es, NoTy, ret, G))
            [] sig = NoSig -> Plus(Checked(Unknown, {"UninferableType"}, {}),
                                   Append(CheckEach(es, NoTy, ret, G), recv))
            [] OTHER -> Found(recv, sig, PositionalCall(sig, es, e.targs, want, ret, G))
        On(recv) == By(recv, IF namespace THEN NamespaceSig(e.e.x, e.x) ELSE DispatchSig(recv.ty, e.x))
    IN  On(IF namespace THEN Checked(NoTy, {}, {}) ELSE Check(e.e, NoTy, ret, G))

\* effect_of_pipe_call, for arguments of the types tys, where a placeholder has
\* the type of the source of the whole pipe
PipeEffects(callee, tys, sig, G) ==
    CASE callee.k = "field" -> sig.eff
      [] callee.k = "id" -> CallEffects(callee.x, IF Visible(G, callee.x) THEN Lookup(G, callee.x).ty ELSE NoTy, tys)
      [] OTHER -> {}

\* check_pipe_stage: what a stage makes of a value of type piped, in a pipe
\* whose source has the type source
PipeStage(stage, piped, source, want, ret, G) ==
    LET callee == stage.e
        cs == CheckEach(SelectSeq(Exprs(stage.args), LAMBDA a : a # Placeholder), NoTy, ret, G)
        named == callee.k = "id" /\ ~Visible(G, callee.x)
        bound == callee.k = "id" /\ Visible(G, callee.x) /\ Lookup(G, callee.x).ty.k = "Fn"
        OfFn(t) == WithEffects(Sig(FnParams(t), FnRet(t)), t.eff)
        sig == CASE callee.k = "field" /\ IsNamespace(callee.e, G) -> NamespaceSig(callee.e.x, callee.x)
                 [] bound -> OfFn(Lookup(G, callee.x).ty)
                 [] callee.k = "id" /\ IsFunction(callee.x) -> CallableSig(callee.x)
                 [] OTHER -> NoSig
        By(sg, tys) == IF sg = NoSig THEN Checked(Unknown, {"UninferableType"}, {})
                                     ELSE TypedArgsCall(sg, tys, want)
        sources(tys) == [i \in 1..Len(tys) |-> IF stage.args = <<>> \/ stage.args[i].e = Placeholder
                                                 THEN source ELSE tys[i]]
        Found(c, tys) == Using(Plus(c, cs), PipeEffects(callee, sources(tys), c, G))
        Called(tys) == Found(IF named /\ callee.x \in Overloaded
                               THEN Checked(OverloadedRet[callee.x],
                                            MismatchUnless(OverloadedFits(callee.x, tys)), {})
                               ELSE By(sig, tys), tys)
    IN  Called(IF stage.args = <<>>
                 THEN <<piped>>
                 ELSE [i \in 1..Len(stage.args) |->
                         IF stage.args[i].e = Placeholder THEN piped
                           ELSE Check(stage.args[i].e, NoTy, ret, G).ty])

\* check_pipe
CheckPipe(e, want, ret, G) ==
    LET n == Len(e.stages)
        StageWant(i) == CASE i # n \/ want = NoTy -> NoTy
                          [] e.stages[i].q -> TResult(want, TError)
                          [] OTHER -> want
        Unwrapped1(i, s) ==
          IF e.stages[i].q THEN Plus(UnwrapQuestion(s.ty, ret), <<[s EXCEPT !.ty = NoTy]>>) ELSE s
        Step(first, c, i) ==
          Plus(Unwrapped1(i, PipeStage(e.stages[i], c.ty, first.ty, StageWant(i), ret, G)), <<c>>)
        From(first) == FoldLeft(LAMBDA c, i : Step(first, c, i), first, [i \in 1..n |-> i])
    IN  From(Check(e.e, NoTy, ret, G))

\* check_lambda: the return type is known to the body only when the expected
\* one holds no type variable
CheckLambda(e, want, G) ==
    LET hinted == want.k = "Fn" /\ Len(FnParams(want)) = Len(e.params)
        ParamTy(i) == CASE e.params[i].ty # NoTy -> e.params[i].ty
                        [] hinted -> want.a[i]
                        [] OTHER -> Unknown
        ret == IF hinted /\ ~ContainsTypeVar(FnRet(want)) THEN FnRet(want) ELSE NoTy
        inner == FoldLeft(LAMBDA g, i : BindTy(g, e.params[i].x, ParamTy(i), FALSE),
                          PushScope(G), [i \in 1..Len(e.params) |-> i])
        RetTy(t) == IF ret # NoTy /\ Unifies(ret, t) THEN Unify(ret, t) ELSE t
        Found(body) ==
          Checked(TFn([i \in 1..Len(e.params) |-> ParamTy(i)], body.eff, RetTy(body.ty)), body.errs, {})
    IN  Found(Check(e.body, ret, ret, inner))

\* The value of a branch or arm: an expression that is neither a block nor an
\* "else if" has no value when it diverges
BranchValue(body, want, ret, G) ==
    LET c == Check(body, want, ret, G)
    IN  IF body.k \notin {"block", "if"} /\ Diverges(body) THEN [c EXCEPT !.ty = NoTy] ELSE c

\* The type of branches that come together: NoTy is a branch that diverges
JoinTy(t, u) == CASE t = NoTy -> u [] u = NoTy -> t
                  [] Unifies(t, u) -> Unify(t, u) [] OTHER -> NoTy
Joins(t, u) == t = NoTy \/ u = NoTy \/ Unifies(t, u)
OrUnknown(t) == IF t = NoTy THEN Unknown ELSE t

\* check_if_expr
CheckIf(e, want, ret, G) ==
    LET Found(c, t, f) ==
          Plus(Checked(OrUnknown(JoinTy(t.ty, f.ty)),
                       MismatchUnless(c.ty \in {TBool, Unknown} /\ Joins(t.ty, f.ty)), {}), <<c, t, f>>)
    IN  Found(Check(e.e, TBool, ret, G),
              BranchValue(e.body, want, ret, PushScope(G)),
              BranchValue(e.els, want, ret, IF e.els.k = "block" THEN PushScope(G) ELSE G))

\* check_match_expr
CheckMatch(e, want, ret, G) ==
    LET s == Check(e.e, NoTy, ret, G)
        ps == {e.arms[i].p : i \in 1..Len(e.arms)}
        Merged(b, errs, c) ==
          Plus(Checked(IF Joins(b.ty, c.ty) THEN JoinTy(b.ty, c.ty) ELSE b.ty,
                       errs \cup MismatchUnless(Joins(b.ty, c.ty)), {}), <<b, c>>)
        Bound1(b, arm, bound) == Merged(b, bound.errs, BranchValue(arm.body, want, ret, bound.g))
        Arm1(b, arm) == Bound1(b, arm, BindPattern(arm.p, s.ty, PushScope(G)))
        all == FoldLeft(Arm1, Checked(NoTy, If1("NonExhaustiveMatch", ~Exhaustive(s.ty, ps)), {}), e.arms)
    IN  Plus([all EXCEPT !.ty = OrUnknown(@)], <<s>>)

\* check_par
CheckPar(e, ret, G) ==
    LET cs == CheckEach(e.es, NoTy, ret, G)
        Merge(b, c) == IF Joins(b.ty, c.ty) THEN Checked(JoinTy(b.ty, c.ty), b.errs, {})
                         ELSE Checked(b.ty, b.errs \cup {"CollectionElementTypeMismatch"}, {})
        ListOf(all) == Checked(TList(OrUnknown(all.ty)), all.errs, {})
    IN  Plus(IF e.op = "tuple" THEN Checked(TTuple(Tys(cs)), {}, {})
                               ELSE ListOf(FoldLeft(Merge, Checked(NoTy, {}, {}), cs)), cs)

\* check_index, for the types of the target and the index
IndexTy(t, i) ==
    CASE t.k = "List" -> Checked(t.a[1], MismatchUnless(i \in {TInt, Unknown}), {})
      [] t.k = "Dict" -> Checked(t.a[2], MismatchUnless(Accepts(t.a[1], i)), {})
      [] OTHER -> Checked(Unknown, MismatchUnless(t = Unknown), {})
IndexWant(t) == CASE t.k = "List" -> TInt [] t.k = "Dict" -> t.a[1] [] OTHER -> NoTy

CheckIndex(e, ret, G) ==
    LET c == Check(e.e, NoTy, ret, G)
        i == Check(e.i, IndexWant(c.ty), ret, G)
    IN  Plus(IndexTy(c.ty, i.ty), <<c, i>>)

\* check_tuple_index
CheckTupleIndex(e, ret, G) ==
    LET c == Check(e.e, NoTy, ret, G)
        has == c.ty.k = "Tuple" /\ e.n < Len(c.ty.a)
    IN  Plus(Checked(IF has THEN c.ty.a[e.n + 1] ELSE Unknown, MismatchUnless(has \/ c.ty = Unknown), {}), <<c>>)

\* check_field_access, with namespace_const_ty: math has the only constants
CheckFieldAccess(e, ret, G) ==
    IF IsNamespace(e.e, G)
      THEN IF e.e.x = "math" /\ e.x \in {"PI", "E"} THEN Checked(TFloat, {}, {})
                                                   ELSE Checked(Unknown, {"UninferableType"}, {})
      ELSE LET c == Check(e.e, NoTy, ret, G)
               t == FieldTy(c.ty, e.x)
           IN  Plus(Checked(OrUnknown(t), If1("UninferableType", t = NoTy /\ c.ty # Unknown), {}), <<c>>)

\* A statement gives the bindings after it, its diagnostics and effects
Stmt(g, errs, cs) == [g |-> g, errs |-> errs \cup Errs(cs), eff |-> Effs(cs), use |-> Uses(cs)]

\* The three priorities of D-TYPE-17
Wraps(name, ret, t) == ret.k = "Named" /\ ret.name = name /\ Unifies(ret.a[1], t)
ReturnFits(ret, t) == \/ ret = NoTy
                      \/ Accepts(ret, t)
                      \/ Wraps("Result", ret, t)
                      \/ Wraps("Option", ret, t)

\* check_var_decl, and check_name_assign for a new name
CheckVarDecl(s, mutable, ret, G) ==
    LET c == Check(s.e, s.ty, ret, G)
        ty == IF s.ty = NoTy THEN c.ty ELSE s.ty
    IN  Stmt(BindTy(G, s.x, ty, mutable), MismatchUnless(s.ty = NoTy \/ Accepts(s.ty, c.ty)), <<c>>)

\* check_name_assign
CheckNameAssign(s, ret, G) ==
    IF ~Visible(G, s.x) THEN CheckVarDecl(s, FALSE, ret, G)
      ELSE LET b == Lookup(G, s.x)
               c == Check(s.e, IF s.ty = NoTy /\ b.mutable THEN b.ty ELSE s.ty, ret, G)
           IN  Stmt(G, IF b.mutable THEN MismatchUnless(Accepts(b.ty, c.ty))
                                    ELSE {"ImmutableMutation"}, <<c>>)

\* check_field_assign
CheckFieldAssign(s, ret, G) ==
    LET t == Check(s.target, NoTy, ret, G)
        ty == FieldTy(t.ty, s.x)
        c == Check(s.e, ty, ret, G)
    IN  Stmt(G, CheckMutablePlace(s.target, G)
                  \cup MismatchUnless(IF ty = NoTy THEN t.ty = Unknown ELSE Accepts(ty, c.ty)), <<t, c>>)

\* check_index_assign
CheckIndexAssign(s, ret, G) ==
    LET t == Check(s.target, NoTy, ret, G)
        i == Check(s.i, IndexWant(t.ty), ret, G)
        elem == IndexTy(t.ty, i.ty)
        c == Check(s.e, IF t.ty.k \in {"List", "Dict"} THEN elem.ty ELSE NoTy, ret, G)
    IN  Stmt(G, CheckMutablePlace(s.target, G) \cup elem.errs
                  \cup MismatchUnless(Accepts(elem.ty, c.ty)), <<t, i, c>>)

\* check_return
CheckReturn(s, ret, G) ==
    IF s.e = NoExpr THEN Stmt(G, MismatchUnless(ret \in {NoTy, TVoid, Unknown}), <<>>)
      ELSE LET c == Check(s.e, ret, ret, G)
           IN  Stmt(G, MismatchUnless(ReturnFits(ret, c.ty)), <<c>>)

\* The statements of a block in order
CheckStmts(ss, ret, G) ==
    LET Both(b, c) == Stmt(c.g, {}, <<b, c>>)
    IN  FoldLeft(LAMBDA b, s : Both(b, Check(s, NoTy, ret, b.g)), Stmt(G, {}, <<>>), ss)

\* check_block_value: the value of a block is its last statement, NoTy when
\* the block diverges
BlockValue(b, want, ret, G) ==
    LET s == Last(b.ss)
        After(before) ==
          CASE s.k = "expr" -> Plus(IF Diverges(s.e) THEN Checked(NoTy, {}, {})
                                      ELSE Checked(Check(s.e, want, ret, before.g).ty, {}, {}),
                                    <<before, Check(s.e, want, ret, before.g)>>)
            [] s.k = "return" -> Plus(Checked(NoTy, {}, {}), <<before, Check(s, NoTy, ret, before.g)>>)
            [] OTHER -> Plus(Checked(Unknown, {Mismatch}, {}), <<before, Check(s, NoTy, ret, before.g)>>)
    IN  IF b.ss = <<>> THEN Checked(TVoid, {}, {}) ELSE After(CheckStmts(Front(b.ss), ret, G))

\* check_expr_kind, check_block_value and check_stmt
Check(e, want, ret, G) ==
    LET c == Check(e.e, NoTy, ret, G)  \* the only operand of a prefix or postfix form
    IN  CASE e.k \in {"int", "float", "bool", "str"} -> Checked(LitTy(e), {}, {})
          [] e.k = "fstr" ->
               LET cs == CheckEach(e.es, NoTy, ret, G)
               IN  Plus(Checked(TStr, MismatchUnless(\A i \in 1..Len(cs) :
                                        cs[i].ty \in {TStr, TInt, TFloat, TBool, Unknown}), {}), cs)
          [] e.k = "id" -> IdentTy(e.x, want, G)
          [] e.k \in {"list", "set"} -> CheckSeqLit(e, want, ret, G)
          [] e.k = "tuple" ->
               LET hinted == want.k = "Tuple" /\ Len(want.a) = Len(e.es)
                   cs == [i \in 1..Len(e.es) |-> Check(e.es[i], IF hinted THEN want.a[i] ELSE NoTy, ret, G)]
               IN  Plus(Checked(TTuple(Tys(cs)), {}, {}), cs)
          [] e.k = "dict" -> CheckDictLit(e, want, ret, G)
          [] e.k = "unary" -> Plus(UnaryTy(e.op, c.ty), <<c>>)
          [] e.k = "binary" ->
               LET l == Check(e.l, NoTy, ret, G)
                   r == Check(e.r, NoTy, ret, G)
               IN  Plus(BinaryTy(e.op, l.ty, r.ty), <<l, r>>)
          [] e.k = "call" -> CheckCall(e, want, ret, G)
          [] e.k = "method" -> MethodCall(e, want, ret, G)
          [] e.k = "field" -> CheckFieldAccess(e, ret, G)
          [] e.k = "tindex" -> CheckTupleIndex(e, ret, G)
          [] e.k = "index" -> CheckIndex(e, ret, G)
          [] e.k = "question" ->
               LET q == Check(e.e, QuestionWant(want, ret), ret, G)
               IN  Plus(UnwrapQuestion(q.ty, ret), <<q>>)
          [] e.k = "pipe" -> CheckPipe(e, want, ret, G)
          [] e.k = "lambda" -> CheckLambda(e, want, G)
          [] e.k = "if" -> CheckIf(e, want, ret, G)
          [] e.k = "match" -> CheckMatch(e, want, ret, G)
          [] e.k = "par" -> CheckPar(e, ret, G)
          [] e.k = "grouping" -> Check(e.e, want, ret, G)
          [] e.k = "block" -> BlockValue(e, want, ret, G)
          [] e.k = "var" -> CheckVarDecl(e, TRUE, ret, G)
          [] e.k = "assign" -> CheckNameAssign(e, ret, G)
          [] e.k = "fassign" -> CheckFieldAssign(e, ret, G)
          [] e.k = "iassign" -> CheckIndexAssign(e, ret, G)
          [] e.k = "discard" -> Stmt(G, {}, <<c>>)
          [] e.k = "return" -> CheckReturn(e, ret, G)
          [] e.k = "expr" -> Stmt(G, If1("UnusedResult", c.ty.k = "Named" /\ c.ty.name = "Result"), <<c>>)

(***************************************************************************)
(* Declarations (check_decl.rs).                                           *)
(***************************************************************************)
RECURSIVE ContainsVoid(_)
ContainsVoid(t) == t.k = "Void" \/ \E i \in 1..Len(t.a) : ContainsVoid(t.a[i])
ContainsNestedVoid(t) == t.k # "Void" /\ ContainsVoid(t)

\* check_function_decl, with the type of self for a method and NoTy for a
\* function: a body that does not diverge ends with a return of a value
CheckFunction(f, self) ==
    LET BindParam(g, p) == BindTy(g, p.name, IF ContainsVoid(p.ty) THEN Unknown ELSE p.ty, FALSE)
        G0 == IF self = NoTy THEN <<NoBindings>>
                             ELSE BindTy(<<NoBindings>>, "self", self, f.self = "var self")
        ret == IF ContainsNestedVoid(f.ret) THEN Unknown ELSE f.ret
        ends == /\ f.body.ss # <<>>
                /\ Last(f.body.ss).k = "return"
                /\ Last(f.body.ss).e # NoExpr
        Found(body) ==
          [use |-> body.use,
           errs |-> body.errs
                      \cup MismatchUnless(/\ \A i \in 1..Len(f.params) : ~ContainsVoid(f.params[i].ty)
                                          /\ ~ContainsNestedVoid(f.ret)
                                          /\ Diverges(f.body) \/ ret = TVoid \/ ends)]
    IN  Found(CheckStmts(f.body.ss, ret, FoldLeft(BindParam, G0, f.params)))

\* check_function_effects in src/src/effects/mod.rs, for a body that performs use
EffectErrs(f, use) == If1(IF f.eff = {} THEN "ImpureCallInPureFunction" ELSE "UndeclaredEffect",
                          ~(use \subseteq f.eff))
FunctionErrs(f, self) ==
    LET Found(c) == c.errs \cup EffectErrs(f, c.use)
    IN  Found(CheckFunction(f, self))

\* check_struct_decl and check_enum_decl, without the methods
CheckStruct(x) ==
    LET fields == program.structs[x].fields
    IN  MismatchUnless(\A i \in 1..Len(fields) : ~ContainsVoid(fields[i].ty))
CheckEnum(x) ==
    LET vs == program.enums[x].variants
    IN  MismatchUnless(\A i \in 1..Len(vs) : \A j \in 1..Len(vs[i].tys) : ~ContainsVoid(vs[i].tys[j]))

\* Every function and method, with the type of its self
Callables ==
    LET SelfTy(x) == TNamed(x, [i \in 1..Len(program.structs[x].gen) |-> TVar(program.structs[x].gen[i])])
    IN  {<<program.functions[f], NoTy>> : f \in DOMAIN program.functions}
          \cup UNION {{<<program.structs[x].methods[m], SelfTy(x)>> : m \in DOMAIN program.structs[x].methods} :
                        x \in DOMAIN program.structs}

\* check_all_decls and check_program_effects
DeclErrs == UNION {FunctionErrs(c[1], c[2]) : c \in Callables}
              \cup UNION {CheckStruct(x) : x \in DOMAIN program.structs}
              \cup UNION {CheckEnum(x) : x \in DOMAIN program.enums}
=============================================================================
