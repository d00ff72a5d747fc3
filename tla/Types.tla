------------------------------- MODULE Types -------------------------------
(***************************************************************************)
(* The types of the language and what the checker computes with them:      *)
(* src/src/types/mod.rs (Ty, EffectSet), infer.rs (unify) and generics.rs  *)
(* (unify_collect, substitute, finalize_ret).                              *)
(*                                                                         *)
(* A type is a record with one shape for every variant of Ty:              *)
(*   k     the variant,                                                    *)
(*   name  the name of a Named type or of a type variable,                 *)
(*   a     its argument types; for a Function the parameters and then the  *)
(*         return type, for a Dict the key and the value,                  *)
(*   eff   the effects of a Function.                                      *)
(* NoTy is the None of an Option<Ty>: no expected type, no return context, *)
(* no result of unify.                                                     *)
(*                                                                         *)
(* An expected or an inferred type is compared with unify, which lets an   *)
(* Unknown and a type variable stand for anything on either side.          *)
(***************************************************************************)
EXTENDS Integers, Sequences, FiniteSets, TLC, SequencesExt

Ty(k, name, args, effects) == [k |-> k, name |-> name, a |-> args, eff |-> effects]

NoTy == Ty("None", "", <<>>, {})
Unknown == Ty("Unknown", "", <<>>, {})
TInt == Ty("Int", "", <<>>, {})
TFloat == Ty("Float", "", <<>>, {})
TBool == Ty("Bool", "", <<>>, {})
TStr == Ty("Str", "", <<>>, {})
TVoid == Ty("Void", "", <<>>, {})
TList(t) == Ty("List", "", <<t>>, {})
TSet(t) == Ty("Set", "", <<t>>, {})
TDict(key, value) == Ty("Dict", "", <<key, value>>, {})
TTuple(items) == Ty("Tuple", "", items, {})
TNamed(name, args) == Ty("Named", name, args, {})
TOption(t) == TNamed("Option", <<t>>)
TResult(t, err) == TNamed("Result", <<t, err>>)
TError == TNamed("Error", <<>>)
TValue == TNamed("Value", <<>>)
TVar(name) == Ty("Var", name, <<>>, {})
TFn(params, effects, ret) == Ty("Fn", "", Append(params, ret), effects)

FnParams(t) == Front(t.a)
FnRet(t) == Last(t.a)

\* Two types agree in everything but their arguments and effects.
SameHead(t, u) == t.k = u.k /\ t.name = u.name /\ Len(t.a) = Len(u.a)

\* infer.rs unify: the common type of two types, NoTy when there is none.
\* The effects of function types never decide: the union is kept.
RECURSIVE Unify(_, _)
Unify(t, u) ==
    CASE t.k \in {"Unknown", "Var"} -> u
      [] u.k \in {"Unknown", "Var"} -> t
      [] ~SameHead(t, u) -> NoTy
      [] OTHER ->
           LET args == [i \in 1..Len(t.a) |-> Unify(t.a[i], u.a[i])]
           IN  IF \E i \in DOMAIN args : args[i] = NoTy
                 THEN NoTy
                 ELSE Ty(t.k, t.name, args, t.eff \cup u.eff)

Unifies(t, u) == Unify(t, u) # NoTy

\* An argument or a value of type `actual` is accepted where `wanted` is expected.
Accepts(wanted, actual) == Unifies(wanted, actual) \/ actual = Unknown

\* generics.rs substitute.
RECURSIVE Substitute(_, _)
Substitute(t, s) ==
    IF t.k = "Var"
      THEN IF t.name \in DOMAIN s THEN s[t.name] ELSE t
      ELSE [t EXCEPT !.a = [i \in 1..Len(t.a) |-> Substitute(t.a[i], s)]]

\* generics.rs contains_type_var.
RECURSIVE ContainsTypeVar(_)
ContainsTypeVar(t) == t.k = "Var" \/ \E i \in 1..Len(t.a) : ContainsTypeVar(t.a[i])

\* generics.rs unify_collect: match a declared type against a concrete one and
\* collect the type variables; the bindings made before a mismatch stay.
RECURSIVE UnifyCollect(_, _, _)
UnifyCollect(pattern, concrete, s) ==
    CASE concrete.k \in {"Unknown", "Var"} -> [ok |-> TRUE, s |-> s]
      [] pattern.k = "Var" /\ pattern.name \in DOMAIN s ->
           [ok |-> Unifies(s[pattern.name], concrete), s |-> s]
      [] pattern.k = "Var" -> [ok |-> TRUE, s |-> s @@ (pattern.name :> concrete)]
      [] pattern.k = "Unknown" -> [ok |-> TRUE, s |-> s]
      [] ~SameHead(pattern, concrete) -> [ok |-> FALSE, s |-> s]
      [] OTHER ->
           FoldLeft(LAMBDA acc, i : IF acc.ok THEN UnifyCollect(pattern.a[i], concrete.a[i], acc.s)
                                              ELSE acc,
                    [ok |-> TRUE, s |-> s], [i \in 1..Len(pattern.a) |-> i])

\* generics.rs finalize_ret: the type of a call once its arguments are matched.
FinalizeRet(ret, s, generics, expected) ==
    LET Unresolved(u) == \E i \in 1..Len(generics) : generics[i] \notin DOMAIN u
        s2 == IF Unresolved(s) /\ expected # NoTy
                THEN UnifyCollect(Substitute(ret, s), expected, s).s
                ELSE s
    IN  IF Unresolved(s2) THEN [ty |-> Unknown, errs |-> {"UninferableType"}]
                          ELSE [ty |-> Substitute(ret, s2), errs |-> {}]

\* check_expr.rs is_allowed_key_type: what a set holds and a dict is keyed by.
RECURSIVE IsAllowedKeyType(_)
IsAllowedKeyType(t) == \/ t.k \in {"Int", "Bool", "Str"}
                       \/ t.k = "Tuple" /\ \A i \in 1..Len(t.a) : IsAllowedKeyType(t.a[i])
=============================================================================
