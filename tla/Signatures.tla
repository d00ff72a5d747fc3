----------------------------- MODULE Signatures -----------------------------
(***************************************************************************)
(* The signatures of the built-in methods, namespace functions and builtin *)
(* structs, as src/src/types/check_expr.rs gives them to the checker: the  *)
(* tables that stand between a call in a program and the evaluator's own   *)
(* dispatch in src/src/eval/call.rs.  The two are written by hand and must *)
(* agree; Language.tla checks that they do.                                *)
(*                                                                         *)
(*   gen   the names of the signature's own type variables,                *)
(*   hof   the effects of a function argument are the caller's,            *)
(*   mut   the method changes its receiver.                                *)
(***************************************************************************)
EXTENDS Types

Sig(params, ret) ==
    [params |-> params, ret |-> ret, gen |-> <<>>, eff |-> {}, hof |-> FALSE, mut |-> FALSE]
Generic(sig, names) == [sig EXCEPT !.gen = names]
WithEffects(sig, eff) == [sig EXCEPT !.eff = eff]
Hof(sig) == [sig EXCEPT !.hof = TRUE]
Mutating(sig) == [sig EXCEPT !.mut = TRUE]

NoSig == Sig(<<>>, NoTy)

U == TVar("$U")
Acc == TVar("$Acc")
Pred(t) == TFn(<<t>>, {}, TBool)
Fun(t, u) == TFn(<<t>>, {}, u)
FoldSig(t) == Hof(Generic(Sig(<<Acc, TFn(<<Acc, t>>, {}, Acc)>>, Acc), <<"$Acc">>))
MapSig(t) == Hof(Generic(Sig(<<Fun(t, U)>>, TList(U)), <<"$U">>))

\* builtin_struct_fields
BuiltinStruct ==
    [Error |-> <<[name |-> "kind", ty |-> TStr], [name |-> "message", ty |-> TStr],
                 [name |-> "cause", ty |-> TOption(TError)]>>,
     Response |-> <<[name |-> "status", ty |-> TInt], [name |-> "headers", ty |-> TDict(TStr, TStr)],
                    [name |-> "body", ty |-> TStr]>>,
     HttpOptions |-> <<[name |-> "headers", ty |-> TDict(TStr, TStr)],
                       [name |-> "timeout_ms", ty |-> TInt]>>,
     ProcOutput |-> <<[name |-> "stdout", ty |-> TStr], [name |-> "stderr", ty |-> TStr],
                      [name |-> "exit_code", ty |-> TInt]>>]

Namespaces == {"fs", "http", "env", "proc", "time", "rand", "regex", "math",
               "json", "csv", "yaml", "toml"}

FsSig(m) ==
    CASE m = "read" -> Sig(<<TStr>>, TResult(TStr, TError))
      [] m = "read_bytes" -> Sig(<<TStr>>, TResult(TList(TInt), TError))
      [] m \in {"write", "append"} -> Sig(<<TStr, TStr>>, TOption(TError))
      [] m = "list" -> Sig(<<TStr>>, TResult(TList(TStr), TError))
      [] m = "exists" -> Sig(<<TStr>>, TBool)
      [] m = "remove" -> Sig(<<TStr>>, TOption(TError))
      [] OTHER -> NoSig

HttpSig(m) ==
    LET reply == TResult(TNamed("Response", <<>>), TError)
    IN  CASE m \in {"get", "delete"} -> Sig(<<TStr>>, reply)
          [] m \in {"post", "put"} -> Sig(<<TStr, TStr>>, reply)
          [] m = "request" -> Sig(<<TStr, TStr, TNamed("HttpOptions", <<>>)>>, reply)
          [] OTHER -> NoSig

EnvSig(m) ==
    CASE m = "get" -> Sig(<<TStr>>, TOption(TStr))
      [] m = "set" -> Sig(<<TStr, TStr>>, TVoid)
      [] m = "args" -> Sig(<<>>, TList(TStr))
      [] m = "stdin" -> Sig(<<>>, TResult(TStr, TError))
      [] OTHER -> NoSig

TimeSig(m) ==
    CASE m = "now" -> Sig(<<>>, TInt)
      [] m = "sleep" -> Sig(<<TInt>>, TVoid)
      [] m = "format" -> Sig(<<TInt, TStr>>, TStr)
      [] m = "parse" -> Sig(<<TStr, TStr>>, TResult(TInt, TError))
      [] OTHER -> NoSig

RandSig(m) ==
    CASE m = "int" -> Sig(<<TInt, TInt>>, TInt)
      [] m = "float" -> Sig(<<>>, TFloat)
      [] m = "bool" -> Sig(<<>>, TBool)
      [] m = "choice" -> Generic(Sig(<<TList(TVar("$T"))>>, TOption(TVar("$T"))), <<"$T">>)
      [] OTHER -> NoSig

MathSig(m) ==
    CASE m \in {"checked_div", "checked_mod", "checked_add", "checked_sub", "checked_mul"} ->
           Sig(<<TInt, TInt>>, TOption(TInt))
      [] m = "abs_int" -> Sig(<<TInt>>, TInt)
      [] m \in {"min_int", "max_int"} -> Sig(<<TInt, TInt>>, TInt)
      [] m \in {"abs_float", "sqrt"} -> Sig(<<TFloat>>, TFloat)
      [] m \in {"min_float", "max_float", "pow"} -> Sig(<<TFloat, TFloat>>, TFloat)
      [] m \in {"floor", "ceil", "round"} -> Sig(<<TFloat>>, TInt)
      [] OTHER -> NoSig

\* namespace_fn_sig, without the codecs and regex
NamespaceSig(ns, m) ==
    LET Performing(sig, effect) == IF sig = NoSig THEN NoSig ELSE WithEffects(sig, {effect})
    IN  CASE ns = "fs" -> Performing(FsSig(m), "fs")
          [] ns = "http" -> Performing(HttpSig(m), "net")
          [] ns = "env" -> Performing(EnvSig(m), "env")
          [] ns = "proc" /\ m = "run" ->
               WithEffects(Sig(<<TStr, TList(TStr)>>, TResult(TNamed("ProcOutput", <<>>), TError)), {"proc"})
          [] ns = "time" -> Performing(TimeSig(m), "time")
          [] ns = "rand" -> Performing(RandSig(m), "rand")
          [] ns = "math" -> MathSig(m)
          [] OTHER -> NoSig

\* str_method_sig, without what only rewrites characters: trim, to_upper,
\* to_lower, replace, split, bytes and parse_float
StrSig(m) ==
    CASE m \in {"len", "count"} -> Sig(<<>>, TInt)
      [] m = "get" -> Sig(<<TInt>>, TOption(TStr))
      [] m = "to_str" -> Sig(<<>>, TStr)
      [] m \in {"contains", "starts_with", "ends_with"} -> Sig(<<TStr>>, TBool)
      [] m = "repeat" -> Sig(<<TInt>>, TStr)
      [] m = "is_empty" -> Sig(<<>>, TBool)
      [] m = "find" -> Sig(<<TStr>>, TOption(TInt))
      [] m = "slice" -> Sig(<<TInt, TInt>>, TStr)
      [] m = "parse_int" -> Sig(<<>>, TResult(TInt, TError))
      [] m = "map" -> MapSig(TStr)
      [] m = "filter" -> Hof(Sig(<<Pred(TStr)>>, TList(TStr)))
      [] m = "fold" -> FoldSig(TStr)
      [] m = "find_by" -> Hof(Sig(<<Pred(TStr)>>, TOption(TStr)))
      [] m \in {"any", "all"} -> Hof(Sig(<<Pred(TStr)>>, TBool))
      [] m = "enumerate" -> Sig(<<>>, TList(TTuple(<<TInt, TStr>>)))
      [] m = "zip" -> Sig(<<TStr>>, TList(TTuple(<<TStr, TStr>>)))
      [] m \in {"rev", "chars"} -> Sig(<<>>, TList(TStr))
      [] m \in {"take", "skip"} -> Sig(<<TInt>>, TList(TStr))
      [] m = "flat_map" -> Hof(Generic(Sig(<<Fun(TStr, TList(U))>>, TList(U)), <<"$U">>))
      [] m = "sort_by" -> Hof(Sig(<<Fun(TStr, TStr)>>, TList(TStr)))
      [] m = "chain" -> Sig(<<TStr>>, TList(TStr))
      [] OTHER -> NoSig

\* list_method_sig
ListSig(t, m) ==
    CASE m \in {"map", "par_map"} -> MapSig(t)
      [] m = "filter" -> Hof(Sig(<<Pred(t)>>, TList(t)))
      [] m = "fold" -> FoldSig(t)
      [] m = "find" -> Hof(Sig(<<Pred(t)>>, TOption(t)))
      [] m \in {"any", "all"} -> Hof(Sig(<<Pred(t)>>, TBool))
      [] m \in {"count", "len"} -> Sig(<<>>, TInt)
      [] m = "sum" /\ t \in {TInt, TFloat} -> Sig(<<>>, t)
      [] m = "enumerate" -> Sig(<<>>, TList(TTuple(<<TInt, t>>)))
      [] m = "zip" -> Generic(Sig(<<TList(U)>>, TList(TTuple(<<t, U>>))), <<"$U">>)
      [] m = "rev" -> Sig(<<>>, TList(t))
      [] m \in {"take", "skip"} -> Sig(<<TInt>>, TList(t))
      [] m = "flat_map" -> Hof(Generic(Sig(<<Fun(t, TList(U))>>, TList(U)), <<"$U">>))
      [] m = "sort_by" -> Hof(Generic(Sig(<<Fun(t, TVar("$K"))>>, TList(t)), <<"$K">>))
      [] m = "chain" -> Sig(<<TList(t)>>, TList(t))
      [] m = "get" -> Sig(<<TInt>>, TOption(t))
      [] m = "is_empty" -> Sig(<<>>, TBool)
      [] m = "contains" -> Sig(<<t>>, TBool)
      [] m \in {"first", "last"} -> Sig(<<>>, TOption(t))
      [] m = "join" -> Sig(<<TStr>>, TStr)
      [] m = "slice" -> Sig(<<TInt, TInt>>, TList(t))
      [] m = "to_set" -> Sig(<<>>, TSet(t))
      [] m \in {"each", "par_each"} -> Hof(Sig(<<Fun(t, TVoid)>>, TVoid))
      [] m = "push" -> Mutating(Sig(<<t>>, TVoid))
      [] m = "pop" -> Mutating(Sig(<<>>, TOption(t)))
      [] m = "insert" -> Mutating(Sig(<<TInt, t>>, TVoid))
      [] m = "remove" -> Mutating(Sig(<<TInt>>, t))
      [] m = "extend" -> Mutating(Sig(<<TList(t)>>, TVoid))
      [] m = "clear" -> Mutating(Sig(<<>>, TVoid))
      [] m = "shuffle" -> WithEffects(Mutating(Sig(<<>>, TVoid)), {"rand"})
      [] OTHER -> NoSig

\* dict_method_sig
DictSig(key, v, m) ==
    LET kv == TTuple(<<key, v>>)
    IN  CASE m = "get" -> Sig(<<key>>, TOption(v))
          [] m = "contains_key" -> Sig(<<key>>, TBool)
          [] m = "keys" -> Sig(<<>>, TList(key))
          [] m = "values" -> Sig(<<>>, TList(v))
          [] m = "entries" -> Sig(<<>>, TList(kv))
          [] m = "len" -> Sig(<<>>, TInt)
          [] m = "is_empty" -> Sig(<<>>, TBool)
          [] m = "map" -> MapSig(kv)
          [] m = "filter" -> Hof(Sig(<<Pred(kv)>>, TDict(key, v)))
          [] m \in {"any", "all"} -> Hof(Sig(<<Pred(kv)>>, TBool))
          [] m = "find" -> Hof(Sig(<<Pred(kv)>>, TOption(kv)))
          [] m = "fold" -> FoldSig(kv)
          [] m = "each" -> Hof(Sig(<<Fun(kv, TVoid)>>, TVoid))
          [] m = "insert" -> Mutating(Sig(<<key, v>>, TOption(v)))
          [] m = "remove" -> Mutating(Sig(<<key>>, TOption(v)))
          [] m = "clear" -> Mutating(Sig(<<>>, TVoid))
          [] OTHER -> NoSig

\* set_method_sig
SetSig(t, m) ==
    CASE m = "contains" -> Sig(<<t>>, TBool)
      [] m \in {"len", "count"} -> Sig(<<>>, TInt)
      [] m = "is_empty" -> Sig(<<>>, TBool)
      [] m \in {"union", "intersection", "difference"} -> Sig(<<TSet(t)>>, TSet(t))
      [] m = "to_list" -> Sig(<<>>, TList(t))
      [] m = "map" -> MapSig(t)
      [] m = "filter" -> Hof(Sig(<<Pred(t)>>, TSet(t)))
      [] m \in {"any", "all"} -> Hof(Sig(<<Pred(t)>>, TBool))
      [] m = "find" -> Hof(Sig(<<Pred(t)>>, TOption(t)))
      [] m = "fold" -> FoldSig(t)
      [] m = "sum" /\ t \in {TInt, TFloat} -> Sig(<<>>, t)
      [] m = "each" -> Hof(Sig(<<Fun(t, TVoid)>>, TVoid))
      [] m \in {"insert", "remove"} -> Mutating(Sig(<<t>>, TBool))
      [] m = "clear" -> Mutating(Sig(<<>>, TVoid))
      [] OTHER -> NoSig

\* result_method_sig
ResultSig(t, err, m) ==
    CASE m \in {"is_ok", "is_err"} -> Sig(<<>>, TBool)
      [] m = "ok" -> Sig(<<>>, TOption(t))
      [] m = "err" -> Sig(<<>>, TOption(err))
      [] m = "unwrap" -> Sig(<<>>, t)
      [] m = "unwrap_or" -> Sig(<<t>>, t)
      [] m = "unwrap_or_else" -> Hof(Sig(<<Fun(err, t)>>, t))
      [] m = "map" -> Hof(Generic(Sig(<<Fun(t, U)>>, TResult(U, err)), <<"$U">>))
      [] m = "map_err" -> Hof(Generic(Sig(<<Fun(err, TVar("$F"))>>, TResult(t, TVar("$F"))), <<"$F">>))
      [] m = "and_then" -> Hof(Generic(Sig(<<Fun(t, TResult(U, err))>>, TResult(U, err)), <<"$U">>))
      [] OTHER -> NoSig

\* option_method_sig
OptionSig(t, m) ==
    CASE m \in {"is_some", "is_none"} -> Sig(<<>>, TBool)
      [] m = "unwrap" -> Sig(<<>>, t)
      [] m = "unwrap_or" -> Sig(<<t>>, t)
      [] m = "unwrap_or_else" -> Hof(Sig(<<TFn(<<>>, {}, t)>>, t))
      [] m = "map" -> Hof(Generic(Sig(<<Fun(t, U)>>, TOption(U)), <<"$U">>))
      [] m = "and_then" -> Hof(Generic(Sig(<<Fun(t, TOption(U))>>, TOption(U)), <<"$U">>))
      [] m = "filter" -> Hof(Sig(<<Pred(t)>>, TOption(t)))
      [] m = "ok_or" -> Generic(Sig(<<TVar("$E")>>, TResult(t, TVar("$E"))), <<"$E">>)
      [] OTHER -> NoSig

\* value_method_sig
ValueSig(m) ==
    CASE m = "as_int" -> Sig(<<>>, TOption(TInt))
      [] m = "as_float" -> Sig(<<>>, TOption(TFloat))
      [] m = "as_str" -> Sig(<<>>, TOption(TStr))
      [] m = "as_bool" -> Sig(<<>>, TOption(TBool))
      [] m = "as_list" -> Sig(<<>>, TOption(TList(TValue)))
      [] m = "as_dict" -> Sig(<<>>, TOption(TDict(TStr, TValue)))
      [] m = "is_null" -> Sig(<<>>, TBool)
      [] m = "get" -> Sig(<<TStr>>, TOption(TValue))
      [] m = "at" -> Sig(<<TInt>>, TOption(TValue))
      [] OTHER -> NoSig

\* dispatch_method: the signature of a built-in method for a receiver's type.
MethodSig(recv, m) ==
    CASE recv.k \in {"Int", "Float"} /\ m = "to_str" -> Sig(<<>>, TStr)
      [] recv.k = "Str" -> StrSig(m)
      [] recv.k = "List" -> ListSig(recv.a[1], m)
      [] recv.k = "Dict" -> DictSig(recv.a[1], recv.a[2], m)
      [] recv.k = "Set" -> SetSig(recv.a[1], m)
      [] recv.k = "Named" /\ recv.name = "Result" -> ResultSig(recv.a[1], recv.a[2], m)
      [] recv.k = "Named" /\ recv.name = "Option" -> OptionSig(recv.a[1], m)
      [] recv.k = "Named" /\ recv.name = "Value" -> ValueSig(m)
      [] OTHER -> NoSig
=============================================================================
