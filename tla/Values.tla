------------------------------- MODULE Values -------------------------------
(***************************************************************************)
(* Runtime values and what is computed from values alone:                  *)
(* src/src/eval/value.rs, eval/ops.rs, and of src/src/stdlib the methods   *)
(* in collections.rs, result_option.rs, value_type.rs, primitives.rs and   *)
(* math.rs that call no function of the program.                           *)
(*                                                                         *)
(* An int, float, bool or str value is the literal that denotes it.  A str *)
(* is the sequence of its characters, a set the sequence of its elements   *)
(* and a dict the sequences of its keys and values, all in insertion       *)
(* order.  Integers run from MinInt to MaxInt, with the checked arithmetic *)
(* of i64; floats are whole numbers and never overflow.                    *)
(*                                                                         *)
(* What an evaluation comes to is an outcome:                              *)
(*   "val"    a value,                                                     *)
(*   "ret"    the value a return or a ? leaves the function with,          *)
(*   "abort"  a panic of the language, with its code,                      *)
(*   "stuck"  an unreachable! of the evaluator: the checker should have    *)
(*            rejected the program.                                        *)
(***************************************************************************)
EXTENDS Ast

CONSTANT MaxInt

ASSUME IntAssumption == MaxInt \in Nat

MinInt == -(MaxInt + 1)

ListV(vs) == [k |-> "list", vs |-> vs]
TupleV(vs) == [k |-> "tuple", vs |-> vs]
SetV(vs) == [k |-> "set", vs |-> vs]
DictV(ks, vs) == [k |-> "dict", ks |-> ks, vs |-> vs]
StructV(name, vs) == [k |-> "struct", name |-> name, vs |-> vs]
EnumV(name, x, vs) == [k |-> "enum", name |-> name, x |-> x, vs |-> vs]
\* fn names a function of the program, "" for a lambda with its captured bindings
ClosureV(fn, params, body, captured) ==
    [k |-> "closure", fn |-> fn, params |-> params, body |-> body, captured |-> captured]
Void == [k |-> "void"]
Some(v) == EnumV("Option", "Some", <<v>>)
None == EnumV("Option", "None", <<>>)
Ok(v) == EnumV("Result", "Ok", <<v>>)
Err(v) == EnumV("Result", "Err", <<v>>)
ErrorV(kind) == StructV("Error", <<StringLit(kind), StringLit(<<>>), None>>)
OptionOf(there, v) == IF there THEN Some(v) ELSE None

Done(v) == [k |-> "val", v |-> v]
Panic(code) == [k |-> "abort", v |-> [k |-> "code", code |-> code]]
Stuck == [k |-> "stuck", v |-> Void]
OrStuck(typed, o) == IF typed THEN o ELSE Stuck

OutOfRange == "E6001"
DivByZero == "E6002"
Overflow == "E6003"
UnwrapFailed == "E6004"
ToplevelErr == "E6005"
ToplevelNone == "E6006"
AssertFailed == "E6007"
StackOverflow == "E6008"

(***************************************************************************)
(* value.rs: equality and keys.                                            *)
(***************************************************************************)
\* Structural, in any order for sets and dicts; a closure equals nothing
RECURSIVE Equal(_, _)
Equal(v, w) ==
    LET SameItems == Len(v.vs) = Len(w.vs) /\ \A i \in 1..Len(v.vs) : Equal(v.vs[i], w.vs[i])
        At(d, key) == d.vs[CHOOSE i \in 1..Len(d.ks) : d.ks[i] = key]
    IN  /\ v.k = w.k
        /\ CASE v.k = "closure" -> FALSE
             [] v.k \in {"list", "tuple"} -> SameItems
             [] v.k = "struct" -> v.name = w.name /\ SameItems
             [] v.k = "enum" -> v.name = w.name /\ v.x = w.x /\ SameItems
             [] v.k = "set" -> ToSet(v.vs) = ToSet(w.vs)
             [] v.k = "dict" -> /\ ToSet(v.ks) = ToSet(w.ks)
                                /\ \A key \in ToSet(v.ks) : Equal(At(v, key), At(w, key))
             [] OTHER -> v = w

\* MapKey::try_from_value succeeds
RECURSIVE IsKey(_)
IsKey(v) == \/ v.k \in {"int", "bool", "str"}
            \/ v.k = "tuple" /\ \A i \in 1..Len(v.vs) : IsKey(v.vs[i])

Position(xs, x) == IF \E i \in 1..Len(xs) : xs[i] = x THEN CHOOSE i \in 1..Len(xs) : xs[i] = x ELSE 0
AddKey(xs, x) == IF Position(xs, x) = 0 THEN Append(xs, x) ELSE xs
Keys(xs) == FoldLeft(AddKey, <<>>, xs)
\* IndexMap::insert: a key already there keeps its place
DictPut(d, key, v) ==
    LET i == Position(d.ks, key)
    IN  IF i = 0 THEN DictV(Append(d.ks, key), Append(d.vs, v)) ELSE [d EXCEPT !.vs[i] = v]
DictGet(d, key) == LET i == Position(d.ks, key)
                   IN  IF i = 0 THEN None ELSE Some(d.vs[i])
Pairs(d) == [i \in 1..Len(d.ks) |-> TupleV(<<d.ks[i], d.vs[i]>>)]
Where(xs, keep) == LET is == SelectSeq([i \in 1..Len(xs) |-> i], LAMBDA i : keep[i])
                   IN  [j \in 1..Len(is) |-> xs[is[j]]]

(***************************************************************************)
(* ops.rs.                                                                 *)
(***************************************************************************)
Fits(n) == n \in MinInt..MaxInt
CheckedInt(n) == IF Fits(n) THEN Done(IntLit(n)) ELSE Panic(Overflow)
Magnitude(n) == IF n < 0 THEN -n ELSE n
\* Division towards zero and the remainder that goes with it
Quotient(a, b) == LET q == Magnitude(a) \div Magnitude(b) IN IF (a < 0) # (b < 0) THEN -q ELSE q
Remainder(a, b) == a - b * Quotient(a, b)

CharOrder == <<"-", ".", "0", "1", "2", "3", "4", "5", "6", "7", "8", "9",
               "a", "b", "c", "d", "e", "f", "l", "n", "r", "s", "t", "u">>
RECURSIVE StrLess(_, _)
StrLess(s, t) ==
    CASE t = <<>> -> FALSE
      [] s = <<>> -> TRUE
      [] s[1] = t[1] -> StrLess(Tail(s), Tail(t))
      [] OTHER -> Position(CharOrder, s[1]) < Position(CharOrder, t[1])
ValueLess(v, w) == IF v.k = "str" THEN StrLess(v.s, w.s) ELSE v.n < w.n

IntOp(op, a, b) ==
    CASE op = "+" -> CheckedInt(a + b)
      [] op = "-" -> CheckedInt(a - b)
      [] op = "*" -> CheckedInt(a * b)
      [] b = 0 -> Panic(DivByZero)
      [] op = "/" -> CheckedInt(Quotient(a, b))
      \* checked_rem has no answer where the quotient overflows
      [] op = "%" -> IF Fits(Quotient(a, b)) THEN Done(IntLit(Remainder(a, b))) ELSE Panic(DivByZero)
FloatOp(op, a, b) == Done(FloatLit(CASE op = "+" -> a + b [] op = "-" -> a - b [] op = "*" -> a * b))

\* eval_binary, for every operator but and/or
BinaryOp(op, v, w) ==
    CASE op = "==" -> Done(BoolLit(Equal(v, w)))
      [] op = "!=" -> Done(BoolLit(~Equal(v, w)))
      [] v.k # w.k -> Stuck
      [] op \in {"<", "<=", ">", ">="} ->
           OrStuck(v.k \in {"int", "float", "str"},
                   Done(BoolLit(CASE op = "<" -> ValueLess(v, w) [] op = "<=" -> ~ValueLess(w, v)
                                  [] op = ">" -> ValueLess(w, v) [] op = ">=" -> ~ValueLess(v, w))))
      [] v.k = "int" -> IntOp(op, v.n, w.n)
      [] v.k = "float" /\ op # "%" -> FloatOp(op, v.n, w.n)
      [] op = "+" /\ v.k = "str" -> Done(StringLit(v.s \o w.s))
      [] op = "+" /\ v.k = "list" -> Done(ListV(v.vs \o w.vs))
      [] OTHER -> Stuck

\* eval_unary
UnaryOp(op, v) ==
    CASE op = "-" /\ v.k = "int" -> CheckedInt(-v.n)
      [] op = "-" /\ v.k = "float" -> Done(FloatLit(-v.n))
      [] op = "not" /\ v.k = "bool" -> Done(BoolLit(~v.on))
      [] OTHER -> Stuck

(***************************************************************************)
(* primitives.rs.                                                          *)
(***************************************************************************)
Digits == <<"0", "1", "2", "3", "4", "5", "6", "7", "8", "9">>
RECURSIVE Decimal(_)
Decimal(n) == IF n < 10 THEN <<Digits[n + 1]>> ELSE Append(Decimal(n \div 10), Digits[(n % 10) + 1])
Signed(n) == IF n < 0 THEN <<"-">> \o Decimal(-n) ELSE Decimal(n)

\* str_from_value, int_to_str, float_to_str; a str is itself in an f-string
Text(v) ==
    CASE v.k = "int" -> Done(StringLit(Signed(v.n)))
      [] v.k = "float" -> Done(StringLit(Signed(v.n) \o <<".", "0">>))
      [] v.k = "bool" -> Done(StringLit(IF v.on THEN <<"t", "r", "u", "e">> ELSE <<"f", "a", "l", "s", "e">>))
      [] v.k = "str" -> Done(v)
      [] OTHER -> Stuck

\* str_parse_int, of a text with no blanks to trim
ParseInt(s) ==
    LET signed == s # <<>> /\ s[1] = "-"
        ds == IF signed THEN Tail(s) ELSE s
        n == FoldLeft(LAMBDA acc, c : 10 * acc + Position(Digits, c) - 1, 0, ds)
        m == IF signed THEN -n ELSE n
    IN  IF ds # <<>> /\ (\A i \in 1..Len(ds) : Position(Digits, ds[i]) # 0) /\ Fits(m)
          THEN Ok(IntLit(m))
          ELSE Err(ErrorV(<<"e">>))

Chars(s) == ListV([i \in 1..Len(s) |-> StringLit(<<s[i]>>)])
OccursAt(s, t, i) == i + Len(t) - 1 <= Len(s) /\ SubSeq(s, i, i + Len(t) - 1) = t
FirstAt(s, t) == IF \E i \in 1..Len(s) + 1 : OccursAt(s, t, i)
                   THEN CHOOSE i \in 1..Len(s) + 1 : OccursAt(s, t, i) /\ \A j \in 1..i - 1 : ~OccursAt(s, t, j)
                   ELSE 0
SliceFits(a, b, len) == 0 <= a /\ a <= b /\ b <= len
Clamp(n, len) == IF n < 0 THEN 0 ELSE IF n > len THEN len ELSE n
RECURSIVE Repeated(_, _)
Repeated(s, n) == IF n <= 0 THEN <<>> ELSE s \o Repeated(s, n - 1)

\* Each argument is of its kind
Kinds(args, ks) == Len(args) = Len(ks) /\ \A i \in 1..Len(ks) : ks[i] \in {"any", args[i].k}

\* str_method, for the methods that are its own
StrMethod(s, m, args) ==
    CASE m \in {"len", "count"} -> Done(IntLit(Len(s)))
      [] m = "is_empty" -> Done(BoolLit(s = <<>>))
      [] m = "to_str" -> Done(StringLit(s))
      [] m = "chars" -> Done(Chars(s))
      [] m = "parse_int" -> Done(ParseInt(s))
      [] m = "get" -> OrStuck(Kinds(args, <<"int">>),
                              Done(OptionOf(args[1].n \in 0..Len(s) - 1, StringLit(<<s[args[1].n + 1]>>))))
      [] m = "repeat" -> OrStuck(Kinds(args, <<"int">>), Done(StringLit(Repeated(s, args[1].n))))
      [] m = "slice" -> OrStuck(Kinds(args, <<"int", "int">>),
                                IF SliceFits(args[1].n, args[2].n, Len(s))
                                  THEN Done(StringLit(SubSeq(s, args[1].n + 1, args[2].n)))
                                  ELSE Panic(OutOfRange))
      [] ~Kinds(args, <<"str">>) -> Stuck
      [] m = "contains" -> Done(BoolLit(FirstAt(s, args[1].s) # 0))
      [] m = "starts_with" -> Done(BoolLit(OccursAt(s, args[1].s, 1)))
      [] m = "ends_with" -> Done(BoolLit(/\ Len(args[1].s) <= Len(s)
                                         /\ OccursAt(s, args[1].s, Len(s) - Len(args[1].s) + 1)))
      [] m = "find" -> Done(OptionOf(FirstAt(s, args[1].s) # 0, IntLit(FirstAt(s, args[1].s) - 1)))
      [] OTHER -> Stuck

(***************************************************************************)
(* collections.rs, without the methods that call a closure.                *)
(***************************************************************************)
\* sum_values
Sum(vs) == IF vs # <<>> /\ vs[1].k = "float"
             THEN Done(FloatLit(FoldLeft(LAMBDA acc, v : acc + v.n, 0, vs)))
             ELSE FoldLeft(LAMBDA o, v : IF o.k = "val" THEN CheckedInt(o.v.n + v.n) ELSE o, Done(IntLit(0)), vs)
Joined(vs, sep) == FoldLeft(LAMBDA acc, i : acc \o (IF i = 1 THEN <<>> ELSE sep) \o vs[i].s,
                            <<>>, [i \in 1..Len(vs) |-> i])
\* A stable sort of vs by the keys ks: compare_sort_keys
SortedBy(vs, ks) ==
    LET is == [i \in 1..Len(vs) |-> i]
        Earlier(i, j) == ValueLess(ks[i], ks[j]) \/ (~ValueLess(ks[j], ks[i]) /\ i < j)
        order == SortSeq(is, Earlier)
    IN  [i \in 1..Len(vs) |-> vs[order[i]]]

\* list_method_readonly; m is not a mutating method
ListMethod(vs, m, args) ==
    LET n == Len(vs)
        Cut == Clamp(args[1].n, n)
    IN  CASE m \in {"len", "count"} -> Done(IntLit(n))
          [] m = "is_empty" -> Done(BoolLit(n = 0))
          [] m = "first" -> Done(OptionOf(n # 0, vs[1]))
          [] m = "last" -> Done(OptionOf(n # 0, vs[n]))
          [] m = "rev" -> Done(ListV(Reverse(vs)))
          [] m = "sum" -> OrStuck(\A i \in 1..n : vs[i].k \in {"int", "float"}, Sum(vs))
          [] m = "enumerate" -> Done(ListV([i \in 1..n |-> TupleV(<<IntLit(i - 1), vs[i]>>)]))
          [] m = "to_set" -> OrStuck(\A i \in 1..n : IsKey(vs[i]), Done(SetV(Keys(vs))))
          [] m = "contains" -> Done(BoolLit(\E i \in 1..n : Equal(vs[i], args[1])))
          [] m = "slice" -> OrStuck(Kinds(args, <<"int", "int">>),
                                    IF SliceFits(args[1].n, args[2].n, n)
                                      THEN Done(ListV(SubSeq(vs, args[1].n + 1, args[2].n)))
                                      ELSE Panic(OutOfRange))
          [] m \in {"take", "skip", "get"} ->
               OrStuck(Kinds(args, <<"int">>),
                       Done(CASE m = "take" -> ListV(SubSeq(vs, 1, Cut))
                              [] m = "skip" -> ListV(SubSeq(vs, Cut + 1, n))
                              [] m = "get" -> OptionOf(args[1].n \in 0..n - 1, vs[args[1].n + 1])))
          [] m = "join" -> OrStuck(Kinds(args, <<"str">>) /\ \A i \in 1..n : vs[i].k = "str",
                                   Done(StringLit(Joined(vs, args[1].s))))
          [] m = "chain" -> OrStuck(Kinds(args, <<"list">>), Done(ListV(vs \o args[1].vs)))
          [] m = "zip" -> OrStuck(Kinds(args, <<"list">>),
                                  Done(ListV([i \in 1..Min({n, Len(args[1].vs)}) |->
                                                TupleV(<<vs[i], args[1].vs[i]>>)])))
          [] OTHER -> Stuck

\* dict_method_readonly
DictMethod(d, m, args) ==
    CASE m = "keys" -> Done(ListV(d.ks))
      [] m = "values" -> Done(ListV(d.vs))
      [] m = "entries" -> Done(ListV(Pairs(d)))
      [] m = "len" -> Done(IntLit(Len(d.ks)))
      [] m = "is_empty" -> Done(BoolLit(d.ks = <<>>))
      [] m \in {"get", "contains_key"} ->
           OrStuck(Len(args) = 1 /\ IsKey(args[1]),
                   Done(IF m = "get" THEN DictGet(d, args[1]) ELSE BoolLit(Position(d.ks, args[1]) # 0)))
      [] OTHER -> Stuck

\* set_method_readonly
SetMethod(vs, m, args) ==
    CASE m \in {"len", "count"} -> Done(IntLit(Len(vs)))
      [] m = "is_empty" -> Done(BoolLit(vs = <<>>))
      [] m = "to_list" -> Done(ListV(vs))
      [] m = "sum" -> OrStuck(\A i \in 1..Len(vs) : vs[i].k = "int", Sum(vs))
      [] m = "contains" -> OrStuck(IsKey(args[1]), Done(BoolLit(Position(vs, args[1]) # 0)))
      [] ~Kinds(args, <<"set">>) -> Stuck
      [] m = "union" -> Done(SetV(Keys(vs \o args[1].vs)))
      [] m = "intersection" -> Done(SetV(SelectSeq(vs, LAMBDA v : Position(args[1].vs, v) # 0)))
      [] m = "difference" -> Done(SetV(SelectSeq(vs, LAMBDA v : Position(args[1].vs, v) = 0)))
      [] OTHER -> Stuck

\* Mutating methods give what is returned and the collection after: list_mutate
Mutated(v, after) == Done([result |-> v, after |-> after])
ListMutate(vs, m, args) ==
    LET n == Len(vs)
        At == args[1].n + 1
    IN  CASE m = "push" -> Mutated(Void, ListV(Append(vs, args[1])))
          [] m = "pop" -> IF vs = <<>> THEN Mutated(None, ListV(vs)) ELSE Mutated(Some(vs[n]), ListV(Front(vs)))
          [] m = "clear" -> Mutated(Void, ListV(<<>>))
          [] m = "shuffle" -> Mutated(Void, ListV(Reverse(vs)))  \* one order of many
          [] m = "extend" -> OrStuck(Kinds(args, <<"list">>), Mutated(Void, ListV(vs \o args[1].vs)))
          [] args[1].k # "int" -> Stuck
          [] m = "insert" -> IF At \in 1..n + 1 THEN Mutated(Void, ListV(InsertAt(vs, At, args[2])))
                                                ELSE Panic(OutOfRange)
          [] m = "remove" -> IF At \in 1..n THEN Mutated(vs[At], ListV(RemoveAt(vs, At)))
                                            ELSE Panic(OutOfRange)

\* dict_mutate
DictMutate(d, m, args) ==
    LET at == Position(d.ks, args[1])
    IN  CASE m = "clear" -> Mutated(Void, DictV(<<>>, <<>>))
          [] ~IsKey(args[1]) -> Stuck
          [] m = "insert" -> Mutated(DictGet(d, args[1]), DictPut(d, args[1], args[2]))
          [] m = "remove" -> Mutated(DictGet(d, args[1]),
                                     IF at = 0 THEN d ELSE DictV(RemoveAt(d.ks, at), RemoveAt(d.vs, at)))

\* set_mutate
SetMutate(vs, m, args) ==
    LET at == Position(vs, args[1])
    IN  CASE m = "clear" -> Mutated(Void, SetV(<<>>))
          [] ~IsKey(args[1]) -> Stuck
          [] m = "insert" -> Mutated(BoolLit(at = 0), SetV(AddKey(vs, args[1])))
          [] m = "remove" -> Mutated(BoolLit(at # 0), SetV(IF at = 0 THEN vs ELSE RemoveAt(vs, at)))

(***************************************************************************)
(* result_option.rs and value_type.rs, without the methods that call a     *)
(* closure.  Good is Ok or Some.                                           *)
(***************************************************************************)
Good(v) == v.x \in {"Ok", "Some"}

VariantMethod(v, m, args) ==
    CASE m \in {"is_ok", "is_some"} -> Done(BoolLit(Good(v)))
      [] m \in {"is_err", "is_none"} -> Done(BoolLit(~Good(v)))
      [] m = "ok" -> Done(OptionOf(Good(v), v.vs[1]))
      [] m = "err" -> Done(OptionOf(~Good(v), v.vs[1]))
      [] m = "unwrap" -> IF Good(v) THEN Done(v.vs[1]) ELSE Panic(UnwrapFailed)
      [] m = "unwrap_or" -> Done(IF Good(v) THEN v.vs[1] ELSE args[1])
      [] m = "ok_or" -> Done(IF Good(v) THEN Ok(v.vs[1]) ELSE Err(args[1]))
      [] OTHER -> Stuck

Payload == [as_int |-> "Int", as_float |-> "Float", as_str |-> "Str", as_bool |-> "Bool",
            as_list |-> "List", as_dict |-> "Dict"]
ValueMethod(v, m, args) ==
    CASE m \in DOMAIN Payload -> Done(OptionOf(v.x = Payload[m], v.vs[1]))
      [] m = "is_null" -> Done(BoolLit(v.x = "Null"))
      [] m = "get" -> OrStuck(Kinds(args, <<"str">>), Done(IF v.x = "Dict" THEN DictGet(v.vs[1], args[1]) ELSE None))
      [] m = "at" -> IF v.x = "List" THEN ListMethod(v.vs[1].vs, "get", args) ELSE Done(None)
      [] OTHER -> Stuck

(***************************************************************************)
(* math.rs, and the namespaces that reach outside: one answer of the       *)
(* declared type stands for what the world may say.                        *)
(***************************************************************************)
MathCall(m, args) ==
    LET a == args[1].n
        b == args[2].n
        CheckedOption(o) == Done(OptionOf(o.k = "val", o.v))
    IN  CASE m = "checked_add" -> CheckedOption(IntOp("+", a, b))
          [] m = "checked_sub" -> CheckedOption(IntOp("-", a, b))
          [] m = "checked_mul" -> CheckedOption(IntOp("*", a, b))
          [] m = "checked_div" -> CheckedOption(IntOp("/", a, b))
          [] m = "checked_mod" -> CheckedOption(IntOp("%", a, b))
          \* wrapping_abs: the least integer is its own magnitude
          [] m = "abs_int" -> Done(IntLit(IF a = MinInt THEN a ELSE Magnitude(a)))
          [] m \in {"min_int", "max_int"} -> Done(IntLit(IF (a < b) = (m = "min_int") THEN a ELSE b))
          [] m = "abs_float" -> Done(FloatLit(Magnitude(a)))
          [] m \in {"min_float", "max_float"} -> Done(FloatLit(IF (a < b) = (m = "min_float") THEN a ELSE b))
          \* a whole number rounds to itself, saturating
          [] m \in {"floor", "ceil", "round"} ->
               Done(IntLit(IF a < MinInt THEN MinInt ELSE IF a > MaxInt THEN MaxInt ELSE a))
          [] OTHER -> Stuck

OutsideCall(ns, m) ==
    CASE m \in {"now", "int"} -> Done(IntLit(0))
      [] m \in {"exists", "bool"} -> Done(BoolLit(FALSE))
      [] m \in {"sleep", "set"} -> Done(Void)
      [] ns = "env" /\ m = "get" -> Done(None)
      [] m \in {"read", "get", "run"} -> Done(Err(ErrorV(<<"e">>)))
      [] m \in {"write", "append", "remove"} -> Done(None)
      [] OTHER -> Stuck
=============================================================================
