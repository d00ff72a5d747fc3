------------------------------ MODULE Language ------------------------------
(***************************************************************************)
(* A program of the language from its first top-level statement to the end *)
(* of its run: the checker (TypeCheck) and the evaluator (Eval) composed   *)
(* as src/src/driver.rs composes them, statement by statement.             *)
(*                                                                         *)
(* The driver checks the whole file before anything runs.  Here the next   *)
(* statement is chosen when the ones before it have run, and is chosen     *)
(* only if the checker accepts it after them: the runs are the runs of     *)
(* every accepted sequence of statements.  The statements come from one of *)
(* several pools, chosen at the start, so that programs of many kinds are  *)
(* reached without mixing them all.                                        *)
(*                                                                         *)
(*   program  the declarations, from TypeCheck,                            *)
(*   pool     the pool this program's statements come from,                *)
(*   static   the bindings the checker has after them,                     *)
(*   env      the environment of the evaluator,                            *)
(*   outcome  "running", the code of the panic that ended the program, or  *)
(*            "stuck": an unreachable! was reached,                        *)
(*   last     of the last statement: the variables it names as targets of  *)
(*            a change, the effects it performed and those the effect      *)
(*            phase counts for it.                                         *)
(***************************************************************************)
EXTENDS Eval

CONSTANTS Programs, \* the declarations a run may have
          Pools,    \* a sequence of sets of statements
          MaxSize   \* the bound on the length of a collection or a text in a variable

VARIABLES pool, static, env, outcome, last
vars == <<program, pool, static, env, outcome, last>>

Global == env.scopes[1]

\* toplevel_propagation_abort
TopLevel(r) ==
    CASE r.k = "val" -> "running"
      [] r.k = "abort" -> r.v.code
      [] r.k = "ret" /\ r.v.k = "enum" /\ r.v.x = "Err" -> ToplevelErr
      [] r.k = "ret" /\ r.v.k = "enum" /\ r.v.x = "None" -> ToplevelNone
      [] OTHER -> "stuck"

RECURSIVE Small(_)
Small(v) == CASE v.k = "str" -> Len(v.s) <= MaxSize
              [] v.k \in {"list", "set", "dict", "tuple", "struct", "enum"} ->
                   /\ v.k \in {"list", "set", "dict"} => Len(v.vs) <= MaxSize
                   /\ \A i \in 1..Len(v.vs) : Small(v.vs[i])
              [] OTHER -> TRUE

\* The variables a statement may write: what it assigns to and what it calls a
\* mutating method on, by the text of the statement.  The body of a lambda and
\* the branches of a par work on copies.
Mutators == {"push", "pop", "insert", "remove", "extend", "clear", "shuffle"}
              \cup {m \in UNION {DOMAIN program.structs[x].methods : x \in DOMAIN program.structs} :
                      \E x \in DOMAIN program.structs : /\ m \in DOMAIN program.structs[x].methods
                                                        /\ program.structs[x].methods[m].self = "var self"}
RECURSIVE Written(_)
Written(e) ==
    (CASE e.k \in {"var", "assign"} -> {e.x}
       [] e.k \in {"fassign", "iassign"} -> {RootIdent(e.target)}
       [] e.k = "method" /\ e.x \in Mutators -> {RootIdent(e.e)}
       [] OTHER -> {})
      \cup (IF e.k = "par" THEN {} ELSE UNION {Written(Parts(e)[i]) : i \in 1..Len(Parts(e))})

Init ==
    /\ program \in Programs
    /\ DeclErrs = {}
    /\ pool \in 1..Len(Pools)
    /\ static = <<NoBindings>>
    /\ env = [scopes |-> <<NoBindings>>, ret |-> NoTy, depth |-> 0, fx |-> {}]
    /\ outcome = "running"
    /\ last = [targets |-> {}, fx |-> {}, use |-> {}]

\* run_top_level, for one accepted statement
Run(s) ==
    \E c \in {Check(s, NoTy, NoTy, static)} : \E r \in {Eval(s, env)} :
        /\ outcome = "running"
        /\ c.errs = {}
        /\ \A x \in DOMAIN r.env.scopes[1] : Small(r.env.scopes[1][x])
        /\ static' = c.g
        /\ env' = [r.env EXCEPT !.fx = {}]
        /\ outcome' = TopLevel(r)
        /\ last' = [targets |-> Written(s), fx |-> r.env.fx, use |-> c.use]
        /\ UNCHANGED <<program, pool>>

OfKind(kinds) == {s \in Pools[pool] : s.k \in kinds}
Assign == \E s \in OfKind({"var", "assign", "fassign", "iassign"}) : Run(s)
Evaluate == \E s \in OfKind({"discard", "expr"}) : Run(s)
Leave == \E s \in OfKind({"return"}) : Run(s)

Next == Assign \/ Evaluate \/ Leave

Spec == Init /\ [][Next]_vars

-----------------------------------------------------------------------------
(***************************************************************************)
(* What the checker promises the evaluator.                                *)
(***************************************************************************)

\* A program the checker accepts reaches none of the evaluator's unreachable!:
\* every value has the shape the code that takes it apart expects, every name
\* is found, every match has an arm that matches, and the two tables of
\* built-in methods agree.  It may panic, with one of the language's codes.
NeverStuck == outcome # "stuck"

\* The variables are those the checker bound, and each holds a value of the
\* type the checker gave it, with integers in range.
ValuesTyped ==
    outcome = "running" =>
      /\ pool \in 1..Len(Pools)
      /\ DOMAIN static[1] = DOMAIN Global
      /\ \A x \in DOMAIN Global : HasType(Global[x], static[1][x].ty)

\* A binding made without var keeps its value whatever runs later: a mutating
\* method, an assignment through a field or an index, a function or a closure
\* that was given the value (D-MUT-01).  Only a var of the same name replaces it.
ImmutableKept ==
    [][\A x \in DOMAIN Global : ~static[1][x].mutable /\ ~static'[1][x].mutable => Global'[x] = Global[x]]_vars

\* Values are copied (D-MUT-04): a statement changes no variable but those it
\* names as the target of a change.  A callee, a closure, a branch of a par or
\* an alias made by an assignment never reaches back into a variable.
OnlyTargetsChange ==
    [][\A x \in DOMAIN Global : Global'[x] # Global[x] => x \in last'.targets]_vars

\* The effect phase counts every effect a statement performs when it runs
\* (D-FUNC-03): a function whose body is that statement has to declare it.
EffectsCounted == last.fx \subseteq last.use
=============================================================================
