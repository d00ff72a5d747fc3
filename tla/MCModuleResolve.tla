---------------------------- MODULE MCModuleResolve ----------------------------
(***************************************************************************)
(* ModuleResolve for TLC: all programs with three constants that may refer to   *)
(* each other, over two modules, and all with three declarations or statements  *)
(* over an entry and one or two modules.                                    *)
(***************************************************************************)
EXTENDS ModuleResolve

MCNames == {"a", "b", "c", "d", "e"}
MCPrelude == {<<"enums", "c">>, <<"variants", "e">>}

Lit(e) == [form |-> "bare", of |-> <<e>>]
List(es) == [form |-> "list", of |-> es]
Set(es) == [form |-> "set", of |-> es]

Refs == {"a", "b", "d"}

(* What a constant may be: literals, references, lists and sets, empty, mixed,   *)
(* of floats, and with a reference before or after a literal.                 *)
Forms ==
  {Lit(e) : e \in {"int"} \cup Refs} \cup
  {List(<<"int", e>>) : e \in Refs} \cup
  {List(<<e, "float">>) : e \in Refs} \cup
  {Set(<<e>>) : e \in {"float"} \cup Refs} \cup {Set(<<>>)}

ConstItem(n, x) == [kind |-> "const", name |-> n, form |-> x.form, of |-> x.of]
DeclItem(t, ns) == [kind |-> "decl", table |-> t, names |-> ns]
StmtItem == [kind |-> "stmt"]
Module(items) == [directive |-> TRUE, items |-> items]
Entry(items) == [directive |-> FALSE, items |-> items]

(* Two modules with three constants, in every order of dependence.             *)
Constants ==
  {<<Entry(<<>>), Module(<<ConstItem("a", x), ConstItem("b", y)>>),
     Module(<<ConstItem("d", z)>>)>> : x \in Forms, y \in Forms, z \in Forms}

(* An entry and two modules that declare the same names and the prelude's.       *)
Pool ==
  {DeclItem("functions", <<"a">>), DeclItem("structs", <<"a">>), DeclItem("enums", <<"b", "a">>),
   DeclItem("enums", <<"c", "b">>), DeclItem("functions", <<"e">>), StmtItem,
   ConstItem("a", Lit("int")), ConstItem("b", Set(<<"a">>))}

Declarers ==
  {<<Entry(<<i>>), Module(<<j>>), Module(<<k>>)>> : i \in Pool, j \in Pool, k \in Pool} \cup
  {<<Entry(<<i, j>>), Module(<<k>>)>> : i \in Pool, j \in Pool, k \in Pool}

MCPrograms == Constants \cup Declarers
=============================================================================
