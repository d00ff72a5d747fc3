---------------------------- MODULE MCPipeline -----------------------------
(***************************************************************************)
(* Pipeline for TLC, on three families of programs: with up to two faults  *)
(* in any phases; with three doc blocks of any kinds, or that use the      *)
(* environment and files in any order; with up to three files of any small *)
(* sizes, to exercise the numbering of syntax nodes.                       *)
(***************************************************************************)
EXTENDS Pipeline

One(nodes) == <<[nodes |-> nodes, declares |-> TRUE]>>

BlocksOf(kinds) ==
  {[k \in DOMAIN s |-> [kind |-> s[k], outside |-> "env", file |-> 1, nodes |-> 1]] : s \in kinds}

Plain(f, n) == [kind |-> "plain", outside |-> "env", file |-> f, nodes |-> n]

Outsiders == [kind : {"changes", "reads"}, outside : Outside, file : {1}, nodes : {1}]

Faulty ==
  [faults : {F \in SUBSET Phases : Cardinality(F) <= 2},
   usesEntryLiteral : BOOLEAN, question : BOOLEAN, unformatted : BOOLEAN,
   files : {One(1)}, blocks : BlocksOf({<<>>, <<"plain">>, <<"bad">>})]

Blocky ==
  [faults : {{}}, usesEntryLiteral : {FALSE}, question : BOOLEAN, unformatted : {FALSE},
   files : {One(1)}, blocks : BlocksOf([1 .. 3 -> Kinds]) \cup [1 .. 3 -> Outsiders]]

Sized ==
  UNION {[faults : {{}}, usesEntryLiteral : {FALSE}, question : {FALSE}, unformatted : {FALSE},
          files : [1 .. n -> [nodes : 1 .. 3, declares : BOOLEAN]],
          blocks : {<<Plain(f, m)>> : f \in 1 .. n, m \in 1 .. 2}]
         : n \in 1 .. 3}

MCPrograms == Faulty \cup Blocky \cup Sized
=============================================================================
