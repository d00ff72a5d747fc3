--------------------------- MODULE PipelineProofs ---------------------------
(***************************************************************************)
(* Theorems about Pipeline, for any set of programs and any session of     *)
(* commands: its types, that nothing is executed or rewritten after a      *)
(* finding, that one phase reports, and that doc blocks are independent.   *)
(***************************************************************************)
EXTENDS Pipeline, FiniteSetTheorems, SequenceTheorems, TLAPS

Order == <<"read", "lex", "parse", "resolve", "type", "effect", "lint">>
Place(x) == CHOOSE i \in DOMAIN Order : Order[i] = x

(* No other phase of those comes before d.                                 *)
Earliest(d, phases) == \A e \in phases \ {d} : Place(d) < Place(e)

(* A stage is reached with the phases before it clean, by the commands     *)
(* that have it; the server's doc blocks, also after a finding of effects  *)
(* or lint.                                                                *)
StageInv ==
  /\ stage \notin {"read", "done"} => "read" \notin prog.faults
  /\ stage \notin {"read", "lex", "done"} => "lex" \notin prog.faults
  /\ stage \notin {"read", "lex", "parse", "done"} => "parse" \notin prog.faults
  /\ stage \notin {"read", "lex", "parse", "resolve", "done"} => "resolve" \notin prog.faults
  /\ stage \in {"effect", "lint", "execute", "fences", "blocks", "format"} =>
       "type" \notin prog.faults
  /\ stage \in {"lint", "execute", "blocks", "format"} => "effect" \notin prog.faults
  /\ stage \in {"blocks", "format"} => "lint" \notin prog.faults
  /\ stage = "fences" /\ diags = {} => prog.faults \cap {"effect", "lint"} = {}
  /\ stage = "execute" => command = "run"
  /\ stage \in {"lint", "fences", "blocks", "format"} => command # "run"
  /\ stage = "fences" => command # "test"
  /\ stage = "blocks" => command = "test"
  /\ stage = "format" => command \in {"check", "apply"}

(* Until the command ends only the server's phases have reported.          *)
DiagsInv ==
  /\ stage \notin {"fences", "done"} => diags = {}
  /\ stage = "fences" =>
       \/ diags = {}
       \/ diags = {"effect"} /\ command = "lsp"
       \/ diags = {"lint"} /\ command = "lsp" /\ "effect" \notin prog.faults
  /\ \/ diags = {}
     \/ \E d \in diags : diags = {d}
     \/ command = "lsp" /\ \E d \in diags : diags = {d, "fence"}
  /\ \A d \in diags \cap prog.faults : Earliest(d, prog.faults)

(* What was executed and written.                                          *)
RanInv ==
  /\ stage \notin {"blocks", "done"} => ran = {}
  /\ stage # "done" => ~written /\ Entry \notin ran
  /\ OnlyOnSuccess

(* What the doc blocks so far have come to.                                *)
BlocksInv ==
  /\ stage \notin {"fences", "blocks", "format", "done"} => results = <<>> /\ changed = {}
  /\ stage \in {"effect", "lint", "execute", "fences", "blocks"} => entry
  /\ stage = "fences" =>
       \A k \in DOMAIN results : results[k] = "pass" => prog.blocks[k].kind # "bad"
  /\ stage = "format" => \A k \in DOMAIN prog.blocks : prog.blocks[k].kind # "bad"
  /\ stage = "blocks" =>
       \A s \in changed : \E j \in DOMAIN results :
         prog.blocks[j].kind = "changes" /\ prog.blocks[j].outside = s

IInv == /\ TypeOK /\ StageInv /\ DiagsInv /\ RanInv /\ BlocksInv
        /\ FenceIdsFresh /\ BlocksIndependent

----------------------------------------------------------------------------
(* The phases have the order the report is stated in.                      *)
LEMMA Places ==
  /\ Place("read") = 1 /\ Place("lex") = 2 /\ Place("parse") = 3 /\ Place("resolve") = 4
  /\ Place("type") = 5 /\ Place("effect") = 6 /\ Place("lint") = 7
<1>1. /\ DOMAIN Order = 1 .. 7
      /\ Order[1] = "read" /\ Order[2] = "lex" /\ Order[3] = "parse" /\ Order[4] = "resolve"
      /\ Order[5] = "type" /\ Order[6] = "effect" /\ Order[7] = "lint"
  BY DEF Order
<1>2. \A i \in 1 .. 7 : Place(Order[i]) = i
  BY <1>1 DEF Place
<1>3. QED
  BY <1>1, <1>2

(* What the assumption on programs says of the one at hand.                *)
LEMMA ProgType ==
  ASSUME prog \in Programs
  PROVE  /\ prog.faults \subseteq Phases
         /\ prog.files \in Seq([nodes : Nat, declares : BOOLEAN])
         /\ prog.blocks \in
              Seq([kind : Kinds, outside : Outside, file : DOMAIN prog.files, nodes : Nat])
  BY Parameters DEF Program

(* While a block is left, Block is one of the program's, with a kind, a    *)
(* file and a number of nodes.                                             *)
LEMMA BlockType ==
  ASSUME TypeOK, BlocksLeft
  PROVE  /\ Len(results) \in Nat /\ Len(results) + 1 \in DOMAIN prog.blocks
         /\ Block = prog.blocks[Len(results) + 1]
         /\ Block.file \in DOMAIN prog.files /\ Block.nodes \in Nat /\ Block.kind \in Kinds
         /\ Block.outside \in Outside
<1>1. Len(results) \in Nat /\ Len(results) + 1 \in 1 .. Len(prog.blocks)
  BY ProgType DEF TypeOK, BlocksLeft
<1>2. prog.blocks \in
        Seq([kind : Kinds, outside : Outside, file : DOMAIN prog.files, nodes : Nat])
  BY ProgType DEF TypeOK
<1>3. prog.blocks[Len(results) + 1] \in
        [kind : Kinds, outside : Outside, file : DOMAIN prog.files, nodes : Nat]
  BY <1>1, <1>2, ElementOfSeq
<1>4. QED
  BY <1>1, <1>3 DEF Block

(* Appending one block's result.                                           *)
LEMMA ResultsGrow ==
  ASSUME TypeOK, BlocksLeft, NEW r \in {"pass", "fail"}, results' = Append(results, r)
  PROVE  /\ results' \in Seq({"pass", "fail"})
         /\ Len(results') = Len(results) + 1 /\ Len(results') <= Len(prog.blocks)
         /\ DOMAIN results' = DOMAIN results \cup {Len(results) + 1}
         /\ \A k \in DOMAIN results : k # Len(results) + 1 /\ results'[k] = results[k]
         /\ results'[Len(results) + 1] = r
<1>1. /\ results \in Seq({"pass", "fail"}) /\ Len(results) \in Nat
      /\ DOMAIN results = 1 .. Len(results)
  BY DEF TypeOK
<1>2. Len(results') <= Len(prog.blocks)
  BY DEF BlocksLeft
<1>3. QED
  BY <1>1, <1>2

----------------------------------------------------------------------------
(* Node ids. Nodes(S) counts the pairs of a file of S and one of its       *)
(* nodes.                                                                  *)
NodesOf(S) == UNION {{i} \X (1 .. prog.files[i].nodes) : i \in S}

(* The files are numbered from 1 and each has a number of nodes.           *)
LEMMA FileType ==
  ASSUME prog \in Programs
  PROVE  /\ Len(prog.files) \in Nat /\ DOMAIN prog.files = 1 .. Len(prog.files)
         /\ \A i \in DOMAIN prog.files : prog.files[i].nodes \in Nat
<1>1. prog.files \in Seq([nodes : Nat, declares : BOOLEAN])
  BY ProgType
<1>2. \A i \in 1 .. Len(prog.files) : prog.files[i] \in [nodes : Nat, declares : BOOLEAN]
  BY <1>1, ElementOfSeq
<1>3. QED
  BY <1>2

(* The nodes of some files are finitely many, so they have a number.       *)
LEMMA NodesFinite ==
  ASSUME prog \in Programs, NEW S \in SUBSET DOMAIN prog.files
  PROVE  IsFiniteSet(NodesOf(S)) /\ Nodes(S) \in Nat
<1> DEFINE T == {{i} \X (1 .. prog.files[i].nodes) : i \in S}
           g == [i \in S |-> {i} \X (1 .. prog.files[i].nodes)]
<1>1. IsFiniteSet(S)
  <2>1. IsFiniteSet(DOMAIN prog.files)
    BY FileType, FS_Interval
  <2>2. QED
    BY <2>1, FS_Subset
<1>2. g \in Surjection(S, T)
  BY DEF Surjection
<1>3. IsFiniteSet(T)
  BY <1>1, <1>2, FS_Surjection
<1>4. \A X \in T : IsFiniteSet(X)
  <2> SUFFICES ASSUME NEW i \in S PROVE IsFiniteSet({i} \X (1 .. prog.files[i].nodes))
    OBVIOUS
  <2>1. IsFiniteSet({i})
    BY FS_Singleton
  <2>2. IsFiniteSet(1 .. prog.files[i].nodes)
    <3>1. 1 \in Int /\ prog.files[i].nodes \in Int
      BY FileType
    <3>2. QED
      BY <3>1, FS_Interval
  <2>3. QED
    BY <2>1, <2>2, FS_Product
<1>5. IsFiniteSet(UNION T)
  BY <1>3, <1>4, FS_UNION
<1>6. QED
  BY <1>5, FS_CardinalityType DEF Nodes, NodesOf

(* The nodes of the files before one, and its own, are among those of all  *)
(* files: a file's ids stay below the number of all nodes.                 *)
LEMMA IdsBounded ==
  ASSUME prog \in Programs, NEW i \in DOMAIN prog.files
  PROVE  \A id \in Ids(i) : id < Nodes(DOMAIN prog.files)
<1> DEFINE before == 1 .. i - 1
           n == prog.files[i].nodes
<1>1. before \in SUBSET DOMAIN prog.files /\ {i} \in SUBSET DOMAIN prog.files /\ n \in Nat
  BY FileType
<1> HIDE DEF n
<1>2. Cardinality(NodesOf({i})) = n
  <2>1. NodesOf({i}) = {i} \X (1 .. n)
    BY DEF NodesOf, n
  <2>2. IsFiniteSet({i}) /\ Cardinality({i}) = 1
    BY FS_Singleton
  <2>3. IsFiniteSet(1 .. n) /\ Cardinality(1 .. n) = n
    <3>1. 1 \in Int /\ n \in Int /\ n = IF 1 > n THEN 0 ELSE n - 1 + 1
      BY <1>1
    <3>2. QED
      BY <3>1, FS_Interval
  <2>4. Cardinality({i} \X (1 .. n)) = 1 * n
    BY <2>2, <2>3, FS_Product
  <2>5. 1 * n = n
    BY <1>1
  <2>6. QED
    BY <2>1, <2>4, <2>5
<1>3. Cardinality(NodesOf(before) \cup NodesOf({i})) = Nodes(before) + n
  <2>1. NodesOf(before) \cap NodesOf({i}) = {}
    BY DEF NodesOf
  <2>2. IsFiniteSet(NodesOf(before)) /\ IsFiniteSet(NodesOf({i})) /\ Nodes(before) \in Nat
    BY <1>1, NodesFinite
  <2>3. Cardinality(NodesOf(before) \cup NodesOf({i}))
          = Cardinality(NodesOf(before)) + Cardinality(NodesOf({i})) - Cardinality({})
    BY <2>1, <2>2, FS_Union
  <2>4. QED
    BY <1>1, <1>2, <2>3, FS_EmptySet DEF Nodes, NodesOf
<1>4. Nodes(before) + n <= Nodes(DOMAIN prog.files)
  <2>1. NodesOf(before) \cup NodesOf({i}) \subseteq NodesOf(DOMAIN prog.files)
    BY <1>1 DEF NodesOf
  <2>2. IsFiniteSet(NodesOf(DOMAIN prog.files))
    BY NodesFinite
  <2>3. QED
    BY <1>3, <2>1, <2>2, FS_Subset DEF Nodes, NodesOf
<1>5. Nodes(before) \in Nat /\ Nodes(DOMAIN prog.files) \in Nat
  BY <1>1, NodesFinite
<1>6. QED
  BY <1>1, <1>4, <1>5 DEF Ids, n

(* The base of a block's ids is past every declaration's node when every   *)
(* file declares something.                                                *)
LEMMA FenceIdsApart ==
  ASSUME prog \in Programs, \A i \in DOMAIN prog.files : i \in Declaring,
         NEW b, b.file \in DOMAIN prog.files, b.nodes \in Nat
  PROVE  Overwritten(b) = {}
<1>1. Declaring = DOMAIN prog.files /\ Declaring \cup {b.file} = DOMAIN prog.files
  BY DEF Declaring
<1>2. FenceBase(b) = 1 + Nodes(DOMAIN prog.files) /\ Nodes(DOMAIN prog.files) \in Nat
  BY <1>1, NodesFinite DEF FenceBase
<1>3. \A i \in DOMAIN prog.files : Ids(i) \cap FenceIds(b) = {}
  <2> SUFFICES ASSUME NEW i \in DOMAIN prog.files, NEW id \in Ids(i), id \in FenceIds(b)
               PROVE  FALSE
    OBVIOUS
  <2>1. id < Nodes(DOMAIN prog.files) /\ id \in Int
    BY IdsBounded DEF Ids
  <2>2. id >= FenceBase(b)
    BY DEF FenceIds
  <2>3. QED
    BY <1>2, <2>1, <2>2
<1>4. (UNION {Ids(i) : i \in Declaring}) \cap FenceIds(b) = {}
  <2> SUFFICES ASSUME NEW i \in Declaring, NEW id \in Ids(i) PROVE id \notin FenceIds(b)
    OBVIOUS
  <2>1. i \in DOMAIN prog.files
    BY <1>1
  <2>2. QED
    BY <1>3, <2>1
<1>5. QED
  BY <1>4 DEF Overwritten

(* The ids of all the program's nodes.                                     *)
NodeIds == UNION {Ids(i) : i \in DOMAIN prog.files}

(* Every step keeps the types. What needs more than the step itself is the *)
(* ids a block's check overwrites, all of them ids of the program, and a   *)
(* run of results no longer than the blocks.                               *)
LEMMA TypeNext == IInv /\ [Next]_vars => TypeOK'
<1> SUFFICES ASSUME IInv, [Next]_vars PROVE TypeOK'
  OBVIOUS
<1> USE DEF vars, process, program, Gate, Reject, Proceed
<1>i. TypeOK /\ StageInv
  BY DEF IInv
<1>p. prog' = prog /\ NodeIds' = NodeIds
  <2>1. prog' = prog
    BY DEF Next, Idle, Command, Read, Lex, Parse, Resolve, TypeCheck, Effects, Lint, Execute,
       CheckFence, FencesOver, RunBlock, BlocksOver, Format
  <2>2. QED
    BY <2>1 DEF NodeIds, Ids, Nodes
<1>b. clobbered' \subseteq NodeIds
  <2>1. Overwritten(Block) \subseteq NodeIds
    BY DEF Overwritten, Declaring, NodeIds
  <2>2. clobbered \subseteq NodeIds
    BY <1>i DEF TypeOK, NodeIds
  <2>3. clobbered' \in {clobbered, {}, Overwritten(Block)}
    BY DEF Next, Idle, Command, Read, Lex, Parse, Resolve, TypeCheck, Effects, Lint, Execute,
       CheckFence, FencesOver, RunBlock, BlocksOver, Format
  <2>4. QED
    BY <2>1, <2>2, <2>3
<1>r. results' \in Seq({"pass", "fail"}) /\ Len(results') <= Len(prog.blocks)
  <2>1. \A b, lost : Outcomes(b, lost) \subseteq {"pass", "fail"}
    BY DEF Outcomes
  <2>2. CASE UNCHANGED results
    BY <2>2, <1>i DEF TypeOK
  <2>3. CASE results' = <<>>
    BY <2>3
  <2>4. CASE BlocksLeft /\ \E r \in {"pass", "fail"} : results' = Append(results, r)
    BY <2>4, <1>i, ResultsGrow
  <2>5. QED
    BY <2>1, <2>2, <2>3, <2>4 DEF Next, Idle, Command, Read, Lex, Parse, Resolve, TypeCheck,
       Effects, Lint, Execute, CheckFence, FencesOver, RunBlock, BlocksOver, Format
<1>1. ASSUME NEW c \in Commands, Command(c) PROVE TypeOK'
  <2>1. given' \in 1 .. MaxCommands
    BY <1>1, <1>i, Parameters DEF Command, TypeOK
  <2>2. command' \in Commands /\ verdict' \in [Commands -> {"none", "accepted", "rejected"}]
    BY <1>1, <1>i DEF Command, TypeOK
  <2>3. prog' \in Programs /\ ~helpers' /\ diags' = {} /\ ran' = {} /\ stage' \in Phases
    BY <1>1, <1>i DEF Command, TypeOK, Phases
  <2>4. /\ literals' \in BOOLEAN /\ entry' \in BOOLEAN
        /\ changed' \subseteq Outside /\ written' \in BOOLEAN
    BY <1>1 DEF Command
  <2>5. QED
    BY <1>p, <1>b, <1>r, <2>1, <2>2, <2>3, <2>4 DEF TypeOK, NodeIds
<1>2. CASE Read
  BY <1>2, <1>i, <1>p, <1>b, <1>r DEF Read, TypeOK, Phases, Commands, NodeIds, NeedFences
<1>3. CASE Lex
  BY <1>3, <1>i, <1>p, <1>b, <1>r DEF Lex, TypeOK, Phases, Commands, NodeIds, NeedFences
<1>4. CASE Parse
  BY <1>4, <1>i, <1>p, <1>b, <1>r DEF Parse, TypeOK, Phases, Commands, NodeIds, NeedFences
<1>5. CASE Resolve
  BY <1>5, <1>i, <1>p, <1>b, <1>r DEF Resolve, TypeOK, Phases, Commands, NodeIds, NeedFences
<1>6. CASE TypeCheck
  BY <1>6, <1>i, <1>p, <1>b, <1>r DEF TypeCheck, TypeOK, Phases, Commands, NodeIds, NeedFences
<1>7. CASE Effects
  BY <1>7, <1>i, <1>p DEF Effects, TypeOK, Phases, NodeIds
<1>8. CASE Lint
  BY <1>8, <1>i, <1>p, <1>b DEF Lint, TypeOK, NodeIds
<1>9. CASE Execute
  BY <1>9, <1>i, <1>p DEF Execute, TypeOK, NodeIds
<1>10. CASE CheckFence
  BY <1>10, <1>i, <1>p, <1>r DEF CheckFence, TypeOK, NodeIds
<1>11. CASE FencesOver
  BY <1>11, <1>i, <1>p, <1>b, <1>r DEF FencesOver, TypeOK, Phases, Commands, NodeIds, NeedFences
<1>12. CASE RunBlock
  <2>1. changed' \subseteq Outside
    BY <1>12, <1>i, BlockType DEF RunBlock, Changes, TypeOK
  <2>2. QED
    BY <1>12, <2>1, <1>i, <1>p, <1>b, <1>r DEF RunBlock, TypeOK, NodeIds
<1>13. CASE BlocksOver
  BY <1>13, <1>i, <1>p DEF BlocksOver, TypeOK, NodeIds
<1>14. CASE Format
  BY <1>14, <1>i, <1>p DEF Format, TypeOK, NodeIds
<1>15. CASE UNCHANGED vars
  BY <1>15, <1>i, <1>p DEF TypeOK, NodeIds
<1>16. QED
  BY <1>1, <1>2, <1>3, <1>4, <1>5, <1>6, <1>7, <1>8, <1>9, <1>10, <1>11, <1>12, <1>13, <1>14,
     <1>15 DEF Next, Idle

(* Every step keeps the order of the phases: a stage is left for the next  *)
(* one only when its phase found nothing.                                  *)
LEMMA StageNext == IInv /\ [Next]_vars => StageInv'
<1> SUFFICES ASSUME IInv, [Next]_vars PROVE StageInv'
  OBVIOUS
<1> USE DEF vars, process, program, Gate, Reject, Proceed
<1>i. TypeOK /\ StageInv /\ DiagsInv
  BY DEF IInv
<1>p. prog.faults \subseteq Phases
  BY <1>i, ProgType DEF TypeOK
<1>1. ASSUME NEW c \in Commands, Command(c) PROVE StageInv'
  BY <1>1 DEF Command, StageInv
<1>2. CASE Read
  BY <1>2 DEF Read, StageInv
<1>3. CASE Lex
  BY <1>3, <1>i DEF Lex, StageInv
<1>4. CASE Parse
  BY <1>4, <1>i DEF Parse, StageInv
<1>5. CASE Resolve
  BY <1>5, <1>i DEF Resolve, StageInv
<1>6. CASE TypeCheck
  BY <1>6, <1>i DEF TypeCheck, StageInv
<1>7. CASE Effects
  <2>1. prog' = prog /\ command' = command /\ prog.faults \subseteq Phases
    BY <1>7, <1>p DEF Effects
  <2>2. CASE command = "lsp" /\ "effect" \in prog.faults
    <3>1. stage' = "fences" /\ diags' # {} /\ stage = "effect"
      BY <1>7, <2>2 DEF Effects
    <3>2. QED
      BY <1>i, <2>1, <2>2, <3>1 DEF StageInv
  <2>3. CASE ~(command = "lsp" /\ "effect" \in prog.faults)
    BY <1>7, <1>i DEF Effects, StageInv
  <2>4. QED
    BY <2>2, <2>3
<1>8. CASE Lint
  <2>1. prog' = prog /\ command' = command /\ prog.faults \subseteq Phases
    BY <1>8, <1>p DEF Lint
  <2>2. CASE command = "lsp" /\ "lint" \in prog.faults
    <3>1. stage' = "fences" /\ diags' # {} /\ stage = "lint"
      BY <1>8, <2>2 DEF Lint
    <3>2. QED
      BY <1>i, <2>1, <2>2, <3>1 DEF StageInv
  <2>3. CASE ~(command = "lsp" /\ "lint" \in prog.faults)
    BY <1>8, <1>i DEF Lint, StageInv
  <2>4. QED
    BY <2>2, <2>3
<1>9. CASE Execute
  BY <1>9 DEF Execute, StageInv
<1>10. CASE CheckFence
  BY <1>10, <1>i DEF CheckFence, StageInv
<1>11. CASE FencesOver
  BY <1>11, <1>i DEF FencesOver, StageInv, TypeOK, Commands
<1>12. CASE RunBlock
  BY <1>12, <1>i DEF RunBlock, StageInv
<1>13. CASE BlocksOver
  BY <1>13 DEF BlocksOver, StageInv
<1>14. CASE Format
  BY <1>14 DEF Format, StageInv
<1>15. CASE UNCHANGED vars
  BY <1>15, <1>i DEF StageInv
<1>16. QED
  BY <1>1, <1>2, <1>3, <1>4, <1>5, <1>6, <1>7, <1>8, <1>9, <1>10, <1>11, <1>12, <1>13, <1>14,
     <1>15 DEF Next, Idle

(* Every step keeps the reports to one phase's: a phase is reached with    *)
(* nothing reported, and those before it are clean, so it is the earliest  *)
(* that reports.                                                           *)
LEMMA DiagsNext == IInv /\ [Next]_vars => DiagsInv'
<1> SUFFICES ASSUME IInv, [Next]_vars PROVE DiagsInv'
  OBVIOUS
<1> USE DEF vars, process, program, Gate, Reject, Proceed
<1>i. TypeOK /\ StageInv /\ DiagsInv
  BY DEF IInv
<1>p. prog.faults \subseteq Phases
  BY <1>i, ProgType DEF TypeOK
<1>e. /\ Earliest("read", prog.faults)
      /\ "read" \notin prog.faults => Earliest("lex", prog.faults)
      /\ {"read", "lex"} \cap prog.faults = {}
           => Earliest("parse", prog.faults)
      /\ {"read", "lex", "parse"} \cap prog.faults = {}
           => Earliest("resolve", prog.faults)
      /\ {"read", "lex", "parse", "resolve"} \cap prog.faults = {}
           => Earliest("type", prog.faults)
      /\ {"read", "lex", "parse", "resolve", "type"} \cap prog.faults = {}
           => Earliest("effect", prog.faults)
      /\ {"read", "lex", "parse", "resolve", "type", "effect"} \cap prog.faults = {}
           => Earliest("lint", prog.faults)
  BY <1>p, Places DEF Earliest, Phases
<1>x. prog.faults \cap {"abort", "fence", "block", "format"} = {}
  BY <1>p DEF Phases
<1>1. ASSUME NEW c \in Commands, Command(c) PROVE DiagsInv'
  BY <1>1 DEF Command, DiagsInv
<1>2. CASE Read
  BY <1>2, <1>i, <1>e DEF Read, DiagsInv
<1>3. CASE Lex
  BY <1>3, <1>i, <1>e DEF Lex, DiagsInv, StageInv
<1>4. CASE Parse
  BY <1>4, <1>i, <1>e DEF Parse, DiagsInv, StageInv
<1>5. CASE Resolve
  BY <1>5, <1>i, <1>e DEF Resolve, DiagsInv, StageInv
<1>6. CASE TypeCheck
  BY <1>6, <1>i, <1>e DEF TypeCheck, DiagsInv, StageInv
<1>7. CASE Effects
  BY <1>7, <1>i, <1>e DEF Effects, DiagsInv, StageInv
<1>8. CASE Lint
  BY <1>8, <1>i, <1>e DEF Lint, DiagsInv, StageInv
<1>9. CASE Execute
  BY <1>9, <1>x DEF Execute, DiagsInv
<1>10. CASE CheckFence
  BY <1>10, <1>i DEF CheckFence, DiagsInv
<1>11. CASE FencesOver
  BY <1>11, <1>i, <1>x DEF FencesOver, DiagsInv
<1>12. CASE RunBlock
  BY <1>12, <1>i DEF RunBlock, DiagsInv
<1>13. CASE BlocksOver
  BY <1>13, <1>x DEF BlocksOver, DiagsInv
<1>14. CASE Format
  BY <1>14, <1>x DEF Format, DiagsInv
<1>15. CASE UNCHANGED vars
  BY <1>15, <1>i DEF DiagsInv
<1>16. QED
  BY <1>1, <1>2, <1>3, <1>4, <1>5, <1>6, <1>7, <1>8, <1>9, <1>10, <1>11, <1>12, <1>13, <1>14,
     <1>15 DEF Next, Idle

(* Every step executes or writes only what the phases before it allow.     *)
LEMMA RanNext == IInv /\ [Next]_vars => RanInv'
<1> SUFFICES ASSUME IInv, [Next]_vars PROVE RanInv'
  OBVIOUS
<1> USE DEF vars, process, program, Gate, Reject, Proceed
<1>i. TypeOK /\ StageInv /\ RanInv /\ BlocksInv
  BY DEF IInv
<1>p. prog.faults \subseteq Phases
  BY <1>i, ProgType DEF TypeOK
<1>1. ASSUME NEW c \in Commands, Command(c) PROVE RanInv'
  BY <1>1 DEF Command, RanInv, OnlyOnSuccess
<1>2. CASE Read
  BY <1>2, <1>i DEF Read, RanInv, OnlyOnSuccess
<1>3. CASE Lex
  BY <1>3, <1>i DEF Lex, RanInv, OnlyOnSuccess
<1>4. CASE Parse
  BY <1>4, <1>i DEF Parse, RanInv, OnlyOnSuccess
<1>5. CASE Resolve
  BY <1>5, <1>i DEF Resolve, RanInv, OnlyOnSuccess
<1>6. CASE TypeCheck
  BY <1>6, <1>i DEF TypeCheck, RanInv, OnlyOnSuccess
<1>7. CASE Effects
  BY <1>7, <1>i DEF Effects, RanInv, OnlyOnSuccess
<1>8. CASE Lint
  BY <1>8, <1>i DEF Lint, RanInv, OnlyOnSuccess
<1>9. CASE Execute
  BY <1>9, <1>i DEF Execute, RanInv, OnlyOnSuccess, StageInv, Static, Phases
<1>10. CASE CheckFence
  BY <1>10, <1>i DEF CheckFence, RanInv, OnlyOnSuccess
<1>11. CASE FencesOver
  BY <1>11, <1>i DEF FencesOver, RanInv, OnlyOnSuccess
<1>12. CASE RunBlock
  BY <1>12, <1>i, <1>p DEF RunBlock, RanInv, OnlyOnSuccess, StageInv, Phases, Entry
<1>13. CASE BlocksOver
  BY <1>13, <1>i DEF BlocksOver, RanInv, OnlyOnSuccess
<1>14. CASE Format
  BY <1>14, <1>i, <1>p DEF Format, RanInv, OnlyOnSuccess, StageInv, BlocksInv, Phases
<1>15. CASE UNCHANGED vars
  BY <1>15, <1>i DEF RanInv, OnlyOnSuccess
<1>16. QED
  BY <1>1, <1>2, <1>3, <1>4, <1>5, <1>6, <1>7, <1>8, <1>9, <1>10, <1>11, <1>12, <1>13, <1>14,
     <1>15 DEF Next, Idle

(* Every step keeps what the doc blocks' results say, and what is          *)
(* changed outside is a block's doing.                                     *)
LEMMA BlocksNext == IInv /\ [Next]_vars => BlocksInv'
<1> SUFFICES ASSUME IInv, [Next]_vars PROVE BlocksInv'
  OBVIOUS
<1> USE DEF vars, process, program, Gate, Reject, Proceed
<1>i. TypeOK /\ StageInv /\ BlocksInv
  BY DEF IInv
<1>1. ASSUME NEW c \in Commands, Command(c) PROVE BlocksInv'
  BY <1>1 DEF Command, BlocksInv
<1>2. CASE Read
  BY <1>2, <1>i DEF Read, BlocksInv
<1>3. CASE Lex
  BY <1>3, <1>i DEF Lex, BlocksInv
<1>4. CASE Parse
  BY <1>4, <1>i DEF Parse, BlocksInv
<1>5. CASE Resolve
  BY <1>5, <1>i DEF Resolve, BlocksInv
<1>6. CASE TypeCheck
  BY <1>6, <1>i DEF TypeCheck, BlocksInv
<1>7. CASE Effects
  BY <1>7, <1>i DEF Effects, BlocksInv
<1>8. CASE Lint
  BY <1>8, <1>i DEF Lint, BlocksInv
<1>9. CASE Execute
  BY <1>9 DEF Execute, BlocksInv
<1>10. CASE CheckFence
  <2>1. /\ stage = "fences" /\ stage' = "fences"
        /\ prog' = prog /\ changed' = changed /\ entry' = entry
    BY <1>10 DEF CheckFence
  <2>2. PICK r \in {"pass", "fail"} :
          results' = Append(results, r) /\ (r = "pass" => Block.kind # "bad")
    BY <1>10 DEF CheckFence, WellTyped
  <2>3. \A k \in DOMAIN results : results[k] = "pass" => prog.blocks[k].kind # "bad"
    BY <1>i, <2>1 DEF BlocksInv
  <2>4. \A k \in DOMAIN results' : results'[k] = "pass" => prog.blocks[k].kind # "bad"
    BY <2>2, <2>3 DEF Block
  <2>5. QED
    BY <1>i, <2>1, <2>4 DEF BlocksInv
<1>11. CASE FencesOver
  BY <1>11, <1>i DEF FencesOver, BlocksInv, TypeOK, BlocksLeft, Range
<1>12. CASE RunBlock
  <2>1. /\ stage = "blocks" /\ stage' = "blocks" /\ prog' = prog /\ entry' = entry /\ entry
        /\ ~helpers
    BY <1>12, <1>i DEF RunBlock, BlocksInv, TypeOK
  <2>2. PICK r \in {"pass", "fail"} : results' = Append(results, r)
    BY <1>12 DEF RunBlock, Outcomes
  <2>3. DOMAIN results' = DOMAIN results \cup {Len(results) + 1}
    BY <1>12 DEF RunBlock
  <2>4. \A s \in changed' \ changed : Block.kind = "changes" /\ Block.outside = s
    BY <1>12 DEF RunBlock, Changes
  <2>5. \A s \in changed : \E j \in DOMAIN results :
          prog.blocks[j].kind = "changes" /\ prog.blocks[j].outside = s
    BY <1>i, <2>1 DEF BlocksInv
  <2>6. \A s \in changed' : \E j \in DOMAIN results' :
          prog.blocks[j].kind = "changes" /\ prog.blocks[j].outside = s
    BY <2>3, <2>4, <2>5 DEF Block
  <2>7. QED
    BY <2>1, <2>6 DEF BlocksInv
<1>13. CASE BlocksOver
  BY <1>13 DEF BlocksOver, BlocksInv
<1>14. CASE Format
  BY <1>14 DEF Format, BlocksInv
<1>15. CASE UNCHANGED vars
  BY <1>15, <1>i DEF BlocksInv
<1>16. QED
  BY <1>1, <1>2, <1>3, <1>4, <1>5, <1>6, <1>7, <1>8, <1>9, <1>10, <1>11, <1>12, <1>13, <1>14,
     <1>15 DEF Next, Idle

(* Every step keeps the side table's entries: only running a block touches *)
(* them, and FenceIdsApart says which it takes over.                       *)
LEMMA FreshNext == IInv /\ [Next]_vars => FenceIdsFresh'
<1> SUFFICES ASSUME IInv, [Next]_vars PROVE FenceIdsFresh'
  OBVIOUS
<1>i. TypeOK /\ FenceIdsFresh
  BY DEF IInv
<1>1. prog' = prog
  BY DEF Next, Idle, Command, Read, Lex, Parse, Resolve, TypeCheck, Effects, Lint, Execute,
     CheckFence, FencesOver, RunBlock, BlocksOver, Format, vars
<1>2. (\A i \in DOMAIN prog.files : i \in Declaring)'
         => \A i \in DOMAIN prog.files : i \in Declaring
  BY <1>1 DEF Declaring
<1>3. ASSUME RunBlock, \A i \in DOMAIN prog.files : i \in Declaring
      PROVE  Overwritten(Block) = {}
  <2>1. Block.file \in DOMAIN prog.files /\ Block.nodes \in Nat
    BY <1>i, <1>3, BlockType DEF RunBlock
  <2>2. QED
    BY <1>i, <1>3, <2>1, FenceIdsApart DEF TypeOK
<1>4. clobbered' \in {clobbered, {}} \/ (RunBlock /\ clobbered' = Overwritten(Block))
  BY DEF Next, Idle, Command, Read, Lex, Parse, Resolve, TypeCheck, Effects, Lint, Execute,
     CheckFence, FencesOver, RunBlock, BlocksOver, Format, vars, program
<1>5. QED
  BY <1>i, <1>2, <1>3, <1>4 DEF FenceIdsFresh

(* Every step keeps the result of each block that is not exposed to the one*)
(* it has alone: the copy it runs in starts from the same program, and by  *)
(* FenceIdsApart its check harms none of the declarations it calls.        *)
LEMMA IndependentNext == IInv /\ [Next]_vars => BlocksIndependent'
<1> SUFFICES ASSUME IInv, [Next]_vars, stage' = "blocks",
                    (\A i \in DOMAIN prog.files : i \in Declaring)'
             PROVE  BlocksIndependent'
  BY DEF BlocksIndependent
<1> DEFINE Expected(k) == IF Alone(prog.blocks[k]) THEN "pass" ELSE "fail"
<1>i. TypeOK /\ BlocksInv /\ FenceIdsFresh /\ BlocksIndependent
  BY DEF IInv
<1>1. prog' = prog
  BY DEF Next, Idle, Command, Read, Lex, Parse, Resolve, TypeCheck, Effects, Lint, Execute,
     CheckFence, FencesOver, RunBlock, BlocksOver, Format, vars
<1>2. \A i \in DOMAIN prog.files : i \in Declaring
  BY <1>1 DEF Declaring
<1>3. \/ stage = "lint" /\ results' = results
      \/ stage = "blocks" /\ results' = results
      \/ stage = "blocks" /\ RunBlock
  BY DEF Next, Idle, Command, Read, Lex, Parse, Resolve, TypeCheck, Effects, Lint, Execute,
     CheckFence, FencesOver, RunBlock, BlocksOver, Format, vars, process, Gate, Reject, Proceed
<1>4. \A k \in DOMAIN results : ~Exposed(k) => results[k] = Expected(k)
  <2>1. CASE stage = "blocks"
    BY <1>i, <1>2, <2>1 DEF BlocksIndependent
  <2>2. CASE stage = "lint"
    BY <1>i, <2>2 DEF BlocksInv
  <2>3. QED
    BY <1>3, <2>1, <2>2
<1>5. \A k \in DOMAIN results' : ~Exposed(k) => results'[k] = Expected(k)
  <2>1. CASE results' = results
    BY <1>4, <2>1
  <2>2. CASE stage = "blocks" /\ RunBlock
    <3> DEFINE n == Len(results) + 1
    <3>1. /\ Len(results) \in Nat /\ n \in DOMAIN prog.blocks /\ Block = prog.blocks[n]
          /\ Block.file \in DOMAIN prog.files /\ Block.nodes \in Nat /\ Block.kind \in Kinds
          /\ DOMAIN results = 1 .. Len(results)
      BY <1>i, <2>2, BlockType DEF RunBlock
    <3>2. Overwritten(Block) = {}
      BY <1>i, <1>2, <3>1, FenceIdsApart DEF TypeOK
    <3>3. entry /\ ~helpers
      BY <1>i, <2>2 DEF BlocksInv, TypeOK
    <3>4. \A s \in changed : \E j \in 1 .. n - 1 :
            prog.blocks[j].kind = "changes" /\ prog.blocks[j].outside = s
      BY <1>i, <2>2 DEF BlocksInv
    <3>5. PICK r : results' = Append(results, r) /\ (~Exposed(n) => r = Expected(n))
      <4>1. (Installs(Block) /\ WellTyped(Block)) <=> Block.kind # "bad" /\ ~prog.question
        BY <3>3 DEF Installs, WellTyped
      <4>2. CASE Block.kind = "bad" \/ prog.question
        <5>1. results' = Append(results, "fail")
          BY <2>2, <4>1, <4>2 DEF RunBlock
        <5>2. QED
          BY <3>1, <4>2, <5>1 DEF Alone
      <4>3. CASE Block.kind # "bad" /\ ~prog.question
        <5>1. PICK outcome \in Outcomes(Block, {}) : results' = Append(results, outcome)
          BY <2>2, <3>2, <4>1, <4>3 DEF RunBlock
        <5>2. ~Exposed(n) => Outcomes(Block, {}) = {Expected(n)}
          BY <3>1, <3>4, <4>3 DEF Outcomes, Alone, Exposed
        <5>3. QED
          BY <5>1, <5>2
      <4>4. QED
        BY <4>2, <4>3
    <3>6. /\ DOMAIN results' = DOMAIN results \cup {n}
          /\ \A k \in DOMAIN results : results'[k] = results[k]
          /\ results'[n] = r
      <4> HIDE DEF Expected
      <4>1. QED
        BY <3>5
    <3>7. QED
      <4> HIDE DEF Expected, n
      <4>1. QED
        BY <1>4, <3>5, <3>6
  <2>3. QED
    BY <1>3, <2>1, <2>2
<1>6. QED
  BY <1>1, <1>5 DEF BlocksIndependent, Exposed, Alone

(* The strengthened invariant holds in every reachable state.              *)
THEOREM Invariant == Spec => []IInv
<1>1. Init => IInv
  <2> SUFFICES ASSUME Init PROVE IInv
    OBVIOUS
  <2>1. TypeOK
    <3>1. results \in Seq({"pass", "fail"}) /\ Len(results) <= Len(prog.blocks)
      BY DEF Init
    <3>2. given \in 1 .. MaxCommands
      BY Parameters DEF Init
    <3>3. QED
      BY <3>1, <3>2 DEF Init, TypeOK, Phases
  <2>2. StageInv /\ DiagsInv
    BY DEF Init, StageInv, DiagsInv
  <2>3. RanInv
    BY DEF Init, RanInv, OnlyOnSuccess
  <2>4. BlocksInv /\ FenceIdsFresh /\ BlocksIndependent
    BY DEF Init, BlocksInv, FenceIdsFresh, BlocksIndependent
  <2>5. QED
    BY <2>1, <2>2, <2>3, <2>4 DEF IInv
<1>2. IInv /\ [Next]_vars => IInv'
  BY TypeNext, StageNext, DiagsNext, RanNext, BlocksNext, FreshNext, IndependentNext DEF IInv
<1>3. QED
  BY <1>1, <1>2, PTL DEF Spec

(* Every variable has its type, whatever the programs and the session.     *)
THEOREM TypeCorrect == Spec => []TypeOK
<1>1. IInv => TypeOK
  BY DEF IInv
<1>2. QED
  BY Invariant, <1>1, PTL

(* driver.rs: no command executes a program, runs a doc block or rewrites  *)
(* a file unless every phase that comes before was clean.                  *)
THEOREM SuccessComesFirst == Spec => []OnlyOnSuccess
<1>1. IInv => OnlyOnSuccess
  BY DEF IInv, RanInv
<1>2. QED
  BY Invariant, <1>1, PTL

(* driver.rs: what a command reports comes from the first phase that finds *)
(* something, and only the language server shows doc block findings beside *)
(* one.                                                                    *)
THEOREM FirstFindingReported == Spec => []OnePhaseReports
<1>1. ASSUME DiagsInv PROVE OnePhaseReports
  <2>1. \A d \in diags \cap prog.faults : Earliest(d, prog.faults)
    BY <1>1 DEF DiagsInv
  <2>2. Cardinality(diags) <= (IF command = "lsp" /\ "fence" \in diags THEN 2 ELSE 1)
    <3>1. CASE diags = {}
      BY <3>1, FS_EmptySet
    <3>2. CASE \E d \in diags : diags = {d}
      <4>1. \A d : Cardinality({d}) = 1
        BY FS_Singleton
      <4>2. QED
        BY <3>2, <4>1
    <3>3. CASE command = "lsp" /\ \E d \in diags : diags = {d, "fence"}
      <4>1. PICK d \in diags : diags = {d, "fence"}
        BY <3>3
      <4>2. IsFiniteSet({d}) /\ Cardinality({d}) = 1
        BY FS_Singleton
      <4>3. Cardinality({d} \cup {"fence"}) \in {1, 2}
        BY <4>2, FS_AddElement
      <4>4. QED
        BY <3>3, <4>1, <4>3
    <3>4. QED
      BY <1>1, <3>1, <3>2, <3>3 DEF DiagsInv
  <2>3. QED
    BY <2>1, <2>2 DEF OnePhaseReports, Earliest, Place, Order
<1>2. IInv => OnePhaseReports
  BY <1>1 DEF IInv
<1>3. QED
  BY Invariant, <1>2, PTL

(* safe_fence_id_base: when every module declares something, the ids of a  *)
(* block's nodes are none of the program's, so its check overwrites no     *)
(* resolution.                                                             *)
THEOREM IdsNeverMeet == Spec => []FenceIdsFresh
<1>1. IInv => FenceIdsFresh
  BY DEF IInv
<1>2. QED
  BY Invariant, <1>1, PTL

(* run_fence: in such a program a block's result is the one it has alone,  *)
(* whatever the other blocks declare, resolve and fail at, unless it looks *)
(* outside the program for something an earlier block has changed.         *)
THEOREM BlocksAreIndependent == Spec => []BlocksIndependent
<1>1. IInv => BlocksIndependent
  BY DEF IInv
<1>2. QED
  BY Invariant, <1>1, PTL
=============================================================================
