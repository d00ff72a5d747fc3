--------------------------- MODULE ModuleResolve ---------------------------
(***************************************************************************)
(* module_resolve/: the files of a program become one flat namespace.  The     *)
(* modules' top-level statements are checked to be constants (E5002), every     *)
(* name is declared once (E1001), the constants are typed and then evaluated    *)
(* by going over those still open until a round settles none, and the           *)
(* declarations are moved into the program.                                 *)
(*                                                                         *)
(* A constant's expression is bare, a list or a set, over literals and names    *)
(* of constants; dictionaries and tuples go the same way.  A value is what      *)
(* matters of it to others: whether it can be a set's element.                *)
(***************************************************************************)
EXTENDS Naturals, Sequences, FiniteSets, SequencesExt

CONSTANTS
  Programs,   \* sequences of files, the entry first, the others sorted by path
  Names,      \* names a program may declare or refer to
  Prelude     \* what the prelude declares: names, each with its table

Literals == {"int", "float"}
Elements == Literals \cup Names

Tables == {"functions", "structs", "enums"}
Decl == [kind : {"decl"}, table : Tables, names : Seq(Names)]   \* an enum's variants follow its name
Const == [kind : {"const"}, name : Names, form : {"bare", "list", "set"}, of : Seq(Elements)]
Stmt == [kind : {"stmt"}]
File == [directive : BOOLEAN, items : Seq(Decl \cup Const \cup Stmt)]

ASSUME Parameters ==
  /\ Literals \cap Names = {}
  /\ Prelude \subseteq (Tables \cup {"variants"}) \X Names
  /\ \A p \in Programs : p \in Seq(File)
  /\ \A p \in Programs : \A f \in DOMAIN p : \A i \in DOMAIN p[f].items :
       LET item == p[f].items[i]
       IN  /\ item.kind = "const" /\ item.form = "bare" => Len(item.of) = 1
           /\ item.kind = "decl" => item.names # <<>>

VARIABLES
  files,       \* the program
  stage,       \* "grammar", "declare", "types", "values", "skeleton", "done"
  at,          \* the file and the item it is at
  declared,    \* declared_at: names seen so far
  candidates,  \* const_candidates
  pending,     \* of the present round, the constants not looked at yet
  later,       \* of the present round, those that stay open
  progressed,  \* the round settled some constant
  types,       \* the constants' types, <<>> when not known
  consts,      \* program.consts: "none", or whether the value is a key
  decls,       \* program.functions, structs and enums: where an entry comes from
  diags        \* how often each diagnostic was reported of each name

rounds == <<pending, later, progressed>>
PreludeNames == {d[2] : d \in Prelude}

vars == <<files, stage, at, declared, candidates, rounds, types, consts, decls, diags>>

Start == <<1, 1>>

Codes == {"E5002", "E1001", "E10xx", "E1003"}

Items == UNION {{<<f, i>> : i \in DOMAIN files[f].items} : f \in DOMAIN files}
Item(p) == files[p[1]].items[p[2]]

(* The names an item declares, one after the other: an entry's constants are    *)
(* ordinary variables.                                                     *)
IsConstant(p) == Item(p).kind = "const" /\ files[p[1]].directive
NamesOf(p) ==
  IF Item(p).kind = "decl" THEN Item(p).names
  ELSE IF IsConstant(p) THEN <<Item(p).name>> ELSE <<>>

Init ==
  /\ files \in Programs
  /\ stage = "grammar"
  /\ at = Start
  /\ declared = PreludeNames
  /\ candidates = <<>>
  /\ pending = <<>> /\ later = <<>> /\ progressed = FALSE
  /\ types = [n \in Names |-> <<>>]
  /\ consts = [n \in Names |-> "none"]
  /\ decls = [d \in Tables \X Names |-> IF d \in Prelude THEN <<0, 0>> ELSE <<>>]
  /\ diags = [code \in Codes |-> [n \in Names \cup {"none"} |-> 0]]

(* Diagnostics of one code, so many of each name.                            *)
Report(code, times) ==
  diags' = [diags EXCEPT ![code] = [n \in DOMAIN @ |-> @[n] + times[n]]]

(* check_module_toplevel_grammar, and the other files skipped.               *)
CheckGrammar ==
  /\ stage = "grammar"
  /\ at[1] <= Len(files)
  /\ LET file == files[at[1]]
         bad == {i \in DOMAIN file.items : file.directive /\ file.items[i].kind = "stmt"}
     IN  Report("E5002", [n \in Names \cup {"none"} |-> IF n = "none" THEN Cardinality(bad) ELSE 0])
  /\ at' = <<at[1] + 1, 1>>
  /\ UNCHANGED <<files, stage, declared, candidates, rounds, types, consts, decls>>

GrammarOver ==
  /\ stage = "grammar"
  /\ at[1] > Len(files)
  /\ stage' = "declare"
  /\ at' = Start
  /\ UNCHANGED <<files, declared, candidates, rounds, types, consts, decls, diags>>

DeclareAllFresh(names) ==       \* mutant: declared_at does not start with the prelude
  LET Taken(k) == names[k] \in (declared \ PreludeNames) \cup {names[j] : j \in 1 .. k - 1}
  IN  /\ declared' = declared \cup ToSet(names)
      /\ Report("E1001", [n \in Names \cup {"none"} |->
                            Cardinality({k \in DOMAIN names : names[k] = n /\ Taken(k)})])

(* try_declare for the names of one item, in order.                          *)
DeclareAll(names) ==
  LET Taken(k) == names[k] \in declared \cup {names[j] : j \in 1 .. k - 1}
  IN  /\ declared' = declared \cup ToSet(names)
      /\ Report("E1001", [n \in Names \cup {"none"} |->
                            Cardinality({k \in DOMAIN names : names[k] = n /\ Taken(k)})])

DeclareConstFresh ==            \* mutant: a constant with a taken name is a candidate too
  /\ stage = "declare"
  /\ at[1] <= Len(files)
  /\ at[2] <= Len(files[at[1]].items)
  /\ DeclareAll(IF IsConstant(at) THEN <<>> ELSE NamesOf(at))
  /\ candidates' = IF IsConstant(at) THEN Append(candidates, Item(at)) ELSE candidates
  /\ at' = <<at[1], at[2] + 1>>
  /\ UNCHANGED <<files, stage, rounds, types, consts, decls>>

(* register_flat_namespace at one item: a module's constant is a candidate      *)
(* unless its name is taken; other statements declare nothing.               *)
Declare ==
  /\ stage = "declare"
  /\ at[1] <= Len(files)
  /\ at[2] <= Len(files[at[1]].items)
  /\ DeclareAll(NamesOf(at))
  /\ candidates' = IF IsConstant(at) /\ Item(at).name \notin declared
                     THEN Append(candidates, Item(at)) ELSE candidates
  /\ at' = <<at[1], at[2] + 1>>
  /\ UNCHANGED <<files, stage, rounds, types, consts, decls>>

NextFile ==
  /\ stage = "declare"
  /\ at[1] <= Len(files)
  /\ at[2] > Len(files[at[1]].items)
  /\ at' = <<at[1] + 1, 1>>
  /\ UNCHANGED <<files, stage, declared, candidates, rounds, types, consts, decls, diags>>

Round(constants) == pending' = constants /\ later' = <<>> /\ progressed' = FALSE

DeclareOver ==
  /\ stage = "declare"
  /\ at[1] > Len(files)
  /\ stage' = "types"
  /\ Round(candidates)
  /\ UNCHANGED <<files, at, declared, candidates, types, consts, decls, diags>>

----------------------------------------------------------------------------
(* validate_module_const_types.                                            *)

TypeOf(e, known) == IF e \in Literals THEN <<e>> ELSE known[e]

Key(t) == t = <<"int">>

(* infer_const_type and infer_homogeneous: the first element that is not yet    *)
(* typed, or is of another type than the first one, decides; nothing can be      *)
(* said of an empty collection.                                            *)
Infer(c, known) ==
  LET ty(k) == TypeOf(c.of[k], known)
      stops == {k \in DOMAIN c.of : ty(k) = <<>> \/ ty(k) # ty(1)}
      first == CHOOSE k \in stops : \A j \in stops : k <= j
  IN  IF c.of = <<>> THEN [tag |-> "wait", type |-> <<>>]
      ELSE IF stops # {} THEN [tag |-> IF ty(first) = <<>> THEN "wait" ELSE "error", type |-> <<>>]
      ELSE IF c.form = "set" /\ ~Key(ty(1)) THEN [tag |-> "error", type |-> <<>>]
      ELSE [tag |-> "ok", type |-> IF c.form = "bare" THEN ty(1) ELSE <<c.form>> \o ty(1)]

InferConstKeepsIt ==            \* mutant: a constant found wrong stays open
  /\ stage = "types"
  /\ pending # <<>>
  /\ LET c == Head(pending)
         result == Infer(c, types)
     IN  /\ types' = [types EXCEPT ![c.name] = result.type]
         /\ progressed' = (progressed \/ result.tag = "ok")
         /\ later' = IF result.tag # "ok" THEN Append(later, c) ELSE later
         /\ Report("E10xx", [n \in Names \cup {"none"} |->
                               IF result.tag = "error" /\ n = c.name THEN 1 ELSE 0])
  /\ pending' = Tail(pending)
  /\ UNCHANGED <<files, stage, at, declared, candidates, consts, decls>>

InferConst ==
  /\ stage = "types"
  /\ pending # <<>>
  /\ LET c == Head(pending)
         result == Infer(c, types)
     IN  /\ types' = [types EXCEPT ![c.name] = result.type]
         /\ progressed' = (progressed \/ result.tag # "wait")
         /\ later' = IF result.tag = "wait" THEN Append(later, c) ELSE later
         /\ Report("E10xx", [n \in Names \cup {"none"} |->
                               IF result.tag = "error" /\ n = c.name THEN 1 ELSE 0])
  /\ pending' = Tail(pending)
  /\ UNCHANGED <<files, stage, at, declared, candidates, consts, decls>>

(* What no round has typed, name by name.                                   *)
Unresolved ==
  [n \in Names \cup {"none"} |-> Cardinality({k \in DOMAIN later : later[k].name = n})]

TypeRoundOnce ==                \* mutant: one round, so that order decides
  /\ stage = "types"
  /\ pending = <<>>
  /\ Report("E1003", Unresolved)
  /\ stage' = "values"
  /\ Round(candidates)
  /\ UNCHANGED <<files, at, declared, candidates, types, consts, decls>>

TypeRoundForever ==             \* mutant: the round's progress is not looked at
  /\ stage = "types"
  /\ pending = <<>>
  /\ IF later # <<>>
       THEN Round(later) /\ UNCHANGED <<stage, diags>>
       ELSE stage' = "values" /\ Round(candidates) /\ UNCHANGED diags
  /\ UNCHANGED <<files, at, declared, candidates, types, consts, decls>>

(* Another round while one settles something; what is left when none does       *)
(* refers to itself or to nothing.                                         *)
TypeRound ==
  /\ stage = "types"
  /\ pending = <<>>
  /\ IF later # <<>> /\ progressed
       THEN Round(later) /\ UNCHANGED <<stage, diags>>
       ELSE /\ Report("E1003", Unresolved)
            /\ stage' = "values"
            /\ Round(candidates)
  /\ UNCHANGED <<files, at, declared, candidates, types, consts, decls>>

----------------------------------------------------------------------------
(* resolve_module_const_values.                                            *)

ValueOf(e, known) ==
  IF e = "int" THEN "key" ELSE IF e = "float" THEN "other" ELSE known[e]

(* eval_const_expr: a value once all names in it have one; a set's elements     *)
(* must be keys.                                                           *)
Value(c, known) ==
  LET parts == {ValueOf(c.of[k], known) : k \in DOMAIN c.of}
  IN  IF "none" \in parts \/ (c.form = "set" /\ "other" \in parts) THEN "none"
      ELSE IF c.form = "bare" THEN ValueOf(c.of[1], known)
      ELSE "other"

EvalConst ==
  /\ stage = "values"
  /\ pending # <<>>
  /\ LET c == Head(pending)
         value == Value(c, consts)
     IN  /\ consts' = [consts EXCEPT ![c.name] = value]
         /\ progressed' = (progressed \/ value # "none")
         /\ later' = IF value = "none" THEN Append(later, c) ELSE later
  /\ pending' = Tail(pending)
  /\ UNCHANGED <<files, stage, at, declared, candidates, types, decls, diags>>

ValueRoundOnce ==               \* mutant: one round
  /\ stage = "values"
  /\ pending = <<>>
  /\ stage' = "skeleton"
  /\ UNCHANGED <<files, at, declared, candidates, rounds, types, consts, decls, diags>>

(* What no round can evaluate is given up without a diagnostic.              *)
ValueRound ==
  /\ stage = "values"
  /\ pending = <<>>
  /\ IF later # <<>> /\ progressed
       THEN Round(later) /\ UNCHANGED stage
       ELSE stage' = "skeleton" /\ UNCHANGED rounds
  /\ UNCHANGED <<files, at, declared, candidates, types, consts, decls, diags>>

(* build_program_skeleton moves the declarations: of those with one name in     *)
(* one table the first stays, and the prelude's before them.                 *)
DeclPlaces(d) ==
  UNION {{<<f, i>> : i \in {j \in DOMAIN files[f].items :
                               /\ files[f].items[j].kind = "decl"
                               /\ files[f].items[j].table = d[1]
                               /\ files[f].items[j].names[1] = d[2]}} : f \in DOMAIN files}

Before(p, q) == p[1] < q[1] \/ (p[1] = q[1] /\ p[2] <= q[2])

Skeleton ==
  /\ stage = "skeleton"
  /\ decls' = [d \in Tables \X Names |->
                 IF decls[d] # <<>> \/ DeclPlaces(d) = {} THEN decls[d]
                 ELSE CHOOSE p \in DeclPlaces(d) : \A q \in DeclPlaces(d) : Before(p, q)]
  /\ stage' = "done"
  /\ UNCHANGED <<files, at, declared, candidates, rounds, types, consts, diags>>

Resolved == stage = "done" /\ UNCHANGED vars

Step == \/ CheckGrammar \/ GrammarOver \/ Declare \/ NextFile \/ DeclareOver
        \/ InferConst \/ TypeRound \/ EvalConst \/ ValueRound \/ Skeleton

Next == Step \/ Resolved

(* The calling thread runs until the skeleton is built.                     *)
Spec == Init /\ [][Next]_vars /\ WF_vars(Step)

----------------------------------------------------------------------------
(* Types: every cursor, table and diagnostic stays in its range, and a constant  *)
(* is open in at most one of the two lists of a round.                        *)
TypeOK ==
  /\ files \in Programs
  /\ stage \in {"grammar", "declare", "types", "values", "skeleton", "done"}
  /\ at \in (1 .. Len(files) + 1) \X (Nat \ {0})
  /\ declared \in SUBSET Names
  /\ \A list \in {candidates, pending, later} : list \in Seq(Const)
  /\ IsInjective([k \in DOMAIN candidates |-> candidates[k].name])
  /\ ToSet(pending) \cap ToSet(later) = {}
  /\ ToSet(pending) \cup ToSet(later) \subseteq ToSet(candidates)
  /\ progressed \in BOOLEAN
  /\ types \in [Names -> Seq({"list", "set"} \cup Literals)]
  /\ consts \in [Names -> {"none", "key", "other"}]
  /\ DOMAIN decls = Tables \X Names
  /\ diags \in [Codes -> [Names \cup {"none"} -> Nat]]

NoDiagnostics == \A code \in Codes : \A n \in Names \cup {"none"} : diags[code][n] = 0

(* A program accepted without a diagnostic is whole: every declaration of every  *)
(* file is the entry the skeleton holds under its name, no file's first one or    *)
(* the prelude's in its stead, every module's constant has its value, and no      *)
(* module executes a statement (build_program_skeleton's or_insert_with and the   *)
(* constants resolve_module_const_values gives up drop things silently).      *)
NothingDropped ==
  stage = "done" /\ NoDiagnostics =>
    \A p \in Items :
      /\ Item(p).kind = "decl" => decls[<<Item(p).table, Item(p).names[1]>>] = p
      /\ IsConstant(p) => consts[Item(p).name] # "none"
      /\ Item(p).kind = "stmt" => ~files[p[1]].directive

(* Whether these are the types the constants' definitions give them, in whatever  *)
(* order they stand: each is what is inferred of its constant from the others,      *)
(* and no constants owe their types to each other.                            *)
Explains(known) ==
  /\ \A n \in Names : (\A c \in ToSet(candidates) : c.name # n) => known[n] = <<>>
  /\ \A c \in ToSet(candidates) : known[c.name] = Infer(c, known).type
  /\ \A S \in SUBSET {c \in ToSet(candidates) : known[c.name] # <<>>} :
       S # {} => \E c \in S : \A d \in S : d.name \notin ToSet(c.of)

(* The two fixpoints do not depend on the order of files and declarations, and    *)
(* they agree: every constant gets the type its definition gives it, and one that *)
(* has a type is evaluated, to a value that can be a set's element exactly when   *)
(* its type says so (D-MOD-02, "regardless of declaration order").             *)
FixpointsAgree ==
  /\ stage \in {"values", "skeleton", "done"} => Explains(types)
  /\ stage = "done" =>
       \A n \in Names : types[n] # <<>> =>
         consts[n] = IF Key(types[n]) THEN "key" ELSE "other"

(* Where a name is declared: an item, and which of its names it is.            *)
DeclaredBy(S, n) ==
  UNION {{p} \X {k \in DOMAIN NamesOf(p) : NamesOf(p)[k] = n} : p \in S}

(* Every mistake is reported once: each declaration of a name but its first, or   *)
(* every one when the prelude has it, and each constant without a type, whether it *)
(* is wrong, refers to a wrong one, to itself or to nothing; and no other one is.  *)
DiagnosedOnce ==
  stage = "done" =>
    \A n \in Names :
      /\ LET count == Cardinality(DeclaredBy(Items, n))
         IN  diags["E1001"][n] = IF n \in PreludeNames \/ count = 0 THEN count ELSE count - 1
      /\ diags["E10xx"][n] + diags["E1003"][n]
           = Cardinality({c \in ToSet(candidates) : c.name = n /\ types[n] = <<>>})

(* Resolution ends whatever the constants refer to: a round that settles none is  *)
(* the last (the two loops have no other bound).                            *)
Terminates == <>(stage = "done")
=============================================================================
