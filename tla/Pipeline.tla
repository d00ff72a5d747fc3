------------------------------ MODULE Pipeline ------------------------------
(***************************************************************************)
(* driver.rs and doctest/mod.rs: what `ybm <file>`, `ybm check`, `ybm      *)
(* test` and one analysis of `ybm lsp` do with a program.  Every phase     *)
(* must be clean before the next one runs; then the program is executed,   *)
(* or its doc blocks are type-checked or run, each in a disposable copy of *)
(* the program.                                                            *)
(*                                                                         *)
(* A program is what its phases make of it: the phases that find           *)
(* something, whether a function uses a literal the entry file assigns at  *)
(* top level, whether the entry has a top-level `?`, the number of syntax  *)
(* nodes of every file, and its doc blocks.  A session gives the same      *)
(* program to several commands, so that their verdicts can be compared.    *)
(***************************************************************************)
EXTENDS Naturals, Sequences, FiniteSets, Functions

CONSTANTS
  Programs,       \* the programs considered
  MaxCommands     \* bound on the commands of a session

Phases == {"read", "lex", "parse", "resolve", "type", "effect", "lint"}
Commands == {"run", "check", "apply", "test", "lsp"}

(* What a doc block does: nothing special; fail to type-check; declare a   *)
(* helper; fail an assert; change something outside its program; assert    *)
(* that it is as the command found it.  Outside are ENV_OVERLAY, which     *)
(* env.set writes, and the files.  (The thread's random generator goes on  *)
(* from block to block too, but no program can seed it: a draw has no      *)
(* value to rely on.)                                                      *)
Kinds == {"plain", "bad", "declares", "asserts", "changes", "reads"}
Outside == {"env", "files"}

Program(p) ==
  /\ p.faults \subseteq Phases
  /\ p.usesEntryLiteral \in BOOLEAN /\ p.question \in BOOLEAN /\ p.unformatted \in BOOLEAN
  /\ p.files \in Seq([nodes : Nat, declares : BOOLEAN]) /\ p.files # <<>>
  /\ p.blocks \in Seq([kind : Kinds, outside : Outside, file : DOMAIN p.files, nodes : Nat])

ASSUME Parameters == (\A p \in Programs : Program(p)) /\ MaxCommands \in Nat \ {0}

VARIABLES
  prog,       \* the program
  command,    \* the command that is running
  stage,      \* its next phase, "done" between commands
  literals,   \* program.consts holds the entry's literals
  entry,      \* program.functions holds the synthetic $entry
  helpers,    \* program.functions holds a block's declaration
  clobbered,  \* real nodes whose resolutions a block's type check overwrote
  changed,    \* what the blocks have changed outside
  results,    \* the outcomes of the blocks so far
  diags,      \* the phases that reported
  ran,        \* what was executed: Entry, and the blocks
  written,    \* files were rewritten
  verdict,    \* history: what each command made of the program statically
  given       \* commands so far

process == <<changed, results, ran, written>>
program == <<literals, entry, helpers, clobbered>>
vars == <<prog, command, stage, literals, entry, helpers, clobbered, changed, results,
          diags, ran, written, verdict, given>>

Entry == 0      \* stands for the entry file's statements in ran
Block == prog.blocks[Len(results) + 1]
BlocksLeft == Len(results) < Len(prog.blocks)
NeedFences == command # "run"

Init ==
  /\ prog \in Programs
  /\ command \in Commands
  /\ stage = "read"
  /\ literals = FALSE /\ entry = FALSE /\ helpers = FALSE /\ clobbered = {}
  /\ changed = {} /\ results = <<>> /\ diags = {} /\ ran = {} /\ written = FALSE
  /\ verdict = [c \in Commands |-> "none"]
  /\ given = 1

(* A command is a process of its own; the program is the same.             *)
Command(c) ==
  /\ stage = "done"
  /\ given < MaxCommands
  /\ verdict[c] = "none"
  /\ command' = c
  /\ stage' = "read"
  /\ literals' = FALSE /\ entry' = FALSE /\ helpers' = FALSE /\ clobbered' = {}
  /\ changed' = {} /\ results' = <<>> /\ diags' = {} /\ ran' = {} /\ written' = FALSE
  /\ given' = given + 1
  /\ UNCHANGED <<prog, verdict>>

Reject(found) ==
  /\ diags' = diags \cup found
  /\ stage' = "done"
  /\ verdict' = [verdict EXCEPT ![command] = "rejected"]

Proceed(next) ==
  /\ stage' = next
  /\ UNCHANGED <<diags, verdict>>

(* The next phase runs only when this one found nothing in any file.       *)
Gate(phase, faulty, next) == IF faulty THEN Reject({phase}) ELSE Proceed(next)

Read ==
  /\ stage = "read"
  /\ Gate("read", "read" \in prog.faults, "lex")
  /\ UNCHANGED <<prog, command, program, process, given>>

Lex ==
  /\ stage = "lex"
  /\ Gate("lex", "lex" \in prog.faults, "parse")
  /\ UNCHANGED <<prog, command, program, process, given>>

Parse ==
  /\ stage = "parse"
  /\ Gate("parse", "parse" \in prog.faults, "resolve")
  /\ UNCHANGED <<prog, command, program, process, given>>

ResolveGoesOn ==                \* mutant: type checking runs on a broken skeleton
  /\ stage = "resolve"
  /\ stage' = "type"
  /\ diags' = IF "resolve" \in prog.faults THEN diags \cup {"resolve"} ELSE diags
  /\ literals' = NeedFences
  /\ UNCHANGED <<prog, command, entry, helpers, clobbered, process, verdict, given>>

(* build_program_skeleton; for the commands that look at doc blocks, the   *)
(* entry's literal assignments then join the modules' constants.           *)
Resolve ==
  /\ stage = "resolve"
  /\ Gate("resolve", "resolve" \in prog.faults, "type")
  /\ literals' = ("resolve" \notin prog.faults /\ NeedFences)
  /\ UNCHANGED <<prog, command, entry, helpers, clobbered, process, given>>

(* check_program: the literals resolve as constants when they are there,   *)
(* also inside functions.  Then the entry's statements become the body of  *)
(* $entry.                                                                 *)
TypeCheck ==
  /\ stage = "type"
  /\ LET faulty == "type" \in prog.faults \/ (prog.usesEntryLiteral /\ ~literals)
     IN  /\ Gate("type", faulty, "effect")
         /\ entry' = ~faulty
  /\ UNCHANGED <<prog, command, literals, helpers, clobbered, process, given>>

EffectsNoted ==                 \* mutant: as driver.rs's header has it, run does not stop here
  /\ stage = "effect"
  /\ LET faulty == "effect" \in prog.faults /\ command # "run"
         next == IF command = "run" THEN "execute" ELSE "lint"
     IN  IF command = "lsp" /\ faulty
           THEN stage' = "fences" /\ diags' = diags \cup {"effect"} /\ UNCHANGED verdict
           ELSE Gate("effect", faulty, next)
  /\ UNCHANGED <<prog, command, program, process, given>>

(* For the language server a finding skips lint, not the doc blocks.       *)
Effects ==
  /\ stage = "effect"
  /\ LET faulty == "effect" \in prog.faults
         next == IF command = "run" THEN "execute" ELSE "lint"
     IN  IF command = "lsp" /\ faulty
           THEN stage' = "fences" /\ diags' = diags \cup {"effect"} /\ UNCHANGED verdict
           ELSE Gate("effect", faulty, next)
  /\ UNCHANGED <<prog, command, program, process, given>>

Lint ==
  /\ stage = "lint"
  /\ LET faulty == "lint" \in prog.faults
         next == IF command = "test" THEN "blocks" ELSE "fences"
     IN  IF command = "lsp" /\ faulty
           THEN stage' = "fences" /\ diags' = diags \cup {"lint"} /\ UNCHANGED verdict
           ELSE Gate("lint", faulty, next)
  /\ UNCHANGED <<prog, command, program, process, given>>

(* `ybm <file>`: the entry's items are taken out again and executed.       *)
Execute ==
  /\ stage = "execute"
  /\ entry' = FALSE
  /\ ran' = {Entry}
  /\ stage' = "done"
  /\ \E aborts \in BOOLEAN : diags' = IF aborts THEN {"abort"} ELSE {}
  /\ verdict' = [verdict EXCEPT ![command] = "accepted"]
  /\ UNCHANGED <<prog, command, literals, helpers, clobbered, changed, results, written,
                 given>>

----------------------------------------------------------------------------
(* Doc blocks.                                                             *)

(* How many syntax nodes some of the files have.                           *)
Nodes(S) == Cardinality(UNION {{i} \X (1 .. prog.files[i].nodes) : i \in S})

(* parse_all_files numbers the nodes of all files consecutively.           *)
Ids(i) == LET before == Nodes(1 .. i - 1) IN before .. before + prog.files[i].nodes - 1

(* Files some declaration of the program comes from; $entry and the        *)
(* prelude count as the entry file's.                                      *)
Declaring == {i \in DOMAIN prog.files : i = 1 \/ prog.files[i].declares}

FenceBaseLargest(b) ==          \* mutant: enough were every file numbered from 0
  1 + CHOOSE n \in {prog.files[i].nodes : i \in Declaring \cup {b.file}} :
        \A i \in Declaring \cup {b.file} : prog.files[i].nodes <= n

(* safe_fence_id_base: the nodes of the declaring files and the block's    *)
(* own.                                                                    *)
FenceBase(b) == 1 + Nodes(Declaring \cup {b.file})

FenceIds(b) == FenceBase(b) .. FenceBase(b) + b.nodes - 1

(* The declarations' nodes whose side-table entries the block's type       *)
(* check, the last to run, would take over.                                *)
Overwritten(b) == (UNION {Ids(i) : i \in Declaring}) \cap FenceIds(b)

(* The block is checked with all declarations of its copy, $entry          *)
(* included: as a function returning void, in which `?` is an error.       *)
WellTyped(b) == b.kind # "bad" /\ ~(entry /\ prog.question)
Installs(b) == ~(b.kind = "declares" /\ helpers)

(* `ybm check` and the server: each block in turn, and all findings count. *)
CheckFence ==
  /\ stage = "fences"
  /\ BlocksLeft
  /\ results' = Append(results, IF Installs(Block) /\ WellTyped(Block) THEN "pass" ELSE "fail")
  /\ UNCHANGED <<prog, command, stage, program, changed, diags, ran, written, verdict, given>>

FencesOver ==
  /\ stage = "fences"
  /\ ~BlocksLeft
  /\ LET faulty == "fail" \in Range(results)
     IN  IF faulty \/ diags # {}
           THEN Reject(IF faulty THEN {"fence"} ELSE {})
           ELSE /\ stage' = IF command = "lsp" THEN "done" ELSE "format"
                /\ verdict' = [verdict EXCEPT ![command] = "accepted"]
                /\ UNCHANGED diags
  /\ UNCHANGED <<prog, command, program, process, given>>

(* What executing a block amounts to; a declaration whose resolutions were *)
(* overwritten may do anything.                                            *)
Outcomes(b, lost) ==
  IF lost # {} THEN {"pass", "fail"}
  ELSE IF b.kind = "asserts" \/ (b.kind = "reads" /\ b.outside \in changed) THEN {"fail"}
  ELSE {"pass"}

Changes(b, runs) == IF runs /\ b.kind = "changes" THEN {b.outside} ELSE {}

RunBlockInPlace ==              \* mutant: the block's items go into the program itself
  /\ stage = "blocks"
  /\ BlocksLeft
  /\ LET runs == Installs(Block) /\ WellTyped(Block)
     IN  /\ \E outcome \in IF runs THEN Outcomes(Block, Overwritten(Block)) ELSE {"fail"} :
              results' = Append(results, outcome)
         /\ ran' = IF runs THEN ran \cup {Len(results) + 1} ELSE ran
         /\ changed' = changed \cup Changes(Block, runs)
         /\ clobbered' = IF runs THEN Overwritten(Block) ELSE {}
         /\ helpers' = (helpers \/ Block.kind = "declares")
  /\ UNCHANGED <<prog, command, stage, literals, entry, diags, written, verdict, given>>

RunBlockStops ==                \* mutant: after a failed block the others are skipped
  /\ stage = "blocks"
  /\ BlocksLeft
  /\ LET skipped == "fail" \in Range(results)
         runs == Installs(Block) /\ WellTyped(Block) /\ ~skipped
     IN  /\ results' = Append(results, IF runs /\ Block.kind # "asserts" THEN "pass" ELSE "fail")
         /\ ran' = IF runs THEN ran \cup {Len(results) + 1} ELSE ran
         /\ changed' = changed \cup Changes(Block, runs)
         /\ clobbered' = IF runs THEN Overwritten(Block) ELSE {}
  /\ UNCHANGED <<prog, command, stage, literals, entry, helpers, diags, written, verdict,
                 given>>

(* run_fence: parse, clone the program, install the block's declarations,  *)
(* type-check, execute in a fresh Environment.  The clone is dropped; what *)
(* the block has changed outside stays.                                    *)
RunBlock ==
  /\ stage = "blocks"
  /\ BlocksLeft
  /\ LET runs == Installs(Block) /\ WellTyped(Block)
     IN  /\ \E outcome \in IF runs THEN Outcomes(Block, Overwritten(Block)) ELSE {"fail"} :
              results' = Append(results, outcome)
         /\ ran' = IF runs THEN ran \cup {Len(results) + 1} ELSE ran
         /\ changed' = changed \cup Changes(Block, runs)
         /\ clobbered' = IF runs THEN Overwritten(Block) ELSE {}
  /\ UNCHANGED <<prog, command, stage, literals, entry, helpers, diags, written, verdict,
                 given>>

BlocksOver ==
  /\ stage = "blocks"
  /\ ~BlocksLeft
  /\ stage' = "done"
  /\ diags' = IF "fail" \in Range(results) THEN {"block"} ELSE {}
  /\ verdict' = [verdict EXCEPT ![command] = "accepted"]
  /\ UNCHANGED <<prog, command, program, process, given>>

(* apply_fmt: shows the difference, or with --apply writes it (FmtApply).  *)
Format ==
  /\ stage = "format"
  /\ stage' = "done"
  /\ written' = (command = "apply" /\ prog.unformatted)
  /\ diags' = IF command = "check" /\ prog.unformatted THEN {"format"} ELSE {}
  /\ UNCHANGED <<prog, command, program, changed, results, ran, verdict, given>>

Idle == stage = "done" /\ UNCHANGED vars

Next ==
  \/ \E c \in Commands : Command(c)
  \/ Read \/ Lex \/ Parse \/ Resolve \/ TypeCheck \/ Effects \/ Lint \/ Execute
  \/ CheckFence \/ FencesOver \/ RunBlock \/ BlocksOver \/ Format
  \/ Idle

Spec == Init /\ [][Next]_vars

----------------------------------------------------------------------------
(* Every variable has its type; the program itself never holds a           *)
(* declaration of a block, which only its clone does.                      *)
TypeOK ==
  /\ prog \in Programs
  /\ command \in Commands
  /\ stage \in Phases \cup {"execute", "fences", "blocks", "format", "done"}
  /\ literals \in BOOLEAN /\ entry \in BOOLEAN /\ ~helpers
  /\ clobbered \subseteq UNION {Ids(i) : i \in DOMAIN prog.files}
  /\ changed \subseteq Outside /\ written \in BOOLEAN
  /\ results \in Seq({"pass", "fail"}) /\ Len(results) <= Len(prog.blocks)
  /\ diags \subseteq Phases \cup {"abort", "fence", "block", "format"}
  /\ ran \subseteq {Entry} \cup DOMAIN prog.blocks
  /\ verdict \in [Commands -> {"none", "accepted", "rejected"}]
  /\ given \in 1 .. MaxCommands

Static == Phases \ {"lint"}

(* Code is executed and files are rewritten only when every check before   *)
(* it was clean: `ybm <file>` after the static phases, `ybm test` after    *)
(* lint too, --apply also after every doc block; check and the server      *)
(* execute nothing.                                                        *)
OnlyOnSuccess ==
  /\ Entry \in ran => command = "run" /\ prog.faults \cap Static = {}
  /\ ran \ {Entry} # {} => command = "test" /\ prog.faults = {}
  /\ written => /\ command = "apply"
                /\ prog.faults = {}
                /\ \A k \in DOMAIN prog.blocks : prog.blocks[k].kind # "bad"

(* What a command reports comes from the first phase that finds something  *)
(* (D-CLI-03); only the server shows doc block findings beside one.        *)
OnePhaseReports ==
  /\ \A d \in diags \cap prog.faults : \A e \in prog.faults \ {d} :
       LET order == <<"read", "lex", "parse", "resolve", "type", "effect", "lint">>
           place(x) == CHOOSE i \in DOMAIN order : order[i] = x
       IN  place(d) < place(e)
  /\ Cardinality(diags) <= (IF command = "lsp" /\ "fence" \in diags THEN 2 ELSE 1)

(* No block's type check takes over the side-table entry of a              *)
(* declaration's node, as safe_fence_id_base promises -- here for programs *)
(* all of whose modules declare something.                                 *)
FenceIdsFresh == (\A i \in DOMAIN prog.files : i \in Declaring) => clobbered = {}

(* SPEC.md: "Run each block as an independent program", D-DOC-04: "each    *)
(* block is an independent execution context".  As far as the program      *)
(* goes, that holds: a block's result is the one it has as the only block, *)
(* whatever the others declare, resolve and fail at.  It does not hold of  *)
(* what is outside the program, so a block is left out that looks there    *)
(* for something an earlier block has changed.                             *)
Alone(b) == b.kind \notin {"bad", "asserts"} /\ ~prog.question

Exposed(k) ==
  /\ prog.blocks[k].kind = "reads"
  /\ \E j \in 1 .. k - 1 : /\ prog.blocks[j].kind = "changes"
                           /\ prog.blocks[j].outside = prog.blocks[k].outside

BlocksIndependent ==
  (stage = "blocks" /\ \A i \in DOMAIN prog.files : i \in Declaring) =>
    \A k \in DOMAIN results :
      ~Exposed(k) => results[k] = IF Alone(prog.blocks[k]) THEN "pass" ELSE "fail"

----------------------------------------------------------------------------
(* driver.rs: the commands share one front end, and doctest/mod.rs says    *)
(* the entry's literals are "dedicated solely to building doctest's        *)
(* scope".  So a program without lint findings whose blocks are fine is    *)
(* accepted by `ybm check` exactly if `ybm <file>` executes it.            *)
CheckAgreesWithRun ==
  ("lint" \notin prog.faults /\ \A k \in DOMAIN prog.blocks : prog.blocks[k].kind # "bad")
    => {verdict["check"], verdict["run"]} # {"accepted", "rejected"}
=============================================================================
