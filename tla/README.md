# A TLA+ model of yabumi

yabumi (`ybm`) is an interpreter for a small statically typed scripting language, written in
Rust. It has four commands: `ybm <file>` runs a program, `ybm check [--apply]` checks and formats
it, `ybm test` runs the examples in its doc comments, and `ybm lsp` is a language server. This
directory holds TLA+ modules for the parts of it that keep state, the TLC configurations that
model-check them, and proofs checked by TLAPS. Paths below are relative to the repository's `src/`.

## 1. The system

| part | state it keeps | operations | who calls it |
|---|---|---|---|
| `lib.rs` | one 64 MiB thread for the whole pipeline | spawn, join, exit code | `main` |
| `driver.rs`, pipeline | the `Program` (declarations, constants, side tables), diagnostics | read, lex, parse, resolve, type-check, effects, lint; then run, doc blocks or formatting | all commands, the server through `analyze` |
| `driver.rs`, formatting | files, temporaries and backups on disk | stage, commit, roll back, clean up | `check --apply` |
| `doctest/` | a clone of the program per block, the results | extract, number, install, type-check, run | `check`, `test`, `lsp` |
| `module_resolve/` | the flat namespace, the open constants, their types and values | grammar check, declare, two fixpoints, move declarations | the pipeline |
| `lsp/` | open documents, their analyses, what was published | open, change, save, close, re-analyse, publish, shutdown, exit | the client's messages, one at a time |
| `concurrency/` | worker threads, a channel, a cancel flag, result slots | spawn, evaluate, send, receive, join | the evaluator, for `par`, `par_map`, `par_each` |
| `eval/` | call depth per thread, frames and scopes, values | calls, statements, expressions, places | the pipeline, doc blocks, par branches |
| `lexer/`, `parser/` | cursors, indentation stack, node counter | tokens, trees, comment attachment | the pipeline, doc blocks |
| `types/`, `effects/`, `lint/` | type environment, resolutions, effect rows | checking rules | the pipeline, doc blocks (types only) |
| `fmt/` | none | print a tree | the pipeline, the server |
| `stdlib/` | `ENV_OVERLAY` (process), the random generator (thread) | about 150 functions | the evaluator |

What interacts: the driver passes one `Program` through the phases, each of which must be clean
before the next; every par branch is an OS thread with its own call depth and random generator and
a snapshot of the environment, and shares only `ENV_OVERLAY`; doc blocks share the process, the
thread and one program they clone; an analysis of the server reads the open documents before the
disk; the server re-analyses every open document after each change, since each may be another's
module.

What is hard: the interleavings of par workers and the calling thread with an abort and a process
exit in between; nested par; a multi-file rewrite by renames that may fail or be killed at any point;
overlapping analyses publishing to the same paths in the order of a hash map; phases and commands
that must agree about one program; doc blocks that must not disturb each other; fixpoints over
declarations in any order; a checker and an evaluator that have to agree about a whole language
without sharing a line; and a formatter that rebuilds a file from its tree and its comments'
line numbers. `PROJECT.json` lists each of these hazards at its line.

What makes each part correct: *par*: results complete and in order or one abort, an end to every call,
bounded threads. *Formatting*: nothing lost, all or nothing, no litter, an honest exit code. *Server*:
analyses of current text, no stale diagnostics, every open document's findings shown, siblings read as
they are open. *Pipeline*: nothing runs or is rewritten after a finding, commands agree, blocks are
independent. *Resolution*: nothing dropped silently, order does not matter, each mistake reported once.
*Calls*: exact depth, bounded stacks. *Language*: an accepted program reaches no `unreachable!`, its
variables hold values of their static types, values are copied except through `var self`, and every
effect performed was counted. *Formatter*: what it writes is the same program with the same comments,
and formatting it again changes nothing. *Calendar and positions*: conversions there and back are the
identity, or round in one direction by a known amount.

## 2. Modules

| module | models | runs | proofs |
|---|---|---|---|
| `ParCall` | what one par call promises: all values in order, or one abort | | |
| `ParPool` | `concurrency/mod.rs`, thread by thread | `par_pool` | `ParPoolProofs` |
| `CallDepth` | calls, unwinding, nested par threads, the pipeline thread | `call_depth`, `call_depth_par` | `CallDepthProofs` |
| `FmtApply` | `driver.rs`: `apply_fmt` to `cleanup_staged_formats`, one action per system call | `fmt_apply` | `FmtApplyProofs` |
| `LspServer` | `lsp/mod.rs`, with the overlay and discovery of `driver.rs` | `lsp`, `lsp_shown` | `LspServerProofs` |
| `Pipeline` | `driver.rs`: the phases of every command, `doctest/mod.rs` | `pipeline`, `pipeline_checked` | `PipelineProofs` |
| `ModuleResolve` | `module_resolve/` | `modules` | `ModuleResolveProofs` |
| `Types`, `Signatures` | `types/infer.rs`, `types/generics.rs`, the library's signatures of `types/check_expr.rs` | `language` | |
| `Ast`, `TypeCheck` | `ast/`, the rest of `types/`, `effects/mod.rs` | `language` | |
| `Values`, `Eval` | `eval/value.rs`, `eval/ops.rs`, the pure methods of `stdlib/`; the rest of `eval/` | `language` | |
| `Language` | a program's statements checked, then run | `language`, `language_holes` | |
| `Lexer`, `Syntax`, `Parser` | `lexer/mod.rs`, the tree with lines and comments, `parser/` | `format` | |
| `CommentAttach`, `Printer` | `parser/comment_attach.rs`, `fmt/printer.rs`, `fmt/doc_fence.rs` | `format` | |
| `Format` | `check --apply` on the text of one file, twice | `format` | |
| `Calendar` | `stdlib/time.rs`: the dates of `time.format` and `time.parse` | | `CalendarProofs` |
| `Positions` | `lsp/pos.rs`: positions of the compiler and of the editor | | `PositionsProofs` |

`MCx` instantiates module `x` for TLC. Definitions marked *mutant* are not part of a specification:
each is the form a definition would have with a plausible bug, kept to show that a property tells
the two apart (`PROJECT.json`, "mutants").

How they fit together: `Language` composes `TypeCheck` and `Eval`, `Format` composes `Lexer`,
`Parser`, `CommentAttach` and `Printer`. `Eval` runs a par's branches one after the other, which
`ParPool` justifies as far as values go: it returns what they return, in order, or the abort of one of
them, of which `Eval` takes the first. `ParPool` is one par call and `CallDepth` the tree of threads
that nested calls make, with a par call cut down to one element per branch; `Pipeline` abstracts module
resolution, the language and formatting to one step each, which `ModuleResolve`, `Language`, `Format`
and `FmtApply` detail, and `LspServer` abstracts a whole `analyze` to what it finds per file.

### ParPool and ParCall

State: the call's inputs (`n`, `cores`, `kind` for the two functions, `exits` for
`abort_process_on_par_panic`, and each element's `fate`), the calling thread's place and locals
(`main`, `spawned`, `cut`, `slots`, `first_abort`), each worker's (`pc`, `base`, `chunk`), the channel
and the cancel flag. The two functions of the code differ in how a chunk's start is known (an
iterator's index, or the elements left of a drained vector); the model has both. A value is named by
the element it came from, so a value in the wrong slot is visible. `ParCall` is the abstract
specification; the refinement maps a call's end to its one step, and is checked by TLC
(`ImplementsParCall`) and proved (`Refinement`).

### CallDepth

State: what each thread does, who waits for it, its `CALL_DEPTH`, and, as a history variable, the
calls it really is in. Programs are arbitrary: any thread that runs may call, return, panic or start
a par. `exits` separates `ybm <file>`, where the first abort received ends the process, from
`ybm test`, where an abort unwinds and the next doc block runs on the same thread. The operating
system's limit on threads is the constant `MaxThreads`.

### FmtApply

State: per file the text under its own name, its temporary and its backup, and where the run is. One
action is one system call of the code, in its order; each may fail (at most `MaxFaults` times), the
process may be killed between two, and an editor may save. A temporary or backup left behind by an
earlier run may be in the way at the start.

### LspServer

State: the disk, the documents the client has open, the server's `docs` (overlay) and `analyses`, what
is left to do of the message in hand (`queue`, `closing`), and what the client shows per path. A
handler is an action for its start, one `Reanalyze` per open document in any order (the code iterates
over a `HashMap`), and `Finish`; the disk may change in between, which the history variable `touched`
remembers. A text is what an analysis tells apart: its module directive, its own fault and the siblings
it uses. The directory has several names, and a document has the canonical path only while its file
exists. Read-only requests change nothing.

### Pipeline

State: the command, its next phase, what of the program later phases see (`literals`, `entry`,
`helpers`, `clobbered`), what doc blocks have changed outside it (`changed`), the reports and what was
executed or written. A session gives one program to several commands, so that `verdict` compares them.
A program is the set of its faulty phases, node counts and doc blocks of several kinds, some of which
change or read what is outside: the environment overlay or the files. The random generator is outside
too, but no program can seed it, so a draw tells nothing about the draws before. How many nodes some
files have is the number of pairs of a file and one of its nodes.

### ModuleResolve

State: the cursor over files and items, `declared_at`, the constants still open in the present round
and the next, their types and values, the program's tables and the diagnostics. A round of either
fixpoint is one action per constant and one at its end. Of the diagnostics the model keeps how often
each code was reported of each name. Constants are bare, lists or sets over literals
and names; dictionaries and tuples go the same way and are left out.

### Types, Signatures, Ast, TypeCheck, Values, Eval, Language

State: the declarations (`program`), the bindings the checker has (`static`), the evaluator's
environment (`env`), how the program stands (`outcome`), and of the last statement what it names as
targets of a change, what effects it had and which were counted for it (`last`). The checker and the
evaluator are recursive operators, `Check` and `Eval`, with one case per form of the tree; both are
translated from their own source, and neither knows the other. A step of `Language` takes a statement
the checker accepts after those before it and runs it, so the behaviours are the runs of all accepted
sequences of statements; a code that refuses a statement shows in that it never runs.

`Check` returns the type, the codes of the diagnostics, the effects by the checker's own estimate
(which become part of a lambda's type) and those the effect phase counts, which are not the same rules.
Generic signatures are unified as in `unify` and `unify_collect`, with the code's holes: an unknown
type, a type variable or `Value` fits anything. `Eval` returns a value, a return on its way, a panic with
its code, or `stuck` where the code has an `unreachable!`. Closures hold a merged copy of the scopes
they were made in; a call of a mutating method captures its place, takes a snapshot, evaluates the
arguments, works on the snapshot and writes it back; a `return` wraps its value when the function's
return type is a `Result` or an `Option`.

Integers have the width `-MaxInt-1..MaxInt`, so that every overflow and division case of `eval/ops.rs`
happens with small numbers. A float is an integer with another tag, a text a short sequence of
characters.

### Lexer, Syntax, Parser, CommentAttach, Printer, Format

State: the text of one file, what the lexer and the parser made of it, and the history of two commands.
A text is a sequence of lines, a line its indentation and its lexemes. The lexer keeps what decides
about layout: the indentation stack, brackets, continuation lines, comments, the reading of a dot next
to a number. The parser is the code's recursive descent, operator for function, with its lookaheads,
its recovery and its depth limit; a node has its first and last line, and `EndLine` is the true last line
that `ast/end_line.rs` computes. Comments are given out by line as in `comment_attach.rs`, and `Printer`
has one operator per printing function, over fragments of text that know their indentation.

### Calendar, Positions

No state: operators that are translated from their source and that theorems for every input are proved
about, which no bounded run could say more of. `Calendar` has Rust's division, which rounds towards
zero, and an era of 400 years that begins with a March; a date's text is the numbers it consists of.
`parse` also checks its result against the width of an `i64`, `MinInt..MaxInt`. In `Positions` a line is
the sequence of its characters' lengths in UTF-16, one or two code units.

## 3. Runs

| run | bounds | states | properties |
|---|---|---|---|
| `par_pool` | 0 to 4 elements, 1 to 3 cores, every fate | 143,000 | `TypeOK`, `WorkersBounded`, `ResultConserved`, `ImplementsParCall`, `Termination`, `PanicEndsProcess` |
| `call_depth` | 4 threads, depth 2, par of 2, 2 doc blocks, 5 calls and branches | 150,000 | `TypeOK`, `DepthExact`, `StackBounded`, `WaitedFor`, `Terminates` |
| `fmt_apply` | 3 files, 3 failing calls, 1 save, 1 obstacle | 39,000 | `TypeOK`, `NeverLost`, `AllOrNothing`, `LitterBounded`, `SuccessIsComplete` |
| `lsp` | 2 files, 2 names of their directory, 3 texts, 3 notifications, 1 save outside | 392,000 | `TypeOK`, `AnalysesCurrent`, `NothingStale`, `SiblingsCurrent`, `Responsive` |
| `pipeline` | 2 commands, 1 to 3 files, up to 3 doc blocks, any faults | 601,000 | `TypeOK`, `OnlyOnSuccess`, `OnePhaseReports`, `FenceIdsFresh`, `BlocksIndependent` |
| `modules` | 3 constants of 13 forms, 3 items of 8 kinds | 92,000 | `TypeOK`, `NothingDropped`, `FixpointsAgree`, `DiagnosedOnce`, `Terminates` |
| `language` | 15 pools of statements, integers of 3 bits, 3 calls deep, collections of 2 | 7,900 | `NeverStuck`, `ValuesTyped`, `EffectsCounted`, `ImmutableKept`, `OnlyTargetsChange` |
| `format` | 21 programs and 2,800 edits of them | 17,000 | `RoundTrip`, `CommentsKept`, `Idempotent`, `ParsedWhole` |

Why the bounds are enough. *par_pool*: with four elements and three cores there are chunks of one and
of two elements, a last chunk that is shorter, fewer chunks than cores, and two workers aborting while
a third is still evaluating; the proofs cover all sizes. *call_depth*: two levels of nested par with
two branches need four threads, and the limit is reached within five calls; again the proofs are
general. *fmt_apply*: with three files the failing one has committed files before it and staged ones
after it, and three faults let the rollback of a failing commit fail as well, which `AllOrNothing`
allows to spoil one file less than there are faults. *lsp*: two files that can be each other's module
are the smallest overlap, three notifications open both and change one, a second name for the directory
and a file that appears in between give one document two paths, and with the three texts a file can be
a script that uses the other, a module with a lint fault, or broken. *pipeline*: two commands are what
a comparison needs, a third file is what the node ids need, and the third block sees what two others
left. *modules*: three constants make chains and cycles of every shape up to three, across two files in
either order. *language*: a pool is a dozen statements about one part of the language (arithmetic,
lists, keyed collections, structs, variants, closures, higher-order methods, pipes, effects handed on
as functions, and so on; five are calls of every built-in method and function, and one is statements
the checker must refuse), and all its accepted sequences are run until a variable would exceed
`MaxSize`; three of them reach every kind of place and both ends of the integers. *format*: the
programs hold every form of statement, expression, pattern, type and declaration that the model has
(literals are opaque and f-strings absent, section 5), nested where printers meet, on one line and on
several; each is also tried with every single lexeme missing and every line at four indentations, which
makes new programs and rejected ones, and with one comment above any line and another behind any line,
plain or doc; a depth limit of 7 is met by one of them.

The bounds are constants or guards named in the modules: `MaxItems`, `MaxCores`; `MaxThreads`,
`MaxBranches`, `MaxBlocks`, `MaxWork` (the calls a program makes in all); `MaxFaults`, `MaxEdits`;
`MaxNotes` (notifications), `MaxSaves`; `MaxCommands`; `MaxInt`, `MaxCallDepth`, `MaxSize`;
`MaxParseDepth`.

Fairness. `ParPool` and `CallDepth`: each thread is weakly fair, as the operating system schedules
threads that can run; a branch that never returns is a fate of its own in `ParPool`, and its
`Termination` is stated for calls without one. `LspServer`: the server's own work is weakly fair
(a single loop without locks), the client's is not. `ModuleResolve`: the calling thread runs. `FmtApply`,
`Pipeline`, `Language` and `Format` have safety properties only. `par_pool` has `CHECK_DEADLOCK FALSE`
because a call whose element never comes back may stay there, `language` because a program ends with a
panic or with its last statement, `format` because it ends with the second command or a rejected file.

### Disagreements between the code and its documents

Each of these has a run that must find the violation, and an entry with the quotations in `PROJECT.json`.

* `lsp_shown`: two open documents, one loses its `module` directive; if it is visited first, the other
  one's turn clears the diagnostics it has just published, since `reanalyze` asks only whether its own
  root still covers the path (`lsp/mod.rs:117`).
* `call_depth_par`: recursion through par never meets the call limit, because every branch's thread
  starts at depth zero; the process runs out of threads and panics in Rust, with no E6008.
* `pipeline_checked`: `ybm check` accepts a program that `ybm <file>` rejects, because the literals
  collected for doc blocks are constants during type checking. A top-level `?` in a file with doc
  blocks gives the opposite: it runs, and check and test reject it with E1060.
* `language_holes`: seven programs that pass every check and end in an `unreachable!`: a match whose
  tuple pattern holds the name of a unit variant; a module constant changed by a method or an index
  assignment; an unannotated lambda called with the wrong type; a pipe to a local closure that is named
  like a built-in; `return 2` at top level; a generic function that returns its parameter as an `int`.
  The `language` run is over programs without these forms.

Without a run of their own, but in `PROJECT.json` with their quotations: a document opened through a
symbolic link before its file exists is stored under another path than the one it is closed with
(`canonical_or_raw`), so closing it leaves its overlay and its diagnostics, where `docs/LSP.md`
promises to remove it; doc blocks are not the independent programs that SPEC.md asks for, since what
one of them sets with `env.set` (a static of the process) or writes to files is there for the later
ones; the offset for a doc block's node ids leaves out files that declare constants only, so ids can
collide; the snapshot of a mutating method loses what its arguments changed; `i64::MIN % -1` ends with
the code for a division by zero; two ways for effects to travel that no rule counts. Of the formatter,
all of which the sources of `format` leave out: a declaration without a body gains a blank line each
time it is formatted; a lambda whose body is an `if` or a `match` outside brackets is written as text
the parser rejects, as is `1 .foo()`; and a comment behind the last line of an `if` in parentheses
swallows the closing parenthesis. A doc fence that is never closed is dropped with what follows it, as
a comment in the code says.

Smaller ones, not listed there: the header of `driver.rs` and the comment of `run_effect_and_lint` say
that `ybm <file>` does not check effects, and `run_command` does; the literals of an entry file that
refer to a module's constant are missing from the scope of its doc blocks
(`collect_doctest_pseudo_consts` starts from an empty table); the head of `comment_attach.rs` says that
fields keep no comments, and they do.

## 4. Proofs

Each proof module extends the module it is about, and assumes only the named `ASSUME`s there: bounds
are natural numbers, and programs, texts and names have the shape the parser gives them. All follow
one pattern: an inductive invariant `IInv`, whose parts are checked by TLC first and have names, a lemma
that each part is preserved with one step per action, `Invariant` (`Spec => []IInv`), and the properties
as temporal theorems that follow from it. The theorems hold for every number of elements, files,
documents, constants and so on; the runs of the same properties show that their cases occur.
`CalendarProofs` and `PositionsProofs` are about operators instead, and have no invariant.

*ParPool.* `IInv` says more than any checked property: the chunks handed out cover exactly the elements
cut off so far (`ChunksInv`); what each worker's place says about its element and the cancel flag
(`WorkersInv`); messages and slots hold true values at their own index (`TruthInv`); while the caller
collects, an element a worker is done with is in its slot or in the channel, and a raised flag has its
abort on the way (`DeliveryInv`); and how the loop can have ended (`OutcomeInv`). The property a reader
cares about, that `slots` is full when the caller unwraps it, is not inductive: it needs to know where
each missing value is, hence `DeliveryInv`. From it follow `TypeCorrect`, `BoundedThreads` and
`Refinement`, the implementation of `ParCall` by a step-by-step mapping. The arithmetic of chunking
(`ChunkSizePositive` and the lemmas after it) is separate. `NoResultLost` proves `ResultConserved` on
top of it: two threads' chunks do not overlap (`DisjointInv`), so an element is ahead of one worker
only until that worker comes to it (`ReachedInv`), and what was evaluated moves from the hand to the
channel to the slot or the abort and is never in two of them (`PlacesInv`). `CallsEnd` is what can be
proved of termination: every step of the caller or of a worker lowers a natural number that counts what
this thread may still do, and raises no other's; and as long as the call has not ended, the guard of
some step holds (`Able`), unless an element does not come back. The caller's number counts the holes in
its slots, so that this needs `PlacesInv` too: a message that arrives fills a hole.

*CallDepth.* `DepthExact` and `StackBounded` need that a thread at rest is in no call
(`RestingIdle`), since a thread's number is used again by a later branch; `WaitedFor` needs that the
pipeline thread is never at rest (`MainAlive`). The theorems are `TypeCorrect`, `DepthIsExact`,
`StackIsBounded` and `EveryBranchIsAwaited`, for any limit and any number of threads.

*FmtApply.* `NeverLost`, `AllOrNothing` and `LitterBounded` speak of the files alone; what makes them
inductive is where the run is. `TempInv` and `SwapInv` say which temporaries are complete and which
files have their new text at each point of staging and committing. `Held` names the files whose backup
the run still has to rename back, and `LossInv` that their backups are their old texts. A file is
spoilt that is not as it was found and that the run will not put back any more (`Spoiled`). `IntactInv`
says that none is before a rename fails, and that one has failed when files are put back; from then on
`SpoilInv` counts the spoilt ones against the failing calls, of which each further one spoils one file
at most. It gives `FailuresAreContained`, which says more than that one failing call is harmless:
however many calls fail, the damage is smaller than their number. `LitterInv` counts likewise: what
lies about and the run no longer means to remove was left there by a failing call, one per call. The
cursor goes to the least file left, which exists because the natural numbers are well-founded
(`LeastExists`). `RunsEnd` bounds a run by 8N+9 system calls for N files: `StepsLeft` counts the calls
to come in the worst case, every one of them lowers it, and an editor's save leaves it.

*LspServer.* `AnalysesCurrent` holds between messages only; while a handler works, it is true of the
documents it is done with (`AnalysesInv`). `NothingStale` needs the reason for each list that is shown:
some open document has found it, or the path is one that `did_close` is about to clear and no document
re-analysed since looks at it (`ShownInv`). `SiblingsAreCurrent` needs that an analysis made earlier in
the same handler is still the one that would be made now (`SiblingsInv`): it depends on the disk and on
the open texts only (`CheckedDepends`), and a handler changes these in its first step. All of them hold
for any number of names of the directory.

*Pipeline.* `StageInv` says which phases were clean when a stage is reached, by command, and `DiagsInv`
that nothing was reported until then except by the server's effect and lint phases; `OnlyOnSuccess` and
`OnePhaseReports` follow. `FenceIdsFresh` is arithmetic: a file's ids lie below the number of all nodes
(`IdsBounded`), a block's from that number on when every file declares something (`FenceIdsApart`), which
is also what `BlocksIndependent` needs besides the block that made each change (`BlocksInv`). It says as
much of the independence SPEC.md asks for as the code keeps: a block may come to another result than
alone only if an earlier one has changed what it reads outside the program.

*ModuleResolve.* `NamespaceInv` counts the places at which the items seen so far declare each name, and
has one diagnostic less, or as many when the prelude has the name; with `SettledInv`, by which a
constant is open, typed or reported, and one of them only, it gives `EveryMistakeOnce` and
`NothingIsDropped`. That every typed constant has a value needs an order of the typed constants in
which each refers to earlier ones (`OrderInv`): of those left without a value the first would have been
evaluated in the last round. That the result does not depend on the order of files is stated by
`Explains`, which says of a table of types that the definitions give just these: each constant's is
what is inferred of it from the others, and no constants owe theirs to each other. `FixedInv` says that
what was given up stays without a type, so the rounds end with an explanation (`FixpointsMeet`);
`OneExplanation` shows that there are no two, so the order cannot matter (`TypesAreDetermined`, which
no run checks). `ResolutionEnds` has the measure of the two fixpoints: the stage, the constants that
are open, whether the round has settled one and so may be followed by another, and the constants that
the round has not seen, in lexicographic order.

*Calendar.* That two conversions undo each other says little if both are of a wrong calendar, so
`DayZero` and `NextDay` come with it: day 0 is the first of January 1970, and the day after a date, by
the month lengths that `parse` checks, has the next number. An era's days are taken apart as centuries,
fours of years, years and days (`Parts`), with which the four quotients of `civil_from_days` are sums
that solve by arithmetic (`YearFound`), and the months of a year that begins with March follow the line
`(153 m + 2) / 5` (`MonthFound`). From there `CivilRoundTrip` and `DaysRoundTrip` are for every
integer, and `FormatKeepsSeconds`, `ParseThenFormat`, `FormatThenParse` and `ParseAcceptsOneMoment` say
what `time.format` and `time.parse` make of it. They are about a date's numbers. Not every text of a
date can be read: a year before 0 is printed with a minus sign, which `parse` does not read as part of
it; and the first second of the `i64` range is printed as a whole second that lies below it, which
`parse` refuses, hence the hypothesis of `FormatThenParse`. The days passed between the functions are
not checked for their width apart, since milliseconds within it are days within it.

*Positions.* `Units`, the length of a line's beginning, is a cardinality; it grows with every character
(`UnitsGrow`, `UnitsStep`), so that the loop of `from_lsp_column` ends at one column only
(`ColumnIsUnique`). A position of the compiler comes back from the editor as it was
(`PositionRoundTrip`); one of the editor is rounded down to a character, by one unit inside a surrogate
pair and to the end of a line behind it (`ColumnRoundsDown`), and is in the text whatever was sent
(`AnyPositionLandsInText`); ranges stay in order (`RangesStayOrdered`), and none reaches behind the end
of the document (`NothingAfterTheEnd`), where the edit that formats it ends. `PositionRoundTrip` is
about the columns up to the one behind a line's last character; a column at or behind a carriage return
comes back as that one.

What the proofs changed in the models. `MaxCommands` must not be 0, since the first command has number 1.
`Nodes` and the diagnostics are a cardinality and counters, where they were sums and lists, of
whose operators the provers know nothing. The reference result of the fixpoints was a
recursive function too; `Explains` says more, since it does not settle constants in any order.

Model-checked only, and why:

* `Termination`, `PanicEndsProcess`, `Terminates` (twice) and `Responsive` are liveness properties, which
  the prover cannot do under fairness. What it can do is proved: `CallsEnd`, `RunsEnd` and
  `ResolutionEnds` have measures that every step lowers. The step from there to "eventually", by
  fairness and `ENABLED`, is TLC's;
* `NeverStuck`, `ValuesTyped`, `EffectsCounted`, `ImmutableKept` and `OnlyTargetsChange` of `Language`,
  and `RoundTrip`, `CommentsKept`, `Idempotent` and `ParsedWhole` of `Format`: the checker, evaluator,
  parser and printer are recursive operators over trees, for which the prover has no induction.

## 5. Not modelled

* Command line, JSON, transport and URIs of the server, rendering of diagnostics, lint:
  functions from input to output that the state of no other part depends on, beyond their outcome, which
  `Pipeline` has.
* In the language: codecs and regular expressions (their results are texts), case conversion, trimming
  and splitting of texts and the random generator, which have their signatures and effects only; what a
  call to the outside does there. `Calendar` is not part of `Eval`, where `time.format` is a signature.
* In the formatter: the characters of literals (escapes, quotes, the form of floats, f-strings), tabs.
* Timing: no part of the code has timeouts or retries.

## 6. Order of work

`ParPool`, `FmtApply`, `LspServer`, `CallDepth`, `Pipeline`, `ModuleResolve`; the language; the
formatter; proofs of every safety property of the first six; measures for termination; the calendar and
the positions of the server. What would come next: reachability of functions in lint, the codecs'
decoding to a target type, and for the proofs a checker and an evaluator as recursive functions over
trees of bounded height, of which an induction over that height could be had.
