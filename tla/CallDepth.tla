------------------------------ MODULE CallDepth -----------------------------
(***************************************************************************)
(* Calls and nested `par` across threads: eval/mod.rs counts the calls of    *)
(* each OS thread in the thread-local CALL_DEPTH and refuses a call beyond   *)
(* MAX_CALL_DEPTH with E6008; concurrency/mod.rs gives every branch a fresh  *)
(* thread, whose count starts at zero, and waits for all of them; lib.rs      *)
(* runs the whole pipeline on one thread and makes an exit code of its join. *)
(* `ybm test` runs its doc blocks one after the other on that thread, with    *)
(* abort_process_on_par_panic off; `ybm <file>` runs one program with it on.  *)
(*                                                                         *)
(* What a program does is arbitrary: it calls, returns, panics and starts    *)
(* par at will, at most MaxWork calls and branches in all.  ParPool has the  *)
(* inside of one par; here a branch is one element.                         *)
(***************************************************************************)
EXTENDS Naturals

CONSTANTS
  MaxCallDepth,   \* MAX_CALL_DEPTH
  MaxThreads,     \* threads the OS lets the process have
  MaxBranches,    \* bound on the branches of one par
  MaxBlocks,      \* bound on the doc blocks of one run
  MaxWork         \* bound on calls and branches

ASSUME Parameters ==
  /\ MaxCallDepth \in Nat
  /\ MaxThreads \in Nat \ {0}
  /\ MaxBranches \in Nat /\ MaxBlocks \in Nat /\ MaxWork \in Nat

VARIABLES
  exits,     \* Program::abort_process_on_par_panic
  state,     \* what each thread is doing
  parent,    \* the thread that waits for it
  depth,     \* its CALL_DEPTH
  frames,    \* history: the calls it is really in
  left,      \* branches its par has yet to spawn
  blocks,    \* programs the pipeline thread has yet to run
  outcome,   \* "running", or how the process ended
  work       \* calls and branches so far

counts == <<depth, frames>>
tree   == <<state, parent, left>>
vars   == <<exits, state, parent, depth, frames, left, blocks, outcome, work>>

Thread == 1 .. MaxThreads
Main == 1      \* the thread lib.rs spawns for the pipeline

Live == outcome = "running"
Busy(t) == Live /\ state[t] = "run"
Branches(t) == {u \in Thread : u # Main /\ state[u] # "free" /\ parent[u] = t}

Become(t, s) == state' = [state EXCEPT ![t] = s]

Init ==
  /\ exits \in BOOLEAN
  /\ state = [t \in Thread |-> IF t = Main THEN "run" ELSE "free"]
  /\ parent = [t \in Thread |-> Main]
  /\ depth = [t \in Thread |-> 0]
  /\ frames = [t \in Thread |-> 0]
  /\ left = [t \in Thread |-> 0]
  /\ blocks \in IF exits THEN {1} ELSE 1 .. MaxBlocks
  /\ outcome = "running"
  /\ work = 0

(* enter_call: the count goes up and, over the limit, down again, and the     *)
(* call aborts; otherwise a guard keeps it up as long as the call lasts.     *)
CallLeaks(t) ==                 \* mutant: the refused call is not taken back
  /\ Busy(t)
  /\ work < MaxWork
  /\ depth' = [depth EXCEPT ![t] = @ + 1]
  /\ IF depth[t] + 1 > MaxCallDepth
       THEN Become(t, "abort") /\ UNCHANGED frames
       ELSE frames' = [frames EXCEPT ![t] = @ + 1] /\ UNCHANGED state
  /\ work' = work + 1
  /\ UNCHANGED <<exits, parent, left, blocks, outcome>>

CallLimitOff(t) ==              \* mutant: the limit is compared before counting
  /\ Busy(t)
  /\ work < MaxWork
  /\ IF depth[t] > MaxCallDepth
       THEN Become(t, "abort") /\ UNCHANGED counts
       ELSE /\ depth' = [depth EXCEPT ![t] = @ + 1]
            /\ frames' = [frames EXCEPT ![t] = @ + 1]
            /\ UNCHANGED state
  /\ work' = work + 1
  /\ UNCHANGED <<exits, parent, left, blocks, outcome>>

Call(t) ==
  /\ Busy(t)
  /\ work < MaxWork
  /\ IF depth[t] + 1 > MaxCallDepth
       THEN Become(t, "abort") /\ UNCHANGED counts
       ELSE /\ depth' = [depth EXCEPT ![t] = @ + 1]
            /\ frames' = [frames EXCEPT ![t] = @ + 1]
            /\ UNCHANGED state
  /\ work' = work + 1
  /\ UNCHANGED <<exits, parent, left, blocks, outcome>>

(* The guard is dropped when the call returns and when an abort or a Rust     *)
(* panic unwinds through it.                                               *)
LeaveCall(t) ==
  /\ Live
  /\ state[t] \in {"run", "abort", "panic"}
  /\ frames[t] > 0
  /\ depth' = [depth EXCEPT ![t] = @ - 1]
  /\ frames' = [frames EXCEPT ![t] = @ - 1]
  /\ UNCHANGED <<exits, tree, blocks, outcome, work>>

(* Any panic of the interpreted program other than E6008.                    *)
Panic(t) ==
  /\ Busy(t)
  /\ Become(t, "abort")
  /\ UNCHANGED <<exits, parent, counts, left, blocks, outcome, work>>

Par(t, branches) ==
  /\ Busy(t)
  /\ work + branches <= MaxWork
  /\ Become(t, "spawn")
  /\ left' = [left EXCEPT ![t] = branches]
  /\ work' = work + branches
  /\ UNCHANGED <<exits, parent, counts, blocks, outcome>>

SpawnWaits(t) ==                \* mutant: a shared pool, where a branch waits for a thread
  /\ Live
  /\ state[t] = "spawn"
  /\ IF left[t] = 0
       THEN Become(t, "join") /\ UNCHANGED <<parent, left, counts>>
       ELSE \E u \in Thread :
              /\ state[u] = "free"
              /\ state' = [state EXCEPT ![u] = "run"]
              /\ parent' = [parent EXCEPT ![u] = t]
              /\ left' = [left EXCEPT ![t] = @ - 1]
              /\ depth' = [depth EXCEPT ![u] = 0]
              /\ UNCHANGED frames
  /\ UNCHANGED <<exits, blocks, outcome, work>>

NoThreadFree == \A u \in Thread : state[u] # "free"

(* A branch gets a new thread; when the OS has none, `.expect` panics.        *)
Spawn(t) ==
  /\ Live
  /\ state[t] = "spawn"
  /\ \/ /\ left[t] = 0
        /\ Become(t, "join")
        /\ UNCHANGED <<parent, left, counts>>
     \/ /\ left[t] > 0
        /\ \E u \in Thread :
             /\ state[u] = "free"
             /\ state' = [state EXCEPT ![u] = "run"]
             /\ parent' = [parent EXCEPT ![u] = t]
             /\ left' = [left EXCEPT ![t] = @ - 1]
             /\ depth' = [depth EXCEPT ![u] = 0]
        /\ UNCHANGED frames
     \/ /\ left[t] > 0
        /\ NoThreadFree
        /\ Become(t, "panicking")
        /\ UNCHANGED <<parent, left, counts>>
  /\ UNCHANGED <<exits, blocks, outcome, work>>

(* A branch's thread is through: with a value, an abort or a Rust panic.      *)
Over == [run |-> "value", abort |-> "aborted", panic |-> "panicked"]

Finish(t) ==
  /\ Live
  /\ t # Main
  /\ state[t] \in DOMAIN Over
  /\ frames[t] = 0
  /\ Become(t, Over[state[t]])
  /\ UNCHANGED <<exits, parent, counts, left, blocks, outcome, work>>

(* The first abort the parent receives ends the process.                     *)
ExitProcess(t) ==
  /\ Live
  /\ exits
  /\ state[t] = "join"
  /\ \E u \in Branches(t) : state[u] = "aborted"
  /\ outcome' = "reported"
  /\ UNCHANGED <<exits, tree, counts, blocks, work>>

JoinEarly(t) ==                 \* mutant: an abort is passed on before the others end
  /\ Live
  /\ ~exits
  /\ state[t] = "join"
  /\ \E u \in Branches(t) : state[u] = "aborted"
  /\ state' = [u \in Thread |->
                IF u = t THEN "abort"
                ELSE IF u \in Branches(t) /\ state[u] = "aborted" THEN "free" ELSE state[u]]
  /\ left' = [left EXCEPT ![t] = 0]
  /\ UNCHANGED <<exits, parent, counts, blocks, outcome, work>>

(* The scope ends when every branch has; a panicked thread passes its panic   *)
(* on, otherwise an abort goes on to the caller.                            *)
Join(t) ==
  /\ Live
  /\ state[t] \in {"join", "panicking"}
  /\ \A u \in Branches(t) : state[u] \in {"value", "aborted", "panicked"}
  /\ LET ends == {state[u] : u \in Branches(t)}
         next == IF state[t] = "panicking" \/ "panicked" \in ends THEN "panic"
                 ELSE IF "aborted" \in ends THEN "abort" ELSE "run"
     IN  /\ exits /\ state[t] = "join" => "aborted" \notin ends
         /\ state' = [u \in Thread |-> IF u \in Branches(t) THEN "free"
                                       ELSE IF u = t THEN next ELSE state[u]]
  /\ left' = [left EXCEPT ![t] = 0]
  /\ UNCHANGED <<exits, parent, counts, blocks, outcome, work>>

(* The pipeline thread is through with a program: an abort fails its block    *)
(* and the next one runs; under `ybm <file>` it is reported.                 *)
NextBlock ==
  /\ Live
  /\ state[Main] \in {"run", "abort"}
  /\ frames[Main] = 0
  /\ blocks' = blocks - 1
  /\ Become(Main, "run")
  /\ outcome' = IF blocks > 1 THEN "running"
                ELSE IF state[Main] = "abort" THEN "reported" ELSE "complete"
  /\ UNCHANGED <<exits, parent, counts, left, work>>

(* The panic reaches the pipeline thread's end: its join is an Err, and the   *)
(* exit code 1 comes without a diagnostic.                                  *)
Crash ==
  /\ Live
  /\ state[Main] = "panic"
  /\ frames[Main] = 0
  /\ outcome' = "crashed"
  /\ UNCHANGED <<exits, tree, counts, blocks, work>>

Ended == ~Live /\ UNCHANGED vars

Step(t) == \/ Call(t) \/ LeaveCall(t) \/ Panic(t) \/ Spawn(t) \/ Finish(t)
           \/ ExitProcess(t) \/ Join(t)
           \/ \E branches \in 1 .. MaxBranches : Par(t, branches)

Next == NextBlock \/ Crash \/ Ended \/ \E t \in Thread : Step(t)

(* A program without endless loops: every thread keeps going, and a call      *)
(* that is made returns.                                                   *)
Fairness == /\ WF_vars(NextBlock \/ Crash)
            /\ \A t \in Thread : WF_vars(Step(t))

Spec == Init /\ [][Next]_vars
FairSpec == Spec /\ Fairness

----------------------------------------------------------------------------
(* Every variable has its type.                                            *)
TypeOK ==
  /\ exits \in BOOLEAN
  /\ state \in [Thread -> {"free", "run", "spawn", "join", "abort", "panicking", "panic",
                           "value", "aborted", "panicked"}]
  /\ parent \in [Thread -> Thread]
  /\ depth \in [Thread -> 0 .. MaxCallDepth]
  /\ frames \in [Thread -> Nat]
  /\ left \in [Thread -> 0 .. MaxBranches]
  /\ blocks \in 0 .. MaxBlocks + 1
  /\ outcome \in {"running", "complete", "reported", "crashed"}
  /\ work \in 0 .. MaxWork

(* A thread's CALL_DEPTH is the number of calls it is in, however earlier     *)
(* calls, branches and doc blocks on it ended; so an E6008 in one block does  *)
(* not lower the limit of the next.                                        *)
DepthExact == \A t \in Thread : state[t] # "free" => depth[t] = frames[t]

(* No thread is ever in more calls than its 64 MiB stack is measured for.     *)
StackBounded == \A t \in Thread : frames[t] <= MaxCallDepth

(* Nested par: while a thread is in a par it is waited for by threads that    *)
(* are in one too, up to the pipeline thread; no thread is left without one   *)
(* that waits for it.                                                      *)
WaitedFor ==
  \A u \in Thread : (u # Main /\ state[u] # "free") =>
    state[parent[u]] \in {"spawn", "join", "panicking"} /\ parent[u] # u

(* Nested par never waits for itself: every program that stops calling ends.  *)
Terminates == <>(outcome # "running")

(* docs/DECISIONS.md, D-ERR-04: "Stack overflow from deep recursion (E6008)"   *)
(* is a panic with a diagnostic, and D-PAR-02 permits nested par "with no      *)
(* constraints": no recursion ends without a diagnostic.                    *)
RecursionReported == outcome # "crashed"
=============================================================================
