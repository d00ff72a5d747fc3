------------------------------ MODULE ParPool ------------------------------
(***************************************************************************)
(* src/src/concurrency/mod.rs: one call of eval_par_list (`par [..]`,       *)
(* `par (..)`) or eval_par_map (`par_map`, `par_each`).  The calling thread *)
(* cuts the elements into contiguous chunks, spawns one scoped OS thread    *)
(* per chunk, collects (index, result) messages from an mpsc channel into   *)
(* slots, and joins the threads when it leaves the scope.                   *)
(*                                                                         *)
(* A value is named by the element it was evaluated from, so that a value   *)
(* in the wrong slot is visible.  Evaluating an element may yield a value,  *)
(* abort (a panic of the interpreted program) or never come back; each      *)
(* element's fate is fixed and unknown to the program.                      *)
(***************************************************************************)
EXTENDS Integers, Sequences, FiniteSets

CONSTANTS
  MaxItems,   \* bound on the number of elements of a call
  MaxCores    \* bound on what available_parallelism may answer

ASSUME BoundsAreNatural ==
  /\ MaxItems \in Nat
  /\ MaxCores \in Nat

VARIABLES
  (* the call's inputs, fixed when it starts *)
  n,            \* number of elements
  cores,        \* available_parallelism(), 1 when the OS does not say
  kind,         \* "list": eval_par_list; "map": eval_par_map
  exits,        \* Program::abort_process_on_par_panic
  fate,         \* outcome of evaluating each element
  (* the calling thread *)
  main,         \* where the calling thread is, or how the call ended
  spawned,      \* number of chunks handed to a thread
  cut,          \* elements before this index are in a spawned chunk
  slots,        \* collected values by index, None where missing
  first_abort,  \* the element whose abort was received first, or None
  (* the worker threads *)
  pc,           \* where each worker is
  base,         \* index of the first element of the worker's chunk, as the worker knows it
  chunk,        \* the elements of the worker's chunk: first index and length
  offset,       \* elements of the chunk the worker is through with
  (* shared *)
  chan,         \* messages sent and not yet received
  cancelled,    \* the shared AtomicBool
  evals         \* history: how often each element was evaluated

input  == <<n, cores, kind, exits, fate>>
caller == <<main, spawned, cut, slots, first_abort>>
worker == <<pc, base, chunk, offset>>
vars   == <<n, cores, kind, exits, fate, main, spawned, cut, slots, first_abort,
            pc, base, chunk, offset, chan, cancelled, evals>>

None == -1
Item == 0 .. n - 1
Thread == 0 .. MaxItems - 1      \* a chunk's thread, by the chunk's number
Fates == {"ok", "abort", "diverge"}

Least(a, b) == IF a <= b THEN a ELSE b

(* The worker count and the chunk size of a call of at least one element.  *)
WorkerCount == Least(n, cores)
DivCeil(a, b) == (a + b - 1) \div b
ChunkSizeFloor == n \div WorkerCount           \* mutant: division rounds down
ChunkSize == DivCeil(n, WorkerCount)

----------------------------------------------------------------------------
Init ==
  /\ n \in 0 .. MaxItems
  /\ cores \in 1 .. MaxCores
  /\ kind \in {"list", "map"}
  /\ exits \in BOOLEAN
  /\ fate \in [Item -> Fates]
  /\ main = "spawn"
  /\ spawned = 0
  /\ cut = 0
  /\ slots = [i \in Item |-> None]
  /\ first_abort = None
  /\ pc = [w \in Thread |-> "unspawned"]
  /\ base = [w \in Thread |-> 0]
  /\ chunk = [w \in Thread |-> [first |-> 0, len |-> 0]]
  /\ offset = [w \in Thread |-> 0]
  /\ chan = <<>>
  /\ cancelled = FALSE
  /\ evals = [i \in Item |-> 0]

(* A call without elements returns before any thread exists.               *)
ReturnEmpty ==
  /\ main = "spawn"
  /\ n = 0
  /\ main' = "returned"
  /\ UNCHANGED <<input, spawned, cut, slots, first_abort, worker, chan, cancelled, evals>>

(* Mutant: the last chunk is not cut short at the end of the elements.      *)
SpawnUncapped ==
  /\ main = "spawn"
  /\ cut < n
  /\ pc' = [pc EXCEPT ![spawned] = "check"]
  /\ base' = [base EXCEPT ![spawned] = cut]
  /\ chunk' = [chunk EXCEPT ![spawned] = [first |-> cut, len |-> ChunkSize]]
  /\ cut' = cut + ChunkSize
  /\ spawned' = spawned + 1
  /\ UNCHANGED <<input, main, slots, first_abort, offset, chan, cancelled, evals>>

(* The calling thread spawns the next chunk's thread.  eval_par_list        *)
(* derives the chunk's base from its number, eval_par_map adds the lengths  *)
(* up.                                                                     *)
Spawn ==
  /\ main = "spawn"
  /\ cut < n
  /\ LET len == Least(ChunkSize, n - cut)
     IN /\ pc' = [pc EXCEPT ![spawned] = "check"]
        /\ base' = [base EXCEPT ![spawned] =
                      IF kind = "list" THEN spawned * ChunkSize ELSE cut]
        /\ chunk' = [chunk EXCEPT ![spawned] = [first |-> cut, len |-> len]]
        /\ cut' = cut + len
  /\ spawned' = spawned + 1
  /\ UNCHANGED <<input, main, slots, first_abort, offset, chan, cancelled, evals>>

(* All chunks have a thread: the caller drops its own sender and collects.  *)
DropSender ==
  /\ main = "spawn"
  /\ n > 0
  /\ cut >= n
  /\ main' = "recv"
  /\ UNCHANGED <<input, spawned, cut, slots, first_abort, worker, chan, cancelled, evals>>

Running == main # "exited"       \* process::exit takes the workers with it
Element(w) == chunk[w].first + offset[w]

(* Mutant: a cancelled worker waits instead of leaving its loop.            *)
CheckWaits(w) ==
  /\ Running
  /\ pc[w] = "check"
  /\ ~cancelled
  /\ pc' = [pc EXCEPT ![w] = IF offset[w] < chunk[w].len THEN "eval" ELSE "done"]
  /\ UNCHANGED <<input, caller, base, chunk, offset, chan, cancelled, evals>>

(* The worker looks at the shared flag before each element; it leaves its   *)
(* loop, dropping its sender, when the flag is up or the chunk is over.     *)
Check(w) ==
  /\ Running
  /\ pc[w] = "check"
  /\ pc' = [pc EXCEPT ![w] = IF offset[w] < chunk[w].len /\ ~cancelled
                               THEN "eval" ELSE "done"]
  /\ UNCHANGED <<input, caller, base, chunk, offset, chan, cancelled, evals>>

(* The worker evaluates its element, in its own snapshot of the             *)
(* environment; an element that diverges never gets past this step.         *)
Evaluate(w) ==
  /\ Running
  /\ pc[w] = "eval"
  /\ fate[Element(w)] # "diverge"
  /\ pc' = [pc EXCEPT ![w] = IF fate[Element(w)] = "abort" THEN "store" ELSE "send"]
  /\ evals' = [evals EXCEPT ![Element(w)] = @ + 1]
  /\ UNCHANGED <<input, caller, base, chunk, offset, chan, cancelled>>

(* An abort raises the flag before the message goes out.                   *)
Store(w) ==
  /\ Running
  /\ pc[w] = "store"
  /\ cancelled' = TRUE
  /\ pc' = [pc EXCEPT ![w] = "send"]
  /\ UNCHANGED <<input, caller, base, chunk, offset, chan, evals>>

(* Mutants: the index is the one within the chunk; a cancelled worker does   *)
(* not send what it has.                                                   *)
SendLocalIndex(w) ==
  /\ Running
  /\ pc[w] = "send"
  /\ chan' = Append(chan, [index |-> offset[w], ok |-> fate[Element(w)] = "ok",
                           value |-> Element(w)])
  /\ offset' = [offset EXCEPT ![w] = @ + 1]
  /\ pc' = [pc EXCEPT ![w] = "check"]
  /\ UNCHANGED <<input, caller, base, chunk, cancelled, evals>>
SendUnlessCancelled(w) ==
  /\ Running
  /\ pc[w] = "send"
  /\ chan' = IF cancelled THEN chan
             ELSE Append(chan, [index |-> base[w] + offset[w],
                                ok |-> fate[Element(w)] = "ok", value |-> Element(w)])
  /\ offset' = [offset EXCEPT ![w] = @ + 1]
  /\ pc' = [pc EXCEPT ![w] = "check"]
  /\ UNCHANGED <<input, caller, base, chunk, cancelled, evals>>

(* The worker hands over (index, result) and goes on to its next element.    *)
Send(w) ==
  /\ Running
  /\ pc[w] = "send"
  /\ chan' = Append(chan, [index |-> base[w] + offset[w],
                           ok    |-> fate[Element(w)] = "ok",
                           value |-> Element(w)])
  /\ offset' = [offset EXCEPT ![w] = @ + 1]
  /\ pc' = [pc EXCEPT ![w] = "check"]
  /\ UNCHANGED <<input, caller, base, chunk, cancelled, evals>>

Filled(s) == \A i \in Item : s[i] # None

(* The caller receives one message.  A value fills its slot, and the last   *)
(* slot ends the loop; an abort ends the process or the loop.               *)
ReceiveValue ==
  /\ main = "recv"
  /\ chan # <<>>
  /\ Head(chan).ok
  /\ slots' = [slots EXCEPT ![Head(chan).index] = Head(chan).value]
  /\ main' = IF Filled(slots') THEN "join" ELSE "recv"
  /\ chan' = Tail(chan)
  /\ UNCHANGED <<input, spawned, cut, first_abort, worker, cancelled, evals>>

(* Mutant: the caller waits for the other branches before it reports.        *)
ReceiveAbortJoins ==
  /\ main = "recv"
  /\ chan # <<>>
  /\ ~Head(chan).ok
  /\ main' = "join"
  /\ first_abort' = Head(chan).value
  /\ chan' = Tail(chan)
  /\ UNCHANGED <<input, spawned, cut, slots, worker, cancelled, evals>>

ReceiveAbort ==
  /\ main = "recv"
  /\ chan # <<>>
  /\ ~Head(chan).ok
  /\ main' = IF exits THEN "exited" ELSE "join"
  /\ first_abort' = IF exits THEN first_abort ELSE Head(chan).value
  /\ chan' = Tail(chan)
  /\ UNCHANGED <<input, spawned, cut, slots, worker, cancelled, evals>>

SendersGone == \A w \in Thread : pc[w] \in {"unspawned", "done"}

(* The loop is also over when recv fails: the channel is empty and every    *)
(* sender is gone.  The scope ends when every thread has; then the abort is *)
(* handed on, or the slots are unwrapped, and a hole in them is an          *)
(* unreachable! panic.                                                     *)
Join ==
  /\ main = "join" \/ (main = "recv" /\ chan = <<>>)
  /\ SendersGone
  /\ main' = IF first_abort # None THEN "aborted"
             ELSE IF Filled(slots) THEN "returned" ELSE "unreachable"
  /\ UNCHANGED <<input, spawned, cut, slots, first_abort, worker, chan, cancelled, evals>>

Ended == main \in {"returned", "aborted", "exited", "unreachable"}

CallerStep == \/ ReturnEmpty \/ Spawn \/ DropSender
              \/ ReceiveValue \/ ReceiveAbort \/ Join
WorkerStep(w) == Check(w) \/ Evaluate(w) \/ Store(w) \/ Send(w)

Next == CallerStep \/ \E w \in Thread : WorkerStep(w)

(* Each thread is scheduled by the operating system.                       *)
Fairness ==
  /\ WF_vars(CallerStep)
  /\ \A w \in Thread : WF_vars(WorkerStep(w))

Spec == Init /\ [][Next]_vars
FairSpec == Spec /\ Fairness
----------------------------------------------------------------------------
(* Every variable has its type, and the inputs of the call are legal.      *)
TypeOK ==
  /\ n \in 0 .. MaxItems
  /\ cores \in 1 .. MaxCores
  /\ kind \in {"list", "map"}
  /\ exits \in BOOLEAN
  /\ fate \in [Item -> Fates]
  /\ main \in {"spawn", "recv", "join", "returned", "aborted", "exited", "unreachable"}
  /\ spawned \in 0 .. n
  /\ cut \in 0 .. n
  /\ slots \in [Item -> Item \cup {None}]
  /\ first_abort \in Item \cup {None}
  /\ pc \in [Thread -> {"unspawned", "check", "eval", "store", "send", "done"}]
  /\ base \in [Thread -> 0 .. n]
  /\ chunk \in [Thread -> [first : 0 .. n, len : 0 .. n]]
  /\ offset \in [Thread -> 0 .. n]
  /\ chan \in Seq([index : Item, ok : BOOLEAN, value : Item])
  /\ cancelled \in BOOLEAN
  /\ evals \in [Item -> Nat]

(* "Bounded OS-thread execution" (the module's first line): a call never    *)
(* has more threads than elements or than the machine's parallelism, for    *)
(* every rounding of the chunk size.                                       *)
WorkersBounded == spawned <= n /\ spawned <= cores

(* Where the result of element i can be: with the worker that evaluated     *)
(* it, in the channel, in its slot, or reported as the call's abort.        *)
InHand(i)   == {w \in Thread : pc[w] \in {"store", "send"} /\ Element(w) = i}
InChan(i)   == {k \in 1 .. Len(chan) : chan[k].value = i}
InSlot(i)   == {j \in Item : slots[j] = i}
Reported(i) == IF first_abort = i THEN {i} ELSE {}

(* No result is lost, duplicated or put in a second place: an element is    *)
(* evaluated at most once, and from then on its result is in exactly one    *)
(* place until the caller hands it on.                                     *)
ResultConserved ==
  Running => \A i \in Item :
    /\ evals[i] <= 1
    /\ evals[i] = Cardinality(InHand(i)) + Cardinality(InChan(i))
                   + Cardinality(InSlot(i)) + Cardinality(Reported(i))

(* The call implements ParCall: values in input order or one abort, and     *)
(* never the unreachable! at the end of both functions.                    *)
Call == INSTANCE ParCall
          WITH status  <- IF Ended THEN main ELSE "running",
               results <- IF main = "returned" THEN slots ELSE <<>>
ImplementsParCall == Call!Spec

(* A call whose elements all come back ends: neither the early exits of     *)
(* the workers nor the order of the messages leave the caller waiting.      *)
Termination == (\A i \in Item : fate[i] # "diverge") ~> Ended

(* D-ERR-06: under `ybm run` a panic in one branch ends the process though  *)
(* other branches may never finish.                                        *)
PanicEndsProcess == (exits /\ cancelled) ~> (main = "exited")
=============================================================================
