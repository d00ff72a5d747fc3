------------------------------ MODULE ParCall ------------------------------
(***************************************************************************)
(* What one evaluation of `par [...]`, `par (...)`, `par_map` or `par_each` *)
(* promises its caller, whatever the threads behind it do: either every    *)
(* element evaluated to a value and the caller gets the values in input    *)
(* order (D-PAR-01), or some element panicked and the call hands that      *)
(* abort to its caller or ends the process (D-ERR-06).  The call ends at    *)
(* most once and nothing follows its end.                                  *)
(***************************************************************************)
EXTENDS Naturals

CONSTANT MaxItems          \* bound on the number of elements of a call

VARIABLES
  n,         \* number of elements of the call
  exits,     \* Program::abort_process_on_par_panic
  fate,      \* what evaluating each element comes to: "ok", "abort", "diverge"
  status,    \* "running", "returned", "aborted" or "exited"
  results    \* the values handed to the caller, by input index

callVars == <<n, exits, fate, status, results>>

Item == 0 .. n - 1

(* A call starts with its elements not evaluated and no result.            *)
Init ==
  /\ n \in 0 .. MaxItems
  /\ exits \in BOOLEAN
  /\ fate \in [Item -> {"ok", "abort", "diverge"}]
  /\ status = "running"
  /\ results = <<>>

(* Every element has a value: element i's value stands at index i.         *)
Return ==
  /\ status = "running"
  /\ \A i \in Item : fate[i] = "ok"
  /\ status' = "returned"
  /\ results' = [i \in Item |-> i]
  /\ UNCHANGED <<n, exits, fate>>

(* An element panicked: no value reaches the caller.                       *)
Abort ==
  /\ status = "running"
  /\ \E i \in Item : fate[i] = "abort"
  /\ status' = IF exits THEN "exited" ELSE "aborted"
  /\ UNCHANGED <<n, exits, fate, results>>

Next == Return \/ Abort

Spec == Init /\ [][Next]_callVars
=============================================================================
