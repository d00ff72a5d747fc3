--------------------------- MODULE CallDepthProofs ---------------------------
(***************************************************************************)
(* CallDepth's safety for every recursion limit, number of threads and       *)
(* amount of work.  The invariant adds to the properties that a thread that   *)
(* is free or over is in no call, and that the pipeline thread is never free: *)
(* Spawn resets CALL_DEPTH, and only the history variable tells whether that  *)
(* was right.                                                              *)
(***************************************************************************)
EXTENDS CallDepth, TLAPS

Resting == {"free", "value", "aborted", "panicked"}

RestingIdle == \A t \in Thread : state[t] \in Resting => frames[t] = 0

MainAlive == state[Main] \notin Resting

BlockLeft == Live => blocks > 0

IInv == TypeOK /\ BlockLeft /\ DepthExact /\ StackBounded /\ RestingIdle /\ MainAlive
        /\ WaitedFor

(* The pipeline's thread is one of the threads.                             *)
LEMMA MainIsThread == Main \in Thread
  BY Parameters DEF Main, Thread

(* A run starts with the pipeline thread alone, in no call.                  *)
LEMMA Initial == Init => IInv
  BY Parameters DEF Init, IInv, TypeOK, BlockLeft, Live, DepthExact, StackBounded, RestingIdle, MainAlive,
     WaitedFor, Resting, Main, Thread

(* enter_call keeps the count exact and refuses beyond the limit.            *)
LEMMA CallStep == ASSUME IInv, NEW t \in Thread, Call(t) PROVE IInv'
  <1> USE Parameters, MainIsThread DEF Call, Busy, Live, Become, counts, IInv
  <1>1. TypeOK' /\ BlockLeft'
    BY DEF TypeOK, BlockLeft
  <1>2. DepthExact' /\ StackBounded'
    BY DEF TypeOK, DepthExact, StackBounded
  <1>3. RestingIdle' /\ MainAlive'
    BY DEF TypeOK, RestingIdle, MainAlive, Resting
  <1>4. WaitedFor'
    BY DEF TypeOK, WaitedFor
  <1>. QED
    BY <1>1, <1>2, <1>3, <1>4

(* The guard's drop takes back exactly what the call added.                  *)
LEMMA LeaveCallStep == ASSUME IInv, NEW t \in Thread, LeaveCall(t) PROVE IInv'
  <1> USE Parameters, MainIsThread DEF LeaveCall, Live, tree, IInv
  <1>0. depth[t] = frames[t] /\ depth[t] > 0
    BY DEF TypeOK, DepthExact
  <1>1. TypeOK' /\ BlockLeft'
    BY <1>0 DEF TypeOK, BlockLeft
  <1>2. DepthExact' /\ StackBounded'
    BY <1>0 DEF TypeOK, DepthExact, StackBounded
  <1>3. RestingIdle' /\ MainAlive' /\ WaitedFor'
    BY DEF TypeOK, RestingIdle, MainAlive, Resting, WaitedFor
  <1>. QED
    BY <1>1, <1>2, <1>3

(* A branch that is over has left every call.                               *)
LEMMA FinishStep == ASSUME IInv, NEW t \in Thread, Finish(t) PROVE IInv'
  <1> USE Parameters, MainIsThread DEF Finish, Live, Become, counts, Over, IInv
  <1>1. TypeOK' /\ BlockLeft'
    BY DEF TypeOK, BlockLeft
  <1>2. DepthExact' /\ StackBounded'
    BY DEF TypeOK, DepthExact, StackBounded
  <1>3. RestingIdle' /\ MainAlive'
    BY DEF TypeOK, RestingIdle, MainAlive, Resting
  <1>4. WaitedFor'
    <2>1. state[t] \notin {"spawn", "join", "panicking", "free"}
      OBVIOUS
    <2>. QED
      BY <2>1 DEF TypeOK, WaitedFor
  <1>. QED
    BY <1>1, <1>2, <1>3, <1>4

(* A panic of the program, and the start of a par, change one thread's state. *)
LEMMA TurnStep ==
  ASSUME IInv, NEW t \in Thread,
         Panic(t) \/ \E branches \in 1 .. MaxBranches : Par(t, branches)
  PROVE  IInv'
  <1> USE Parameters, MainIsThread DEF Panic, Par, Busy, Live, Become, counts, IInv
  <1>1. TypeOK' /\ BlockLeft'
    BY DEF TypeOK, BlockLeft
  <1>2. DepthExact' /\ StackBounded'
    BY DEF TypeOK, DepthExact, StackBounded
  <1>3. RestingIdle' /\ MainAlive'
    BY DEF TypeOK, RestingIdle, MainAlive, Resting
  <1>4. WaitedFor'
    BY DEF TypeOK, WaitedFor
  <1>. QED
    BY <1>1, <1>2, <1>3, <1>4

(* A new branch starts at depth zero on a thread that is in no call.          *)
LEMMA SpawnStep == ASSUME IInv, NEW t \in Thread, Spawn(t) PROVE IInv'
  <1> USE Parameters, MainIsThread DEF Spawn, Live, Become, counts, IInv
  <1>1. CASE UNCHANGED <<parent, left, counts>>
    <2>1. TypeOK' /\ BlockLeft'
      BY <1>1 DEF TypeOK, BlockLeft
    <2>2. DepthExact' /\ StackBounded' /\ RestingIdle' /\ MainAlive'
      BY <1>1 DEF TypeOK, DepthExact, StackBounded, RestingIdle, MainAlive, Resting
    <2>3. WaitedFor'
      BY <1>1 DEF TypeOK, WaitedFor
    <2>. QED
      BY <2>1, <2>2, <2>3
  <1>2. ASSUME NEW u \in Thread, left[t] > 0,
               state[u] = "free",
               state' = [state EXCEPT ![u] = "run"],
               parent' = [parent EXCEPT ![u] = t],
               left' = [left EXCEPT ![t] = @ - 1],
               depth' = [depth EXCEPT ![u] = 0],
               UNCHANGED frames
        PROVE  IInv'
    <2>0. u # t /\ u # Main /\ frames[u] = 0
      BY <1>2 DEF MainAlive, RestingIdle, Resting
    <2>1. TypeOK' /\ BlockLeft'
      BY <1>2 DEF TypeOK, BlockLeft
    <2>2. DepthExact' /\ StackBounded'
      BY <1>2, <2>0 DEF TypeOK, DepthExact, StackBounded
    <2>3. RestingIdle' /\ MainAlive'
      BY <1>2, <2>0 DEF TypeOK, RestingIdle, MainAlive, Resting
    <2>4. WaitedFor'
      <3>1. state'[t] = "spawn"
        BY <1>2, <2>0 DEF TypeOK
      <3>2. \A v \in Thread \ {u} : /\ parent'[v] = parent[v] /\ parent[v] \in Thread
                                    /\ state'[v] = state[v]
        BY <1>2 DEF TypeOK
      <3>3. parent'[u] = t
        BY <1>2 DEF TypeOK
      <3>4. ASSUME NEW v \in Thread \ {u}, v # Main, state[v] # "free"
            PROVE  state'[parent[v]] \in {"spawn", "join", "panicking"} /\ parent[v] # v
        BY <3>2, <3>4, <1>2 DEF WaitedFor
      <3>. QED
        BY <3>1, <3>2, <3>3, <3>4, <2>0 DEF WaitedFor
    <2>. QED
      BY <2>1, <2>2, <2>3, <2>4
  <1>. QED
    BY <1>1, <1>2

(* When a scope ends its branches' threads are free again, and none of them   *)
(* was waiting for anyone.                                                 *)
LEMMA JoinStep == ASSUME IInv, NEW t \in Thread, Join(t) PROVE IInv'
  <1> USE Parameters, MainIsThread DEF Live, counts, IInv
  <1> DEFINE next == state'[t]
  <1>1. /\ t \notin Branches(t)
        /\ next \in {"run", "abort", "panic"}
        /\ state' \in [Thread -> {"free", "run", "abort", "panic"} \cup
                                 {state[u] : u \in Thread}]
        /\ \A u \in Thread \ {t} :
             state'[u] = IF u \in Branches(t) THEN "free" ELSE state[u]
    <2>1. t \notin Branches(t)
      BY DEF Join, Branches, WaitedFor
    <2>. QED
      BY <2>1 DEF Join
  <1>2. \A u \in Branches(t) : u \in Thread /\ u # Main /\ state[u] \in Resting
    BY DEF Join, Branches, Resting
  <1>3. TypeOK' /\ BlockLeft'
    BY <1>1 DEF Join, TypeOK, BlockLeft
  <1>4. DepthExact' /\ StackBounded'
    BY <1>1 DEF Join, TypeOK, DepthExact, StackBounded
  <1>5. RestingIdle'
    BY <1>1, <1>2 DEF Join, RestingIdle, Resting
  <1>6. MainAlive'
    BY <1>1, <1>2 DEF Join, MainAlive, Resting
  <1>7. WaitedFor'
    <2> SUFFICES ASSUME NEW u \in Thread, u # Main, state'[u] # "free"
                 PROVE  state'[parent[u]] \in {"spawn", "join", "panicking"} /\ parent[u] # u
      BY DEF Join, WaitedFor
    <2>1. state[u] # "free" /\ u \notin Branches(t)
      BY <1>1 DEF Join, Branches
    <2>2. state[parent[u]] \in {"spawn", "join", "panicking"} /\ parent[u] # u
          /\ parent[u] \in Thread
      BY <2>1 DEF WaitedFor, TypeOK
    <2>3. parent[u] # t /\ parent[u] \notin Branches(t)
      BY <2>1, <2>2, <1>2 DEF Branches, Resting
    <2>. QED
      BY <2>2, <2>3, <1>1
  <1>. QED
    BY <1>3, <1>4, <1>5, <1>6, <1>7

(* The process's ends, and the next doc block.                              *)
LEMMA ProcessStep ==
  ASSUME IInv, NextBlock \/ Crash \/ Ended \/ \E t \in Thread : ExitProcess(t)
  PROVE  IInv'
  <1> USE Parameters, MainIsThread DEF Live, Become, counts, tree, vars, IInv
  <1>1. CASE NextBlock
    <2>1. TypeOK' /\ BlockLeft'
      BY <1>1 DEF NextBlock, TypeOK, BlockLeft
    <2>2. DepthExact' /\ StackBounded' /\ RestingIdle' /\ MainAlive'
      BY <1>1 DEF NextBlock, TypeOK, DepthExact, StackBounded, RestingIdle, MainAlive, Resting
    <2>3. WaitedFor'
      BY <1>1 DEF NextBlock, TypeOK, WaitedFor
    <2>. QED
      BY <2>1, <2>2, <2>3
  <1>2. CASE Crash \/ Ended \/ \E t \in Thread : ExitProcess(t)
    BY <1>2 DEF Crash, Ended, ExitProcess, TypeOK, BlockLeft, DepthExact, StackBounded, RestingIdle,
       MainAlive, WaitedFor
  <1>. QED
    BY <1>1, <1>2

(* IInv holds in every reachable state.                                     *)
THEOREM Invariant == Spec => []IInv
  <1>1. IInv /\ UNCHANGED vars => IInv'
    BY DEF IInv, vars, TypeOK, BlockLeft, Live, DepthExact, StackBounded, RestingIdle, MainAlive, WaitedFor
  <1>2. IInv /\ Next => IInv'
    BY CallStep, LeaveCallStep, FinishStep, TurnStep, SpawnStep, JoinStep, ProcessStep
       DEF Next, Step
  <1>. QED
    BY Initial, <1>1, <1>2, PTL DEF Spec

(* Every variable keeps its type: in particular CALL_DEPTH, a u32, is never    *)
(* decremented below zero.                                                 *)
THEOREM TypeCorrect == Spec => []TypeOK
  BY Invariant, PTL DEF IInv

(* CALL_DEPTH is the number of calls its thread is in, however calls, branches *)
(* and doc blocks before ended.                                            *)
THEOREM DepthIsExact == Spec => []DepthExact
  BY Invariant, PTL DEF IInv

(* No thread is ever deeper in calls than MAX_CALL_DEPTH.                     *)
THEOREM StackIsBounded == Spec => []StackBounded
  BY Invariant, PTL DEF IInv

(* A thread in a par is waited for by a thread that is in one too.            *)
THEOREM EveryBranchIsAwaited == Spec => []WaitedFor
  BY Invariant, PTL DEF IInv
=============================================================================
