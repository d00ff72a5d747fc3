--------------------------- MODULE ParPoolProofs ---------------------------
(***************************************************************************)
(* Theorems about ParPool, for every number of elements and of cores: its  *)
(* types, that every call implements ParCall (so the unreachable! at the   *)
(* end of eval_par_list and eval_par_map is never reached and values come  *)
(* back in input order), and that no call goes on for ever or gets stuck.  *)
(***************************************************************************)
EXTENDS ParPool, FiniteSetTheorems, TLAPS

Spawned(w) == w < spawned
Before(w)  == chunk[w].first .. chunk[w].first + offset[w] - 1

(* The chunks handed out so far partition the elements before `cut`.       *)
ChunksInv ==
  /\ spawned <= cut
  /\ main # "spawn" => cut = n
  /\ cut < n => cut = spawned * ChunkSize
  /\ \A w \in Thread : pc[w] = "unspawned" <=> ~Spawned(w)
  /\ \A w \in Thread : offset[w] <= chunk[w].len
  /\ \A w \in Thread : Spawned(w) =>
       /\ base[w] = chunk[w].first
       /\ chunk[w].first + chunk[w].len <= cut
  /\ \A w \in Thread : ~Spawned(w) => chunk[w].len = 0
  /\ \A i \in Item : i < cut =>
       \E w \in Thread : /\ Spawned(w)
                         /\ chunk[w].first <= i
                         /\ i < chunk[w].first + chunk[w].len

(* What a worker's position says about its element and the shared flag.    *)
WorkersInv ==
  \A w \in Thread :
    /\ pc[w] \in {"eval", "store", "send"} => offset[w] < chunk[w].len
    /\ pc[w] = "store" => fate[Element(w)] = "abort"
    /\ pc[w] = "send" => fate[Element(w)] \in {"ok", "abort"}
    /\ pc[w] = "send" /\ fate[Element(w)] = "abort" => cancelled
    /\ pc[w] = "done" => offset[w] = chunk[w].len \/ cancelled

(* Messages and slots tell the truth.                                      *)
TruthInv ==
  /\ \A k \in 1 .. Len(chan) :
       /\ chan[k].index = chan[k].value
       /\ chan[k].ok <=> fate[chan[k].value] = "ok"
       /\ fate[chan[k].value] # "diverge"
  /\ \A i \in Item : slots[i] # None => slots[i] = i /\ fate[i] = "ok"
  /\ first_abort # None => fate[first_abort] = "abort" /\ ~exits

(* While the caller still collects, a finished element is in its slot or in*)
(* the channel, and a raised flag has its abort on the way.                *)
DeliveryInv ==
  main \in {"spawn", "recv"} =>
    /\ first_abort = None
    /\ \A w \in Thread : \A i \in Before(w) :
         \/ slots[i] # None
         \/ \E k \in 1 .. Len(chan) : chan[k].value = i
    /\ cancelled =>
         \/ \E w \in Thread : pc[w] = "send" /\ fate[Element(w)] = "abort"
         \/ \E k \in 1 .. Len(chan) : ~chan[k].ok

(* How the loop and the call can have ended.                               *)
OutcomeInv ==
  /\ main = "join" => first_abort # None \/ Filled(slots)
  /\ main = "returned" => Filled(slots) /\ first_abort = None
  /\ main = "aborted" => first_abort # None
  /\ main = "exited" => exits /\ \E i \in Item : fate[i] = "abort"
  /\ main # "unreachable"

IInv == TypeOK /\ ChunksInv /\ WorkersInv /\ TruthInv /\ DeliveryInv /\ OutcomeInv
----------------------------------------------------------------------------
(* A call of at least one element cuts it into chunks of at least one.     *)
LEMMA ChunkSizePositive ==
  ASSUME n \in Nat, cores \in Nat, n > 0, cores > 0
  PROVE  ChunkSize \in Nat /\ ChunkSize > 0
<1>1. WorkerCount \in Nat /\ WorkerCount > 0
  BY DEF WorkerCount, Least
<1>2. ASSUME NEW a \in Nat, NEW b \in Nat, a > 0, b > 0
      PROVE  (a + b - 1) \div b \in Nat /\ (a + b - 1) \div b > 0
  BY <1>2, Z3
<1>3. QED
  BY <1>1, <1>2 DEF ChunkSize, DivCeil

(* What receiving takes from the channel and leaves in it.                 *)
LEMMA HeadAndTail ==
  ASSUME NEW S, NEW s \in Seq(S), s # <<>>
  PROVE  Head(s) \in S /\ Tail(s) \in Seq(S)
OBVIOUS

(* Before the call everything has its type.                                *)
LEMMA TypeInit == Init => TypeOK
<1> SUFFICES ASSUME Init PROVE TypeOK
  OBVIOUS
<1>1. n \in 0 .. MaxItems /\ n \in Nat
  BY BoundsAreNatural DEF Init
<1>2. chan \in Seq([index : Item, ok : BOOLEAN, value : Item])
  BY DEF Init
<1>3. slots \in [Item -> Item \cup {None}] /\ evals \in [Item -> Nat]
  BY DEF Init
<1>4. /\ pc \in [Thread -> {"unspawned", "check", "eval", "store", "send", "done"}]
      /\ base \in [Thread -> 0 .. n]
      /\ chunk \in [Thread -> [first : 0 .. n, len : 0 .. n]]
      /\ offset \in [Thread -> 0 .. n]
  BY <1>1 DEF Init
<1>5. spawned \in 0 .. n /\ cut \in 0 .. n
  BY <1>1 DEF Init
<1>6. QED
  BY <1>1, <1>2, <1>3, <1>4, <1>5 DEF Init, TypeOK

(* A worker inside its chunk works on an element of the call, and the index*)
(* it sends is that element's.                                             *)
LEMMA ElementIsItem ==
  ASSUME TypeOK, ChunksInv, NEW w \in Thread, offset[w] < chunk[w].len
  PROVE  /\ Spawned(w)
         /\ Element(w) \in Item
         /\ base[w] + offset[w] = Element(w)
         /\ offset[w] + 1 \in 0 .. n
         /\ offset[w] + 1 <= chunk[w].len
<1>1. /\ chunk[w].first \in 0 .. n
      /\ chunk[w].len \in 0 .. n
      /\ offset[w] \in 0 .. n
      /\ base[w] \in 0 .. n
      /\ cut \in 0 .. n
      /\ n \in Nat
  BY BoundsAreNatural DEF TypeOK
<1>2. Spawned(w)
  BY <1>1 DEF ChunksInv
<1>3. /\ base[w] = chunk[w].first
      /\ chunk[w].first + chunk[w].len <= cut
  BY <1>2 DEF ChunksInv
<1>4. QED
  BY <1>1, <1>2, <1>3 DEF Element, Item

(* What Spawn hands to the new thread: the next elements, at least one.    *)
LEMMA SpawnChunk ==
  ASSUME TypeOK, ChunksInv, Spawn
  PROVE  LET len == Least(ChunkSize, n - cut) IN
         /\ spawned \in Thread /\ spawned < n
         /\ len \in 1 .. n /\ cut + len \in 1 .. n
         /\ ChunkSize \in Nat /\ ChunkSize > 0
         /\ base' = [base EXCEPT ![spawned] = cut]
<1>1. /\ n \in Nat /\ n <= MaxItems /\ cores \in Nat /\ cores > 0
      /\ cut \in 0 .. n /\ spawned \in 0 .. n /\ spawned <= cut /\ cut < n
  BY BoundsAreNatural DEF TypeOK, ChunksInv, Spawn
<1>2. ChunkSize \in Nat /\ ChunkSize > 0
  BY <1>1, ChunkSizePositive
<1>3. cut = spawned * ChunkSize
  BY <1>1 DEF ChunksInv
<1>4. base' = [base EXCEPT ![spawned] = cut]
  <2>1. base' = [base EXCEPT ![spawned] = IF kind = "list" THEN spawned * ChunkSize ELSE cut]
    BY DEF Spawn
  <2>2. QED
    BY <2>1, <1>3
<1>5. spawned \in Thread
  BY <1>1, BoundsAreNatural DEF Thread
<1>6. QED
  BY <1>1, <1>2, <1>4, <1>5 DEF Least

(* Every step keeps the types.                                             *)
LEMMA TypeNext == TypeOK /\ ChunksInv /\ WorkersInv /\ [Next]_vars => TypeOK'
<1> SUFFICES ASSUME TypeOK, ChunksInv, WorkersInv, [Next]_vars
             PROVE  TypeOK'
  OBVIOUS
<1> USE DEF input, caller, worker, vars
<1>1. CASE ReturnEmpty
  BY <1>1 DEF ReturnEmpty, TypeOK, Item
<1>2. CASE Spawn
  <2> DEFINE len == Least(ChunkSize, n - cut)
  <2>1. /\ spawned \in Thread /\ spawned < n
        /\ len \in 1 .. n /\ cut + len \in 1 .. n
        /\ base' = [base EXCEPT ![spawned] = cut]
    BY <1>2, SpawnChunk
  <2>2. /\ pc' = [pc EXCEPT ![spawned] = "check"]
        /\ chunk' = [chunk EXCEPT ![spawned] = [first |-> cut, len |-> len]]
        /\ cut' = cut + len
        /\ spawned' = spawned + 1
        /\ UNCHANGED <<input, main, slots, first_abort, offset, chan, cancelled, evals>>
    BY <1>2 DEF Spawn
  <2> HIDE DEF len
  <2>3. n \in Nat /\ cut \in 0 .. n /\ spawned \in 0 .. n
    BY BoundsAreNatural DEF TypeOK
  <2>4. /\ chunk' \in [Thread -> [first : 0 .. n, len : 0 .. n]]
        /\ base' \in [Thread -> 0 .. n]
        /\ pc' \in [Thread -> {"unspawned", "check", "eval", "store", "send", "done"}]
    BY <2>1, <2>2, <2>3 DEF TypeOK
  <2>5. cut' \in 0 .. n /\ spawned' \in 0 .. n
    BY <2>1, <2>2, <2>3
  <2>6. QED
    BY <2>2, <2>4, <2>5 DEF TypeOK, Item
<1>3. CASE DropSender
  BY <1>3 DEF DropSender, TypeOK, Item
<1>4. CASE ReceiveValue
  <2>1. /\ chan' \in Seq([index : Item, ok : BOOLEAN, value : Item])
        /\ Head(chan).index \in Item
        /\ Head(chan).value \in Item
    <3>1. Head(chan) \in [index : Item, ok : BOOLEAN, value : Item]
      BY <1>4, HeadAndTail DEF ReceiveValue, TypeOK
    <3>2. Tail(chan) \in Seq([index : Item, ok : BOOLEAN, value : Item])
      BY <1>4, HeadAndTail DEF ReceiveValue, TypeOK
    <3>3. QED
      BY <1>4, <3>1, <3>2 DEF ReceiveValue
  <2>2. slots' \in [Item -> Item \cup {None}]
    BY <1>4, <2>1 DEF ReceiveValue, TypeOK
  <2>3. main' \in {"recv", "join"}
    BY <1>4 DEF ReceiveValue
  <2>4. QED
    BY <1>4, <2>1, <2>2, <2>3 DEF ReceiveValue, TypeOK, Item
<1>5. CASE ReceiveAbort
  <2>1. /\ chan' \in Seq([index : Item, ok : BOOLEAN, value : Item])
        /\ Head(chan).value \in Item
    <3>1. Head(chan) \in [index : Item, ok : BOOLEAN, value : Item]
      BY <1>5, HeadAndTail DEF ReceiveAbort, TypeOK
    <3>2. Tail(chan) \in Seq([index : Item, ok : BOOLEAN, value : Item])
      BY <1>5, HeadAndTail DEF ReceiveAbort, TypeOK
    <3>3. QED
      BY <1>5, <3>1, <3>2 DEF ReceiveAbort
  <2>2. first_abort' \in Item \cup {None} /\ main' \in {"exited", "join"}
    BY <1>5, <2>1 DEF ReceiveAbort, TypeOK
  <2>3. QED
    BY <1>5, <2>1, <2>2 DEF ReceiveAbort, TypeOK, Item
<1>6. CASE Join
  BY <1>6 DEF Join, TypeOK, Item
<1>7. ASSUME NEW w \in Thread, Check(w)
      PROVE  TypeOK'
  BY <1>7 DEF Check, TypeOK, Item
<1>8. ASSUME NEW w \in Thread, Evaluate(w)
      PROVE  TypeOK'
  <2>1. pc' \in [Thread -> {"unspawned", "check", "eval", "store", "send", "done"}]
    BY <1>8 DEF Evaluate, TypeOK
  <2>2. evals' \in [Item -> Nat]
    <3>1. Element(w) \in Item
      BY <1>8, ElementIsItem DEF Evaluate, WorkersInv
    <3>2. QED
      BY <1>8, <3>1 DEF Evaluate, TypeOK
  <2>3. QED
    BY <1>8, <2>1, <2>2 DEF Evaluate, TypeOK, Item
<1>9. ASSUME NEW w \in Thread, Store(w)
      PROVE  TypeOK'
  BY <1>9 DEF Store, TypeOK, Item
<1>10. ASSUME NEW w \in Thread, Send(w)
       PROVE  TypeOK'
  <2>1. offset[w] < chunk[w].len
    BY <1>10 DEF Send, WorkersInv
  <2>2. /\ base[w] + offset[w] \in Item
        /\ Element(w) \in Item
        /\ offset[w] + 1 \in 0 .. n
    BY <2>1, ElementIsItem
  <2>3. chan' \in Seq([index : Item, ok : BOOLEAN, value : Item])
    <3>1. [index |-> base[w] + offset[w], ok |-> fate[Element(w)] = "ok",
           value |-> Element(w)] \in [index : Item, ok : BOOLEAN, value : Item]
      BY <2>2
    <3>2. QED
      BY <1>10, <3>1 DEF Send, TypeOK
  <2>4. offset' \in [Thread -> 0 .. n]
    BY <1>10, <2>2 DEF Send, TypeOK
  <2>5. pc' \in [Thread -> {"unspawned", "check", "eval", "store", "send", "done"}]
    BY <1>10 DEF Send, TypeOK
  <2>6. QED
    BY <1>10, <2>3, <2>4, <2>5 DEF Send, TypeOK, Item
<1>11. CASE UNCHANGED vars
  BY <1>11 DEF TypeOK, Item
<1>12. QED
  BY <1>1, <1>2, <1>3, <1>4, <1>5, <1>6, <1>7, <1>8, <1>9, <1>10, <1>11
  DEF Next, CallerStep, WorkerStep
----------------------------------------------------------------------------
(* The chunks keep partitioning the elements before `cut`.                 *)
LEMMA ChunksNext == TypeOK /\ ChunksInv /\ WorkersInv /\ [Next]_vars => ChunksInv'
<1> SUFFICES ASSUME TypeOK, ChunksInv, WorkersInv, [Next]_vars
             PROVE  ChunksInv'
  OBVIOUS
<1> USE DEF input, caller, worker, vars
<1>n. n \in Nat /\ n <= MaxItems /\ cut \in 0 .. n /\ spawned \in 0 .. n
  BY BoundsAreNatural DEF TypeOK
<1>1. CASE ReturnEmpty
  BY <1>1, <1>n DEF ReturnEmpty, ChunksInv, Spawned, ChunkSize, WorkerCount, Item
<1>2. CASE Spawn
  <2> DEFINE len == Least(ChunkSize, n - cut)
  <2>1. /\ spawned \in Thread /\ spawned < n
        /\ len \in 1 .. n /\ cut + len \in 1 .. n
        /\ ChunkSize \in Nat
        /\ base' = [base EXCEPT ![spawned] = cut]
    BY <1>2, SpawnChunk
  <2>2. /\ pc' = [pc EXCEPT ![spawned] = "check"]
        /\ chunk' = [chunk EXCEPT ![spawned] = [first |-> cut, len |-> len]]
        /\ cut' = cut + len
        /\ spawned' = spawned + 1
        /\ main = "spawn" /\ main' = "spawn" /\ cut < n
        /\ UNCHANGED <<n, cores, offset>>
    BY <1>2 DEF Spawn
  <2>3. ChunkSize' = ChunkSize
    BY <2>2 DEF ChunkSize, WorkerCount
  <2>4. cut' < n' => cut' = spawned' * ChunkSize'
    <3>1. cut = spawned * ChunkSize
      BY <2>2, <1>n DEF ChunksInv
    <3>2. cut + len < n => len = ChunkSize
      BY <2>1, <1>n DEF Least
    <3>3. (spawned + 1) * ChunkSize = spawned * ChunkSize + ChunkSize
      BY <2>1, <1>n
    <3>4. QED
      BY <3>1, <3>2, <3>3, <2>2, <2>3
  <2> HIDE DEF len
  <2>5. \A w \in Thread : /\ pc'[w] = IF w = spawned THEN "check" ELSE pc[w]
                          /\ base'[w] = IF w = spawned THEN cut ELSE base[w]
                          /\ chunk'[w].first = IF w = spawned THEN cut ELSE chunk[w].first
                          /\ chunk'[w].len = IF w = spawned THEN len ELSE chunk[w].len
    BY <2>1, <2>2 DEF TypeOK
  <2>6. \A w \in Thread : w \in Nat /\ (Spawned(w)' <=> Spawned(w) \/ w = spawned)
    BY <2>2, <1>n DEF Spawned, Thread
  <2>7. offset[spawned] = 0 /\ ~Spawned(spawned)
    BY <2>1, <1>n DEF ChunksInv, Spawned, TypeOK
  <2>8. \A w \in Thread : pc'[w] = "unspawned" <=> ~Spawned(w)'
    BY <2>5, <2>6 DEF ChunksInv
  <2>9. \A w \in Thread : offset'[w] <= chunk'[w].len
    BY <2>1, <2>2, <2>5, <2>7 DEF ChunksInv
  <2>10. \A w \in Thread : Spawned(w)' =>
           /\ base'[w] = chunk'[w].first
           /\ chunk'[w].first + chunk'[w].len <= cut'
    <3> SUFFICES ASSUME NEW w \in Thread, Spawned(w)'
                 PROVE  /\ base'[w] = chunk'[w].first
                        /\ chunk'[w].first + chunk'[w].len <= cut'
      OBVIOUS
    <3>1. CASE w = spawned
      BY <3>1, <2>1, <2>2, <2>5, <1>n
    <3>2. CASE w # spawned
      <4>1. base[w] = chunk[w].first /\ chunk[w].first + chunk[w].len <= cut
        BY <3>2, <2>6 DEF ChunksInv
      <4>2. chunk[w].first \in Nat /\ chunk[w].len \in Nat
        BY <1>n DEF TypeOK
      <4>3. QED
        BY <3>2, <4>1, <4>2, <2>1, <2>2, <2>5, <1>n
    <3>3. QED
      BY <3>1, <3>2
  <2>11. \A w \in Thread : ~Spawned(w)' => chunk'[w].len = 0
    BY <2>5, <2>6 DEF ChunksInv
  <2>12. \A i \in Item' : i < cut' =>
           \E w \in Thread : /\ Spawned(w)'
                             /\ chunk'[w].first <= i
                             /\ i < chunk'[w].first + chunk'[w].len
    <3> SUFFICES ASSUME NEW i \in Item, i < cut + len
                 PROVE  \E w \in Thread : /\ Spawned(w)'
                                          /\ chunk'[w].first <= i
                                          /\ i < chunk'[w].first + chunk'[w].len
      BY <2>2 DEF Item
    <3>1. i \in Nat
      BY <1>n DEF Item
    <3>2. CASE i < cut
      <4>1. PICK w \in Thread : /\ Spawned(w)
                                /\ chunk[w].first <= i
                                /\ i < chunk[w].first + chunk[w].len
        BY <3>2 DEF ChunksInv
      <4>2. w # spawned
        BY <4>1, <2>7
      <4>3. QED
        BY <4>1, <4>2, <2>5, <2>6
    <3>3. CASE ~(i < cut)
      BY <3>1, <3>3, <2>1, <2>5, <2>6, <1>n
    <3>4. QED
      BY <3>2, <3>3
  <2>13. spawned' <= cut' /\ (main' # "spawn" => cut' = n')
    BY <2>1, <2>2, <1>n DEF ChunksInv
  <2>14. QED
    BY <2>4, <2>8, <2>9, <2>10, <2>11, <2>12, <2>13 DEF ChunksInv
<1>3. CASE DropSender
  BY <1>3, <1>n DEF DropSender, ChunksInv, Spawned, ChunkSize, WorkerCount, Item
<1>4. CASE ReceiveValue \/ ReceiveAbort \/ Join
  <2>1. UNCHANGED <<n, cores, spawned, cut, pc, base, chunk, offset>> /\ main # "spawn"
    BY <1>4 DEF ReceiveValue, ReceiveAbort, Join
  <2>2. QED
    BY <2>1 DEF ChunksInv, Spawned, ChunkSize, WorkerCount, Item
<1>5. ASSUME NEW w \in Thread, WorkerStep(w)
      PROVE  ChunksInv'
  <2>1. UNCHANGED <<n, cores, main, spawned, cut, base, chunk>>
    BY <1>5 DEF WorkerStep, Check, Evaluate, Store, Send
  <2>2. \A v \in Thread : pc'[v] = "unspawned" <=> pc[v] = "unspawned"
    <3>1. pc[w] \in {"check", "eval", "store", "send"}
      BY <1>5 DEF WorkerStep, Check, Evaluate, Store, Send
    <3>2. \E p \in {"check", "eval", "store", "send", "done"} : pc' = [pc EXCEPT ![w] = p]
      BY <1>5 DEF WorkerStep, Check, Evaluate, Store, Send
    <3>3. QED
      BY <3>1, <3>2 DEF TypeOK
  <2>3. \A v \in Thread : offset'[v] <= chunk[v].len
    <3>1. CASE offset' = offset
      BY <3>1 DEF ChunksInv
    <3>2. CASE Send(w)
      <4>1. offset[w] + 1 <= chunk[w].len
        BY <3>2, ElementIsItem DEF Send, WorkersInv
      <4>2. QED
        BY <3>2, <4>1 DEF Send, ChunksInv, TypeOK
    <3>3. QED
      BY <1>5, <3>1, <3>2 DEF WorkerStep, Check, Evaluate, Store
  <2>4. QED
    BY <2>1, <2>2, <2>3 DEF ChunksInv, Spawned, ChunkSize, WorkerCount, Item
<1>6. CASE UNCHANGED vars
  BY <1>6 DEF ChunksInv, Spawned, ChunkSize, WorkerCount, Item
<1>7. QED
  BY <1>1, <1>2, <1>3, <1>4, <1>5, <1>6 DEF Next, CallerStep
----------------------------------------------------------------------------
(* Workers keep knowing where they are.                                    *)
LEMMA WorkersNext == TypeOK /\ ChunksInv /\ WorkersInv /\ [Next]_vars => WorkersInv'
<1> SUFFICES ASSUME TypeOK, ChunksInv, WorkersInv, [Next]_vars, NEW v \in Thread
             PROVE  /\ pc'[v] \in {"eval", "store", "send"} => offset'[v] < chunk'[v].len
                    /\ pc'[v] = "store" => fate'[Element(v)'] = "abort"
                    /\ pc'[v] = "send" => fate'[Element(v)'] \in {"ok", "abort"}
                    /\ pc'[v] = "send" /\ fate'[Element(v)'] = "abort" => cancelled'
                    /\ pc'[v] = "done" => offset'[v] = chunk'[v].len \/ cancelled'
  BY DEF WorkersInv
<1> USE DEF input, caller, worker, vars
<1>1. CASE UNCHANGED <<fate, pc, offset, cancelled>> /\ chunk'[v] = chunk[v]
  BY <1>1 DEF WorkersInv, Element
<1>2. CASE Spawn
  <2>1. CASE v = spawned
    <3>1. pc'[v] = "check"
      BY <1>2, <2>1 DEF Spawn, TypeOK
    <3>2. QED
      BY <3>1
  <2>2. CASE v # spawned
    <3>1. pc'[v] = pc[v] /\ chunk'[v] = chunk[v] /\ UNCHANGED <<fate, offset, cancelled>>
      BY <1>2, <2>2 DEF Spawn, TypeOK
    <3>2. QED
      BY <3>1 DEF WorkersInv, Element
  <2>3. QED
    BY <2>1, <2>2
<1>3. ASSUME NEW w \in Thread, WorkerStep(w), w # v
      PROVE  /\ pc'[v] = pc[v] /\ chunk'[v] = chunk[v] /\ offset'[v] = offset[v]
             /\ fate' = fate /\ (cancelled => cancelled')
  BY <1>3 DEF WorkerStep, Check, Evaluate, Store, Send, TypeOK
<1>4. CASE WorkerStep(v)
  <2>1. CASE Check(v)
    <3>1. /\ pc'[v] = IF offset[v] < chunk[v].len /\ ~cancelled THEN "eval" ELSE "done"
          /\ UNCHANGED <<fate, chunk, offset, cancelled>>
      BY <2>1 DEF Check, TypeOK
    <3>2. offset[v] <= chunk[v].len /\ offset[v] \in Int /\ chunk[v].len \in Int
      BY BoundsAreNatural DEF ChunksInv, TypeOK
    <3>3. QED
      BY <3>1, <3>2
  <2>2. CASE Evaluate(v)
    <3>1. Element(v) \in Item /\ offset[v] < chunk[v].len
      BY <2>2, ElementIsItem DEF Evaluate, WorkersInv
    <3>2. fate[Element(v)] \in {"ok", "abort"}
      BY <2>2, <3>1 DEF Evaluate, TypeOK, Fates
    <3>3. /\ pc'[v] = IF fate[Element(v)] = "abort" THEN "store" ELSE "send"
          /\ UNCHANGED <<fate, chunk, offset, cancelled>>
      BY <2>2 DEF Evaluate, TypeOK
    <3>4. Element(v)' = Element(v)
      BY <3>3 DEF Element
    <3>5. QED
      BY <3>1, <3>2, <3>3, <3>4
  <2>3. CASE Store(v)
    <3>1. /\ pc'[v] = "send" /\ cancelled' /\ pc[v] = "store"
          /\ UNCHANGED <<fate, chunk, offset>>
      BY <2>3 DEF Store, TypeOK
    <3>2. Element(v)' = Element(v)
      BY <3>1 DEF Element
    <3>3. QED
      BY <3>1, <3>2 DEF WorkersInv
  <2>4. CASE Send(v)
    <3>1. pc'[v] = "check"
      BY <2>4 DEF Send, TypeOK
    <3>2. QED
      BY <3>1
  <2>5. QED
    BY <1>4, <2>1, <2>2, <2>3, <2>4 DEF WorkerStep
<1>5. CASE \E w \in Thread : WorkerStep(w)
  <2>1. CASE \E w \in Thread : w # v /\ WorkerStep(w)
    <3>1. /\ pc'[v] = pc[v] /\ chunk'[v] = chunk[v] /\ offset'[v] = offset[v]
          /\ fate' = fate /\ (cancelled => cancelled')
      BY <2>1, <1>3
    <3>2. Element(v)' = Element(v)
      BY <3>1 DEF Element
    <3>3. QED
      BY <3>1, <3>2 DEF WorkersInv
  <2>2. QED
    BY <1>4, <1>5, <2>1
<1>6. ReturnEmpty \/ DropSender \/ ReceiveValue \/ ReceiveAbort \/ Join \/ UNCHANGED vars
      => UNCHANGED <<fate, pc, offset, cancelled>> /\ chunk'[v] = chunk[v]
  BY DEF ReturnEmpty, DropSender, ReceiveValue, ReceiveAbort, Join
<1>7. QED
  BY <1>1, <1>2, <1>5, <1>6 DEF Next, CallerStep
----------------------------------------------------------------------------
(* Positions in the channel before and after a receive and a send.         *)
LEMMA TailPositions ==
  ASSUME NEW S, NEW s \in Seq(S), s # <<>>
  PROVE  /\ Len(s) \in Nat /\ Len(s) > 0
         /\ Len(Tail(s)) = Len(s) - 1
         /\ \A k \in 1 .. Len(Tail(s)) : k + 1 \in 1 .. Len(s) /\ Tail(s)[k] = s[k + 1]
         /\ Head(s) = s[1]
OBVIOUS

(* The positions of a channel after one more message is sent.              *)
LEMMA AppendPositions ==
  ASSUME NEW S, NEW s \in Seq(S), NEW e
  PROVE  /\ Len(s) \in Nat
         /\ Len(Append(s, e)) = Len(s) + 1
         /\ \A k \in 1 .. Len(s) : Append(s, e)[k] = s[k]
         /\ Append(s, e)[Len(s) + 1] = e
OBVIOUS

(* Messages and slots stay truthful.                                       *)
LEMMA TruthNext == TypeOK /\ ChunksInv /\ WorkersInv /\ TruthInv /\ [Next]_vars => TruthInv'
<1> SUFFICES ASSUME TypeOK, ChunksInv, WorkersInv, TruthInv, [Next]_vars
             PROVE  TruthInv'
  OBVIOUS
<1> USE DEF input, caller, worker, vars
<1> DEFINE Msg == [index : Item, ok : BOOLEAN, value : Item]
           Honest(m) == /\ m.index = m.value
                        /\ m.ok <=> fate[m.value] = "ok"
                        /\ fate[m.value] # "diverge"
<1>t. chan \in Seq(Msg) /\ \A k \in 1 .. Len(chan) : Honest(chan[k])
  BY DEF TypeOK, TruthInv
<1>h. chan # <<>> => /\ Head(chan) \in Msg /\ Honest(Head(chan))
                     /\ \A k \in 1 .. Len(Tail(chan)) : Honest(Tail(chan)[k])
  <2> HIDE DEF Msg, Honest
  <2>1. SUFFICES ASSUME chan # <<>>
                 PROVE  /\ Head(chan) \in Msg /\ Honest(Head(chan))
                        /\ \A k \in 1 .. Len(Tail(chan)) : Honest(Tail(chan)[k])
    OBVIOUS
  <2>2. Head(chan) = chan[1] /\ 1 \in 1 .. Len(chan)
    BY <1>t, <2>1, TailPositions
  <2>3. Head(chan) \in Msg
    BY <1>t, <2>1, HeadAndTail
  <2>4. \A k \in 1 .. Len(Tail(chan)) : k + 1 \in 1 .. Len(chan) /\ Tail(chan)[k] = chan[k + 1]
    BY <1>t, <2>1, TailPositions
  <2>5. QED
    BY <1>t, <2>2, <2>3, <2>4
<1>1. CASE UNCHANGED <<n, exits, fate, slots, first_abort, chan>>
  BY <1>1 DEF TruthInv, Item
<1>2. CASE ReceiveValue
  <2>1. /\ UNCHANGED <<n, exits, fate, first_abort>>
        /\ chan # <<>> /\ chan' = Tail(chan) /\ Head(chan).ok
        /\ slots' = [slots EXCEPT ![Head(chan).index] = Head(chan).value]
    BY <1>2 DEF ReceiveValue
  <2>2. \A i \in Item : slots'[i] # None => slots'[i] = i /\ fate[i] = "ok"
    <3>1. Head(chan).index \in Item /\ Head(chan).index = Head(chan).value
          /\ fate[Head(chan).value] = "ok"
      BY <2>1, <1>h
    <3>2. QED
      BY <2>1, <3>1 DEF TypeOK, TruthInv
  <2>3. QED
    BY <2>1, <2>2, <1>h DEF TruthInv, Item
<1>3. CASE ReceiveAbort
  <2>1. /\ UNCHANGED <<n, exits, fate, slots>>
        /\ chan # <<>> /\ chan' = Tail(chan) /\ ~Head(chan).ok
        /\ first_abort' = IF exits THEN first_abort ELSE Head(chan).value
    BY <1>3 DEF ReceiveAbort
  <2>2. fate[Head(chan).value] = "abort"
    <3>1. Head(chan).value \in Item /\ Honest(Head(chan))
      BY <2>1, <1>h
    <3>2. fate[Head(chan).value] \in Fates
      BY <3>1 DEF TypeOK
    <3>3. QED
      BY <2>1, <3>1, <3>2 DEF Fates
  <2>3. QED
    BY <2>1, <2>2, <1>h DEF TruthInv, Item
<1>4. ASSUME NEW w \in Thread, Send(w)
      PROVE  TruthInv'
  <2> DEFINE m == [index |-> base[w] + offset[w], ok |-> fate[Element(w)] = "ok",
                   value |-> Element(w)]
  <2>1. UNCHANGED <<n, exits, fate, slots, first_abort>> /\ chan' = Append(chan, m)
    BY <1>4 DEF Send
  <2>2. Honest(m)
    BY <1>4, ElementIsItem DEF Send, WorkersInv
  <2>3. \A k \in 1 .. Len(chan') : Honest(chan'[k])
    <3> HIDE DEF m, Honest, Msg
    <3>1. /\ Len(chan) \in Nat
          /\ Len(chan') = Len(chan) + 1
          /\ \A k \in 1 .. Len(chan) : chan'[k] = chan[k]
          /\ chan'[Len(chan) + 1] = m
      BY <1>t, <2>1, AppendPositions
    <3>2. QED
      BY <1>t, <2>2, <3>1
  <2>4. QED
    BY <2>1, <2>3 DEF TruthInv, Item
<1>5. QED
  BY <1>1, <1>2, <1>3, <1>4
  DEF Next, CallerStep, WorkerStep, ReturnEmpty, Spawn, DropSender, Join, Check, Evaluate, Store
----------------------------------------------------------------------------
(* While the caller collects, nothing finished is missing and no abort is  *)
(* forgotten.                                                              *)
Delivered(i)   == slots[i] # None \/ \E k \in 1 .. Len(chan) : chan[k].value = i
AbortOnTheWay  == \/ \E w \in Thread : pc[w] = "send" /\ fate[Element(w)] = "abort"
                  \/ \E k \in 1 .. Len(chan) : ~chan[k].ok

(* Every step keeps what was delivered in place.                           *)
LEMMA DeliveryNext == IInv /\ [Next]_vars => DeliveryInv'
<1> SUFFICES ASSUME IInv, [Next]_vars, main' \in {"spawn", "recv"}
             PROVE  /\ first_abort' = None
                    /\ \A w \in Thread : \A i \in Before(w)' : Delivered(i)'
                    /\ cancelled' => AbortOnTheWay'
  BY DEF DeliveryInv, Delivered, AbortOnTheWay
<1> USE DEF input, caller, worker, vars
<1>i. TypeOK /\ ChunksInv /\ WorkersInv /\ TruthInv /\ DeliveryInv
  BY DEF IInv
<1>c. chan \in Seq([index : Item, ok : BOOLEAN, value : Item])
  BY <1>i DEF TypeOK
<1>m. main \in {"spawn", "recv"}
  BY DEF Next, CallerStep, WorkerStep, ReturnEmpty, Spawn, DropSender, ReceiveValue,
         ReceiveAbort, Join, Check, Evaluate, Store, Send
<1>d. /\ first_abort = None
      /\ \A w \in Thread : \A i \in Before(w) : Delivered(i)
      /\ cancelled => AbortOnTheWay
  BY <1>i, <1>m DEF DeliveryInv, Delivered, AbortOnTheWay
<1>1. CASE DropSender \/ UNCHANGED vars
  <2>1. UNCHANGED <<fate, first_abort, slots, chan, pc, chunk, offset, cancelled>>
    BY <1>1 DEF DropSender
  <2>2. \A w \in Thread : Before(w)' = Before(w) /\ Element(w)' = Element(w)
    BY <2>1 DEF Before, Element
  <2>3. QED
    BY <1>d, <2>1, <2>2 DEF Delivered, AbortOnTheWay
<1>2. CASE Spawn
  <2>1. PICK s \in Thread : s = spawned
    BY <1>2, <1>i, SpawnChunk
  <2>2. /\ UNCHANGED <<fate, first_abort, slots, chan, offset, cancelled>>
        /\ ~Spawned(s)
        /\ \A w \in Thread : w # s => pc'[w] = pc[w] /\ chunk'[w] = chunk[w]
    BY <1>2, <1>i, <2>1 DEF Spawn, TypeOK, Spawned
  <2>3. offset[s] = 0 /\ pc[s] = "unspawned"
    BY <2>2, <1>i DEF ChunksInv, TypeOK
  <2>4. \A w \in Thread : w # s => Before(w)' = Before(w) /\ Element(w)' = Element(w)
    BY <2>2 DEF Before, Element
  <2>5. Before(s)' = {}
    <3>1. chunk'[s].first = cut /\ cut \in Int
      BY <1>2, <1>i, <2>1, SpawnChunk DEF Spawn, TypeOK
    <3>2. offset'[s] = 0
      BY <2>2, <2>3
    <3>3. QED
      BY <3>1, <3>2 DEF Before
  <2>6. \A i : Delivered(i)' <=> Delivered(i)
    BY <2>2 DEF Delivered
  <2>7. AbortOnTheWay => AbortOnTheWay'
    BY <2>2, <2>3, <2>4 DEF AbortOnTheWay
  <2>8. \A w \in Thread : \A i \in Before(w)' : Delivered(i)'
    BY <1>d, <2>4, <2>5, <2>6
  <2>9. QED
    BY <1>d, <2>2, <2>7, <2>8
<1>3. CASE ReceiveValue
  <2>1. /\ UNCHANGED <<fate, first_abort, pc, chunk, offset, cancelled>>
        /\ chan # <<>> /\ chan' = Tail(chan) /\ Head(chan).ok
        /\ slots' = [slots EXCEPT ![Head(chan).index] = Head(chan).value]
    BY <1>3 DEF ReceiveValue
  <2>2. \A w \in Thread : Before(w)' = Before(w) /\ Element(w)' = Element(w)
    BY <2>1 DEF Before, Element
  <2>3. /\ Head(chan) = chan[1] /\ Len(chan) \in Nat
        /\ \A k \in 2 .. Len(chan) : k - 1 \in 1 .. Len(chan') /\ chan'[k - 1] = chan[k]
    BY <1>c, <2>1, TailPositions
  <2>4. Head(chan).index = Head(chan).value /\ Head(chan).value \in Item
    <3>1. 1 \in 1 .. Len(chan)
      BY <1>c, <2>1, TailPositions
    <3>2. Head(chan) \in [index : Item, ok : BOOLEAN, value : Item]
      BY <1>c, <2>1, HeadAndTail
    <3>3. QED
      BY <2>3, <3>1, <3>2, <1>i DEF TruthInv
  <2>5. Item \in SUBSET Nat /\ slots \in [Item -> Item \cup {None}]
    BY <1>i, BoundsAreNatural DEF TypeOK, Item
  <2>6. slots'[Head(chan).value] # None /\ \A i \in Item : slots[i] # None => slots'[i] # None
    BY <2>1, <2>4, <2>5 DEF None
  <2>7. \A i : i \in Item /\ Delivered(i) => Delivered(i)'
    <3> SUFFICES ASSUME NEW i \in Item, Delivered(i) PROVE Delivered(i)'
      OBVIOUS
    <3>1. CASE slots[i] # None
      BY <3>1, <2>6 DEF Delivered
    <3>2. CASE \E k \in 1 .. Len(chan) : chan[k].value = i
      <4>1. PICK k \in 1 .. Len(chan) : chan[k].value = i
        BY <3>2
      <4>2. CASE k = 1
        BY <4>1, <4>2, <2>3, <2>6 DEF Delivered
      <4>3. CASE k # 1
        BY <4>1, <4>3, <2>3 DEF Delivered
      <4>4. QED
        BY <4>2, <4>3
    <3>3. QED
      BY <3>1, <3>2 DEF Delivered
  <2>8. cancelled => AbortOnTheWay'
    <3> SUFFICES ASSUME cancelled PROVE AbortOnTheWay'
      OBVIOUS
    <3>1. CASE \E w \in Thread : pc[w] = "send" /\ fate[Element(w)] = "abort"
      BY <3>1, <2>1, <2>2 DEF AbortOnTheWay
    <3>2. CASE \E k \in 1 .. Len(chan) : ~chan[k].ok
      <4>1. PICK k \in 1 .. Len(chan) : ~chan[k].ok
        BY <3>2
      <4>2. k \in 2 .. Len(chan)
        BY <4>1, <2>1, <2>3
      <4>3. QED
        BY <4>1, <4>2, <2>3 DEF AbortOnTheWay
    <3>3. QED
      BY <1>d, <3>1, <3>2 DEF AbortOnTheWay
  <2>9. \A w \in Thread : \A i \in Before(w) : i \in Item
    <3> SUFFICES ASSUME NEW w \in Thread, NEW i \in Before(w) PROVE i \in Item
      OBVIOUS
    <3>1. /\ chunk[w].first \in Nat /\ offset[w] \in Nat /\ chunk[w].len \in Nat
          /\ n \in Nat /\ cut \in 0 .. n
      BY <1>i, BoundsAreNatural DEF TypeOK
    <3>2. offset[w] <= chunk[w].len /\ offset[w] > 0
      BY <1>i, <3>1 DEF ChunksInv, Before
    <3>3. chunk[w].first + chunk[w].len <= cut
      BY <1>i, <3>1, <3>2 DEF ChunksInv
    <3>4. QED
      BY <3>1, <3>2, <3>3 DEF Before, Item
  <2>10. QED
    BY <1>d, <2>1, <2>2, <2>7, <2>8, <2>9
<1>4. CASE ReceiveAbort \/ Join \/ ReturnEmpty
  BY <1>4 DEF ReceiveAbort, Join, ReturnEmpty
<1>5. ASSUME NEW w \in Thread, Check(w) \/ Evaluate(w) \/ Store(w)
      PROVE  /\ first_abort' = None
             /\ \A u \in Thread : \A i \in Before(u)' : Delivered(i)'
             /\ cancelled' => AbortOnTheWay'
  <2>1. UNCHANGED <<fate, first_abort, slots, chan, chunk, offset>>
    BY <1>5 DEF Check, Evaluate, Store
  <2>2. \A u \in Thread : Before(u)' = Before(u) /\ Element(u)' = Element(u)
    BY <2>1 DEF Before, Element
  <2>3. \A u \in Thread : pc[u] = "send" => pc'[u] = "send"
    BY <1>5, <1>i DEF Check, Evaluate, Store, TypeOK
  <2>4. cancelled' => AbortOnTheWay'
    <3>1. CASE Store(w)
      BY <3>1, <1>i, <2>1, <2>2 DEF Store, WorkersInv, AbortOnTheWay, TypeOK
    <3>2. CASE cancelled' = cancelled
      BY <3>2, <1>d, <2>1, <2>2, <2>3 DEF AbortOnTheWay
    <3>3. QED
      BY <1>5, <3>1, <3>2 DEF Check, Evaluate
  <2>5. QED
    BY <1>d, <2>1, <2>2, <2>4 DEF Delivered
<1>6. ASSUME NEW w \in Thread, Send(w)
      PROVE  /\ first_abort' = None
             /\ \A u \in Thread : \A i \in Before(u)' : Delivered(i)'
             /\ cancelled' => AbortOnTheWay'
  <2>1. PICK e, m : e = Element(w) /\ m = [index |-> base[w] + offset[w],
                                           ok |-> fate[Element(w)] = "ok", value |-> Element(w)]
    OBVIOUS
  <2>2. /\ UNCHANGED <<fate, first_abort, slots, chunk, cancelled>>
        /\ chan' = Append(chan, m)
        /\ offset' = [offset EXCEPT ![w] = @ + 1]
        /\ pc[w] = "send"
        /\ \A u \in Thread : u # w => pc'[u] = pc[u]
    BY <1>6, <1>i, <2>1 DEF Send, TypeOK
  <2>3. /\ Len(chan) \in Nat
        /\ Len(chan') = Len(chan) + 1
        /\ \A k \in 1 .. Len(chan) : chan'[k] = chan[k]
        /\ chan'[Len(chan) + 1] = m
    BY <1>c, <2>2, AppendPositions
  <2>4. \A i : Delivered(i) => Delivered(i)'
    BY <2>2, <2>3 DEF Delivered
  <2>5. \E k \in 1 .. Len(chan') : chan'[k].value = e
    BY <2>1, <2>3
  <2>6. \A i \in Before(w)' : i \in Before(w) \/ i = e
    <3>1. chunk[w].first \in Int /\ offset[w] \in Int /\ offset'[w] = offset[w] + 1
      BY <2>2, <1>i DEF TypeOK
    <3>2. chunk'[w].first = chunk[w].first /\ e = chunk[w].first + offset[w]
      BY <2>1, <2>2 DEF Element
    <3>3. QED
      BY <3>1, <3>2 DEF Before
  <2>7. \A u \in Thread : u # w => Before(u)' = Before(u) /\ Element(u)' = Element(u)
    BY <2>2, <1>i DEF Before, Element, TypeOK
  <2>8. \A u \in Thread : \A i \in Before(u)' : Delivered(i)'
    <3>1. \A i \in Before(w)' : Delivered(i)'
      BY <1>d, <2>4, <2>5, <2>6 DEF Delivered
    <3>2. \A u \in Thread : u # w => \A i \in Before(u)' : Delivered(i)'
      BY <1>d, <2>4, <2>7
    <3>3. QED
      BY <3>1, <3>2
  <2>9. cancelled => AbortOnTheWay'
    <3> SUFFICES ASSUME cancelled PROVE AbortOnTheWay'
      OBVIOUS
    <3>1. CASE \E u \in Thread : u # w /\ pc[u] = "send" /\ fate[Element(u)] = "abort"
      BY <3>1, <2>2, <2>7 DEF AbortOnTheWay
    <3>2. CASE fate[Element(w)] = "abort"
      <4>1. m.ok = (fate[Element(w)] = "ok")
        BY <2>1, Zenon
      <4>2. ~m.ok
        BY <3>2, <4>1
      <4>3. Len(chan) + 1 \in 1 .. Len(chan')
        BY <2>3
      <4>4. QED
        BY <4>2, <4>3, <2>3 DEF AbortOnTheWay
    <3>3. CASE \E k \in 1 .. Len(chan) : ~chan[k].ok
      BY <3>3, <2>3 DEF AbortOnTheWay
    <3>4. QED
      BY <1>d, <3>1, <3>2, <3>3 DEF AbortOnTheWay
  <2>10. QED
    BY <1>d, <2>2, <2>8, <2>9
<1>7. QED
  BY <1>1, <1>2, <1>3, <1>4, <1>5, <1>6, <1>m DEF Next, CallerStep, WorkerStep

(* How the call can end.                                                   *)
LEMMA OutcomeNext == IInv /\ [Next]_vars => OutcomeInv'
<1> SUFFICES ASSUME IInv, [Next]_vars PROVE OutcomeInv'
  OBVIOUS
<1> USE DEF input, caller, worker, vars
<1>i. TypeOK /\ ChunksInv /\ WorkersInv /\ TruthInv /\ DeliveryInv /\ OutcomeInv
  BY DEF IInv
<1>1. CASE UNCHANGED <<n, exits, fate, main, slots, first_abort>>
  BY <1>1, <1>i DEF OutcomeInv, Filled, Item
<1>2. CASE ReturnEmpty
  BY <1>2, <1>i DEF ReturnEmpty, OutcomeInv, Filled, Item, DeliveryInv
<1>3. CASE DropSender
  BY <1>3, <1>i DEF DropSender, OutcomeInv, Filled, Item
<1>4. CASE ReceiveValue
  BY <1>4, <1>i DEF ReceiveValue, OutcomeInv, Filled, Item
<1>5. CASE ReceiveAbort
  <2>1. /\ chan # <<>> /\ ~Head(chan).ok
        /\ main' = IF exits THEN "exited" ELSE "join"
        /\ first_abort' = IF exits THEN first_abort ELSE Head(chan).value
        /\ UNCHANGED <<n, exits, fate, slots>>
    BY <1>5 DEF ReceiveAbort
  <2>2. Head(chan).value \in Item /\ fate[Head(chan).value] = "abort"
    <3>1. Head(chan) \in [index : Item, ok : BOOLEAN, value : Item]
      BY <1>i, <2>1, HeadAndTail DEF TypeOK
    <3>2. Head(chan) = chan[1] /\ 1 \in 1 .. Len(chan)
      BY <1>i, <2>1, TailPositions DEF TypeOK
    <3>3. fate[Head(chan).value] \in Fates
      BY <1>i, <3>1 DEF TypeOK
    <3>4. QED
      BY <1>i, <2>1, <3>1, <3>2, <3>3 DEF TruthInv, Fates
  <2>3. Head(chan).value # None
    BY <1>i, <2>2, BoundsAreNatural DEF Item, None, TypeOK
  <2>4. exits' \in BOOLEAN
    BY <1>i, <2>1 DEF TypeOK
  <2>5. QED
    BY <2>1, <2>2, <2>3, <2>4 DEF OutcomeInv, Item
<1>6. CASE Join
  <2>1. /\ main' = IF first_abort # None THEN "aborted"
                   ELSE IF Filled(slots) THEN "returned" ELSE "unreachable"
        /\ UNCHANGED <<n, exits, fate, slots, first_abort>>
        /\ SendersGone
    BY <1>6 DEF Join
  <2>2. first_abort # None \/ Filled(slots)
    <3>1. CASE main = "join"
      BY <3>1, <1>i DEF OutcomeInv
    <3>2. CASE main = "recv" /\ chan = <<>>
      <4>1. ~cancelled
        BY <3>2, <2>1, <1>i DEF DeliveryInv, SendersGone
      <4>2. \A i \in Item : slots[i] # None
        <5> SUFFICES ASSUME NEW i \in Item PROVE slots[i] # None
          OBVIOUS
        <5>1. i < cut /\ i \in Int
          BY <3>2, <1>i, BoundsAreNatural DEF ChunksInv, Item, TypeOK
        <5>2. PICK w \in Thread : /\ Spawned(w)
                                  /\ chunk[w].first <= i
                                  /\ i < chunk[w].first + chunk[w].len
          BY <5>1, <1>i DEF ChunksInv
        <5>3. pc[w] = "done"
          BY <5>2, <2>1, <1>i DEF SendersGone, ChunksInv
        <5>4. offset[w] = chunk[w].len
          BY <5>3, <4>1, <1>i DEF WorkersInv
        <5>5. chunk[w].first \in Int /\ chunk[w].len \in Int
          BY <1>i DEF TypeOK
        <5>6. i \in Before(w)
          BY <5>1, <5>2, <5>4, <5>5 DEF Before
        <5>7. QED
          BY <3>2, <5>6, <1>i DEF DeliveryInv
      <4>3. QED
        BY <4>2 DEF Filled
    <3>3. QED
      BY <1>6, <3>1, <3>2 DEF Join
  <2>3. QED
    BY <2>1, <2>2 DEF OutcomeInv, Filled, Item
<1>7. QED
  BY <1>1, <1>2, <1>3, <1>4, <1>5, <1>6
  DEF Next, CallerStep, WorkerStep, Spawn, Check, Evaluate, Store, Send

----------------------------------------------------------------------------
(* IInv holds in every reachable state of every call.                      *)
THEOREM Invariant == Spec => []IInv
<1>1. Init => IInv
  <2> SUFFICES ASSUME Init PROVE IInv
    OBVIOUS
  <2>1. TypeOK
    BY TypeInit
  <2>2. ChunksInv
    <3>1. n \in Nat /\ cut = 0 /\ spawned = 0
      BY BoundsAreNatural DEF Init
    <3>2. cut < n => cut = spawned * ChunkSize
      BY <3>1, ChunkSizePositive DEF Init
    <3>3. QED
      BY <3>1, <3>2, BoundsAreNatural DEF Init, ChunksInv, Spawned, Item, Thread
  <2>3. WorkersInv /\ TruthInv
    BY DEF Init, WorkersInv, TruthInv
  <2>4. DeliveryInv
    BY DEF Init, DeliveryInv, Before
  <2>5. OutcomeInv
    BY DEF Init, OutcomeInv
  <2>6. QED
    BY <2>1, <2>2, <2>3, <2>4, <2>5 DEF IInv
<1>2. IInv /\ [Next]_vars => IInv'
  <2> SUFFICES ASSUME IInv, [Next]_vars PROVE IInv'
    OBVIOUS
  <2>1. TypeOK /\ ChunksInv /\ WorkersInv /\ TruthInv
    BY DEF IInv
  <2>2. QED
    BY <2>1, TypeNext, ChunksNext, WorkersNext, TruthNext, DeliveryNext, OutcomeNext DEF IInv
<1>3. QED
  BY <1>1, <1>2, PTL DEF Spec

(* Every variable keeps its type, whatever the sizes of the call.          *)
THEOREM TypeCorrect == Spec => []TypeOK
<1>1. IInv => TypeOK
  BY DEF IInv
<1>2. QED
  BY <1>1, Invariant, PTL

(* Every call, of any number of elements on any number of cores, returns   *)
(* the values in input order, or hands one abort on, or ends the process,  *)
(* and takes each of these as the single step ParCall allows: the          *)
(* unreachable! of concurrency/mod.rs is unreachable.                      *)
THEOREM Refinement == Spec => ImplementsParCall
<1>1. Init => Call!Init
  BY DEF Init, Call!Init, Ended, Item, Call!Item, Fates
<1>2. IInv /\ IInv' /\ [Next]_vars => [Call!Next]_(Call!callVars)
  <2> SUFFICES ASSUME IInv, IInv', [Next]_vars
               PROVE  Call!Next \/ UNCHANGED Call!callVars
    OBVIOUS
  <2> USE DEF input, caller, worker, vars
  <2>1. UNCHANGED <<n, exits, fate>>
    BY DEF Next, CallerStep, WorkerStep, ReturnEmpty, Spawn, DropSender, ReceiveValue,
           ReceiveAbort, Join, Check, Evaluate, Store, Send
  <2>2. CASE main' = main
    <3>1. main = "returned" => slots' = slots
      BY DEF Next, CallerStep, WorkerStep, ReturnEmpty, Spawn, DropSender, ReceiveValue,
             ReceiveAbort, Join, Check, Evaluate, Store, Send
    <3>2. QED
      BY <2>1, <2>2, <3>1 DEF Call!callVars, Ended
  <2>3. CASE main' # main /\ ~Ended'
    <3>1. ~Ended
      BY <2>3 DEF Ended, Next, CallerStep, WorkerStep, ReturnEmpty, Spawn, DropSender,
             ReceiveValue, ReceiveAbort, Join, Check, Evaluate, Store, Send
    <3>2. QED
      BY <2>1, <2>3, <3>1 DEF Call!callVars, Ended
  <2>4. CASE main' # main /\ Ended'
    <3>1. ~Ended
      BY <2>4 DEF Ended, Next, CallerStep, WorkerStep, ReturnEmpty, Spawn, DropSender,
             ReceiveValue, ReceiveAbort, Join, Check, Evaluate, Store, Send
    <3>2. CASE main' = "returned"
      <4>1. \A i \in Item : slots'[i] = i /\ fate[i] = "ok"
        BY <3>2, <2>1 DEF IInv, OutcomeInv, TruthInv, Filled, Item
      <4>2. slots' = [i \in Item |-> i]
        BY <4>1, <2>1 DEF IInv, TypeOK, Item
      <4>3. QED
        BY <2>1, <3>1, <3>2, <4>1, <4>2 DEF Call!Next, Call!Return, Call!Item, Item, Ended
    <3>3. CASE main' = "aborted"
      <4>1. first_abort' \in Item /\ fate[first_abort'] = "abort" /\ exits = FALSE
        BY <3>3, <2>1 DEF IInv, TypeOK, OutcomeInv, TruthInv, Item
      <4>2. QED
        BY <2>1, <3>1, <3>3, <4>1 DEF Call!Next, Call!Abort, Call!Item, Item, Ended
    <3>4. CASE main' = "exited"
      <4>1. exits /\ \E i \in Item : fate[i] = "abort"
        BY <3>4, <2>1 DEF IInv, OutcomeInv, Item
      <4>2. QED
        BY <2>1, <3>1, <3>4, <4>1 DEF Call!Next, Call!Abort, Call!Item, Item, Ended
    <3>5. QED
      BY <2>4, <3>2, <3>3, <3>4 DEF Ended, IInv, OutcomeInv
  <2>5. QED
    BY <2>2, <2>3, <2>4
<1>3. QED
  BY <1>1, <1>2, Invariant, PTL DEF Spec, ImplementsParCall, Call!Spec
----------------------------------------------------------------------------
(* Rounding the chunk size up leaves at most `workers` chunks.             *)
LEMMA ChunkCount ==
  ASSUME NEW items \in Nat, NEW workers \in Nat, workers > 0, NEW s \in Nat,
         (s - 1) * DivCeil(items, workers) < items
  PROVE  s <= workers
<1> DEFINE C == DivCeil(items, workers)
<1>1. C \in Nat
  BY DEF DivCeil
<1>2. C * workers >= items
  <2>1. ASSUME NEW a \in Nat, NEW b \in Nat, b > 0
        PROVE  (a \div b) \in Nat /\ (a \div b) * b > a - b
    BY <2>1, Z3
  <2>2. C * workers > (items + workers - 1) - workers
    BY <2>1 DEF DivCeil
  <2>3. C * workers \in Nat
    BY <1>1
  <2>4. QED
    BY <2>2, <2>3
<1> HIDE DEF C
<1>3. ASSUME s > workers PROVE FALSE
  <2>1. PICK d \in Nat : s - 1 = workers + d
    <3>1. s - 1 - workers \in Nat
      BY <1>3
    <3>2. QED
      BY <3>1
  <2>2. (s - 1) * C = workers * C + d * C
    BY <1>1, <2>1
  <2>3. d * C \in Nat
    BY <1>1, <2>1
  <2>4. workers * C = C * workers /\ workers * C \in Nat
    BY <1>1
  <2>5. (s - 1) * C < items
    BY DEF C
  <2>6. QED
    BY <1>2, <2>2, <2>3, <2>4, <2>5
<1>4. QED
  BY <1>3

(* A thread was spawned only while elements were left.                     *)
StartInv == spawned > 0 => (spawned - 1) * ChunkSize < n

(* A call never has more threads than elements or than cores, however n    *)
(* divides.                                                                *)
THEOREM BoundedThreads == Spec => []WorkersBounded
<1>1. Init => StartInv
  BY DEF Init, StartInv
<1>2. IInv /\ StartInv /\ [Next]_vars => StartInv'
  <2> SUFFICES ASSUME IInv, StartInv, [Next]_vars PROVE StartInv'
    OBVIOUS
  <2> USE DEF input, caller, worker, vars
  <2>1. CASE Spawn
    <3>1. UNCHANGED <<n, cores>> /\ spawned' = spawned + 1 /\ cut < n
      BY <2>1 DEF Spawn
    <3>2. ChunkSize' = ChunkSize
      BY <3>1 DEF ChunkSize, WorkerCount
    <3>3. cut = spawned * ChunkSize /\ spawned \in Nat
      BY <3>1, BoundsAreNatural DEF IInv, ChunksInv, TypeOK
    <3>4. spawned' - 1 = spawned
      BY <3>1, <3>3
    <3>5. QED
      BY <3>1, <3>2, <3>3, <3>4 DEF StartInv
  <2>2. CASE UNCHANGED <<n, cores, spawned>>
    BY <2>2 DEF StartInv, ChunkSize, WorkerCount
  <2>3. QED
    BY <2>1, <2>2 DEF Next, CallerStep, WorkerStep, ReturnEmpty, DropSender, ReceiveValue,
                      ReceiveAbort, Join, Check, Evaluate, Store, Send
<1>3. IInv /\ StartInv => WorkersBounded
  <2> SUFFICES ASSUME IInv, StartInv PROVE WorkersBounded
    OBVIOUS
  <2>1. n \in Nat /\ cores \in Nat /\ cores > 0 /\ spawned \in Nat /\ spawned <= n
    BY BoundsAreNatural DEF IInv, TypeOK
  <2>2. CASE spawned = 0
    BY <2>1, <2>2 DEF WorkersBounded
  <2>3. CASE spawned > 0
    <3>1. WorkerCount \in Nat /\ WorkerCount > 0 /\ WorkerCount <= cores
      BY <2>1, <2>3 DEF WorkerCount, Least
    <3>2. (spawned - 1) * DivCeil(n, WorkerCount) < n
      BY <2>3 DEF StartInv, ChunkSize
    <3>3. spawned <= WorkerCount
      BY <2>1, <3>1, <3>2, ChunkCount
    <3>4. QED
      BY <2>1, <3>1, <3>3 DEF WorkersBounded
  <2>4. QED
    BY <2>1, <2>2, <2>3
<1>4. QED
  BY <1>1, <1>2, <1>3, Invariant, PTL DEF Spec

----------------------------------------------------------------------------
(* Results.  Two threads' chunks do not overlap.                           *)
DisjointInv ==
  \A v, w \in Thread :
    v < w /\ Spawned(w) => chunk[v].first + chunk[v].len <= chunk[w].first

(* An element was evaluated only if its thread has come to it: the elements*)
(* ahead of a thread are untouched.                                        *)
ReachedInv ==
  \A i \in Item : evals[i] > 0 =>
    \E w \in Thread :
      /\ Spawned(w) /\ chunk[w].first <= i
      /\ i < Element(w) \/ (i = Element(w) /\ pc[w] \in {"store", "send"})

(* An element that was evaluated has its result in one place, and one that *)
(* was not has none.                                                       *)
PlacesInv ==
  Running => \A i \in Item :
    /\ evals[i] = IF InHand(i) # {} \/ InChan(i) # {} \/ slots[i] # None \/ first_abort = i
                    THEN 1 ELSE 0
    /\ InHand(i) # {} => InChan(i) = {} /\ slots[i] = None /\ first_abort # i
    /\ InChan(i) # {} => slots[i] = None /\ first_abort # i
    /\ \A k, l \in InChan(i) : k = l

ResultsInv == DisjointInv /\ ReachedInv /\ PlacesInv

(* Spawn starts the new chunk where the last one ends.                     *)
LEMMA DisjointNext == IInv /\ DisjointInv /\ [Next]_vars => DisjointInv'
<1> SUFFICES ASSUME IInv, DisjointInv, [Next]_vars PROVE DisjointInv'
  OBVIOUS
<1> USE DEF input, caller, worker, vars
<1>i. TypeOK /\ ChunksInv
  BY DEF IInv
<1>1. CASE Spawn
  <2> DEFINE len == Least(ChunkSize, n - cut)
  <2>1. spawned \in Thread /\ spawned < n /\ len \in 1 .. n
    BY <1>1, <1>i, SpawnChunk
  <2>2. /\ chunk' = [chunk EXCEPT ![spawned] = [first |-> cut, len |-> len]]
        /\ spawned' = spawned + 1
    BY <1>1 DEF Spawn
  <2> HIDE DEF len
  <2>3. SUFFICES ASSUME NEW v \in Thread, NEW w \in Thread, v < w, Spawned(w)'
                 PROVE  chunk'[v].first + chunk'[v].len <= chunk'[w].first
    BY <2>1 DEF DisjointInv, Thread
  <2>4. v \in Nat /\ w \in Nat /\ spawned \in Nat /\ v # spawned
    BY <1>i, <2>2, <2>3, BoundsAreNatural DEF TypeOK, Thread, Spawned
  <2>5. chunk'[v] = chunk[v]
    BY <1>i, <2>2, <2>4 DEF TypeOK
  <2>6. CASE w = spawned
    <3>1. chunk'[w].first = cut
      BY <1>i, <2>2, <2>6 DEF TypeOK
    <3>2. Spawned(v)
      BY <2>3, <2>6 DEF Spawned
    <3>3. QED
      BY <1>i, <2>5, <3>1, <3>2 DEF ChunksInv
  <2>7. CASE w # spawned
    <3>1. chunk'[w] = chunk[w] /\ Spawned(w)
      BY <1>i, <2>2, <2>3, <2>4, <2>7 DEF TypeOK, Spawned
    <3>2. QED
      BY <2>3, <2>5, <3>1 DEF DisjointInv
  <2>8. QED
    BY <2>6, <2>7
<1>2. CASE ~Spawn
  <2>1. UNCHANGED <<chunk, spawned>>
    BY <1>2 DEF Next, CallerStep, WorkerStep, ReturnEmpty, DropSender, ReceiveValue,
                ReceiveAbort, Join, Check, Evaluate, Store, Send
  <2>2. QED
    BY <2>1 DEF DisjointInv, Spawned
<1>3. QED
  BY <1>1, <1>2

(* The threads at two elements of their chunks are one when the elements   *)
(* are.                                                                    *)
LEMMA OneThread ==
  ASSUME TypeOK, ChunksInv, DisjointInv, NEW v \in Thread, NEW w \in Thread, NEW i \in Item,
         Spawned(v), chunk[v].first <= i, i < chunk[v].first + chunk[v].len,
         Spawned(w), chunk[w].first <= i, i < chunk[w].first + chunk[w].len
  PROVE  v = w
<1>1. /\ v \in Nat /\ w \in Nat /\ i \in Nat
      /\ chunk[v].first \in Nat /\ chunk[v].len \in Nat
      /\ chunk[w].first \in Nat /\ chunk[w].len \in Nat
  BY BoundsAreNatural DEF Thread, Item, TypeOK
<1>2. ~(v < w) /\ ~(w < v)
  BY <1>1 DEF DisjointInv
<1>3. QED
  BY <1>1, <1>2

(* A thread that has a result in hand is the only one that can have it.    *)
LEMMA OneHand ==
  ASSUME TypeOK, ChunksInv, WorkersInv, DisjointInv, NEW w \in Thread,
         pc[w] \in {"eval", "store", "send"}
  PROVE  /\ Element(w) \in Item /\ Spawned(w) /\ chunk[w].first <= Element(w)
         /\ Element(w) < chunk[w].first + chunk[w].len
         /\ \A v \in Thread : v \in InHand(Element(w)) => v = w
<1>1. ASSUME NEW v \in Thread, pc[v] \in {"eval", "store", "send"}
      PROVE  /\ Element(v) \in Item /\ Spawned(v) /\ chunk[v].first <= Element(v)
             /\ Element(v) < chunk[v].first + chunk[v].len
  <2>1. offset[v] < chunk[v].len
    BY <1>1 DEF WorkersInv
  <2>2. Element(v) \in Item /\ Spawned(v)
    BY <2>1, ElementIsItem
  <2>3. chunk[v].first \in Nat /\ offset[v] \in Nat /\ chunk[v].len \in Nat
    BY DEF TypeOK
  <2>4. QED
    BY <2>1, <2>2, <2>3 DEF Element
<1>2. ASSUME NEW v \in Thread, v \in InHand(Element(w)) PROVE v = w
  <2>1. pc[v] \in {"eval", "store", "send"} /\ Element(v) = Element(w)
    BY <1>2 DEF InHand
  <2>2. QED
    BY <1>1, <2>1, OneThread
<1>3. QED
  BY <1>1, <1>2

(* A thread evaluates an element that nobody has evaluated.                *)
LEMMA NotYet ==
  ASSUME TypeOK, ChunksInv, WorkersInv, DisjointInv, ReachedInv, NEW w \in Thread,
         pc[w] = "eval"
  PROVE  evals[Element(w)] = 0
<1>1. /\ Element(w) \in Item /\ Spawned(w) /\ chunk[w].first <= Element(w)
      /\ Element(w) < chunk[w].first + chunk[w].len
  BY OneHand
<1>2. SUFFICES ASSUME evals[Element(w)] > 0 PROVE FALSE
  BY <1>1 DEF TypeOK
<1>3. PICK v \in Thread : /\ Spawned(v) /\ chunk[v].first <= Element(w)
                          /\ \/ Element(w) < Element(v)
                             \/ Element(w) = Element(v) /\ pc[v] \in {"store", "send"}
  BY <1>1, <1>2 DEF ReachedInv
<1>4. Element(w) < chunk[v].first + chunk[v].len
  <2>1. CASE pc[v] \in {"store", "send"} /\ Element(w) = Element(v)
    BY <2>1, OneHand
  <2>2. CASE Element(w) < Element(v)
    <3>1. Element(v) <= chunk[v].first + chunk[v].len
      BY DEF Element, ChunksInv, TypeOK
    <3>2. chunk[v].first \in Nat /\ offset[v] \in Nat /\ chunk[v].len \in Nat /\ Element(w) \in Nat
      BY <1>1, BoundsAreNatural DEF TypeOK, Item
    <3>3. QED
      BY <2>2, <3>1, <3>2 DEF Element
  <2>3. QED
    BY <1>3, <2>1, <2>2
<1>5. v = w
  BY <1>1, <1>3, <1>4, OneThread
<1>6. Element(w) \in Nat
  BY <1>1, BoundsAreNatural DEF TypeOK, Item
<1>7. QED
  BY <1>3, <1>5, <1>6

(* Threads come to elements in order.                                      *)
LEMMA ReachedNext == IInv /\ DisjointInv /\ ReachedInv /\ [Next]_vars => ReachedInv'
<1> SUFFICES ASSUME IInv, DisjointInv, ReachedInv, [Next]_vars, NEW i \in Item, evals'[i] > 0
             PROVE  \E w \in Thread :
                      /\ Spawned(w)' /\ chunk'[w].first <= i
                      /\ \/ i < Element(w)'
                         \/ i = Element(w)' /\ pc'[w] \in {"store", "send"}
  BY DEF ReachedInv, Next, CallerStep, WorkerStep, ReturnEmpty, Spawn, DropSender, ReceiveValue,
         ReceiveAbort, Join, Check, Evaluate, Store, Send, input, vars, Item
<1> USE DEF input, caller, worker, vars
<1>i. TypeOK /\ ChunksInv /\ WorkersInv
  BY DEF IInv
<1>n. i \in Nat /\ n \in Nat /\ spawned \in Nat
  BY <1>i, BoundsAreNatural DEF TypeOK, Item
<1>w. ASSUME evals[i] > 0
      PROVE  \E w \in Thread : /\ Spawned(w) /\ chunk[w].first <= i
                               /\ \/ i < Element(w)
                                  \/ i = Element(w) /\ pc[w] \in {"store", "send"}
  BY <1>w DEF ReachedInv
<1>1. CASE UNCHANGED <<spawned, chunk, offset, pc, evals>>
  BY <1>1, <1>w DEF Element, Spawned
<1>2. CASE Spawn
  <2>1. PICK w \in Thread : /\ Spawned(w) /\ chunk[w].first <= i
                            /\ \/ i < Element(w)
                               \/ i = Element(w) /\ pc[w] \in {"store", "send"}
    BY <1>2, <1>w DEF Spawn
  <2>2. w # spawned /\ Spawned(w)'
    BY <1>2, <1>n, <2>1 DEF Spawned, Spawn, Thread
  <2>3. chunk'[w] = chunk[w] /\ pc'[w] = pc[w] /\ offset' = offset
    BY <1>2, <1>i, <2>2 DEF Spawn, TypeOK
  <2>4. QED
    BY <2>1, <2>2, <2>3 DEF Element
<1>3. ASSUME NEW w \in Thread, WorkerStep(w)
      PROVE  \E v \in Thread :
               /\ Spawned(v)' /\ chunk'[v].first <= i
               /\ \/ i < Element(v)'
                  \/ i = Element(v)' /\ pc'[v] \in {"store", "send"}
  <2>1. /\ UNCHANGED <<spawned, chunk>>
        /\ \A v \in Thread \ {w} : Element(v)' = Element(v) /\ pc'[v] = pc[v]
    BY <1>3, <1>i DEF WorkerStep, Check, Evaluate, Store, Send, Element, TypeOK
  <2>2. \/ Element(w)' = Element(w) /\ (pc[w] \in {"store", "send"} => pc'[w] \in {"store", "send"})
        \/ Element(w)' = Element(w) + 1
    <3>1. CASE Check(w) \/ Evaluate(w) \/ Store(w)
      BY <3>1, <1>i DEF Check, Evaluate, Store, Element, TypeOK
    <3>2. CASE Send(w)
      <4>1. offset'[w] = offset[w] + 1 /\ chunk' = chunk
        BY <3>2, <1>i DEF Send, TypeOK
      <4>2. chunk[w].first \in Nat /\ offset[w] \in Nat
        BY <1>i, <1>n DEF TypeOK
      <4>3. QED
        BY <4>1, <4>2 DEF Element
    <3>3. QED
      BY <1>3, <3>1, <3>2 DEF WorkerStep
  <2>3. Element(w) \in Nat
    BY <1>i, <1>n DEF TypeOK, Element
  <2>4. CASE evals[i] > 0
    <3>1. PICK v \in Thread : /\ Spawned(v) /\ chunk[v].first <= i
                              /\ \/ i < Element(v)
                                 \/ i = Element(v) /\ pc[v] \in {"store", "send"}
      BY <2>4, <1>w
    <3>2. i < Element(v)' \/ (i = Element(v)' /\ pc'[v] \in {"store", "send"})
      BY <1>n, <2>1, <2>2, <2>3, <3>1
    <3>3. QED
      BY <2>1, <3>1, <3>2 DEF Spawned
  <2>5. CASE ~(evals[i] > 0)
    <3>1. Evaluate(w) /\ i = Element(w)
      BY <1>3, <1>i, <2>5 DEF WorkerStep, Check, Evaluate, Store, Send, TypeOK
    <3>2. Spawned(w) /\ chunk[w].first <= i
      BY <1>i, <3>1, OneHand DEF Evaluate
    <3>3. pc'[w] \in {"store", "send"} /\ Element(w)' = Element(w)
      BY <1>i, <3>1 DEF Evaluate, Element, TypeOK
    <3>4. QED
      BY <2>1, <3>1, <3>2, <3>3 DEF Spawned
  <2>6. QED
    BY <2>4, <2>5
<1>4. QED
  BY <1>1, <1>2, <1>3 DEF Next, CallerStep, ReturnEmpty, DropSender, ReceiveValue, ReceiveAbort,
     Join

(* What Receive takes from the channel: the head, and no other result.     *)
LEMMA Received ==
  ASSUME TypeOK, chan # <<>>, chan' = Tail(chan), NEW i \in Item,
         \A k, l \in InChan(i) : k = l
  PROVE  /\ \A k, l \in InChan(i)' : k = l
         /\ i = Head(chan).value => InChan(i) # {} /\ InChan(i)' = {}
         /\ i # Head(chan).value => (InChan(i)' = {} <=> InChan(i) = {})
<1>1. /\ Len(chan) \in Nat /\ Len(chan) > 0 /\ Len(chan') = Len(chan) - 1
      /\ Head(chan) = chan[1]
      /\ \A k \in 1 .. Len(chan) - 1 : chan'[k] = chan[k + 1]
  BY TailPositions DEF TypeOK
<1>2. \A k : k \in InChan(i)' <=> k \in 1 .. Len(chan) - 1 /\ k + 1 \in InChan(i)
  BY <1>1 DEF InChan
<1>3. \A k \in InChan(i) : k \in 1 .. Len(chan) /\ (k = 1 <=> chan[k] = Head(chan) /\ k = 1)
  BY <1>1 DEF InChan
<1>4. ASSUME NEW k \in InChan(i)', NEW l \in InChan(i)' PROVE k = l
  BY <1>2, <1>1
<1>5. ASSUME i = Head(chan).value PROVE InChan(i) # {} /\ InChan(i)' = {}
  <2>1. 1 \in InChan(i)
    BY <1>1, <1>5 DEF InChan
  <2>2. QED
    BY <1>1, <1>2, <2>1
<1>6. ASSUME i # Head(chan).value PROVE InChan(i)' = {} <=> InChan(i) = {}
  <2>1. ASSUME NEW k \in InChan(i) PROVE k - 1 \in InChan(i)'
    <3>1. k \in 1 .. Len(chan) /\ k # 1
      BY <1>1, <1>6 DEF InChan
    <3>2. QED
      BY <1>1, <1>2, <3>1
  <2>2. QED
    BY <1>2, <2>1
<1>7. QED
  BY <1>4, <1>5, <1>6

(* Every step moves at most one result, from the place it is in to the     *)
(* next.                                                                   *)
LEMMA PlacesNext ==
  IInv /\ DisjointInv /\ ReachedInv /\ PlacesInv /\ [Next]_vars => PlacesInv'
<1> DEFINE Found(i) == InHand(i) # {} \/ InChan(i) # {} \/ slots[i] # None \/ first_abort = i
           Placed(i) ==
             /\ evals[i] = IF Found(i) THEN 1 ELSE 0
             /\ InHand(i) # {} => InChan(i) = {} /\ slots[i] = None /\ first_abort # i
             /\ InChan(i) # {} => slots[i] = None /\ first_abort # i
             /\ \A k, l \in InChan(i) : k = l
<1> SUFFICES ASSUME IInv, DisjointInv, ReachedInv, PlacesInv, [Next]_vars, Running', NEW i \in Item
             PROVE  Placed(i)'
  BY DEF PlacesInv, Next, CallerStep, WorkerStep, ReturnEmpty, Spawn, DropSender, ReceiveValue,
         ReceiveAbort, Join, Check, Evaluate, Store, Send, input, vars, Item
<1> USE DEF input, caller, worker, vars
<1>i. TypeOK /\ ChunksInv /\ WorkersInv /\ TruthInv /\ DeliveryInv
  BY DEF IInv
<1>p. Placed(i)
  <2>1. Running
    BY DEF Running, Next, CallerStep, WorkerStep, ReturnEmpty, Spawn, DropSender, ReceiveValue,
           ReceiveAbort, Join, Check, Evaluate, Store, Send
  <2>2. QED
    BY <2>1 DEF PlacesInv
<1>s. ASSUME InHand(i)' = InHand(i), UNCHANGED <<chan, slots, first_abort, evals>>
      PROVE  Placed(i)'
  BY <1>s, <1>p DEF InChan
<1>1. CASE UNCHANGED <<pc, chunk, offset, chan, slots, first_abort, evals>>
  BY <1>1, <1>s DEF InHand, Element
<1>2. CASE Spawn
  <2>1. \A w \in Thread : /\ pc'[w] \in {"store", "send"} <=> pc[w] \in {"store", "send"}
                          /\ pc[w] \in {"store", "send"} => Element(w)' = Element(w)
    <3>1. pc[spawned] = "unspawned" /\ spawned \in Thread
      BY <1>2, <1>i, SpawnChunk DEF ChunksInv, Spawned, TypeOK
    <3>2. QED
      BY <1>2, <1>i, <3>1 DEF Spawn, Element, TypeOK
  <2>2. InHand(i)' = InHand(i)
    BY <2>1 DEF InHand
  <2>3. QED
    BY <1>2, <1>s, <2>2 DEF Spawn
<1>3. ASSUME NEW w \in Thread, Check(w) \/ Store(w)
      PROVE  Placed(i)'
  <2>1. \A v \in Thread : /\ pc'[v] \in {"store", "send"} <=> pc[v] \in {"store", "send"}
                          /\ Element(v)' = Element(v)
    BY <1>3, <1>i DEF Check, Store, Element, TypeOK
  <2>2. InHand(i)' = InHand(i)
    BY <2>1 DEF InHand
  <2>3. QED
    BY <1>3, <1>s, <2>2 DEF Check, Store
<1>4. ASSUME NEW w \in Thread, Evaluate(w)
      PROVE  Placed(i)'
  <2>1. pc[w] = "eval" /\ pc'[w] \in {"store", "send"} /\ UNCHANGED <<chan, slots, first_abort>>
    BY <1>4, <1>i DEF Evaluate, TypeOK
  <2>2. \A v \in Thread : /\ Element(v)' = Element(v)
                          /\ v # w => pc'[v] = pc[v]
    BY <1>4, <1>i DEF Evaluate, Element, TypeOK
  <2>3. CASE i = Element(w)
    <3>1. evals[i] = 0 /\ evals'[i] = 1
      BY <1>4, <1>i, <2>1, <2>3, NotYet DEF Evaluate, TypeOK
    <3>2. w \in InHand(i)'
      BY <2>1, <2>2, <2>3 DEF InHand
    <3>3. QED
      BY <1>p, <2>1, <3>1, <3>2 DEF InChan
  <2>4. CASE i # Element(w)
    <3>1. InHand(i)' = InHand(i)
      BY <2>1, <2>2, <2>4 DEF InHand
    <3>2. evals'[i] = evals[i]
      BY <1>4, <1>i, <2>4 DEF Evaluate, TypeOK
    <3>3. QED
      BY <1>p, <2>1, <3>1, <3>2 DEF InChan
  <2>5. QED
    BY <2>3, <2>4
<1>5. ASSUME NEW w \in Thread, Send(w)
      PROVE  Placed(i)'
  <2>1. /\ pc[w] = "send" /\ pc'[w] = "check" /\ UNCHANGED <<slots, first_abort, evals>>
        /\ \A v \in Thread \ {w} : Element(v)' = Element(v) /\ pc'[v] = pc[v]
    BY <1>5, <1>i DEF Send, Element, TypeOK
  <2>2. /\ Len(chan) \in Nat /\ Len(chan') = Len(chan) + 1
        /\ \A k \in 1 .. Len(chan) : chan'[k].value = chan[k].value
        /\ chan'[Len(chan) + 1].value = Element(w)
    <3> DEFINE m == [index |-> base[w] + offset[w], ok |-> fate[Element(w)] = "ok",
                     value |-> Element(w)]
    <3>1. chan' = Append(chan, m) /\ m.value = Element(w)
      BY <1>5 DEF Send
    <3>2. chan \in Seq([index : Item, ok : BOOLEAN, value : Item])
      BY <1>i DEF TypeOK
    <3> HIDE DEF m
    <3>3. QED
      BY <3>1, <3>2, AppendPositions
  <2>3. CASE i = Element(w)
    <3>1. InHand(i) # {} /\ InHand(i)' = {}
      <4>1. w \in InHand(i) /\ \A v \in Thread : v \in InHand(i) => v = w
        BY <1>i, <2>1, <2>3, OneHand DEF InHand
      <4>2. \A v \in InHand(i)' : v \in InHand(i) /\ v # w
        BY <2>1 DEF InHand
      <4>3. \A v \in InHand(i) : v \in Thread
        BY DEF InHand
      <4>4. QED
        BY <4>1, <4>2, <4>3
    <3>2. InChan(i) = {} /\ slots[i] = None /\ first_abort # i /\ evals[i] = 1
      BY <1>p, <3>1
    <3>3. \A k \in 1 .. Len(chan) : chan[k].value # i
      BY <3>2 DEF InChan
    <3>4. Len(chan) + 1 \in InChan(i)' /\ \A k \in InChan(i)' : k = Len(chan) + 1
      BY <2>2, <2>3, <3>3 DEF InChan
    <3>5. QED
      BY <2>1, <3>1, <3>2, <3>4
  <2>4. CASE i # Element(w)
    <3>1. InHand(i)' = InHand(i)
      BY <2>1, <2>4 DEF InHand
    <3>2. InChan(i)' = InChan(i)
      BY <2>2, <2>4 DEF InChan
    <3>3. QED
      BY <1>p, <2>1, <3>1, <3>2
  <2>5. QED
    BY <2>3, <2>4
<1>6. CASE ReceiveValue
  <2> DEFINE h == Head(chan).value
  <2>1. /\ chan # <<>> /\ chan' = Tail(chan) /\ UNCHANGED <<pc, chunk, offset, first_abort, evals>>
        /\ slots' = [slots EXCEPT ![Head(chan).index] = h]
    BY <1>6 DEF ReceiveValue
  <2>2. Head(chan).index = h /\ h \in Item
    <3>1. Head(chan) = chan[1] /\ 1 \in 1 .. Len(chan)
      BY <1>i, <2>1, TailPositions DEF TypeOK
    <3>2. Head(chan) \in [index : Item, ok : BOOLEAN, value : Item]
      BY <1>i, <2>1, HeadAndTail DEF TypeOK
    <3>3. QED
      BY <1>i, <3>1, <3>2 DEF TruthInv
  <2>3. InHand(i)' = InHand(i)
    BY <2>1 DEF InHand, Element
  <2>4. /\ \A k, l \in InChan(i)' : k = l
        /\ i = h => InChan(i) # {} /\ InChan(i)' = {}
        /\ i # h => (InChan(i)' = {} <=> InChan(i) = {})
    BY <1>i, <1>p, <2>1, Received
  <2>5. slots'[i] = IF i = h THEN h ELSE slots[i]
    BY <1>i, <2>1, <2>2 DEF TypeOK
  <2>6. h # None
    BY <1>i, <2>2, BoundsAreNatural DEF TypeOK, Item, None
  <2> HIDE DEF h
  <2>7. CASE i = h
    BY <1>p, <2>1, <2>3, <2>4, <2>5, <2>6, <2>7
  <2>8. CASE i # h
    BY <1>p, <2>1, <2>3, <2>4, <2>5, <2>8
  <2>9. QED
    BY <2>7, <2>8
<1>7. CASE ReceiveAbort
  <2> DEFINE h == Head(chan).value
  <2>1. /\ chan # <<>> /\ chan' = Tail(chan) /\ UNCHANGED <<pc, chunk, offset, slots, evals>>
        /\ first_abort' = h
    BY <1>7 DEF ReceiveAbort, Running
  <2>2. first_abort = None
    BY <1>7, <1>i DEF ReceiveAbort, DeliveryInv
  <2>3. InHand(i)' = InHand(i)
    BY <2>1 DEF InHand, Element
  <2>4. /\ \A k, l \in InChan(i)' : k = l
        /\ i = h => InChan(i) # {} /\ InChan(i)' = {}
        /\ i # h => (InChan(i)' = {} <=> InChan(i) = {})
    BY <1>i, <1>p, <2>1, Received
  <2>5. i # None
    BY <1>i, BoundsAreNatural DEF TypeOK, Item, None
  <2> HIDE DEF h
  <2>6. CASE i = h
    BY <1>p, <2>1, <2>3, <2>4, <2>6
  <2>7. CASE i # h
    BY <1>p, <2>1, <2>2, <2>3, <2>4, <2>5, <2>7
  <2>8. QED
    BY <2>6, <2>7
<1>8. QED
  BY <1>1, <1>2, <1>3, <1>4, <1>5, <1>6, <1>7
     DEF Next, CallerStep, WorkerStep, ReturnEmpty, DropSender, Join

(* Wherever a result is, it is there once.                                 *)
LEMMA ResultsHold == Spec => []ResultsInv
<1>1. Init => ResultsInv
  <2> SUFFICES ASSUME Init PROVE ResultsInv
    OBVIOUS
  <2>1. DisjointInv /\ ReachedInv
    BY DEF Init, DisjointInv, ReachedInv, Spawned, Thread
  <2>2. PlacesInv
    <3> SUFFICES ASSUME NEW i \in Item PROVE InHand(i) = {} /\ InChan(i) = {} /\ i # None
      BY DEF Init, PlacesInv
    <3>1. InHand(i) = {}
      BY DEF Init, InHand
    <3>2. InChan(i) = {}
      BY DEF Init, InChan
    <3>3. i # None
      BY BoundsAreNatural DEF Init, Item, None
    <3>4. QED
      BY <3>1, <3>2, <3>3
  <2>3. QED
    BY <2>1, <2>2 DEF ResultsInv
<1>2. IInv /\ ResultsInv /\ [Next]_vars => ResultsInv'
  BY DisjointNext, ReachedNext, PlacesNext DEF ResultsInv
<1>3. QED
  BY <1>1, <1>2, Invariant, PTL DEF Spec

(* concurrency/mod.rs, from the thread's send to the caller's slots: no    *)
(* result of a call of any size is lost, duplicated or put in a second     *)
(* place, and no element is evaluated twice, in whatever order the threads *)
(* run.                                                                    *)
THEOREM NoResultLost == Spec => []ResultConserved
<1>1. ASSUME IInv, ResultsInv, Running, NEW i \in Item
      PROVE  /\ evals[i] <= 1
             /\ evals[i] = Cardinality(InHand(i)) + Cardinality(InChan(i))
                            + Cardinality(InSlot(i)) + Cardinality(Reported(i))
  <2>1. ASSUME NEW S, \A x, y \in S : x = y
        PROVE  Cardinality(S) = IF S = {} THEN 0 ELSE 1
    <3>1. CASE S = {}
      BY <3>1, FS_EmptySet
    <3>2. CASE S # {}
      <4>1. PICK x \in S : S = {x}
        BY <2>1, <3>2
      <4>2. QED
        BY <4>1, FS_Singleton
    <3>3. QED
      BY <3>1, <3>2
  <2>2. Cardinality(InHand(i)) = IF InHand(i) = {} THEN 0 ELSE 1
    <3>1. \A v, w \in InHand(i) : v = w
      BY <1>1, OneHand DEF IInv, ResultsInv, InHand
    <3>2. QED
      BY <2>1, <3>1
  <2>3. Cardinality(InChan(i)) = IF InChan(i) = {} THEN 0 ELSE 1
    BY <1>1, <2>1 DEF ResultsInv, PlacesInv
  <2>4. Cardinality(InSlot(i)) = IF slots[i] = None THEN 0 ELSE 1
    <3>1. i # None
      BY <1>1, BoundsAreNatural DEF IInv, TypeOK, Item, None
    <3>2. \A j \in Item : slots[j] = i => j = i
      BY <1>1, <3>1 DEF IInv, TruthInv
    <3>3. InSlot(i) = IF slots[i] = None THEN {} ELSE {i}
      BY <1>1, <3>1, <3>2 DEF InSlot, IInv, TruthInv
    <3>4. QED
      BY <3>3, FS_EmptySet, FS_Singleton
  <2>5. Cardinality(Reported(i)) = IF first_abort = i THEN 1 ELSE 0
    BY FS_EmptySet, FS_Singleton DEF Reported
  <2>6. slots[i] # None => first_abort # i
    BY <1>1, BoundsAreNatural DEF IInv, TruthInv, TypeOK, Item, None
  <2>7. QED
    BY <1>1, <2>2, <2>3, <2>4, <2>5, <2>6 DEF ResultsInv, PlacesInv
<1>2. IInv /\ ResultsInv => ResultConserved
  BY <1>1 DEF ResultConserved
<1>3. QED
  BY <1>2, Invariant, ResultsHold, PTL

----------------------------------------------------------------------------
(* Termination.  The steps the caller can still take: a chunk for each     *)
(* element not yet handed out, a message for each hole in the slots, and   *)
(* three more; and a worker, four for each element of its chunk and two more.*)
Holes == {i \in Item : slots[i] = None}
CallerLeft ==
  IF main = "spawn" THEN n - cut + n + 3
  ELSE IF main = "recv" THEN Cardinality(Holes) + 2
  ELSE IF main = "join" THEN 1
  ELSE 0
Todo(w) == chunk[w].len - offset[w]
WorkerLeft(w) ==
  IF pc[w] = "unspawned" THEN 4 * n + 2
  ELSE IF pc[w] = "check" THEN 4 * Todo(w) + 1
  ELSE IF pc[w] = "eval" THEN 4 * Todo(w)
  ELSE IF pc[w] = "store" THEN 4 * Todo(w) - 1
  ELSE IF pc[w] = "send" THEN 4 * Todo(w) - 2
  ELSE 0

CallerMoves ==
  /\ CallerLeft' < CallerLeft
  /\ \A w \in Thread : WorkerLeft(w)' <= WorkerLeft(w)
WorkerMoves(w) ==
  /\ CallerLeft' = CallerLeft
  /\ WorkerLeft(w)' < WorkerLeft(w)
  /\ \A v \in Thread \ {w} : WorkerLeft(v)' = WorkerLeft(v)

(* The holes are no more than the elements.                                *)
LEMMA HolesCounted ==
  ASSUME TypeOK
  PROVE  /\ IsFiniteSet(Holes)
         /\ Cardinality(Holes) \in Nat
         /\ Cardinality(Holes) <= n
<1>1. n \in Nat
  BY BoundsAreNatural DEF TypeOK
<1>2. IsFiniteSet(Item) /\ Cardinality(Item) = n
  <2>1. n - 1 \in Int /\ 0 \in Int
    BY <1>1
  <2>2. QED
    BY <1>1, <2>1, FS_Interval DEF Item
<1>3. Holes \subseteq Item
  BY DEF Holes
<1>4. QED
  BY <1>2, <1>3, FS_Subset, FS_CardinalityType

(* The measures are natural numbers.                                       *)
LEMMA LeftType ==
  ASSUME TypeOK, ChunksInv, WorkersInv
  PROVE  /\ CallerLeft \in Nat
         /\ \A w \in Thread : WorkerLeft(w) \in Nat
<1>1. /\ n \in Nat /\ cut \in Nat /\ cut <= n
      /\ Cardinality(Holes) \in Nat
  BY BoundsAreNatural, HolesCounted DEF TypeOK
<1>2. CallerLeft \in Nat
  BY <1>1 DEF CallerLeft
<1>3. ASSUME NEW w \in Thread PROVE WorkerLeft(w) \in Nat
  <2>1. Todo(w) \in Nat
    BY <1>1 DEF TypeOK, ChunksInv, Todo
  <2>2. pc[w] \in {"eval", "store", "send"} => Todo(w) > 0
    BY <1>1 DEF TypeOK, WorkersInv, Todo
  <2>3. QED
    BY <1>1, <2>1, <2>2 DEF WorkerLeft
<1>4. QED
  BY <1>2, <1>3

(* A message that is received fills a hole.                                *)
LEMMA OneHoleLess ==
  ASSUME IInv, ResultsInv, ReceiveValue
  PROVE  Cardinality(Holes') = Cardinality(Holes) - 1
<1> DEFINE h == Head(chan).value
<1>1. Head(chan).index = h /\ h \in Item /\ slots[h] = None /\ h # None
  <2>1. chan # <<>> /\ chan \in Seq([index : Item, ok : BOOLEAN, value : Item])
    BY DEF ReceiveValue, IInv, TypeOK
  <2>2. Head(chan) = chan[1] /\ 1 \in 1 .. Len(chan)
    BY <2>1, TailPositions
  <2>3. Head(chan) \in [index : Item, ok : BOOLEAN, value : Item]
    BY <2>1, HeadAndTail
  <2>4. Head(chan).index = h /\ h \in Item
    BY <2>2, <2>3 DEF IInv, TruthInv
  <2>5. 1 \in InChan(h)
    BY <2>2 DEF InChan
  <2>6. slots[h] = None
    BY <2>4, <2>5 DEF ResultsInv, PlacesInv, ReceiveValue, Running
  <2>7. h # None
    BY <2>4, BoundsAreNatural DEF IInv, TypeOK, Item, None
  <2>8. QED
    BY <2>4, <2>6, <2>7
<1>2. \A i \in Item : slots'[i] = IF i = h THEN h ELSE slots[i]
  BY <1>1 DEF ReceiveValue, IInv, TypeOK
<1>3. Item' = Item
  BY DEF ReceiveValue, input, Item
<1> HIDE DEF h
<1>4. Holes' = Holes \ {h} /\ h \in Holes
  BY <1>1, <1>2, <1>3 DEF Holes
<1>5. QED
  BY <1>4, HolesCounted, FS_RemoveElement DEF IInv

(* Every step is the caller's or a worker's, and lowers its measure.       *)
LEMMA SomeoneMoves ==
  ASSUME IInv, ResultsInv, Next
  PROVE  CallerMoves \/ \E w \in Thread : WorkerMoves(w)
<1> USE DEF input, caller, worker
<1>i. TypeOK /\ ChunksInv /\ WorkersInv
  BY DEF IInv
<1>n. /\ n \in Nat /\ cut \in Nat /\ cut <= n
      /\ Cardinality(Holes) \in Nat /\ Cardinality(Holes) <= n
  BY <1>i, BoundsAreNatural, HolesCounted DEF TypeOK
<1>t. \A w \in Thread : WorkerLeft(w) \in Nat
  BY <1>i, LeftType
<1>s. ASSUME UNCHANGED <<pc, chunk, offset, n>>
      PROVE  \A w \in Thread : WorkerLeft(w)' <= WorkerLeft(w)
  <2>1. \A w \in Thread : WorkerLeft(w)' = WorkerLeft(w)
    BY <1>s DEF WorkerLeft, Todo
  <2>2. QED
    BY <1>t, <2>1
<1>1. CASE ReturnEmpty
  <2>1. CallerLeft' = 0 /\ CallerLeft > 0
    BY <1>1, <1>n DEF ReturnEmpty, CallerLeft
  <2>2. QED
    BY <1>1, <1>s, <2>1 DEF ReturnEmpty, CallerMoves
<1>2. CASE Spawn
  <2> DEFINE len == Least(ChunkSize, n - cut)
  <2>1. /\ spawned \in Thread /\ len \in 1 .. n
        /\ main = "spawn" /\ main' = main /\ n' = n /\ cut' = cut + len
        /\ pc' = [pc EXCEPT ![spawned] = "check"]
        /\ chunk' = [chunk EXCEPT ![spawned] = [first |-> cut, len |-> len]]
        /\ offset' = offset
    BY <1>2, <1>i, SpawnChunk DEF Spawn
  <2>2. pc[spawned] = "unspawned" /\ offset[spawned] = 0
    <3>1. spawned \in Nat /\ ~ Spawned(spawned)
      BY <1>i, BoundsAreNatural DEF TypeOK, Spawned
    <3>2. /\ pc[spawned] = "unspawned"
          /\ chunk[spawned].len = 0 /\ offset[spawned] <= chunk[spawned].len
      BY <1>i, <2>1, <3>1 DEF ChunksInv
    <3>3. offset[spawned] \in Nat
      BY <1>i, <1>n, <2>1 DEF TypeOK
    <3>4. QED
      BY <3>2, <3>3
  <2> HIDE DEF len
  <2>3. CallerLeft' < CallerLeft
    BY <1>n, <2>1 DEF CallerLeft
  <2>4. ASSUME NEW w \in Thread PROVE WorkerLeft(w)' <= WorkerLeft(w)
    <3>1. CASE w = spawned
      <4>1. pc'[w] = "check" /\ chunk'[w].len = len /\ offset'[w] = 0
        BY <1>i, <2>1, <2>2, <3>1 DEF TypeOK
      <4>2. WorkerLeft(w)' = 4 * len + 1
        BY <1>n, <2>1, <4>1 DEF WorkerLeft, Todo
      <4>3. WorkerLeft(w) = 4 * n + 2
        BY <2>2, <3>1 DEF WorkerLeft
      <4>4. QED
        BY <1>n, <2>1, <4>2, <4>3
    <3>2. CASE w # spawned
      <4>1. pc'[w] = pc[w] /\ chunk'[w] = chunk[w] /\ offset'[w] = offset[w]
        BY <1>i, <2>1, <3>2 DEF TypeOK
      <4>2. WorkerLeft(w)' = WorkerLeft(w)
        BY <2>1, <4>1 DEF WorkerLeft, Todo
      <4>3. QED
        BY <1>t, <4>2
    <3>3. QED
      BY <3>1, <3>2
  <2>5. QED
    BY <2>3, <2>4 DEF CallerMoves
<1>3. CASE DropSender
  <2>1. CallerLeft' = Cardinality(Holes) + 2 /\ CallerLeft >= n + 3
    <3>1. Holes' = Holes
      BY <1>3 DEF DropSender, Holes, Item
    <3>2. main = "spawn" /\ main' = "recv"
      BY <1>3 DEF DropSender
    <3>3. CallerLeft' = Cardinality(Holes) + 2
      BY <3>1, <3>2 DEF CallerLeft
    <3>4. CallerLeft >= n + 3
      BY <1>n, <3>2 DEF CallerLeft
    <3>5. QED
      BY <3>3, <3>4
  <2>2. CallerLeft \in Nat
    BY <1>i, LeftType
  <2>3. CallerLeft' < CallerLeft
    BY <1>n, <2>1, <2>2
  <2>4. QED
    BY <1>3, <1>s, <2>3 DEF DropSender, CallerMoves
<1>4. CASE ReceiveValue
  <2>1. Cardinality(Holes') = Cardinality(Holes) - 1
    BY <1>4, OneHoleLess
  <2>2. main = "recv" /\ main' \in {"join", "recv"}
    BY <1>4 DEF ReceiveValue
  <2>3. CallerLeft' < CallerLeft
    BY <1>n, <2>1, <2>2 DEF CallerLeft
  <2>4. QED
    BY <1>4, <1>s, <2>3 DEF ReceiveValue, CallerMoves
<1>5. CASE ReceiveAbort
  <2>1. main = "recv" /\ main' \in {"join", "exited"}
    BY <1>5 DEF ReceiveAbort
  <2>2. CallerLeft' < CallerLeft
    BY <1>n, <2>1 DEF CallerLeft
  <2>3. QED
    BY <1>5, <1>s, <2>2 DEF ReceiveAbort, CallerMoves
<1>6. CASE Join
  <2>1. main \in {"recv", "join"} /\ main' \in {"aborted", "returned", "unreachable"}
    BY <1>6 DEF Join
  <2>2. CallerLeft' < CallerLeft
    BY <1>n, <2>1 DEF CallerLeft
  <2>3. QED
    BY <1>6, <1>s, <2>2 DEF Join, CallerMoves
<1>7. ASSUME NEW w \in Thread, WorkerStep(w) PROVE WorkerMoves(w)
  <2>1. /\ UNCHANGED <<main, cut, slots, n, chunk>>
        /\ pc' = [pc EXCEPT ![w] = pc'[w]]
        /\ \/ offset' = offset
           \/ pc[w] = "send" /\ offset' = [offset EXCEPT ![w] = @ + 1]
    <3>1. CASE Check(w)
      BY <1>i, <3>1 DEF Check, TypeOK
    <3>2. CASE Evaluate(w)
      BY <1>i, <3>2 DEF Evaluate, TypeOK
    <3>3. CASE Store(w)
      BY <1>i, <3>3 DEF Store, TypeOK
    <3>4. CASE Send(w)
      BY <1>i, <3>4 DEF Send, TypeOK
    <3>5. QED
      BY <1>7, <3>1, <3>2, <3>3, <3>4 DEF WorkerStep
  <2>2. CallerLeft' = CallerLeft
    <3>1. Holes' = Holes
      BY <2>1 DEF Holes, Item
    <3>2. QED
      BY <2>1, <3>1 DEF CallerLeft
  <2>3. ASSUME NEW v \in Thread \ {w} PROVE WorkerLeft(v)' = WorkerLeft(v)
    <3>1. pc'[v] = pc[v] /\ offset'[v] = offset[v] /\ chunk'[v] = chunk[v]
      BY <1>i, <2>1, <2>3 DEF TypeOK
    <3>2. QED
      BY <2>1, <3>1 DEF WorkerLeft, Todo
  <2>4. Todo(w) \in Nat /\ (pc[w] \in {"eval", "store", "send"} => Todo(w) > 0)
    BY <1>i, <1>n DEF TypeOK, ChunksInv, WorkersInv, Todo
  <2>5. WorkerLeft(w)' < WorkerLeft(w)
    <3>1. CASE offset' = offset
      <4>1. Todo(w)' = Todo(w)
        BY <2>1, <3>1 DEF Todo
      <4>2. \/ pc[w] = "check" /\ pc'[w] \in {"eval", "done"}
            \/ pc[w] = "eval" /\ pc'[w] \in {"store", "send"}
            \/ pc[w] = "store" /\ pc'[w] = "send"
        <5>1. offset[w] \in Nat /\ ~ Send(w)
          BY <1>i, <1>n, <3>1 DEF TypeOK, Send
        <5>2. QED
          BY <1>7, <1>i, <5>1 DEF WorkerStep, Check, Evaluate, Store, TypeOK
      <4>3. QED
        BY <2>4, <4>1, <4>2 DEF WorkerLeft
    <3>2. CASE offset' # offset
      <4>1. pc[w] = "send" /\ offset' = [offset EXCEPT ![w] = @ + 1]
        BY <2>1, <3>2
      <4>2. pc'[w] = "check"
        BY <1>7, <1>i, <4>1 DEF WorkerStep, Check, Evaluate, Store, Send, TypeOK
      <4>3. Todo(w)' = Todo(w) - 1
        BY <1>i, <1>n, <2>1, <4>1 DEF Todo, TypeOK
      <4>4. QED
        BY <2>4, <4>1, <4>2, <4>3 DEF WorkerLeft
    <3>3. QED
      BY <3>1, <3>2
  <2>6. QED
    BY <2>2, <2>3, <2>5 DEF WorkerMoves
<1>8. QED
  BY <1>1, <1>2, <1>3, <1>4, <1>5, <1>6, <1>7 DEF Next, CallerStep

(* The guards of Next: somebody can move.                                  *)
Able ==
  \/ main = "spawn"
  \/ main = "recv" /\ chan # <<>>
  \/ (main = "join" \/ (main = "recv" /\ chan = <<>>)) /\ SendersGone
  \/ \E w \in Thread : \/ pc[w] \in {"check", "store", "send"}
                       \/ pc[w] = "eval" /\ fate[Element(w)] # "diverge"

Diverging == \E w \in Thread : pc[w] = "eval" /\ fate[Element(w)] = "diverge"

(* A call cannot go on for ever, and nobody waits for ever but for an element*)
(* that does not come back: every step of the caller or of a thread leaves *)
(* fewer to that one and no more to the others, in numbers that stay natural,*)
(* and until the call ends somebody can move unless an element diverges.  The*)
(* early exits of the threads, a flag that goes up at any moment and messages*)
(* in any order leave neither the loop over the channel nor a join stuck.  *)
THEOREM CallsEnd ==
  Spec => /\ [](CallerLeft \in Nat /\ \A w \in Thread : WorkerLeft(w) \in Nat)
          /\ [][CallerMoves \/ \E w \in Thread : WorkerMoves(w)]_vars
          /\ [](Ended \/ Able \/ Diverging)
<1>1. IInv => CallerLeft \in Nat /\ \A w \in Thread : WorkerLeft(w) \in Nat
  BY LeftType DEF IInv
<1>2. IInv /\ ResultsInv /\ [Next]_vars => [CallerMoves \/ \E w \in Thread : WorkerMoves(w)]_vars
  BY SomeoneMoves
<1>3. IInv => Ended \/ Able \/ Diverging
  <2> SUFFICES ASSUME IInv, ~ Ended, ~ Diverging PROVE Able
    OBVIOUS
  <2>1. main \in {"spawn", "recv", "join"}
    BY DEF IInv, TypeOK, Ended
  <2>2. CASE SendersGone
    BY <2>1, <2>2 DEF Able
  <2>3. CASE ~ SendersGone
    <3>1. PICK w \in Thread : pc[w] \notin {"unspawned", "done"}
      BY <2>3 DEF SendersGone
    <3>2. pc[w] \in {"check", "eval", "store", "send"}
      BY <3>1 DEF IInv, TypeOK
    <3>3. QED
      BY <3>2 DEF Able, Diverging
  <2>4. QED
    BY <2>2, <2>3
<1>4. QED
  BY <1>1, <1>2, <1>3, Invariant, ResultsHold, PTL DEF Spec
=============================================================================
