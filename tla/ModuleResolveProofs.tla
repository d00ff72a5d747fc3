------------------------- MODULE ModuleResolveProofs -------------------------
(***************************************************************************)
(* Theorems about ModuleResolve, for any programs, names and prelude: what *)
(* the passes promise each other and the driver, and that the fixpoints of *)
(* the constants come to an end.                                           *)
(***************************************************************************)
EXTENDS ModuleResolve, FiniteSetTheorems, SequenceTheorems, WellFoundedInduction, TLAPS

(* The items register_flat_namespace has been through.                     *)
Seen ==
  IF stage = "grammar" THEN {}
  ELSE {p \in Items : p[1] < at[1] \/ (p[1] = at[1] /\ p[2] < at[2])}

(* Where the passes are: each goes through all files.                      *)
PassInv ==
  /\ stage \notin {"grammar", "declare"} => at[1] > Len(files)
  /\ stage = "grammar" => at[2] = 1

(* The module grammar: a file behind the cursor that is a module with      *)
(* statements was reported.                                                *)
GrammarInv ==
  \A p \in Items :
    (p[1] < at[1] \/ stage # "grammar") /\ Item(p).kind = "stmt" /\ files[p[1]].directive
      => diags["E5002"]["none"] > 0

(* The namespace so far: which names it has, and how many were declared    *)
(* again.                                                                  *)
NamespaceInv ==
  /\ \A n \in Names :
       LET places == DeclaredBy(Seen, n)
       IN  /\ IsFiniteSet(places)
           /\ n \in declared <=> n \in PreludeNames \/ places # {}
           /\ diags["E1001"][n] = IF n \in PreludeNames \/ places = {} THEN Cardinality(places)
                                  ELSE Cardinality(places) - 1
  /\ \A p \in Seen : IsConstant(p) =>
       Item(p) \in ToSet(candidates) \/ diags["E1001"][Item(p).name] > 0
  /\ \A c \in ToSet(candidates) :
       c.name \in declared /\ (c.form = "bare" => Len(c.of) = 1)

Open == ToSet(pending) \cup ToSet(later)
Typed == {n \in Names : types[n] # <<>>}

(* Each list of a round holds a constant once, and the lists are those of  *)
(* the two fixpoints.                                                      *)
RoundInv ==
  /\ IsInjective(pending) /\ IsInjective(later)
  /\ stage \in {"grammar", "declare"} => pending = <<>> /\ later = <<>>
  /\ stage \in {"skeleton", "done"} => pending = <<>>

(* A constant is open, or has its type, or was reported wrong, and only    *)
(* one of the three; after the rounds what was open has been reported.     *)
SettledInv ==
  /\ \A n \in Names : (\A c \in ToSet(candidates) : c.name # n) =>
       types[n] = <<>> /\ diags["E10xx"][n] = 0 /\ diags["E1003"][n] = 0
  /\ stage \in {"grammar", "declare"} =>
       \A n \in Names : types[n] = <<>> /\ diags["E10xx"][n] = 0 /\ diags["E1003"][n] = 0
  /\ stage = "types" =>
       \A c \in ToSet(candidates) :
         /\ diags["E1003"][c.name] = 0
         /\ c \in Open => types[c.name] = <<>> /\ diags["E10xx"][c.name] = 0
         /\ c \notin Open => diags["E10xx"][c.name] = IF types[c.name] = <<>> THEN 1 ELSE 0
  /\ stage \in {"values", "skeleton", "done"} =>
       \A c \in ToSet(candidates) :
         diags["E10xx"][c.name] + diags["E1003"][c.name] = IF types[c.name] = <<>> THEN 1 ELSE 0

(* What a constant's type says of it: its elements have one type, and a    *)
(* set's are keys.                                                         *)
WellTyped(c) ==
  /\ c.of # <<>>
  /\ \A k \in DOMAIN c.of : TypeOf(c.of[k], types) = TypeOf(c.of[1], types)
  /\ TypeOf(c.of[1], types) # <<>>
  /\ c.form = "set" => Key(TypeOf(c.of[1], types))
  /\ types[c.name] = IF c.form = "bare" THEN TypeOf(c.of[1], types)
                     ELSE <<c.form>> \o TypeOf(c.of[1], types)

(* The typed constants can be put in an order in which each refers to      *)
(* earlier ones only: none owes its type to itself.                        *)
Ranked(rank, top) ==
  \A c \in ToSet(candidates) : c.name \in Typed =>
    /\ WellTyped(c)
    /\ rank[c.name] < top
    /\ \A k \in DOMAIN c.of : c.of[k] \in Names => rank[c.of[k]] < rank[c.name]
OrderInv == \E rank \in [Names -> Nat], top \in Nat : Ranked(rank, top)

(* A constant of which elements have types that do not go together.        *)
Wrong(c) ==
  \/ \E k \in DOMAIN c.of : /\ TypeOf(c.of[1], types) # <<>> /\ TypeOf(c.of[k], types) # <<>>
                           /\ TypeOf(c.of[k], types) # TypeOf(c.of[1], types)
  \/ /\ c.form = "set" /\ TypeOf(c.of[1], types) # <<>>
     /\ ~Key(TypeOf(c.of[1], types))

(* What has no type has none by its definition: a constant that was found  *)
(* wrong stays wrong, and one that is open when a round settles none       *)
(* cannot be typed.                                                        *)
FixedInv ==
  /\ stage = "types" => \A c \in ToSet(candidates) :
       c \notin Open /\ types[c.name] = <<>> => c.of # <<>> /\ Wrong(c)
  /\ stage = "types" /\ ~progressed => \A c \in ToSet(later) : Infer(c, types).type = <<>>
  /\ stage \in {"values", "skeleton", "done"} =>
       \A c \in ToSet(candidates) : types[c.name] = <<>> => Infer(c, types).type = <<>>

(* Values agree with types; of the open constants none can be evaluated    *)
(* when a round has settled none.                                          *)
ValuesInv ==
  /\ stage \notin {"values", "skeleton", "done"} => \A n \in Names : consts[n] = "none"
  /\ \A n \in Typed : consts[n] \in {"none", IF Key(types[n]) THEN "key" ELSE "other"}
  /\ stage \in {"values", "skeleton", "done"} =>
       \A c \in ToSet(candidates) : c \notin Open <=> consts[c.name] # "none"
  /\ stage = "values" /\ ~progressed => \A c \in ToSet(later) : Value(c, consts) = "none"
  /\ stage \in {"skeleton", "done"} => \A c \in ToSet(later) : Value(c, consts) = "none"

(* The entries are the prelude's until the skeleton adds the program's to  *)
(* them.                                                                   *)
Given == [d \in Tables \X Names |-> IF d \in Prelude THEN <<0, 0>> ELSE <<>>]
Merged ==
  [d \in Tables \X Names |->
     IF Given[d] # <<>> \/ DeclPlaces(d) = {} THEN Given[d]
     ELSE CHOOSE p \in DeclPlaces(d) : \A q \in DeclPlaces(d) : Before(p, q)]
EntriesInv == decls = IF stage = "done" THEN Merged ELSE Given

IInv == /\ TypeOK /\ PassInv /\ GrammarInv /\ NamespaceInv /\ RoundInv /\ SettledInv
        /\ OrderInv /\ FixedInv /\ ValuesInv /\ EntriesInv

----------------------------------------------------------------------------
(* What the assumption on programs says of the one at hand.                *)
LEMMA ItemType ==
  ASSUME files \in Programs
  PROVE  /\ Len(files) \in Nat /\ DOMAIN files = 1 .. Len(files)
         /\ \A f \in DOMAIN files :
              /\ files[f].directive \in BOOLEAN
              /\ Len(files[f].items) \in Nat /\ DOMAIN files[f].items = 1 .. Len(files[f].items)
         /\ \A p \in Items :
              /\ Item(p) \in Decl \cup Const \cup Stmt
              /\ Item(p).kind = "decl" => Item(p).names # <<>>
              /\ Item(p).kind = "const" /\ Item(p).form = "bare" => Len(Item(p).of) = 1
<1>1. files \in Seq(File)
  BY Parameters
<1>2. Len(files) \in Nat /\ DOMAIN files = 1 .. Len(files)
  BY <1>1, LenProperties
<1>3. \A f \in DOMAIN files : files[f] \in File
  BY <1>1, <1>2, ElementOfSeq
<1>4. ASSUME NEW f \in DOMAIN files
      PROVE  /\ files[f].directive \in BOOLEAN
             /\ Len(files[f].items) \in Nat /\ DOMAIN files[f].items = 1 .. Len(files[f].items)
             /\ \A i \in DOMAIN files[f].items : files[f].items[i] \in Decl \cup Const \cup Stmt
  <2>1. files[f].directive \in BOOLEAN /\ files[f].items \in Seq(Decl \cup Const \cup Stmt)
    BY <1>3 DEF File
  <2>2. QED
    BY <2>1, LenProperties, ElementOfSeq
<1>5. \A p \in Items : p[1] \in DOMAIN files /\ p[2] \in DOMAIN files[p[1]].items
  BY DEF Items
<1>6. ASSUME NEW p \in Items
      PROVE  /\ Item(p) \in Decl \cup Const \cup Stmt
             /\ Item(p).kind = "decl" => Item(p).names # <<>>
             /\ Item(p).kind = "const" /\ Item(p).form = "bare" => Len(Item(p).of) = 1
  BY <1>4, <1>5, Parameters DEF Item
<1>7. QED
  BY <1>2, <1>4, <1>6

(* Of a set of naturals that is not empty one is the least.                *)
LEMMA LeastExists ==
  ASSUME NEW S, S \subseteq Nat, S # {}
  PROVE  \E x \in S : \A y \in S : x <= y
<1>1. PICK x \in S : \A y \in S : ~ (<<y, x>> \in OpToRel(<, Nat))
  BY NatLessThanWellFounded, WFMin, Zenon
<1>2. ASSUME NEW y \in S PROVE x <= y
  <2>1. ~ (y < x)
    BY <1>1 DEF OpToRel
  <2>2. QED
    BY <2>1
<1>3. QED
  BY <1>2

(* The names an item declares are names, and a constant is one.            *)
LEMMA NamesType ==
  ASSUME files \in Programs, NEW p \in Items
  PROVE  /\ NamesOf(p) \in Seq(Names)
         /\ IsConstant(p) => Item(p) \in Const /\ NamesOf(p) = <<Item(p).name>>
<1>1. Item(p) \in Decl \cup Const \cup Stmt
  BY ItemType
<1>2. CASE Item(p).kind = "decl"
  BY <1>1, <1>2 DEF Decl, Const, Stmt, NamesOf, IsConstant
<1>3. CASE Item(p).kind = "const"
  BY <1>1, <1>3 DEF Decl, Const, Stmt, NamesOf, IsConstant
<1>4. CASE Item(p).kind = "stmt"
  BY <1>1, <1>4 DEF Decl, Const, Stmt, NamesOf, IsConstant
<1>5. QED
  BY <1>1, <1>2, <1>3, <1>4 DEF Decl, Const, Stmt

(* Taking the first of a list without repetitions, and adding at its end.  *)
LEMMA HeadAndTail ==
  ASSUME NEW S, NEW s \in Seq(S), s # <<>>
  PROVE  /\ Head(s) \in S /\ Tail(s) \in Seq(S)
         /\ ToSet(s) = {Head(s)} \cup ToSet(Tail(s))
         /\ IsInjective(s) => Head(s) \notin ToSet(Tail(s)) /\ IsInjective(Tail(s))
<1>1. /\ Len(s) \in Nat /\ Len(s) > 0 /\ DOMAIN s = 1 .. Len(s)
      /\ Tail(s) \in Seq(S) /\ DOMAIN Tail(s) = 1 .. Len(s) - 1
      /\ \A k \in 1 .. Len(s) - 1 : Tail(s)[k] = s[k + 1]
      /\ Head(s) = s[1] /\ Head(s) \in S
  OBVIOUS
<1>2. ToSet(s) = {Head(s)} \cup ToSet(Tail(s))
  <2>1. ASSUME NEW k \in DOMAIN s PROVE s[k] = Head(s) \/ s[k] \in ToSet(Tail(s))
    <3>1. CASE k = 1
      BY <1>1, <3>1
    <3>2. CASE k # 1
      <4>1. k - 1 \in 1 .. Len(s) - 1 /\ s[k] = Tail(s)[k - 1]
        BY <1>1, <3>2
      <4>2. QED
        BY <1>1, <4>1 DEF ToSet
    <3>3. QED
      BY <3>1, <3>2
  <2>2. ASSUME NEW k \in DOMAIN Tail(s) PROVE Tail(s)[k] \in ToSet(s)
    <3>1. k + 1 \in DOMAIN s /\ Tail(s)[k] = s[k + 1]
      BY <1>1
    <3>2. QED
      BY <3>1 DEF ToSet
  <2>3. Head(s) \in ToSet(s)
    BY <1>1 DEF ToSet
  <2>4. QED
    BY <2>1, <2>2, <2>3 DEF ToSet
<1>3. ASSUME IsInjective(s) PROVE Head(s) \notin ToSet(Tail(s)) /\ IsInjective(Tail(s))
  <2>1. \A k, l \in 1 .. Len(s) : s[k] = s[l] => k = l
    BY <1>1, <1>3 DEF IsInjective
  <2>2. \A k \in 1 .. Len(s) - 1 : k + 1 \in 1 .. Len(s) /\ k + 1 # 1
    BY <1>1
  <2>3. Head(s) \notin ToSet(Tail(s))
    BY <1>1, <2>1, <2>2 DEF ToSet
  <2>4. \A k, l \in 1 .. Len(s) - 1 : Tail(s)[k] = Tail(s)[l] => k = l
    <3>1. \A k, l \in 1 .. Len(s) - 1 : s[k + 1] = s[l + 1] => k + 1 = l + 1
      BY <2>1, <2>2
    <3>2. QED
      BY <1>1, <3>1
  <2>5. QED
    BY <1>1, <2>3, <2>4 DEF IsInjective
<1>4. QED
  BY <1>1, <1>2, <1>3

(* A list without repetitions stays so when something new is added to it.  *)
LEMMA Appended ==
  ASSUME NEW S, NEW s \in Seq(S), NEW e \in S
  PROVE  /\ Append(s, e) \in Seq(S)
         /\ ToSet(Append(s, e)) = ToSet(s) \cup {e}
         /\ IsInjective(s) /\ e \notin ToSet(s) => IsInjective(Append(s, e))
<1>1. /\ Len(s) \in Nat /\ DOMAIN s = 1 .. Len(s)
      /\ Append(s, e) \in Seq(S) /\ DOMAIN Append(s, e) = 1 .. Len(s) + 1
      /\ \A k \in 1 .. Len(s) : Append(s, e)[k] = s[k]
      /\ Append(s, e)[Len(s) + 1] = e
  OBVIOUS
<1>2. 1 .. Len(s) + 1 = (1 .. Len(s)) \cup {Len(s) + 1}
  BY <1>1
<1>3. ToSet(Append(s, e)) = ToSet(s) \cup {e}
  BY <1>1, <1>2 DEF ToSet
<1>4. ASSUME IsInjective(s), e \notin ToSet(s) PROVE IsInjective(Append(s, e))
  <2>1. \A k, l \in 1 .. Len(s) : s[k] = s[l] => k = l
    BY <1>1, <1>4 DEF IsInjective
  <2>2. \A k \in 1 .. Len(s) : s[k] # e
    BY <1>1, <1>4 DEF ToSet
  <2>3. QED
    BY <1>1, <1>2, <2>1, <2>2 DEF IsInjective
<1>5. QED
  BY <1>1, <1>3, <1>4

(* Some positions of a list are finitely many.                             *)
LEMMA PositionsFinite ==
  ASSUME NEW S, NEW s \in Seq(S), NEW P \in SUBSET DOMAIN s
  PROVE  IsFiniteSet(P) /\ Cardinality(P) \in Nat
<1>1. DOMAIN s = 1 .. Len(s) /\ 1 \in Int /\ Len(s) \in Int
  BY LenProperties
<1>2. IsFiniteSet(DOMAIN s)
  BY <1>1, FS_Interval
<1>3. QED
  BY <1>2, FS_Subset, FS_CardinalityType

(* Counting is possible, and reports are counted.                          *)
LEMMA Reported ==
  ASSUME TypeOK, NEW code \in Codes, NEW times, Report(code, times),
         \A n \in Names \cup {"none"} : times[n] \in Nat
  PROVE  /\ diags' \in [Codes -> [Names \cup {"none"} -> Nat]]
         /\ \A n \in Names \cup {"none"} : diags'[code][n] = diags[code][n] + times[n]
         /\ \A other \in Codes \ {code} : diags'[other] = diags[other]
<1> DEFINE D == Names \cup {"none"}
<1>1. diags \in [Codes -> [D -> Nat]]
  BY DEF TypeOK
<1>2. diags' = [diags EXCEPT ![code] = [n \in D |-> diags[code][n] + times[n]]]
  BY <1>1 DEF Report
<1>3. [n \in D |-> diags[code][n] + times[n]] \in [D -> Nat]
  BY <1>1
<1> HIDE DEF D
<1>4. QED
  BY <1>1, <1>2, <1>3 DEF D

(* The item Declare is at, and how often it declares a name again.         *)
Again(n) ==
  {k \in DOMAIN NamesOf(at) :
     NamesOf(at)[k] = n /\ (n \in declared \/ \E j \in 1 .. k - 1 : NamesOf(at)[j] = n)}

(* Declare is at an item of the program, and goes on to the next of its    *)
(* module.                                                                 *)
LEMMA AtItem ==
  ASSUME TypeOK, Declare
  PROVE  /\ at \in Items /\ at[1] \in Nat /\ at[2] \in Nat
         /\ at'[1] = at[1] /\ at'[2] = at[2] + 1
<1>1. /\ at = <<at[1], at[2]>> /\ at[1] \in 1 .. Len(files) + 1 /\ at[2] \in Nat \ {0}
      /\ Len(files) \in Nat
  BY ItemType DEF TypeOK
<1>2. at[1] \in DOMAIN files /\ at[2] \in DOMAIN files[at[1]].items
  <2>1. at[1] <= Len(files) /\ at[2] <= Len(files[at[1]].items)
    BY DEF Declare
  <2>2. at[1] \in DOMAIN files
    BY <1>1, <2>1, ItemType DEF TypeOK
  <2>3. QED
    BY <1>1, <2>1, <2>2, ItemType DEF TypeOK
<1>3. QED
  BY <1>1, <1>2 DEF Items, Declare

(* What Declare reports, and what it adds to the namespace.                *)
LEMMA DeclareEffect ==
  ASSUME TypeOK, Declare
  PROVE  /\ diags' \in [Codes -> [Names \cup {"none"} -> Nat]]
         /\ \A n \in Names \cup {"none"} :
              diags'["E1001"][n] = diags["E1001"][n] + Cardinality(Again(n))
         /\ \A other \in Codes \ {"E1001"} : diags'[other] = diags[other]
         /\ declared' = declared \cup {NamesOf(at)[k] : k \in DOMAIN NamesOf(at)}
<1> DEFINE times == [n \in Names \cup {"none"} |-> Cardinality(Again(n))]
<1>1. Report("E1001", times)
  <2>1. \A n : Again(n) = {k \in DOMAIN NamesOf(at) :
                             /\ NamesOf(at)[k] = n
                             /\ NamesOf(at)[k] \in declared
                                                   \cup {NamesOf(at)[j] : j \in 1 .. k - 1}}
    BY DEF Again
  <2>2. QED
    BY <2>1 DEF Declare, DeclareAll
<1>2. \A n \in Names \cup {"none"} : times[n] \in Nat
  <2>1. NamesOf(at) \in Seq(Names)
    BY AtItem, NamesType DEF TypeOK
  <2>2. \A n : Again(n) \in SUBSET DOMAIN NamesOf(at)
    BY DEF Again
  <2>3. \A n : Cardinality(Again(n)) \in Nat
    BY <2>1, <2>2, PositionsFinite
  <2>4. QED
    BY <2>3
<1>3. "E1001" \in Codes
  BY DEF Codes
<1>4. declared' = declared \cup {NamesOf(at)[k] : k \in DOMAIN NamesOf(at)}
  BY DEF Declare, DeclareAll, ToSet
<1> HIDE DEF times
<1>5. /\ diags' \in [Codes -> [Names \cup {"none"} -> Nat]]
      /\ \A n \in Names \cup {"none"} : diags'["E1001"][n] = diags["E1001"][n] + times[n]
      /\ \A other \in Codes \ {"E1001"} : diags'[other] = diags[other]
  BY <1>1, <1>2, <1>3, Reported
<1>6. QED
  BY <1>4, <1>5 DEF times

(* What CheckGrammar reports: a module's statements.                       *)
LEMMA GrammarEffect ==
  ASSUME TypeOK, CheckGrammar
  PROVE  /\ diags' \in [Codes -> [Names \cup {"none"} -> Nat]]
         /\ diags["E5002"]["none"] \in Nat /\ diags'["E5002"]["none"] >= diags["E5002"]["none"]
         /\ (\E i \in DOMAIN files[at[1]].items :
               files[at[1]].directive /\ files[at[1]].items[i].kind = "stmt")
              => diags'["E5002"]["none"] > 0
         /\ \A other \in Codes \ {"E5002"} : diags'[other] = diags[other]
<1> DEFINE bad == {i \in DOMAIN files[at[1]].items :
                     files[at[1]].directive /\ files[at[1]].items[i].kind = "stmt"}
           times == [n \in Names \cup {"none"} |-> IF n = "none" THEN Cardinality(bad) ELSE 0]
<1>1. Report("E5002", times)
  BY DEF CheckGrammar
<1>2. at[1] \in DOMAIN files
  BY ItemType DEF TypeOK, CheckGrammar
<1>3. IsFiniteSet(bad) /\ Cardinality(bad) \in Nat
  <2>1. files[at[1]].items \in Seq(Decl \cup Const \cup Stmt)
    <3>1. files \in Seq(File)
      BY Parameters DEF TypeOK
    <3>2. files[at[1]] \in File
      BY <1>2, <3>1
    <3>3. QED
      BY <3>2 DEF File
  <2>2. QED
    BY <2>1, PositionsFinite
<1>4. Cardinality(bad) > 0 \/ bad = {}
  BY <1>3, FS_EmptySet
<1>5. "E5002" \in Codes /\ \A n \in Names \cup {"none"} : times[n] \in Nat
  BY <1>3 DEF Codes
<1>6. times["none"] = Cardinality(bad)
  OBVIOUS
<1> HIDE DEF times
<1>7. /\ diags' \in [Codes -> [Names \cup {"none"} -> Nat]]
      /\ \A n \in Names \cup {"none"} : diags'["E5002"][n] = diags["E5002"][n] + times[n]
      /\ \A other \in Codes \ {"E5002"} : diags'[other] = diags[other]
  BY <1>1, <1>5, Reported
<1>8. diags["E5002"]["none"] \in Nat
  BY <1>5 DEF TypeOK
<1>9. (\E i \in DOMAIN files[at[1]].items :
         files[at[1]].directive /\ files[at[1]].items[i].kind = "stmt") => bad # {}
  OBVIOUS
<1> HIDE DEF bad
<1>10. diags'["E5002"]["none"] = diags["E5002"]["none"] + Cardinality(bad)
  BY <1>6, <1>7
<1>11. /\ diags'["E5002"]["none"] >= diags["E5002"]["none"]
       /\ bad # {} => diags'["E5002"]["none"] > 0
  BY <1>3, <1>4, <1>8, <1>10
<1>12. QED
  BY <1>7, <1>8, <1>9, <1>11

(* What InferConst does with the constant it looks at.                     *)
LEMMA InferEffect ==
  ASSUME TypeOK, InferConst
  PROVE  LET c == Head(pending)
             result == Infer(c, types)
         IN  /\ c \in Const /\ c \in ToSet(candidates) /\ c.name \in Names
             /\ diags' \in [Codes -> [Names \cup {"none"} -> Nat]]
             /\ \A n \in Names : diags'["E10xx"][n] = diags["E10xx"][n]
                                   + IF result.tag = "error" /\ n = c.name THEN 1 ELSE 0
             /\ \A other \in Codes \ {"E10xx"} : diags'[other] = diags[other]
             /\ \A n \in Names : types'[n] = IF n = c.name THEN result.type ELSE types[n]
<1> DEFINE c == Head(pending)
           result == Infer(c, types)
           times == [n \in Names \cup {"none"} |->
                       IF result.tag = "error" /\ n = c.name THEN 1 ELSE 0]
<1>1. pending \in Seq(Const) /\ pending # <<>>
  BY DEF TypeOK, InferConst
<1>2. c \in Const /\ c \in ToSet(pending)
  BY <1>1, HeadAndTail
<1>3. c \in ToSet(candidates) /\ c.name \in Names
  BY <1>2 DEF TypeOK, Const
<1>4. Report("E10xx", times) /\ types' = [types EXCEPT ![c.name] = result.type]
  BY DEF InferConst
<1>5. "E10xx" \in Codes /\ \A n \in Names \cup {"none"} : times[n] \in Nat
  BY DEF Codes
<1>6. \A n \in Names : times[n] = IF result.tag = "error" /\ n = c.name THEN 1 ELSE 0
  OBVIOUS
<1> HIDE DEF times, result, c
<1>7. /\ diags' \in [Codes -> [Names \cup {"none"} -> Nat]]
      /\ \A n \in Names \cup {"none"} : diags'["E10xx"][n] = diags["E10xx"][n] + times[n]
      /\ \A other \in Codes \ {"E10xx"} : diags'[other] = diags[other]
  BY <1>4, <1>5, Reported
<1>8. \A n \in Names : types'[n] = IF n = c.name THEN result.type ELSE types[n]
  BY <1>3, <1>4 DEF TypeOK
<1>9. QED
  BY <1>2, <1>3, <1>6, <1>7, <1>8 DEF result, c

(* What TypeRound reports when no round goes on: what is still open.       *)
LEMMA RoundEffect ==
  ASSUME TypeOK, TypeRound
  PROVE  \/ /\ UNCHANGED <<stage, diags>> /\ Round(later) /\ progressed
         \/ /\ stage' = "values" /\ Round(candidates)
            /\ diags' \in [Codes -> [Names \cup {"none"} -> Nat]]
            /\ \A n \in Names : diags'["E1003"][n] = diags["E1003"][n]
                                  + Cardinality({k \in DOMAIN later : later[k].name = n})
            /\ \A other \in Codes \ {"E1003"} : diags'[other] = diags[other]
<1>1. CASE later # <<>> /\ progressed
  BY <1>1 DEF TypeRound
<1>2. CASE ~(later # <<>> /\ progressed)
  <2>1. stage' = "values" /\ Round(candidates) /\ Report("E1003", Unresolved)
    BY <1>2 DEF TypeRound
  <2>2. \A n \in Names \cup {"none"} :
          Unresolved[n] = Cardinality({k \in DOMAIN later : later[k].name = n})
    BY DEF Unresolved
  <2>3. \A n \in Names \cup {"none"} : Unresolved[n] \in Nat
    <3>1. \A n : {k \in DOMAIN later : later[k].name = n} \in SUBSET DOMAIN later
      OBVIOUS
    <3>2. later \in Seq(Const)
      BY DEF TypeOK
    <3>3. \A n : Cardinality({k \in DOMAIN later : later[k].name = n}) \in Nat
      BY <3>1, <3>2, PositionsFinite
    <3>4. QED
      BY <2>2, <3>3
  <2>4. "E1003" \in Codes
    BY DEF Codes
  <2>5. /\ diags' \in [Codes -> [Names \cup {"none"} -> Nat]]
        /\ \A n \in Names \cup {"none"} : diags'["E1003"][n] = diags["E1003"][n] + Unresolved[n]
        /\ \A other \in Codes \ {"E1003"} : diags'[other] = diags[other]
    BY <2>1, <2>3, <2>4, Reported
  <2>6. QED
    BY <2>1, <2>2, <2>5
<1>3. QED
  BY <1>1, <1>2

----------------------------------------------------------------------------
(* When a constant has a type: its elements have one, and a set's are keys.*)
Sound(c, known) ==
  /\ c.of # <<>>
  /\ \A k \in DOMAIN c.of : TypeOf(c.of[k], known) = TypeOf(c.of[1], known)
  /\ TypeOf(c.of[1], known) # <<>>
  /\ c.form = "set" => Key(TypeOf(c.of[1], known))

(* infer_const_type gives a type to just these constants.                  *)
LEMMA InferType ==
  ASSUME NEW known \in [Names -> Seq({"list", "set"} \cup Literals)], NEW c \in Const
  PROVE  /\ Infer(c, known).type \in Seq({"list", "set"} \cup Literals)
         /\ Infer(c, known).tag \in {"ok", "wait", "error"}
         /\ Infer(c, known).tag = "ok" <=> Infer(c, known).type # <<>>
         /\ Infer(c, known).tag = "ok" <=> Sound(c, known)
         /\ Infer(c, known).tag = "ok" =>
              Infer(c, known).type = IF c.form = "bare" THEN TypeOf(c.of[1], known)
                                     ELSE <<c.form>> \o TypeOf(c.of[1], known)
<1> DEFINE T == {"list", "set"} \cup Literals
           ty(k) == TypeOf(c.of[k], known)
           stops == {k \in DOMAIN c.of : ty(k) = <<>> \/ ty(k) # ty(1)}
           first == CHOOSE k \in stops : \A j \in stops : k <= j
<1>1. c.of \in Seq(Elements) /\ c.form \in {"bare", "list", "set"}
  BY DEF Const
<1>2. \A k \in DOMAIN c.of : ty(k) \in Seq(T)
  <2>1. \A k \in DOMAIN c.of : c.of[k] \in Elements
    BY <1>1
  <2>2. \A e \in Literals : <<e>> \in Seq(T)
    OBVIOUS
  <2>3. \A e \in Names : known[e] \in Seq(T)
    OBVIOUS
  <2>4. QED
    BY <2>1, <2>2, <2>3 DEF TypeOf, Elements
<1>3. c.of # <<>> => 1 \in DOMAIN c.of
  BY <1>1
<1>4. CASE c.of = <<>>
  <2>1. Infer(c, known) = [tag |-> "wait", type |-> <<>>]
    BY <1>4 DEF Infer
  <2>2. QED
    BY <1>4, <2>1 DEF Sound
<1>5. CASE c.of # <<>> /\ stops # {}
  <2>1. Infer(c, known) = [tag |-> IF ty(first) = <<>> THEN "wait" ELSE "error", type |-> <<>>]
    BY <1>5 DEF Infer
  <2>2. ~Sound(c, known)
    BY <1>5 DEF Sound
  <2>3. QED
    BY <2>1, <2>2
<1>6. CASE c.of # <<>> /\ stops = {} /\ c.form = "set" /\ ~Key(ty(1))
  <2>1. Infer(c, known) = [tag |-> "error", type |-> <<>>]
    BY <1>6 DEF Infer
  <2>2. ~Sound(c, known)
    BY <1>6 DEF Sound
  <2>3. QED
    BY <2>1, <2>2
<1>7. CASE c.of # <<>> /\ stops = {} /\ ~(c.form = "set" /\ ~Key(ty(1)))
  <2>1. Infer(c, known) = [tag |-> "ok", type |-> IF c.form = "bare" THEN ty(1)
                                                                     ELSE <<c.form>> \o ty(1)]
    BY <1>7 DEF Infer
  <2>2. \A k \in DOMAIN c.of : ty(k) # <<>> /\ ty(k) = ty(1)
    BY <1>7
  <2>3. ty(1) \in Seq(T) /\ ty(1) # <<>>
    BY <1>2, <1>3, <1>7, <2>2
  <2> HIDE DEF ty, T, stops, first
  <2>4. c.form # "bare" => <<c.form>> \o ty(1) \in Seq(T) /\ <<c.form>> \o ty(1) # <<>>
    <3>1. c.form # "bare" => c.form \in T
      BY <1>1 DEF T
    <3>2. QED
      BY <2>3, <3>1
  <2>5. Infer(c, known).tag = "ok"
    BY <2>1
  <2>6. Infer(c, known).type = IF c.form = "bare" THEN ty(1) ELSE <<c.form>> \o ty(1)
    BY <2>1
  <2>7. Infer(c, known).type \in Seq(T) /\ Infer(c, known).type # <<>>
    BY <2>3, <2>4, <2>6
  <2>8. Sound(c, known)
    BY <1>7, <2>2, <2>3 DEF ty, Sound
  <2>9. QED
    BY <2>5, <2>6, <2>7, <2>8 DEF ty, T
<1>8. QED
  BY <1>4, <1>5, <1>6, <1>7


(* It finds those wrong of which elements do not go together, whatever is  *)
(* typed besides.                                                          *)
LEMMA InferWrong ==
  ASSUME TypeOK, NEW c \in Const
  PROVE  /\ Infer(c, types).tag = "error" => c.of # <<>> /\ Wrong(c)
         /\ c.of # <<>> /\ Wrong(c) => Infer(c, types).type = <<>>
<1> DEFINE ty(k) == TypeOf(c.of[k], types)
           stops == {k \in DOMAIN c.of : ty(k) = <<>> \/ ty(k) # ty(1)}
           first == CHOOSE k \in stops : \A j \in stops : k <= j
<1>1. c.of \in Seq(Elements) /\ Len(c.of) \in Nat /\ DOMAIN c.of = 1 .. Len(c.of)
  BY DEF Const
<1>2. c.of # <<>> => 1 \in DOMAIN c.of
  BY <1>1
<1>3. ASSUME Infer(c, types).tag = "error" PROVE c.of # <<>> /\ Wrong(c)
  <2>1. c.of # <<>>
    BY <1>3 DEF Infer
  <2>2. CASE stops # {}
    <3>1. Infer(c, types) = [tag |-> IF ty(first) = <<>> THEN "wait" ELSE "error", type |-> <<>>]
      BY <2>1, <2>2 DEF Infer
    <3>2. ty(first) # <<>>
      BY <1>3, <3>1
    <3>3. first \in stops /\ \A j \in stops : first <= j
      <4>1. stops \subseteq Nat
        BY <1>1
      <4>2. \E k \in stops : \A j \in stops : k <= j
        BY <2>2, <4>1, LeastExists
      <4>3. QED
        BY <4>2
    <3>4. ty(first) # ty(1) /\ first \in DOMAIN c.of
      BY <3>2, <3>3
    <3>5. ty(1) # <<>>
      <4>1. ty(1) = <<>> => first <= 1
        BY <1>2, <2>1, <3>3
      <4>2. ty(1) = <<>> => first = 1
        BY <1>1, <3>4, <4>1
      <4>3. QED
        BY <3>4, <4>2
    <3>6. QED
      BY <2>1, <3>2, <3>4, <3>5 DEF Wrong
  <2>3. CASE stops = {}
    <3>1. ~Sound(c, types)
      BY <1>3, InferType DEF TypeOK
    <3>2. \A k \in DOMAIN c.of : ty(k) # <<>> /\ ty(k) = ty(1)
      BY <2>3
    <3>3. c.form = "set" /\ ty(1) # <<>> /\ ~Key(ty(1))
      BY <1>2, <2>1, <3>1, <3>2 DEF Sound
    <3>4. QED
      BY <2>1, <3>3 DEF Wrong
  <2>4. QED
    BY <2>2, <2>3
<1>4. ASSUME c.of # <<>>, Wrong(c) PROVE Infer(c, types).type = <<>>
  <2>1. ~Sound(c, types)
    BY <1>4 DEF Wrong, Sound
  <2>2. QED
    BY <2>1, InferType DEF TypeOK
<1>5. QED
  BY <1>3, <1>4
(* The lists of constants have their types: apart, within the candidates,  *)
(* and no two candidates of one name.                                      *)
ListsOK ==
  /\ candidates \in Seq(Const) /\ pending \in Seq(Const) /\ later \in Seq(Const)
  /\ IsInjective([k \in DOMAIN candidates |-> candidates[k].name])
  /\ ToSet(pending) \cap ToSet(later) = {}
  /\ ToSet(pending) \cup ToSet(later) \subseteq ToSet(candidates)

(* Taking the first constant of a round, to keep it for the next or not.   *)
LEMMA ListsMove ==
  ASSUME ListsOK, IsInjective(pending), IsInjective(later), pending # <<>>, UNCHANGED candidates,
         pending' = Tail(pending), later' \in {later, Append(later, Head(pending))}
  PROVE  /\ ListsOK' /\ IsInjective(pending') /\ IsInjective(later')
         /\ Head(pending) \notin ToSet(pending')
         /\ ToSet(pending) = {Head(pending)} \cup ToSet(pending')
         /\ \/ later' = later /\ ToSet(later') = ToSet(later)
            \/ /\ later' = Append(later, Head(pending))
               /\ ToSet(later') = ToSet(later) \cup {Head(pending)}
<1>1. /\ pending \in Seq(Const) /\ later \in Seq(Const) /\ ToSet(pending) \cap ToSet(later) = {}
      /\ ToSet(pending) \cup ToSet(later) \subseteq ToSet(candidates)
  BY DEF ListsOK
<1>2. /\ Head(pending) \in Const /\ pending' \in Seq(Const) /\ IsInjective(pending')
      /\ ToSet(pending) = {Head(pending)} \cup ToSet(pending')
      /\ Head(pending) \notin ToSet(pending')
  BY <1>1, HeadAndTail
<1>3. Head(pending) \notin ToSet(later)
  BY <1>1, <1>2
<1>4. /\ Append(later, Head(pending)) \in Seq(Const)
      /\ ToSet(Append(later, Head(pending))) = ToSet(later) \cup {Head(pending)}
      /\ IsInjective(Append(later, Head(pending)))
  BY <1>1, <1>2, <1>3, Appended
<1>5. /\ later' \in Seq(Const) /\ IsInjective(later')
      /\ \/ later' = later /\ ToSet(later') = ToSet(later)
         \/ /\ later' = Append(later, Head(pending))
            /\ ToSet(later') = ToSet(later) \cup {Head(pending)}
  BY <1>1, <1>4
<1>6. /\ ToSet(pending') \cap ToSet(later') = {}
      /\ ToSet(pending') \cup ToSet(later') \subseteq ToSet(candidates)
  BY <1>1, <1>2, <1>5
<1>7. ListsOK'
  BY <1>2, <1>5, <1>6 DEF ListsOK
<1>8. QED
  BY <1>2, <1>5, <1>7

(* A round starts with all the candidates or with what the last one left.  *)
LEMMA ListsRound ==
  ASSUME ListsOK, UNCHANGED candidates, Round(candidates) \/ Round(later), IsInjective(later)
  PROVE  ListsOK' /\ IsInjective(pending') /\ IsInjective(later') /\ ToSet(later') = {}
<1>1. /\ later' = <<>> /\ later' \in Seq(Const) /\ ToSet(later') = {} /\ IsInjective(later')
  <2>1. later' = <<>>
    BY DEF Round
  <2>2. DOMAIN later' = {} /\ later' \in Seq(Const)
    BY <2>1
  <2>3. ToSet(later') = {}
    BY <2>2 DEF ToSet
  <2>4. IsInjective(later')
    BY <2>2 DEF IsInjective
  <2>5. QED
    BY <2>1, <2>2, <2>3, <2>4
<1>2. IsInjective(candidates)
  BY DEF ListsOK, IsInjective
<1>3. pending' \in {candidates, later}
  BY DEF Round
<1>4. ListsOK'
  BY <1>1, <1>3 DEF ListsOK
<1>5. QED
  BY <1>1, <1>2, <1>3, <1>4

(* Every step keeps the types.                                             *)
LEMMA TypeNext == TypeOK /\ NamespaceInv /\ RoundInv /\ [Next]_vars => TypeOK'
<1> SUFFICES ASSUME TypeOK, NamespaceInv, RoundInv, [Next]_vars PROVE TypeOK'
  OBVIOUS
<1> DEFINE Rest ==
      /\ files \in Programs
      /\ stage \in {"grammar", "declare", "types", "values", "skeleton", "done"}
      /\ at \in (1 .. Len(files) + 1) \X (Nat \ {0})
      /\ declared \in SUBSET Names
      /\ progressed \in BOOLEAN
      /\ types \in [Names -> Seq({"list", "set"} \cup Literals)]
      /\ consts \in [Names -> {"none", "key", "other"}]
      /\ DOMAIN decls = Tables \X Names
      /\ diags \in [Codes -> [Names \cup {"none"} -> Nat]]
<1> USE DEF vars, rounds
<1>i. ListsOK /\ Rest
  BY DEF TypeOK, ListsOK
<1>j. IsInjective(pending) /\ IsInjective(later)
  BY DEF RoundInv
<1>s. SUFFICES ListsOK' /\ Rest'
  BY DEF TypeOK, ListsOK
<1>n. Len(files) \in Nat
  BY <1>i, ItemType
<1>1. CASE CheckGrammar
  <2>1. ListsOK'
    BY <1>1, <1>i DEF CheckGrammar, ListsOK
  <2>2. diags' \in [Codes -> [Names \cup {"none"} -> Nat]]
    BY <1>1, GrammarEffect
  <2>3. at' \in (1 .. Len(files) + 1) \X (Nat \ {0})
    BY <1>1, <1>i, <1>n DEF CheckGrammar
  <2>4. QED
    BY <1>1, <1>i, <2>1, <2>2, <2>3 DEF CheckGrammar
<1>2. CASE GrammarOver
  <2>1. ListsOK'
    BY <1>2, <1>i DEF GrammarOver, ListsOK
  <2>2. at' \in (1 .. Len(files) + 1) \X (Nat \ {0})
    BY <1>2, <1>n DEF GrammarOver, Start
  <2>3. QED
    BY <1>2, <1>i, <2>1, <2>2 DEF GrammarOver
<1>3. CASE Declare
  <2>1. at \in Items /\ NamesOf(at) \in Seq(Names)
    BY <1>3, <1>i, AtItem, NamesType
  <2>2. declared' \in SUBSET Names /\ diags' \in [Codes -> [Names \cup {"none"} -> Nat]]
    <3>1. declared' = declared \cup {NamesOf(at)[k] : k \in DOMAIN NamesOf(at)}
      BY <1>3, DeclareEffect
    <3>2. \A k \in DOMAIN NamesOf(at) : NamesOf(at)[k] \in Names
      BY <2>1
    <3>3. diags' \in [Codes -> [Names \cup {"none"} -> Nat]]
      BY <1>3, DeclareEffect
    <3>4. QED
      BY <1>i, <3>1, <3>2, <3>3
  <2>3. at' \in (1 .. Len(files) + 1) \X (Nat \ {0})
    BY <1>3, <1>i, <1>n DEF Declare
  <2>4. CASE candidates' = candidates
    BY <1>3, <1>i, <2>2, <2>3, <2>4 DEF Declare, ListsOK
  <2>5. CASE candidates' # candidates
    <3> DEFINE c == Item(at)
    <3>1. /\ candidates' = Append(candidates, c) /\ IsConstant(at) /\ c.name \notin declared
          /\ UNCHANGED <<pending, later>>
      BY <1>3, <2>5 DEF Declare
    <3>2. c \in Const /\ candidates \in Seq(Const)
      BY <1>i, <2>1, <3>1, NamesType DEF ListsOK
    <3>3. \A d \in ToSet(candidates) : d.name # c.name
      BY <3>1 DEF NamespaceInv
    <3> HIDE DEF c
    <3>4. candidates' \in Seq(Const) /\ ToSet(candidates') = ToSet(candidates) \cup {c}
      BY <3>1, <3>2, Appended
    <3>5. IsInjective([k \in DOMAIN candidates' |-> candidates'[k].name])
      <4>1. /\ Len(candidates) \in Nat /\ DOMAIN candidates = 1 .. Len(candidates)
            /\ DOMAIN candidates' = DOMAIN candidates \cup {Len(candidates) + 1}
            /\ \A k \in DOMAIN candidates : candidates'[k] = candidates[k]
            /\ candidates'[Len(candidates) + 1] = c
        BY <3>1, <3>2
      <4>2. \A k, l \in DOMAIN candidates : candidates[k].name = candidates[l].name => k = l
        BY <1>i DEF ListsOK, IsInjective
      <4>3. \A k \in DOMAIN candidates : candidates[k].name # c.name
        BY <3>3 DEF ToSet
      <4>4. \A k, l \in DOMAIN candidates' : candidates'[k].name = candidates'[l].name => k = l
        BY <4>1, <4>2, <4>3
      <4>5. QED
        BY <4>4 DEF IsInjective
    <3>6. ListsOK'
      BY <1>i, <3>1, <3>4, <3>5 DEF ListsOK
    <3>7. QED
      BY <1>3, <1>i, <2>2, <2>3, <3>6 DEF Declare
  <2>6. QED
    BY <2>4, <2>5
<1>4. CASE NextFile
  <2>1. ListsOK'
    BY <1>4, <1>i DEF NextFile, ListsOK
  <2>2. at' \in (1 .. Len(files) + 1) \X (Nat \ {0})
    BY <1>4, <1>i, <1>n DEF NextFile
  <2>3. QED
    BY <1>4, <1>i, <2>1, <2>2 DEF NextFile
<1>5. CASE DeclareOver
  <2>1. ListsOK'
    BY <1>5, <1>i, <1>j, ListsRound DEF DeclareOver
  <2>2. QED
    BY <1>5, <1>i, <2>1 DEF DeclareOver, Round
<1>6. CASE InferConst
  <2> DEFINE c == Head(pending)
             result == Infer(c, types)
  <2>1. /\ pending # <<>> /\ pending' = Tail(pending) /\ UNCHANGED candidates
        /\ later' = IF result.tag = "wait" THEN Append(later, c) ELSE later
        /\ types' = [types EXCEPT ![c.name] = result.type]
    BY <1>6 DEF InferConst
  <2>2. ListsOK'
    BY <1>i, <1>j, <2>1, ListsMove
  <2>3. c \in Const /\ diags' \in [Codes -> [Names \cup {"none"} -> Nat]]
    BY <1>6, InferEffect
  <2>4. result.type \in Seq({"list", "set"} \cup Literals)
    BY <2>3, InferType DEF TypeOK
  <2>5. progressed' \in BOOLEAN
    BY <1>6, <1>i DEF InferConst
  <2> HIDE DEF c, result
  <2>6. types' \in [Names -> Seq({"list", "set"} \cup Literals)]
    BY <1>i, <2>1, <2>4
  <2>7. QED
    BY <1>6, <1>i, <2>2, <2>3, <2>5, <2>6 DEF InferConst
<1>7. CASE TypeRound
  <2>1. ListsOK' /\ progressed' \in BOOLEAN
    BY <1>7, <1>i, <1>j, ListsRound DEF TypeRound, Round
  <2>2. diags' \in [Codes -> [Names \cup {"none"} -> Nat]]
    BY <1>7, <1>i, RoundEffect
  <2>3. QED
    BY <1>7, <1>i, <2>1, <2>2 DEF TypeRound
<1>8. CASE EvalConst
  <2> DEFINE c == Head(pending)
             value == Value(c, consts)
  <2>1. /\ pending # <<>> /\ pending' = Tail(pending) /\ UNCHANGED candidates
        /\ later' = IF value = "none" THEN Append(later, c) ELSE later
        /\ consts' = [consts EXCEPT ![c.name] = value]
    BY <1>8 DEF EvalConst
  <2>2. ListsOK' /\ pending \in Seq(Const)
    BY <1>i, <1>j, <2>1, ListsMove DEF ListsOK
  <2>3. c \in Const /\ (c.form = "bare" => Len(c.of) = 1)
    <3>1. c \in Const /\ c \in ToSet(candidates)
      BY <1>i, <2>1, <2>2, HeadAndTail DEF ListsOK
    <3>2. QED
      BY <3>1 DEF NamespaceInv
  <2>4. value \in {"none", "key", "other"}
    <3>1. c.of \in Seq(Elements) /\ (c.form = "bare" => 1 \in DOMAIN c.of)
      BY <2>3 DEF Const
    <3>2. \A k \in DOMAIN c.of : ValueOf(c.of[k], consts) \in {"none", "key", "other"}
      <4>1. \A k \in DOMAIN c.of : c.of[k] \in Elements
        BY <3>1
      <4>2. QED
        BY <1>i, <4>1 DEF ValueOf, Elements, Literals
    <3>3. QED
      BY <3>1, <3>2 DEF Value
  <2>5. progressed' \in BOOLEAN
    BY <1>8, <1>i DEF EvalConst
  <2> HIDE DEF c, value
  <2>6. consts' \in [Names -> {"none", "key", "other"}]
    BY <1>i, <2>1, <2>4
  <2>7. QED
    BY <1>8, <1>i, <2>2, <2>5, <2>6 DEF EvalConst
<1>9. CASE ValueRound
  <2>1. ListsOK' /\ progressed' \in BOOLEAN
    <3>1. CASE Round(later)
      BY <1>9, <1>i, <1>j, <3>1, ListsRound DEF ValueRound, Round
    <3>2. CASE UNCHANGED rounds
      BY <1>9, <1>i, <3>2 DEF ValueRound, ListsOK
    <3>3. QED
      BY <1>9, <3>1, <3>2 DEF ValueRound
  <2>2. QED
    BY <1>9, <1>i, <2>1 DEF ValueRound
<1>10. CASE Skeleton
  <2>1. ListsOK'
    BY <1>10, <1>i DEF Skeleton, ListsOK
  <2>2. QED
    BY <1>10, <1>i, <2>1 DEF Skeleton
<1>11. CASE UNCHANGED vars
  BY <1>11, <1>i DEF ListsOK
<1>12. QED
  BY <1>1, <1>2, <1>3, <1>4, <1>5, <1>6, <1>7, <1>8, <1>9, <1>10, <1>11 DEF Next, Step, Resolved


----------------------------------------------------------------------------
(* The program stays what it is.                                           *)
LEMMA FilesKept ==
  ASSUME [Next]_vars
  PROVE  /\ UNCHANGED files /\ Items' = Items
         /\ \A p : Item(p)' = Item(p) /\ NamesOf(p)' = NamesOf(p)
                   /\ (IsConstant(p)' <=> IsConstant(p))
<1>1. UNCHANGED files
  BY DEF Next, Step, Resolved, vars, CheckGrammar, GrammarOver, Declare, NextFile, DeclareOver,
         InferConst, TypeRound, EvalConst, ValueRound, Skeleton
<1>2. QED
  BY <1>1 DEF Items, Item, NamesOf, IsConstant

(* An item's place.                                                        *)
LEMMA ItemPlace ==
  ASSUME files \in Programs, NEW p \in Items
  PROVE  /\ p = <<p[1], p[2]>> /\ p[1] \in DOMAIN files /\ p[2] \in DOMAIN files[p[1]].items
         /\ p[1] \in Nat /\ p[2] \in Nat /\ 1 <= p[1] /\ 1 <= p[2]
         /\ p[1] <= Len(files) /\ p[2] <= Len(files[p[1]].items)
<1>1. p = <<p[1], p[2]>> /\ p[1] \in DOMAIN files /\ p[2] \in DOMAIN files[p[1]].items
  BY DEF Items
<1>2. /\ Len(files) \in Nat /\ DOMAIN files = 1 .. Len(files)
      /\ Len(files[p[1]].items) \in Nat /\ DOMAIN files[p[1]].items = 1 .. Len(files[p[1]].items)
  BY <1>1, ItemType
<1>3. QED
  BY <1>1, <1>2

(* The passes go on in the order of the files, each from the first.        *)
LEMMA PassNext == TypeOK /\ PassInv /\ [Next]_vars => PassInv'
<1> SUFFICES ASSUME TypeOK, PassInv, [Next]_vars PROVE PassInv'
  OBVIOUS
<1> USE DEF PassInv, vars, rounds
<1>1. CASE CheckGrammar
  BY <1>1 DEF CheckGrammar
<1>2. CASE GrammarOver
  BY <1>2 DEF GrammarOver
<1>3. CASE Declare
  BY <1>3 DEF Declare
<1>4. CASE NextFile
  BY <1>4 DEF NextFile
<1>5. CASE DeclareOver
  BY <1>5 DEF DeclareOver
<1>6. CASE InferConst
  BY <1>6 DEF InferConst
<1>7. CASE TypeRound
  BY <1>7 DEF TypeRound
<1>8. CASE EvalConst
  BY <1>8 DEF EvalConst
<1>9. CASE ValueRound
  BY <1>9 DEF ValueRound
<1>10. CASE Skeleton
  BY <1>10 DEF Skeleton
<1>11. CASE UNCHANGED vars
  BY <1>11
<1>12. QED
  BY <1>1, <1>2, <1>3, <1>4, <1>5, <1>6, <1>7, <1>8, <1>9, <1>10, <1>11 DEF Next, Step, Resolved

(* Every step leaves the module grammar's report behind it.                *)
LEMMA GrammarNext == TypeOK /\ PassInv /\ GrammarInv /\ [Next]_vars => GrammarInv'
<1> SUFFICES ASSUME TypeOK, PassInv, GrammarInv, [Next]_vars PROVE GrammarInv'
  OBVIOUS
<1> DEFINE Passed(p) == p[1] < at[1] \/ stage # "grammar"
           Faulty(p) == Item(p).kind = "stmt" /\ files[p[1]].directive
<1>a. \A p \in Items : Passed(p) /\ Faulty(p) => diags["E5002"]["none"] > 0
  BY DEF GrammarInv
<1>b. UNCHANGED files /\ Items' = Items /\ \A p : (Faulty(p))' <=> Faulty(p)
  BY FilesKept
<1>c. diags["E5002"]["none"] \in Nat
  BY DEF TypeOK, Codes
<1>s. SUFFICES ASSUME NEW p \in Items, Passed(p)', Faulty(p) PROVE diags'["E5002"]["none"] > 0
  BY <1>b DEF GrammarInv
<1>d. Passed(p) /\ diags'["E5002"] = diags["E5002"] => diags'["E5002"]["none"] > 0
  BY <1>a, <1>s
<1>1. CASE CheckGrammar
  <2>1. CASE Passed(p)
    <3>1. diags["E5002"]["none"] > 0
      BY <1>a, <1>s, <2>1
    <3>2. diags'["E5002"]["none"] >= diags["E5002"]["none"] /\ diags'["E5002"]["none"] \in Nat
      BY <1>1, GrammarEffect DEF Codes
    <3>3. QED
      BY <1>c, <3>1, <3>2
  <2>2. CASE ~Passed(p)
    <3>1. p[1] = at[1]
      <4>1. p[1] \in Nat /\ at[1] \in Nat
        BY ItemPlace, ItemType DEF TypeOK
      <4>2. p[1] < at[1] + 1 /\ ~(p[1] < at[1])
        BY <1>1, <1>s, <2>2 DEF CheckGrammar
      <4>3. QED
        BY <4>1, <4>2
    <3>2. p[2] \in DOMAIN files[at[1]].items /\ files[at[1]].items[p[2]].kind = "stmt"
          /\ files[at[1]].directive
      BY <1>s, <3>1, ItemPlace DEF TypeOK, Item
    <3>3. QED
      BY <1>1, <3>2, GrammarEffect
  <2>3. QED
    BY <2>1, <2>2
<1>2. CASE GrammarOver
  <2>1. p[1] < at[1]
    <3>1. p[1] \in Nat /\ p[1] <= Len(files) /\ Len(files) \in Nat /\ at[1] \in Nat
      BY ItemPlace, ItemType DEF TypeOK
    <3>2. at[1] > Len(files)
      BY <1>2 DEF GrammarOver
    <3>3. QED
      BY <3>1, <3>2
  <2>2. QED
    BY <1>2, <1>d, <2>1 DEF GrammarOver
<1>3. CASE Declare
  BY <1>3, <1>d, DeclareEffect DEF Declare, Codes
<1>4. CASE NextFile
  BY <1>4, <1>d DEF NextFile
<1>5. CASE DeclareOver
  BY <1>5, <1>d DEF DeclareOver
<1>6. CASE InferConst
  BY <1>6, <1>d, InferEffect DEF InferConst, Codes
<1>7. CASE TypeRound
  <2>1. stage # "grammar" /\ diags'["E5002"] = diags["E5002"]
    BY <1>7, RoundEffect DEF TypeRound, Codes
  <2>2. QED
    BY <1>d, <2>1
<1>8. CASE EvalConst
  BY <1>8, <1>d DEF EvalConst
<1>9. CASE ValueRound
  BY <1>9, <1>d DEF ValueRound
<1>10. CASE Skeleton
  BY <1>10, <1>d DEF Skeleton
<1>11. CASE UNCHANGED vars
  BY <1>11, <1>d, <1>s DEF vars
<1>12. QED
  BY <1>1, <1>2, <1>3, <1>4, <1>5, <1>6, <1>7, <1>8, <1>9, <1>10, <1>11 DEF Next, Step, Resolved

----------------------------------------------------------------------------
(* The places among an item's names that are of one name.                  *)
Of(n) == {k \in DOMAIN NamesOf(at) : NamesOf(at)[k] = n}

(* Of a name's places in an item all are declared again, but the first     *)
(* when the name is new.                                                   *)
LEMMA AgainCount ==
  ASSUME TypeOK, at \in Items, NEW n
  PROVE  /\ IsFiniteSet(Of(n)) /\ Cardinality(Of(n)) \in Nat
         /\ (Of(n) = {} <=> Cardinality(Of(n)) = 0)
         /\ Cardinality(Again(n)) = IF n \in declared \/ Of(n) = {} THEN Cardinality(Of(n))
                                    ELSE Cardinality(Of(n)) - 1
<1>1. NamesOf(at) \in Seq(Names) /\ Len(NamesOf(at)) \in Nat
      /\ DOMAIN NamesOf(at) = 1 .. Len(NamesOf(at))
  BY NamesType DEF TypeOK
<1>2. IsFiniteSet(Of(n)) /\ Cardinality(Of(n)) \in Nat
  BY <1>1, PositionsFinite DEF Of
<1>3. Of(n) = {} <=> Cardinality(Of(n)) = 0
  BY <1>2, FS_EmptySet
<1>4. CASE n \in declared \/ Of(n) = {}
  <2>1. Again(n) = Of(n)
    BY <1>4 DEF Again, Of
  <2>2. QED
    BY <1>2, <1>3, <1>4, <2>1
<1>5. CASE ~(n \in declared \/ Of(n) = {})
  <2>1. Of(n) \subseteq Nat /\ Of(n) # {}
    BY <1>1, <1>5 DEF Of
  <2>2. PICK first \in Of(n) : \A k \in Of(n) : first <= k
    BY <2>1, LeastExists
  <2>3. Again(n) = Of(n) \ {first}
    <3>1. ASSUME NEW k \in Of(n), k # first PROVE k \in Again(n)
      <4>1. first \in 1 .. k - 1 /\ NamesOf(at)[first] = n
        BY <1>1, <2>2, <3>1 DEF Of
      <4>2. QED
        BY <4>1 DEF Again, Of
    <3>2. first \notin Again(n)
      <4>1. ASSUME NEW j \in 1 .. first - 1, NamesOf(at)[j] = n PROVE FALSE
        <5>1. j \in Of(n) /\ j < first
          BY <1>1, <4>1, <2>2 DEF Of
        <5>2. QED
          BY <2>1, <2>2, <5>1
      <4>2. QED
        BY <1>5, <4>1 DEF Again
    <3>3. Again(n) \subseteq Of(n)
      BY DEF Again, Of
    <3>4. QED
      BY <3>1, <3>2, <3>3
  <2>4. QED
    BY <1>2, <1>3, <1>5, <2>2, <2>3, FS_RemoveElement
<1>6. QED
  BY <1>2, <1>3, <1>4, <1>5

(* What register_flat_namespace has been through grows by the item it is   *)
(* at.                                                                     *)
LEMMA SeenNext ==
  ASSUME TypeOK, PassInv, [Next]_vars
  PROVE  /\ Declare => Seen' = Seen \cup {at} /\ at \notin Seen
         /\ ~Declare => Seen' = Seen
<1>a. UNCHANGED files /\ Items' = Items
  BY FilesKept
<1>b. /\ Len(files) \in Nat /\ at[1] \in Nat /\ at[2] \in Nat
      /\ \A p \in Items : /\ p[1] \in Nat /\ p[2] \in Nat /\ 1 <= p[1] /\ 1 <= p[2]
                          /\ p = <<p[1], p[2]>> /\ p[2] <= Len(files[p[1]].items)
  BY ItemPlace, ItemType DEF TypeOK
<1>1. CASE Declare
  <2>1. /\ stage = "declare" /\ stage' = "declare" /\ at'[1] = at[1] /\ at'[2] = at[2] + 1
        /\ at \in Items /\ at = <<at[1], at[2]>>
    BY <1>1, <1>b, AtItem DEF Declare
  <2>2. ASSUME NEW p \in Items
        PROVE  (p[1] < at[1] \/ (p[1] = at[1] /\ p[2] < at[2] + 1))
                 <=> (p[1] < at[1] \/ (p[1] = at[1] /\ p[2] < at[2])) \/ p = at
    BY <1>b, <2>1
  <2>3. Seen' = Seen \cup {at}
    BY <1>a, <2>1, <2>2 DEF Seen
  <2>4. at \notin Seen
    BY <1>b, <2>1 DEF Seen
  <2>5. QED
    BY <1>1, <2>3, <2>4
<1>2. CASE NextFile
  <2>1. /\ stage = "declare" /\ stage' = "declare" /\ at' = <<at[1] + 1, 1>>
        /\ at[2] > Len(files[at[1]].items) /\ at[1] <= Len(files)
    BY <1>2 DEF NextFile
  <2>n. ~Declare
    <3>1. Len(files[at[1]].items) \in Nat
      <4>1. at[1] \in 1 .. Len(files)
        BY <1>b, <2>1 DEF TypeOK
      <4>2. QED
        BY <4>1, ItemType DEF TypeOK
    <3>2. ~(at[2] <= Len(files[at[1]].items))
      BY <1>b, <2>1, <3>1
    <3>3. QED
      BY <3>2 DEF Declare
  <2>2. ASSUME NEW p \in Items
        PROVE  (p[1] < at[1] + 1 \/ (p[1] = at[1] + 1 /\ p[2] < 1))
                 <=> (p[1] < at[1] \/ (p[1] = at[1] /\ p[2] < at[2]))
    <3>1. p[1] = at[1] => p[2] < at[2]
      <4>1. p[1] = at[1] => p[2] <= Len(files[at[1]].items) /\ Len(files[at[1]].items) \in Nat
        BY <1>b, ItemPlace, ItemType DEF TypeOK
      <4>2. QED
        BY <1>b, <2>1, <4>1
    <3>2. QED
      BY <1>b, <3>1
  <2>3. QED
    BY <1>a, <2>1, <2>2, <2>n DEF Seen
<1>3. CASE GrammarOver
  <2>1. stage = "grammar" /\ stage' = "declare" /\ at' = <<1, 1>> /\ ~Declare
    BY <1>3 DEF GrammarOver, Declare, Start
  <2>2. \A p \in Items : ~(p[1] < 1 \/ (p[1] = 1 /\ p[2] < 1))
    BY <1>b
  <2>3. QED
    BY <1>a, <2>1, <2>2 DEF Seen
<1>4. CASE ~Declare /\ ~NextFile /\ ~GrammarOver
  <2>1. \/ UNCHANGED <<stage, at>>
        \/ stage = "grammar" /\ stage' = "grammar"
        \/ stage # "grammar" /\ stage' # "grammar" /\ UNCHANGED at
    BY <1>4 DEF Next, Step, Resolved, vars, CheckGrammar, DeclareOver, InferConst, TypeRound,
                EvalConst, ValueRound, Skeleton
  <2>2. QED
    BY <1>4, <1>a, <2>1 DEF Seen
<1>5. QED
  BY <1>1, <1>2, <1>3, <1>4

(* The namespace follows: a step that declares an item adds its names'     *)
(* places, and reports those that were taken.                              *)
LEMMA NamespaceNext == TypeOK /\ PassInv /\ NamespaceInv /\ [Next]_vars => NamespaceInv'
<1> SUFFICES ASSUME TypeOK, PassInv, NamespaceInv, [Next]_vars PROVE NamespaceInv'
  OBVIOUS
<1> DEFINE Places(n) == DeclaredBy(Seen, n)
           Count(n) == diags["E1001"][n]
           Named(n) == /\ IsFiniteSet(Places(n))
                       /\ n \in declared <=> n \in PreludeNames \/ Places(n) # {}
                       /\ Count(n) = IF n \in PreludeNames \/ Places(n) = {}
                                     THEN Cardinality(Places(n)) ELSE Cardinality(Places(n)) - 1
           Kept(p) == IsConstant(p) =>
                        Item(p) \in ToSet(candidates) \/ Count(Item(p).name) > 0
           Sane(c) == c.name \in declared /\ (c.form = "bare" => Len(c.of) = 1)
<1>a. /\ (\A n \in Names : Named(n)) /\ (\A p \in Seen : Kept(p))
      /\ \A c \in ToSet(candidates) : Sane(c)
  BY DEF NamespaceInv
<1>b. /\ UNCHANGED files /\ Items' = Items
      /\ \A p : Item(p)' = Item(p) /\ NamesOf(p)' = NamesOf(p) /\ (IsConstant(p)' <=> IsConstant(p))
  BY FilesKept
<1>s. SUFFICES /\ \A n \in Names : (Named(n))'
               /\ \A p \in Seen' : (Kept(p))'
               /\ \A c \in ToSet(candidates)' : (Sane(c))'
  BY DEF NamespaceInv
<1>c. "E1001" \in Codes /\ \A n \in Names \cup {"none"} : Count(n) \in Nat
  BY DEF TypeOK, Codes
<1>1. CASE Declare
  <2>1. at \in Items /\ at \notin Seen /\ Seen' = Seen \cup {at}
    BY <1>1, AtItem, SeenNext
  <2>2. /\ \A n \in Names \cup {"none"} : diags'["E1001"][n] = Count(n) + Cardinality(Again(n))
        /\ declared' = declared \cup {NamesOf(at)[k] : k \in DOMAIN NamesOf(at)}
    BY <1>1, DeclareEffect
  <2>3. /\ candidates' = IF IsConstant(at) /\ Item(at).name \notin declared
                           THEN Append(candidates, Item(at)) ELSE candidates
        /\ candidates \in Seq(Const)
    BY <1>1 DEF Declare, TypeOK
  <2>4. \A n : n \in declared' <=> n \in declared \/ Of(n) # {}
    BY <2>2 DEF Of
  <2>5. ToSet(candidates') = IF IsConstant(at) /\ Item(at).name \notin declared
                               THEN ToSet(candidates) \cup {Item(at)} ELSE ToSet(candidates)
    <3>1. IsConstant(at) => Item(at) \in Const
      BY <2>1, NamesType DEF TypeOK
    <3>2. CASE IsConstant(at) /\ Item(at).name \notin declared
      <4>1. ToSet(Append(candidates, Item(at))) = ToSet(candidates) \cup {Item(at)}
        BY <2>3, <3>1, <3>2, Appended
      <4>2. QED
        BY <2>3, <3>2, <4>1
    <3>3. CASE ~(IsConstant(at) /\ Item(at).name \notin declared)
      BY <2>3, <3>3
    <3>4. QED
      BY <3>2, <3>3
  <2>6. ASSUME NEW n \in Names PROVE (Named(n))'
    <3>1. /\ IsFiniteSet(Of(n)) /\ Cardinality(Of(n)) \in Nat
          /\ (Of(n) = {} <=> Cardinality(Of(n)) = 0)
          /\ Cardinality(Again(n)) = IF n \in declared \/ Of(n) = {} THEN Cardinality(Of(n))
                                     ELSE Cardinality(Of(n)) - 1
      BY <2>1, AgainCount
    <3>2. DeclaredBy(Seen', n) = Places(n) \cup ({at} \X Of(n))
      BY <2>1 DEF DeclaredBy, Of
    <3>3. (Places(n))' = DeclaredBy(Seen', n)
      BY <1>b DEF DeclaredBy
    <3>4. Places(n) \cap ({at} \X Of(n)) = {}
      BY <2>1 DEF DeclaredBy
    <3>5. IsFiniteSet({at} \X Of(n)) /\ Cardinality({at} \X Of(n)) = Cardinality(Of(n))
      <4>1. IsFiniteSet({at}) /\ Cardinality({at}) = 1
        BY FS_Singleton
      <4>2. QED
        BY <3>1, <4>1, FS_Product
    <3>6. IsFiniteSet(Places(n)) /\ Cardinality(Places(n)) \in Nat
          /\ (Places(n) = {} <=> Cardinality(Places(n)) = 0)
      BY <1>a, FS_CardinalityType, FS_EmptySet
    <3>7. /\ IsFiniteSet(DeclaredBy(Seen', n))
          /\ Cardinality(DeclaredBy(Seen', n)) = Cardinality(Places(n)) + Cardinality(Of(n))
      <4>1. Cardinality({}) = 0
        BY FS_EmptySet
      <4>2. QED
        BY <3>1, <3>2, <3>4, <3>5, <3>6, <4>1, FS_Union
    <3>8. DeclaredBy(Seen', n) = {} <=> Places(n) = {} /\ Of(n) = {}
      <4>1. {at} \X Of(n) = {} <=> Of(n) = {}
        <5>1. \A k \in Of(n) : <<at, k>> \in {at} \X Of(n)
          OBVIOUS
        <5>2. Of(n) = {} => {at} \X Of(n) = {}
          OBVIOUS
        <5>3. QED
          BY <5>1, <5>2
      <4> HIDE DEF Places
      <4>2. QED
        BY <3>2, <4>1, Zenon
    <3>9. /\ n \in declared <=> n \in PreludeNames \/ Places(n) # {}
          /\ Count(n) = IF n \in PreludeNames \/ Places(n) = {}
                        THEN Cardinality(Places(n)) ELSE Cardinality(Places(n)) - 1
      BY <1>a
    <3>10. n \in declared' <=> n \in PreludeNames \/ DeclaredBy(Seen', n) # {}
      BY <2>4, <3>8, <3>9
    <3>11. diags'["E1001"][n] = Count(n) + Cardinality(Again(n))
      BY <2>2
    <3> DEFINE places == Places(n)
               next == DeclaredBy(Seen', n)
    <3>12. diags'["E1001"][n] = IF n \in PreludeNames \/ next = {}
                                THEN Cardinality(next) ELSE Cardinality(next) - 1
      <4> HIDE DEF places, next
      <4>1. /\ places = {} <=> Cardinality(places) = 0
            /\ next = {} <=> places = {} /\ Of(n) = {}
            /\ Cardinality(next) = Cardinality(places) + Cardinality(Of(n))
            /\ Cardinality(places) \in Nat
            /\ n \in declared <=> n \in PreludeNames \/ places # {}
            /\ Count(n) = IF n \in PreludeNames \/ places = {}
                          THEN Cardinality(places) ELSE Cardinality(places) - 1
        BY <3>6, <3>7, <3>8, <3>9 DEF places, next
      <4>2. QED
        BY <3>1, <3>11, <4>1
    <3>13. QED
      BY <3>3, <3>7, <3>10, <3>12
  <2>7. ASSUME NEW p \in Seen' PROVE (Kept(p))'
    <3>1. SUFFICES ASSUME IsConstant(p), Item(p) \notin ToSet(candidates')
                   PROVE  diags'["E1001"][Item(p).name] > 0
      BY <1>b
    <3>2. Item(p) \in Const /\ Item(p).name \in Names /\ NamesOf(p) = <<Item(p).name>>
      BY <2>1, <3>1, NamesType DEF Seen, TypeOK, Const
    <3> DEFINE n == Item(p).name
    <3>3. diags'["E1001"][n] = Count(n) + Cardinality(Again(n)) /\ Count(n) \in Nat
      BY <1>c, <2>2, <3>2
    <3>4. /\ Cardinality(Of(n)) \in Nat /\ (Of(n) = {} <=> Cardinality(Of(n)) = 0)
          /\ Cardinality(Again(n)) = IF n \in declared \/ Of(n) = {} THEN Cardinality(Of(n))
                                     ELSE Cardinality(Of(n)) - 1
      BY <2>1, AgainCount
    <3>5. CASE p \in Seen
      <4>1. Count(n) > 0
        BY <1>a, <2>5, <3>1, <3>5
      <4>2. QED
        BY <3>3, <3>4, <4>1
    <3>6. CASE p = at
      <4>1. n \in declared
        BY <2>5, <3>1, <3>6
      <4>2. Of(n) # {}
        BY <3>2, <3>6 DEF Of
      <4>3. QED
        BY <3>3, <3>4, <4>1, <4>2
    <3>7. QED
      BY <2>1, <3>5, <3>6
  <2>8. ASSUME NEW c \in ToSet(candidates') PROVE (Sane(c))'
    <3>1. CASE c \in ToSet(candidates)
      BY <1>a, <2>2, <3>1
    <3>2. CASE c \notin ToSet(candidates)
      <4>1. c = Item(at) /\ IsConstant(at)
        BY <2>5, <3>2
      <4>2. c.name \in declared'
        <5>1. NamesOf(at) = <<c.name>>
          BY <2>1, <4>1, NamesType DEF TypeOK
        <5>2. QED
          BY <2>4, <5>1 DEF Of
      <4>3. c.form = "bare" => Len(c.of) = 1
        BY <2>1, <4>1, ItemType DEF TypeOK, IsConstant
      <4>4. QED
        BY <4>2, <4>3
    <3>3. QED
      BY <3>1, <3>2
  <2>9. QED
    BY <2>6, <2>7, <2>8
<1>2. CASE ~Declare
  <2>1. Seen' = Seen
    BY <1>2, SeenNext
  <2>2. UNCHANGED <<declared, candidates>> /\ diags'["E1001"] = diags["E1001"]
    <3>1. CASE CheckGrammar
      BY <3>1, GrammarEffect DEF CheckGrammar, Codes
    <3>2. CASE InferConst
      BY <3>2, InferEffect DEF InferConst, Codes
    <3>3. CASE TypeRound
      BY <3>3, RoundEffect DEF TypeRound, Codes
    <3>4. CASE ~CheckGrammar /\ ~InferConst /\ ~TypeRound
      BY <1>2, <3>4 DEF Next, Step, Resolved, vars, GrammarOver, NextFile, DeclareOver, EvalConst,
                        ValueRound, Skeleton
    <3>5. QED
      BY <3>1, <3>2, <3>3, <3>4
  <2>3. \A n : (Places(n))' = Places(n)
    BY <1>b, <2>1 DEF DeclaredBy
  <2>4. QED
    BY <1>a, <1>b, <2>1, <2>2, <2>3
<1>3. QED
  BY <1>1, <1>2

----------------------------------------------------------------------------
(* Every step keeps the rounds' lists free of repetitions.                 *)
LEMMA RoundNext == TypeOK /\ RoundInv /\ [Next]_vars => RoundInv'
<1> SUFFICES ASSUME TypeOK, RoundInv, [Next]_vars PROVE RoundInv'
  OBVIOUS
<1> USE DEF RoundInv, vars, rounds
<1>i. ListsOK
  BY DEF TypeOK, ListsOK
<1>1. CASE CheckGrammar
  BY <1>1 DEF CheckGrammar
<1>2. CASE GrammarOver
  BY <1>2 DEF GrammarOver
<1>3. CASE Declare
  BY <1>3 DEF Declare
<1>4. CASE NextFile
  BY <1>4 DEF NextFile
<1>5. CASE DeclareOver
  BY <1>5, <1>i, ListsRound DEF DeclareOver
<1>6. CASE InferConst
  <2>1. pending # <<>> /\ pending' = Tail(pending) /\ UNCHANGED <<candidates, stage>>
        /\ later' \in {later, Append(later, Head(pending))} /\ stage = "types"
    BY <1>6 DEF InferConst
  <2>2. QED
    BY <1>i, <2>1, ListsMove
<1>7. CASE TypeRound
  <2>1. /\ UNCHANGED candidates /\ (Round(candidates) \/ Round(later))
        /\ stage' \in {"types", "values"}
    BY <1>7 DEF TypeRound
  <2>2. QED
    BY <1>i, <2>1, ListsRound
<1>8. CASE EvalConst
  <2>1. pending # <<>> /\ pending' = Tail(pending) /\ UNCHANGED <<candidates, stage>>
        /\ later' \in {later, Append(later, Head(pending))} /\ stage = "values"
    BY <1>8 DEF EvalConst
  <2>2. QED
    BY <1>i, <2>1, ListsMove
<1>9. CASE ValueRound
  <2>1. CASE Round(later) /\ UNCHANGED stage
    BY <1>9, <1>i, <2>1, ListsRound DEF ValueRound
  <2>2. CASE stage' = "skeleton" /\ UNCHANGED rounds
    BY <1>9, <2>2 DEF ValueRound
  <2>3. QED
    BY <1>9, <2>1, <2>2 DEF ValueRound
<1>10. CASE Skeleton
  BY <1>10 DEF Skeleton
<1>11. CASE UNCHANGED vars
  BY <1>11
<1>12. QED
  BY <1>1, <1>2, <1>3, <1>4, <1>5, <1>6, <1>7, <1>8, <1>9, <1>10, <1>11 DEF Next, Step, Resolved

(* No two candidates have one name.                                        *)
LEMMA OneOfName ==
  ASSUME TypeOK, NEW c \in ToSet(candidates), NEW d \in ToSet(candidates), c.name = d.name
  PROVE  c = d /\ c \in Const
<1>1. PICK k \in DOMAIN candidates : candidates[k] = c
  BY DEF ToSet
<1>2. PICK l \in DOMAIN candidates : candidates[l] = d
  BY DEF ToSet
<1>3. k = l
  BY <1>1, <1>2 DEF TypeOK, IsInjective
<1>4. candidates[k] \in Const
  BY DEF TypeOK
<1>5. QED
  BY <1>1, <1>2, <1>3, <1>4

(* A constant that is left over after the rounds is counted once.          *)
LEMMA LeftOver ==
  ASSUME TypeOK, RoundInv, NEW n
  PROVE  Cardinality({k \in DOMAIN later : later[k].name = n})
           = IF \E c \in ToSet(later) : c.name = n THEN 1 ELSE 0
<1> DEFINE places == {k \in DOMAIN later : later[k].name = n}
<1>1. CASE \E c \in ToSet(later) : c.name = n
  <2>1. PICK k \in DOMAIN later : later[k].name = n
    BY <1>1 DEF ToSet
  <2>2. ASSUME NEW l \in places PROVE l = k
    <3>1. later[k] \in ToSet(candidates) /\ later[l] \in ToSet(candidates)
      BY <2>1 DEF TypeOK, ToSet
    <3>2. later[k] = later[l]
      BY <2>1, <3>1, OneOfName
    <3>3. QED
      BY <2>1, <3>2 DEF RoundInv, IsInjective
  <2>3. places = {k}
    BY <2>1, <2>2
  <2>4. QED
    BY <1>1, <2>3, FS_Singleton
<1>2. CASE ~\E c \in ToSet(later) : c.name = n
  <2>1. places = {}
    BY <1>2 DEF ToSet
  <2>2. QED
    BY <1>2, <2>1, FS_EmptySet
<1>3. QED
  BY <1>1, <1>2

(* Every step keeps count of the constants that are open, typed and        *)
(* reported.                                                               *)
LEMMA SettledNext == TypeOK /\ RoundInv /\ SettledInv /\ [Next]_vars => SettledInv'
<1> SUFFICES ASSUME TypeOK, RoundInv, SettledInv, [Next]_vars PROVE SettledInv'
  OBVIOUS
<1> DEFINE Wait(n) == types[n] = <<>> /\ diags["E10xx"][n] = 0 /\ diags["E1003"][n] = 0
           Settled(c) ==
             /\ diags["E1003"][c.name] = 0
             /\ c \in Open => types[c.name] = <<>> /\ diags["E10xx"][c.name] = 0
             /\ c \notin Open => diags["E10xx"][c.name] = IF types[c.name] = <<>> THEN 1 ELSE 0
           Told(c) == diags["E10xx"][c.name] + diags["E1003"][c.name]
                        = IF types[c.name] = <<>> THEN 1 ELSE 0
           Nameless(n) == \A c \in ToSet(candidates) : c.name # n
<1>a. /\ \A n \in Names : Nameless(n) => Wait(n)
      /\ stage \in {"grammar", "declare"} => \A n \in Names : Wait(n)
      /\ stage = "types" => \A c \in ToSet(candidates) : Settled(c)
      /\ stage \in {"values", "skeleton", "done"} => \A c \in ToSet(candidates) : Told(c)
  BY DEF SettledInv
<1>s. SUFFICES /\ \A n \in Names : Nameless(n)' => Wait(n)'
               /\ stage' \in {"grammar", "declare"} => \A n \in Names : Wait(n)'
               /\ stage' = "types" => \A c \in ToSet(candidates') : Settled(c)'
               /\ stage' \in {"values", "skeleton", "done"} =>
                    \A c \in ToSet(candidates') : Told(c)'
  BY DEF SettledInv
<1>l. ListsOK /\ ToSet(candidates) \subseteq Const /\ \A c \in ToSet(candidates) : c.name \in Names
  <2>1. ToSet(candidates) \subseteq Const
    BY DEF TypeOK, ToSet
  <2>2. QED
    BY <2>1 DEF TypeOK, ListsOK, Const
<1>n. "E10xx" \in Codes /\ "E1003" \in Codes
      /\ \A n \in Names : diags["E10xx"][n] \in Nat /\ diags["E1003"][n] \in Nat
  BY DEF TypeOK, Codes
<1>1. CASE CheckGrammar \/ GrammarOver \/ NextFile \/ Declare
  <2>1. stage \in {"grammar", "declare"} /\ stage' \in {"grammar", "declare"} /\ UNCHANGED types
    BY <1>1 DEF CheckGrammar, GrammarOver, NextFile, Declare
  <2>2. diags'["E10xx"] = diags["E10xx"] /\ diags'["E1003"] = diags["E1003"]
    <3>1. CASE CheckGrammar
      BY <1>n, <3>1, GrammarEffect
    <3>2. CASE Declare
      BY <1>n, <3>2, DeclareEffect
    <3>3. CASE GrammarOver \/ NextFile
      BY <3>3 DEF GrammarOver, NextFile
    <3>4. QED
      BY <1>1, <3>1, <3>2, <3>3
  <2>3. \A n \in Names : Wait(n)'
    BY <1>a, <2>1, <2>2
  <2>4. QED
    BY <2>1, <2>3
<1>2. CASE DeclareOver
  <2>1. /\ stage = "declare" /\ stage' = "types" /\ UNCHANGED <<types, diags, candidates>>
        /\ pending' = candidates
    BY <1>2 DEF DeclareOver, Round
  <2>2. \A c : c \in ToSet(candidates) => c \in Open'
    BY <2>1 DEF Open
  <2>3. \A c \in ToSet(candidates) : Wait(c.name)
    BY <1>a, <1>l, <2>1
  <2>4. \A c \in ToSet(candidates') : Settled(c)'
    BY <2>1, <2>2, <2>3
  <2>5. QED
    BY <1>a, <2>1, <2>4
<1>3. CASE InferConst
  <2> DEFINE head == Head(pending)
             result == Infer(head, types)
  <2>1. /\ stage = "types" /\ stage' = "types" /\ UNCHANGED candidates
        /\ pending # <<>> /\ pending' = Tail(pending)
        /\ later' = IF result.tag = "wait" THEN Append(later, head) ELSE later
    BY <1>3 DEF InferConst
  <2>2. /\ head \in Const /\ head \in ToSet(candidates) /\ head.name \in Names
        /\ \A n \in Names : diags'["E10xx"][n] = diags["E10xx"][n]
                              + IF result.tag = "error" /\ n = head.name THEN 1 ELSE 0
        /\ diags'["E1003"] = diags["E1003"]
        /\ \A n \in Names : types'[n] = IF n = head.name THEN result.type ELSE types[n]
    BY <1>3, <1>n, InferEffect
  <2>3. /\ result.tag \in {"ok", "wait", "error"} /\ (result.tag = "ok" <=> result.type # <<>>)
    BY <2>2, InferType DEF TypeOK, Sound
  <2>4. /\ head \notin ToSet(pending') /\ ToSet(pending) = {head} \cup ToSet(pending')
        /\ ToSet(later') = IF result.tag = "wait" THEN ToSet(later) \cup {head} ELSE ToSet(later)
        /\ head \notin ToSet(later)
    <3>1. later' \in {later, Append(later, head)}
      BY <2>1
    <3>2. /\ head \notin ToSet(pending') /\ ToSet(pending) = {head} \cup ToSet(pending')
      BY <1>l, <2>1, <3>1, ListsMove DEF RoundInv
    <3>3. head \notin ToSet(later)
      BY <1>l, <3>2 DEF ListsOK
    <3>4. ToSet(Append(later, head)) = ToSet(later) \cup {head}
      BY <1>l, <2>2, Appended DEF ListsOK
    <3>5. QED
      BY <2>1, <3>2, <3>3, <3>4
  <2> HIDE DEF head, result
  <2>5. head \in Open /\ (head \in Open' <=> result.tag = "wait")
        /\ \A c : c # head => (c \in Open' <=> c \in Open)
    BY <2>4 DEF Open
  <2>6. Wait(head.name)
    BY <1>a, <2>1, <2>2, <2>5
  <2>7. ASSUME NEW c, c = head PROVE Settled(c)'
    <3>1. diags'["E1003"][head.name] = 0 /\ types'[head.name] = result.type
          /\ diags'["E10xx"][head.name] = IF result.tag = "error" THEN 1 ELSE 0
      BY <2>2, <2>6
    <3>2. QED
      BY <2>3, <2>5, <2>7, <3>1
  <2>8. ASSUME NEW n \in Names, n # head.name
        PROVE  UNCHANGED <<types[n], diags["E10xx"][n], diags["E1003"][n]>>
    BY <1>n, <2>2, <2>8
  <2>9. ASSUME NEW c \in ToSet(candidates) PROVE Settled(c)'
    <3>1. CASE c = head
      BY <2>7, <3>1
    <3>2. CASE c # head
      <4>1. c.name # head.name /\ c.name \in Names
        BY <1>l, <2>2, <3>2, OneOfName
      <4>2. Settled(c)
        BY <1>a, <2>1
      <4>3. QED
        BY <2>5, <2>8, <3>2, <4>1, <4>2
    <3>3. QED
      BY <3>1, <3>2
  <2>10. ASSUME NEW n \in Names, Nameless(n) PROVE Wait(n)'
    BY <1>a, <2>2, <2>8, <2>10
  <2>11. QED
    BY <2>1, <2>9, <2>10
<1>4. CASE TypeRound
  <2>1. stage = "types" /\ UNCHANGED <<types, candidates>> /\ pending = <<>>
    BY <1>4 DEF TypeRound
  <2>2. \A c : c \in Open <=> c \in ToSet(later)
    BY <2>1 DEF Open, ToSet
  <2>3. CASE UNCHANGED <<stage, diags>> /\ Round(later)
    <3>1. \A c : c \in Open' <=> c \in Open
      BY <2>2, <2>3 DEF Round, Open, ToSet
    <3>2. \A c \in ToSet(candidates) : Settled(c)'
      BY <1>a, <2>1, <2>3, <3>1
    <3>3. QED
      BY <1>a, <2>1, <2>3, <3>2
  <2>4. CASE ~(UNCHANGED <<stage, diags>> /\ Round(later))
    <3>1. /\ stage' = "values"
          /\ \A n \in Names : diags'["E1003"][n] = diags["E1003"][n]
                                + Cardinality({k \in DOMAIN later : later[k].name = n})
          /\ diags'["E10xx"] = diags["E10xx"]
      BY <1>4, <1>n, <2>4, RoundEffect
    <3>2. \A n \in Names : diags'["E1003"][n] = diags["E1003"][n]
                             + IF \E c \in ToSet(later) : c.name = n THEN 1 ELSE 0
      BY <3>1, LeftOver
    <3>3. ASSUME NEW c \in ToSet(candidates) PROVE Told(c)'
      <4>1. Settled(c) /\ c.name \in Names
        BY <1>a, <1>l, <2>1
      <4>2. (\E d \in ToSet(later) : d.name = c.name) <=> c \in ToSet(later)
        BY <1>l, OneOfName DEF ListsOK
      <4>3. QED
        BY <2>1, <2>2, <3>1, <3>2, <4>1, <4>2
    <3>4. ASSUME NEW n \in Names, Nameless(n) PROVE Wait(n)'
      <4>1. ~\E c \in ToSet(later) : c.name = n
        BY <1>l, <3>4 DEF ListsOK
      <4>2. QED
        BY <1>a, <2>1, <3>1, <3>2, <3>4, <4>1
    <3>5. QED
      BY <2>1, <3>1, <3>3, <3>4
  <2>5. QED
    BY <2>3, <2>4
<1>5. CASE EvalConst \/ ValueRound \/ Skeleton
  <2>1. /\ stage \in {"values", "skeleton", "done"} /\ stage' \in {"values", "skeleton", "done"}
        /\ UNCHANGED <<types, diags, candidates>>
    BY <1>5 DEF EvalConst, ValueRound, Skeleton
  <2>2. QED
    BY <1>a, <2>1
<1>6. CASE UNCHANGED vars
  <2>1. UNCHANGED <<stage, types, diags, candidates, pending, later>>
    BY <1>6 DEF vars, rounds
  <2>2. QED
    BY <1>a, <2>1 DEF Open
<1>7. QED
  BY <1>1, <1>2, <1>3, <1>4, <1>5, <1>6 DEF Next, Step, Resolved

----------------------------------------------------------------------------
(* What is typed comes from a candidate.                                   *)
LEMMA TypedNames ==
  ASSUME TypeOK, SettledInv, NEW n \in Names, types[n] # <<>>
  PROVE  \E c \in ToSet(candidates) : c.name = n
BY DEF SettledInv

(* Every step keeps an order of the typed constants: the one that gets its *)
(* type comes last.                                                        *)
LEMMA OrderNext == TypeOK /\ NamespaceInv /\ SettledInv /\ OrderInv /\ [Next]_vars => OrderInv'
<1> SUFFICES ASSUME TypeOK, NamespaceInv, SettledInv, OrderInv, [Next]_vars PROVE OrderInv'
  OBVIOUS
<1>l. /\ ToSet(candidates) \subseteq Const
      /\ \A c \in ToSet(candidates) :
           c.name \in Names /\ c.of \in Seq(Elements) /\ c.form \in {"bare", "list", "set"}
  <2>1. ToSet(candidates) \subseteq Const
    BY DEF TypeOK, ToSet
  <2>2. QED
    BY <2>1 DEF Const
<1>o. PICK rank \in [Names -> Nat], top \in Nat : Ranked(rank, top)
  BY DEF OrderInv
<1>1. CASE Declare
  <2>1. /\ stage = "declare" /\ UNCHANGED types
    BY <1>1 DEF Declare
  <2>2. \A n \in Names : types'[n] = <<>>
    BY <2>1 DEF SettledInv
  <2>3. Ranked(rank, top)'
    BY <2>2 DEF Ranked, Typed
  <2>4. QED
    BY <2>3 DEF OrderInv
<1>2. CASE InferConst
  <2> DEFINE head == Head(pending)
             result == Infer(head, types)
  <2>1. /\ stage = "types" /\ UNCHANGED candidates
    BY <1>2 DEF InferConst
  <2>2. /\ head \in Const /\ head \in ToSet(candidates) /\ head.name \in Names
        /\ \A n \in Names : types'[n] = IF n = head.name THEN result.type ELSE types[n]
    BY <1>2, InferEffect
  <2>3. /\ result.tag = "ok" <=> result.type # <<>>
        /\ result.tag = "ok" =>
             /\ head.of # <<>>
             /\ \A k \in DOMAIN head.of : TypeOf(head.of[k], types) = TypeOf(head.of[1], types)
             /\ TypeOf(head.of[1], types) # <<>>
             /\ head.form = "set" => Key(TypeOf(head.of[1], types))
             /\ result.type = IF head.form = "bare" THEN TypeOf(head.of[1], types)
                              ELSE <<head.form>> \o TypeOf(head.of[1], types)
    BY <2>2, InferType DEF TypeOK, Sound
  <2>4. types[head.name] = <<>>
    <3>1. pending # <<>> /\ pending \in Seq(Const)
      BY <1>2 DEF InferConst, TypeOK
    <3>2. head \in Open
      BY <3>1, HeadAndTail DEF Open
    <3>3. QED
      BY <2>1, <2>2, <3>2 DEF SettledInv
  <2> HIDE DEF head, result
  (* What has a type is not the head's name, and keeps its type.           *)
  <2>5. \A e : e \in Elements /\ TypeOf(e, types) # <<>> =>
          e # head.name /\ TypeOf(e, types') = TypeOf(e, types)
    BY <2>2, <2>4, Parameters DEF TypeOf, Elements
  <2> DEFINE last == [rank EXCEPT ![head.name] = top]
  <2>6. /\ last \in [Names -> Nat] /\ top + 1 \in Nat
        /\ last[head.name] = top /\ \A n \in Names : n # head.name => last[n] = rank[n]
    BY <2>2
  <2>7. ASSUME NEW c \in ToSet(candidates), types'[c.name] # <<>>
        PROVE  /\ c.of # <<>>
               /\ \A k \in DOMAIN c.of :
                    TypeOf(c.of[k], types) = TypeOf(c.of[1], types) /\ c.of[k] \in Elements
               /\ TypeOf(c.of[1], types) # <<>> /\ 1 \in DOMAIN c.of
               /\ c.form = "set" => Key(TypeOf(c.of[1], types))
               /\ types'[c.name] = IF c.form = "bare" THEN TypeOf(c.of[1], types)
                                   ELSE <<c.form>> \o TypeOf(c.of[1], types)
    <3>1. c.name \in Names /\ c.of \in Seq(Elements)
      BY <1>l
    <3>2. c.of # <<>> => 1 \in DOMAIN c.of
      BY <3>1
    <3>3. \A k \in DOMAIN c.of : c.of[k] \in Elements
      BY <3>1
    <3>4. CASE c = head
      BY <2>2, <2>3, <2>7, <3>1, <3>2, <3>3, <3>4
    <3>5. CASE c # head
      <4>1. c.name # head.name
        BY <2>2, <3>5, OneOfName
      <4>2. types'[c.name] = types[c.name] /\ c.name \in Typed
        BY <2>2, <2>7, <3>1, <4>1 DEF Typed
      <4>3. WellTyped(c)
        BY <1>o, <4>2 DEF Ranked
      <4>4. QED
        BY <3>2, <3>3, <4>2, <4>3 DEF WellTyped
    <3>6. QED
      BY <3>4, <3>5
  <2>8. ASSUME NEW c \in ToSet(candidates), types'[c.name] # <<>>
        PROVE  /\ WellTyped(c)'
               /\ last[c.name] < top + 1
               /\ \A k \in DOMAIN c.of : c.of[k] \in Names => last[c.of[k]] < last[c.name]
    <3>1. \A k \in DOMAIN c.of : /\ TypeOf(c.of[k], types') = TypeOf(c.of[k], types)
                                 /\ c.of[k] # head.name /\ TypeOf(c.of[k], types) # <<>>
      BY <2>5, <2>7, <2>8
    <3>2. WellTyped(c)'
      BY <2>7, <2>8, <3>1 DEF WellTyped
    <3>3. ASSUME NEW k \in DOMAIN c.of, c.of[k] \in Names PROVE rank[c.of[k]] < top
      <4>1. types[c.of[k]] # <<>>
        BY <3>1, <3>3, Parameters DEF TypeOf
      <4>2. PICK d \in ToSet(candidates) : d.name = c.of[k]
        BY <3>3, <4>1, TypedNames
      <4>3. QED
        BY <1>o, <3>3, <4>1, <4>2 DEF Ranked, Typed
    <3>4. CASE c = head
      BY <2>2, <2>6, <3>1, <3>2, <3>3, <3>4
    <3>5. CASE c # head
      <4>1. c.name # head.name /\ c.name \in Names
        BY <1>l, <2>2, <3>5, OneOfName
      <4>2. c.name \in Typed
        BY <2>2, <2>8, <4>1 DEF Typed
      <4>3. /\ rank[c.name] < top /\ rank[c.name] \in Nat
            /\ \A k \in DOMAIN c.of : c.of[k] \in Names => rank[c.of[k]] < rank[c.name]
        BY <1>o, <4>1, <4>2 DEF Ranked
      <4>4. QED
        BY <2>6, <3>1, <3>2, <4>1, <4>3
    <3>6. QED
      BY <3>4, <3>5
  <2>9. ASSUME NEW r, NEW t, r = last, t = top + 1 PROVE Ranked(r, t)'
    BY <2>1, <2>8, <2>9 DEF Ranked, Typed
  <2>10. QED
    BY <2>6, <2>9 DEF OrderInv
<1>3. CASE ~Declare /\ ~InferConst
  <2>1. UNCHANGED <<candidates, types>>
    BY <1>3 DEF Next, Step, Resolved, vars, CheckGrammar, GrammarOver, NextFile, DeclareOver,
                TypeRound, EvalConst, ValueRound, Skeleton
  <2>2. Ranked(rank, top)'
    BY <1>o, <2>1 DEF Ranked, Typed, WellTyped
  <2>3. QED
    BY <2>2 DEF OrderInv
<1>4. QED
  BY <1>1, <1>2, <1>3

(* Every step keeps what has no type without one by its definition: a type *)
(* that is found is another's, and does not put a wrong constant right.    *)
LEMMA FixedNext == TypeOK /\ RoundInv /\ SettledInv /\ FixedInv /\ [Next]_vars => FixedInv'
<1> SUFFICES ASSUME TypeOK, RoundInv, SettledInv, FixedInv, [Next]_vars PROVE FixedInv'
  OBVIOUS
<1>l. ListsOK /\ ToSet(candidates) \subseteq Const /\ \A c \in ToSet(candidates) : c.name \in Names
  <2>1. ToSet(candidates) \subseteq Const
    BY DEF TypeOK, ToSet
  <2>2. QED
    BY <2>1 DEF TypeOK, ListsOK, Const
<1>1. CASE DeclareOver
  <2>1. stage' = "types" /\ UNCHANGED candidates /\ pending' = candidates /\ later' = <<>>
    BY <1>1 DEF DeclareOver, Round
  <2>2. ToSet(candidates') \subseteq Open' /\ ToSet(later') = {}
    BY <2>1 DEF Open, ToSet
  <2>3. QED
    BY <2>1, <2>2 DEF FixedInv
<1>2. CASE InferConst
  <2> DEFINE head == Head(pending)
             result == Infer(head, types)
  <2>1. /\ stage = "types" /\ stage' = "types" /\ UNCHANGED candidates
        /\ pending # <<>> /\ pending' = Tail(pending)
        /\ later' = IF result.tag = "wait" THEN Append(later, head) ELSE later
        /\ progressed' = (progressed \/ result.tag # "wait")
    BY <1>2 DEF InferConst
  <2>2. /\ head \in Const /\ head \in ToSet(candidates) /\ head.name \in Names
        /\ \A n \in Names : types'[n] = IF n = head.name THEN result.type ELSE types[n]
        /\ types' = [types EXCEPT ![head.name] = result.type]
    BY <1>2, InferEffect DEF InferConst
  <2>3. /\ result.tag \in {"ok", "wait", "error"} /\ (result.tag = "ok" <=> result.type # <<>>)
        /\ result.tag = "error" => head.of # <<>> /\ Wrong(head)
    BY <2>2, InferType, InferWrong DEF TypeOK
  <2>4. /\ ToSet(pending) = {head} \cup ToSet(pending') /\ head \notin ToSet(pending')
        /\ ToSet(later') = IF result.tag = "wait" THEN ToSet(later) \cup {head} ELSE ToSet(later)
        /\ head \notin ToSet(later)
    <3>1. later' \in {later, Append(later, head)}
      BY <2>1
    <3>2. /\ head \notin ToSet(pending') /\ ToSet(pending) = {head} \cup ToSet(pending')
      BY <1>l, <2>1, <3>1, ListsMove DEF RoundInv
    <3>3. head \notin ToSet(later)
      BY <1>l, <3>2 DEF ListsOK
    <3>4. ToSet(Append(later, head)) = ToSet(later) \cup {head}
      BY <1>l, <2>2, Appended DEF ListsOK
    <3>5. QED
      BY <2>1, <3>2, <3>3, <3>4
  <2> HIDE DEF head, result
  <2>5. types[head.name] = <<>>
    <3>1. head \in Open
      BY <2>4 DEF Open
    <3>2. QED
      BY <2>1, <2>2, <3>1 DEF SettledInv
  <2>6. \A e : TypeOf(e, types) # <<>> /\ e \in Elements => TypeOf(e, types') = TypeOf(e, types)
    BY <2>2, <2>5 DEF TypeOf, Elements
  <2>7. ASSUME NEW c \in ToSet(candidates), c.of # <<>>, Wrong(c) PROVE Wrong(c)'
    <3>1. \A k \in DOMAIN c.of : c.of[k] \in Elements
      BY <1>l DEF Const
    <3>2. 1 \in DOMAIN c.of
      BY <1>l, <2>7 DEF Const
    <3>3. QED
      BY <2>6, <2>7, <3>1, <3>2 DEF Wrong
  <2>8. ASSUME NEW c \in ToSet(candidates'), c \notin Open', types'[c.name] = <<>>
        PROVE  c.of # <<>> /\ Wrong(c)'
    <3>1. CASE c = head
      <4>1. result.tag = "error"
        BY <2>2, <2>3, <2>4, <2>8, <3>1 DEF Open
      <4>2. QED
        BY <2>2, <2>3, <2>7, <3>1, <4>1
    <3>2. CASE c # head
      <4>1. c \in ToSet(candidates) /\ c \notin Open
        BY <2>1, <2>4, <2>8, <3>2 DEF Open
      <4>2. c.name # head.name /\ types[c.name] = <<>>
        BY <1>l, <2>2, <2>8, <3>2, <4>1, OneOfName
      <4>3. QED
        BY <2>1, <2>7, <4>1, <4>2 DEF FixedInv
    <3>3. QED
      BY <3>1, <3>2
  <2>9. ASSUME ~progressed', NEW c \in ToSet(later') PROVE Infer(c, types').type = <<>>
    <3>1. ~progressed /\ result.tag = "wait" /\ result.type = <<>>
      BY <2>1, <2>3, <2>9
    <3>2. types' = types
      BY <2>2, <2>5, <3>1 DEF TypeOK
    <3>3. CASE c = head
      BY <3>1, <3>2, <3>3 DEF result
    <3>4. CASE c # head
      BY <2>1, <2>4, <2>9, <3>1, <3>2, <3>4 DEF FixedInv
    <3>5. QED
      BY <3>3, <3>4
  <2>10. QED
    BY <2>1, <2>8, <2>9 DEF FixedInv
<1>3. CASE TypeRound
  <2>1. stage = "types" /\ pending = <<>> /\ UNCHANGED <<types, candidates>>
    BY <1>3 DEF TypeRound
  <2>2. CASE Round(later) /\ UNCHANGED stage
    <3>1. (\A c : c \in Open' <=> c \in Open) /\ ToSet(later') = {}
      BY <2>1, <2>2 DEF Round, Open, ToSet
    <3>2. \A c : Wrong(c)' <=> Wrong(c)
      BY <2>1 DEF Wrong
    <3>3. QED
      BY <2>1, <2>2, <3>1, <3>2 DEF FixedInv
  <2>3. CASE ~(Round(later) /\ UNCHANGED stage)
    <3>1. ~(later # <<>> /\ progressed) /\ stage' = "values"
      BY <1>3, <2>3 DEF TypeRound
    <3>2. ASSUME NEW c \in ToSet(candidates), types[c.name] = <<>> PROVE Infer(c, types).type = <<>>
      <4>1. CASE c \in ToSet(later)
        <5>1. later # <<>>
          BY <4>1 DEF ToSet
        <5>2. QED
          BY <2>1, <3>1, <4>1, <5>1 DEF FixedInv
      <4>2. CASE c \notin ToSet(later)
        <5>1. c \notin Open
          BY <2>1, <4>2 DEF Open, ToSet
        <5>2. QED
          BY <1>l, <2>1, <3>2, <5>1, InferWrong DEF FixedInv
      <4>3. QED
        BY <4>1, <4>2
    <3>3. QED
      BY <2>1, <3>1, <3>2 DEF FixedInv
  <2>4. QED
    BY <2>2, <2>3
<1>4. CASE ~DeclareOver /\ ~InferConst /\ ~TypeRound
  <2>1. \/ stage' \in {"grammar", "declare"}
        \/ /\ stage = "types" /\ stage' = "types"
           /\ UNCHANGED <<types, candidates, pending, later, progressed>>
        \/ /\ stage \in {"values", "skeleton", "done"} /\ stage' \in {"values", "skeleton", "done"}
           /\ UNCHANGED <<types, candidates>>
    BY <1>4 DEF TypeOK, Next, Step, Resolved, vars, rounds, CheckGrammar, GrammarOver, Declare,
                NextFile, EvalConst, ValueRound, Skeleton
  <2>2. UNCHANGED types => \A c : Wrong(c)' <=> Wrong(c)
    BY DEF Wrong
  <2>3. UNCHANGED <<pending, later>> => Open' = Open
    BY DEF Open
  <2>4. QED
    BY <2>1, <2>2, <2>3 DEF FixedInv
<1>5. QED
  BY <1>1, <1>2, <1>3, <1>4

(* Every step keeps the entries what the skeleton makes them.              *)
LEMMA EntriesNext == EntriesInv /\ [Next]_vars => EntriesInv'
<1> SUFFICES ASSUME EntriesInv, [Next]_vars PROVE EntriesInv'
  OBVIOUS
<1>1. Merged' = Merged
  <2>1. UNCHANGED files
    BY FilesKept
  <2>2. QED
    BY <2>1 DEF Merged, DeclPlaces, Given
<1>2. CASE Skeleton
  <2>1. stage = "skeleton" /\ stage' = "done"
    BY <1>2 DEF Skeleton
  <2>2. decls = Given
    BY <2>1 DEF EntriesInv
  <2>3. decls' = Merged
    BY <1>2, <2>2 DEF Skeleton, Merged
  <2>4. QED
    BY <1>1, <2>1, <2>3 DEF EntriesInv
<1>3. CASE ~Skeleton
  <2>1. UNCHANGED decls /\ (stage = "done" <=> stage' = "done")
    BY <1>3 DEF Next, Step, Resolved, vars, CheckGrammar, GrammarOver, Declare, NextFile,
       DeclareOver,
                InferConst, TypeRound, EvalConst, ValueRound
  <2>2. Given' = Given
    BY DEF Given
  <2>3. QED
    BY <1>1, <2>1, <2>2 DEF EntriesInv
<1>4. QED
  BY <1>2, <1>3

(* What a value says agrees with what a type says.                         *)
Agrees(value, type) == value \in {"none", IF Key(type) THEN "key" ELSE "other"}

(* The value of a constant that has its type agrees with it, and is there  *)
(* when its elements' values are.                                          *)
LEMMA ValueAgrees ==
  ASSUME TypeOK, NEW c \in Const, c.form = "bare" => Len(c.of) = 1, WellTyped(c),
         \A n \in Typed : Agrees(consts[n], types[n])
  PROVE  /\ Agrees(Value(c, consts), types[c.name])
         /\ (\A k \in DOMAIN c.of : ValueOf(c.of[k], consts) # "none") => Value(c, consts) # "none"
<1> DEFINE part(k) == ValueOf(c.of[k], consts)
           type == TypeOf(c.of[1], types)
           parts == {part(k) : k \in DOMAIN c.of}
<1>1. c.of \in Seq(Elements) /\ c.form \in {"bare", "list", "set"} /\ c.of # <<>>
  BY DEF Const, WellTyped
<1>2. 1 \in DOMAIN c.of
  BY <1>1
<1>3. ASSUME NEW k \in DOMAIN c.of PROVE Agrees(part(k), type)
  <2>1. TypeOf(c.of[k], types) = type /\ type # <<>> /\ c.of[k] \in Elements
    BY <1>1 DEF WellTyped
  <2>2. CASE c.of[k] \in Literals
    <3>1. CASE c.of[k] = "int"
      BY <2>1, <2>2, <3>1 DEF TypeOf, ValueOf, Agrees, Key
    <3>2. CASE c.of[k] = "float"
      <4>1. type = <<"float">> /\ part(k) = "other"
        BY <2>1, <2>2, <3>2 DEF TypeOf, ValueOf
      <4>2. <<"float">> # <<"int">>
        OBVIOUS
      <4>3. QED
        BY <4>1, <4>2 DEF Agrees, Key
    <3>3. QED
      BY <2>2, <3>1, <3>2 DEF Literals
  <2>3. CASE c.of[k] \notin Literals
    <3>1. c.of[k] \in Names /\ type = types[c.of[k]] /\ part(k) = consts[c.of[k]]
      BY <2>1, <2>3 DEF TypeOf, ValueOf, Elements, Literals
    <3>2. c.of[k] \in Typed
      BY <2>1, <3>1 DEF Typed
    <3>3. QED
      BY <3>1, <3>2
  <2>4. QED
    BY <2>2, <2>3
<1>4. /\ c.form = "set" => Key(type)
      /\ types[c.name] = IF c.form = "bare" THEN type ELSE <<c.form>> \o type
  BY DEF WellTyped
<1>5. c.form # "bare" => ~Key(types[c.name])
  <2>1. type \in Seq({"list", "set"} \cup Literals)
    <3>1. \A e \in Literals : <<e>> \in Seq({"list", "set"} \cup Literals)
      OBVIOUS
    <3>2. c.of[1] \in Elements
      BY <1>1, <1>2
    <3>3. QED
      BY <3>1, <3>2 DEF TypeOf, Elements, TypeOK
  <2> HIDE DEF type
  <2>2. c.form # "bare" => (<<c.form>> \o type)[1] = c.form /\ c.form # "int"
    BY <1>1, <2>1
  <2>3. <<"int">>[1] = "int"
    OBVIOUS
  <2>4. QED
    BY <1>4, <2>2, <2>3 DEF Key
<1>6. Value(c, consts) =
        IF "none" \in parts \/ (c.form = "set" /\ "other" \in parts) THEN "none"
        ELSE IF c.form = "bare" THEN part(1) ELSE "other"
  BY DEF Value
<1> HIDE DEF part, type, parts
<1>7. Agrees(Value(c, consts), types[c.name])
  <2>1. c.form = "bare" => Agrees(part(1), types[c.name])
    BY <1>2, <1>3, <1>4
  <2>2. QED
    BY <1>5, <1>6, <2>1 DEF Agrees
<1>8. ASSUME \A k \in DOMAIN c.of : part(k) # "none" PROVE Value(c, consts) # "none"
  <2>1. "none" \notin parts /\ part(1) # "none"
    BY <1>2, <1>8 DEF parts
  <2>2. c.form = "set" => "other" \notin parts
    BY <1>3, <1>4, <1>8 DEF parts, Agrees
  <2>3. QED
    BY <1>6, <2>1, <2>2
<1>9. QED
  BY <1>7, <1>8 DEF part

(* Every step keeps the values in agreement with the types.                *)
LEMMA ValuesNext ==
  TypeOK /\ NamespaceInv /\ RoundInv /\ OrderInv /\ ValuesInv /\ [Next]_vars => ValuesInv'
<1> SUFFICES ASSUME TypeOK, NamespaceInv, RoundInv, OrderInv, ValuesInv, [Next]_vars
             PROVE ValuesInv'
  OBVIOUS
<1> DEFINE Late == stage \in {"values", "skeleton", "done"}
<1>a. /\ ~Late => \A n \in Names : consts[n] = "none"
      /\ \A n \in Typed : Agrees(consts[n], types[n])
      /\ Late => \A c \in ToSet(candidates) : c \notin Open <=> consts[c.name] # "none"
      /\ stage = "values" /\ ~progressed => \A c \in ToSet(later) : Value(c, consts) = "none"
      /\ stage \in {"skeleton", "done"} => \A c \in ToSet(later) : Value(c, consts) = "none"
  BY DEF ValuesInv, Agrees
<1>s. SUFFICES
      /\ ~Late' => \A n \in Names : consts'[n] = "none"
      /\ \A n \in Typed' : Agrees(consts'[n], types'[n])
      /\ Late' => \A c \in ToSet(candidates') : c \notin Open' <=> consts'[c.name] # "none"
      /\ stage' = "values" /\ ~progressed' => \A c \in ToSet(later') : Value(c, consts') = "none"
      /\ stage' \in {"skeleton", "done"} => \A c \in ToSet(later') : Value(c, consts') = "none"
  BY DEF ValuesInv, Agrees
<1>l. ListsOK /\ IsInjective(pending) /\ IsInjective(later)
      /\ ToSet(candidates) \subseteq Const /\ \A c \in ToSet(candidates) : c.name \in Names
  <2>1. ToSet(candidates) \subseteq Const
    BY DEF TypeOK, ToSet
  <2>2. QED
    BY <2>1 DEF TypeOK, ListsOK, Const, RoundInv
<1>1. CASE ~Late /\ ~Late'
  <2>1. UNCHANGED consts /\ stage' \notin {"values", "skeleton", "done"}
    BY <1>1 DEF Next, Step, Resolved, vars, CheckGrammar, GrammarOver, Declare, NextFile,
       DeclareOver,
                InferConst, TypeRound, EvalConst, ValueRound, Skeleton
  <2>2. \A n \in Names : consts'[n] = "none"
    BY <1>1, <1>a, <2>1
  <2>3. \A n \in Typed' : Agrees(consts'[n], types'[n])
    BY <2>2 DEF Typed, Agrees
  <2>4. QED
    BY <1>1, <2>1, <2>2, <2>3
<1>2. CASE ~Late /\ Late'
  <2>1. TypeRound
    BY <1>2 DEF Next, Step, Resolved, vars, CheckGrammar, GrammarOver, Declare, NextFile,
       DeclareOver,
                InferConst, EvalConst, ValueRound, Skeleton
  <2>2. /\ UNCHANGED <<consts, types, candidates>> /\ stage' = "values"
        /\ pending' = candidates /\ later' = <<>>
    BY <1>2, <2>1 DEF TypeRound, Round
  <2>3. ToSet(candidates') \subseteq Open' /\ ToSet(later') = {}
    BY <2>2 DEF Open, ToSet
  <2>4. Typed' = Typed
    BY <2>2 DEF Typed
  <2>5. QED
    BY <1>2, <1>a, <1>l, <2>2, <2>3, <2>4
<1>3. CASE EvalConst
  <2> DEFINE head == Head(pending)
             value == Value(head, consts)
  <2>1. /\ stage = "values" /\ stage' = "values" /\ UNCHANGED <<candidates, types>>
        /\ pending # <<>> /\ pending' = Tail(pending)
        /\ later' = IF value = "none" THEN Append(later, head) ELSE later
        /\ consts' = [consts EXCEPT ![head.name] = value]
        /\ progressed' = (progressed \/ value # "none")
    BY <1>3 DEF EvalConst
  <2>2. /\ head \notin ToSet(pending') /\ ToSet(pending) = {head} \cup ToSet(pending')
        /\ ToSet(later') = IF value = "none" THEN ToSet(later) \cup {head} ELSE ToSet(later)
        /\ head \notin ToSet(later) /\ head \in ToSet(candidates) /\ head \in Const
        /\ head.name \in Names
    <3>1. later' \in {later, Append(later, head)}
      BY <2>1
    <3>2. /\ head \notin ToSet(pending') /\ ToSet(pending) = {head} \cup ToSet(pending')
      BY <1>l, <2>1, <3>1, ListsMove
    <3>3. head \notin ToSet(later) /\ head \in ToSet(candidates)
      BY <1>l, <3>2 DEF ListsOK
    <3>4. head \in Const /\ head.name \in Names
      BY <1>l, <3>3
    <3>5. ToSet(Append(later, head)) = ToSet(later) \cup {head}
      BY <1>l, <3>4, Appended DEF ListsOK
    <3>6. QED
      BY <2>1, <3>2, <3>3, <3>4, <3>5
  <2>3. types[head.name] # <<>> => Agrees(value, types[head.name])
    <3>1. ASSUME types[head.name] # <<>> PROVE WellTyped(head)
      BY <2>2, <3>1 DEF OrderInv, Ranked, Typed
    <3>2. head.form = "bare" => Len(head.of) = 1
      BY <2>2 DEF NamespaceInv
    <3>3. QED
      BY <1>a, <2>2, <3>1, <3>2, ValueAgrees
  <2> HIDE DEF head, value
  <2>4. head \in Open /\ (head \in Open' <=> value = "none")
        /\ \A c : c # head => (c \in Open' <=> c \in Open)
    BY <2>2 DEF Open
  <2>5. /\ consts'[head.name] = value
        /\ \A n \in Names : n # head.name => consts'[n] = consts[n]
    BY <2>1, <2>2 DEF TypeOK
  <2>6. \A n \in Typed' : Agrees(consts'[n], types'[n])
    BY <1>a, <2>1, <2>3, <2>5 DEF Typed
  <2>7. ASSUME NEW c \in ToSet(candidates') PROVE c \notin Open' <=> consts'[c.name] # "none"
    <3>1. CASE c = head
      BY <2>4, <2>5, <3>1
    <3>2. CASE c # head
      <4>1. c \in ToSet(candidates) /\ c.name # head.name /\ c.name \in Names
        BY <1>l, <2>1, <2>2, <3>2, OneOfName
      <4>2. c \notin Open <=> consts[c.name] # "none"
        BY <1>a, <2>1, <4>1
      <4>3. QED
        BY <2>4, <2>5, <3>2, <4>1, <4>2
    <3>3. QED
      BY <3>1, <3>2
  <2>8. ASSUME ~progressed', NEW c \in ToSet(later') PROVE Value(c, consts') = "none"
    <3>1. ~progressed /\ value = "none"
      BY <2>1, <2>8
    <3>2. consts' = consts
      <4>1. consts[head.name] = "none"
        BY <1>a, <2>1, <2>2, <2>4
      <4>2. QED
        BY <2>1, <3>1, <4>1 DEF TypeOK
    <3>3. CASE c = head
      BY <3>1, <3>2, <3>3 DEF value
    <3>4. CASE c # head
      BY <1>a, <2>1, <2>2, <2>8, <3>1, <3>2, <3>4
    <3>5. QED
      BY <3>3, <3>4
  <2>9. QED
    BY <2>1, <2>6, <2>7, <2>8
<1>4. CASE ValueRound
  <2>1. /\ stage = "values" /\ pending = <<>> /\ UNCHANGED <<candidates, types, consts>>
    BY <1>4 DEF ValueRound
  <2>2. Typed' = Typed
    BY <2>1 DEF Typed
  <2>3. CASE Round(later) /\ UNCHANGED stage
    <3>1. (\A c : c \in Open' <=> c \in Open) /\ ToSet(later') = {}
      BY <2>1, <2>3 DEF Round, Open, ToSet
    <3>2. QED
      BY <1>a, <2>1, <2>2, <2>3, <3>1
  <2>4. CASE ~(Round(later) /\ UNCHANGED stage)
    <3>1. ~(later # <<>> /\ progressed) /\ stage' = "skeleton" /\ UNCHANGED rounds
      BY <1>4, <2>4 DEF ValueRound
    <3>2. \A c \in ToSet(later) : Value(c, consts) = "none"
      <4>1. later = <<>> => ToSet(later) = {}
        BY DEF ToSet
      <4>2. QED
        BY <1>a, <2>1, <3>1, <4>1
    <3>3. \A c : c \in Open' <=> c \in Open
      BY <3>1 DEF rounds, Open
    <3>4. QED
      BY <1>a, <2>1, <2>2, <3>1, <3>2, <3>3 DEF rounds
  <2>5. QED
    BY <2>3, <2>4
<1>5. CASE Late /\ ~EvalConst /\ ~ValueRound
  <2>1. /\ UNCHANGED <<candidates, types, consts, pending, later, progressed>>
        /\ \/ UNCHANGED stage
           \/ stage = "skeleton" /\ stage' = "done"
    BY <1>5 DEF Next, Step, Resolved, vars, rounds, CheckGrammar, GrammarOver, Declare, NextFile,
                DeclareOver, InferConst, TypeRound, Skeleton
  <2>2. Typed' = Typed /\ Open' = Open
    BY <2>1 DEF Typed, Open
  <2>3. QED
    BY <1>5, <1>a, <2>1, <2>2
<1>6. QED
  <2>1. EvalConst \/ ValueRound => Late
    BY DEF EvalConst, ValueRound
  <2>2. QED
    BY <1>1, <1>2, <1>3, <1>4, <1>5, <2>1

----------------------------------------------------------------------------
(* Before the first module is loaded the strengthened invariant holds.     *)
LEMMA InvInit == Init => IInv
<1> SUFFICES ASSUME Init PROVE IInv
  OBVIOUS
<1> USE DEF Init
<1>1. /\ candidates = <<>> /\ pending = <<>> /\ later = <<>>
      /\ ToSet(candidates) = {} /\ ToSet(pending) = {} /\ ToSet(later) = {}
  BY DEF ToSet
<1>2. files \in Programs /\ at = <<1, 1>> /\ Len(files) \in Nat
  BY ItemType DEF Start
<1>3. TypeOK
  <2>1. at \in (1 .. Len(files) + 1) \X (Nat \ {0})
    BY <1>2
  <2>2. declared \in SUBSET Names
    BY Parameters DEF PreludeNames
  <2>3. IsInjective([k \in DOMAIN candidates |-> candidates[k].name])
    <3>1. DOMAIN candidates = {}
      BY <1>1
    <3>2. QED
      BY <3>1 DEF IsInjective
  <2>4. types \in [Names -> Seq({"list", "set"} \cup Literals)]
    BY DEF Literals
  <2>5. diags \in [Codes -> [Names \cup {"none"} -> Nat]]
    OBVIOUS
  <2>6. \A list \in {candidates, pending, later} : list \in Seq(Const)
    <3>1. <<>> \in Seq(Const)
      OBVIOUS
    <3>2. QED
      BY <1>1, <3>1
  <2>7. QED
    BY <1>1, <2>1, <2>2, <2>3, <2>4, <2>5, <2>6 DEF TypeOK
<1>4. PassInv
  BY <1>2 DEF PassInv
<1>5. GrammarInv
  BY <1>2, ItemPlace DEF GrammarInv
<1>6. NamespaceInv
  <2>1. Seen = {} /\ \A n : DeclaredBy(Seen, n) = {}
    BY DEF Seen, DeclaredBy
  <2>2. IsFiniteSet({}) /\ Cardinality({}) = 0
    BY FS_EmptySet
  <2>3. \A n \in Names : diags["E1001"][n] = 0
    BY DEF Codes
  <2>4. QED
    BY <1>1, <2>1, <2>2, <2>3 DEF NamespaceInv
<1>7. RoundInv
  BY <1>1 DEF RoundInv, IsInjective
<1>8. SettledInv
  BY DEF SettledInv, Codes
<1>9. OrderInv
  <2>1. [n \in Names |-> 0] \in [Names -> Nat]
    OBVIOUS
  <2>2. Ranked([n \in Names |-> 0], 0)
    BY <1>1 DEF Ranked
  <2>3. QED
    BY <2>1, <2>2 DEF OrderInv
<1>10. ValuesInv
  BY <1>1 DEF ValuesInv, Typed
<1>11. EntriesInv
  BY DEF EntriesInv, Given
<1>12. FixedInv
  BY <1>1 DEF FixedInv
<1>13. QED
  BY <1>3, <1>4, <1>5, <1>6, <1>7, <1>8, <1>9, <1>10, <1>11, <1>12 DEF IInv

(* The inductive invariant: where the passes are, what they reported and   *)
(* declared so far, and how far the two fixpoints have come.               *)
THEOREM Invariant == Spec => []IInv
<1>1. IInv /\ [Next]_vars => IInv'
  BY TypeNext, PassNext, GrammarNext, NamespaceNext, RoundNext, SettledNext, OrderNext, FixedNext,
     ValuesNext, EntriesNext DEF IInv
<1>2. QED
  BY InvInit, <1>1, PTL DEF Spec

(* Every variable has its type, whatever the modules are.                  *)
THEOREM TypeCorrect == Spec => []TypeOK
<1>1. IInv => TypeOK
  BY DEF IInv
<1>2. QED
  BY Invariant, <1>1, PTL

----------------------------------------------------------------------------
(* When resolution is done every item has been seen.                       *)
LEMMA AllSeen ==
  ASSUME IInv, stage = "done"
  PROVE  Seen = Items
<1>1. TypeOK /\ at[1] > Len(files)
  BY DEF IInv, PassInv
<1>2. \A p \in Items : p[1] < at[1]
  <2>1. \A p \in Items : p[1] \in Nat /\ p[1] <= Len(files)
    BY <1>1, ItemPlace DEF TypeOK
  <2>2. Len(files) \in Nat /\ at[1] \in Nat
    BY <1>1, ItemType DEF TypeOK
  <2>3. QED
    BY <1>1, <2>1, <2>2
<1>3. QED
  BY <1>2 DEF Seen

(* A constant that has a type has its value: of those without one, the     *)
(* first in the order of the types could have been evaluated in the last   *)
(* round.                                                                  *)
LEMMA TypedHasValue ==
  ASSUME IInv, stage = "done", NEW n \in Names, types[n] # <<>>
  PROVE  consts[n] # "none"
<1>i. TypeOK /\ NamespaceInv /\ RoundInv /\ SettledInv /\ ValuesInv
  BY DEF IInv
<1>1. PICK rank \in [Names -> Nat], top \in Nat : Ranked(rank, top)
  BY DEF IInv, OrderInv
<1> DEFINE Missing == {m \in Names : types[m] # <<>> /\ consts[m] = "none"}
<1>2. SUFFICES ASSUME Missing # {} PROVE FALSE
  OBVIOUS
<1>3. PICK m \in Missing : \A o \in Missing : rank[m] <= rank[o]
  <2>1. {rank[o] : o \in Missing} \subseteq Nat /\ {rank[o] : o \in Missing} # {}
    BY <1>2
  <2>2. PICK r \in {rank[o] : o \in Missing} : \A s \in {rank[o] : o \in Missing} : r <= s
    BY <2>1, LeastExists
  <2>3. QED
    BY <2>2
<1>4. PICK c \in ToSet(candidates) : c.name = m
  BY <1>3, <1>i, TypedNames
<1>5. c \in Const /\ c.of \in Seq(Elements) /\ (c.form = "bare" => Len(c.of) = 1)
  BY <1>4, <1>i, OneOfName DEF NamespaceInv, Const
<1>6. /\ WellTyped(c)
      /\ \A k \in DOMAIN c.of : c.of[k] \in Names => rank[c.of[k]] < rank[m]
  BY <1>1, <1>3, <1>4 DEF Ranked, Typed
<1>7. Value(c, consts) = "none"
  <2>1. c \in Open
    BY <1>3, <1>4, <1>i DEF ValuesInv
  <2>2. ToSet(pending) = {}
    BY <1>i DEF RoundInv, ToSet
  <2>3. QED
    BY <1>i, <2>1, <2>2 DEF ValuesInv, Open
<1>8. ASSUME NEW k \in DOMAIN c.of PROVE ValueOf(c.of[k], consts) # "none"
  <2>1. c.of[k] \in Elements /\ TypeOf(c.of[k], types) # <<>>
    BY <1>5, <1>6 DEF WellTyped
  <2>2. CASE c.of[k] \in Literals
    BY <2>2 DEF Literals, ValueOf
  <2>3. CASE c.of[k] \notin Literals
    <3>1. c.of[k] \in Names /\ types[c.of[k]] # <<>>
      BY <2>1, <2>3 DEF TypeOf, Elements
    <3>2. rank[c.of[k]] < rank[m] /\ rank[c.of[k]] \in Nat /\ rank[m] \in Nat
      BY <1>3, <1>6, <3>1
    <3>3. c.of[k] \notin Missing
      BY <1>3, <3>2
    <3>4. QED
      BY <2>3, <3>1, <3>3 DEF ValueOf, Literals
  <2>4. QED
    BY <2>2, <2>3
<1>9. \A o \in Typed : Agrees(consts[o], types[o])
  BY <1>i DEF ValuesInv, Agrees
<1>10. QED
  BY <1>5, <1>6, <1>7, <1>8, <1>9, <1>i, ValueAgrees

(* The types that validate_module_const_types ends with are those the      *)
(* definitions give the constants.                                         *)
LEMMA TypesExplained ==
  ASSUME IInv, stage \in {"values", "skeleton", "done"}
  PROVE  Explains(types)
<1>i. TypeOK /\ SettledInv /\ FixedInv
  BY DEF IInv
<1>1. PICK rank \in [Names -> Nat], top \in Nat : Ranked(rank, top)
  BY DEF IInv, OrderInv
<1>2. \A c \in ToSet(candidates) : c \in Const /\ c.name \in Names /\ c.of \in Seq(Elements)
  BY <1>i, OneOfName DEF Const
<1>3. ASSUME NEW c \in ToSet(candidates) PROVE types[c.name] = Infer(c, types).type
  <2>1. CASE types[c.name] = <<>>
    BY <1>i, <2>1 DEF FixedInv
  <2>2. CASE types[c.name] # <<>>
    <3>1. WellTyped(c)
      BY <1>1, <1>2, <2>2 DEF Ranked, Typed
    <3>2. Infer(c, types).tag = "ok"
      BY <1>i, <1>2, <3>1, InferType DEF TypeOK, WellTyped, Sound
    <3>3. QED
      BY <1>i, <1>2, <3>1, <3>2, InferType DEF TypeOK, WellTyped
  <2>3. QED
    BY <2>1, <2>2
<1>4. ASSUME NEW S \in SUBSET {c \in ToSet(candidates) : types[c.name] # <<>>}, S # {}
      PROVE  \E c \in S : \A d \in S : d.name \notin ToSet(c.of)
  <2>1. \A c \in S : c \in ToSet(candidates) /\ c.name \in Typed /\ rank[c.name] \in Nat
    BY <1>2 DEF Typed
  <2>2. PICK r \in {rank[c.name] : c \in S} : \A s \in {rank[c.name] : c \in S} : r <= s
    <3>1. {rank[c.name] : c \in S} \subseteq Nat /\ {rank[c.name] : c \in S} # {}
      BY <1>4, <2>1
    <3>2. QED
      BY <3>1, LeastExists
  <2>3. PICK c \in S : r = rank[c.name]
    BY <2>2
  <2>4. ASSUME NEW d \in S, d.name \in ToSet(c.of) PROVE FALSE
    <3>1. PICK k \in DOMAIN c.of : c.of[k] = d.name
      BY <2>4 DEF ToSet
    <3>2. rank[d.name] < rank[c.name]
      BY <1>1, <1>2, <2>1, <3>1 DEF Ranked
    <3>3. rank[c.name] <= rank[d.name]
      BY <2>2, <2>3
    <3>4. QED
      BY <2>1, <3>2, <3>3
  <2>5. QED
    BY <2>4
<1>5. \A n \in Names : (\A c \in ToSet(candidates) : c.name # n) => types[n] = <<>>
  BY <1>i DEF SettledInv
<1>6. QED
  BY <1>3, <1>4, <1>5 DEF Explains

(* Of two explanations each has the other's types: of the constants of     *)
(* which they differ one is made of elements on which they do not.         *)
LEMMA OneExplanation ==
  ASSUME TypeOK,
         NEW known \in [Names -> Seq({"list", "set"} \cup Literals)], Explains(known),
         NEW other \in [Names -> Seq({"list", "set"} \cup Literals)], Explains(other),
         NEW n \in Names, known[n] # <<>>
  PROVE  other[n] = known[n]
<1> DEFINE S == {c \in ToSet(candidates) : known[c.name] # <<>> /\ other[c.name] # known[c.name]}
<1>1. ASSUME S # {} PROVE FALSE
  <2>1. PICK c \in S : \A d \in S : d.name \notin ToSet(c.of)
    <3>1. S \in SUBSET {c \in ToSet(candidates) : known[c.name] # <<>>}
      OBVIOUS
    <3>2. QED
      BY <1>1, <3>1 DEF Explains
  <2>2. c \in Const /\ c.of \in Seq(Elements) /\ c \in ToSet(candidates)
    <3>1. c \in Const
      BY OneOfName
    <3>2. QED
      BY <3>1 DEF Const
  <2>3. known[c.name] = Infer(c, known).type /\ other[c.name] = Infer(c, other).type
    BY <2>2 DEF Explains
  <2>4. Infer(c, known).tag = "ok" /\ Sound(c, known)
    BY <2>2, <2>3, InferType
  <2>5. ASSUME NEW k \in DOMAIN c.of PROVE TypeOf(c.of[k], other) = TypeOf(c.of[k], known)
    <3>1. c.of[k] \in Elements /\ TypeOf(c.of[k], known) # <<>>
      BY <2>2, <2>4 DEF Sound
    <3>2. CASE c.of[k] \in Literals
      BY <3>2 DEF TypeOf
    <3>3. CASE c.of[k] \notin Literals
      <4>1. c.of[k] \in Names /\ known[c.of[k]] # <<>>
        BY <3>1, <3>3 DEF TypeOf, Elements
      <4>2. PICK d \in ToSet(candidates) : d.name = c.of[k]
        BY <4>1 DEF Explains
      <4>3. d \notin S
        BY <2>1, <4>2 DEF ToSet
      <4>4. QED
        BY <3>3, <4>1, <4>2, <4>3 DEF TypeOf
    <3>4. QED
      BY <3>2, <3>3
  <2>6. 1 \in DOMAIN c.of
    BY <2>2, <2>4 DEF Sound
  <2>7. Sound(c, other)
    BY <2>4, <2>5, <2>6 DEF Sound
  <2>8. Infer(c, other).type = Infer(c, known).type
    <3>1. Infer(c, other).tag = "ok"
      BY <2>2, <2>7, InferType
    <3>2. TypeOf(c.of[1], other) = TypeOf(c.of[1], known)
      BY <2>5, <2>6
    <3>3. QED
      BY <2>2, <2>4, <3>1, <3>2, InferType
  <2>9. QED
    BY <2>3, <2>8
<1>2. PICK c \in ToSet(candidates) : c.name = n
  BY DEF Explains
<1>3. QED
  BY <1>1, <1>2

(* The constants' definitions give them one set of types, and it is the    *)
(* one validate_module_const_types finds, in whatever order it goes over   *)
(* them: any other explanation is the same.                                *)
TypesDetermined ==
  stage \in {"values", "skeleton", "done"} =>
    /\ Explains(types)
    /\ \A known \in [Names -> Seq({"list", "set"} \cup Literals)] : Explains(known) => known = types

(* D-MOD-02: the types of the module constants do not depend on the order  *)
(* of the declarations.                                                    *)
THEOREM TypesAreDetermined == Spec => []TypesDetermined
<1>1. IInv => TypesDetermined
  <2> SUFFICES ASSUME IInv, stage \in {"values", "skeleton", "done"},
                      NEW known \in [Names -> Seq({"list", "set"} \cup Literals)], Explains(known)
               PROVE  known = types
    BY TypesExplained DEF TypesDetermined
  <2>1. TypeOK /\ types \in [Names -> Seq({"list", "set"} \cup Literals)]
    BY DEF IInv, TypeOK
  <2>2. Explains(types)
    BY TypesExplained
  <2>3. ASSUME NEW n \in Names PROVE known[n] = types[n]
    <3>1. CASE known[n] # <<>>
      BY <2>1, <2>2, <3>1, OneExplanation
    <3>2. CASE types[n] # <<>>
      BY <2>1, <2>2, <3>2, OneExplanation
    <3>3. QED
      BY <3>1, <3>2
  <2>4. QED
    BY <2>1, <2>3
<1>2. QED
  BY Invariant, <1>1, PTL

(* validate_module_const_types gives the constants the types of their      *)
(* definitions, and resolve_module_const_values evaluates every constant   *)
(* that has one, to a value that agrees with it.  (Not only those: [] has  *)
(* a value and no type.)                                                   *)
THEOREM FixpointsMeet == Spec => []FixpointsAgree
<1>1. IInv => FixpointsAgree
  <2> SUFFICES ASSUME IInv, stage = "done", NEW n \in Names, types[n] # <<>>
               PROVE  consts[n] = IF Key(types[n]) THEN "key" ELSE "other"
    BY TypesExplained DEF FixpointsAgree
  <2>1. consts[n] # "none"
    BY TypedHasValue
  <2>2. consts[n] \in {"none", IF Key(types[n]) THEN "key" ELSE "other"}
    BY DEF IInv, ValuesInv, Typed
  <2>3. QED
    BY <2>1, <2>2
<1>2. QED
  BY Invariant, <1>1, PTL

(* Each redeclaration is reported once, and each constant that has no type *)
(* once.                                                                   *)
THEOREM EveryMistakeOnce == Spec => []DiagnosedOnce
<1>1. IInv => DiagnosedOnce
  <2> SUFFICES ASSUME IInv, stage = "done", NEW n \in Names
               PROVE  /\ diags["E1001"][n] = LET count == Cardinality(DeclaredBy(Items, n))
                                             IN  IF n \in PreludeNames \/ count = 0 THEN count
                                                                                    ELSE count - 1
                      /\ diags["E10xx"][n] + diags["E1003"][n]
                           = Cardinality({c \in ToSet(candidates) : c.name = n /\ types[n] = <<>>})
    BY DEF DiagnosedOnce
  <2>i. TypeOK /\ NamespaceInv /\ SettledInv
    BY DEF IInv
  <2>1. diags["E1001"][n] = LET count == Cardinality(DeclaredBy(Items, n))
                            IN  IF n \in PreludeNames \/ count = 0 THEN count ELSE count - 1
    <3> DEFINE places == DeclaredBy(Items, n)
    <3>1. /\ IsFiniteSet(places)
          /\ diags["E1001"][n] = IF n \in PreludeNames \/ places = {} THEN Cardinality(places)
                                 ELSE Cardinality(places) - 1
      BY <2>i, AllSeen DEF NamespaceInv
    <3>2. places = {} <=> Cardinality(places) = 0
      BY <3>1, FS_EmptySet
    <3>3. QED
      BY <3>1, <3>2
  <2>2. diags["E10xx"][n] + diags["E1003"][n]
          = Cardinality({c \in ToSet(candidates) : c.name = n /\ types[n] = <<>>})
    <3> DEFINE untyped == {c \in ToSet(candidates) : c.name = n /\ types[n] = <<>>}
    <3>1. CASE \E c \in ToSet(candidates) : c.name = n
      <4>1. PICK c \in ToSet(candidates) : c.name = n
        BY <3>1
      <4>2. untyped = IF types[n] = <<>> THEN {c} ELSE {}
        BY <2>i, <4>1, OneOfName
      <4>3. Cardinality(untyped) = IF types[n] = <<>> THEN 1 ELSE 0
        BY <4>2, FS_Singleton, FS_EmptySet
      <4>4. QED
        BY <2>i, <4>1, <4>3 DEF SettledInv
    <3>2. CASE ~\E c \in ToSet(candidates) : c.name = n
      <4>1. untyped = {} /\ Cardinality(untyped) = 0
        BY <3>2, FS_EmptySet
      <4>2. diags["E10xx"][n] = 0 /\ diags["E1003"][n] = 0
        BY <2>i, <3>2 DEF SettledInv
      <4>3. QED
        BY <4>1, <4>2
    <3>3. QED
      BY <3>1, <3>2
  <2>3. QED
    BY <2>1, <2>2
<1>2. QED
  BY Invariant, <1>1, PTL

(* A program accepted without a diagnostic is whole:                       *)
(* build_program_skeleton's or_insert_with and resolve_module_const_values *)
(* giving up drop nothing.                                                 *)
THEOREM NothingIsDropped == Spec => []NothingDropped
<1>1. IInv => NothingDropped
  <2> SUFFICES ASSUME IInv, stage = "done", NoDiagnostics, NEW p \in Items
               PROVE  /\ Item(p).kind = "decl" => decls[<<Item(p).table, Item(p).names[1]>>] = p
                      /\ IsConstant(p) => consts[Item(p).name] # "none"
                      /\ Item(p).kind = "stmt" => ~files[p[1]].directive
    BY DEF NothingDropped
  <2>i. TypeOK /\ PassInv /\ GrammarInv /\ NamespaceInv /\ SettledInv /\ EntriesInv
    BY DEF IInv
  <2>n. /\ diags["E5002"]["none"] = 0
        /\ \A n \in Names : diags["E1001"][n] = 0 /\ diags["E10xx"][n] = 0 /\ diags["E1003"][n] = 0
    BY DEF NoDiagnostics, Codes
  <2>1. ASSUME Item(p).kind = "decl"
        PROVE  decls[<<Item(p).table, Item(p).names[1]>>] = p
    <3> DEFINE n == Item(p).names[1]
               d == <<Item(p).table, n>>
               places == DeclaredBy(Items, n)
    <3>1. Item(p) \in Decl
      <4>1. Item(p) \in Decl \cup Const \cup Stmt
        BY <2>i, ItemType DEF TypeOK
      <4>2. QED
        BY <2>1, <4>1 DEF Const, Stmt
    <3>2. /\ Item(p).table \in Tables /\ NamesOf(p) = Item(p).names
          /\ 1 \in DOMAIN NamesOf(p) /\ NamesOf(p)[1] = n /\ n \in Names
      <4>1. Item(p).names \in Seq(Names) /\ Item(p).names # <<>> /\ Item(p).table \in Tables
        BY <2>1, <2>i, <3>1, ItemType DEF TypeOK, Decl
      <4>2. 1 \in DOMAIN Item(p).names /\ Item(p).names[1] \in Names
        BY <4>1
      <4>3. QED
        BY <2>1, <4>1, <4>2 DEF NamesOf
    <3>3. <<p, 1>> \in places
      BY <3>2 DEF DeclaredBy
    <3>4. /\ IsFiniteSet(places)
          /\ diags["E1001"][n] = IF n \in PreludeNames \/ places = {} THEN Cardinality(places)
                                 ELSE Cardinality(places) - 1
      BY <2>i, <3>2, AllSeen DEF NamespaceInv
    <3>5. n \notin PreludeNames /\ Cardinality(places) = 1
      <4>1. Cardinality(places) \in Nat /\ Cardinality(places) # 0
        BY <3>3, <3>4, FS_CardinalityType, FS_EmptySet
      <4>2. QED
        BY <2>n, <3>2, <3>3, <3>4, <4>1
    <3>6. \A q \in places : q = <<p, 1>>
      BY <3>3, <3>4, <3>5, FS_Singleton
    <3>7. d \notin Prelude
      BY <3>5 DEF PreludeNames
    <3>8. ASSUME NEW q \in DeclPlaces(d) PROVE q = p
      <4>1. /\ q \in Items /\ Item(q).kind = "decl" /\ Item(q).names[1] = n
        BY DEF DeclPlaces, Items, Item
      <4>2. Item(q).names # <<>> /\ Item(q).names \in Seq(Names)
        <5>1. Item(q) \in Decl \cup Const \cup Stmt /\ Item(q).names # <<>>
          BY <2>i, <4>1, ItemType DEF TypeOK
        <5>2. QED
          BY <4>1, <5>1 DEF Decl, Const, Stmt
      <4>3. 1 \in DOMAIN NamesOf(q) /\ NamesOf(q)[1] = n
        BY <4>1, <4>2 DEF NamesOf
      <4>4. <<q, 1>> \in places
        BY <4>1, <4>3 DEF DeclaredBy
      <4>5. QED
        BY <3>6, <4>4
    <3>9. p \in DeclPlaces(d)
      BY <2>1, <2>i, ItemPlace DEF DeclPlaces, Item, TypeOK
    <3>10. DeclPlaces(d) = {p}
      BY <3>8, <3>9
    <3>11. Before(p, p)
      BY <2>i, ItemPlace DEF Before, TypeOK
    <3>12. decls[d] = CHOOSE x \in DeclPlaces(d) : \A y \in DeclPlaces(d) : Before(x, y)
      <4>1. d \in Tables \X Names
        BY <3>2
      <4>2. Given[d] = <<>>
        BY <3>7, <4>1 DEF Given
      <4>3. QED
        BY <2>i, <3>9, <4>1, <4>2 DEF EntriesInv, Merged
    <3> HIDE DEF d
    <3>13. decls[d] = p
      BY <3>10, <3>11, <3>12
    <3>14. QED
      BY <3>13 DEF d
  <2>2. ASSUME IsConstant(p) PROVE consts[Item(p).name] # "none"
    <3>1. Item(p) \in Const /\ Item(p).name \in Names
      BY <2>2, <2>i, NamesType DEF TypeOK, Const
    <3>2. Item(p) \in ToSet(candidates)
      <4>1. Item(p) \in ToSet(candidates) \/ diags["E1001"][Item(p).name] > 0
        BY <2>2, <2>i, AllSeen DEF NamespaceInv
      <4>2. QED
        BY <2>n, <3>1, <4>1
    <3>3. types[Item(p).name] # <<>>
      BY <2>i, <2>n, <3>1, <3>2 DEF SettledInv
    <3>4. QED
      BY <3>1, <3>3, TypedHasValue
  <2>3. ASSUME Item(p).kind = "stmt" PROVE ~files[p[1]].directive
    BY <2>3, <2>i, <2>n DEF GrammarInv
  <2>4. QED
    BY <2>1, <2>2, <2>3
<1>2. QED
  BY Invariant, <1>1, PTL

----------------------------------------------------------------------------
(* Termination.  What is left to do: the stages to come, then the files and*)
(* items of a pass, or the constants still open in a fixpoint, whether its *)
(* round may be followed by another, and how many the round has not seen.  *)
ItemsLeft ==
  IF at[1] <= Len(files) /\ at[2] <= Len(files[at[1]].items)
    THEN Len(files[at[1]].items) + 1 - at[2] ELSE 0
Unsettled == Len(pending) + Len(later)
MayGoOn == IF progressed THEN 1 ELSE 0

Left ==
  CASE stage = "grammar"  -> <<5, Len(files) + 1 - at[1], 0, 0>>
    [] stage = "declare"  -> <<4, Len(files) + 1 - at[1], ItemsLeft, 0>>
    [] stage = "types"    -> <<3, Unsettled, MayGoOn, Len(pending)>>
    [] stage = "values"   -> <<2, Unsettled, MayGoOn, Len(pending)>>
    [] stage = "skeleton" -> <<1, 0, 0, 0>>
    [] stage = "done"     -> <<0, 0, 0, 0>>

(* The lexicographic order of Nat \X Nat \X Nat \X Nat, which has no infinite*)
(* descent.                                                                *)
Smaller(l, m) ==
  \/ l[1] < m[1]
  \/ l[1] = m[1] /\ l[2] < m[2]
  \/ l[1] = m[1] /\ l[2] = m[2] /\ l[3] < m[3]
  \/ l[1] = m[1] /\ l[2] = m[2] /\ l[3] = m[3] /\ l[4] < m[4]

(* The measure is of four natural numbers.                                 *)
LEMMA LeftType == TypeOK => Left \in Nat \X Nat \X Nat \X Nat
<1> SUFFICES ASSUME TypeOK PROVE Left \in Nat \X Nat \X Nat \X Nat
  OBVIOUS
<1>1. /\ Len(files) \in Nat /\ at[1] \in Nat /\ at[1] <= Len(files) + 1 /\ at[2] \in Nat
      /\ \A f \in DOMAIN files : Len(files[f].items) \in Nat
      /\ DOMAIN files = 1 .. Len(files)
  BY ItemType DEF TypeOK
<1>2. ItemsLeft \in Nat
  <2>1. CASE at[1] <= Len(files) /\ at[2] <= Len(files[at[1]].items)
    <3>1. at[1] \in DOMAIN files
      BY <1>1, <2>1, ItemType DEF TypeOK
    <3>2. Len(files[at[1]].items) \in Nat
      BY <1>1, <3>1
    <3>3. PICK n \in Nat, i \in Nat : n = Len(files[at[1]].items) /\ i = at[2]
      BY <1>1, <3>2
    <3>4. i <= n
      BY <1>1, <2>1, <3>2, <3>3
    <3>5. n + 1 - i \in Nat
      BY <3>4
    <3>6. QED
      BY <2>1, <3>3, <3>5 DEF ItemsLeft
  <2>2. QED
    BY <2>1 DEF ItemsLeft
<1>3. Len(pending) \in Nat /\ Unsettled \in Nat /\ MayGoOn \in Nat
  BY DEF TypeOK, Unsettled, MayGoOn
<1>4. Len(files) + 1 - at[1] \in Nat
  BY <1>1
<1> HIDE DEF TypeOK
<1>5. stage \in {"grammar", "declare", "types", "values", "skeleton", "done"}
  BY DEF TypeOK
<1>6. QED
  BY <1>2, <1>3, <1>4, <1>5 DEF Left

(* A constant looked at is settled, and one less is open, or waits, and the*)
(* round has one less to see.                                              *)
LEMMA LooksAtOne ==
  ASSUME ListsOK, pending # <<>>, pending' = Tail(pending), NEW settles \in BOOLEAN,
         progressed \in BOOLEAN, progressed' = (progressed \/ settles),
         later' = IF settles THEN later ELSE Append(later, Head(pending))
  PROVE  /\ Unsettled \in Nat /\ Unsettled' \in Nat
         /\ \/ Unsettled' < Unsettled
            \/ Unsettled' = Unsettled /\ MayGoOn' = MayGoOn /\ Len(pending') < Len(pending)
<1>1. /\ pending \in Seq(Const) /\ later \in Seq(Const)
      /\ Len(pending) \in Nat /\ Len(pending) > 0 /\ Len(later) \in Nat
      /\ Head(pending) \in Const
      /\ Len(Tail(pending)) = Len(pending) - 1
  BY DEF ListsOK
<1>2. Len(Append(later, Head(pending))) = Len(later) + 1
  BY <1>1
<1>3. CASE settles
  BY <1>1, <1>3 DEF Unsettled
<1>4. CASE ~ settles
  BY <1>1, <1>2, <1>4 DEF Unsettled, MayGoOn
<1>5. QED
  BY <1>3, <1>4

(* Another round starts with as many open, having settled nothing yet.     *)
LEMMA RoundsEnd ==
  ASSUME ListsOK, pending = <<>>, progressed, Round(later)
  PROVE  Unsettled' = Unsettled /\ MayGoOn' < MayGoOn
<1>1. Len(later) \in Nat /\ Len(pending) = 0 /\ Len(later') = 0 /\ pending' = later
  BY DEF ListsOK, Round
<1>2. QED
  BY <1>1 DEF Unsettled, MayGoOn, Round

(* Every step lowers it.                                                   *)
LEMMA LeftFalls == TypeOK /\ [Next]_vars => Smaller(Left', Left) \/ UNCHANGED vars
<1> SUFFICES ASSUME TypeOK, Next PROVE Smaller(Left', Left) \/ UNCHANGED vars
  OBVIOUS
<1>t. /\ Len(files) \in Nat /\ at[1] \in Nat /\ at[1] <= Len(files) + 1 /\ at[2] \in Nat
      /\ progressed \in BOOLEAN
      /\ ListsOK
  BY ItemType DEF TypeOK, ListsOK
<1>1. CASE CheckGrammar
  <2>1. at'[1] = at[1] + 1 /\ stage = "grammar" /\ stage' = stage /\ files' = files
    BY <1>1 DEF CheckGrammar
  <2>2. QED
    BY <1>t, <2>1 DEF Left, Smaller
<1>2. CASE GrammarOver
  <2>1. stage = "grammar" /\ stage' = "declare"
    BY <1>2 DEF GrammarOver
  <2>2. QED
    BY <2>1 DEF Left, Smaller
<1>3. CASE Declare
  <2>1. /\ stage = "declare" /\ stage' = stage /\ files' = files
        /\ at[1] <= Len(files) /\ at[2] <= Len(files[at[1]].items)
    BY <1>3 DEF Declare
  <2>2. at'[1] = at[1] /\ at'[2] = at[2] + 1
    BY <1>3, AtItem
  <2>3. Len(files[at[1]].items) \in Nat
    <3>1. at[1] \in DOMAIN files
      BY <1>3, AtItem DEF Items
    <3>2. QED
      BY <3>1, ItemType DEF TypeOK
  <2>4. ItemsLeft' < ItemsLeft
    <3>1. PICK n \in Nat, i \in Nat : n = Len(files[at[1]].items) /\ i = at[2]
      BY <1>t, <2>3
    <3>2. ItemsLeft = n + 1 - i /\ i <= n
      BY <2>1, <3>1 DEF ItemsLeft
    <3>3. ItemsLeft' \in {n + 1 - (i + 1), 0} /\ (ItemsLeft' = 0 \/ i + 1 <= n)
      <4>1. at'[1] = at[1] /\ at'[2] = i + 1 /\ files' = files
        BY <2>1, <2>2, <3>1
      <4>2. Len(files'[at'[1]].items) = n
        BY <3>1, <4>1
      <4>3. QED
        BY <4>1, <4>2 DEF ItemsLeft
    <3>4. QED
      BY <3>2, <3>3
  <2>5. QED
    BY <2>1, <2>2, <2>4 DEF Left, Smaller
<1>4. CASE NextFile
  <2>1. at'[1] = at[1] + 1 /\ stage = "declare" /\ stage' = stage /\ files' = files
    BY <1>4 DEF NextFile
  <2>2. QED
    BY <1>t, <2>1 DEF Left, Smaller
<1>5. CASE DeclareOver
  <2>1. stage = "declare" /\ stage' = "types"
    BY <1>5 DEF DeclareOver
  <2>2. QED
    BY <2>1 DEF Left, Smaller
<1>6. CASE InferConst
  <2>1. stage = "types" /\ stage' = "types"
    BY <1>6 DEF InferConst
  <2>2. /\ Unsettled \in Nat /\ Unsettled' \in Nat
        /\ \/ Unsettled' < Unsettled
           \/ Unsettled' = Unsettled /\ MayGoOn' = MayGoOn /\ Len(pending') < Len(pending)
    <3> DEFINE settles == Infer(Head(pending), types).tag # "wait"
    <3>1. /\ pending # <<>> /\ pending' = Tail(pending)
          /\ progressed' = (progressed \/ settles)
          /\ later' = IF settles THEN later ELSE Append(later, Head(pending))
      BY <1>6 DEF InferConst
    <3>2. settles \in BOOLEAN
      OBVIOUS
    <3> HIDE DEF settles
    <3>3. QED
      BY <1>t, <3>1, <3>2, LooksAtOne
  <2>3. QED
    BY <2>1, <2>2 DEF Left, Smaller
<1>7. CASE TypeRound
  <2>1. stage = "types" /\ pending = <<>>
    BY <1>7 DEF TypeRound
  <2>2. CASE later # <<>> /\ progressed
    <3>1. Round(later) /\ stage' = stage
      BY <1>7, <2>2 DEF TypeRound
    <3>2. Unsettled' = Unsettled /\ MayGoOn' < MayGoOn
      BY <1>t, <2>1, <2>2, <3>1, RoundsEnd
    <3>3. QED
      BY <2>1, <3>1, <3>2 DEF Left, Smaller
  <2>3. CASE ~ (later # <<>> /\ progressed)
    <3>1. stage' = "values"
      BY <1>7, <2>3 DEF TypeRound
    <3>2. QED
      BY <2>1, <3>1 DEF Left, Smaller
  <2>4. QED
    BY <2>2, <2>3
<1>8. CASE EvalConst
  <2>1. stage = "values" /\ stage' = "values"
    BY <1>8 DEF EvalConst
  <2>2. /\ Unsettled \in Nat /\ Unsettled' \in Nat
        /\ \/ Unsettled' < Unsettled
           \/ Unsettled' = Unsettled /\ MayGoOn' = MayGoOn /\ Len(pending') < Len(pending)
    <3> DEFINE settles == Value(Head(pending), consts) # "none"
    <3>1. /\ pending # <<>> /\ pending' = Tail(pending)
          /\ progressed' = (progressed \/ settles)
          /\ later' = IF settles THEN later ELSE Append(later, Head(pending))
      BY <1>8 DEF EvalConst
    <3>2. settles \in BOOLEAN
      OBVIOUS
    <3> HIDE DEF settles
    <3>3. QED
      BY <1>t, <3>1, <3>2, LooksAtOne
  <2>3. QED
    BY <2>1, <2>2 DEF Left, Smaller
<1>9. CASE ValueRound
  <2>1. stage = "values" /\ pending = <<>>
    BY <1>9 DEF ValueRound
  <2>2. CASE later # <<>> /\ progressed
    <3>1. Round(later) /\ stage' = stage
      BY <1>9, <2>2 DEF ValueRound
    <3>2. Unsettled' = Unsettled /\ MayGoOn' < MayGoOn
      BY <1>t, <2>1, <2>2, <3>1, RoundsEnd
    <3>3. QED
      BY <2>1, <3>1, <3>2 DEF Left, Smaller
  <2>3. CASE ~ (later # <<>> /\ progressed)
    <3>1. stage' = "skeleton"
      BY <1>9, <2>3 DEF ValueRound
    <3>2. QED
      BY <2>1, <3>1 DEF Left, Smaller
  <2>4. QED
    BY <2>2, <2>3
<1>10. CASE Skeleton
  <2>1. stage = "skeleton" /\ stage' = "done"
    BY <1>10 DEF Skeleton
  <2>2. QED
    BY <2>1 DEF Left, Smaller
<1>11. CASE Resolved
  BY <1>11 DEF Resolved
<1>12. QED
  BY <1>1, <1>2, <1>3, <1>4, <1>5, <1>6, <1>7, <1>8, <1>9, <1>10, <1>11 DEF Next, Step

(* Resolution cannot go on for ever, however the constants refer to each   *)
(* other: every step has less left to do, in an order without infinite     *)
(* descent.  A round of a fixpoint that is followed by another has settled a*)
(* constant, so the rounds are at most as many as the constants, though the*)
(* loops of validate_module_const_types and resolve_module_const_values    *)
(* bear no bound.                                                          *)
THEOREM ResolutionEnds ==
  Spec => /\ [](Left \in Nat \X Nat \X Nat \X Nat)
          /\ [][Smaller(Left', Left)]_vars
<1>1. IInv => Left \in Nat \X Nat \X Nat \X Nat
  BY LeftType DEF IInv
<1>2. IInv /\ [Next]_vars => [Smaller(Left', Left)]_vars
  BY LeftFalls DEF IInv
<1>3. QED
  BY <1>1, <1>2, Invariant, PTL DEF Spec
=============================================================================
