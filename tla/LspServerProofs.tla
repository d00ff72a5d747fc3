-------------------------- MODULE LspServerProofs ---------------------------
(***************************************************************************)
(* Theorems about LspServer, for any files, texts, directories and number  *)
(* of notifications: its types, that analyses are of current text, the     *)
(* document's own and its siblings', and that no diagnostics go stale.     *)
(***************************************************************************)
EXTENDS LspServer, TLAPS

(* Between messages nothing is left of the last one.                       *)
IdleInv == mode = "idle" => queue = {} /\ closing = {}

(* Only open documents have an analysis, and the documents a handler is    *)
(* done with have one of their present text.                               *)
AnalysesInv ==
  /\ queue \subseteq DOMAIN docs
  /\ DOMAIN analyses \subseteq DOMAIN docs
  /\ \A p \in DOMAIN docs \ queue : p \in DOMAIN analyses /\ analyses[p].text = docs[p]

(* While the disk stays as it is, the documents a handler is done with     *)
(* have the analysis that would be made now: neither the open documents    *)
(* nor the disk change before the handler ends.                            *)
SiblingsInv ==
  ~touched => \A root \in DOMAIN docs \ queue : analyses[root] = Checked(root)

(* What is shown for a path was found there by a document that is open, or *)
(* did_close is going to clear the path: then no document re-analysed since*)
(* has looked at it.                                                       *)
Founded(p) ==
  \E root \in DOMAIN analyses : p \in FoundBy(root) /\ analyses[root].found[p] = shown[p]
ShownInv ==
  mode \in {"idle", "busy"} =>
    \A p \in Paths : shown[p] # Clean =>
     \/ Founded(p)
     \/ p \in closing /\ \A root \in DOMAIN analyses \ queue : p \notin FoundBy(root)

IInv == TypeOK /\ IdleInv /\ AnalysesInv /\ SiblingsInv /\ ShownInv

----------------------------------------------------------------------------
(* A function with a domain among some sets and values among others.       *)
LEMMA PartialFunction ==
  ASSUME NEW S, NEW T, NEW f
  PROVE  f \in UNION {[D -> T] : D \in SUBSET S}
           <=> DOMAIN f \subseteq S /\ f \in [DOMAIN f -> T]
<1>1. ASSUME f \in UNION {[D -> T] : D \in SUBSET S}
      PROVE  DOMAIN f \subseteq S /\ f \in [DOMAIN f -> T]
  <2>1. PICK D \in SUBSET S : f \in [D -> T]
    BY <1>1
  <2>2. QED
    BY <2>1
<1>2. ASSUME DOMAIN f \subseteq S, f \in [DOMAIN f -> T]
      PROVE  f \in UNION {[D -> T] : D \in SUBSET S}
  BY <1>2
<1>3. QED
  OBVIOUS

(* A tree of files is a function from some names to texts.                 *)
LEMMA DiskType == \A t : t \in Trees <=> DOMAIN t \subseteq Names /\ t \in [DOMAIN t -> Texts]
  BY DEF Trees

(* The file at a path an analysis reads.                                   *)
LEMMA ReadType ==
  ASSUME TypeOK, NEW p \in Paths, p \in DOMAIN docs \/ p.name \in DOMAIN disk
  PROVE  Read(p) \in TextType
<1>1. docs \in [DOMAIN docs -> Texts] /\ disk \in [DOMAIN disk -> Texts]
  BY DiskType DEF TypeOK
<1>2. QED
  BY <1>1, Parameters DEF Read

(* analysis_files takes documents and files there are.                     *)
LEMMA CoveredType ==
  ASSUME TypeOK, NEW root \in DOMAIN docs
  PROVE  /\ Covered(root) \subseteq Paths
         /\ \A p \in Covered(root) : p \in DOMAIN docs \/ p.name \in DOMAIN disk
<1>1. root \in Paths
  BY DEF TypeOK
<1>2. Canonical(root) \in Paths
  BY <1>1, Parameters DEF Canonical, Paths
<1>3. Siblings(Canonical(root)) \subseteq Paths
  BY <1>2 DEF Siblings, Paths
<1>4. QED
  BY <1>1, <1>3 DEF Covered, Siblings

(* An analysis is of the document's text, and says something of each file  *)
(* it read.                                                                *)
LEMMA CheckedType ==
  ASSUME TypeOK, NEW root \in DOMAIN docs
  PROVE  /\ Checked(root).text = docs[root]
         /\ DOMAIN Checked(root).found = Covered(root)
         /\ \A p \in Covered(root) : Checked(root).found[p] \in Levels
<1> DEFINE covered == Covered(root)
           found   == {FaultOf(p, covered) : p \in covered} \ {Clean}
<1>1. \A p \in covered : FaultOf(p, covered) \in {Clean, Syntax, Missing, Lint}
  BY CoveredType, ReadType DEF FaultOf, TextType
<1>2. FirstFault(covered) \in Levels
  <2>1. found \subseteq {1, 2, 3}
    BY <1>1 DEF Syntax, Missing, Lint
  <2>2. FirstFault(covered)
          = IF found = {} THEN Clean ELSE CHOOSE l \in found : \A m \in found : l <= m
    BY DEF FirstFault
  <2>3. QED
    BY <2>1, <2>2 DEF Levels, Clean
<1>3. QED
  BY <1>2 DEF Checked, Levels, Clean

----------------------------------------------------------------------------
(* Setting a document's text makes it one of the overlay's.                *)
LEMMA WithType ==
  ASSUME TypeOK, NEW p \in Paths, NEW text \in Texts
  PROVE  /\ DOMAIN With(p, text) = DOMAIN docs \cup {p}
         /\ With(p, text) \in UNION {[S -> Texts] : S \in SUBSET Paths}
<1>1. DOMAIN docs \subseteq Paths /\ docs \in [DOMAIN docs -> Texts]
  BY DEF TypeOK
<1>2. With(p, text) \in [DOMAIN docs \cup {p} -> Texts]
  BY <1>1 DEF With
<1>3. QED
  BY <1>1, <1>2

(* Forgetting a document keeps the others as they are.                     *)
LEMMA RestrictType ==
  ASSUME NEW S, NEW T, NEW f \in UNION {[D -> T] : D \in SUBSET S}, NEW A \in SUBSET DOMAIN f
  PROVE  /\ DOMAIN Restrict(f, A) = A
         /\ \A x \in A : Restrict(f, A)[x] = f[x]
         /\ Restrict(f, A) \in UNION {[D -> T] : D \in SUBSET S}
<1>1. DOMAIN Restrict(f, A) = A /\ \A x \in A : Restrict(f, A)[x] = f[x]
  BY DEF Restrict
<1>2. Restrict(f, A) \in [A -> T]
  BY DEF Restrict
<1>3. QED
  BY <1>1, <1>2

(* The overlay's key of a path is a path.                                  *)
LEMMA CanonicalType == ASSUME TypeOK, NEW u \in Paths PROVE Canonical(u) \in Paths
  BY Parameters DEF Canonical, Paths

(* A file that is written or vanishes leaves a tree of files.              *)
LEMMA DiskChanges ==
  ASSUME TypeOK, NEW n \in Names, Vanish(n) \/ \E text \in Texts : Write(n, text)
  PROVE  disk' \in Trees /\ saves' \in 0 .. MaxSaves /\ touched'
<1>1. CASE Vanish(n)
  <2>1. /\ disk' = Restrict(disk, DOMAIN disk \ {n}) /\ saves' = saves + 1 /\ saves < MaxSaves
        /\ touched'
    BY <1>1 DEF Vanish, ChangeOnDisk
  <2>2. disk' \in UNION {[D -> Texts] : D \in SUBSET Names}
    <3>1. disk \in UNION {[D -> Texts] : D \in SUBSET Names}
      BY DEF TypeOK, Trees
    <3>2. Restrict(disk, DOMAIN disk \ {n}) \in UNION {[D -> Texts] : D \in SUBSET Names}
      BY <3>1, RestrictType
    <3>3. QED
      BY <2>1, <3>2
  <2>3. disk' \in Trees
    BY <2>2 DEF Trees
  <2>4. QED
    BY <2>1, <2>3, Parameters DEF TypeOK
<1>2. ASSUME NEW text \in Texts, Write(n, text)
      PROVE  disk' \in Trees /\ saves' \in 0 .. MaxSaves /\ touched'
  BY <1>2, DiskType, Parameters DEF Write, ChangeOnDisk, TypeOK
<1>3. QED
  BY <1>1, <1>2

(* One document's re-analysis: its entry is replaced, by the analysis of   *)
(* its present text, and the lists of the paths it looked at or looks at   *)
(* now.                                                                    *)
LEMMA ReanalyzeEffect ==
  ASSUME TypeOK, NEW root \in Paths, Reanalyze(root), root \in DOMAIN docs
  PROVE  /\ DOMAIN analyses' = DOMAIN analyses \cup {root}
         /\ \A p \in DOMAIN analyses : p # root => analyses'[p] = analyses[p]
         /\ analyses'[root].text = docs[root]
         /\ DOMAIN analyses'[root].found \subseteq Paths
         /\ \A p \in DOMAIN analyses'[root].found : analyses'[root].found[p] \in Levels
         /\ shown' = [p \in Paths |->
                        IF p \in DOMAIN analyses'[root].found THEN analyses'[root].found[p]
                        ELSE IF p \in FoundBy(root) THEN Clean ELSE shown[p]]
         /\ disk' \in Trees /\ saves' \in 0 .. MaxSaves /\ touched' \in BOOLEAN
         /\ ~touched' => ~touched /\ UNCHANGED disk /\ analyses'[root] = Checked(root)
<1>1. PICK analysis :
        /\ Record(root, analysis)
        /\ analysis.text = docs[root]
        /\ DOMAIN analysis.found \subseteq Paths
        /\ \A p \in DOMAIN analysis.found : analysis.found[p] \in Levels
        /\ disk' \in Trees /\ saves' \in 0 .. MaxSaves /\ touched' \in BOOLEAN
        /\ ~touched' => ~touched /\ UNCHANGED disk /\ analysis = Checked(root)
  <2>1. CASE Record(root, Checked(root)) /\ UNCHANGED <<files, touched>>
    BY <2>1, CheckedType, CoveredType DEF TypeOK, files
  <2>2. CASE \E p \in (Covered(root) \ {root}) \ DOMAIN docs :
               Vanish(p.name) /\ Record(root, Io(root, p))
    <3>1. PICK p \in Covered(root) : Vanish(p.name) /\ Record(root, Io(root, p))
      BY <2>2
    <3>2. p \in Paths /\ p.name \in Names
      BY CoveredType DEF Paths
    <3>3. disk' \in Trees /\ saves' \in 0 .. MaxSaves /\ touched'
      BY <3>1, <3>2, DiskChanges
    <3>4. Io(root, p).text = docs[root] /\ DOMAIN Io(root, p).found = {p}
          /\ Io(root, p).found[p] = Unreadable
      BY DEF Io
    <3>5. QED
      BY <3>1, <3>2, <3>3, <3>4 DEF Levels, Unreadable
  <2>3. QED
    BY <2>1, <2>2 DEF Reanalyze
<1>2. QED
  BY <1>1 DEF Record, Publish

----------------------------------------------------------------------------
(* Every message, re-analysis and change on disk keeps the types.          *)
LEMMA TypeNext == TypeOK /\ AnalysesInv /\ [Next]_vars => TypeOK'
<1> SUFFICES ASSUME TypeOK, AnalysesInv, [Next]_vars PROVE TypeOK'
  OBVIOUS
<1> USE DEF server, files, vars
<1>1. ASSUME NEW u \in Paths, NEW text \in Texts, DidOpen(u, text) \/ DidChange(u, text)
      PROVE  TypeOK'
  <2>1. docs' = With(Canonical(u), text) /\ queue' = DOMAIN docs'
        /\ UNCHANGED <<disk, analyses, shutdown_requested, closing, shown, saves>>
        /\ mode' = "busy" /\ touched' = FALSE
    BY <1>1 DEF DidOpen, DidChange, ReanalyzeAll
  <2>2. docs' \in UNION {[S -> Texts] : S \in SUBSET Paths}
    BY <2>1, WithType, CanonicalType
  <2>3. opened' \in SUBSET Paths
    BY <1>1 DEF DidOpen, DidChange, TypeOK
  <2>4. notes' \in 0 .. MaxNotes
    BY <1>1, Parameters DEF DidOpen, DidChange, TypeOK
  <2>5. QED
    BY <2>1, <2>2, <2>3, <2>4 DEF TypeOK
<1>2. ASSUME NEW u \in Paths, DidSave(u) PROVE TypeOK'
  BY <1>2 DEF DidSave, ReanalyzeAll, TypeOK
<1>3. ASSUME NEW u \in Paths, DidClose(u) PROVE TypeOK'
  <2>1. docs' \in UNION {[S -> Texts] : S \in SUBSET Paths}
    <3>1. docs' = Restrict(docs, DOMAIN docs \ {Canonical(u)})
      BY <1>3 DEF DidClose
    <3>2. docs \in UNION {[S -> Texts] : S \in SUBSET Paths}
      BY DEF TypeOK
    <3>3. DOMAIN docs \ {Canonical(u)} \in SUBSET DOMAIN docs
      OBVIOUS
    <3>4. Restrict(docs, DOMAIN docs \ {Canonical(u)})
            \in UNION {[S -> Texts] : S \in SUBSET Paths}
      BY <3>2, <3>3, RestrictType
    <3>5. QED
      BY <3>1, <3>4
  <2>2. /\ DOMAIN analyses' \subseteq DOMAIN analyses
        /\ \A p \in DOMAIN analyses' : analyses'[p] = analyses[p]
    BY <1>3 DEF DidClose, Restrict
  <2>3. closing' \in SUBSET Paths
    BY <1>3, CanonicalType DEF DidClose, FoundBy, TypeOK
  <2>4. QED
    BY <1>3, <2>1, <2>2, <2>3 DEF DidClose, ReanalyzeAll, TypeOK
<1>4. ASSUME NEW root \in Paths, Reanalyze(root) PROVE TypeOK'
  <2>1. root \in DOMAIN docs
    BY <1>4 DEF Reanalyze, AnalysesInv
  <2>2. shown' \in [Paths -> Levels]
    <3>1. /\ \A p \in DOMAIN analyses'[root].found : analyses'[root].found[p] \in Levels
          /\ shown' = [p \in Paths |->
                        IF p \in DOMAIN analyses'[root].found THEN analyses'[root].found[p]
                        ELSE IF p \in FoundBy(root) THEN Clean ELSE shown[p]]
      BY <1>4, <2>1, ReanalyzeEffect
    <3>2. Clean \in Levels /\ shown \in [Paths -> Levels]
      BY DEF Levels, Clean, TypeOK
    <3>3. QED
      BY <3>1, <3>2
  <2>3. /\ DOMAIN analyses' \in SUBSET Paths
        /\ \A p \in DOMAIN analyses' :
             /\ analyses'[p].text \in Texts
             /\ DOMAIN analyses'[p].found \in SUBSET Paths
             /\ \A q \in DOMAIN analyses'[p].found : analyses'[p].found[q] \in Levels
    <3>1. docs[root] \in Texts
      BY <2>1 DEF TypeOK
    <3>2. /\ DOMAIN analyses' = DOMAIN analyses \cup {root}
          /\ \A p \in DOMAIN analyses : p # root => analyses'[p] = analyses[p]
      BY <1>4, <2>1, ReanalyzeEffect
    <3>3. ASSUME NEW p \in DOMAIN analyses'
          PROVE  /\ analyses'[p].text \in Texts
                 /\ DOMAIN analyses'[p].found \in SUBSET Paths
                 /\ \A q \in DOMAIN analyses'[p].found : analyses'[p].found[q] \in Levels
      <4>1. CASE p = root
        BY <1>4, <2>1, <3>1, <4>1, ReanalyzeEffect
      <4>2. CASE p # root
        <5>1. p \in DOMAIN analyses /\ analyses'[p] = analyses[p]
          BY <3>2, <4>2
        <5>2. QED
          BY <5>1 DEF TypeOK
      <4>3. QED
        BY <4>1, <4>2
    <3>4. QED
      BY <3>3, <3>2 DEF TypeOK
  <2>4. disk' \in Trees /\ saves' \in 0 .. MaxSaves /\ touched' \in BOOLEAN
    BY <1>4, <2>1, ReanalyzeEffect
  <2>5. QED
    BY <1>4, <2>2, <2>3, <2>4 DEF Reanalyze, TypeOK
<1>5. CASE Finish
  BY <1>5 DEF Finish, TypeOK, Levels, Clean
<1>6. CASE Shutdown
  BY <1>6 DEF Shutdown, TypeOK
<1>7. ASSUME NEW how \in {"success", "failure"}, End(how) PROVE TypeOK'
  <2>1. docs' \in UNION {[S -> Texts] : S \in SUBSET Paths} /\ DOMAIN analyses' = {}
    BY <1>7 DEF End
  <2>2. QED
    BY <1>7, <2>1 DEF End, TypeOK
<1>8. CASE Environment
  BY <1>8, DiskChanges DEF Environment, TypeOK
<1>9. CASE UNCHANGED vars
  BY <1>9 DEF TypeOK
<1>10. QED
  BY <1>1, <1>2, <1>3, <1>4, <1>5, <1>6, <1>7, <1>8, <1>9
     DEF Next, Handle, Work, Exit, Disconnect, Stopped

(* The server goes back to waiting only when it is through with a message. *)
LEMMA IdleNext == IdleInv /\ [Next]_vars => IdleInv'
  BY DEF IdleInv, Next, Handle, DidOpen, DidChange, DidSave, DidClose, ReanalyzeAll, Work,
     Finish, Reanalyze, Shutdown, Exit, Disconnect, End, Environment, Stopped, vars

(* Every step keeps the analyses of all but the documents queued current:  *)
(* the handlers queue all documents they may have put out of date.         *)
LEMMA AnalysesNext == TypeOK /\ IdleInv /\ AnalysesInv /\ [Next]_vars => AnalysesInv'
<1> SUFFICES ASSUME TypeOK, IdleInv, AnalysesInv, [Next]_vars PROVE AnalysesInv'
  OBVIOUS
<1> USE DEF server, files, vars
<1>1. ASSUME NEW u \in Paths, NEW text \in Texts, DidOpen(u, text) \/ DidChange(u, text)
      PROVE  AnalysesInv'
  <2>1. docs' = With(Canonical(u), text) /\ queue' = DOMAIN docs' /\ UNCHANGED analyses
    BY <1>1 DEF DidOpen, DidChange, ReanalyzeAll
  <2>2. DOMAIN docs \subseteq DOMAIN docs'
    BY <2>1, WithType, CanonicalType
  <2>3. QED
    BY <2>1, <2>2 DEF AnalysesInv
<1>2. ASSUME NEW u \in Paths, DidSave(u) PROVE AnalysesInv'
  BY <1>2 DEF DidSave, ReanalyzeAll, AnalysesInv
<1>3. ASSUME NEW u \in Paths, DidClose(u) PROVE AnalysesInv'
  BY <1>3 DEF DidClose, ReanalyzeAll, Restrict, AnalysesInv
<1>4. ASSUME NEW root \in Paths, Reanalyze(root) PROVE AnalysesInv'
  <2>1. root \in DOMAIN docs
    BY <1>4 DEF Reanalyze, AnalysesInv
  <2>2. UNCHANGED docs /\ queue' = queue \ {root}
    BY <1>4 DEF Reanalyze
  <2>3. QED
    BY <1>4, <2>1, <2>2, ReanalyzeEffect DEF AnalysesInv
<1>5. ASSUME NEW how, End(how) PROVE AnalysesInv'
  BY <1>5 DEF End, AnalysesInv
<1>6. CASE UNCHANGED <<docs, analyses, queue>>
  BY <1>6 DEF AnalysesInv
<1>7. QED
  BY <1>1, <1>2, <1>3, <1>4, <1>5, <1>6 DEF Next, Handle, Work, Finish, Shutdown, Exit,
     Disconnect, Environment, Stopped

(* An analysis depends on the open documents and the disk only.            *)
LEMMA CheckedDepends ==
  ASSUME UNCHANGED <<docs, disk>>, NEW root
  PROVE  Checked(root)' = Checked(root)
BY DEF Checked, Covered, FaultOf, FirstFault, Siblings, Canonical, Read

(* Every step keeps the analyses of all but the documents queued what they *)
(* would be now, or changes the disk.                                      *)
LEMMA SiblingsNext ==
  TypeOK /\ AnalysesInv /\ SiblingsInv /\ [Next]_vars => SiblingsInv'
<1> SUFFICES ASSUME TypeOK, AnalysesInv, SiblingsInv, [Next]_vars, ~touched',
                    NEW p \in DOMAIN docs' \ queue'
             PROVE  analyses'[p] = Checked(p)'
  BY DEF SiblingsInv
<1> USE DEF server, files, vars
<1>1. CASE queue' = DOMAIN docs'
  BY <1>1
<1>2. ASSUME NEW root \in Paths, Reanalyze(root) PROVE analyses'[p] = Checked(p)'
  <2>1. root \in DOMAIN docs /\ UNCHANGED docs /\ queue' = queue \ {root}
    BY <1>2 DEF Reanalyze, AnalysesInv
  <2>2. ~touched /\ UNCHANGED disk /\ analyses'[root] = Checked(root)
    BY <1>2, <2>1, ReanalyzeEffect
  <2>3. Checked(p)' = Checked(p)
    BY <2>1, <2>2, CheckedDepends
  <2>4. CASE p = root
    BY <2>2, <2>3, <2>4
  <2>5. CASE p # root
    <3>1. p \in DOMAIN docs \ queue /\ analyses[p] = Checked(p)
      BY <2>1, <2>2, <2>5 DEF SiblingsInv
    <3>2. analyses'[p] = analyses[p]
      BY <1>2, <2>1, <2>5, <3>1, ReanalyzeEffect DEF AnalysesInv
    <3>3. QED
      BY <2>3, <3>1, <3>2
  <2>6. QED
    BY <2>4, <2>5
<1>3. CASE UNCHANGED <<disk, docs, analyses, queue, touched>>
  <2>1. Checked(p)' = Checked(p)
    BY <1>3, CheckedDepends
  <2>2. QED
    BY <1>3, <2>1 DEF SiblingsInv
<1>4. ASSUME Environment PROVE FALSE
  BY <1>4, DiskChanges DEF Environment
<1>5. ASSUME NEW how, End(how) PROVE queue' = DOMAIN docs'
  BY <1>5 DEF End
<1>6. ASSUME Handle PROVE queue' = DOMAIN docs'
  BY <1>6 DEF Handle, DidOpen, DidChange, DidSave, DidClose, ReanalyzeAll
<1>7. QED
  BY <1>1, <1>2, <1>3, <1>4, <1>5, <1>6 DEF Next, Work, Finish, Shutdown, Exit, Disconnect,
     Stopped

(* Every step keeps what is shown founded, or marked to be cleared.        *)
LEMMA ShownNext == IInv /\ [Next]_vars => ShownInv'
<1> SUFFICES ASSUME IInv, [Next]_vars, mode' \in {"idle", "busy"},
                    NEW p \in Paths, shown'[p] # Clean
             PROVE  \/ Founded(p)'
                    \/ /\ p \in closing'
                       /\ \A root \in DOMAIN analyses' \ queue' : p \notin FoundBy(root)'
  BY DEF ShownInv
<1> USE DEF server, files, vars
<1>m. mode \in {"idle", "busy"}
  BY DEF Next, Handle, DidOpen, DidChange, DidSave, DidClose, Work, Finish, Reanalyze,
     Shutdown, Exit, Disconnect, Environment, Stopped
<1>1. ASSUME UNCHANGED <<analyses, closing, shown>>, queue \subseteq queue'
      PROVE  \/ Founded(p)'
             \/ p \in closing' /\ \A root \in DOMAIN analyses' \ queue' : p \notin FoundBy(root)'
  BY <1>m, <1>1 DEF IInv, ShownInv, Founded, FoundBy
<1>2. ASSUME NEW u \in Paths, DidClose(u)
      PROVE  \/ Founded(p)'
             \/ p \in closing' /\ \A root \in DOMAIN analyses' \ queue' : p \notin FoundBy(root)'
  <2>1. shown'[p] = shown[p] /\ closing = {}
    BY <1>2 DEF DidClose, IInv, IdleInv
  <2>2. PICK root \in DOMAIN analyses : p \in FoundBy(root) /\ analyses[root].found[p] = shown[p]
    BY <1>m, <2>1 DEF IInv, ShownInv, Founded
  <2>3. DOMAIN analyses' \subseteq queue'
    BY <1>2 DEF DidClose, ReanalyzeAll, Restrict, IInv, AnalysesInv
  <2>4. CASE root = Canonical(u)
    BY <1>2, <2>2, <2>3, <2>4 DEF DidClose
  <2>5. CASE root # Canonical(u)
    <3>1. root \in DOMAIN analyses' /\ analyses'[root] = analyses[root]
      BY <1>2, <2>5 DEF DidClose, Restrict
    <3>2. QED
      BY <2>1, <2>2, <3>1 DEF Founded, FoundBy
  <2>6. QED
    BY <2>4, <2>5
<1>3. ASSUME NEW root \in Paths, Reanalyze(root)
      PROVE  \/ Founded(p)'
             \/ p \in closing' /\ \A r \in DOMAIN analyses' \ queue' : p \notin FoundBy(r)'
  <2>1. root \in DOMAIN docs /\ TypeOK
    BY <1>3 DEF Reanalyze, IInv, AnalysesInv
  <2>2. root \in DOMAIN analyses' /\ FoundBy(root)' = DOMAIN analyses'[root].found
    BY <1>3, <2>1, ReanalyzeEffect DEF FoundBy
  <2>3. CASE p \in FoundBy(root)'
    <3>1. shown'[p] = analyses'[root].found[p]
      BY <1>3, <2>1, <2>2, <2>3, ReanalyzeEffect
    <3>2. QED
      BY <2>2, <2>3, <3>1 DEF Founded
  <2>4. CASE p \notin FoundBy(root)'
    <3>1. shown'[p] = shown[p] /\ p \notin FoundBy(root)
      <4>1. shown' = [q \in Paths |->
                       IF q \in DOMAIN analyses'[root].found THEN analyses'[root].found[q]
                       ELSE IF q \in FoundBy(root) THEN Clean ELSE shown[q]]
        BY <1>3, <2>1, ReanalyzeEffect
      <4>2. QED
        BY <2>2, <2>4, <4>1
    <3>2. \A r \in DOMAIN analyses : r # root =>
             r \in DOMAIN analyses' /\ analyses'[r] = analyses[r] /\ FoundBy(r)' = FoundBy(r)
      BY <1>3, <2>1, ReanalyzeEffect DEF FoundBy
    <3>3. DOMAIN analyses' = DOMAIN analyses \cup {root}
      BY <1>3, <2>1, ReanalyzeEffect
    <3>4. CASE Founded(p)
      BY <3>1, <3>2, <3>4 DEF Founded
    <3>5. CASE p \in closing /\ \A r \in DOMAIN analyses \ queue : p \notin FoundBy(r)
      BY <1>3, <2>4, <3>2, <3>3, <3>5 DEF Reanalyze
    <3>6. QED
      BY <1>m, <3>1, <3>4, <3>5 DEF IInv, ShownInv
  <2>5. QED
    BY <2>3, <2>4
<1>4. CASE Finish
  <2>1. queue = {} /\ UNCHANGED analyses
    BY <1>4 DEF Finish
  <2>2. /\ shown'[p] = shown[p]
        /\ ~(p \in closing /\ \A root \in DOMAIN analyses : p \notin FoundBy(root))
    BY <1>4 DEF Finish
  <2>3. Founded(p)
    BY <1>m, <2>1, <2>2 DEF IInv, ShownInv
  <2>4. QED
    BY <2>1, <2>2, <2>3 DEF Founded, FoundBy
<1>5. ASSUME NEW u \in Paths, NEW text \in Texts, DidOpen(u, text) \/ DidChange(u, text)
      PROVE  UNCHANGED <<analyses, closing, shown>> /\ queue \subseteq queue'
  BY <1>5 DEF DidOpen, DidChange, IInv, IdleInv
<1>6. ASSUME NEW u \in Paths, DidSave(u)
      PROVE  UNCHANGED <<analyses, closing, shown>> /\ queue \subseteq queue'
  BY <1>6 DEF DidSave, IInv, IdleInv
<1>7. ASSUME NEW how \in {"success", "failure"}, End(how) PROVE FALSE
  BY <1>7 DEF End
<1>8. QED
  BY <1>1, <1>2, <1>3, <1>4, <1>5, <1>6, <1>7 DEF Next, Handle, Work, Shutdown, Exit,
     Disconnect, Environment, Stopped

----------------------------------------------------------------------------
(* IInv holds in every state the server can reach.                         *)
THEOREM Invariant == Spec => []IInv
<1>1. Init => IInv
  <2> SUFFICES ASSUME Init PROVE IInv
    OBVIOUS
  <2>1. DOMAIN docs = {} /\ DOMAIN analyses = {}
    BY DEF Init
  <2>2. docs \in UNION {[S -> Texts] : S \in SUBSET Paths}
    BY <2>1
  <2>3. shown \in [Paths -> Levels] /\ saves \in 0 .. MaxSaves /\ notes \in 0 .. MaxNotes
    BY Parameters DEF Init, Levels, Clean
  <2>4. TypeOK
    BY <2>1, <2>2, <2>3 DEF Init, TypeOK
  <2>5. IdleInv /\ AnalysesInv /\ SiblingsInv /\ ShownInv
    BY DEF Init, IdleInv, AnalysesInv, SiblingsInv, ShownInv
  <2>6. QED
    BY <2>4, <2>5 DEF IInv
<1>2. IInv /\ [Next]_vars => IInv'
  BY TypeNext, IdleNext, AnalysesNext, SiblingsNext, ShownNext DEF IInv
<1>3. QED
  BY <1>1, <1>2, PTL DEF Spec

(* Every variable keeps its type, for any program and any messages.        *)
THEOREM TypeCorrect == Spec => []TypeOK
<1>1. IInv => TypeOK
  BY DEF IInv
<1>2. QED
  BY <1>1, Invariant, PTL

(* Between messages each open document, and no other, has an analysis, made*)
(* from its present text: hover and definition read no stale tree.         *)
THEOREM AnalysesAreCurrent == Spec => []AnalysesCurrent
<1>1. IInv => AnalysesCurrent
  BY DEF IInv, IdleInv, AnalysesInv, AnalysesCurrent
<1>2. QED
  BY <1>1, Invariant, PTL

(* Between messages nothing is shown that a document still open has not    *)
(* found, whatever the order of re-analysis and whatever changed on disk   *)
(* meanwhile.                                                              *)
THEOREM NoDiagnosticIsStale == Spec => []NothingStale
<1>1. IInv => NothingStale
  BY DEF IInv, IdleInv, ShownInv, Founded, NothingStale
<1>2. QED
  BY <1>1, Invariant, PTL

(* Between messages, unless the disk has changed since the last one, each  *)
(* open document's analysis is the one that analysing it now would give:   *)
(* every message that changes a document has reached all that read it.     *)
THEOREM SiblingsAreCurrent == Spec => []SiblingsCurrent
<1>1. IInv => SiblingsCurrent
  BY DEF IInv, IdleInv, AnalysesInv, SiblingsInv, SiblingsCurrent
<1>2. QED
  BY <1>1, Invariant, PTL
=============================================================================
