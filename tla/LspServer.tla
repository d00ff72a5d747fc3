------------------------------ MODULE LspServer -----------------------------
(***************************************************************************)
(* src/src/lsp/mod.rs: the language server.  A single loop reads a message *)
(* and handles it to the end; a handler that changes the open documents    *)
(* re-analyses every one of them, in the order of a HashMap, and publishes *)
(* what each analysis found.  The client shows, per path, the last list    *)
(* published for it.                                                       *)
(*                                                                         *)
(* A path is a directory and a name; the directory Real may also be        *)
(* reached through symbolic links.  Files appear, change and vanish on     *)
(* disk between any two steps of the server.                               *)
(***************************************************************************)
EXTENDS Naturals, Functions

CONSTANTS
  Names,      \* names of .ybm files
  Dirs,       \* the names of the one directory they are in ...
  Real,       \* ... and the canonical one among them
  Texts,      \* what a file may hold, see TextType
  MaxSaves,   \* bound on changes on disk
  MaxNotes    \* bound on didOpen and didChange notifications

(* What an analysis tells apart about a text: whether it begins with the   *)
(* module directive, its own fault (Clean, a Syntax or a Lint fault), and  *)
(* the sibling modules whose definitions it uses.                          *)
Clean == 0
Syntax == 1
Missing == 2
Lint == 3
Unreadable == 4
Levels == 0 .. 4
TextType == [module : BOOLEAN, fault : {Clean, Syntax, Lint}, uses : SUBSET Names]

ASSUME Parameters ==
  /\ Real \in Dirs
  /\ Texts \subseteq TextType
  /\ MaxSaves \in Nat /\ MaxNotes \in Nat

Paths == [dir : Dirs, name : Names]
Trees == UNION {[S -> Texts] : S \in SUBSET Names}

VARIABLES
  disk,                \* the files on disk: name -> text
  opened,              \* the documents the client has open, by the path of their URI
  docs,                \* state.docs: path -> text
  analyses,            \* state.analyses: path -> what its analysis found
  shutdown_requested,
  queue,               \* the paths reanalyze_all still has to visit
  closing,             \* did_close's paths to clear afterwards
  mode,                \* "idle", "busy", or how the server ended
  shown,               \* the client's list for each path: its level, 0 when empty
  touched,             \* history: the disk has changed since the queue was filled
  saves, notes         \* counters for the bounds

server == <<docs, analyses, shutdown_requested>>
files == <<disk, saves>>
vars == <<disk, opened, docs, analyses, shutdown_requested, queue, closing, mode, shown,
          touched, saves, notes>>

Canonical(p) == IF p.name \in DOMAIN disk THEN [p EXCEPT !.dir = Real] ELSE p

Read(p) == IF p \in DOMAIN docs THEN docs[p] ELSE disk[p.name]

(* The modules next to an entry; an open document's text takes precedence. *)
Siblings(entry) ==
  {p \in [dir : {entry.dir}, name : Names \ {entry.name}] :
     (p \in DOMAIN docs \/ p.name \in DOMAIN disk) /\ Read(p).module}

(* An analysis covers the root and its siblings.  Each phase runs only     *)
(* when the ones before it found nothing in any file.                      *)
Covered(root) == {root} \cup Siblings(Canonical(root))

FaultOf(p, covered) ==
  IF Read(p).fault # Syntax /\ ~(Read(p).uses \subseteq {q.name : q \in covered})
    THEN Missing
    ELSE Read(p).fault

FirstFault(covered) ==
  LET found == {FaultOf(p, covered) : p \in covered} \ {Clean}
  IN  IF found = {} THEN Clean ELSE CHOOSE l \in found : \A m \in found : l <= m

Checked(root) ==
  LET covered == Covered(root)
  IN  [text |-> docs[root],
       found |-> [p \in covered |->
                    IF FaultOf(p, covered) = FirstFault(covered)
                      THEN FirstFault(covered) ELSE Clean]]

(* A sibling found on disk is gone by the time it is read.                 *)
Io(root, sibling) == [text |-> docs[root], found |-> [p \in {sibling} |-> Unreadable]]

----------------------------------------------------------------------------
Init ==
  /\ disk \in Trees
  /\ opened = {}
  /\ docs = <<>>
  /\ analyses = <<>>
  /\ shutdown_requested = FALSE
  /\ queue = {}
  /\ closing = {}
  /\ mode = "idle"
  /\ shown = [p \in Paths |-> Clean]
  /\ touched = FALSE
  /\ saves = 0
  /\ notes = 0

(* Requests that change nothing (initialize, hover, definition,            *)
(* formatting, errors) are answered in one step and leave no trace here.   *)

With(p, text) == [q \in DOMAIN docs \cup {p} |-> IF q = p THEN text ELSE docs[q]]

ReanalyzeAll(paths) ==
  /\ queue' = paths
  /\ mode' = "busy"
  /\ touched' = FALSE

DidOpen(u, text) ==
  /\ mode = "idle"
  /\ notes < MaxNotes
  /\ u \notin opened
  /\ opened' = opened \cup {u}
  /\ docs' = With(Canonical(u), text)
  /\ ReanalyzeAll(DOMAIN docs')
  /\ notes' = notes + 1
  /\ UNCHANGED <<disk, analyses, shutdown_requested, closing, shown, saves>>

DidChangeOthersOnly(u, text) ==        \* mutant: the changed document is skipped
  /\ mode = "idle"
  /\ notes < MaxNotes
  /\ u \in opened
  /\ docs' = With(Canonical(u), text)
  /\ ReanalyzeAll(DOMAIN docs' \ {Canonical(u)})
  /\ notes' = notes + 1
  /\ UNCHANGED <<disk, opened, analyses, shutdown_requested, closing, shown, saves>>

DidChangeItselfOnly(u, text) ==        \* mutant: the others that read it are not analysed
  /\ mode = "idle"
  /\ notes < MaxNotes
  /\ u \in opened
  /\ docs' = With(Canonical(u), text)
  /\ ReanalyzeAll({Canonical(u)})
  /\ notes' = notes + 1
  /\ UNCHANGED <<disk, opened, analyses, shutdown_requested, closing, shown, saves>>

DidChange(u, text) ==
  /\ mode = "idle"
  /\ notes < MaxNotes
  /\ u \in opened
  /\ docs' = With(Canonical(u), text)
  /\ ReanalyzeAll(DOMAIN docs')
  /\ notes' = notes + 1
  /\ UNCHANGED <<disk, opened, analyses, shutdown_requested, closing, shown, saves>>

(* The client has written the buffer; the server only re-analyses.         *)
DidSave(u) ==
  /\ mode = "idle"
  /\ u \in opened
  /\ Canonical(u) \in DOMAIN docs
  /\ ReanalyzeAll(DOMAIN docs)
  /\ UNCHANGED <<disk, opened, server, closing, shown, saves, notes>>

FoundBy(root) == IF root \in DOMAIN analyses THEN DOMAIN analyses[root].found ELSE {}

DidCloseReanalyzesIt(u) ==             \* mutant: the paths are taken before the removal
  /\ mode = "idle"
  /\ u \in opened
  /\ opened' = opened \ {u}
  /\ LET p == Canonical(u) IN
       /\ docs' = Restrict(docs, DOMAIN docs \ {p})
       /\ analyses' = Restrict(analyses, DOMAIN analyses \ {p})
       /\ closing' = FoundBy(p) \cup {p}
  /\ ReanalyzeAll(DOMAIN docs)
  /\ UNCHANGED <<disk, shutdown_requested, shown, saves, notes>>

DidClose(u) ==
  /\ mode = "idle"
  /\ u \in opened
  /\ opened' = opened \ {u}
  /\ LET p == Canonical(u) IN
       /\ docs' = Restrict(docs, DOMAIN docs \ {p})
       /\ analyses' = Restrict(analyses, DOMAIN analyses \ {p})
       /\ closing' = FoundBy(p) \cup {p}
  /\ ReanalyzeAll(DOMAIN docs')
  /\ UNCHANGED <<disk, shutdown_requested, shown, saves, notes>>

(* The environment: a file is written or removed.                          *)
ChangeOnDisk(tree) ==
  /\ saves < MaxSaves
  /\ disk' = tree
  /\ saves' = saves + 1
  /\ touched' = TRUE

Vanish(n) == n \in DOMAIN disk /\ ChangeOnDisk(Restrict(disk, DOMAIN disk \ {n}))

Write(n, text) ==
  ChangeOnDisk([m \in DOMAIN disk \cup {n} |-> IF m = n THEN text ELSE disk[m]])

PublishFoundOnly(root, analysis) ==    \* mutant: paths no longer covered are kept
  shown' = [p \in Paths |->
              IF p \in DOMAIN analysis.found THEN analysis.found[p] ELSE shown[p]]

(* reanalyze: the paths the root's last analysis covered and this one does *)
(* not are cleared, then what this one found is published.                 *)
Publish(root, analysis) ==
  shown' = [p \in Paths |->
              IF p \in DOMAIN analysis.found THEN analysis.found[p]
              ELSE IF p \in FoundBy(root) THEN Clean
              ELSE shown[p]]

Record(root, analysis) ==
  /\ Publish(root, analysis)
  /\ analyses' = [p \in DOMAIN analyses \cup {root} |->
                    IF p = root THEN analysis ELSE analyses[p]]

ReanalyzeRequeues(root) ==             \* mutant: the root is not taken off the list
  /\ mode = "busy"
  /\ root \in queue
  /\ \/ Record(root, Checked(root)) /\ UNCHANGED <<files, touched>>
     \/ \E p \in (Covered(root) \ {root}) \ DOMAIN docs :
          Vanish(p.name) /\ Record(root, Io(root, p))
  /\ UNCHANGED <<opened, docs, shutdown_requested, queue, closing, mode, notes>>

Reanalyze(root) ==
  /\ mode = "busy"
  /\ root \in queue
  /\ \/ Record(root, Checked(root)) /\ UNCHANGED <<files, touched>>
     \/ \E p \in (Covered(root) \ {root}) \ DOMAIN docs :
          Vanish(p.name) /\ Record(root, Io(root, p))
  /\ queue' = queue \ {root}
  /\ UNCHANGED <<opened, docs, shutdown_requested, closing, mode, notes>>

(* The handler ends: did_close clears the paths no analysis covers now.    *)
Finish ==
  /\ mode = "busy"
  /\ queue = {}
  /\ shown' = [p \in Paths |->
                 IF p \in closing /\ \A root \in DOMAIN analyses : p \notin FoundBy(root)
                   THEN Clean ELSE shown[p]]
  /\ closing' = {}
  /\ mode' = "idle"
  /\ UNCHANGED <<files, opened, server, queue, touched, notes>>

Shutdown ==
  /\ mode = "idle"
  /\ shutdown_requested' = TRUE
  /\ UNCHANGED <<files, opened, docs, analyses, queue, closing, mode, shown, touched, notes>>

(* The process is gone and its memory with it; the client keeps what it    *)
(* shows.                                                                  *)
End(how) ==
  /\ mode' = how
  /\ docs' = <<>> /\ analyses' = <<>> /\ shutdown_requested' = FALSE
  /\ queue' = {} /\ closing' = {}
  /\ UNCHANGED <<files, opened, shown, touched, notes>>

Exit ==
  /\ mode = "idle"
  /\ End(IF shutdown_requested THEN "success" ELSE "failure")

(* The client's end of the pipe closes: between messages, within one, or   *)
(* while the server writes.                                                *)
Disconnect ==
  \/ mode = "idle" /\ \E how \in {"success", "failure"} : End(how)
  \/ mode = "busy" /\ End("failure")

Environment ==
  /\ mode \in {"idle", "busy"}
  /\ \E n \in Names : Vanish(n) \/ \E text \in Texts : Write(n, text)
  /\ UNCHANGED <<opened, server, queue, closing, mode, shown, notes>>

Handle ==
  \/ \E u \in Paths, text \in Texts : DidOpen(u, text) \/ DidChange(u, text)
  \/ \E u \in Paths : DidSave(u) \/ DidClose(u)
Work == Finish \/ \E root \in Paths : Reanalyze(root)
Stopped == mode \in {"success", "failure"} /\ UNCHANGED vars

Next == Handle \/ Work \/ Shutdown \/ Exit \/ Disconnect \/ Environment \/ Stopped

Spec == Init /\ [][Next]_vars

(* The loop never blocks while it handles a message: no lock, no wait.     *)
Fairness == WF_vars(Work)

FairSpec == Spec /\ Fairness

----------------------------------------------------------------------------
(* Every variable has its type.                                            *)
TypeOK ==
  /\ disk \in Trees
  /\ opened \in SUBSET Paths
  /\ docs \in UNION {[S -> Texts] : S \in SUBSET Paths}
  /\ DOMAIN analyses \in SUBSET Paths
  /\ \A p \in DOMAIN analyses :
       /\ analyses[p].text \in Texts
       /\ DOMAIN analyses[p].found \in SUBSET Paths
       /\ \A q \in DOMAIN analyses[p].found : analyses[p].found[q] \in Levels
  /\ shutdown_requested \in BOOLEAN
  /\ queue \in SUBSET DOMAIN docs
  /\ closing \in SUBSET Paths
  /\ mode \in {"idle", "busy", "success", "failure"}
  /\ shown \in [Paths -> Levels] /\ touched \in BOOLEAN
  /\ saves \in 0 .. MaxSaves /\ notes \in 0 .. MaxNotes

(* Between messages every open document has an analysis, made from the     *)
(* text the client last sent: hover and definition convert positions       *)
(* against that text.  No closed document keeps one.                       *)
AnalysesCurrent ==
  mode = "idle" => /\ DOMAIN analyses = DOMAIN docs
                   /\ \A p \in DOMAIN docs : analyses[p].text = docs[p]

(* Between messages, whatever the client shows for a path is what a        *)
(* document that is still open has found there: no stale diagnostics, of   *)
(* closed documents, of siblings that are modules no more, or of vanished  *)
(* files.                                                                  *)
NothingStale ==
  mode = "idle" =>
    \A p \in Paths : shown[p] # Clean =>
      \E root \in DOMAIN analyses :
        p \in FoundBy(root) /\ analyses[root].found[p] = shown[p]

(* docs/LSP.md: "open sibling overlays take precedence over files on       *)
(* disk".  Unless the disk has changed since the last notification, every  *)
(* analysis is the one that analysing its document now would give:         *)
(* opening, editing or closing a document has reached all the others that  *)
(* read it.                                                                *)
SiblingsCurrent ==
  (mode = "idle" /\ ~touched) =>
    \A root \in DOMAIN docs : root \in DOMAIN analyses /\ analyses[root] = Checked(root)

(* docs/LSP.md: an open document is an analysis root and has "Diagnostics  *)
(* after" each change; did_close's comment: a path is cleared when it is   *)
(* "no longer covered by any remaining open analysis".  An open document   *)
(* in which every analysis that covers it finds something, its own first,  *)
(* is not left with an empty list.                                         *)
OpenDocumentShown ==
  mode = "idle" =>
    \A p \in DOMAIN docs :
      (\A root \in DOMAIN analyses :
         p \in FoundBy(root) => analyses[root].found[p] # Clean)
      => (p \in FoundBy(p) => shown[p] # Clean)

(* Every notification is digested, unless the connection breaks: the       *)
(* server gets back to reading.                                            *)
Responsive == (mode = "busy") ~> (mode # "busy")
=============================================================================
