--------------------------- MODULE FmtApplyProofs --------------------------
(***************************************************************************)
(* Theorems about FmtApply, for any number of files, failing system calls  *)
(* and saves, and for whatever earlier runs left in the way: its types, the*)
(* four promises of `ybm check --apply`, and that every run comes to an end*)
(* within a number of system calls the number of files bounds.             *)
(***************************************************************************)
EXTENDS FmtApply, FiniteSetTheorems, WellFoundedInduction, TLAPS

Stages == {"stage", "create", "write", "discard"}
Swaps  == {"commit", "install", "restore", "drop"}
Rolls  == {"rollback", "rename"}

(* The files whose backup has, or may still have, to be renamed back.      *)
Held(f) ==
  \/ phase \in Swaps /\ f \in changed /\ f < at
  \/ phase \in {"install", "restore"} /\ f = at
  \/ phase \in Rolls /\ f \in todo

(* The cursors point at files that have something to write.                *)
CursorInv ==
  /\ todo \subseteq changed /\ rest \subseteq changed
  /\ phase \in {"create", "write", "discard", "install", "restore", "drop"} => at \in changed
  /\ phase = "rename" => todo # {}

(* A temporary is complete once staged and gone once swapped in.           *)
TempInv ==
  /\ phase \in Stages => \A f \in changed : f < at => temp[f] = "formatted"
  /\ phase \in Swaps => \A f \in changed :
       /\ f > at => temp[f] = "formatted"
       /\ f < at => temp[f] = "none"
  /\ phase \in {"commit", "install"} /\ at \in changed => temp[at] = "formatted"
  /\ phase \in {"unlink", "success"} => \A f \in changed : temp[f] = "none"

(* What a file swapped in holds, and that its backup is there to go back   *)
(* to.                                                                     *)
SwapInv ==
  /\ phase \in Swaps =>
       \A f \in changed : f < at => path[f] \in {"formatted", "edited"}
  /\ phase \in {"unlink", "success"} => Committed
  /\ \A f \in Files : Held(f) => backup[f] \in Texts
  /\ phase = "unlink" /\ ok => \A f \in changed \ todo : backup[f] = "none"
  /\ phase = "success" => \A f \in changed : backup[f] = "none"

(* Without an editor, a backup in use is the file's old text, and until all*)
(* are committed no file's old text is anywhere else than at its name or in*)
(* its backup.                                                             *)
Kept(f) == path[f] = "original" \/ backup[f] = "original"
LossInv ==
  edits = 0 =>
    /\ \A f \in Files : Held(f) => backup[f] = "original"
    /\ phase \in Stages \cup {"unstage"} \cup Swaps \cup Rolls => \A f \in Files : Kept(f)
    /\ NeverLost

(* A file as it was found, and the files that are not and that the run     *)
(* will not put back any more.                                             *)
Intact(f) == path[f] = "original" /\ backup[f] \in {"none", "foreign"}
Spoiled == {f \in Files : ~ Intact(f) /\ ~ Held(f)}

(* Without an editor, nothing is spoiled before a rename fails, and a      *)
(* rename has failed when files are put back.                              *)
IntactInv ==
  edits = 0 =>
    /\ phase \in Stages \cup {"commit", "install", "restore"} =>
         \A f \in Files : Intact(f) \/ Held(f)
    /\ phase \in {"restore", "drop"} \cup Rolls => faults > 0

(* From then on each further failing call spoils one file at most.         *)
FewSpoiled == Spoiled = {} \/ Cardinality(Spoiled) < faults
SpoilInv ==
  edits = 0 /\ phase \in Stages \cup Swaps \cup Rolls \cup {"unstage", "failure"} =>
    \/ FewSpoiled
    \/ phase = "failure" /\ Committed

(* The temporaries and backups the run still means to remove.              *)
WillDropTemp(f) ==
  \/ phase \in {"stage", "create"} /\ f \in changed /\ f < at
  \/ phase \in {"write", "discard"} /\ f \in changed /\ f <= at
  \/ phase = "unstage" /\ f \in todo
  \/ phase \in Swaps /\ f \in changed /\ f >= at
  \/ phase \in Rolls /\ f \in rest
WillDropBackup(f) == Held(f) \/ (phase = "unlink" /\ f \in todo)

(* All others stay, and each of them goes back to a failing call.          *)
StrayTemps   == {f \in Files : temp[f] \in {"partial", "formatted"} /\ ~WillDropTemp(f)}
StrayBackups == {f \in Files : backup[f] \in Texts \ {"none"} /\ ~WillDropBackup(f)}
LitterInv ==
  phase # "killed" => Cardinality(StrayTemps) + Cardinality(StrayBackups) <= faults

IInv == /\ TypeOK /\ CursorInv /\ TempInv /\ SwapInv
        /\ LossInv /\ IntactInv /\ SpoilInv /\ LitterInv

----------------------------------------------------------------------------
(* A set of natural numbers that is not empty has a least element.         *)
LEMMA LeastExists ==
  ASSUME NEW S, S \subseteq Nat, S # {}
  PROVE  \E x \in S : \A y \in S : x <= y
<1>1. PICK x \in S : \A y \in S : ~ (<<y, x>> \in OpToRel(<, Nat))
  BY NatLessThanWellFounded, WFMin, Zenon
<1>2. ASSUME NEW y \in S PROVE x <= y
  <2>1. ~ (y < x)
    BY <1>1 DEF OpToRel
  <2>2. QED
    BY <2>1
<1>3. QED
  BY <1>2

(* The same from above, for indices up to a bound.                         *)
LEMMA GreatestExists ==
  ASSUME NEW S, NEW n \in Nat, S \subseteq 1 .. n, S # {}
  PROVE  \E x \in S : \A y \in S : x >= y
<1> DEFINE T == {t \in Nat : n - t \in S}
<1>1. T # {}
  <2>1. PICK x \in S : TRUE
    OBVIOUS
  <2>2. x \in 1 .. n /\ n - (n - x) = x /\ n - x \in Nat
    OBVIOUS
  <2>3. QED
    BY <2>2
<1>2. PICK t \in T : \A u \in T : t <= u
  BY <1>1, LeastExists
<1>3. QED
  BY <1>2

(* The two clean-up loops visit a file that is on their list.              *)
LEMMA FirstAndLast ==
  ASSUME NEW S, S \subseteq Files, S # {}
  PROVE  First(S) \in S /\ Last(S) \in S
<1>1. \E x \in S : \A y \in S : x <= y
  <2>1. S \subseteq Nat
    BY DEF Files
  <2>2. QED
    BY <2>1, LeastExists
<1>2. \E x \in S : \A y \in S : x >= y
  BY GreatestExists, Parameters DEF Files
<1>3. QED
  BY <1>1, <1>2 DEF First, Last

----------------------------------------------------------------------------
(* Every step of staging, committing, rolling back and unlinking keeps the *)
(* cursors on files that have something to write.                          *)
LEMMA CursorNext == IInv /\ [Next]_vars => CursorInv'
<1> SUFFICES ASSUME IInv, [Next]_vars PROVE CursorInv'
  OBVIOUS
<1> USE Parameters DEF Goes, Fails, GiveUpStaging, RollBack, inputs, disk, cursors, vars, Ended
<1>i. TypeOK /\ CursorInv /\ TempInv /\ SwapInv /\ LossInv /\ IntactInv /\ LitterInv
  BY DEF IInv
<1>1. CASE StageSkip
  BY <1>1, <1>i DEF StageSkip, CursorInv
<1>2. CASE StageProbe
  BY <1>2, <1>i DEF StageProbe, CursorInv
<1>3. CASE StageCreate
  BY <1>3, <1>i DEF StageCreate, CursorInv
<1>4. CASE StageWrite
  BY <1>4, <1>i DEF StageWrite, CursorInv
<1>5. CASE StageDiscard
  BY <1>5, <1>i DEF StageDiscard, CursorInv
<1>6. CASE Unstage
  BY <1>6, <1>i DEF Unstage, CursorInv
<1>7. CASE StagingOver
  BY <1>7, <1>i DEF StagingOver, CursorInv
<1>8. CASE CommitSkip
  BY <1>8, <1>i DEF CommitSkip, CursorInv
<1>9. CASE MoveAway
  BY <1>9, <1>i DEF MoveAway, CursorInv
<1>10. CASE Install
  BY <1>10, <1>i DEF Install, CursorInv
<1>11. CASE Restore
  BY <1>11, <1>i DEF Restore, CursorInv
<1>12. CASE DropTemp
  BY <1>12 DEF DropTemp, CursorInv
<1>13. CASE RollbackRemove
  BY <1>13, <1>i DEF RollbackRemove, CursorInv
<1>14. CASE RollbackRename
  BY <1>14, <1>i DEF RollbackRename, CursorInv
<1>15. CASE CleanUp
  BY <1>15, <1>i DEF CleanUp, CursorInv
<1>16. CASE CommitOver
  BY <1>16, <1>i DEF CommitOver, CursorInv
<1>17. CASE UnlinkBackup
  BY <1>17, <1>i DEF UnlinkBackup, CursorInv
<1>18. CASE End
  BY <1>18, <1>i DEF End, CursorInv
<1>19. CASE Kill
  BY <1>19, <1>i DEF Kill, CursorInv
<1>20. ASSUME NEW f \in Files, Save(f) PROVE CursorInv'
  BY <1>20, <1>i DEF Save, CursorInv
<1>21. CASE UNCHANGED vars
  BY <1>21, <1>i DEF CursorInv
<1>22. QED
  BY <1>1, <1>2, <1>3, <1>4, <1>5, <1>6, <1>7, <1>8, <1>9, <1>10, <1>11, <1>12, <1>13, <1>14,
     <1>15, <1>16, <1>17, <1>18, <1>19, <1>20, <1>21 DEF Next, Staging, Commit, Stopped

(* Every step keeps the types: what is renamed to a file's name is a text. *)
LEMMA TypeNext == IInv /\ [Next]_vars => TypeOK'
<1> SUFFICES ASSUME IInv, [Next]_vars PROVE TypeOK'
  OBVIOUS
<1> USE Parameters DEF Goes, Fails, GiveUpStaging, RollBack, inputs, disk, cursors, vars, Ended
<1>i. TypeOK /\ CursorInv /\ TempInv /\ SwapInv /\ LossInv /\ IntactInv /\ LitterInv
  BY DEF IInv
<1>s. todo' \in SUBSET Files /\ rest' \in SUBSET Files /\ UNCHANGED inputs
  <2>1. UNCHANGED inputs
    BY DEF Next, Staging, Commit, Stopped, StageSkip, StageProbe, StageCreate, StageWrite,
       StageDiscard, Unstage, StagingOver, CommitSkip, MoveAway, Install, Restore, DropTemp,
       RollbackRemove, RollbackRename, CleanUp, CommitOver, UnlinkBackup, End, Kill, Save
  <2>2. QED
    BY <2>1, <1>i, CursorNext DEF CursorInv, TypeOK
<1>f. todo # {} => First(todo) \in todo /\ Last(todo) \in todo
  BY <1>i, FirstAndLast DEF TypeOK
<1>1. CASE StageSkip
  BY <1>1, <1>i DEF StageSkip, TypeOK, Files
<1>2. CASE StageProbe
  BY <1>2, <1>i, <1>s DEF StageProbe, TypeOK
<1>3. CASE StageCreate
  BY <1>3, <1>i DEF StageCreate, TypeOK
<1>4. CASE StageWrite
  BY <1>4, <1>i, <1>s DEF StageWrite, TypeOK, CursorInv, Files
<1>5. CASE StageDiscard
  BY <1>5, <1>i, <1>s DEF StageDiscard, TypeOK
<1>6. CASE Unstage
  BY <1>6, <1>i, <1>s DEF Unstage, TypeOK
<1>7. CASE StagingOver
  BY <1>7, <1>i DEF StagingOver, TypeOK
<1>8. CASE CommitSkip
  BY <1>8, <1>i DEF CommitSkip, TypeOK, Files
<1>9. CASE MoveAway
  <2>1. phase' \in {"stage", "create", "write", "discard", "unstage", "commit", "install",
                    "restore", "drop", "rollback", "rename", "unlink",
                    "success", "failure", "killed"}
    BY <1>9 DEF MoveAway
  <2>2. /\ at' \in 1 .. N + 1 /\ faults' \in 0 .. MaxFaults /\ edits' \in 0 .. MaxEdits
        /\ ok' \in BOOLEAN
    BY <1>9, <1>i DEF MoveAway, TypeOK
  <2>3. /\ path' \in [Files -> Texts]
        /\ temp' \in [Files -> {"none", "partial", "formatted", "foreign"}]
        /\ backup' \in [Files -> Texts \cup {"foreign"}]
    BY <1>9, <1>i DEF MoveAway, TypeOK, Texts
  <2>4. QED
    BY <2>1, <2>2, <2>3, <1>i, <1>s DEF TypeOK
<1>10. CASE Install
  <2>1. phase' \in {"stage", "create", "write", "discard", "unstage", "commit", "install",
                    "restore", "drop", "rollback", "rename", "unlink",
                    "success", "failure", "killed"}
    BY <1>10 DEF Install
  <2>2. /\ at' \in 1 .. N + 1 /\ faults' \in 0 .. MaxFaults /\ edits' \in 0 .. MaxEdits
        /\ ok' \in BOOLEAN
    BY <1>10, <1>i DEF Install, TypeOK, Files, CursorInv
  <2>3. /\ path' \in [Files -> Texts]
        /\ temp' \in [Files -> {"none", "partial", "formatted", "foreign"}]
        /\ backup' \in [Files -> Texts \cup {"foreign"}]
    BY <1>10, <1>i DEF Install, TypeOK, Texts, CursorInv, TempInv
  <2>4. QED
    BY <2>1, <2>2, <2>3, <1>i, <1>s DEF TypeOK
<1>11. CASE Restore
  BY <1>11, <1>i, <1>s DEF Restore, TypeOK, SwapInv, Held, Texts
<1>12. CASE DropTemp
  BY <1>12, <1>i, <1>s DEF DropTemp, TypeOK
<1>13. CASE RollbackRemove
  BY <1>13, <1>i, <1>s DEF RollbackRemove, TypeOK, Texts
<1>14. CASE RollbackRename
  <2>1. phase' \in {"stage", "create", "write", "discard", "unstage", "commit", "install",
                    "restore", "drop", "rollback", "rename", "unlink",
                    "success", "failure", "killed"}
    BY <1>14 DEF RollbackRename
  <2>2. /\ at' \in 1 .. N + 1 /\ faults' \in 0 .. MaxFaults /\ edits' \in 0 .. MaxEdits
        /\ ok' \in BOOLEAN
    BY <1>14, <1>i DEF RollbackRename, TypeOK
  <2>3. /\ path' \in [Files -> Texts]
        /\ temp' \in [Files -> {"none", "partial", "formatted", "foreign"}]
        /\ backup' \in [Files -> Texts \cup {"foreign"}]
    BY <1>14, <1>i, <1>f DEF RollbackRename, TypeOK, Texts, CursorInv, SwapInv, Held, Rolls
  <2>4. QED
    BY <2>1, <2>2, <2>3, <1>i, <1>s DEF TypeOK
<1>15. CASE CleanUp
  BY <1>15, <1>i DEF CleanUp, TypeOK
<1>16. CASE CommitOver
  BY <1>16, <1>i DEF CommitOver, TypeOK
<1>17. CASE UnlinkBackup
  <2>1. phase' \in {"stage", "create", "write", "discard", "unstage", "commit", "install",
                    "restore", "drop", "rollback", "rename", "unlink",
                    "success", "failure", "killed"}
    BY <1>17 DEF UnlinkBackup
  <2>2. /\ at' \in 1 .. N + 1 /\ faults' \in 0 .. MaxFaults /\ edits' \in 0 .. MaxEdits
    BY <1>17, <1>i DEF UnlinkBackup, TypeOK
  <2>3. /\ path' \in [Files -> Texts]
        /\ temp' \in [Files -> {"none", "partial", "formatted", "foreign"}]
        /\ backup' \in [Files -> Texts \cup {"foreign"}]
    BY <1>17, <1>i DEF UnlinkBackup, TypeOK, Texts
  <2>4. ok' \in BOOLEAN
    BY <1>17, <1>i, Zenon DEF UnlinkBackup, TypeOK
  <2>5. QED
    BY <2>1, <2>2, <2>3, <2>4, <1>i, <1>s DEF TypeOK
<1>18. CASE End
  BY <1>18, <1>i DEF End, TypeOK
<1>19. CASE Kill
  BY <1>19, <1>i DEF Kill, TypeOK
<1>20. ASSUME NEW f \in Files, Save(f) PROVE TypeOK'
  BY <1>20, <1>i DEF Save, TypeOK, Texts
<1>21. CASE UNCHANGED vars
  BY <1>21, <1>i DEF TypeOK
<1>22. QED
  BY <1>1, <1>2, <1>3, <1>4, <1>5, <1>6, <1>7, <1>8, <1>9, <1>10, <1>11, <1>12, <1>13, <1>14,
     <1>15, <1>16, <1>17, <1>18, <1>19, <1>20, <1>21 DEF Next, Staging, Commit, Stopped

(* Every step keeps the staged temporaries complete until they are swapped *)
(* in.                                                                     *)
LEMMA TempNext == IInv /\ [Next]_vars => TempInv'
<1> SUFFICES ASSUME IInv, [Next]_vars PROVE TempInv'
  OBVIOUS
<1> USE Parameters DEF Goes, Fails, GiveUpStaging, RollBack, inputs, disk, cursors, vars, Ended
<1>i. TypeOK /\ CursorInv /\ TempInv /\ SwapInv /\ LossInv /\ IntactInv /\ LitterInv
  BY DEF IInv
<1>1. CASE StageSkip
  BY <1>1, <1>i DEF StageSkip, TypeOK, TempInv
<1>2. CASE StageProbe
  BY <1>2, <1>i DEF StageProbe, TempInv, Stages, Swaps
<1>3. CASE StageCreate
  BY <1>3, <1>i DEF StageCreate, TypeOK, TempInv, Stages, Swaps
<1>4. CASE StageWrite
  BY <1>4, <1>i DEF StageWrite, TypeOK, TempInv, Stages, Swaps, Files
<1>5. CASE StageDiscard
  BY <1>5 DEF StageDiscard, TempInv, Stages, Swaps
<1>6. CASE Unstage
  BY <1>6 DEF Unstage, TempInv, Stages, Swaps
<1>7. CASE StagingOver
  BY <1>7, <1>i DEF StagingOver, TypeOK, TempInv, Stages, Files
<1>8. CASE CommitSkip
  BY <1>8, <1>i DEF CommitSkip, TypeOK, TempInv, Swaps
<1>9. CASE MoveAway
  BY <1>9, <1>i DEF MoveAway, TempInv, Stages, Swaps
<1>10. CASE Install
  BY <1>10, <1>i DEF Install, TypeOK, TempInv, Stages, Swaps, Files
<1>11. CASE Restore
  BY <1>11, <1>i DEF Restore, TempInv, Stages, Swaps
<1>12. CASE DropTemp
  BY <1>12 DEF DropTemp, TempInv, Stages, Swaps
<1>13. CASE RollbackRemove
  BY <1>13 DEF RollbackRemove, TempInv, Stages, Swaps
<1>14. CASE RollbackRename
  BY <1>14 DEF RollbackRename, TempInv, Stages, Swaps
<1>15. CASE CleanUp
  BY <1>15 DEF CleanUp, TempInv, Stages, Swaps
<1>16. CASE CommitOver
  BY <1>16, <1>i DEF CommitOver, TypeOK, TempInv, Stages, Swaps, Files
<1>17. CASE UnlinkBackup
  BY <1>17, <1>i DEF UnlinkBackup, TempInv
<1>18. CASE End
  BY <1>18, <1>i DEF End, TempInv, Stages, Swaps
<1>19. CASE Kill
  BY <1>19 DEF Kill, TempInv, Stages, Swaps
<1>20. ASSUME NEW f \in Files, Save(f) PROVE TempInv'
  BY <1>20, <1>i DEF Save, TempInv
<1>21. CASE UNCHANGED vars
  BY <1>21, <1>i DEF TempInv
<1>22. QED
  BY <1>1, <1>2, <1>3, <1>4, <1>5, <1>6, <1>7, <1>8, <1>9, <1>10, <1>11, <1>12, <1>13, <1>14,
     <1>15, <1>16, <1>17, <1>18, <1>19, <1>20, <1>21 DEF Next, Staging, Commit, Stopped

(* Every step keeps the new texts of the files swapped in, and the backups *)
(* to go back to.                                                          *)
LEMMA SwapNext == IInv /\ [Next]_vars => SwapInv'
<1> SUFFICES ASSUME IInv, [Next]_vars PROVE SwapInv'
  OBVIOUS
<1> USE Parameters DEF Goes, Fails, GiveUpStaging, RollBack, inputs, disk, cursors, vars, Ended
<1>i. TypeOK /\ CursorInv /\ TempInv /\ SwapInv /\ LossInv /\ IntactInv /\ LitterInv
  BY DEF IInv
<1>1. CASE StageSkip
  BY <1>1 DEF StageSkip, SwapInv, Held, Swaps, Rolls
<1>2. CASE StageProbe
  BY <1>2 DEF StageProbe, SwapInv, Held, Swaps, Rolls
<1>3. CASE StageCreate
  BY <1>3 DEF StageCreate, SwapInv, Held, Swaps, Rolls
<1>4. CASE StageWrite
  BY <1>4 DEF StageWrite, SwapInv, Held, Swaps, Rolls
<1>5. CASE StageDiscard
  BY <1>5 DEF StageDiscard, SwapInv, Held, Swaps, Rolls
<1>6. CASE Unstage
  BY <1>6 DEF Unstage, SwapInv, Held, Swaps, Rolls
<1>7. CASE StagingOver
  BY <1>7, <1>i DEF StagingOver, TypeOK, SwapInv, Held, Rolls, Files
<1>8. CASE CommitSkip
  BY <1>8, <1>i DEF CommitSkip, TypeOK, SwapInv, Held
<1>9. CASE MoveAway
  BY <1>9, <1>i DEF MoveAway, TypeOK, SwapInv, Held, Swaps, Rolls
<1>10. CASE Install
  BY <1>10, <1>i DEF Install, TypeOK, TempInv, SwapInv, Held, Swaps, Rolls, Files
<1>11. CASE Restore
  BY <1>11, <1>i DEF Restore, TypeOK, SwapInv, Held, Swaps, Rolls
<1>12. CASE DropTemp
  BY <1>12, <1>i DEF DropTemp, SwapInv, Held, Swaps
<1>13. CASE RollbackRemove
  BY <1>13, <1>i DEF RollbackRemove, SwapInv, Held, Swaps, Rolls
<1>14. CASE RollbackRename
  BY <1>14, <1>i DEF RollbackRename, TypeOK, SwapInv, Held, Swaps, Rolls
<1>15. CASE CleanUp
  BY <1>15 DEF CleanUp, SwapInv, Held, Swaps, Rolls
<1>16. CASE CommitOver
  BY <1>16, <1>i DEF CommitOver, TypeOK, SwapInv, Held, Swaps, Files, Committed
<1>17. CASE UnlinkBackup
  BY <1>17, <1>i DEF UnlinkBackup, TypeOK, SwapInv, Held, Swaps, Committed
<1>18. CASE End
  BY <1>18, <1>i DEF End, SwapInv, Held, Swaps, Committed
<1>19. CASE Kill
  BY <1>19 DEF Kill, SwapInv, Held, Swaps, Rolls
<1>20. ASSUME NEW f \in Files, Save(f) PROVE SwapInv'
  BY <1>20, <1>i DEF Save, SwapInv, Held, Committed
<1>21. CASE UNCHANGED vars
  BY <1>21, <1>i DEF SwapInv, Held, Committed
<1>22. QED
  BY <1>1, <1>2, <1>3, <1>4, <1>5, <1>6, <1>7, <1>8, <1>9, <1>10, <1>11, <1>12, <1>13, <1>14,
     <1>15, <1>16, <1>17, <1>18, <1>19, <1>20, <1>21 DEF Next, Staging, Commit, Stopped

(* Every step keeps each file's old text at its name or in its backup: the *)
(* rename that would overwrite the one comes only when the other has it.   *)
LEMMA LossNext == IInv /\ [Next]_vars => LossInv'
<1> SUFFICES ASSUME IInv, [Next]_vars PROVE LossInv'
  OBVIOUS
<1> USE Parameters DEF Goes, Fails, GiveUpStaging, RollBack, inputs, disk, cursors, vars, Ended
<1>i. TypeOK /\ CursorInv /\ TempInv /\ SwapInv /\ LossInv /\ IntactInv /\ LitterInv
  BY DEF IInv
<1>f. todo # {} => First(todo) \in todo /\ Last(todo) \in todo
  BY <1>i, FirstAndLast DEF TypeOK
<1>1. CASE StageSkip
  BY <1>1, <1>i DEF StageSkip, TypeOK, LossInv, Kept, NeverLost, Held, Stages
<1>2. CASE StageProbe
  BY <1>2, <1>i DEF StageProbe, LossInv, Kept, NeverLost, Held, Stages, Swaps, Rolls
<1>3. CASE StageCreate
  BY <1>3, <1>i DEF StageCreate, LossInv, Kept, NeverLost, Held, Stages, Swaps, Rolls
<1>4. CASE StageWrite
  BY <1>4, <1>i DEF StageWrite, LossInv, Kept, NeverLost, Held, Stages, Swaps, Rolls
<1>5. CASE StageDiscard
  BY <1>5, <1>i DEF StageDiscard, LossInv, Kept, NeverLost, Held, Stages, Swaps, Rolls
<1>6. CASE Unstage
  BY <1>6, <1>i DEF Unstage, LossInv, Kept, NeverLost, Held
<1>7. CASE StagingOver
  BY <1>7, <1>i DEF StagingOver, LossInv, Kept, NeverLost, Held, Stages, Rolls, Files
<1>8. CASE CommitSkip
  BY <1>8, <1>i DEF CommitSkip, TypeOK, LossInv, Kept, NeverLost, Held, Swaps
<1>9. CASE MoveAway
  BY <1>9, <1>i DEF MoveAway, TypeOK, LossInv, IntactInv, Intact, Kept, NeverLost, Held, Swaps,
     Rolls
<1>10. CASE Install
  BY <1>10, <1>i DEF Install, TypeOK, LossInv, Kept, NeverLost, Held, Swaps, Rolls, Files
<1>11. CASE Restore
  BY <1>11, <1>i DEF Restore, TypeOK, LossInv, Kept, NeverLost, Held, Swaps, Rolls
<1>12. CASE DropTemp
  BY <1>12, <1>i DEF DropTemp, LossInv, Kept, NeverLost, Held, Swaps
<1>13. CASE RollbackRemove
  BY <1>13, <1>i, <1>f DEF RollbackRemove, TypeOK, LossInv, Kept, NeverLost, Held, Swaps, Rolls
<1>14. CASE RollbackRename
  BY <1>14, <1>i, <1>f DEF RollbackRename, TypeOK, CursorInv, LossInv, Kept, NeverLost, Held,
     Swaps, Rolls
<1>15. CASE CleanUp
  BY <1>15, <1>i DEF CleanUp, LossInv, Kept, NeverLost, Held, Swaps, Rolls
<1>16. CASE CommitOver
  BY <1>16, <1>i DEF CommitOver, LossInv, Kept, NeverLost, Held, Swaps, Rolls
<1>17. CASE UnlinkBackup
  BY <1>17, <1>i DEF UnlinkBackup, TypeOK, CursorInv, SwapInv, LossInv, IntactInv, Intact,
     NeverLost, Held, Swaps, Rolls, Committed
<1>18. CASE End
  BY <1>18, <1>i DEF End, LossInv, NeverLost, Held, Stages, Swaps, Rolls, Committed
<1>19. CASE Kill
  BY <1>19, <1>i DEF Kill, LossInv, NeverLost, Held, Stages, Swaps, Rolls, Committed
<1>20. ASSUME NEW f \in Files, Save(f) PROVE LossInv'
  BY <1>20, <1>i DEF Save, TypeOK, LossInv
<1>21. CASE UNCHANGED vars
  BY <1>21, <1>i DEF LossInv, Kept, NeverLost, Held, Committed
<1>22. QED
  BY <1>1, <1>2, <1>3, <1>4, <1>5, <1>6, <1>7, <1>8, <1>9, <1>10, <1>11, <1>12, <1>13, <1>14,
     <1>15, <1>16, <1>17, <1>18, <1>19, <1>20, <1>21 DEF Next, Staging, Commit, Stopped

(* Every step before the rollback leaves the files that are not to be      *)
(* rolled back as they were found.                                         *)
LEMMA IntactNext == IInv /\ [Next]_vars => IntactInv'
<1> SUFFICES ASSUME IInv, [Next]_vars PROVE IntactInv'
  OBVIOUS
<1> USE Parameters DEF Goes, Fails, GiveUpStaging, RollBack, inputs, disk, cursors, vars, Ended
<1>i. TypeOK /\ CursorInv /\ TempInv /\ SwapInv /\ LossInv /\ IntactInv /\ LitterInv
  BY DEF IInv
<1>f. todo # {} => First(todo) \in todo /\ Last(todo) \in todo
  BY <1>i, FirstAndLast DEF TypeOK
<1>1. CASE StageSkip
  BY <1>1, <1>i DEF StageSkip, TypeOK, IntactInv, Intact, Held
<1>2. CASE StageProbe
  BY <1>2, <1>i DEF StageProbe, IntactInv, Intact, Held, Stages, Swaps, Rolls
<1>3. CASE StageCreate
  BY <1>3, <1>i DEF StageCreate, IntactInv, Intact, Held, Stages, Swaps, Rolls
<1>4. CASE StageWrite
  BY <1>4, <1>i DEF StageWrite, IntactInv, Intact, Held, Stages, Swaps, Rolls
<1>5. CASE StageDiscard
  BY <1>5 DEF StageDiscard, IntactInv, Stages, Rolls
<1>6. CASE Unstage
  BY <1>6 DEF Unstage, IntactInv, Stages, Rolls
<1>7. CASE StagingOver
  BY <1>7, <1>i DEF StagingOver, IntactInv, Intact, Held, Stages, Swaps, Rolls
<1>8. CASE CommitSkip
  BY <1>8, <1>i DEF CommitSkip, TypeOK, IntactInv, Intact, Held
<1>9. CASE MoveAway
  BY <1>9, <1>i DEF MoveAway, TypeOK, IntactInv, Intact, Held, Swaps, Rolls
<1>10. CASE Install
  BY <1>10, <1>i DEF Install, TypeOK, CursorInv, IntactInv, Intact, Held, Swaps, Rolls, Files
<1>11. CASE Restore
  BY <1>11, <1>i DEF Restore, TypeOK, IntactInv, Stages
<1>12. CASE DropTemp
  BY <1>12, <1>i DEF DropTemp, TypeOK, IntactInv, Stages
<1>13. CASE RollbackRemove
  BY <1>13, <1>i DEF RollbackRemove, TypeOK, IntactInv, Stages, Rolls
<1>14. CASE RollbackRename
  BY <1>14, <1>i DEF RollbackRename, TypeOK, IntactInv, Stages, Rolls
<1>15. CASE CleanUp
  BY <1>15 DEF CleanUp, IntactInv, Stages, Rolls
<1>16. CASE CommitOver
  BY <1>16 DEF CommitOver, IntactInv, Stages, Rolls
<1>17. CASE UnlinkBackup
  BY <1>17 DEF UnlinkBackup, IntactInv, Stages, Rolls
<1>18. CASE End
  BY <1>18 DEF End, IntactInv, Stages, Rolls
<1>19. CASE Kill
  BY <1>19 DEF Kill, IntactInv, Stages, Rolls
<1>20. ASSUME NEW f \in Files, Save(f) PROVE IntactInv'
  BY <1>20, <1>i DEF Save, TypeOK, IntactInv
<1>21. CASE UNCHANGED vars
  BY <1>21, <1>i DEF IntactInv, Intact, Held
<1>22. QED
  BY <1>1, <1>2, <1>3, <1>4, <1>5, <1>6, <1>7, <1>8, <1>9, <1>10, <1>11, <1>12, <1>13, <1>14,
     <1>15, <1>16, <1>17, <1>18, <1>19, <1>20, <1>21 DEF Next, Staging, Commit, Stopped

----------------------------------------------------------------------------
(* What a step does to the litter nobody will remove: it adds none, or the *)
(* failing call adds one temporary or one backup.                          *)
AddsNothing   == /\ StrayTemps' \subseteq StrayTemps /\ StrayBackups' \subseteq StrayBackups
                 /\ faults' >= faults
AddsTemp(f)   == /\ StrayTemps' \subseteq StrayTemps \cup {f}
                 /\ StrayBackups' \subseteq StrayBackups /\ faults' = faults + 1
AddsBackup(f) == /\ StrayTemps' \subseteq StrayTemps
                 /\ StrayBackups' \subseteq StrayBackups \cup {f} /\ faults' = faults + 1

(* Every step but being killed does one of these.                          *)
LEMMA LitterStep ==
  ASSUME IInv, [Next]_vars, phase' # "killed"
  PROVE  AddsNothing \/ \E f \in Files : AddsTemp(f) \/ AddsBackup(f)
<1> USE Parameters DEF Goes, Fails, GiveUpStaging, RollBack, inputs, disk, cursors, vars, Ended
<1>i. TypeOK /\ CursorInv /\ TempInv
  BY DEF IInv
<1>f. todo # {} => First(todo) \in todo /\ Last(todo) \in todo
  BY <1>i, FirstAndLast DEF TypeOK
<1>1. ASSUME StageSkip PROVE AddsNothing
  BY <1>1, <1>i DEF StageSkip, AddsNothing, TypeOK, StrayTemps, StrayBackups, WillDropTemp,
     WillDropBackup, Held, Files
<1>2. ASSUME StageProbe PROVE AddsNothing
  BY <1>2, <1>i DEF StageProbe, AddsNothing, TypeOK, StrayTemps, StrayBackups, WillDropTemp,
     WillDropBackup, Held, Swaps, Rolls
<1>3. ASSUME StageCreate PROVE AddsNothing
  BY <1>3, <1>i DEF StageCreate, AddsNothing, TypeOK, CursorInv, StrayTemps, StrayBackups,
     WillDropTemp, WillDropBackup, Held, Swaps, Rolls, Files
<1>4. ASSUME StageWrite PROVE AddsNothing
  BY <1>4, <1>i DEF StageWrite, AddsNothing, TypeOK, CursorInv, StrayTemps, StrayBackups,
     WillDropTemp, WillDropBackup, Held, Swaps, Rolls, Files
<1>5. ASSUME StageDiscard PROVE AddsNothing \/ (at \in Files /\ AddsTemp(at))
  <2>1. CASE Goes
    BY <1>5, <2>1, <1>i DEF StageDiscard, AddsNothing, TypeOK, StrayTemps, StrayBackups,
       WillDropTemp, WillDropBackup, Held, Swaps, Rolls, Files
  <2>2. CASE Fails
    BY <1>5, <2>2, <1>i DEF StageDiscard, AddsTemp, TypeOK, CursorInv, StrayTemps, StrayBackups,
       WillDropTemp, WillDropBackup, Held, Swaps, Rolls, Files
  <2>3. QED
    BY <1>5, <2>1, <2>2 DEF StageDiscard
<1>6. ASSUME Unstage PROVE AddsNothing \/ (First(todo) \in Files /\ AddsTemp(First(todo)))
  <2>1. CASE Goes
    <3>1. StrayTemps' \subseteq StrayTemps
      BY <1>6, <2>1, <1>i DEF Unstage, TypeOK, StrayTemps, WillDropTemp
    <3>2. StrayBackups' \subseteq StrayBackups
      BY <1>6 DEF Unstage, StrayBackups, WillDropBackup, Held, Rolls
    <3>3. faults' = faults /\ faults \in Nat
      BY <2>1, <1>i DEF TypeOK
    <3>4. AddsNothing
      BY <3>1, <3>2, <3>3 DEF AddsNothing
    <3>5. QED
      BY <3>4
  <2>2. CASE Fails
    BY <1>6, <2>2, <1>i, <1>f DEF Unstage, AddsTemp, TypeOK, StrayTemps, StrayBackups,
       WillDropTemp, WillDropBackup, Held, Rolls
  <2>3. QED
    BY <1>6, <2>1, <2>2 DEF Unstage
<1>7. ASSUME StagingOver PROVE AddsNothing
  BY <1>7, <1>i DEF StagingOver, AddsNothing, TypeOK, StrayTemps, StrayBackups, WillDropTemp,
     WillDropBackup, Held, Swaps, Rolls, Files
<1>8. ASSUME CommitSkip PROVE AddsNothing
  BY <1>8, <1>i DEF CommitSkip, AddsNothing, TypeOK, StrayTemps, StrayBackups, WillDropTemp,
     WillDropBackup, Held, Files
<1>9. ASSUME MoveAway PROVE AddsNothing
  BY <1>9, <1>i DEF MoveAway, AddsNothing, TypeOK, StrayTemps, StrayBackups, WillDropTemp,
     WillDropBackup, Held, Swaps, Rolls, Files
<1>10. ASSUME Install PROVE AddsNothing
  BY <1>10, <1>i DEF Install, AddsNothing, TypeOK, CursorInv, StrayTemps, StrayBackups,
     WillDropTemp, WillDropBackup, Held, Swaps, Rolls, Files
<1>11. ASSUME Restore PROVE AddsNothing \/ (at \in Files /\ AddsBackup(at))
  <2>1. CASE Goes
    BY <1>11, <2>1, <1>i DEF Restore, AddsNothing, TypeOK, StrayTemps, StrayBackups,
       WillDropTemp, WillDropBackup, Held, Swaps, Rolls
  <2>2. CASE Fails
    BY <1>11, <2>2, <1>i DEF Restore, AddsBackup, TypeOK, CursorInv, StrayTemps, StrayBackups,
       WillDropTemp, WillDropBackup, Held, Swaps, Rolls
  <2>3. QED
    BY <1>11, <2>1, <2>2 DEF Restore
<1>12. ASSUME DropTemp PROVE AddsNothing \/ (at \in Files /\ AddsTemp(at))
  <2>1. CASE Goes
    BY <1>12, <2>1, <1>i DEF DropTemp, AddsNothing, TypeOK, StrayTemps, StrayBackups,
       WillDropTemp, WillDropBackup, Held, Rolls, Files
  <2>2. CASE Fails
    BY <1>12, <2>2, <1>i DEF DropTemp, AddsTemp, TypeOK, CursorInv, StrayTemps, StrayBackups,
       WillDropTemp, WillDropBackup, Held, Rolls, Files
  <2>3. QED
    BY <1>12, <2>1, <2>2 DEF DropTemp
<1>13. ASSUME RollbackRemove PROVE AddsNothing \/ (Last(todo) \in Files /\ AddsBackup(Last(todo)))
  <2>1. CASE Goes
    <3>1. StrayTemps' \subseteq StrayTemps
      BY <1>13 DEF RollbackRemove, StrayTemps, WillDropTemp, Swaps, Rolls
    <3>2. StrayBackups' \subseteq StrayBackups
      BY <1>13, <2>1, <1>i DEF RollbackRemove, TypeOK, StrayBackups, WillDropBackup, Held,
         Swaps, Rolls
    <3>3. faults' = faults /\ faults \in Nat
      BY <2>1, <1>i DEF TypeOK
    <3>4. AddsNothing
      BY <3>1, <3>2, <3>3 DEF AddsNothing
    <3>5. QED
      BY <3>4
  <2>2. CASE Fails
    BY <1>13, <2>2, <1>i, <1>f DEF RollbackRemove, AddsBackup, TypeOK, StrayTemps, StrayBackups,
       WillDropTemp, WillDropBackup, Held
  <2>3. QED
    BY <1>13, <2>1, <2>2 DEF RollbackRemove
<1>14. ASSUME RollbackRename PROVE AddsNothing \/ (Last(todo) \in Files /\ AddsBackup(Last(todo)))
  <2>1. CASE Goes
    <3>1. StrayTemps' \subseteq StrayTemps
      BY <1>14 DEF RollbackRename, StrayTemps, WillDropTemp, Swaps, Rolls
    <3>2. StrayBackups' \subseteq StrayBackups
      BY <1>14, <2>1, <1>i DEF RollbackRename, TypeOK, StrayBackups, WillDropBackup, Held,
         Swaps, Rolls
    <3>3. faults' = faults /\ faults \in Nat
      BY <2>1, <1>i DEF TypeOK
    <3>4. AddsNothing
      BY <3>1, <3>2, <3>3 DEF AddsNothing
    <3>5. QED
      BY <3>4
  <2>2. CASE Fails
    BY <1>14, <2>2, <1>i, <1>f DEF RollbackRename, AddsBackup, TypeOK, CursorInv, StrayTemps,
       StrayBackups, WillDropTemp, WillDropBackup, Held, Swaps, Rolls
  <2>3. QED
    BY <1>14, <2>1, <2>2 DEF RollbackRename
<1>15. ASSUME CleanUp PROVE AddsNothing
  BY <1>15, <1>i DEF CleanUp, AddsNothing, TypeOK, StrayTemps, StrayBackups, WillDropTemp,
     WillDropBackup, Held, Swaps
<1>16. ASSUME CommitOver PROVE AddsNothing
  BY <1>16, <1>i DEF CommitOver, AddsNothing, TypeOK, CursorInv, TempInv, StrayTemps,
     StrayBackups, WillDropTemp, WillDropBackup, Held, Swaps, Files
<1>17. ASSUME UnlinkBackup PROVE AddsNothing \/ (First(todo) \in Files /\ AddsBackup(First(todo)))
  <2>1. CASE Goes
    <3>1. StrayTemps' \subseteq StrayTemps
      BY <1>17 DEF UnlinkBackup, StrayTemps, WillDropTemp
    <3>2. StrayBackups' \subseteq StrayBackups
      BY <1>17, <2>1, <1>i DEF UnlinkBackup, TypeOK, StrayBackups, WillDropBackup, Held
    <3>3. faults' = faults /\ faults \in Nat
      BY <2>1, <1>i DEF TypeOK
    <3>4. AddsNothing
      BY <3>1, <3>2, <3>3 DEF AddsNothing
    <3>5. QED
      BY <3>4
  <2>2. CASE Fails
    BY <1>17, <2>2, <1>i, <1>f DEF UnlinkBackup, AddsBackup, TypeOK, StrayTemps, StrayBackups,
       WillDropTemp, WillDropBackup, Held
  <2>3. QED
    BY <1>17, <2>1, <2>2 DEF UnlinkBackup
<1>18. ASSUME End PROVE AddsNothing
  BY <1>18, <1>i DEF End, AddsNothing, TypeOK, StrayTemps, StrayBackups, WillDropTemp,
     WillDropBackup, Held, Swaps, Rolls
<1>19. ASSUME NEW f \in Files, Save(f) PROVE AddsNothing
  BY <1>19, <1>i DEF Save, AddsNothing, TypeOK, StrayTemps, StrayBackups, WillDropTemp,
     WillDropBackup, Held
<1>20. ASSUME UNCHANGED vars PROVE AddsNothing
  BY <1>20, <1>i DEF AddsNothing, TypeOK, StrayTemps, StrayBackups, WillDropTemp,
     WillDropBackup, Held
<1>21. QED
  BY <1>1, <1>2, <1>3, <1>4, <1>5, <1>6, <1>7, <1>8, <1>9, <1>10, <1>11, <1>12, <1>13, <1>14,
     <1>15, <1>16, <1>17, <1>18, <1>19, <1>20 DEF Next, Staging, Commit, Stopped, Kill

(* Sets of files are finite and can be counted.                            *)
LEMMA FilesFinite == \A S \in SUBSET Files : IsFiniteSet(S) /\ Cardinality(S) \in Nat
<1>1. IsFiniteSet(Files)
  BY Parameters, FS_Interval DEF Files
<1>2. QED
  BY <1>1, FS_Subset, FS_CardinalityType

(* Two sets of files that shrink are no larger in all.                     *)
LEMMA NoMore ==
  ASSUME NEW A \in SUBSET Files, NEW B \in SUBSET Files, NEW A2, NEW B2,
         A2 \subseteq A, B2 \subseteq B
  PROVE  Cardinality(A2) + Cardinality(B2) <= Cardinality(A) + Cardinality(B)
<1>1. Cardinality(A2) <= Cardinality(A) /\ Cardinality(B2) <= Cardinality(B)
  BY FilesFinite, FS_Subset
<1>2. QED
  BY <1>1, FilesFinite

(* Two sets of files of which one gains an element are larger by one at    *)
(* most.                                                                   *)
LEMMA OneMore ==
  ASSUME NEW A \in SUBSET Files, NEW B \in SUBSET Files, NEW A2, NEW B2, NEW f \in Files,
         A2 \subseteq A \cup {f}, B2 \subseteq B
  PROVE  Cardinality(A2) + Cardinality(B2) <= Cardinality(A) + Cardinality(B) + 1
<1>1. Cardinality(A2) + Cardinality(B2) <= Cardinality(A \cup {f}) + Cardinality(B)
  BY NoMore
<1>2. Cardinality(A \cup {f}) <= Cardinality(A) + 1
  BY FilesFinite, FS_AddElement
<1>3. QED
  BY <1>1, <1>2, FilesFinite

(* Every step keeps the litter within the number of calls that failed.     *)
LEMMA LitterNext == IInv /\ [Next]_vars => LitterInv'
<1> SUFFICES ASSUME IInv, [Next]_vars, phase' # "killed"
             PROVE  Cardinality(StrayTemps') + Cardinality(StrayBackups') <= faults'
  BY DEF LitterInv
<1>1. /\ StrayTemps \in SUBSET Files /\ StrayTemps' \in SUBSET Files
      /\ StrayBackups \in SUBSET Files /\ StrayBackups' \in SUBSET Files
  BY DEF StrayTemps, StrayBackups
<1>2. phase # "killed"
  BY DEF Next, Staging, Commit, Stopped, StageSkip, StageProbe, StageCreate, StageWrite,
     StageDiscard, Unstage, StagingOver, CommitSkip, MoveAway, Install, Restore, DropTemp,
     RollbackRemove, RollbackRename, CleanUp, CommitOver, UnlinkBackup, End, Kill, Save, vars
<1>3. /\ Cardinality(StrayTemps) + Cardinality(StrayBackups) <= faults
      /\ faults \in Nat /\ faults' \in Nat
  BY <1>2, TypeNext DEF IInv, LitterInv, TypeOK
<1>4. CASE AddsNothing
  <2>1. Cardinality(StrayTemps') + Cardinality(StrayBackups')
          <= Cardinality(StrayTemps) + Cardinality(StrayBackups)
    BY <1>1, <1>4, NoMore DEF AddsNothing
  <2>2. QED
    BY <1>1, <1>3, <1>4, <2>1, FilesFinite DEF AddsNothing
<1>5. CASE \E f \in Files : AddsTemp(f)
  BY <1>1, <1>3, <1>5, OneMore, FilesFinite DEF AddsTemp
<1>6. CASE \E f \in Files : AddsBackup(f)
  <2>1. Cardinality(StrayBackups') + Cardinality(StrayTemps')
          <= Cardinality(StrayBackups) + Cardinality(StrayTemps) + 1
    BY <1>1, <1>6, OneMore DEF AddsBackup
  <2>2. QED
    BY <1>1, <1>3, <1>6, <2>1, FilesFinite DEF AddsBackup
<1>7. QED
  BY <1>4, <1>5, <1>6, LitterStep

----------------------------------------------------------------------------
(* What a step does to the files nobody will put back: it adds none, or a  *)
(* failing call, which is not the first, adds one.                         *)
SpoilsNothing == Spoiled' \subseteq Spoiled /\ faults' >= faults
Spoils(f)     == Spoiled' \subseteq Spoiled \cup {f} /\ faults > 0 /\ faults' = faults + 1

(* Every step of a run that is not over does one of these, until all files *)
(* have their new text.                                                    *)
LEMMA SpoilStep ==
  ASSUME IInv, [Next]_vars, edits' = 0, phase' \notin {"unlink", "success", "killed"},
         phase # "unlink"
  PROVE  SpoilsNothing \/ \E f \in Files : Spoils(f)
<1> USE Parameters DEF Goes, Fails, GiveUpStaging, RollBack, inputs, disk, cursors, vars, Ended
<1>i. TypeOK /\ CursorInv /\ LossInv /\ IntactInv
  BY DEF IInv
<1>f. todo # {} => First(todo) \in todo /\ Last(todo) \in todo
  BY <1>i, FirstAndLast DEF TypeOK
<1>1. ASSUME StageSkip PROVE SpoilsNothing
  BY <1>1, <1>i DEF StageSkip, TypeOK, Spoiled, Intact, Held, Swaps, SpoilsNothing
<1>2. ASSUME StageProbe PROVE SpoilsNothing
  BY <1>2, <1>i DEF StageProbe, TypeOK, Spoiled, Intact, Held, Swaps, Rolls, SpoilsNothing
<1>3. ASSUME StageCreate PROVE SpoilsNothing
  BY <1>3, <1>i DEF StageCreate, TypeOK, Spoiled, Intact, Held, Swaps, Rolls, SpoilsNothing
<1>4. ASSUME StageWrite PROVE SpoilsNothing
  BY <1>4, <1>i DEF StageWrite, TypeOK, Spoiled, Intact, Held, Swaps, Rolls, SpoilsNothing
<1>5. ASSUME StageDiscard PROVE SpoilsNothing
  BY <1>5, <1>i DEF StageDiscard, TypeOK, Spoiled, Intact, Held, Swaps, Rolls, SpoilsNothing
<1>6. ASSUME Unstage PROVE SpoilsNothing
  BY <1>6, <1>i DEF Unstage, TypeOK, Spoiled, Intact, Held, Rolls, SpoilsNothing
<1>7. ASSUME StagingOver PROVE SpoilsNothing
  BY <1>7, <1>i DEF StagingOver, TypeOK, Spoiled, Intact, Held, Swaps, Rolls, SpoilsNothing
<1>8. ASSUME CommitSkip PROVE SpoilsNothing
  BY <1>8, <1>i DEF CommitSkip, TypeOK, Spoiled, Intact, Held, Files, SpoilsNothing
<1>9. ASSUME MoveAway PROVE SpoilsNothing
  BY <1>9, <1>i DEF MoveAway, TypeOK, Spoiled, Intact, Held, Swaps, Rolls, Files, SpoilsNothing
<1>10. ASSUME Install PROVE SpoilsNothing
  BY <1>10, <1>i DEF Install, TypeOK, CursorInv, Spoiled, Intact, Held, Swaps, Rolls, Files,
     SpoilsNothing
<1>11. ASSUME Restore PROVE SpoilsNothing \/ (at \in Files /\ Spoils(at))
  <2>1. CASE Goes
    BY <1>11, <2>1, <1>i DEF Restore, TypeOK, LossInv, Spoiled, Intact, Held, Swaps, Rolls,
       SpoilsNothing
  <2>2. CASE Fails
    BY <1>11, <2>2, <1>i DEF Restore, TypeOK, CursorInv, IntactInv, Spoiled, Intact, Held,
       Swaps, Rolls, Spoils
  <2>3. QED
    BY <1>11, <2>1, <2>2 DEF Restore
<1>12. ASSUME DropTemp PROVE SpoilsNothing
  BY <1>12, <1>i DEF DropTemp, TypeOK, Spoiled, Intact, Held, Rolls, SpoilsNothing
<1>13. ASSUME RollbackRemove PROVE SpoilsNothing \/ (Last(todo) \in Files /\ Spoils(Last(todo)))
  <2>1. CASE Goes
    BY <1>13, <2>1, <1>i, <1>f DEF RollbackRemove, TypeOK, Spoiled, Intact, Held, Swaps, Rolls,
       SpoilsNothing
  <2>2. CASE Fails
    BY <1>13, <2>2, <1>i, <1>f DEF RollbackRemove, TypeOK, IntactInv, Spoiled, Intact, Held,
       Rolls, Spoils
  <2>3. QED
    BY <1>13, <2>1, <2>2 DEF RollbackRemove
<1>14. ASSUME RollbackRename PROVE SpoilsNothing \/ (Last(todo) \in Files /\ Spoils(Last(todo)))
  <2>1. CASE Goes
    BY <1>14, <2>1, <1>i, <1>f DEF RollbackRename, TypeOK, CursorInv, LossInv, Spoiled, Intact,
       Held, Swaps, Rolls, SpoilsNothing
  <2>2. CASE Fails
    BY <1>14, <2>2, <1>i, <1>f DEF RollbackRename, TypeOK, CursorInv, IntactInv, Spoiled,
       Intact, Held, Swaps, Rolls, Spoils
  <2>3. QED
    BY <1>14, <2>1, <2>2 DEF RollbackRename
<1>15. ASSUME CleanUp PROVE SpoilsNothing
  BY <1>15, <1>i DEF CleanUp, TypeOK, Spoiled, Intact, Held, Swaps, SpoilsNothing
<1>16. ASSUME CommitOver PROVE SpoilsNothing
  BY <1>16 DEF CommitOver
<1>17. ASSUME UnlinkBackup PROVE SpoilsNothing
  BY <1>17 DEF UnlinkBackup
<1>18. ASSUME End PROVE SpoilsNothing
  BY <1>18, <1>i DEF End, TypeOK, Spoiled, Intact, Held, Swaps, SpoilsNothing
<1>19. ASSUME NEW f \in Files, Save(f) PROVE FALSE
  BY <1>19, <1>i DEF Save, TypeOK
<1>20. ASSUME UNCHANGED vars PROVE SpoilsNothing
  BY <1>20, <1>i DEF SpoilsNothing, TypeOK, Spoiled, Intact, Held
<1>21. QED
  BY <1>1, <1>2, <1>3, <1>4, <1>5, <1>6, <1>7, <1>8, <1>9, <1>10, <1>11, <1>12, <1>13, <1>14,
     <1>15, <1>16, <1>17, <1>18, <1>19, <1>20 DEF Next, Staging, Commit, Stopped, Kill

(* Every step keeps the files spoiled fewer than the calls that failed.    *)
LEMMA SpoilNext == IInv /\ [Next]_vars => SpoilInv'
<1> SUFFICES ASSUME IInv, [Next]_vars, edits' = 0,
                    (phase \in Stages \cup Swaps \cup Rolls \cup {"unstage", "failure"})'
             PROVE  FewSpoiled' \/ (phase' = "failure" /\ Committed')
  BY DEF SpoilInv
<1>i. TypeOK /\ TypeOK'
  BY TypeNext DEF IInv
<1>1. phase \in Stages \cup Swaps \cup Rolls \cup {"unstage", "failure", "unlink"} /\ edits = 0
  BY <1>i DEF TypeOK, Stages, Swaps, Rolls, Next, Staging, Commit, Stopped, StageSkip,
     StageProbe, StageCreate, StageWrite, StageDiscard, Unstage, StagingOver, CommitSkip,
     MoveAway, Install, Restore, DropTemp, RollbackRemove, RollbackRename, CleanUp, CommitOver,
     UnlinkBackup, End, Kill, Save, vars
<1>2. CASE phase = "unlink"
  <2>1. phase' \notin {"unlink", "killed"}
    BY DEF Stages, Swaps, Rolls
  <2>2. End
    BY <1>2, <2>1 DEF Next, Staging, Commit, Stopped, StageSkip, StageProbe, StageCreate,
       StageWrite, StageDiscard, Unstage, StagingOver, CommitSkip, MoveAway, Install, Restore,
       DropTemp, RollbackRemove, RollbackRename, CleanUp, CommitOver, UnlinkBackup, Kill, Save,
       vars
  <2>3. phase' = "failure" /\ UNCHANGED <<changed, path>>
    BY <2>2 DEF End, Stages, Swaps, Rolls, disk, inputs
  <2>4. QED
    BY <1>2, <2>3 DEF IInv, SwapInv, Committed
<1>3. CASE phase = "failure" /\ Committed
  <2>1. UNCHANGED <<phase, changed, path>>
    BY <1>3 DEF Next, Staging, Commit, Stopped, StageSkip, StageProbe, StageCreate, StageWrite,
       StageDiscard, Unstage, StagingOver, CommitSkip, MoveAway, Install, Restore, DropTemp,
       RollbackRemove, RollbackRename, CleanUp, CommitOver, UnlinkBackup, End, Kill, Save, vars,
       Ended
  <2>2. QED
    BY <1>3, <2>1 DEF Committed
<1>4. CASE FewSpoiled /\ phase # "unlink"
  <2>1. SpoilsNothing \/ \E f \in Files : Spoils(f)
    BY <1>4, SpoilStep DEF Stages, Swaps, Rolls
  <2>2. /\ Spoiled \in SUBSET Files /\ Spoiled' \in SUBSET Files
        /\ Cardinality(Spoiled) \in Nat /\ Cardinality(Spoiled') \in Nat
        /\ faults \in Nat /\ faults' \in Nat
    BY <1>i, FilesFinite DEF Spoiled, TypeOK
  <2>3. CASE SpoilsNothing
    <3>1. Spoiled' = {} \/ (Spoiled # {} /\ Cardinality(Spoiled') <= Cardinality(Spoiled))
      BY <2>2, <2>3, FilesFinite, FS_Subset DEF SpoilsNothing
    <3>2. QED
      BY <1>4, <2>2, <2>3, <3>1 DEF SpoilsNothing, FewSpoiled
  <2>4. CASE \E f \in Files : Spoils(f)
    <3>1. PICK f \in Files : Spoils(f)
      BY <2>4
    <3>2. Cardinality(Spoiled') <= Cardinality(Spoiled \cup {f})
      BY <2>2, <3>1, FilesFinite, FS_Subset DEF Spoils
    <3>3. Cardinality(Spoiled \cup {f}) <= Cardinality(Spoiled) + 1
      BY <2>2, FilesFinite, FS_AddElement
    <3>4. Cardinality(Spoiled) < faults
      BY <1>4, <3>1, FS_EmptySet DEF Spoils, FewSpoiled
    <3>5. Cardinality(Spoiled \cup {f}) \in Nat
      BY <2>2, FilesFinite
    <3>6. Cardinality(Spoiled') < faults'
      BY <2>2, <3>1, <3>2, <3>3, <3>4, <3>5 DEF Spoils
    <3>7. QED
      BY <3>6 DEF FewSpoiled
  <2>5. QED
    BY <2>1, <2>3, <2>4
<1>5. QED
  BY <1>1, <1>2, <1>3, <1>4 DEF IInv, SpoilInv

----------------------------------------------------------------------------
(* IInv holds in every state a run of `ybm check --apply` can reach.       *)
THEOREM Invariant == Spec => []IInv
<1>1. Init => IInv
  <2> SUFFICES ASSUME Init PROVE IInv
    OBVIOUS
  <2>1. TypeOK /\ CursorInv
    BY Parameters DEF Init, TypeOK, CursorInv, Texts
  <2>2. TempInv /\ SwapInv /\ LossInv /\ IntactInv
    BY DEF Init, TempInv, SwapInv, LossInv, IntactInv, Held, Intact, Kept, NeverLost, Files,
       Swaps, Rolls
  <2>3. LitterInv
    <3>1. StrayTemps = {} /\ StrayBackups = {}
      BY DEF Init, StrayTemps, StrayBackups, Texts
    <3>2. QED
      BY <3>1, FS_EmptySet DEF Init, LitterInv
  <2>4. SpoilInv
    BY DEF Init, SpoilInv, FewSpoiled, Spoiled, Intact
  <2>5. QED
    BY <2>1, <2>2, <2>3, <2>4 DEF IInv
<1>2. IInv /\ [Next]_vars => IInv'
  BY CursorNext, TypeNext, TempNext, SwapNext, LossNext, IntactNext, LitterNext, SpoilNext DEF
     IInv
<1>3. QED
  BY <1>1, <1>2, PTL DEF Spec

(* Every variable keeps its type, for any number of files.                 *)
THEOREM TypeCorrect == Spec => []TypeOK
<1>1. IInv => TypeOK
  BY DEF IInv
<1>2. QED
  BY <1>1, Invariant, PTL

(* Killed anywhere, after any failures, with any number of files: each     *)
(* file's old text is at its name or in its backup, unless all files are   *)
(* rewritten.                                                              *)
THEOREM NothingLost == Spec => []NeverLost
<1>1. IInv => NeverLost
  BY DEF IInv, LossInv, NeverLost
<1>2. QED
  BY <1>1, Invariant, PTL

(* However many calls fail, at any point of any commit: every file is      *)
(* rewritten, or every file is as it was, or those that are not are fewer  *)
(* than the calls that failed.  The rollback of commit_formats is complete *)
(* but for what its own calls cannot do.                                   *)
THEOREM FailuresAreContained == Spec => []AllOrNothing
<1>1. IInv => AllOrNothing
  <2> SUFFICES ASSUME IInv, phase \in {"success", "failure"}, edits = 0
               PROVE  Committed \/ Unrestored = {} \/ Cardinality(Unrestored) < faults
    BY DEF AllOrNothing
  <2>1. Unrestored = Spoiled
    BY DEF Unrestored, Spoiled, Intact, Held, Swaps, Rolls
  <2>2. QED
    BY <2>1 DEF IInv, SpoilInv, SwapInv, FewSpoiled
<1>2. QED
  BY <1>1, Invariant, PTL

(* Any number of failing calls leaves at most as many temporaries and      *)
(* backups.                                                                *)
THEOREM LitterIsBounded == Spec => []LitterBounded
<1>1. IInv => LitterBounded
  <2> SUFFICES ASSUME IInv, phase \in {"success", "failure"} PROVE Leftovers <= faults
    BY DEF LitterBounded
  <2>1. /\ {f \in Files : temp[f] \in {"partial", "formatted"}} = StrayTemps
        /\ {f \in Files : backup[f] \in Texts \ {"none"}} = StrayBackups
    BY DEF StrayTemps, StrayBackups, WillDropTemp, WillDropBackup, Held, Swaps, Rolls
  <2>2. QED
    BY <2>1 DEF IInv, LitterInv, Leftovers
<1>2. QED
  BY <1>1, Invariant, PTL

(* Exit code 0 means that every file has its new text and nothing is left, *)
(* whatever failed and whatever was saved meanwhile.                       *)
THEOREM SuccessIsEarned == Spec => []SuccessIsComplete
<1>1. IInv => SuccessIsComplete
  BY DEF IInv, TempInv, SwapInv, SuccessIsComplete
<1>2. QED
  BY <1>1, Invariant, PTL

(* How many system calls a run can still make, file by file: three to stage*)
(* one, two to swap it in, two to put it back, one to clean up after it.   *)
Uncommitted == N + 1 - at
StepsLeft ==
  CASE phase \in {"success", "failure", "killed"} -> 0
    [] phase \in {"unstage", "unlink"} -> Cardinality(todo) + 1
    [] phase = "discard"  -> N + 2
    [] phase = "rename"   -> 2 * Cardinality(todo) + N + 2
    [] phase = "rollback" -> 2 * Cardinality(todo) + N + 3
    [] phase = "drop"     -> 3 * N + 4
    [] phase = "restore"  -> 3 * N + 5
    [] phase = "install"  -> 2 * Uncommitted + 3 * N + 5
    [] phase = "commit"   -> 2 * Uncommitted + 3 * N + 6
    [] phase = "write"    -> 3 * Uncommitted + 5 * N + 7
    [] phase = "create"   -> 3 * Uncommitted + 5 * N + 8
    [] phase = "stage"    -> 3 * Uncommitted + 5 * N + 9

(* Sets of files are counted by the number of files at most.               *)
LEMMA FilesCounted == \A S \in SUBSET Files : Cardinality(S) \in Nat /\ Cardinality(S) <= N
<1>1. IsFiniteSet(Files) /\ Cardinality(Files) = N
  BY Parameters, FS_Interval DEF Files
<1>2. QED
  BY <1>1, FS_Subset, FS_CardinalityType

(* Taking a file out of a set counts one less.                             *)
LEMMA OneLess ==
  ASSUME NEW S \in SUBSET Files, NEW f \in S
  PROVE  Cardinality(S \ {f}) = Cardinality(S) - 1
BY FilesFinite, FS_RemoveElement

(* The measure is a number, and no larger than eight calls a file and nine *)
(* more.                                                                   *)
LEMMA StepsBounded == TypeOK => StepsLeft \in Nat /\ StepsLeft <= 8 * N + 9
<1> SUFFICES ASSUME TypeOK PROVE StepsLeft \in Nat /\ StepsLeft <= 8 * N + 9
  OBVIOUS
<1>1. Cardinality(todo) \in Nat /\ Cardinality(todo) <= N
  BY FilesCounted DEF TypeOK
<1>2. Uncommitted \in 0 .. N
  BY Parameters DEF TypeOK, Uncommitted
<1>3. N \in Nat
  BY Parameters
<1>4. \/ phase \in {"success", "failure", "killed"}
      \/ phase \in {"unstage", "unlink", "discard", "rename", "rollback", "drop", "restore"}
      \/ phase \in {"install", "commit", "write", "create", "stage"}
  BY DEF TypeOK
<1>5. CASE phase \in {"success", "failure", "killed"}
  BY <1>3, <1>5 DEF StepsLeft
<1>6. CASE phase \in {"unstage", "unlink", "discard", "rename", "rollback", "drop", "restore"}
  BY <1>1, <1>3, <1>6 DEF StepsLeft
<1>7. CASE phase \in {"install", "commit", "write", "create", "stage"}
  BY <1>2, <1>3, <1>7 DEF StepsLeft
<1>8. QED
  BY <1>4, <1>5, <1>6, <1>7

Fewer == StepsLeft' < StepsLeft
(* Every step of the run lowers it; a save by someone else leaves it.      *)
LEMMA StepsFall == IInv /\ [Next]_vars => Fewer \/ (StepsLeft' = StepsLeft /\ edits' = edits + 1)
                                                \/ UNCHANGED vars
<1> SUFFICES ASSUME IInv, Next
             PROVE  Fewer \/ (StepsLeft' = StepsLeft /\ edits' = edits + 1) \/ UNCHANGED vars
  OBVIOUS
<1> USE DEF Goes, Fails, inputs, disk, cursors
<1>i. TypeOK /\ CursorInv
  BY DEF IInv
<1>t. TypeOK'
  BY TypeNext
<1>n. N \in Nat /\ at \in Nat /\ at <= N + 1 /\ at' \in Nat /\ at' <= N + 1
  BY <1>i, <1>t, Parameters DEF TypeOK
<1>c. /\ Cardinality(todo) \in Nat /\ Cardinality(todo) <= N
      /\ Cardinality(todo') \in Nat /\ Cardinality(todo') <= N
  BY <1>i, <1>t, FilesCounted DEF TypeOK
<1>f. todo # {} => /\ Cardinality(todo \ {First(todo)}) = Cardinality(todo) - 1
                   /\ Cardinality(todo \ {Last(todo)}) = Cardinality(todo) - 1
  BY <1>i, FirstAndLast, OneLess DEF TypeOK
<1>a. at \in changed => at <= N
  BY <1>i DEF TypeOK, Files
<1>b. at \in Files => at <= N
  BY DEF Files
<1> USE <1>n, <1>c DEF Fewer, StepsLeft, Uncommitted
<1>1. CASE StageSkip
  BY <1>1, <1>b DEF StageSkip
<1>2. CASE StageProbe
  BY <1>2, <1>a DEF StageProbe, GiveUpStaging
<1>3. CASE StageCreate
  BY <1>3 DEF StageCreate
<1>4. CASE StageWrite
  BY <1>4 DEF StageWrite
<1>5. CASE StageDiscard
  BY <1>5 DEF StageDiscard, GiveUpStaging
<1>6. CASE Unstage
  BY <1>6, <1>f DEF Unstage
<1>7. CASE StagingOver
  BY <1>7 DEF StagingOver
<1>8. CASE CommitSkip
  BY <1>8, <1>b DEF CommitSkip
<1>9. CASE MoveAway
  <2>1. phase = "commit" /\ at' = at /\ phase' \in {"install", "rollback"}
    BY <1>9 DEF MoveAway, RollBack
  <2>2. QED
    BY <2>1
<1>10. CASE Install
  BY <1>10, <1>i, <1>a DEF Install, CursorInv
<1>11. CASE Restore
  BY <1>11 DEF Restore
<1>12. CASE DropTemp
  BY <1>12 DEF DropTemp, RollBack
<1>13. CASE RollbackRemove
  BY <1>13, <1>f DEF RollbackRemove
<1>14. CASE RollbackRename
  BY <1>14, <1>i, <1>f DEF RollbackRename, CursorInv
<1>15. CASE CleanUp
  BY <1>15 DEF CleanUp
<1>16. CASE CommitOver
  BY <1>16 DEF CommitOver
<1>17. CASE UnlinkBackup
  BY <1>17, <1>f DEF UnlinkBackup
<1>18. CASE End
  BY <1>18 DEF End
<1>19. CASE Kill
  <2>1. StepsLeft' = 0
    BY <1>19 DEF Kill
  <2>2. StepsLeft > 0
    BY <1>19, <1>i DEF Kill, Ended, TypeOK
  <2>3. QED
    BY <2>1, <2>2
<1>20. ASSUME NEW f \in Files, Save(f) PROVE StepsLeft' = StepsLeft /\ edits' = edits + 1
  BY <1>20 DEF Save
<1>21. CASE Stopped
  BY <1>21 DEF Stopped
<1>22. QED
  BY <1>1, <1>2, <1>3, <1>4, <1>5, <1>6, <1>7, <1>8, <1>9, <1>10, <1>11, <1>12, <1>13,
     <1>14, <1>15, <1>16, <1>17, <1>18, <1>19, <1>20, <1>21 DEF Next, Staging, Commit

(* `ybm check --apply` ends, whatever fails and whoever saves meanwhile: each*)
(* system call leaves fewer to make, a save by an editor leaves as many, and*)
(* there are at most eight for each file and nine more.  No loop of        *)
(* apply_fmt, commit_formats or rollback_formats can go round for ever.    *)
THEOREM RunsEnd ==
  Spec => /\ [](StepsLeft \in Nat /\ StepsLeft <= 8 * N + 9)
          /\ [][\/ StepsLeft' < StepsLeft
                \/ StepsLeft' = StepsLeft /\ edits' = edits + 1]_vars
<1>1. IInv => StepsLeft \in Nat /\ StepsLeft <= 8 * N + 9
  BY StepsBounded DEF IInv
<1>2. IInv /\ [Next]_vars => [\/ StepsLeft' < StepsLeft
                              \/ StepsLeft' = StepsLeft /\ edits' = edits + 1]_vars
  BY StepsFall DEF Fewer
<1>3. QED
  BY <1>1, <1>2, Invariant, PTL DEF Spec
=============================================================================
