----------------------------- MODULE MCFmtApply ----------------------------
(***************************************************************************)
(* FmtApply for TLC: three files, so that a failing rename has files to     *)
(* roll back before it and temporaries to clean up after it.               *)
(***************************************************************************)
EXTENDS FmtApply

(* At most one name is in the way when the run starts.                      *)
Obstacles == Cardinality(symlink)
             + Cardinality({f \in Files : temp[f] = "foreign"})
             + Cardinality({f \in Files : backup[f] = "foreign"})
OneObstacle == Obstacles <= 1
MCInit == Init /\ OneObstacle
MCSpec == MCInit /\ [][Next]_vars
=============================================================================
