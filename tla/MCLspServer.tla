---------------------------- MODULE MCLspServer ----------------------------
(***************************************************************************)
(* LspServer for TLC: a program of two files, in a directory that has two  *)
(* names.  Either file may be a script that uses the other, a module with  *)
(* a lint fault, or a text with a syntax fault; at first the disk holds    *)
(* the script and the module, or nothing.                                  *)
(***************************************************************************)
EXTENDS LspServer

Text(m, f, u) == [module |-> m, fault |-> f, uses |-> u]
Script == Text(FALSE, Clean, {"lib"})
Module == Text(TRUE, Lint, {})
MCTexts == {Script, Module, Text(FALSE, Syntax, {})}

Saved == [main |-> Script, lib |-> Module]
MCInit == disk \in {<<>>, Saved} /\ Init
MCSpec == MCInit /\ [][Next]_vars /\ Fairness
=============================================================================
