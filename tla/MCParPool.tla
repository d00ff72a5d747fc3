------------------------------ MODULE MCParPool ----------------------------
(***************************************************************************)
(* ParPool for TLC: every call of up to four elements on up to three cores  *)
(* (chunks of one and of two elements, fewer chunks than cores), every      *)
(* combination of fates, both entry points and both abort modes.            *)
(***************************************************************************)
EXTENDS ParPool
=============================================================================
