--------------------------- MODULE MCDeleteWorker ---------------------------
(***************************************************************************)
(* Small instances of DeleteWorker.  Delete requests name up to MaxDelete  *)
(* ids, repetitions and blank ones included.                               *)
(***************************************************************************)
EXTENDS DeleteWorker, TLC

Symmetric == Permutations(Ids) \cup Permutations(Users)
=============================================================================
