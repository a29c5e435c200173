-------------------------- MODULE MCFileRepository --------------------------
(***************************************************************************)
(* Small instances of FileRepository.                                      *)
(***************************************************************************)
EXTENDS FileRepository, TLC

Symmetric == Permutations(Ids) \cup Permutations(Urls) \cup Permutations(Writers)
=============================================================================
