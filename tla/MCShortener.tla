---------------------------- MODULE MCShortener ----------------------------
(***************************************************************************)
(* A small instance of the whole service: raw URLs are URLs already, since *)
(* MCShortenRequests checks what normalizing does.                         *)
(***************************************************************************)
EXTENDS Shortener, TLC

MCNormalize == [raw \in Raws |-> raw]

Symmetric == Permutations(Ids) \cup Permutations(Urls) \cup Permutations(Singles)
                \cup Permutations(Users)
=============================================================================
