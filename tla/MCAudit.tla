------------------------------- MODULE MCAudit -------------------------------
(***************************************************************************)
(* A small instance of Audit.  Liveness is checked without symmetry.       *)
(***************************************************************************)
EXTENDS Audit, TLC
=============================================================================
