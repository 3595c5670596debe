-------------------------- MODULE MCServiceReplicas --------------------------
(***************************************************************************)
(* Small instances of ServiceReplicas.                                     *)
(***************************************************************************)
EXTENDS ServiceReplicas

CONSTANTS r1, r2, h1, h2, g1
=============================================================================
