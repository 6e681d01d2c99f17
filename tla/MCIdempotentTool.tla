-------------------------- MODULE MCIdempotentTool --------------------------
(* A small instance of IdempotentTool for TLC. *)
EXTENDS IdempotentTool, TLC

CONSTANTS l1, d1

\* Room for one of two keys.
MCCapacity == l1 :> 1
=============================================================================
