----------------------- MODULE MCSequentialCheckpoint -----------------------
(* A small instance of SequentialCheckpoint for TLC. *)
EXTENDS SequentialCheckpoint, TLC

CONSTANTS p1, p2, c1, c2, c3

\* Two processes; the first pipeline is shared by two callers.
MCOwner == c1 :> p1 @@ c2 :> p1 @@ c3 :> p2
=============================================================================
