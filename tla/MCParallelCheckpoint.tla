------------------------ MODULE MCParallelCheckpoint ------------------------
(* A small instance of ParallelCheckpoint for TLC. *)
EXTENDS ParallelCheckpoint, TLC

CONSTANTS p1, p2, c1, c2, c3

\* Two processes; the first pipeline is shared by two callers.
MCOwner == c1 :> p1 @@ c2 :> p1 @@ c3 :> p2

\* The processes disagree about the concurrency limit.
MCLimit == p1 :> 2 @@ p2 :> 1

\* The callers of the first pipeline are interchangeable.
CallerSymmetry == Permutations({c1, c2})
=============================================================================
