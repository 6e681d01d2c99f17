------------------------- MODULE MCRoutedCheckpoint -------------------------
(* A small instance of RoutedCheckpoint for TLC. *)
EXTENDS RoutedCheckpoint, TLC

CONSTANTS p1, p2, c1, c2, c3, r1, r2, r3, a1, a2

\* Two processes; the first pipeline is shared by two callers.
MCOwner == c1 :> p1 @@ c2 :> p1 @@ c3 :> p2

\* Two routes of the first process share an agent and the third one is unknown
\* to it; the second process agrees about one route only.
MCBind ==
    p1 :> (r1 :> a1 @@ r2 :> a1 @@ r3 :> NoAgent) @@
    p2 :> (r1 :> a1 @@ r2 :> a2 @@ r3 :> a2)

\* The callers of the first pipeline are interchangeable.
CallerSymmetry == Permutations({c1, c2})
=============================================================================
