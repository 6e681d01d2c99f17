--------------------------- MODULE MCAgentSession ---------------------------
(* Small instances of AgentSession for TLC. *)
EXTENDS AgentSession, TLC

CONSTANTS a1, a2, o1, o2, c1, c2

\* Two independent instances, one caller each.
MCOwnerApart == o1 :> a1 @@ o2 :> a2
\* Two callers of the clones of one instance.
MCOwnerClones == o1 :> a1 @@ o2 :> a1

\* Calls are interchangeable, so are the callers of one instance, and so are
\* two instances together with their callers.
CallerSymmetry == Permutations(Calls) \cup Permutations(Ops)
InstanceSymmetry == {a1 :> a2 @@ a2 :> a1 @@ o1 :> o2 @@ o2 :> o1}
Symmetry == Permutations(Calls) \cup InstanceSymmetry

\* A session that one reply has paused and saved: a record from which the
\* recovery operations are explored more deeply than from Init.
PausedState ==
    [hist |-> <<[kind |-> "user", id |-> 1], [kind |-> "asking", id |-> 2]>>,
     calls |-> [reply |-> 2, step |-> 1],
     exec |-> NoExecution]

PausedInit ==
    /\ store = [rev |-> 1, state |-> PausedState]
    /\ nextId = 3
    /\ acked = MsgsOf(PausedState.hist)
    /\ Restart
    /\ TypeOK

PausedSpec == PausedInit /\ [][Next]_vars
=============================================================================
