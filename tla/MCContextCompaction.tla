------------------------ MODULE MCContextCompaction ------------------------
(* A small instance of ContextCompaction for TLC. *)
EXTENDS ContextCompaction, TLC

CONSTANTS a1, o1, o2

\* Two callers of the clones of one instance.
MCOwner == o1 :> a1 @@ o2 :> a1

\* Sessions that replies, a compaction and a pause reach from Init: the
\* operations of the bound are then spent on and around compactions.
Turn(n) == <<[kind |-> "user", id |-> 2 * n - 1], [kind |-> "answer", id |-> 2 * n]>>
TwoTurns == [hist |-> Turn(1) \o Turn(2), calls |-> 0, summary |-> <<>>]
Summarized3 == [hist |-> Turn(1) \o Turn(2) \o Turn(3), calls |-> 0, summary |-> Turn(1)]
Paused == [hist |-> Turn(1) \o <<[kind |-> "user", id |-> 3], [kind |-> "call", id |-> 4]>>,
           calls |-> 4, summary |-> <<>>]

\* Snapshots of the same session, one of them from before its compaction.
MCBackups == {[hist |-> Turn(1), calls |-> 0, summary |-> <<>>], Summarized3}

SettledInit ==
    \E s \in {TwoTurns, Summarized3, Paused} :
        /\ bound \in SUBSET Agents
        /\ store = IF bound = {} THEN [rev |-> 0, state |-> EmptyState]
                                 ELSE [rev |-> 3, state |-> s]
        /\ orphans = {}
        /\ view = [a \in Agents |-> s]
        /\ queue = [a \in Agents |-> <<>>]
        /\ pc = [o \in Ops |-> "idle"]
        /\ job = [o \in Ops |-> "reply"]
        /\ base = [o \in Ops |-> 0]
        /\ held = [o \in Ops |-> EmptyState]
        /\ nextId = 7
        /\ called = 0
        /\ Restart
        /\ TypeOK

SettledSpec == SettledInit /\ [][Next]_vars /\ Fairness
=============================================================================
