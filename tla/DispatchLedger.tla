--------------------------- MODULE DispatchLedger ---------------------------
(***************************************************************************)
(* What every checkpointed pipeline promises about its units of work (the  *)
(* stages of a sequence, the branches of a fan-out, the selected route):   *)
(* an agent is dispatched only for a unit that was durably claimed, after  *)
(* the units it needs are settled, and at most once, whoever recovers the  *)
(* run and however often.                                                  *)
(***************************************************************************)
EXTENDS Naturals

CONSTANTS
    Units,    \* the units of work of one run
    Needs     \* Needs[u]: the units that must be settled before u is claimed

VARIABLES
    phase,    \* phase[u]: the durable progress of u
    runs      \* runs[u]: how often the agent of u has been dispatched

vars == <<phase, runs>>

Phases == {"open", "claimed", "settled"}

Init ==
    /\ phase = [u \in Units |-> "open"]
    /\ runs = [u \in Units |-> 0]

\* InFlight is committed.
Claim(u) ==
    /\ phase[u] = "open"
    /\ \A v \in Needs[u] : phase[v] = "settled"
    /\ phase' = [phase EXCEPT ![u] = "claimed"]
    /\ UNCHANGED runs

\* The agent is called.  Its caller may be so slow that somebody has settled
\* the unit by hand in the meantime.
Dispatch(u) ==
    /\ phase[u] \in {"claimed", "settled"}
    /\ runs[u] = 0
    /\ runs' = [runs EXCEPT ![u] = 1]
    /\ UNCHANGED phase

\* The outcome is committed, by the run or by a reconciliation.
Settle(u) ==
    /\ phase[u] = "claimed"
    /\ phase' = [phase EXCEPT ![u] = "settled"]
    /\ UNCHANGED runs

Next == \E u \in Units : Claim(u) \/ Dispatch(u) \/ Settle(u)

Spec == Init /\ [][Next]_vars
=============================================================================
