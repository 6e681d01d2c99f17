------------------------- MODULE ParallelCheckpoint -------------------------
(***************************************************************************)
(* ParallelPipeline with a ParallelStore: run_checkpointed,                *)
(* resume_checkpointed, reconcile_checkpointed and the streaming forms, by *)
(* several callers of several pipelines (processes) on one StateKey.       *)
(*                                                                         *)
(* A caller claims branches one by one, up to its concurrency limit, by    *)
(* committing InFlight; it polls the claimed branches together and commits *)
(* the outcome of each.  It is the only writer of its run: while it saves, *)
(* no branch is polled.                                                    *)
(*                                                                         *)
(* Code: src/pipeline/parallel.rs, parallel/{checkpoint,streaming}.rs,     *)
(* parallel/checkpoint/{execution,reconciliation,streaming}.rs,            *)
(* plugins/agentscope-state-sqlite/src/parallel.rs.                        *)
(***************************************************************************)
EXTENDS Naturals, FiniteSets

CONSTANTS
    Pipelines,    \* pipeline values (with their clones) bound to the key
    Callers,      \* each runs one operation at a time
    Owner,        \* Owner[c]: the pipeline caller c uses
    Limit,        \* Limit[p]: max_concurrency of pipeline p
    NoCaller,     \* not a caller
    Size,         \* number of branches
    MaxCalls,     \* bound: operations started in one behaviour
    Disruptions   \* what may go wrong, see AllDisruptions

AllDisruptions ==
    {"store",       \* a load or a save fails and has no effect
     "ack",         \* a save takes effect but reports a failure
     "late",        \* the save of a dropped future takes effect later, or never
     "drop",        \* the caller drops a future or a stream before its end
     "crash",       \* the process of a pipeline stops
     "agent",       \* the agent of a branch fails or pauses
     "interrupt"}   \* the pipeline is interrupted

ASSUME FanOutAssumption ==
    /\ Pipelines # {}
    /\ Owner \in [Callers -> Pipelines]
    /\ Limit \in [Pipelines -> Nat \ {0}]
    /\ NoCaller \notin Callers
    /\ Size \in Nat \ {0}
    /\ MaxCalls \in Nat
    /\ Disruptions \subseteq AllDisruptions

Branches == 1 .. Size

-----------------------------------------------------------------------------
(* Data.  The state of a branch names the caller whose operation recorded   *)
(* its outcome; "verified" is a Completed from a reconciliation.             *)

Ready == [kind |-> "ready", by |-> NoCaller]
InFlight == [kind |-> "in_flight", by |-> NoCaller]
Outcome == [kind : {"completed", "failed", "verified"}, by : Callers]
Checkpoint == [Branches -> {Ready, InFlight} \cup Outcome]
Record == [revision : Nat, checkpoint : Checkpoint]

NewCheckpoint == [b \in Branches |-> Ready]
NoRecord == [revision |-> 0, checkpoint |-> NewCheckpoint]

Queued(cp) == {b \in Branches : cp[b] = Ready}
Active(cp) == {b \in Branches : cp[b] = InFlight}
Settled(cp) == {b \in Branches : cp[b] \in Outcome}

\* validate_resume
Resumable(cp) == Active(cp) = {} /\ Queued(cp) # {}
\* Mutation of Reconcilable: completed branches too.
ReconcilableOnceClaimed(state) == state # Ready
Reconcilable(state) == state = InFlight \/ state.kind = "failed"

\* The branches are claimed in their configured order.
Claimed(cp) ==
    [cp EXCEPT ![CHOOSE b \in Queued(cp) : \A d \in Queued(cp) : b <= d] = InFlight]

\* Mutation of HasRoom: one branch too many.
HasRoomForMore(c, cp) == Cardinality(Active(cp)) <= Limit[Owner[c]]
HasRoom(c, cp) == Cardinality(Active(cp)) < Limit[Owner[c]]

-----------------------------------------------------------------------------
VARIABLES
    store,      \* the ParallelRecord of the key; revision 0: none yet
    orphans,    \* saves whose future was dropped but which may still happen
    guard,      \* per pipeline: who holds ParallelPipeline::operation
    pc,         \* per caller: the next await of its operation
    record,     \* per caller: the record it works on
    started,    \* per caller: the active branches whose agent is running
    called,     \* operations started
    \* history variables
    runs,       \* per branch: how often its agent has been called
    announced   \* outcomes that were reported to a caller

local == <<guard, pc, record, started>>
vars == <<store, orphans, guard, pc, record, started, called, runs, announced>>

PCs == {"idle", "create", "load", "inspect", "settle", "claim", "select", "record"}

TypeOK ==
    /\ store \in Record
    /\ orphans \subseteq [pipeline : Pipelines, base : Nat, checkpoint : Checkpoint]
    /\ guard \in [Pipelines -> Callers \cup {NoCaller}]
    /\ pc \in [Callers -> PCs]
    /\ record \in [Callers -> Record]
    /\ started \in [Callers -> SUBSET Branches]
    /\ called \in Nat
    /\ runs \in [Branches -> Nat]
    /\ announced \subseteq [branch : Branches, outcome : Outcome]

Init ==
    /\ store = NoRecord
    /\ orphans = {}
    /\ guard = [p \in Pipelines |-> NoCaller]
    /\ pc = [c \in Callers |-> "idle"]
    /\ record = [c \in Callers |-> NoRecord]
    /\ started = [c \in Callers |-> {}]
    /\ called = 0
    /\ runs = [b \in Branches |-> 0]
    /\ announced = {}

-----------------------------------------------------------------------------
(* Building blocks of the actions.                                          *)

Current(c) == record[c].checkpoint
Goto(c, where) == pc' = [pc EXCEPT ![c] = where]

\* The operation returns: its branches are dropped, its guard is released.
Release(c) ==
    /\ Goto(c, "idle")
    /\ guard' = [p \in Pipelines |-> IF guard[p] = c THEN NoCaller ELSE guard[p]]
    /\ record' = [record EXCEPT ![c] = NoRecord]
    /\ started' = [started EXCEPT ![c] = {}]

\* Mutation of Commits: the expected revision is not compared.
BlindCommits(e, cp) == store' = [revision |-> store.revision + 1, checkpoint |-> cp]

\* ParallelStore::save with the expected revision e (0: None).
Commits(e, cp) ==
    /\ store.revision = e
    /\ store' = [revision |-> e + 1, checkpoint |-> cp]

\* The checkpoint that caller c is about to save.
Pending(c) ==
    CASE pc[c] = "create" -> NewCheckpoint
      [] pc[c] = "claim" -> Claimed(Current(c))
      [] OTHER -> Current(c)
Saving(c) == pc[c] \in {"create", "claim", "record", "settle"}
SaveSucceeds(c) == Commits(record[c].revision, Pending(c))

\* Errors and outputs report every outcome of the last acknowledged record.
Announce(cp) ==
    announced' = announced \cup {[branch |-> b, outcome |-> cp[b]] : b \in Settled(cp)}

\* The loop goes on with the acknowledged record r, which has work left.
Continue(c, r) ==
    /\ record' = [record EXCEPT ![c] = r]
    /\ Goto(c, IF Queued(r.checkpoint) # {} /\ HasRoom(c, r.checkpoint)
               THEN "claim"
               ELSE "select")
    /\ UNCHANGED guard

-----------------------------------------------------------------------------
(* Beginning an operation.                                                  *)

\* operation.try_lock: run goes on to create, resume to load, reconcile to
\* inspect with some revision its caller has read before.
Begin(c) ==
    /\ pc[c] = "idle"
    /\ called < MaxCalls
    /\ called' = called + 1
    /\ guard[Owner[c]] = NoCaller
    /\ guard' = [guard EXCEPT ![Owner[c]] = c]
    /\ \/ Goto(c, "create") /\ UNCHANGED record
       \/ Goto(c, "load") /\ UNCHANGED record
       \/ /\ Goto(c, "inspect")
          /\ \E e \in 1 .. store.revision :
                record' = [record EXCEPT ![c].revision = e]
    /\ UNCHANGED <<store, orphans, started, runs, announced>>

Busy(c) ==
    /\ pc[c] = "idle"
    /\ called < MaxCalls
    /\ called' = called + 1
    /\ guard[Owner[c]] # NoCaller
    /\ UNCHANGED <<store, orphans, local, runs, announced>>

\* run_checkpointed: the key must be free.
Create(c) ==
    /\ pc[c] = "create"
    /\ SaveSucceeds(c)
    /\ Continue(c, store')
    /\ UNCHANGED <<orphans, started, called, runs, announced>>

\* Mutation of Resume: branches that may be running are overlooked.
ResumeQueued(c) ==
    /\ pc[c] = "load"
    /\ store.revision # 0
    /\ Queued(store.checkpoint) # {}
    /\ Continue(c, store)
    /\ Announce(store.checkpoint)
    /\ UNCHANGED <<store, orphans, started, called, runs>>

\* resume_checkpointed
Resume(c) ==
    /\ pc[c] = "load"
    /\ store.revision # 0
    /\ Resumable(store.checkpoint)
    /\ Continue(c, store)
    /\ Announce(store.checkpoint)
    /\ UNCHANGED <<store, orphans, started, called, runs>>

\* reconcile_checkpointed with a verified reply, up to its save, whose failure
\* reports the outcomes inspected here.
Inspect(c) ==
    /\ pc[c] = "inspect"
    /\ store.revision = record[c].revision
    /\ \E b \in Branches :
          /\ Reconcilable(store.checkpoint[b])
          /\ record' = [record EXCEPT ![c].checkpoint =
                [store.checkpoint EXCEPT ![b] = [kind |-> "verified", by |-> c]]]
    /\ Goto(c, "settle")
    /\ Announce(store.checkpoint)
    /\ UNCHANGED <<store, orphans, guard, started, called, runs>>

\* The load fails or there is no such checkpoint; or it may not be resumed, or
\* revision, branch or verified reply are not the right ones: UnsafeResume
\* reports what was loaded.
Refuse(c) ==
    /\ pc[c] \in {"load", "inspect"}
    /\ \/ /\ store.revision = 0 \/ "store" \in Disruptions
          /\ UNCHANGED announced
       \/ /\ store.revision # 0
          /\ pc[c] = "load" => ~Resumable(store.checkpoint)
          /\ Announce(store.checkpoint)
    /\ Release(c)
    /\ UNCHANGED <<store, orphans, called, runs>>

Settle(c) ==
    /\ pc[c] = "settle"
    /\ SaveSucceeds(c)
    /\ Announce(Current(c))
    /\ Release(c)
    /\ UNCHANGED <<orphans, called, runs>>

-----------------------------------------------------------------------------
(* execute_checkpointed, checkpoint_event_stream: the loop.                  *)

\* InFlight is committed and the branch becomes active, but is not polled yet.
Claim(c) ==
    /\ pc[c] = "claim"
    /\ SaveSucceeds(c)
    /\ Continue(c, store')
    /\ UNCHANGED <<orphans, started, called, runs, announced>>

\* branch_reply, branch_stream: the first poll of an active branch.
Dispatch(c, b) ==
    /\ pc[c] = "select"
    /\ b \in Active(Current(c)) \ started[c]
    /\ started' = [started EXCEPT ![c] = @ \cup {b}]
    /\ runs' = [runs EXCEPT ![b] = @ + 1]
    /\ UNCHANGED <<store, orphans, guard, pc, record, called, announced>>

\* active.next() yields the outcome of a branch.
BranchEnds(c, b) ==
    /\ pc[c] = "select"
    /\ b \in started[c]
    /\ \E kind \in {"completed", "failed"} :
          /\ kind = "failed" => "agent" \in Disruptions
          /\ record' = [record EXCEPT ![c].checkpoint[b] = [kind |-> kind, by |-> c]]
    /\ started' = [started EXCEPT ![c] = @ \ {b}]
    /\ Goto(c, "record")
    /\ UNCHANGED <<store, orphans, guard, called, runs, announced>>

\* The outcome is committed, and BranchFinished; after the last one the run
\* returns finished_result.
Commit(c) ==
    /\ pc[c] = "record"
    /\ SaveSucceeds(c)
    /\ Announce(Current(c))
    /\ IF Settled(Current(c)) = Branches
       THEN Release(c)
       ELSE Continue(c, store') /\ UNCHANGED started
    /\ UNCHANGED <<orphans, called, runs>>

SaveFails(c) ==
    /\ Saving(c)
    /\ \/ /\ store.revision # record[c].revision \/ "store" \in Disruptions
          /\ UNCHANGED store
       \/ "ack" \in Disruptions /\ SaveSucceeds(c)
    /\ Release(c)
    /\ UNCHANGED <<orphans, called, runs, announced>>

\* Before a claim, after it, or while the branches are polled; saves are not
\* raced against the signal.
Interrupted(c) ==
    /\ "interrupt" \in Disruptions
    /\ pc[c] \in {"claim", "select"}
    /\ Release(c)
    /\ UNCHANGED <<store, orphans, called, runs, announced>>

-----------------------------------------------------------------------------
(* The environment.                                                         *)

\* The future or stream is dropped; a save on its way may still take effect.
Drop(c) ==
    /\ "drop" \in Disruptions
    /\ pc[c] # "idle"
    /\ \/ UNCHANGED orphans
       \/ /\ "late" \in Disruptions
          /\ Saving(c)
          /\ orphans' = orphans \cup
                {[pipeline |-> Owner[c], base |-> record[c].revision,
                  checkpoint |-> Pending(c)]}
    /\ Release(c)
    /\ UNCHANGED <<store, called, runs, announced>>

OrphanCommits(w) ==
    /\ w \in orphans
    /\ orphans' = orphans \ {w}
    /\ Commits(w.base, w.checkpoint)
    /\ UNCHANGED <<local, called, runs, announced>>

OrphanLost(w) ==
    /\ w \in orphans
    /\ orphans' = orphans \ {w}
    /\ UNCHANGED <<store, local, called, runs, announced>>

Crash(p) ==
    /\ "crash" \in Disruptions
    /\ pc' = [c \in Callers |-> IF Owner[c] = p THEN "idle" ELSE pc[c]]
    /\ record' = [c \in Callers |-> IF Owner[c] = p THEN NoRecord ELSE record[c]]
    /\ started' = [c \in Callers |-> IF Owner[c] = p THEN {} ELSE started[c]]
    /\ guard' = [guard EXCEPT ![p] = NoCaller]
    /\ orphans' = {w \in orphans : w.pipeline # p}
    /\ UNCHANGED <<store, called, runs, announced>>

-----------------------------------------------------------------------------
Next ==
    \/ \E c \in Callers :
          \/ Begin(c) \/ Busy(c) \/ Create(c) \/ Resume(c) \/ Inspect(c)
          \/ Refuse(c) \/ Settle(c) \/ Claim(c)
          \/ \E b \in Branches : Dispatch(c, b) \/ BranchEnds(c, b)
          \/ Commit(c) \/ SaveFails(c) \/ Interrupted(c) \/ Drop(c)
    \/ \E w \in orphans : OrphanCommits(w) \/ OrphanLost(w)
    \/ \E p \in Pipelines : Crash(p)

Spec == Init /\ [][Next]_vars

-----------------------------------------------------------------------------
(* Properties.                                                              *)

\* The stored checkpoint as a ledger of independent units.
Phase(cp) ==
    [b \in Branches |->
        IF cp[b] = Ready THEN "open"
        ELSE IF cp[b] = InFlight THEN "claimed" ELSE "settled"]

Ledger == INSTANCE DispatchLedger WITH
    Units <- Branches,
    Needs <- [b \in Branches |-> {}],
    phase <- Phase(store.checkpoint),
    runs <- runs

\* Every agent is called at most once per run and only for a branch that is
\* durably InFlight or was settled by hand meanwhile; no recovery reopens a
\* branch ("Dispatch requires committing InFlight first", "Never replayed").
DispatchedOnce == Ledger!Spec

\* An outcome that was reported to a caller stays, except that a failure may
\* be replaced by a verified reply; a run that lost a race never overwrites
\* the outcome of another ("Ready and Completed states cannot be overwritten").
AnnouncedIsDurable ==
    \A a \in announced :
        \/ store.checkpoint[a.branch] = a.outcome
        \/ a.outcome.kind = "failed" /\ store.checkpoint[a.branch].kind = "verified"

\* However often the run is interrupted, crashed, reconciled and resumed, no
\* more branches are uncertain at once than one pipeline may have active.
WithinLimit(cp) == \E p \in Pipelines : Cardinality(Active(cp)) <= Limit[p]
UncertainBounded == WithinLimit(store.checkpoint)

-----------------------------------------------------------------------------
(* The inductive invariant behind these properties.                         *)

\* What a save may do to one branch.
Moves(from, to) ==
    \/ from = Ready /\ to = InFlight
    \/ from = InFlight /\ to \in Outcome
    \/ from.kind = "failed" /\ to \in Outcome /\ to.kind = "verified"

\* The checkpoints that may replace the stored one.
Legal(cp) ==
    \/ store.revision = 0 /\ cp = NewCheckpoint
    \/ /\ store.revision # 0
       /\ \E b \in Branches :
             /\ Moves(store.checkpoint[b], cp[b])
             /\ \A d \in Branches \ {b} : cp[d] = store.checkpoint[d]

\* Nobody expects a revision from the future.
RevisionsKnown ==
    /\ \A c \in Callers : record[c].revision <= store.revision
    /\ \A w \in orphans : w.base <= store.revision

\* Every checkpoint whose compare-and-swap could still succeed is legal.
SavesLegal ==
    /\ \A c \in Callers :
          Saving(c) /\ record[c].revision = store.revision => Legal(Pending(c))
    /\ \A w \in orphans : w.base = store.revision => Legal(w.checkpoint)

\* What an operation in the given place knows about its record.
RecordHeld(c) ==
    /\ pc[c] \in {"idle", "create"} => record[c] = NoRecord
    /\ pc[c] \in {"claim", "select", "record"} => record[c].revision # 0
    /\ pc[c] = "claim" => Queued(Current(c)) # {}
    /\ pc[c] \in {"claim", "select"} /\ record[c].revision = store.revision =>
          Current(c) = store.checkpoint
    /\ started[c] \subseteq Active(Current(c))
    /\ started[c] # {} => pc[c] \in {"claim", "select", "record"}

\* The branches that caller c has claimed and not yet polled.
Waiting(c) ==
    IF pc[c] \in {"claim", "select", "record"}
    THEN Active(Current(c)) \ started[c]
    ELSE {}

\* However late it is polled, a waiting branch is taken and has not run.
WaitingHeld(c) ==
    \A b \in Waiting(c) : store.checkpoint[b] # Ready /\ runs[b] = 0

\* No two callers wait to dispatch the same branch.
WaitingApart ==
    \A c, d \in Callers : c # d => Waiting(c) \cap Waiting(d) = {}

RunsBooked ==
    \A b \in Branches :
        runs[b] <= 1 /\ (runs[b] # 0 => store.checkpoint[b] # Ready)

LedgerInv ==
    /\ TypeOK
    /\ store.revision = 0 => store = NoRecord
    /\ RevisionsKnown
    /\ SavesLegal
    /\ \A c \in Callers : RecordHeld(c) /\ WaitingHeld(c)
    /\ WaitingApart
    /\ RunsBooked

\* Behind UncertainBounded: the limit bounds every checkpoint that may still be
\* saved, and a caller claims only what its own limit has room for.
LimitInv ==
    /\ WithinLimit(store.checkpoint)
    /\ \A c \in Callers :
          /\ WithinLimit(Current(c))
          /\ pc[c] = "claim" => HasRoom(c, Current(c))
    /\ \A w \in orphans : WithinLimit(w.checkpoint)
=============================================================================
