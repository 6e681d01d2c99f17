-------------------------- MODULE RoutedCheckpoint --------------------------
(***************************************************************************)
(* RoutedPipeline and ModelRouter: the checkpointed operations on one      *)
(* StateKey (run, resume, reconcile and the streaming forms) by several    *)
(* callers of several pipelines (processes), beside the plain runs and     *)
(* model selections that share the lock of a pipeline.                     *)
(*                                                                         *)
(* Processes may register different routes, or bind a route to another     *)
(* agent: a checkpoint names both.                                         *)
(*                                                                         *)
(* Code: src/pipeline/routed.rs, routed/{checkpoint,streaming,             *)
(* model_router}.rs, routed/model_router/*.rs,                             *)
(* routed/checkpoint/{execution,reconciliation,streaming}.rs,              *)
(* plugins/agentscope-state-sqlite/src/routed.rs.                          *)
(***************************************************************************)
EXTENDS Naturals

CONSTANTS
    Pipelines,    \* pipeline values (with their clones and routers)
    Callers,      \* each runs one operation at a time
    Owner,        \* Owner[c]: the pipeline caller c uses
    Routes,       \* route keys
    Agents,       \* agent names
    Bind,         \* Bind[p][r]: the agent pipeline p registers for route r
    NoAgent,      \* not an agent: the route is not registered
    NoCaller,     \* not a caller
    MaxCalls,     \* bound: operations started in one behaviour
    Disruptions   \* what may go wrong, see AllDisruptions

AllDisruptions ==
    {"store",       \* a load or a save fails and has no effect
     "ack",         \* a save takes effect but its acknowledgement is refused
     "late",        \* the save of a dropped future takes effect later, or never
     "drop",        \* the caller drops a future or a stream before its end
     "crash",       \* the process of a pipeline stops
     "agent",       \* the selected agent fails or pauses
     "interrupt"}   \* the pipeline is interrupted

ASSUME RoutingAssumption ==
    /\ Owner \in [Callers -> Pipelines]
    /\ NoAgent \notin Agents
    /\ Bind \in [Pipelines -> [Routes -> Agents \cup {NoAgent}]]
    /\ NoCaller \notin Callers
    /\ MaxCalls \in Nat
    /\ Disruptions \subseteq AllDisruptions

Registered(p) == {r \in Routes : Bind[p][r] # NoAgent}

-----------------------------------------------------------------------------
(* Data.  A status names the caller whose operation recorded the outcome;   *)
(* "verified" is a Completed from a reconciliation.                          *)

Ready == [kind |-> "ready", by |-> NoCaller]
InFlight == [kind |-> "in_flight", by |-> NoCaller]
Outcome == [kind : {"completed", "failed", "verified"}, by : Callers]

Checkpoint ==
    [route : Routes, agent : Agents, status : {Ready, InFlight} \cup Outcome]
NoCheckpoint == [route |-> "none", agent |-> NoAgent, status |-> Ready]
NoRecord == [revision |-> 0, checkpoint |-> NoCheckpoint]
Record == [revision : Nat, checkpoint : Checkpoint \cup {NoCheckpoint}]

NewCheckpoint(p, r) == [route |-> r, agent |-> Bind[p][r], status |-> Ready]
With(cp, status) == [cp EXCEPT !.status = status]

\* Mutation of Compatible: the agent name is not compared.
CompatibleRoute(p, cp) == cp.route \in Registered(p)

\* validate_checkpoint: the saved route is registered for the saved agent.
Compatible(p, cp) == cp.route \in Registered(p) /\ cp.agent = Bind[p][cp.route]

-----------------------------------------------------------------------------
VARIABLES
    store,      \* the RoutedRecord of the key; revision 0: none yet
    orphans,    \* saves whose future was dropped but which may still happen
    guard,      \* per pipeline: who holds RoutedPipeline::operation
    pc,         \* per caller: the next await of its operation
    record,     \* per caller: the record it works on
    called,     \* operations started
    \* history variables
    runs,       \* per route: how often its agent was called for the key
    targets,    \* the agents called for the key, with their routes
    announced   \* outcomes that were reported to a caller

local == <<guard, pc, record>>
ghosts == <<runs, targets, announced>>
vars == <<store, orphans, guard, pc, record, called, runs, targets, announced>>

Durable == {"create", "load", "inspect", "settle", "claim", "dispatch",
            "running", "record"}
PCs == Durable \cup {"idle", "choose", "serve"}

TypeOK ==
    /\ store \in Record
    /\ orphans \subseteq [pipeline : Pipelines, base : Nat, checkpoint : Checkpoint]
    /\ guard \in [Pipelines -> Callers \cup {NoCaller}]
    /\ pc \in [Callers -> PCs]
    /\ record \in [Callers -> Record]
    /\ called \in Nat
    /\ runs \in [Routes -> Nat]
    /\ targets \subseteq [route : Routes, agent : Agents]
    /\ announced \subseteq Outcome

Init ==
    /\ store = NoRecord
    /\ orphans = {}
    /\ guard = [p \in Pipelines |-> NoCaller]
    /\ pc = [c \in Callers |-> "idle"]
    /\ record = [c \in Callers |-> NoRecord]
    /\ called = 0
    /\ runs = [r \in Routes |-> 0]
    /\ targets = {}
    /\ announced = {}

-----------------------------------------------------------------------------
(* Building blocks of the actions.                                          *)

Current(c) == record[c].checkpoint
Goto(c, where) == pc' = [pc EXCEPT ![c] = where]

\* The operation returns and its guard is released; a stream does so before it
\* yields its terminal event.
Release(c) ==
    /\ Goto(c, "idle")
    /\ guard' = [p \in Pipelines |-> IF guard[p] = c THEN NoCaller ELSE guard[p]]
    /\ record' = [record EXCEPT ![c] = NoRecord]

\* Mutation of Commits: the expected revision is not compared.
BlindCommits(e, cp) == store' = [revision |-> store.revision + 1, checkpoint |-> cp]

\* RoutedStore::save with the expected revision e (0: None).
Commits(e, cp) ==
    /\ store.revision = e
    /\ store' = [revision |-> e + 1, checkpoint |-> cp]

\* The checkpoint that caller c is about to save.
Pending(c) == IF pc[c] = "claim" THEN With(Current(c), InFlight) ELSE Current(c)
Saving(c) == pc[c] \in {"create", "claim", "record", "settle"}
SaveSucceeds(c) == Commits(record[c].revision, Pending(c))

-----------------------------------------------------------------------------
(* Beginning an operation.                                                  *)

\* The checkpointed operations.  run looks its route up before it takes the
\* lock; reconcile comes with some revision its caller has read before.
Begin(c) ==
    /\ pc[c] = "idle"
    /\ called < MaxCalls
    /\ called' = called + 1
    /\ guard[Owner[c]] = NoCaller
    /\ guard' = [guard EXCEPT ![Owner[c]] = c]
    /\ \/ /\ Goto(c, "create")
          /\ \E r \in Registered(Owner[c]) :
                record' = [record EXCEPT ![c].checkpoint = NewCheckpoint(Owner[c], r)]
       \/ Goto(c, "load") /\ UNCHANGED record
       \/ /\ Goto(c, "inspect")
          /\ \E e \in 1 .. store.revision :
                record' = [record EXCEPT ![c].revision = e]
    /\ UNCHANGED <<store, orphans, ghosts>>

\* A plain run or stream, or an operation of the ModelRouter.
BeginPlain(c) ==
    /\ pc[c] = "idle"
    /\ called < MaxCalls
    /\ called' = called + 1
    /\ guard[Owner[c]] = NoCaller
    /\ guard' = [guard EXCEPT ![Owner[c]] = c]
    /\ Goto(c, "choose") \/ (Registered(Owner[c]) # {} /\ Goto(c, "serve"))
    /\ UNCHANGED <<store, orphans, record, ghosts>>

Busy(c) ==
    /\ pc[c] = "idle"
    /\ called < MaxCalls
    /\ called' = called + 1
    /\ guard[Owner[c]] # NoCaller
    /\ UNCHANGED <<store, orphans, local, ghosts>>

\* Route selection succeeds and ModelRouter::run and stream keep the lock.
Chosen(c) ==
    /\ pc[c] = "choose"
    /\ Goto(c, "serve")
    /\ UNCHANGED <<store, orphans, guard, record, called, ghosts>>

\* The plain reply, the selection of ModelRouter::select, or an error.
PlainEnds(c) ==
    /\ pc[c] \in {"choose", "serve"}
    /\ Release(c)
    /\ UNCHANGED <<store, orphans, called, ghosts>>

\* run_checkpointed: the key must be free.
Create(c) ==
    /\ pc[c] = "create"
    /\ SaveSucceeds(c)
    /\ record' = [record EXCEPT ![c] = store']
    /\ Goto(c, "claim")
    /\ UNCHANGED <<orphans, guard, called, ghosts>>

\* Mutation of Resume: work that may be running is started again.
ResumeUnfinished(c) ==
    /\ pc[c] = "load"
    /\ store.revision # 0
    /\ store.checkpoint.status \in {Ready, InFlight}
    /\ Compatible(Owner[c], store.checkpoint)
    /\ record' = [record EXCEPT ![c] = store]
    /\ Goto(c, "claim")
    /\ UNCHANGED <<store, orphans, guard, called, ghosts>>

\* resume_checkpointed
Resume(c) ==
    /\ pc[c] = "load"
    /\ store.revision # 0
    /\ store.checkpoint.status = Ready
    /\ Compatible(Owner[c], store.checkpoint)
    /\ record' = [record EXCEPT ![c] = store]
    /\ Goto(c, "claim")
    /\ UNCHANGED <<store, orphans, guard, called, ghosts>>

\* reconcile_checkpointed with a verified reply, up to its save.
Inspect(c) ==
    /\ pc[c] = "inspect"
    /\ store.revision = record[c].revision
    /\ Compatible(Owner[c], store.checkpoint)
    /\ store.checkpoint.status = InFlight \/ store.checkpoint.status.kind = "failed"
    /\ record' = [record EXCEPT ![c].checkpoint =
          With(store.checkpoint, [kind |-> "verified", by |-> c])]
    /\ Goto(c, "settle")
    /\ UNCHANGED <<store, orphans, guard, called, ghosts>>

\* The load fails, there is no such checkpoint, it may not be resumed, or
\* revision, status or verified reply are not the right ones.
Refuse(c) ==
    /\ \/ /\ pc[c] = "load"
          /\ \/ "store" \in Disruptions
             \/ store.revision = 0
             \/ store.checkpoint.status # Ready
             \/ ~Compatible(Owner[c], store.checkpoint)
       \/ pc[c] = "inspect"
    /\ Release(c)
    /\ UNCHANGED <<store, orphans, called, ghosts>>

-----------------------------------------------------------------------------
(* execute_checkpointed, checkpoint_event_stream.                            *)

\* InFlight is committed before the agent is called, and before RouteStarted.
Claim(c) ==
    /\ pc[c] = "claim"
    /\ SaveSucceeds(c)
    /\ record' = [record EXCEPT ![c] = store']
    /\ Goto(c, "dispatch")
    /\ UNCHANGED <<orphans, guard, called, ghosts>>

\* The agent that this process registers for the route is called.
Dispatch(c) ==
    LET r == Current(c).route
    IN  /\ pc[c] = "dispatch"
        /\ runs' = [runs EXCEPT ![r] = @ + 1]
        /\ targets' = targets \cup {[route |-> r, agent |-> Bind[Owner[c]][r]]}
        /\ Goto(c, "running")
        /\ UNCHANGED <<store, orphans, guard, record, called, announced>>

\* A reply or an error is observed: no interrupt is consulted any more.
AgentEnds(c) ==
    /\ pc[c] = "running"
    /\ \E kind \in {"completed", "failed"} :
          /\ kind = "failed" => "agent" \in Disruptions
          /\ record' = [record EXCEPT ![c].checkpoint.status = [kind |-> kind, by |-> c]]
    /\ Goto(c, "record")
    /\ UNCHANGED <<store, orphans, guard, called, ghosts>>

\* The outcome of the run or of the reconciliation is committed and returned.
Commit(c) ==
    /\ pc[c] \in {"record", "settle"}
    /\ SaveSucceeds(c)
    /\ announced' = announced \cup {Current(c).status}
    /\ Release(c)
    /\ UNCHANGED <<orphans, called, runs, targets>>

SaveFails(c) ==
    /\ Saving(c)
    /\ \/ /\ store.revision # record[c].revision \/ "store" \in Disruptions
          /\ UNCHANGED store
       \/ "ack" \in Disruptions /\ SaveSucceeds(c)
    /\ Release(c)
    /\ UNCHANGED <<orphans, called, ghosts>>

\* Before the claim, after it, or while the agent runs.
Interrupted(c) ==
    /\ "interrupt" \in Disruptions
    /\ pc[c] \in {"claim", "dispatch", "running"}
    /\ Release(c)
    /\ UNCHANGED <<store, orphans, called, ghosts>>

-----------------------------------------------------------------------------
(* The environment.                                                         *)

\* The future or stream is dropped; a save on its way may still take effect.
Drop(c) ==
    /\ "drop" \in Disruptions
    /\ pc[c] # "idle"
    /\ \/ UNCHANGED orphans
       \/ /\ "late" \in Disruptions
          /\ Saving(c)
          /\ orphans' = orphans \cup
                {[pipeline |-> Owner[c], base |-> record[c].revision,
                  checkpoint |-> Pending(c)]}
    /\ Release(c)
    /\ UNCHANGED <<store, called, ghosts>>

OrphanCommits(w) ==
    /\ w \in orphans
    /\ orphans' = orphans \ {w}
    /\ Commits(w.base, w.checkpoint)
    /\ UNCHANGED <<local, called, ghosts>>

OrphanLost(w) ==
    /\ w \in orphans
    /\ orphans' = orphans \ {w}
    /\ UNCHANGED <<store, local, called, ghosts>>

Crash(p) ==
    /\ "crash" \in Disruptions
    /\ pc' = [c \in Callers |-> IF Owner[c] = p THEN "idle" ELSE pc[c]]
    /\ record' = [c \in Callers |-> IF Owner[c] = p THEN NoRecord ELSE record[c]]
    /\ guard' = [guard EXCEPT ![p] = NoCaller]
    /\ orphans' = {w \in orphans : w.pipeline # p}
    /\ UNCHANGED <<store, called, ghosts>>

-----------------------------------------------------------------------------
Next ==
    \/ \E c \in Callers :
          \/ Begin(c) \/ BeginPlain(c) \/ Busy(c) \/ Chosen(c) \/ PlainEnds(c)
          \/ Create(c) \/ Resume(c) \/ Inspect(c) \/ Refuse(c)
          \/ Claim(c) \/ Dispatch(c) \/ AgentEnds(c) \/ Commit(c)
          \/ SaveFails(c) \/ Interrupted(c) \/ Drop(c)
    \/ \E w \in orphans : OrphanCommits(w) \/ OrphanLost(w)
    \/ \E p \in Pipelines : Crash(p)

Spec == Init /\ [][Next]_vars

-----------------------------------------------------------------------------
(* Properties.                                                              *)

\* The stored checkpoint as a ledger: every route but the recorded one is open.
Phase(cp) ==
    [r \in Routes |->
        IF r # cp.route \/ cp.status = Ready THEN "open"
        ELSE IF cp.status = InFlight THEN "claimed" ELSE "settled"]

Ledger == INSTANCE DispatchLedger WITH
    Units <- Routes,
    Needs <- [r \in Routes |-> {}],
    phase <- Phase(store.checkpoint),
    runs <- runs

\* Only the agent of the recorded route is called, at most once, and only when
\* the selection was durably InFlight ("exact, caller-selected routing to one
\* agent without fallback or broadcast", "Never automatically replayed").
DispatchedOnce == Ledger!Spec

\* The agent that is called is the one the checkpoint names, also when another
\* process, with other routes, resumes the selection ("No new route can be
\* substituted here").
BoundTarget ==
    \A t \in targets :
        t.route = store.checkpoint.route /\ t.agent = store.checkpoint.agent

\* A returned outcome is stored and stays, except that a failure may be
\* replaced by a verified reply.
AnnouncedIsDurable ==
    \A o \in announced :
        \/ store.checkpoint.status = o
        \/ o.kind = "failed" /\ store.checkpoint.status.kind = "verified"

-----------------------------------------------------------------------------
(* The inductive invariant behind these properties.                         *)

\* Whoever has an operation under way holds the lock of its pipeline: its
\* runs, streams, selections and reconciliations exclude each other.
LockHeld == \A c \in Callers : pc[c] # "idle" => guard[Owner[c]] = c

\* What a save may do to the status.
Moves(from, to) ==
    \/ from = Ready /\ to = InFlight
    \/ from = InFlight /\ to \in Outcome
    \/ from.kind = "failed" /\ to \in Outcome /\ to.kind = "verified"

\* The checkpoints that may replace the stored one.
Legal(cp) ==
    \/ store.revision = 0 /\ cp \in Checkpoint /\ cp.status = Ready
    \/ /\ store.revision # 0
       /\ Moves(store.checkpoint.status, cp.status)
       /\ cp = With(store.checkpoint, cp.status)

\* Nobody expects a revision from the future.
RevisionsKnown ==
    /\ \A c \in Callers : record[c].revision <= store.revision
    /\ \A w \in orphans : w.base <= store.revision

\* Every checkpoint whose compare-and-swap could still succeed is legal.
SavesLegal ==
    /\ \A c \in Callers :
          Saving(c) /\ record[c].revision = store.revision => Legal(Pending(c))
    /\ \A w \in orphans : w.base = store.revision => Legal(w.checkpoint)

\* What an operation in the given place knows about its record.
RecordHeld(c) ==
    /\ pc[c] \in {"idle", "load", "choose", "serve"} => record[c] = NoRecord
    /\ pc[c] = "create" => record[c].revision = 0 /\ Current(c) \in Checkpoint
    /\ pc[c] \in {"claim", "dispatch", "running", "record", "settle"} =>
          /\ record[c].revision # 0
          /\ Current(c) = With(store.checkpoint, Current(c).status)
    /\ pc[c] \in {"create", "claim", "dispatch", "running", "record"} =>
          Compatible(Owner[c], Current(c))
    /\ pc[c] \in {"dispatch", "running"} =>
          /\ Current(c).status = InFlight
          /\ record[c].revision = store.revision => Current(c) = store.checkpoint
    /\ pc[c] \in {"record", "settle"} => Current(c).status \in Outcome

\* However late it calls its agent, the route is taken and has not run, and
\* no other caller is about to call it.
DispatchHeld(c) ==
    pc[c] = "dispatch" =>
        /\ store.checkpoint.status # Ready
        /\ runs[Current(c).route] = 0
        /\ \A d \in Callers : pc[d] = "dispatch" => d = c

RunsBooked ==
    \A r \in Routes :
        /\ runs[r] <= 1
        /\ runs[r] # 0 => r = store.checkpoint.route /\ store.checkpoint.status # Ready

LedgerInv ==
    /\ TypeOK
    /\ IF store.revision = 0 THEN store = NoRecord ELSE store.checkpoint \in Checkpoint
    /\ LockHeld
    /\ RevisionsKnown
    /\ SavesLegal
    /\ \A c \in Callers : RecordHeld(c) /\ DispatchHeld(c)
    /\ RunsBooked
    /\ BoundTarget
=============================================================================
