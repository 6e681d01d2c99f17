------------------------ MODULE SequentialCheckpoint ------------------------
(***************************************************************************)
(* SequentialPipeline with a PipelineStore: run_checkpointed,              *)
(* resume_checkpointed, reconcile_checkpointed and the streaming forms, by *)
(* several callers of several pipelines (processes) on one StateKey.       *)
(*                                                                         *)
(* A caller claims a stage by committing InFlight, dispatches the agent,   *)
(* and commits the boundary with the reply.  The store is a compare-and-   *)
(* swap on a revision; a pipeline admits one operation at a time.          *)
(*                                                                         *)
(* Code: src/pipeline.rs, pipeline/{checkpoint,streaming_checkpoint}.rs,   *)
(* plugins/agentscope-state-sqlite/src/pipeline.rs.                        *)
(***************************************************************************)
EXTENDS Naturals, Sequences

CONSTANTS
    Pipelines,    \* pipeline values (with their clones) bound to the key
    Callers,      \* each runs one operation at a time
    Owner,        \* Owner[c]: the pipeline caller c uses
    NoCaller,     \* not a caller: the pipeline is not busy
    Stages,       \* number of stages
    MaxCalls,     \* bound: operations started in one behaviour
    Disruptions   \* what may go wrong, see AllDisruptions

AllDisruptions ==
    {"store",     \* a load or a save fails and has no effect
     "ack",       \* a save takes effect but reports a failure
     "late",      \* the save of a dropped future takes effect later, or never
     "drop",      \* the caller drops a future or a stream before its end
     "crash",     \* the process of a pipeline stops
     "stage"}     \* interrupted, the agent fails or pauses, invalid handoff

ASSUME SequenceAssumption ==
    /\ Owner \in [Callers -> Pipelines]
    /\ NoCaller \notin Callers
    /\ Stages \in Nat \ {0}
    /\ MaxCalls \in Nat
    /\ Disruptions \subseteq AllDisruptions

-----------------------------------------------------------------------------
(* Data.  A message is its id; 0 is the input of the run, and the handoff   *)
(* of a reply is named like the reply.                                      *)

\* The input of stage k after the given replies.
Input(completed, k) == IF k = 1 THEN 0 ELSE completed[k - 1]

\* The structure that PipelineCheckpoint and validate_checkpoint describe.
WellFormed(cp) ==
    LET n == Len(cp.completed)
    IN  /\ n <= Stages
        /\ cp.status = "finished" <=> n = Stages
        /\ cp.next_input = Input(cp.completed, IF n = Stages THEN n ELSE n + 1)

Checkpoint ==
    {cp \in [completed : Seq(Nat), next_input : Nat,
             status : {"ready", "in_flight", "finished"}] : WellFormed(cp)}
Record == [revision : Nat, checkpoint : Checkpoint]

NewCheckpoint == [completed |-> <<>>, next_input |-> 0, status |-> "ready"]
NoRecord == [revision |-> 0, checkpoint |-> NewCheckpoint]

Stage(cp) == Len(cp.completed) + 1
InFlight(cp) == [cp EXCEPT !.status = "in_flight"]

\* Mutation of Completed: the input is not handed on.
CompletedSameInput(cp, reply) ==
    [cp EXCEPT !.completed = Append(@, reply),
               !.status = IF Stage(cp) = Stages THEN "finished" ELSE "ready"]

\* The boundary after the active stage.
Completed(cp, reply) ==
    [completed |-> Append(cp.completed, reply),
     next_input |-> IF Stage(cp) = Stages THEN cp.next_input ELSE reply,
     status |-> IF Stage(cp) = Stages THEN "finished" ELSE "ready"]

-----------------------------------------------------------------------------
VARIABLES
    store,      \* the PipelineRecord of the key; revision 0: none yet
    orphans,    \* saves whose future was dropped but which may still happen
    guard,      \* per pipeline: who holds SequentialPipeline::operation
    pc,         \* per caller: the next await of its operation
    record,     \* per caller: the record it works on
    nextId,     \* ids below it have been handed out
    called,     \* operations started
    \* history variables
    runs,       \* per stage: how often its agent has been called
    inputs,     \* what the agents were called with
    announced   \* boundaries that were reported to a caller as committed

local == <<guard, pc, record>>
ghosts == <<runs, inputs, announced>>
vars == <<store, orphans, guard, pc, record, nextId, called, runs, inputs,
          announced>>

Steps == 1 .. Stages
PCs == {"idle", "create", "load", "inspect", "settle", "claim", "dispatch",
        "running", "record"}

TypeOK ==
    /\ store \in Record
    /\ orphans \subseteq [pipeline : Pipelines, base : Nat, checkpoint : Checkpoint]
    /\ guard \in [Pipelines -> Callers \cup {NoCaller}]
    /\ pc \in [Callers -> PCs]
    /\ record \in [Callers -> Record]
    /\ nextId \in Nat \ {0}
    /\ called \in Nat
    /\ runs \in [Steps -> Nat]
    /\ inputs \subseteq [stage : Steps, input : Nat]
    /\ announced \subseteq [stage : Steps, reply : Nat]

Init ==
    /\ store = NoRecord
    /\ orphans = {}
    /\ guard = [p \in Pipelines |-> NoCaller]
    /\ pc = [c \in Callers |-> "idle"]
    /\ record = [c \in Callers |-> NoRecord]
    /\ nextId = 1
    /\ called = 0
    /\ runs = [s \in Steps |-> 0]
    /\ inputs = {}
    /\ announced = {}

-----------------------------------------------------------------------------
(* Building blocks of the actions.                                          *)

Current(c) == record[c].checkpoint
Goto(c, where) == pc' = [pc EXCEPT ![c] = where]

\* The operation returns and its guard is released.
Release(c) ==
    /\ Goto(c, "idle")
    /\ guard' = [p \in Pipelines |-> IF guard[p] = c THEN NoCaller ELSE guard[p]]
    /\ record' = [record EXCEPT ![c] = NoRecord]

\* Mutation of Commits: the expected revision is not compared.
BlindCommits(e, cp) == store' = [revision |-> store.revision + 1, checkpoint |-> cp]

\* PipelineStore::save with the expected revision e (0: None).
Commits(e, cp) ==
    /\ store.revision = e
    /\ store' = [revision |-> e + 1, checkpoint |-> cp]

\* The checkpoint that caller c is about to save.
Pending(c) ==
    CASE pc[c] = "create" -> NewCheckpoint
      [] pc[c] = "claim" -> InFlight(Current(c))
      [] OTHER -> Current(c)
Saving(c) == pc[c] \in {"create", "claim", "record", "settle"}
SaveSucceeds(c) == Commits(record[c].revision, Pending(c))

Announce(cp) ==
    announced' = announced \cup
        {[stage |-> Len(cp.completed), reply |-> cp.completed[Len(cp.completed)]]}

-----------------------------------------------------------------------------
(* Beginning an operation.                                                  *)

\* operation.try_lock: run goes on to create, resume to load, reconcile to
\* inspect with some revision its caller has read before.
Begin(c) ==
    /\ pc[c] = "idle"
    /\ called < MaxCalls
    /\ called' = called + 1
    /\ guard[Owner[c]] = NoCaller
    /\ guard' = [guard EXCEPT ![Owner[c]] = c]
    /\ \/ Goto(c, "create") /\ UNCHANGED record
       \/ Goto(c, "load") /\ UNCHANGED record
       \/ /\ Goto(c, "inspect")
          /\ \E e \in 1 .. store.revision :
                record' = [record EXCEPT ![c].revision = e]
    /\ UNCHANGED <<store, orphans, nextId, ghosts>>

Busy(c) ==
    /\ pc[c] = "idle"
    /\ called < MaxCalls
    /\ called' = called + 1
    /\ guard[Owner[c]] # NoCaller
    /\ UNCHANGED <<store, orphans, local, nextId, ghosts>>

\* run_checkpointed: the key must be free.
Create(c) ==
    /\ pc[c] = "create"
    /\ SaveSucceeds(c)
    /\ record' = [record EXCEPT ![c] = store']
    /\ Goto(c, "claim")
    /\ UNCHANGED <<orphans, guard, nextId, called, ghosts>>

\* Mutation of Resume: an uncertain stage is started again.
ResumeAny(c) ==
    /\ pc[c] = "load"
    /\ store.revision # 0
    /\ store.checkpoint.status # "finished"
    /\ record' = [record EXCEPT ![c] = store]
    /\ Goto(c, "claim")
    /\ UNCHANGED <<store, orphans, guard, nextId, called, ghosts>>

\* resume_checkpointed
Resume(c) ==
    /\ pc[c] = "load"
    /\ store.revision # 0
    /\ store.checkpoint.status = "ready"
    /\ record' = [record EXCEPT ![c] = store]
    /\ Goto(c, "claim")
    /\ UNCHANGED <<store, orphans, guard, nextId, called, ghosts>>

\* reconcile_checkpointed with a verified reply, up to its save.
Inspect(c) ==
    /\ pc[c] = "inspect"
    /\ store.revision = record[c].revision
    /\ store.checkpoint.status = "in_flight"
    /\ record' = [record EXCEPT ![c].checkpoint = Completed(store.checkpoint, nextId)]
    /\ nextId' = nextId + 1
    /\ Goto(c, "settle")
    /\ UNCHANGED <<store, orphans, guard, called, ghosts>>

\* The load fails, there is no such checkpoint, it may not be resumed, or the
\* verified reply is not one of the active agent or cannot be handed on.
Refuse(c) ==
    /\ \/ /\ pc[c] = "load"
          /\ \/ "store" \in Disruptions
             \/ store.revision = 0
             \/ store.checkpoint.status # "ready"
       \/ pc[c] = "inspect"
    /\ Release(c)
    /\ UNCHANGED <<store, orphans, nextId, called, ghosts>>

Settle(c) ==
    /\ pc[c] = "settle"
    /\ SaveSucceeds(c)
    /\ Announce(Current(c))
    /\ Release(c)
    /\ UNCHANGED <<orphans, nextId, called, runs, inputs>>

-----------------------------------------------------------------------------
(* execute_checkpointed, checkpoint_event_stream: the loop over the stages.  *)

\* InFlight is committed before the agent is called.
Claim(c) ==
    /\ pc[c] = "claim"
    /\ SaveSucceeds(c)
    /\ record' = [record EXCEPT ![c] = store']
    /\ Goto(c, "dispatch")
    /\ UNCHANGED <<orphans, guard, nextId, called, ghosts>>

Dispatch(c) ==
    /\ pc[c] = "dispatch"
    /\ runs' = [runs EXCEPT ![Stage(Current(c))] = @ + 1]
    /\ inputs' = inputs \cup
          {[stage |-> Stage(Current(c)), input |-> Current(c).next_input]}
    /\ Goto(c, "running")
    /\ UNCHANGED <<store, orphans, guard, record, nextId, called, announced>>

\* Interrupted, or the stage ends without a reply that can be handed on.
StageFails(c) ==
    /\ "stage" \in Disruptions
    /\ pc[c] \in {"claim", "dispatch", "running"}
    /\ Release(c)
    /\ UNCHANGED <<store, orphans, nextId, called, ghosts>>

StageReplies(c) ==
    /\ pc[c] = "running"
    /\ record' = [record EXCEPT ![c].checkpoint = Completed(@, nextId)]
    /\ nextId' = nextId + 1
    /\ Goto(c, "record")
    /\ UNCHANGED <<store, orphans, guard, called, ghosts>>

\* The boundary is committed: StageCompleted, and after the last stage Finished.
Commit(c) ==
    /\ pc[c] = "record"
    /\ SaveSucceeds(c)
    /\ Announce(Current(c))
    /\ IF Current(c).status = "finished"
       THEN Release(c)
       ELSE /\ record' = [record EXCEPT ![c] = store']
            /\ Goto(c, "claim")
            /\ UNCHANGED guard
    /\ UNCHANGED <<orphans, nextId, called, runs, inputs>>

SaveFails(c) ==
    /\ Saving(c)
    /\ \/ /\ store.revision # record[c].revision \/ "store" \in Disruptions
          /\ UNCHANGED store
       \/ "ack" \in Disruptions /\ SaveSucceeds(c)
    /\ Release(c)
    /\ UNCHANGED <<orphans, nextId, called, ghosts>>

-----------------------------------------------------------------------------
(* The environment.                                                         *)

\* The future or stream is dropped; a save on its way may still take effect.
Drop(c) ==
    /\ "drop" \in Disruptions
    /\ pc[c] # "idle"
    /\ \/ UNCHANGED orphans
       \/ /\ "late" \in Disruptions
          /\ Saving(c)
          /\ orphans' = orphans \cup
                {[pipeline |-> Owner[c], base |-> record[c].revision,
                  checkpoint |-> Pending(c)]}
    /\ Release(c)
    /\ UNCHANGED <<store, nextId, called, ghosts>>

OrphanCommits(w) ==
    /\ w \in orphans
    /\ orphans' = orphans \ {w}
    /\ Commits(w.base, w.checkpoint)
    /\ UNCHANGED <<local, nextId, called, ghosts>>

OrphanLost(w) ==
    /\ w \in orphans
    /\ orphans' = orphans \ {w}
    /\ UNCHANGED <<store, local, nextId, called, ghosts>>

Crash(p) ==
    /\ "crash" \in Disruptions
    /\ pc' = [c \in Callers |-> IF Owner[c] = p THEN "idle" ELSE pc[c]]
    /\ record' = [c \in Callers |-> IF Owner[c] = p THEN NoRecord ELSE record[c]]
    /\ guard' = [guard EXCEPT ![p] = NoCaller]
    /\ orphans' = {w \in orphans : w.pipeline # p}
    /\ UNCHANGED <<store, nextId, called, ghosts>>

-----------------------------------------------------------------------------
Next ==
    \/ \E c \in Callers :
          \/ Begin(c) \/ Busy(c) \/ Create(c) \/ Resume(c) \/ Inspect(c)
          \/ Refuse(c) \/ Settle(c)
          \/ Claim(c) \/ Dispatch(c) \/ StageFails(c) \/ StageReplies(c)
          \/ Commit(c) \/ SaveFails(c) \/ Drop(c)
    \/ \E w \in orphans : OrphanCommits(w) \/ OrphanLost(w)
    \/ \E p \in Pipelines : Crash(p)

Spec == Init /\ [][Next]_vars

-----------------------------------------------------------------------------
(* Properties.                                                              *)

\* The stored checkpoint as a ledger: the replied stages are settled, the
\* stage after them is claimed while the status is InFlight.
Phase(cp) ==
    [s \in Steps |->
        CASE s <= Len(cp.completed) -> "settled"
          [] s = Stage(cp) /\ cp.status = "in_flight" -> "claimed"
          [] OTHER -> "open"]

Ledger == INSTANCE DispatchLedger WITH
    Units <- Steps,
    Needs <- [s \in Steps |-> 1 .. (s - 1)],
    phase <- Phase(store.checkpoint),
    runs <- runs

\* Every agent is called at most once per run, only for a stage that is
\* durably claimed, and only after all earlier stages have been committed
\* ("A store conflict, crash, cancellation, or agent failure never authorizes
\* automatic replay").
DispatchedOnce == Ledger!Spec

\* Every agent was given exactly the reply that the checkpoint records for its
\* predecessor, even if another operation or a reconciliation recorded it.
ChainIntact ==
    \A d \in inputs :
        /\ d.stage <= Stage(store.checkpoint)
        /\ d.input = Input(store.checkpoint.completed, d.stage)

\* A boundary that a caller was told about (StageCompleted, a PipelineOutput or
\* a reconciled record) is never replaced by another outcome.
AnnouncedIsDurable ==
    \A b \in announced :
        /\ b.stage <= Len(store.checkpoint.completed)
        /\ store.checkpoint.completed[b.stage] = b.reply

-----------------------------------------------------------------------------
(* The inductive invariant behind these properties.                         *)

\* Stage s is claimed or settled.
Taken(cp, s) ==
    \/ s <= Len(cp.completed)
    \/ s = Stage(cp) /\ cp.status = "in_flight"

\* The checkpoints that may replace the stored one.
Legal(cp) ==
    \/ store.revision = 0 /\ cp = NewCheckpoint
    \/ store.checkpoint.status = "ready" /\ cp = InFlight(store.checkpoint)
    \/ /\ store.checkpoint.status = "in_flight"
       /\ cp.completed # <<>>
       /\ cp = Completed(store.checkpoint, cp.completed[Len(cp.completed)])

\* Nobody expects a revision from the future.
RevisionsKnown ==
    /\ \A c \in Callers : record[c].revision <= store.revision
    /\ \A w \in orphans : w.base <= store.revision

\* Every checkpoint whose compare-and-swap could still succeed is legal.
SavesLegal ==
    /\ \A c \in Callers :
          Saving(c) /\ record[c].revision = store.revision => Legal(Pending(c))
    /\ \A w \in orphans : w.base = store.revision => Legal(w.checkpoint)

\* What an operation in the given place knows about its record.
RecordHeld(c) ==
    /\ pc[c] \in {"idle", "create"} => record[c] = NoRecord
    /\ pc[c] = "claim" => Current(c).status = "ready"
    /\ pc[c] \in {"dispatch", "running"} =>
          /\ Current(c).status = "in_flight"
          /\ record[c].revision = store.revision => Current(c) = store.checkpoint
    /\ pc[c] \in {"settle", "record"} =>
          Current(c).status # "in_flight" /\ Current(c).completed # <<>>

\* A caller between claim and dispatch, however late: its stage is taken and
\* has not run, and its input is the recorded one.
StageHeld(c) ==
    pc[c] = "dispatch" =>
        /\ Taken(store.checkpoint, Stage(Current(c)))
        /\ runs[Stage(Current(c))] = 0
        /\ Current(c).next_input =
              Input(store.checkpoint.completed, Stage(Current(c)))

\* No two callers hold the same stage.
StagesApart ==
    \A c, d \in Callers :
        pc[c] = "dispatch" /\ pc[d] = "dispatch" /\ c # d
        => Stage(Current(c)) # Stage(Current(d))

RunsBooked ==
    \A s \in Steps :
        runs[s] <= 1 /\ (runs[s] # 0 => Taken(store.checkpoint, s))

\* What is stored, held and under way fits together and fits what has been run.
Booked ==
    /\ store.revision = 0 => store = NoRecord
    /\ RevisionsKnown
    /\ SavesLegal
    /\ \A c \in Callers : RecordHeld(c) /\ StageHeld(c)
    /\ StagesApart
    /\ RunsBooked

\* Both hold in every state: every checkpoint is well formed, up to the boundary
\* after the last stage, and every save that could still succeed is a legal one
\* (validate_checkpoint; PipelineStore::save).
LedgerInv == TypeOK /\ Booked
=============================================================================
