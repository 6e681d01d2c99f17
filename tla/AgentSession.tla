---------------------------- MODULE AgentSession ----------------------------
(***************************************************************************)
(* ReActAgent bound to a StateStore: the life of one durable session.      *)
(*                                                                         *)
(* Several agent instances are bound to the same StateKey.  The clones of  *)
(* one instance share its memory, its pending checkpoints and the lock     *)
(* StateBinding::operation; instances share nothing but the store, whose   *)
(* save is a compare-and-swap on a revision.  An operation is one call of  *)
(* reply, observe, snapshot, resume_tool_calls, retry_tool_execution or    *)
(* resolve_tool_execution, or the stream_* form of one of them: it locks,  *)
(* loads and installs the stored state, runs, and saves.                   *)
(*                                                                         *)
(* Code: src/agent/react.rs, react/streaming.rs, react/recovery_stream.rs, *)
(* agent/{state,store,confirmation,interrupt}.rs, state-sqlite.            *)
(***************************************************************************)
EXTENDS Integers, Sequences, FiniteSets

CONSTANTS
    Agents,       \* agent instances bound to the session
    Ops,          \* callers: each runs one operation at a time
    Owner,        \* Owner[o]: the instance (or a clone of it) caller o uses
    NoOp,         \* not a caller: the lock is free
    Calls,        \* the tool calls of one model response
    MaxSteps,     \* ReActAgent::max_steps
    MaxOps,       \* bound: operations started in one behaviour
    Kinds,        \* the operations the callers use
    Modes,        \* "call" and/or "stream"
    Disruptions   \* what may go wrong, see AllDisruptions

AllKinds == {"reply", "observe", "snapshot", "resume", "retry", "resolve"}
RecoveryKinds == {"resume", "retry", "resolve"}

AllDisruptions ==
    {"store",      \* a load or a save fails and has no effect
     "ack",        \* a save takes effect but reports a failure
     "late",       \* the save of a dropped future takes effect later, or never
     "drop",       \* the caller drops a future or a stream before its end
     "crash",      \* the process of an instance stops and starts again
     "interrupt",  \* AgentInterruptHandle::interrupt
     "hook",       \* a lifecycle hook fails
     "memory",     \* Memory::append fails
     "model",      \* the model call fails
     "doubt"}      \* a tool reports that its own outcome is uncertain

ASSUME SessionAssumption ==
    /\ Owner \in [Ops -> Agents]
    /\ NoOp \notin Ops
    /\ MaxSteps \in Nat \ {0}
    /\ MaxOps \in Nat
    /\ Kinds \subseteq AllKinds
    /\ Modes \subseteq {"call", "stream"}
    /\ Disruptions \subseteq AllDisruptions

-----------------------------------------------------------------------------
(* Data.  An id stands for a UUID; 0 is no id.  A message keeps what the    *)
(* checkpoints depend on: the state of its tool calls and whom it answers.  *)

MsgKinds ==
    {"user", "note",   \* the input of reply, the message given to observe
     "answer",         \* a model response without tool calls
     "pending",        \* tool calls that needed no confirmation
     "asking",         \* tool calls waiting for confirmation
     "finished",       \* confirmed tool calls whose results are known
     "results"}        \* a tool observation; id names the calls it answers
Msg == [kind : MsgKinds, id : Nat]

PendingToolCalls == [reply : Nat, step : Nat]
NoCalls == [reply |-> 0, step |-> 0]

PendingToolExecution ==
    [id : Nat, reply : Nat, step : Nat, approved : SUBSET Calls]
NoExecution == [id |-> 0, reply |-> 0, step |-> 0, approved |-> {}]

AgentState ==
    [hist : Seq(Msg), calls : PendingToolCalls, exec : PendingToolExecution]
EmptyState == [hist |-> <<>>, calls |-> NoCalls, exec |-> NoExecution]

MsgsOf(h) == {h[i] : i \in DOMAIN h}
Remember(s, kind, id) ==
    [s EXCEPT !.hist = Append(@, [kind |-> kind, id |-> id])]

\* Mutations of FinishCheckpointCalls: the calls stay Asking, or are dropped.
KeepAsking(h, r) == h
DropAsking(h, r) == SelectSeq(h, LAMBDA m : m # [kind |-> "asking", id |-> r])

\* finish_checkpoint_calls
FinishCheckpointCalls(h, r) ==
    [i \in DOMAIN h |-> IF h[i] = [kind |-> "asking", id |-> r]
                        THEN [kind |-> "finished", id |-> r] ELSE h[i]]

\* validate_checkpoint_message: the checkpoint holds its calls as Asking and
\* the stored message must hold the very same calls.
CheckpointMessage(h, r) == [kind |-> "asking", id |-> r] \in MsgsOf(h)

\* validate_state
ValidState(s) ==
    /\ s.calls.reply # 0 =>
          /\ s.calls.step < MaxSteps
          /\ CheckpointMessage(s.hist, s.calls.reply)
    /\ ~(s.calls.reply # 0 /\ s.exec.reply # 0)
    /\ s.exec.reply # 0 =>
          /\ s.exec.step < MaxSteps
          /\ s.exec.approved # {}
          /\ CheckpointMessage(s.hist, s.exec.reply)

\* The execution checkpoint replaces the confirmation checkpoint.
Fenced(s, e) == [s EXCEPT !.calls = NoCalls, !.exec = e]
Cleared(s) == [s EXCEPT !.calls = NoCalls, !.exec = NoExecution]

-----------------------------------------------------------------------------
VARIABLES
    store,      \* the StateRecord of the session; rev 0: no record yet
    orphans,    \* saves whose future was dropped but which may still happen
    view,       \* per instance: memory, pending_tool_calls, pending_tool_execution
    lock,       \* per instance: who holds StateBinding::operation
    pc,         \* per caller: the next await of its operation
    job,        \* per caller: the operation and its mode
    base,       \* per caller: StateOperation::expected_revision
    step,       \* per caller: model calls made so far in the reply
    plan,       \* per caller: the calls it executes or recovers
    todo,       \* per caller: approved calls not invoked yet
    cancelled,  \* per caller: its interrupt token has been signalled
    nextId,     \* ids below it have been handed out
    begun,      \* operations started
    \* history variables
    fenced,     \* execution checkpoints that were durable at some time
    invoked,    \* tool invocations made for confirmed calls
    acked,      \* messages an operation has reported as saved
    asked       \* per caller: interrupted since its operation began

data == <<store, orphans, view>>
control == <<lock, pc, job, base, step, plan, todo, cancelled>>
ghosts == <<fenced, invoked, acked, asked>>
vars == <<store, orphans, view, lock, pc, job, base, step, plan, todo,
          cancelled, nextId, begun, fenced, invoked, acked, asked>>

PCs == {"idle", "waiting", "start", "setup", "persist", "invoke", "record",
        "commit", "hooks", "model", "tools", "finish"}

TypeOK ==
    /\ store \in [rev : Nat, state : AgentState]
    /\ orphans \subseteq [agent : Agents, base : Nat, state : AgentState]
    /\ view \in [Agents -> AgentState]
    /\ lock \in [Agents -> Ops \cup {NoOp}]
    /\ pc \in [Ops -> PCs]
    /\ job \in [Ops -> [kind : AllKinds, mode : {"call", "stream"}]]
    /\ base \in [Ops -> Nat]
    /\ step \in [Ops -> Nat]
    /\ plan \in [Ops -> PendingToolExecution]
    /\ todo \in [Ops -> SUBSET Calls]
    /\ cancelled \in [Ops -> BOOLEAN]
    /\ nextId \in Nat \ {0}
    /\ begun \in Nat
    /\ fenced \subseteq PendingToolExecution
    /\ invoked \subseteq [exec : PendingToolExecution, call : Calls, claim : Nat]
    /\ acked \subseteq Msg
    /\ asked \in [Ops -> BOOLEAN]

\* No operation is running, and nothing has been invoked.
Quiet ==
    /\ orphans = {}
    /\ lock = [a \in Agents |-> NoOp]
    /\ pc = [o \in Ops |-> "idle"]
    /\ job = [o \in Ops |-> [kind |-> "reply", mode |-> "call"]]
    /\ base = [o \in Ops |-> 0]
    /\ step = [o \in Ops |-> 0]
    /\ plan = [o \in Ops |-> NoExecution]
    /\ todo = [o \in Ops |-> {}]
    /\ cancelled = [o \in Ops |-> FALSE]
    /\ begun = 0
    /\ fenced = {}
    /\ invoked = {}
    /\ asked = [o \in Ops |-> FALSE]

Init ==
    /\ Quiet
    /\ store = [rev |-> 0, state |-> EmptyState]
    /\ view = [a \in Agents |-> EmptyState]
    /\ nextId = 1
    /\ acked = {}

-----------------------------------------------------------------------------
(* Building blocks of the actions.                                          *)

State(o) == view[Owner[o]]
SetState(o, s) == view' = [view EXCEPT ![Owner[o]] = s]
Goto(o, where) == pc' = [pc EXCEPT ![o] = where]
At(o, where, kinds) == pc[o] = where /\ job[o].kind \in kinds
HookFails == "hook" \in Disruptions
Fresh == nextId' = nextId + 1

\* Mutation of Return: the guard of the operation lock leaks.
ReturnLocked(o) ==
    /\ Goto(o, "idle")
    /\ base' = [base EXCEPT ![o] = 0]
    /\ step' = [step EXCEPT ![o] = 0]
    /\ plan' = [plan EXCEPT ![o] = NoExecution]
    /\ todo' = [todo EXCEPT ![o] = {}]
    /\ cancelled' = [cancelled EXCEPT ![o] = FALSE]
    /\ asked' = [asked EXCEPT ![o] = FALSE]
    /\ UNCHANGED <<lock, job>>

\* The operation returns: its slot, its registers and the lock are free again.
Return(o) ==
    /\ Goto(o, "idle")
    /\ lock' = [a \in Agents |-> IF lock[a] = o THEN NoOp ELSE lock[a]]
    /\ base' = [base EXCEPT ![o] = 0]
    /\ step' = [step EXCEPT ![o] = 0]
    /\ plan' = [plan EXCEPT ![o] = NoExecution]
    /\ todo' = [todo EXCEPT ![o] = {}]
    /\ cancelled' = [cancelled EXCEPT ![o] = FALSE]
    /\ asked' = [asked EXCEPT ![o] = FALSE]
    /\ UNCHANGED job

\* Mutations of Commits: a save that ignores the expected revision, and one
\* that forgets to advance it.
BlindCommits(e, s) ==
    /\ store' = [rev |-> e + 1, state |-> s]
    /\ fenced' = fenced \cup (IF s.exec.reply = 0 THEN {} ELSE {s.exec})
StuckCommits(e, s) ==
    /\ store.rev = e
    /\ store' = [rev |-> e, state |-> s]
    /\ fenced' = fenced \cup (IF s.exec.reply = 0 THEN {} ELSE {s.exec})

\* StateStore::save with the expected revision e.
Commits(e, s) ==
    /\ store.rev = e
    /\ store' = [rev |-> e + 1, state |-> s]
    /\ fenced' = fenced \cup (IF s.exec.reply = 0 THEN {} ELSE {s.exec})
SaveSucceeds(o) == Commits(base[o], State(o))
SaveFails(o) ==
    \/ /\ store.rev # base[o] \/ "store" \in Disruptions
       /\ UNCHANGED <<store, fenced>>
    \/ "ack" \in Disruptions /\ SaveSucceeds(o)

\* Only caller o's program counter moves.
Moves(o, where) ==
    /\ Goto(o, where)
    /\ UNCHANGED <<lock, job, base, step, plan, todo, cancelled, asked>>

-----------------------------------------------------------------------------
(* Starting an operation.                                                   *)

Call(o) ==
    /\ pc[o] = "idle"
    /\ begun < MaxOps
    /\ begun' = begun + 1
    /\ \E k \in Kinds, m \in Modes :
          /\ k \in {"observe", "snapshot"} => m = "call"
          /\ job' = [job EXCEPT ![o] = [kind |-> k, mode |-> m]]
    /\ Goto(o, "waiting")
    /\ UNCHANGED <<data, lock, base, step, plan, todo, cancelled, nextId, ghosts>>

\* Mutation of Begin: the loaded record is not installed.
BeginStale(o) ==
    /\ pc[o] = "waiting"
    /\ lock[Owner[o]] = NoOp
    /\ lock' = [lock EXCEPT ![Owner[o]] = o]
    /\ base' = [base EXCEPT ![o] = store.rev]
    /\ Goto(o, "start")
    /\ UNCHANGED <<data, job, step, plan, todo, cancelled, nextId, begun, ghosts>>

\* begin_store_operation: lock, load, validate_state, install.  Without a
\* record the instance keeps what its memory and its checkpoints hold.
Begin(o) ==
    /\ pc[o] = "waiting"
    /\ lock[Owner[o]] = NoOp
    /\ store.rev > 0 => ValidState(store.state)
    /\ lock' = [lock EXCEPT ![Owner[o]] = o]
    /\ base' = [base EXCEPT ![o] = store.rev]
    /\ SetState(o, IF store.rev > 0 THEN store.state ELSE State(o))
    /\ Goto(o, "start")
    /\ UNCHANGED <<store, orphans, job, step, plan, todo, cancelled, nextId,
                   begun, ghosts>>

\* The load fails, or the stored state is rejected: nothing is installed.
BeginFails(o) ==
    /\ pc[o] = "waiting"
    /\ lock[Owner[o]] = NoOp
    /\ \/ {"store", "memory"} \cap Disruptions # {}
       \/ store.rev > 0 /\ ~ValidState(store.state)
    /\ Return(o)
    /\ UNCHANGED <<data, nextId, begun, fenced, invoked, acked>>

-----------------------------------------------------------------------------
(* snapshot, observe and the beginning of reply.                            *)

Snapshot(o) ==
    /\ At(o, "start", {"snapshot"})
    /\ Return(o)
    /\ UNCHANGED <<data, nextId, begun, fenced, invoked, acked>>

\* observe_without_state_store; a failing AfterObserve hook changes nothing
\* more, the message stays.
Observe(o) ==
    /\ At(o, "start", {"observe"})
    /\ SetState(o, Remember(State(o), "note", nextId))
    /\ Fresh
    /\ Moves(o, "finish")
    /\ UNCHANGED <<store, orphans, begun, fenced, invoked, acked>>

\* reply_without_state_store, stream_without_state_store
AcceptReply(o) ==
    /\ At(o, "start", {"reply"})
    /\ State(o).exec.reply = 0
    /\ State(o).calls.reply = 0
    /\ ~cancelled[o]
    /\ SetState(o, Remember(State(o), "user", nextId))
    /\ Fresh
    /\ Moves(o, "model")
    /\ UNCHANGED <<store, orphans, begun, fenced, invoked, acked>>

\* ToolExecutionInDoubt, ToolConfirmationRequired, Interrupted, or a failing
\* BeforeReply, BeforeObserve hook or append: the operation still saves.
Refuse(o) ==
    /\ \/ /\ At(o, "start", {"reply"})
          /\ \/ State(o).exec.reply # 0
             \/ State(o).calls.reply # 0
             \/ cancelled[o]
             \/ HookFails
             \/ "memory" \in Disruptions
       \/ /\ At(o, "start", {"observe"})
          /\ HookFails \/ "memory" \in Disruptions
    /\ Moves(o, "finish")
    /\ UNCHANGED <<data, nextId, begun, fenced, invoked, acked>>

-----------------------------------------------------------------------------
(* continue_reply, agent_event_stream: the reason-act loop.                 *)

\* Interrupted before, during or after the model call, a failing hook, budget
\* or model, or an append that fails.
ModelFails(o) ==
    /\ pc[o] = "model"
    /\ cancelled[o] \/ {"hook", "model", "memory"} \cap Disruptions # {}
    /\ Moves(o, "finish")
    /\ UNCHANGED <<data, nextId, begun, fenced, invoked, acked>>

\* A response enters memory as a message of the given kind.
Responds(o, kind) ==
    /\ pc[o] = "model"
    /\ ~cancelled[o]
    /\ Fresh

\* A final answer; a failing AfterReply hook does not take it back.
ModelAnswers(o) ==
    /\ Responds(o, "answer")
    /\ SetState(o, Remember(State(o), "answer", nextId))
    /\ Moves(o, "finish")
    /\ UNCHANGED <<store, orphans, begun, fenced, invoked, acked>>

\* MaxStepsExceeded: the calls are kept without results.
ModelExhausted(o) ==
    /\ Responds(o, "pending")
    /\ step[o] + 1 = MaxSteps
    /\ SetState(o, Remember(State(o), "pending", nextId))
    /\ Moves(o, "finish")
    /\ UNCHANGED <<store, orphans, begun, fenced, invoked, acked>>

\* pause_for_confirmation
PauseForConfirmation(o) ==
    /\ Responds(o, "asking")
    /\ step[o] + 1 < MaxSteps
    /\ SetState(o, [Remember(State(o), "asking", nextId) EXCEPT
                       !.calls = [reply |-> nextId, step |-> step[o] + 1]])
    /\ Moves(o, "finish")
    /\ UNCHANGED <<store, orphans, begun, fenced, invoked, acked>>

\* Calls that need no confirmation.
CallTools(o) ==
    /\ Responds(o, "pending")
    /\ step[o] + 1 < MaxSteps
    /\ SetState(o, Remember(State(o), "pending", nextId))
    /\ plan' = [plan EXCEPT ![o] = [NoExecution EXCEPT !.reply = nextId]]
    /\ Goto(o, "tools")
    /\ UNCHANGED <<store, orphans, lock, job, base, step, todo, cancelled,
                   begun, ghosts>>

\* record_tool_results
RecordObservation(o) ==
    SetState(o, Remember(State(o), "results", plan[o].reply))

ToolsReturn(o) ==
    /\ pc[o] = "tools"
    /\ ~cancelled[o]
    /\ RecordObservation(o)
    /\ Goto(o, "model")
    /\ step' = [step EXCEPT ![o] = @ + 1]
    /\ UNCHANGED <<store, orphans, lock, job, base, plan, todo, cancelled,
                   nextId, begun, ghosts>>

\* interrupted_tool_results, or an AfterToolCall hook that fails: in both
\* cases the results are in memory and the reply ends.
ToolsInterrupted(o) ==
    /\ pc[o] = "tools"
    /\ cancelled[o] \/ HookFails
    /\ RecordObservation(o)
    /\ Moves(o, "finish")
    /\ UNCHANGED <<store, orphans, nextId, begun, fenced, invoked, acked>>

ToolsUnrecorded(o) ==
    /\ pc[o] = "tools"
    /\ "memory" \in Disruptions
    /\ Moves(o, "finish")
    /\ UNCHANGED <<data, nextId, begun, fenced, invoked, acked>>

-----------------------------------------------------------------------------
(* Confirmation, retry and reconciliation.                                  *)

\* The reply id, the decisions or the supplied results do not fit what is
\* pending, or a BeforeToolCall hook fails.  A recovery stream is refused
\* before it exists, and its operation is dropped without a save.
RefuseRecovery(o) ==
    /\ At(o, "start", RecoveryKinds)
    /\ IF job[o].mode = "call" THEN Moves(o, "finish") ELSE Return(o)
    /\ UNCHANGED <<data, nextId, begun, fenced, invoked, acked>>

CanResume(s) == /\ s.exec.reply = 0
                /\ s.calls.reply # 0
                /\ CheckpointMessage(s.hist, s.calls.reply)
CanRecover(s) == /\ s.exec.reply # 0
                 /\ CheckpointMessage(s.hist, s.exec.reply)

\* The decisions are complete.  PendingToolExecution::new takes a fresh
\* execution id; without an approved call there is no execution checkpoint.
\* resume_tool_calls captures its interrupt token only here, after the hooks.
NewPlan(o, approved) ==
    /\ plan' = [plan EXCEPT ![o] =
                   [id |-> IF approved = {} THEN 0 ELSE nextId,
                    reply |-> State(o).calls.reply,
                    step |-> State(o).calls.step,
                    approved |-> approved]]
    /\ nextId' = IF approved = {} THEN nextId ELSE nextId + 1
    /\ cancelled' = [cancelled EXCEPT ![o] = FALSE]

ResumeCall(o) ==
    /\ At(o, "start", {"resume"})
    /\ job[o].mode = "call"
    /\ CanResume(State(o))
    /\ \E approved \in SUBSET Calls :
          /\ NewPlan(o, approved)
          /\ IF approved = {}
             THEN Goto(o, "record") /\ UNCHANGED view
             ELSE Goto(o, "persist") /\ SetState(o, Fenced(State(o), plan'[o]))
    /\ UNCHANGED <<store, orphans, lock, job, base, step, todo, begun, ghosts>>

\* recovery_plan for Recovery::Confirm
ResumeStream(o) ==
    /\ At(o, "start", {"resume"})
    /\ job[o].mode = "stream"
    /\ CanResume(State(o))
    /\ \E approved \in SUBSET Calls : NewPlan(o, approved)
    /\ Goto(o, "setup")
    /\ UNCHANGED <<data, lock, job, base, step, todo, begun, ghosts>>

\* Mutation of PlanRecovery: a retry takes a new execution id.
PlanRenamed(o) ==
    /\ At(o, "start", {"retry", "resolve"})
    /\ CanRecover(State(o))
    /\ plan' = [plan EXCEPT ![o] = [State(o).exec EXCEPT !.id = nextId]]
    /\ cancelled' = [cancelled EXCEPT ![o] = FALSE]
    /\ Goto(o, "setup")
    /\ Fresh
    /\ UNCHANGED <<data, lock, job, base, step, todo, begun, ghosts>>

\* retry_pending_execution before its hooks, resolve_tool_execution_..., and
\* recovery_plan for Recovery::Retry and Recovery::Resolve.
PlanRecovery(o) ==
    /\ At(o, "start", {"retry", "resolve"})
    /\ CanRecover(State(o))
    /\ plan' = [plan EXCEPT ![o] = State(o).exec]
    /\ cancelled' = [cancelled EXCEPT ![o] = FALSE]
    /\ Goto(o, IF job[o] = [kind |-> "resolve", mode |-> "call"]
               THEN "record" ELSE "setup")
    /\ UNCHANGED <<data, lock, job, base, step, todo, nextId, begun, ghosts>>

\* recovery_events, setup; the hooks of retry_pending_execution.
Setup(o) ==
    /\ pc[o] = "setup"
    /\ ~cancelled[o]
    /\ IF job[o].kind = "resolve" \/ plan[o].approved = {}
       THEN Moves(o, "record") /\ UNCHANGED view
       ELSE Moves(o, "persist") /\ SetState(o, Fenced(State(o), plan[o]))
    /\ UNCHANGED <<store, orphans, nextId, begun, fenced, invoked, acked>>

SetupFails(o) ==
    /\ pc[o] = "setup"
    /\ cancelled[o] \/ HookFails
    /\ Moves(o, "finish")
    /\ UNCHANGED <<data, nextId, begun, fenced, invoked, acked>>

\* Mutation of Persist: the checkpoint is left to the final save.
PersistLater(o) ==
    /\ pc[o] = "persist"
    /\ todo' = [todo EXCEPT ![o] = plan[o].approved]
    /\ Goto(o, "invoke")
    /\ UNCHANGED <<data, lock, job, base, step, plan, cancelled, nextId, begun,
                   ghosts>>

\* persist_state_operation before any approved tool runs.
Persist(o) ==
    /\ pc[o] = "persist"
    /\ SaveSucceeds(o)
    /\ base' = [base EXCEPT ![o] = @ + 1]
    /\ todo' = [todo EXCEPT ![o] = plan[o].approved]
    /\ Goto(o, "invoke")
    /\ UNCHANGED <<orphans, view, lock, job, step, plan, cancelled, nextId,
                   begun, invoked, acked, asked>>

PersistFails(o) ==
    /\ pc[o] \in {"persist", "commit"}
    /\ SaveFails(o)
    /\ Moves(o, "finish")
    /\ UNCHANGED <<orphans, view, nextId, begun, invoked, acked>>

\* execute_confirmed_tools: one approved call starts, with the idempotency key
\* "<execution id>:<call id>".  The interrupt is checked before the first.
Invoke(o, c) ==
    /\ pc[o] = "invoke"
    /\ c \in todo[o]
    /\ todo[o] = plan[o].approved => ~cancelled[o]
    /\ todo' = [todo EXCEPT ![o] = @ \ {c}]
    /\ invoked' = invoked \cup {[exec |-> plan[o], call |-> c, claim |-> base[o]]}
    /\ UNCHANGED <<data, lock, pc, job, base, step, plan, cancelled, nextId,
                   begun, fenced, acked, asked>>

ToolsSettle(o) ==
    /\ pc[o] = "invoke"
    /\ todo[o] = {}
    /\ ~cancelled[o]
    /\ Moves(o, "record")
    /\ UNCHANGED <<data, nextId, begun, fenced, invoked, acked>>

\* Mutation of ToolsInDoubt: the error clears the checkpoint.
DoubtForgotten(o) ==
    /\ pc[o] = "invoke"
    /\ cancelled[o] \/ (todo[o] = {} /\ "doubt" \in Disruptions)
    /\ SetState(o, Cleared(State(o)))
    /\ Moves(o, "finish")
    /\ UNCHANGED <<store, orphans, nextId, begun, fenced, invoked, acked>>

\* ToolExecutionInDoubt: interrupted, or a tool reported an uncertain outcome.
ToolsInDoubt(o) ==
    /\ pc[o] = "invoke"
    /\ cancelled[o] \/ (todo[o] = {} /\ "doubt" \in Disruptions)
    /\ Moves(o, "finish")
    /\ UNCHANGED <<data, nextId, begun, fenced, invoked, acked>>

WithResults(s, r) ==
    Remember([s EXCEPT !.hist = FinishCheckpointCalls(@, r)], "results", r)

\* resume/resolve: memory.replace, then record_tool_results appends; the
\* checkpoint is still set while the AfterToolCall hooks run.
RecordResults(o) ==
    /\ pc[o] = "record"
    /\ job[o].mode = "call"
    /\ SetState(o, WithResults(State(o), plan[o].reply))
    /\ Moves(o, "hooks")
    /\ UNCHANGED <<store, orphans, nextId, begun, fenced, invoked, acked>>

\* The append after memory.replace fails.
RecordFails(o) ==
    /\ pc[o] = "record"
    /\ job[o].mode = "call"
    /\ "memory" \in Disruptions
    /\ SetState(o, [State(o) EXCEPT
                      !.hist = FinishCheckpointCalls(@, plan[o].reply)])
    /\ Moves(o, "finish")
    /\ UNCHANGED <<store, orphans, nextId, begun, fenced, invoked, acked>>

\* memory.replace fails.
ReplaceFails(o) ==
    /\ pc[o] = "record"
    /\ "memory" \in Disruptions
    /\ Moves(o, "finish")
    /\ UNCHANGED <<data, nextId, begun, fenced, invoked, acked>>

\* Mutation of RecordAndClear: the checkpoints are cleared after the hooks.
RecordOnly(o) ==
    /\ pc[o] = "record"
    /\ job[o].mode = "stream"
    /\ SetState(o, WithResults(State(o), plan[o].reply))
    /\ Moves(o, "commit")
    /\ UNCHANGED <<store, orphans, nextId, begun, fenced, invoked, acked>>

\* commit_recovery_results: one replacement, both checkpoints cleared, saved.
RecordAndClear(o) ==
    /\ pc[o] = "record"
    /\ job[o].mode = "stream"
    /\ SetState(o, Cleared(WithResults(State(o), plan[o].reply)))
    /\ Moves(o, "commit")
    /\ UNCHANGED <<store, orphans, nextId, begun, fenced, invoked, acked>>

Commit(o) ==
    /\ pc[o] = "commit"
    /\ SaveSucceeds(o)
    /\ base' = [base EXCEPT ![o] = @ + 1]
    /\ Goto(o, "hooks")
    /\ UNCHANGED <<orphans, view, lock, job, step, plan, todo, cancelled,
                   nextId, begun, invoked, acked, asked>>

\* The AfterToolCall hooks return.  Only now do resume_tool_calls, retry and
\* resolve clear the checkpoint; retry and resolve capture a new token.
Continue(o) ==
    /\ pc[o] = "hooks"
    /\ SetState(o, Cleared(State(o)))
    /\ Goto(o, "model")
    /\ step' = [step EXCEPT ![o] = plan[o].step]
    /\ cancelled' = [cancelled EXCEPT ![o] =
          @ /\ (job[o].mode = "stream" \/ job[o].kind = "resume")]
    /\ UNCHANGED <<store, orphans, lock, job, base, plan, todo, nextId, begun,
                   ghosts>>

HooksFail(o) ==
    /\ pc[o] = "hooks"
    /\ HookFails
    /\ Moves(o, "finish")
    /\ UNCHANGED <<data, nextId, begun, fenced, invoked, acked>>

-----------------------------------------------------------------------------
(* finish_state_operation: every outcome, success or error, is saved.       *)

Finish(o) ==
    /\ pc[o] = "finish"
    /\ SaveSucceeds(o)
    /\ acked' = acked \cup MsgsOf(State(o).hist)
    /\ Return(o)
    /\ UNCHANGED <<orphans, view, nextId, begun, invoked>>

FinishFails(o) ==
    /\ pc[o] = "finish"
    /\ SaveFails(o)
    /\ Return(o)
    /\ UNCHANGED <<orphans, view, nextId, begun, invoked, acked>>

-----------------------------------------------------------------------------
(* The environment.                                                         *)

\* AgentInterruptHandle::interrupt reaches the tokens captured so far.
Interrupt(a) ==
    /\ "interrupt" \in Disruptions
    /\ LET active == {o \in Ops : Owner[o] = a /\ pc[o] \notin {"idle", "waiting"}}
       IN  /\ cancelled' = [o \in Ops |-> cancelled[o] \/ o \in active]
           /\ asked' = [o \in Ops |-> asked[o] \/ o \in active]
    /\ UNCHANGED <<data, lock, pc, job, base, step, plan, todo, nextId, begun,
                   fenced, invoked, acked>>

PendingSave(o) == [agent |-> Owner[o], base |-> base[o], state |-> State(o)]

\* The future or stream is dropped at an await.  A save that was already on
\* its way (SQLite runs it on a worker thread) may still take effect.
Drop(o) ==
    /\ "drop" \in Disruptions
    /\ pc[o] # "idle"
    /\ \/ UNCHANGED orphans
       \/ /\ "late" \in Disruptions
          /\ pc[o] \in {"persist", "commit", "finish"}
          /\ orphans' = orphans \cup {PendingSave(o)}
    /\ Return(o)
    /\ UNCHANGED <<store, view, nextId, begun, fenced, invoked, acked>>

OrphanCommits(w) ==
    /\ w \in orphans
    /\ orphans' = orphans \ {w}
    /\ Commits(w.base, w.state)
    /\ UNCHANGED <<view, control, nextId, begun, invoked, acked, asked>>

OrphanLost(w) ==
    /\ w \in orphans
    /\ orphans' = orphans \ {w}
    /\ UNCHANGED <<store, view, control, nextId, begun, ghosts>>

\* The process stops: its callers, its memory and its pending saves are gone.
Crash(a) ==
    /\ "crash" \in Disruptions
    /\ view' = [view EXCEPT ![a] = EmptyState]
    /\ lock' = [lock EXCEPT ![a] = NoOp]
    /\ pc' = [o \in Ops |-> IF Owner[o] = a THEN "idle" ELSE pc[o]]
    /\ base' = [o \in Ops |-> IF Owner[o] = a THEN 0 ELSE base[o]]
    /\ step' = [o \in Ops |-> IF Owner[o] = a THEN 0 ELSE step[o]]
    /\ plan' = [o \in Ops |-> IF Owner[o] = a THEN NoExecution ELSE plan[o]]
    /\ todo' = [o \in Ops |-> IF Owner[o] = a THEN {} ELSE todo[o]]
    /\ cancelled' = [o \in Ops |-> IF Owner[o] = a THEN FALSE ELSE cancelled[o]]
    /\ asked' = [o \in Ops |-> IF Owner[o] = a THEN FALSE ELSE asked[o]]
    /\ orphans' = {w \in orphans : w.agent # a}
    /\ UNCHANGED <<store, job, nextId, begun, fenced, invoked, acked>>

-----------------------------------------------------------------------------
Start(o) == Begin(o) \/ BeginFails(o)
Entry(o) == Snapshot(o) \/ Observe(o) \/ AcceptReply(o) \/ Refuse(o)
Reasoning(o) ==
    \/ ModelFails(o) \/ ModelAnswers(o) \/ ModelExhausted(o)
    \/ PauseForConfirmation(o) \/ CallTools(o)
    \/ ToolsReturn(o) \/ ToolsInterrupted(o) \/ ToolsUnrecorded(o)
Recovery(o) ==
    \/ RefuseRecovery(o) \/ ResumeCall(o) \/ ResumeStream(o) \/ PlanRecovery(o)
    \/ Setup(o) \/ SetupFails(o) \/ Persist(o) \/ PersistFails(o)
    \/ \E c \in Calls : Invoke(o, c)
    \/ ToolsSettle(o) \/ ToolsInDoubt(o)
    \/ RecordResults(o) \/ RecordFails(o) \/ ReplaceFails(o)
    \/ RecordAndClear(o) \/ Commit(o)
    \/ Continue(o) \/ HooksFail(o)
Ending(o) == Finish(o) \/ FinishFails(o)

Progress(o) == Entry(o) \/ Reasoning(o) \/ Recovery(o) \/ Ending(o)
Environment ==
    \/ \E a \in Agents : Interrupt(a) \/ Crash(a)
    \/ \E w \in orphans : OrphanCommits(w) \/ OrphanLost(w)

Next ==
    \/ \E o \in Ops : Call(o) \/ Start(o) \/ Progress(o) \/ Drop(o)
    \/ Environment

Spec == Init /\ [][Next]_vars

\* The executor polls every live operation, the model, the tools, the hooks
\* and the store return, and tokio's mutex serves its waiters in order.
Fairness == \A o \in Ops : WF_vars(Progress(o)) /\ SF_vars(Start(o))
FairSpec == Spec /\ Fairness

-----------------------------------------------------------------------------
(* Properties.                                                              *)

Stored == store.state
StoredMsgs == MsgsOf(Stored.hist)
Awaited(s) == {s.calls.reply, s.exec.reply} \ {0}

\* All invocations ever made for the confirmed calls of one reply carry the
\* same execution checkpoint, hence the same idempotency key per call and the
\* same set of approved calls: across instances, dropped futures, late saves,
\* failed saves, restarts and retries.
\* (PendingToolExecution::idempotency_key, resume_tool_calls, retry.)
OneKeyPerCall ==
    \A i, j \in invoked : i.exec.reply = j.exec.reply => i.exec = j.exec

\* A confirmed tool runs only under an execution checkpoint that is already
\* durable (PendingToolExecution: "written before invoking any approved tool").
FencedFirst == \A i \in invoked : i.exec \in fenced

\* One committed claim licenses one invocation of each call: nobody, be it
\* another instance, a clone or a later operation of the same caller, invokes a
\* call again under the revision it was invoked under before
\* ("CAS claims this revision before external effects").
OncePerClaim ==
    [][\A o \in Ops, c \in Calls : Invoke(o, c) =>
          ~\E i \in invoked : i.claim = base[o] /\ i.call = c]_vars

\* Whatever was invoked stays accounted for in the stored session: either its
\* execution checkpoint is still pending, for the caller to reconcile, or the
\* results of its reply are in the history.
EffectsAccounted ==
    \A i \in invoked :
        \/ Stored.exec = i.exec
        \/ [kind |-> "results", id |-> i.exec.reply] \in StoredMsgs

\* The stored session can always be loaded again by an agent of the same
\* configuration (validate_state accepts what finish_state_operation wrote).
SessionLoadable == store.rev > 0 => ValidState(Stored)

\* The stored history and the stored checkpoint agree: exactly the awaited
\* calls are Asking, and exactly the finished calls have their results.
CheckpointMatchesHistory ==
    /\ {m.id : m \in {x \in StoredMsgs : x.kind = "asking"}} = Awaited(Stored)
    /\ \A m \in StoredMsgs : m.kind = "finished" =>
          [kind |-> "results", id |-> m.id] \in StoredMsgs

\* No tool call is answered twice in the stored history, whoever recovers it.
AnsweredOnce ==
    \A i, j \in DOMAIN Stored.hist :
        /\ Stored.hist[i].kind = "results"
        /\ Stored.hist[i] = Stored.hist[j]
        => i = j

\* What an operation reported as saved stays in the stored history; the only
\* change a stored message ever sees is that its calls get finished.
AckedIsDurable ==
    \A m \in acked :
        \/ m \in StoredMsgs
        \/ m.kind = "asking" /\ [kind |-> "finished", id |-> m.id] \in StoredMsgs

\* No update is lost: every committed save extends the history it replaces,
\* whoever wrote that, and touches it only to finish awaited calls.
HistoryGrows ==
    [][LET old == store.state.hist
           new == store'.state.hist
       IN  store' # store =>
             /\ store'.rev = store.rev + 1
             /\ Len(new) >= Len(old)
             /\ \A i \in DOMAIN old :
                   new[i] = old[i] \/ new[i] \in MsgsOf(
                      FinishCheckpointCalls(<<old[i]>>, old[i].id))]_vars

\* Every operation that was called returns, so no caller waits for the
\* instance's lock for ever.
OperationsReturn == \A o \in Ops : pc[o] = "waiting" ~> pc[o] = "idle"

\* An operation that is about to call the model or a confirmed tool knows of
\* every interrupt issued since it began.
InterruptSeen ==
    \A o \in Ops : pc[o] \in {"model", "invoke"} /\ asked[o] => cancelled[o]

-----------------------------------------------------------------------------
(* The inductive invariant behind OneKeyPerCall.                            *)

Unfenced(r) == \A e \in fenced : e.reply # r

\* A state never waits for a confirmation and an execution at once, and names
\* only replies whose ids have been handed out.
WellFormed(s) ==
    /\ s.calls.reply = 0 \/ s.exec.reply = 0
    /\ s.calls.reply < nextId
    /\ s.exec.reply < nextId

\* Committing s now would give no reply a second execution.
Committable(s) ==
    /\ s.calls.reply # 0 => Unfenced(s.calls.reply)
    /\ s.exec.reply # 0 => s.exec \in fenced \/ Unfenced(s.exec.reply)

Running(o) == pc[o] \notin {"idle", "waiting"}

\* The callers of one instance run one at a time.
LockHeld == \A o \in Ops : Running(o) => lock[Owner[o]] = o

StatesWellFormed ==
    /\ WellFormed(store.state)
    /\ \A a \in Agents : WellFormed(view[a])
    /\ \A w \in orphans : WellFormed(w.state)

\* Nobody expects a revision from the future.
RevisionsKnown ==
    /\ \A o \in Ops : base[o] <= store.rev
    /\ \A w \in orphans : w.base <= store.rev

\* Every state whose compare-and-swap could still succeed is harmless.
CommitsHarmless ==
    /\ Committable(store.state)
    /\ \A o \in Ops :
          Running(o) /\ base[o] = store.rev => Committable(State(o))
    /\ \A w \in orphans : w.base = store.rev => Committable(w.state)

FencedOnce ==
    /\ \A e, f \in fenced : e.reply = f.reply => e = f
    /\ \A e \in fenced : e.reply # 0 /\ e.reply < nextId
    /\ store.rev = 0 => fenced = {}

\* What an operation in the given place knows about its plan.
PlanHeld(o) ==
    /\ pc[o] \in {"model", "tools"} =>
          State(o).calls.reply = 0 /\ State(o).exec.reply = 0
    /\ pc[o] = "setup" =>
          /\ plan[o].reply # 0
          /\ \/ State(o).exec = plan[o]
             \/ State(o).exec.reply = 0 /\ State(o).calls.reply = plan[o].reply
    /\ pc[o] = "persist" => plan[o].reply # 0 /\ State(o).exec = plan[o]
    /\ pc[o] = "invoke" => plan[o] \in fenced
PlansHeld == \A o \in Ops : PlanHeld(o)

FenceInv ==
    /\ LockHeld
    /\ StatesWellFormed
    /\ RevisionsKnown
    /\ CommitsHarmless
    /\ FencedOnce
    /\ PlansHeld
    /\ FencedFirst

-----------------------------------------------------------------------------
(* The inductive invariant behind OncePerClaim: what an operation still has *)
(* to do under its claim has not been done under it by anyone.              *)

ClaimInv ==
    /\ \A i \in invoked : i.claim <= store.rev
    /\ \A o \in Ops : pc[o] = "invoke" =>
          /\ \A i \in invoked : i.claim = base[o] => i.call \notin todo[o]
          /\ \A p \in Ops : pc[p] = "invoke" /\ base[p] = base[o] => p = o

-----------------------------------------------------------------------------
(* The inductive invariant behind EffectsAccounted, AnsweredOnce,           *)
(* AckedIsDurable and HistoryGrows.                                         *)

HasResults(s, r) == [kind |-> "results", id |-> r] \in MsgsOf(s.hist)

\* The history h extends g, and touches it only to finish awaited calls.
Extends(g, h) ==
    /\ Len(h) >= Len(g)
    /\ \A i \in DOMAIN g :
          \/ h[i] = g[i]
          \/ g[i].kind = "asking" /\ h[i] = [kind |-> "finished", id |-> g[i].id]

\* s may replace the stored state t: it loses no message, and no execution
\* whose results it does not hold.
Follows(s, t) ==
    /\ Extends(t.hist, s.hist)
    /\ t.exec.reply # 0 => s.exec = t.exec \/ HasResults(s, t.exec.reply)

\* No calls are answered twice, and none that are still waiting; n is a bound
\* on the ids in use.
Orderly(s, n) ==
    /\ \A m \in MsgsOf(s.hist) :
          m.id < n /\ (m.kind = "asking" => ~HasResults(s, m.id))
    /\ \A i, j \in DOMAIN s.hist :
          s.hist[i].kind = "results" /\ s.hist[i] = s.hist[j] => i = j

\* What an operation in the given place knows about the calls of its plan.
CallsHeld(o) ==
    /\ pc[o] \in {"setup", "persist", "invoke", "record"} =>
          /\ CheckpointMessage(State(o).hist, plan[o].reply)
          /\ State(o).exec.reply \in {0, plan[o].reply}
    /\ pc[o] = "tools" =>
          /\ plan[o].reply < nextId
          /\ ~HasResults(State(o), plan[o].reply)
          /\ ~CheckpointMessage(State(o).hist, plan[o].reply)
    /\ pc[o] \in {"commit", "hooks"} =>
          HasResults(State(o), plan[o].reply) /\ State(o).exec.reply \in {0, plan[o].reply}

HistoryInv ==
    /\ store.rev = 0 => store.state = EmptyState
    /\ Orderly(store.state, nextId)
    /\ \A a \in Agents : Orderly(view[a], nextId)
    /\ \A w \in orphans :
          /\ Orderly(w.state, nextId)
          /\ w.base = store.rev => Follows(w.state, store.state)
    /\ \A o \in Ops : Running(o) /\ base[o] = store.rev => Follows(State(o), store.state)
    /\ \A o \in Ops : CallsHeld(o)
    /\ \A e \in fenced : store.state.exec = e \/ HasResults(store.state, e.reply)
    /\ AckedIsDurable

-----------------------------------------------------------------------------
(* The inductive invariant behind SessionLoadable and                       *)
(* CheckpointMatchesHistory, while neither hooks nor memory fail.           *)

\* The checkpoints of s await exactly the calls that its history asks for.
Whole(s) ==
    /\ {m.id : m \in {x \in MsgsOf(s.hist) : x.kind = "asking"}} = Awaited(s)
    /\ \A m \in MsgsOf(s.hist) : m.kind = "finished" => HasResults(s, m.id)
    /\ s.calls.reply # 0 => s.calls.step < MaxSteps
    /\ s.exec.reply # 0 => s.exec.step < MaxSteps /\ s.exec.approved # {}

\* In the call forms the checkpoints outlive the results until the hooks are
\* done.
WholeAt(o) ==
    /\ Whole(IF pc[o] = "hooks" THEN Cleared(State(o)) ELSE State(o))
    /\ pc[o] = "setup" =>
          State(o).exec = plan[o] \/ State(o).calls.step = plan[o].step
    /\ pc[o] = "commit" => Awaited(State(o)) = {}

\* Whoever holds the lock of an instance is running there.
LocksUsed ==
    \A a \in Agents : lock[a] # NoOp => Owner[lock[a]] = a /\ Running(lock[a])

\* An instance without a stored record keeps what it holds, so there a dropped
\* future could leave half-recorded results to the next operation.
WholeInv ==
    /\ "drop" \in Disruptions => store.rev > 0
    /\ LocksUsed
    /\ Whole(store.state)
    /\ \A w \in orphans : w.base = store.rev => Whole(w.state)
    /\ \A o \in Ops : Running(o) /\ base[o] = store.rev => WholeAt(o)
    /\ store.rev = 0 => \A a \in Agents : lock[a] = NoOp => Whole(view[a])

-----------------------------------------------------------------------------
(* The session of agents that start over a record which agents of the same  *)
(* configuration left in the store: the invariants say what that record is. *)

Restart ==
    /\ Quiet
    /\ view = [a \in Agents |-> EmptyState]
    /\ store.rev > 0
    /\ WellFormed(store.state)
    /\ Orderly(store.state, nextId)
    /\ Whole(store.state)
    /\ acked \subseteq StoredMsgs

RestartSpec == TypeOK /\ Restart /\ [][Next]_vars
=============================================================================
