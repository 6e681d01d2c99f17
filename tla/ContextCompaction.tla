-------------------------- MODULE ContextCompaction --------------------------
(***************************************************************************)
(* Context summaries of a ReActAgent: compact_context,                     *)
(* clear_context_summary and the automatic compaction before a reply,      *)
(* beside the ordinary operations of the clones of an instance and beside  *)
(* the restoring of a snapshot.                                            *)
(*                                                                         *)
(* Ordinary operations hold context_operations for reading, compactions    *)
(* for writing; an instance bound to a StateStore also holds the lock of   *)
(* its binding from the load to the last save.  Clones of an instance      *)
(* without a store have no other lock.  How a paused reply is recovered is *)
(* the subject of AgentSession; here resume records results and goes on.   *)
(*                                                                         *)
(* Code: src/agent/react/{compaction,auto_compaction}.rs, agent/react.rs,  *)
(* context/summary.rs, context.rs.                                         *)
(***************************************************************************)
EXTENDS ContextWindow

CONSTANTS
    Agents,       \* agent instances
    Ops,          \* callers: each runs one operation at a time
    Owner,        \* Owner[o]: the instance (or a clone of it) caller o uses
    Keep,         \* keep_recent_turns
    Backups,      \* snapshots that may be restored
    MaxOps,       \* bound: operations started in one behaviour
    Disruptions   \* what may go wrong, see AllDisruptions

AllDisruptions ==
    {"store",      \* a load or a save fails and has no effect
     "ack",        \* a save takes effect but reports a failure
     "late",       \* the save of a dropped future takes effect later, or never
     "drop",       \* the caller drops a future or a stream before its end
     "crash",      \* the process of an instance stops and starts again
     "model",      \* model or summarizer fail, or their answer is rejected
     "pause"}      \* the model asks for tool calls that need confirmation

ASSUME CompactionAssumption ==
    /\ Owner \in [Ops -> Agents]
    /\ Keep \in Nat \ {0}
    /\ MaxOps \in Nat
    /\ Disruptions \subseteq AllDisruptions

Shared == {"reply", "observe", "resume", "restore"}     \* hold context_operations to read
Exclusive == {"auto", "compact", "clear"}    \* hold it to write

-----------------------------------------------------------------------------
(* Data.  Messages are told apart by their ids; results carry the id of the *)
(* message whose calls they answer.  System messages are left out.           *)

Msg == [kind : {"user", "call", "results", "answer"}, id : Nat]
History == Seq(Msg)

\* A ContextSummary is the prefix it was made from; <<>> is no summary.  The
\* pending tool calls are those of the message with id calls; 0: none.
AgentState == [hist : History, calls : Nat, summary : History]
EmptyState == [hist |-> <<>>, calls |-> 0, summary |-> <<>>]

\* validate_state accepts every snapshot.
ASSUME BackupsAssumption ==
    \A s \in Backups : s \in AgentState /\ Valid(s.summary, s.hist)

\* The messages that RecentTurns leaves out.
Prefix(h) == SubSeq(h, 1, CutAt(h, Keep) - 1)

\* summary_candidate: a completed prefix that is longer than the summarized one.
CanSummarize(s) ==
    /\ s.calls = 0
    /\ Len(Prefix(s.hist)) > Len(s.summary)
    /\ Completed(Prefix(s.hist))

-----------------------------------------------------------------------------
VARIABLES
    bound,      \* the instances that are bound to the store
    store,      \* the StateRecord of their key; revision 0: none yet
    orphans,    \* saves whose future was dropped but which may still happen
    view,       \* per instance: memory, pending calls and summary of its clones
    queue,      \* per instance: who waits for context_operations, in turn
    pc,         \* per caller: the next await of its operation
    job,        \* per caller: its operation
    base,       \* per caller: StateOperation::expected_revision
    held,       \* per caller: the state it reads, sends or is about to commit
    nextId,     \* ids below it have been handed out
    called      \* operations started

vars == <<bound, store, orphans, view, queue, pc, job, base, held, nextId, called>>

PCs == {"idle", "queued", "begin", "open", "install", "summarize", "commit",
        "input", "model", "save"}
Running == PCs \ {"idle", "queued", "begin"}

\* Every variable has its type, and who waits for an instance is in its queue.
TypeOK ==
    /\ bound \subseteq Agents
    /\ store \in [rev : Nat, state : AgentState]
    /\ orphans \subseteq [agent : Agents, base : Nat, state : AgentState]
    /\ view \in [Agents -> AgentState]
    /\ queue \in [Agents -> Seq(Ops)]
    /\ \A a \in Agents : Range(queue[a]) = {o \in Ops : Owner[o] = a /\ pc[o] = "queued"}
    /\ pc \in [Ops -> PCs]
    /\ job \in [Ops -> Shared \cup Exclusive]
    /\ base \in [Ops -> Nat]
    /\ held \in [Ops -> AgentState]
    /\ nextId \in Nat
    /\ called \in Nat

Init ==
    /\ bound \in SUBSET Agents
    /\ store = [rev |-> 0, state |-> EmptyState]
    /\ orphans = {}
    /\ view = [a \in Agents |-> EmptyState]
    /\ queue = [a \in Agents |-> <<>>]
    /\ pc = [o \in Ops |-> "idle"]
    /\ job = [o \in Ops |-> "reply"]
    /\ base = [o \in Ops |-> 0]
    /\ held = [o \in Ops |-> EmptyState]
    /\ nextId = 1
    /\ called = 0

-----------------------------------------------------------------------------
(* Building blocks of the actions.                                          *)

State(o) == view[Owner[o]]
SetState(o, s) == view' = [view EXCEPT ![Owner[o]] = s]
Bound(o) == Owner[o] \in bound
Goto(o, where) == pc' = [pc EXCEPT ![o] = where]
Hold(o, s) == held' = [held EXCEPT ![o] = s]

\* Memory::append
Appended(s, kind, id) ==
    [s EXCEPT !.hist = Append(@, [kind |-> kind, id |-> id])]
Remember(o, kind, id) == SetState(o, Appended(State(o), kind, id))

\* The operation returns and drops its guards.
Release(o) ==
    /\ Goto(o, "idle")
    /\ base' = [base EXCEPT ![o] = 0]
    /\ Hold(o, EmptyState)

\* Who holds context_operations of instance a.
Holders(a) == {o \in Ops : Owner[o] = a /\ pc[o] \notin {"idle", "queued"}}
Free(a) == Holders(a) = {} /\ queue[a] = <<>>

\* The lock of the binding is free.
Unlocked(a) == ~ \E o \in Ops : Owner[o] = a /\ pc[o] \in Running

\* Mutation of Commits: the expected revision is not compared.
BlindCommits(e, s) == store' = [rev |-> store.rev + 1, state |-> s]

\* StateStore::save with the expected revision e (0: None).
Commits(e, s) ==
    /\ store.rev = e
    /\ store' = [rev |-> e + 1, state |-> s]

\* The state that caller o is about to save.
Pending(o) == IF pc[o] = "commit" THEN held[o] ELSE State(o)
Saving(o) == Bound(o) /\ pc[o] \in {"commit", "save"}
SaveSucceeds(o) == Commits(base[o], Pending(o))

-----------------------------------------------------------------------------
(* Beginning an operation.                                                  *)

\* Ordinary operations and automatic replies wait for context_operations.  An
\* instance without a store is not restored while others use it: nothing there
\* keeps the operations of its clones apart.
Wait(o, kind) ==
    /\ pc[o] = "idle"
    /\ called < MaxOps
    /\ called' = called + 1
    /\ kind \in Shared \cup {"auto"}
    /\ kind = "restore" => Bound(o)
    /\ job' = [job EXCEPT ![o] = kind]
    /\ queue' = [queue EXCEPT ![Owner[o]] = Append(@, o)]
    /\ Goto(o, "queued")
    /\ UNCHANGED <<bound, store, orphans, view, base, held, nextId>>

\* Mutation of TryWrite: compaction does not look at the other operations.
WriteAnyway(o, kind) ==
    /\ pc[o] = "idle"
    /\ called < MaxOps
    /\ called' = called + 1
    /\ kind \in {"compact", "clear"}
    /\ job' = [job EXCEPT ![o] = kind]
    /\ Goto(o, "begin")
    /\ UNCHANGED <<bound, store, orphans, view, queue, base, held, nextId>>

\* Compaction on request takes it at once, or returns Busy.
TryWrite(o, kind) ==
    /\ pc[o] = "idle"
    /\ called < MaxOps
    /\ called' = called + 1
    /\ kind \in {"compact", "clear"}
    /\ \/ /\ Free(Owner[o])
          /\ job' = [job EXCEPT ![o] = kind]
          /\ Goto(o, "begin")
       \/ /\ ~Free(Owner[o])
          /\ UNCHANGED <<job, pc>>
    /\ UNCHANGED <<bound, store, orphans, view, queue, base, held, nextId>>

\* The first in the queue gets it: readers together, a writer alone.
Grant(o) ==
    /\ pc[o] = "queued"
    /\ Head(queue[Owner[o]]) = o
    /\ \A d \in Holders(Owner[o]) : job[o] \in Shared /\ job[d] \in Shared
    /\ queue' = [queue EXCEPT ![Owner[o]] = Tail(@)]
    /\ Goto(o, "begin")
    /\ UNCHANGED <<bound, store, orphans, view, job, base, held, nextId, called>>

\* begin_store_operation: the stored state is loaded and installed.
Begin(o) ==
    /\ pc[o] = "begin"
    /\ Goto(o, "open")
    /\ \/ /\ ~Bound(o)
          /\ UNCHANGED <<view, base>>
       \/ /\ Bound(o)
          /\ Unlocked(Owner[o])
          /\ Valid(store.state.summary, store.state.hist)
          /\ base' = [base EXCEPT ![o] = store.rev]
          /\ IF store.rev = 0 THEN UNCHANGED view ELSE SetState(o, store.state)
    /\ UNCHANGED <<bound, store, orphans, queue, job, held, nextId, called>>

BeginFails(o) ==
    /\ pc[o] = "begin"
    /\ Bound(o)
    /\ Unlocked(Owner[o])
    /\ "store" \in Disruptions \/ ~Valid(store.state.summary, store.state.hist)
    /\ Release(o)
    /\ UNCHANGED <<bound, store, orphans, view, queue, job, nextId, called>>

-----------------------------------------------------------------------------
(* Ordinary operations.                                                     *)

Observe(o) ==
    /\ pc[o] = "open" /\ job[o] = "observe"
    /\ Remember(o, "user", nextId)
    /\ nextId' = nextId + 1
    /\ Goto(o, "save")
    /\ UNCHANGED <<bound, store, orphans, queue, job, base, held, called>>

\* restore_memory: the messages are replaced, then the checkpoints and the
\* summary; a future that is dropped in between has done only the former.
Replace(o) ==
    /\ pc[o] = "open" /\ job[o] = "restore"
    /\ \E s \in Backups :
           /\ SetState(o, [State(o) EXCEPT !.hist = s.hist])
           /\ Hold(o, s)
    /\ Goto(o, "install")
    /\ UNCHANGED <<bound, store, orphans, queue, job, base, nextId, called>>

Install(o) ==
    /\ pc[o] = "install"
    /\ SetState(o, held[o])
    /\ Hold(o, EmptyState)
    /\ Goto(o, "save")
    /\ UNCHANGED <<bound, store, orphans, queue, job, base, nextId, called>>

\* The snapshot is refused, or the memory fails: nothing is saved.
RestoreFails(o) ==
    /\ pc[o] = "open" /\ job[o] = "restore"
    /\ Release(o)
    /\ UNCHANGED <<bound, store, orphans, view, queue, job, nextId, called>>

\* The input is remembered; the model gets the history as it is now.
AcceptReply(o) ==
    /\ \/ pc[o] = "open" /\ job[o] = "reply" /\ State(o).calls = 0
       \/ pc[o] = "input"
    /\ Remember(o, "user", nextId)
    /\ Hold(o, Appended(State(o), "user", nextId))
    /\ nextId' = nextId + 1
    /\ Goto(o, "model")
    /\ UNCHANGED <<bound, store, orphans, queue, job, base, called>>

\* The results of the paused calls are recorded and the checkpoint is cleared.
AcceptResults(o) ==
    LET s == [Appended(State(o), "results", State(o).calls) EXCEPT !.calls = 0]
    IN  /\ pc[o] = "open" /\ job[o] = "resume" /\ State(o).calls # 0
        /\ SetState(o, s)
        /\ Hold(o, s)
        /\ Goto(o, "model")
        /\ UNCHANGED <<bound, store, orphans, queue, job, base, nextId, called>>

\* A reply while calls are pending, or a resume while none are: what was
\* loaded is saved again, but an automatic reply just returns.
Refuse(o) ==
    /\ pc[o] = "open"
    /\ \/ job[o] = "reply" /\ State(o).calls # 0 /\ Goto(o, "save")
          /\ UNCHANGED <<base, held>>
       \/ job[o] = "resume" /\ State(o).calls = 0 /\ Goto(o, "save")
          /\ UNCHANGED <<base, held>>
       \/ job[o] = "auto" /\ State(o).calls # 0 /\ Release(o)
    /\ UNCHANGED <<bound, store, orphans, view, queue, job, nextId, called>>

\* prepare_model_request: the summary belongs to the history that is sent.
Prepared(o) == Valid(State(o).summary, held[o].hist)

ModelAnswers(o) ==
    /\ pc[o] = "model"
    /\ Prepared(o)
    /\ Remember(o, "answer", nextId)
    /\ nextId' = nextId + 1
    /\ Goto(o, "save")
    /\ UNCHANGED <<bound, store, orphans, queue, job, base, held, called>>

\* pause_for_confirmation
ModelPauses(o) ==
    /\ "pause" \in Disruptions
    /\ pc[o] = "model"
    /\ Prepared(o)
    /\ SetState(o, [Appended(State(o), "call", nextId) EXCEPT !.calls = nextId])
    /\ nextId' = nextId + 1
    /\ Goto(o, "save")
    /\ UNCHANGED <<bound, store, orphans, queue, job, base, held, called>>

ModelFails(o) ==
    /\ pc[o] = "model"
    /\ "model" \in Disruptions \/ ~Prepared(o)
    /\ Goto(o, "save")
    /\ UNCHANGED <<bound, store, orphans, view, queue, job, base, held, nextId, called>>

\* finish_state_operation
Finish(o) ==
    /\ pc[o] = "save"
    /\ IF Bound(o) THEN SaveSucceeds(o) ELSE UNCHANGED store
    /\ Release(o)
    /\ UNCHANGED <<bound, orphans, view, queue, job, nextId, called>>

-----------------------------------------------------------------------------
(* Compaction.                                                              *)

\* summary_candidate up to the call of the summarizer; an automatic reply goes
\* there when its request would exceed the budget.
Plan(o) ==
    /\ pc[o] = "open" /\ job[o] \in {"auto", "compact"}
    /\ CanSummarize(State(o))
    /\ Hold(o, State(o))
    /\ Goto(o, "summarize")
    /\ UNCHANGED <<bound, store, orphans, view, queue, job, base, nextId, called>>

\* clear_context_summary
PlanClear(o) ==
    /\ pc[o] = "open" /\ job[o] = "clear"
    /\ Hold(o, [State(o) EXCEPT !.summary = <<>>])
    /\ Goto(o, "commit")
    /\ UNCHANGED <<bound, store, orphans, view, queue, job, base, nextId, called>>

\* The request of an automatic reply is within the budget.
NoNeed(o) ==
    /\ pc[o] = "open" /\ job[o] = "auto"
    /\ State(o).calls = 0
    /\ Goto(o, "input")
    /\ UNCHANGED <<bound, store, orphans, view, queue, job, base, held, nextId, called>>

\* Nothing to summarize, pending calls, or an unfinished turn in the prefix.
NoPlan(o) ==
    /\ pc[o] = "open" /\ job[o] \in {"auto", "compact"}
    /\ ~CanSummarize(State(o))
    /\ Release(o)
    /\ UNCHANGED <<bound, store, orphans, view, queue, job, nextId, called>>

\* Mutation of Summarized: the summary covers the recent turns too.
SummarizedAll(o) ==
    /\ pc[o] = "summarize"
    /\ State(o) = held[o]
    /\ Hold(o, [held[o] EXCEPT !.summary = held[o].hist])
    /\ Goto(o, "commit")
    /\ UNCHANGED <<bound, store, orphans, view, queue, job, base, nextId, called>>

\* The summary is acceptable and the state is still the one it was made from.
Summarized(o) ==
    /\ pc[o] = "summarize"
    /\ State(o) = held[o]
    /\ Hold(o, [held[o] EXCEPT !.summary = Prefix(held[o].hist)])
    /\ Goto(o, "commit")
    /\ UNCHANGED <<bound, store, orphans, view, queue, job, base, nextId, called>>

\* Summarizer or validation fail, or the source is stale.
SummaryFails(o) ==
    /\ pc[o] = "summarize"
    /\ "model" \in Disruptions \/ State(o) # held[o]
    /\ Release(o)
    /\ UNCHANGED <<bound, store, orphans, view, queue, job, nextId, called>>

\* commit_summary: saved, then installed; an automatic reply goes on.
Commit(o) ==
    /\ pc[o] = "commit"
    /\ IF Bound(o) THEN SaveSucceeds(o) ELSE UNCHANGED store
    /\ SetState(o, [State(o) EXCEPT !.summary = held[o].summary])
    /\ IF job[o] = "auto"
       THEN /\ Goto(o, "input")
            /\ base' = [base EXCEPT ![o] = store'.rev]
            /\ Hold(o, EmptyState)
       ELSE Release(o)
    /\ UNCHANGED <<bound, orphans, queue, job, nextId, called>>

\* append_auto_input fails: the call form still saves, the stream does not.
InputFails(o) ==
    /\ "model" \in Disruptions
    /\ pc[o] = "input"
    /\ \/ Goto(o, "save") /\ UNCHANGED <<base, held>>
       \/ Release(o)
    /\ UNCHANGED <<bound, store, orphans, view, queue, job, nextId, called>>

\* A summary that was not saved is not installed.
SaveFails(o) ==
    /\ Saving(o)
    /\ \/ /\ store.rev # base[o] \/ "store" \in Disruptions
          /\ UNCHANGED store
       \/ "ack" \in Disruptions /\ SaveSucceeds(o)
    /\ Release(o)
    /\ UNCHANGED <<bound, orphans, view, queue, job, nextId, called>>

-----------------------------------------------------------------------------
(* The environment.                                                         *)

\* Mutation of Drop: a waiter that was dropped keeps its place in the queue.
DropWaiting(o) ==
    /\ "drop" \in Disruptions
    /\ pc[o] # "idle"
    /\ Release(o)
    /\ UNCHANGED <<bound, store, orphans, view, queue, job, nextId, called>>

\* Where a waiting caller stands in the queue.
Place(o) == CHOOSE i \in DOMAIN queue[Owner[o]] : queue[Owner[o]][i] = o

\* The future or stream is dropped; a save on its way may still take effect.
Drop(o) ==
    /\ "drop" \in Disruptions
    /\ pc[o] # "idle"
    /\ \/ UNCHANGED orphans
       \/ /\ "late" \in Disruptions
          /\ Saving(o)
          /\ orphans' = orphans \cup
                {[agent |-> Owner[o], base |-> base[o], state |-> Pending(o)]}
    /\ queue' = IF pc[o] = "queued"
                THEN [queue EXCEPT ![Owner[o]] = RemoveAt(@, Place(o))]
                ELSE queue
    /\ Release(o)
    /\ UNCHANGED <<bound, store, view, job, nextId, called>>

OrphanCommits(w) ==
    /\ w \in orphans
    /\ orphans' = orphans \ {w}
    /\ Commits(w.base, w.state)
    /\ UNCHANGED <<bound, view, queue, pc, job, base, held, nextId, called>>

OrphanLost(w) ==
    /\ w \in orphans
    /\ orphans' = orphans \ {w}
    /\ UNCHANGED <<bound, store, view, queue, pc, job, base, held, nextId, called>>

\* The process restarts with an empty memory.
Crash(a) ==
    LET mine == {o \in Ops : Owner[o] = a}
    IN  /\ "crash" \in Disruptions
        /\ pc' = [o \in Ops |-> IF o \in mine THEN "idle" ELSE pc[o]]
        /\ base' = [o \in Ops |-> IF o \in mine THEN 0 ELSE base[o]]
        /\ held' = [o \in Ops |-> IF o \in mine THEN EmptyState ELSE held[o]]
        /\ queue' = [queue EXCEPT ![a] = <<>>]
        /\ view' = [view EXCEPT ![a] = EmptyState]
        /\ orphans' = {w \in orphans : w.agent # a}
        /\ UNCHANGED <<bound, store, job, nextId, called>>

-----------------------------------------------------------------------------
Entry(o) ==
    \/ \E kind \in Shared \cup {"auto"} : Wait(o, kind)
    \/ \E kind \in {"compact", "clear"} : TryWrite(o, kind)

\* What the executor does for a running operation, after its locks.
Progress(o) ==
    \/ Grant(o) \/ BeginFails(o)
    \/ Observe(o) \/ Replace(o) \/ Install(o) \/ RestoreFails(o) \/ AcceptReply(o) \/ AcceptResults(o) \/ Refuse(o)
    \/ ModelAnswers(o) \/ ModelPauses(o) \/ ModelFails(o) \/ Finish(o)
    \/ Plan(o) \/ PlanClear(o) \/ NoNeed(o) \/ NoPlan(o)
    \/ Summarized(o) \/ SummaryFails(o) \/ Commit(o) \/ InputFails(o)
    \/ SaveFails(o)

Next ==
    \/ \E o \in Ops : Entry(o) \/ Begin(o) \/ Progress(o) \/ Drop(o)
    \/ \E w \in orphans : OrphanCommits(w) \/ OrphanLost(w)
    \/ \E a \in Agents : Crash(a)

Spec == Init /\ [][Next]_vars

\* Live futures are polled and what they await returns; context_operations is
\* granted in turn by the queue, the lock of a binding by its own.
Fairness == \A o \in Ops : WF_vars(Progress(o)) /\ SF_vars(Begin(o))
FairSpec == Spec /\ Fairness

-----------------------------------------------------------------------------
(* Properties.                                                              *)

\* The stored summary, and the one that an operation finds installed, always
\* belong to an unchanged, completed prefix of the history beside them and leave
\* the recent turns alone: no later load, reply or compaction ends in
\* StaleSource.  Half of a restore that was dropped is seen by nobody.
SummaryFits ==
    /\ TypeOK
    /\ Valid(store.state.summary, store.state.hist)
    /\ \A a \in Agents \ bound : Valid(view[a].summary, view[a].hist)
    /\ \A o \in Ops : pc[o] \in Running \ {"install"} =>
           Valid(State(o).summary, State(o).hist)

\* Between its snapshot and its commit a compaction has the session for
\* itself, and a reply never asks the model with a summary that does not fit
\* the history it took ("Active operations/clones return Busy").
Undisturbed ==
    \A o \in Ops :
        /\ pc[o] = "summarize" => State(o) = held[o]
        /\ pc[o] = "commit" => State(o) = [held[o] EXCEPT !.summary = State(o).summary]
        /\ pc[o] = "model" => Prepared(o)

\* A save of an existing session either extends the conversation under an
\* unchanged summary, or changes nothing but the summary, which then covers
\* more or is cleared ("Never modifies raw memory"; a late or repeated save
\* never brings an old summary back or drops messages), or puts a snapshot in
\* place whole.
Extends(old, new) == new.summary = old.summary /\ IsPrefix(old.hist, new.hist)
Summarizes(old, new) ==
    /\ [new EXCEPT !.summary = old.summary] = old
    /\ new.summary = <<>> \/ Len(new.summary) > Len(old.summary)
Replaces(old, new) == new \in Backups \/ Extends(old, new) \/ Summarizes(old, new)
SavesApart ==
    [][store' # store /\ store.rev # 0 => Replaces(store.state, store'.state)]_store

\* Every operation that waits for the others returns.
OperationsReturn == \A o \in Ops : pc[o] # "idle" ~> pc[o] = "idle"

-----------------------------------------------------------------------------
(* The inductive invariants behind SavesApart, SummaryFits and Undisturbed. *)

\* The two locks: nobody waits twice for context_operations, whoever writes
\* holds it alone, and one operation at a time has an instance with a store.
Holds(o) == pc[o] \notin {"idle", "queued"}
LocksApart ==
    /\ \A a \in Agents : \A i, j \in DOMAIN queue[a] : queue[a][i] = queue[a][j] => i = j
    /\ \A o, d \in Ops : o # d /\ Owner[o] = Owner[d] =>
          /\ Holds(o) /\ Holds(d) => job[o] \in Shared
          /\ pc[o] \in Running /\ pc[d] \in Running => ~Bound(o)

\* Which operation is at which place.
JobHeld(o) ==
    /\ pc[o] # "idle" /\ job[o] = "restore" => Bound(o)
    /\ pc[o] = "install" => job[o] = "restore" /\ held[o] \in Backups
    /\ pc[o] \in {"summarize", "commit"} => job[o] \in Exclusive
    /\ pc[o] = "input" => job[o] = "auto"

\* Nobody changes the state that a compaction works on.
SourceHeld(o) ==
    /\ pc[o] = "summarize" => State(o) = held[o] /\ CanSummarize(held[o])
    /\ pc[o] = "commit" => State(o) = [held[o] EXCEPT !.summary = State(o).summary]

LockInv == LocksApart /\ \A o \in Ops : JobHeld(o) /\ SourceHeld(o)

\* What an operation whose compare-and-swap can still succeed has made of the
\* stored state.
SaveHeld(o) ==
    /\ pc[o] \in {"open", "summarize", "commit"} => State(o) = store.state
    /\ pc[o] = "commit" => Summarizes(store.state, held[o])
    /\ pc[o] \in {"input", "model"} => Extends(store.state, State(o))
    /\ pc[o] = "save" => State(o) \in Backups \/ Extends(store.state, State(o))

SaveInv ==
    /\ \A w \in orphans :
          /\ w.base <= store.rev
          /\ w.base = store.rev /\ store.rev # 0 => Replaces(store.state, w.state)
    /\ \A o \in Ops :
          /\ base[o] <= store.rev
          /\ Bound(o) /\ pc[o] \in Running /\ base[o] = store.rev /\ store.rev # 0
                => SaveHeld(o)

\* The summary of a state belongs to its history.
Fits(s) == Valid(s.summary, s.hist)

\* What an operation knows about the state it reads, sends or is about to save.
FitsHeld(o) ==
    /\ pc[o] \in Running \ {"install"} => Fits(State(o))
    /\ pc[o] = "commit" => Fits(held[o])
    /\ pc[o] = "model" => Prepared(o)

\* Half of a dropped restore stays in an instance until its next operation
\* loads the stored record: there has to be one.
FitsInv ==
    /\ "drop" \in Disruptions /\ Backups # {} => bound = {} \/ store.rev > 0
    /\ Fits(store.state)
    /\ \A w \in orphans : Fits(w.state)
    /\ \A a \in Agents \ bound : Fits(view[a])
    /\ store.rev = 0 => \A a \in bound :
          Fits(view[a]) \/ \E o \in Ops : Owner[o] = a /\ pc[o] = "install"
    /\ \A o \in Ops : FitsHeld(o)

-----------------------------------------------------------------------------
(* Agents that start over what agents of the same configuration left.       *)

Restart ==
    /\ bound # {} => store.rev > 0
    /\ orphans = {}
    /\ pc = [o \in Ops |-> "idle"]
    /\ base = [o \in Ops |-> 0]
    /\ Fits(store.state)
    /\ \A a \in Agents \ bound : Fits(view[a])

RestartSpec == TypeOK /\ Restart /\ [][Next]_vars
=============================================================================
