# Verification of agentscope-rust

TLA+ models of `agentscope-rust`: of its durable operations, of the model call
from the conversation to the response, and of the connection to an MCP server;
the TLC configurations that check them on small instances, and proofs that
their safety properties hold for all instances.
Source paths below are relative to the root of the repository (`src/agent/...`
is the library crate, `plugins/...` the SQLite and MCP crates).

- [1. The system](#1-the-system)
- [2. What is modelled](#2-what-is-modelled)
- [3. Runs](#3-runs)
- [4. Proofs](#4-proofs)
- [5. Disagreements between code and documentation](#5-disagreements-between-code-and-documentation)
- [6. Left out, and the plan](#6-left-out-and-the-plan)

## 1. The system

The library runs *ReAct agents* (model call, tool calls, model call, ...) and
*pipelines* of agents, and lets both survive restarts: the state of an agent
session and the checkpoint of a pipeline run are records of a store with
compare-and-swap saves.

| Component | State it keeps | Operations | What makes it hard | What makes it correct |
|---|---|---|---|---|
| **ReActAgent** (`agent/react.rs`, `react/streaming.rs`, `react/recovery_stream.rs`) | memory, `pending_tool_calls`, `pending_tool_execution` (shared by the clones of an instance), the lock `StateBinding::operation` | `reply`, `observe`, `snapshot`, `restore`, `resume_tool_calls`, `retry_tool_execution`, `resolve_tool_execution`, each as a future or a stream | several instances on one session; futures dropped at an await; failing saves, hooks, tools; a record in three steps | a confirmed call has one idempotency key for ever; a tool runs only under a durable checkpoint; effects are never forgotten; nothing reported as saved is lost |
| **Interrupts** (`agent/interrupt.rs`) | a generation signal per instance | `interrupt`, tokens | the token is captured at different points | an active operation sees the interrupt |
| **State stores** (`agent/store.rs`, `plugins/agentscope-state-sqlite`) | one record with a revision per key | `load`, `save(expected)`, `delete` | the save runs on a worker thread and outlives its future; the error may come after the commit | compare-and-swap |
| **Compaction and summaries** (`react/compaction.rs`, `react/auto_compaction.rs`, `context/summary.rs`) | `context_operations` (RwLock), the summary | prepare, commit, automatic compaction in `reply`, clear, `restore` | `try_write` while readers queue; a candidate that became stale; a replacement in two steps | the summary that is installed is the one that was saved, for the history it was computed from |
| **Context policies and budgets** (`context.rs`, `context/budget.rs`, `context/augmentation.rs`) | none | project the summary, select turns, augment, fit a budget | calls and results must stay together through three reductions in a row, whatever was observed between them and whichever identifiers the provider uses again | the request is a legal history within its budget that drops no more than it must |
| **Tool-result offload** (`context/offload.rs`, `plugins/agentscope-offload-file`) | files | project, read | the store fails in the middle of a request | what is offloaded can be read back, the stored history is unchanged |
| **Sequential pipeline** (`pipeline.rs`, `pipeline/checkpoint.rs`, `pipeline/streaming_checkpoint.rs`) | `operation` lock; record of replies, next input, status | run, resume, reconcile, streams | the run that lost a race is still executing its agent | an agent is dispatched at most once per run; the chain of replies is the recorded one |
| **Parallel pipeline** (`pipeline/parallel*`) | a checkpoint per branch | same | branches finish in any order, one writer | at most once per branch |
| **Routed pipeline, model router** (`pipeline/routed*`) | the selection and its status | same, `select` | as above | the selected route only, once |
| **Idempotent tools** (`tool/idempotent.rs`, `tool/idempotency.rs`, `plugins/agentscope-idempotency-sqlite`) | a record per key: ready, uncertain, completed; claims with a token | execute, complete, reconcile | duplicates while the first call runs or was dropped; capacity | one execution per key; an uncertain outcome is never rerun |
| **Tool registry and executor** (`tool/registry.rs`, `tool/executor.rs`) | registered tools | register, execute a batch | results in call order | one result per call |
| **Memory** (`memory/*`) | the history | append, replace, messages | fails between two steps | - |
| **Model adapters** (`model/openai*`, `model/accumulator.rs`) | the decoder of the event stream, the partial response, the count of retries | `generate`, `stream` | chunk boundaries, delimiters of two kinds, deltas that name their call once, errors after half an answer, overflow of the delay | a stream says what the whole body says; a request is repeated only before its answer begins |
| **Hooks and events** (`agent/hook.rs`, `agent/event.rs`) | none | call-backs | a hook fails between two state changes | see ReActAgent |
| **MCP client** (`plugins/agentscope-mcp`) | the session in a slot behind a lock: the child process, its input behind a lock of its own, the next request id, the channel from the reader task | connect, call a tool, discover, close | futures dropped or timed out in an exchange, late and duplicate answers, pings answered through the input the requests are written to, full pipes | nothing that may still run is reported as a definite failure; no answer reaches another request; the child never outlives its session |

Interactions: an agent operation takes `StateBinding::operation` of its
instance, loads and installs the record of its key, then calls hooks, model and
tools in turn, and saves on every outcome; instances meet only in the store. A
pipeline operation `try_lock`s its pipeline, and commits *InFlight* before and
the boundary after each agent call; processes meet only in the store. A confirmed tool
call carries the key `"<execution id>:<call id>"` to an idempotent tool. Before
every model call the agent derives a request from its memory without changing it,
and reads the stream of the answer through decoder and accumulator. The tools
of one MCP server share one connection, also within a batch of the executor.

The full list of hazards is `hazards` in `PROJECT.json`.

## 2. What is modelled

### AgentSession

The durable session of a ReActAgent: instances (`Agents`) bound to one state
key, callers (`Ops`) of the clones of an instance (`Owner`).

| State | Code |
|---|---|
| `store` | `StateRecord`; `rev = 0` is *no record* |
| `view[a]` | what the clones of instance `a` share: memory, `pending_tool_calls`, `pending_tool_execution` |
| `lock[a]` | `StateBinding::operation` |
| `pc, job, base, step, plan, todo, cancelled` | the locals of the operation of a caller: the next await, kind and mode, `StateOperation::expected_revision`, model calls made, the checkpoint it works on, approved calls not started, its interrupt token |
| `orphans` | saves whose future was dropped and that the SQLite worker may still execute |
| `fenced, invoked, acked, asked` | history: checkpoints that were durable, tools invoked with key, claim and caller, messages reported as saved, interrupts since the operation began |

One action is what happens between two awaits. The recovery operations go
`start -> (setup) -> persist -> invoke* -> record -> (commit) -> hooks -> model`,
and the two modes differ where the code does: a non-streaming resume replaces
memory, appends the observation, runs the hooks and only then clears the
checkpoint (`RecordResults`, `Continue`); a recovery stream does all of it in
one replacement that it saves before the hooks (`RecordAndClear`, `Commit`).
`resolve` (call mode) has no hooks before `record`; an `approved = {}` resume
has no execution checkpoint. Every other outcome of an operation goes through
`finish` (`finish_state_operation`), except a refused recovery stream, which is
dropped without a save.

A message is a kind and an id; the kind of a message with tool calls is the
state of the calls (`asking`, `finished`, `pending`), because that is what
`validate_checkpoint_message` compares. A UUID is a number never used before.
What may go wrong is selected by `Disruptions`, so that a run explores some of
them deeply; the proofs allow all of them.

### DispatchLedger and SequentialCheckpoint

`DispatchLedger` is the abstract promise of every checkpointed pipeline: a unit
of work is claimed, dispatched and settled, dispatched at most once and only
after the units it needs are settled. `SequentialCheckpoint` is
`SequentialPipeline` with a store: `run`, `resume` and `reconcile` in both
forms, several callers, several processes. It implements the ledger with
`phase` read off the stored checkpoint (`DispatchedOnce == Ledger!Spec`). The
ledger allows a dispatch of a unit that is already settled: the code does that,
when a claimed stage is reconciled by hand before the slow run that claimed it
calls its agent.

A reply is a number never used before; handing it on keeps the number. `try_lock`
failing is `Busy`, and `Refuse` covers every early return before the first save.

`store` holds one record with its `revision`; `record[c]` is the local
`PipelineRecord`; `runs`, `inputs` and `announced` are history.

### ParallelCheckpoint

`ParallelPipeline` with a store. A caller commits *InFlight* for one queued
branch after the other until its concurrency limit is reached (`Claim`,
`HasRoom`), polls the claimed branches together (`Dispatch`, `BranchEnds`) and
commits the outcome of each, in the order in which they end (`Commit`).
Branches are polled in one place only, the `select!` of `execute_checkpointed`,
so while a claim or an outcome is being saved none of them moves; a save that
fails or conflicts ends the run and drops the other branches, claimed or
running. `started[c]` are the branches the run of `c` is polling. The outcome of
a branch is *who recorded it* and whether it is a reply, a failure or a verified
reply of `reconcile`, because that is what the store must not confuse. It
implements DispatchLedger with the branches as independent units.

### RoutedCheckpoint

`RoutedPipeline` with a store, for processes that register different routes
(`Bind`): a checkpoint names a route and an agent, and `Compatible` is
`validate_checkpoint`. The plain `run` and `stream` and the three operations of a
`ModelRouter` hold the same lock and change nothing else (`BeginPlain`,
`Chosen`, `PlainEnds`). Which route a model selects is a choice. The units of the
ledger are the routes and every route but the recorded one is *open*, so the
refinement also says that no route but the recorded one is ever dispatched.
`targets` and `announced` are history. A save whose returned record does not match
what was saved is refused; for the caller that is a save that took effect and
reported a failure (`"ack"`).

### IdempotentTool

Both wrappers that run a tool at most once per idempotency key. A *scope* is the
table of a local wrapper (`Locals`, with its capacity) or the rows of a durable
store for one tool and namespace (`Stores`). A row is absent, ready, uncertain or
completed; a result names the execution or the evidence it comes from, so a
reconciliation may submit an equal result again, or another one; the lock of a local record is derived from `pc` (`Locked`). Locally
the marker *uncertain* is set and the tool is called in one poll, so `Acquire`
leads to `run`; durably `claim`, the call and `complete` are three steps, each of
which may be lost, late or unacknowledged. The owner token of a claim is its
caller. The rows of all scopes together implement DispatchLedger (`OncePerKey`):
absent and ready rows are open, uncertain ones claimed, completed ones settled.
Calls without a key pass straight through and are left out.

### ContextCompaction

Context summaries beside the ordinary operations of the clones of an instance,
bound to a store or not (`bound`, any subset of the instances). `queue[a]` is the
FIFO queue of the tokio RwLock `context_operations`; who holds it is derived from
`pc` (`Holders`): `reply`, `observe` and `resume` read, automatic replies write,
and `compact_context` and `clear_context_summary` use `try_write` (`TryWrite`).
The lock of the binding is taken after it (`Begin`, `Unlocked`).

The text and the fingerprint of a `ContextSummary` are abstracted to the prefix
of the history it covers, so *fingerprint matches* is *is a prefix*. `Prefix` is
what `RecentTurns` drops (`CutAt` of ContextWindow). System messages, which
`RecentTurns` always keeps, are left out here,
as are tool calls that need no confirmation. Whether an automatic reply exceeds
its budget is a choice, and so is what model and summarizer answer. `resume` is
coarse (results are recorded and the checkpoint is cleared in one step); its
details are in AgentSession. Two clones without a store may reply at the same
time: the model then gets the history as it was when its input was remembered
(`held`), with the summary as it is.

`restore` puts back one of the snapshots in `Backups`, each valid in itself. It
takes the read side of `context_operations`, like a reply, and replaces memory
(`Replace`) before it locks and sets checkpoints and summary (`Install`). Between
the two steps an instance is torn: its summary may belong to another history.
`SummaryFits` therefore excuses the restoring operation in *install*, and demands
that a bound instance is whole whenever another operation runs: what a
dropped or failed restore leaves behind is replaced by the stored record. Half of a load,
which installs in the same two steps, is replaced by the next load too, and
`Begin` is one step. Only bound instances restore in the model. Without a
record (`rev = 0`) a bound instance stays torn as well, and `SummaryFits` is false
there (section 4), if the memory in use suspends in `replace`: `SqliteMemory` does,
`InMemoryMemory` does not.

### ContextWindow and ModelRequest

`ContextWindow` holds the definitions that compaction, policy and budget share: turns,
finished turns (`Completed`), valid summaries, and `RecentTurns`. `CutAt` is the
latest start that keeps the last turns and is closed under *results need the turn
of their calls*; the source finds it in one reverse pass. `Dependency` follows the source in looking for the *last*
preceding call with the identifier, since providers use identifiers again.

`ModelRequest` is `prepare_model_request`, one action for each stage that can
fail: `Select` (`summary_projection`, the policy, `ToolResultOffload::project`),
`Augment`, `ApplyBudget` (`apply_with_pinned_prefix`), the hook and `Encode`.

| State | Code |
|---|---|
| `session` | history, length of the covered prefix, turns of the policy |
| `request`, `pinned` | the messages under construction and how many at their beginning are pinned: system prompt, summary, augmentations |
| `pc`, `outcome` | the stage, and how the call ended |

A message has a kind, an identifier and a size, and a token counter is any sum
of sizes: what the count depends on is left out, what the budget does with it
is not. Offloading looks at sizes only (`Long`): the results of the model are
successful, in text, and no pages of the offload's reader. `Encode` hands the
messages over; that it can fail is modelled, the JSON is not. The model assumes of sessions what the agent guarantees: the calls of a
message are answered together by one later message, whatever is observed between,
and system messages carry no tool results.

### ChatStream

One model call from the encoded request to the response; it extends ModelRequest,
whose `Preparation` it begins with.

| State | Code |
|---|---|
| `mode`, `schema` | `generate` or `stream`, plain or structured output; chosen when the request is sent (`Call`) |
| `retries`, `wait` | the locals of `send_with_retries`; `wait` remembers who asked for the delay |
| `wire`, `arrived` | the body the provider sends, and how much of it has come |
| `buffer`, `decoder` | `SseState`: bytes not yet decoded; pending events, tool calls by index, finish reason, end |
| `acc` | `ChatResponseAccumulator` of `model_step` |

A line of data is one token that carries what its JSON says; carriage returns and line
feeds are tokens, so a chunk may end anywhere around them (`ReceiveChunk`).
`FirstDelimiter`, `ProcessFrame`, `ToolDelta`, `Chunk` and `ProcessEnd` are the
functions of `sse.rs`, `Apply` and `ApplyDelta` those of the accumulator, and
`Factor` and `Delay` those of `retry.rs`, with the width of the shift as a
constant. `Said` (the body up to `[DONE]`), `Spelled` (what its lines say, joined),
`WholeBlocks` and `Decodes` are the reference: `decode_response` of the same answer.
Nothing depends on the cuts, and `stream` and `generate` agree.

Text and arguments are strings of brackets, JSON if they are one pair: enough
to tell whole, cut and doubled arguments apart. `args = <<>>` is a delta without
arguments; one with an empty string of arguments, which the source passes on as an
empty delta, is not told from it. The accumulator adds up the usages of a stream and
so does the reference: a provider that repeats a running total is outside it. Names that are blank and ids that are empty in a complete response are left out.
A provider that gives one call two identifiers, two calls one, or a call the name of
an internal block ("thinking", "content") is in the model, but the blocks of its
answer run into each other, and `CompleteAnswer` claims nothing of it (`Coherent`).

### McpClient

The clones of one `McpClient`, the batch of calls a `ToolExecutor` runs over it in
either mode, a discovery, a close, the reader task, and the server as an
environment that may answer late, twice, wrongly or never, ping, write garbage,
stop reading or exit (external: the repository has only its tests' fixtures). It does
not guess identifiers of requests.

| State | Code |
|---|---|
| `slot`, `lock` | `McpClient::session`, an optional session behind a tokio mutex: *held*, *taken* by the future that holds the lock, *gone* for good |
| `child`, `input`, `stdin`, `stdout` | the process, its shared input, the two pipes |
| `reader`, `responses` | `read_loop`, its channel of bounded capacity |
| `nextId` | `Session::next_id` |
| `pc`, `seen`, `outcome`, `source` | the futures, the cursors of `tools`, what each call returned and (ghost) whose answer it was |
| `open`, `executed`, `noise` | the server: requests read and not answered, calls executed, frames sent unasked |

Dropping a session is one step, `SessionDropped`: the child is killed, the reader
aborted, the channel gone. It happens on every way out of an exchange except a
fitting answer (`Timeout`, `WriteFails`, `ExchangeFails`, `DropFutures`). In the code
the abort takes effect at the reader's next await; a poll under way may still write
a pong into the pipe of the child it is killing, never a request. The lock
of the input is derived: the reader has it while it answers a ping, which a full pipe
can prolong; `Write` and `CloseInput` wait for it, and `close` aborts the reader first.

### Mutations

Operators whose comment begins with *Mutation* are plausible bugs: they are not used
by the specifications. Replacing the operator they name by one of them
violates the property listed with them in `PROJECT.json`.

## 3. Runs

`tlc -config <run>.cfg MC<component>` (`McpClient` without the prefix); every run
finishes within two or three minutes.

| Run | Instance | Shows |
|---|---|---|
| `AgentSession_recovery` | 2 instances, a paused session; resume, retry, resolve, observe; failing saves, hooks and memory, restarts, uncertain tools | `FencedFirst`, `OncePerClaim`, `EffectsAccounted`, `AnsweredOnce`, `HistoryGrows` |
| `AgentSession_drops` | 2 instances, a paused session; resume, retry, observe; dropped futures, late saves, lost acknowledgements | the inductive invariant `FenceInv`, `OneKeyPerCall`, `CheckpointMatchesHistory`, `SessionLoadable`, `AckedIsDurable` |
| `AgentSession_fresh` | 2 callers of one instance from an empty store, four kinds of operations; restarts, failing saves and memory, interrupts; `FairSpec` | `AckedIsDurable`, and `OperationsReturn` |
| `SequentialCheckpoint` | 3 stages, 2 processes, 3 callers, 4 operations, every disruption | `LedgerInv`, `ChainIntact`, `AnnouncedIsDurable` and the refinement `DispatchedOnce` |
| `ParallelCheckpoint` | 3 branches, 2 processes with limits 2 and 1, 3 callers, 3 operations, every disruption | `LedgerInv`, `AnnouncedIsDurable`, `UncertainBounded` and the refinement `DispatchedOnce` |
| `RoutedCheckpoint` | 3 routes, 2 agents, 2 processes that agree about one route, 3 callers, 4 operations, every disruption | `LedgerInv`, `BoundTarget`, `AnnouncedIsDurable` and the refinement `DispatchedOnce` |
| `IdempotentTool` | a local table with room for one of two keys and a durable store, 2 inputs, 2 callers, 3 operations, every disruption | `OneAnswer`, `TableBounded`, the refinement `OncePerKey`, and `CallsReturn` |
| `ContextCompaction` | 2 clones of an instance, with and without a store, 2 operations on each of 3 sessions, every disruption | `SummaryFits`, `Undisturbed`, `SavesApart`, and `OperationsReturn` |
| `McpClient` | a batch of 2 calls in both modes, a connect, a discovery and a close by other clones; a server that does everything listed above | `ConnectionInv`, `DefiniteMeansSettled`, `NothingAfterDoubt`, and `OperationsReturn` |
| `ChatStream` | 4,224 sessions of up to 7 messages, with every valid summary and under three policies; 475 bodies in every cut; 4 retries under a factor of 2 bits; every failure | `RequestWhole`, `ChunkingIrrelevant`, `CompleteAnswer`, `RetryDiscipline` |
| `AgentSession_bricked`, `AgentSession_interrupt` | one instance | violations, see section 5 |

The type invariant is a part of the main invariant of its module (`LedgerInv`,
`OneAnswer`, `SummaryFits`, `ConnectionInv`, `ChunkingIrrelevant`), and proved
on its own for every module (ModelRequest as a part of ChatStream).

**Why these bounds.** `MaxOps` and `MaxCalls` bound the operations of a
behaviour, and nothing else is unbounded: every operation is finite, so revision
and ids are. The hazards need at most three
operations that overlap or follow each other: one that pauses or loses its save,
one that recovers, one that meets the leftovers of both. Two instances suffice for
conflicts on a revision, since a save that fails does so against *one* other
writer. One or two calls suffice because a checkpoint treats its approved calls
alike; `Invoke` picks them in any order. `MaxSteps = 2` reaches
`MaxStepsExceeded` after a recovery. Three
stages give a first, a middle and a last one; four operations allow a run, a
resume, a reconciliation and one more resume that races with them. Three branches
under a limit of two leave one queued while two are active, and the other process,
with a limit of one, resumes it. Three routes cover one that both processes know,
one they bind differently and one that only one of them knows. Two callers of one
key are the call and its duplicate; a third operation reconciles it or asks for
the second key, for which the table has no room.

In McpClient two calls are the one that holds the session and the one that queues
for it; pipe and channel hold one frame (8 responses in the code), so that both
fill up; `MaxNoise = 1` unasked frame is a duplicate, a ping, a notification or a
malformed frame, at any time. One cursor and two pages cover a further page, a repeated cursor
and the limit. In ChatStream seven messages hold three turns with calls whose identifiers may
collide, an interjection between calls and results and one system message; `Limit = 7`
lets some of them fit, some be trimmed and some fail. The bodies are all pairs of
ten chunks with every end, all bodies cut off at any point, and mixed delimiters; deltas of
one call spread over three frames. Two bits make the factor saturate at the second
of four retries.

`PausedSpec` starts from a session that one `reply` has paused and saved, a
state that `Spec` reaches in one operation (`Call`, `Begin`, `AcceptReply`,
`PauseForConfirmation`, `Finish`): the operations of the bound are then spent on
the recovery. For the same reason `SettledSpec` of MCContextCompaction starts from
three sessions that earlier operations reach: two finished turns, three of which
the first is summarized, and a finished turn before a pause. From there two
operations suffice for a compaction to meet each of the others. Both initial conditions
imply the `Restart` of their module, from which the theorems about `RestartSpec` start, so
that these say of every number of operations what the runs show for a few.

`SessionLoadable` and `CheckpointMatchesHistory` are stated of `AgentSession_drops`, which
has no failing hooks or memory: with them they are false (section 5). They
do hold when futures are dropped, because the state that a dropped operation
leaves behind is replaced by the stored one when the next operation begins. That
argument needs a stored record, which `AgentSession_drops` starts with.
`OneKeyPerCall` is checked in `AgentSession_drops`, where saves of dropped futures
make it hard. The proofs make no such selection: each theorem allows all disruptions that
its hypotheses do not name.

**Symmetry.** Calls are interchangeable, as are the callers of one instance or
pipeline, and two instances together with their callers. The runs with a liveness
property use none (`AgentSession_fresh`, `IdempotentTool`, `ContextCompaction`, `McpClient`),
nor does `ChatStream`.

**Deadlock** is not looked for: a behaviour ends when the bound on
operations is used up, in ChatStream with its one call, and in McpClient when all
futures have returned and the child is dead (in `AgentSession_recovery` a process
may always restart). That nobody waits for ever is
`OperationsReturn` and `CallsReturn`.

**Fairness.** `FairSpec` assumes that the executor polls every live operation
and that the calls an operation awaits (store, model, tools, hooks) return:
weak fairness of `Progress(o)`. `Begin` waits for a tokio mutex, which is enabled
again and again but not continuously while other clones take it; tokio serves
the waiters in order, hence strong fairness of `Start(o)`. In ContextCompaction the queue of the RwLock
is part of the model, so its `Grant` needs weak fairness only, and `Begin` is
strongly fair for the lock of the binding. In IdempotentTool the lock of a record
is a tokio mutex too (`Acquire`), and steps of an operation are strongly fair. The caller is
not assumed to start anything, nothing is assumed of interrupts, crashes or drops.
In McpClient the futures are polled, so that their deadlines pass and `close`
goes on, and a killed process ends; the server need not do anything, nor the
reader. `OperationsReturn` then says that the deadlines cover every wait, the one for the
input that the reader has locked included.

## 4. Proofs

`tlapm M.tla` checks every leaf of a proof module `M`:

| Module | About |
|---|---|
| `AgentSession_proofs` | AgentSession |
| `SequentialCheckpoint_proofs`, `ParallelCheckpoint_proofs`, `RoutedCheckpoint_proofs` | the pipelines |
| `IdempotentTool_proofs` | IdempotentTool |
| `ContextCompaction_proofs` | ContextCompaction, with the definitions of ContextWindow |
| `McpClient_proofs` | McpClient |
| `ChatStream_proofs` | ChatStream and ModelRequest, with the definitions of ContextWindow |

The theorems hold for all values of the constants that satisfy the named
assumptions of the modules (`SessionAssumption`, `SequenceAssumption`, ...), which
TLC evaluates for the instances. The bounds on the number of operations
may be any numbers. Every module begins with `TypeCorrect`: `Spec => []TypeOK`.

All of the invariants have one idea in common. The compare-and-swap of the stores
means that what is committed was prepared against the record it replaces, however
long ago: by a running operation, by one whose save is repeated by
`finish`, by a future that was dropped while its save was on the way, or by one whose
acknowledgement was lost. Each inductive invariant therefore says what every
state looks like whose compare-and-swap *can still succeed*, in an operation or an
orphan. Nobody expects a future revision, so a commit makes all the others
fail, and nothing needs to be said about them.

**AgentSession_proofs**

- `Fencing`: `Spec => []FenceInv`, the inductive invariant.
- `OneKey`: `Spec => []OneKeyPerCall`.
- `DurableFirst`: `Spec => []FencedFirst`.

`OneKeyPerCall` is not inductive. Two invocations for one reply with different keys
would need two execution checkpoints of it to become durable. `FenceInv` says that each state
whose compare-and-swap could still succeed (`base = store.rev`) is
`Committable`: what it awaits is unfenced or is the
fenced execution itself (`CommitsHarmless`). Around it: an operation that runs holds the lock of
its instance, so that its view does not change under it (`LockHeld`); nobody
expects a future revision (`RevisionsKnown`); a state never awaits two things and names
only ids that were handed out (`StatesWellFormed`); a reply is fenced once
(`FencedOnce`); and what the places of a recovery know about their plan
(`PlansHeld`), which carries the fact to `Invoke` (`FencedFirst`).
The actions fall into three kinds, each with a lemma: steps that leave the store
alone (`LocalStep`), that return (`ReturnStep`), and commits (`CommitStep`).

The second half of the module is about the history:

- `OneOwner`: `Spec => OncePerClaim`. It follows from `ClaimInv`: claims are revisions
  of the past, no two operations are about to invoke under the same one, and what an
  operation has left to do under its claim nobody has done under it.
- `EffectsKept`, `AnsweredOnceHolds`, `AckedStays`: `Spec => []EffectsAccounted`,
  `[]AnsweredOnce`, `[]AckedIsDurable`.
- `NoLostUpdate`: `Spec => HistoryGrows`.
- `RestartSafe`: agents that start over a record that agents of the same
  configuration left (`RestartSpec`) have all of these, as well as `OneKeyPerCall` and
  `FencedFirst`. The runs of PausedSpec begin in such a state, which TLC evaluates
  (`PausedInit` implies `Restart`).
- `LoadsAgain`: `SessionLoadable` and `CheckpointMatchesHistory` when hooks and memory do not fail
  (`Dependable`) and nothing is dropped; `LoadsAgainAfterRestart`: over a stored record
  with drops and late saves as well.

`HistoryInv` orders the histories. `Follows(new, old)`: new extends old, message by
message, and changes nothing but that awaited calls get finished. Every state that
may still be committed follows the stored one, every history is `Orderly` (ids are
handed out once, results come once and after their calls), and `CallsHeld` says what an operation
knows between its reading of a checkpoint and its results. What was fenced
is still awaited or has its results; together with `FencedFirst` this accounts for
every effect.

The hypotheses of the last two theorems are needed: a failing hook or memory is the violation of
`AgentSession_bricked`, and a future that is dropped before the first record leaves
half-recorded results in an instance that no load replaces. `WholeInv` has the
latter as its first conjunct.

**SequentialCheckpoint_proofs, ParallelCheckpoint_proofs, RoutedCheckpoint_proofs**

- `Bookkeeping`: `Spec => []LedgerInv`, the inductive invariant.
- `ImplementsLedger`: `Spec => DispatchedOnce`, the refinement of DispatchLedger.
- `AnnouncedStays`: `Spec => []AnnouncedIsDurable`.
- Sequential `ChainHolds`: `[]ChainIntact`; parallel `UncertainHolds`:
  `[]UncertainBounded`; routed `BoundTargetHolds`: `[]BoundTarget`.

Every checkpoint whose compare-and-swap can still
succeed is a legal successor of the stored one (`SavesLegal`), so a commit
is a stutter, a claim or a settlement of the ledger, and never takes
back a recorded reply. What a caller between claim and dispatch may rely on although the store has
moved on is `StageHeld` (`WaitingHeld` for branches, of which one caller has several): the unit
is not open, its agent has not been called, no other caller has the same
unit, and its input, or its target, is the recorded one. `UncertainBounded` needs `LimitInv`: the limit bounds the
checkpoints that may still be saved, and a caller keeps the room it saw until
its claim is saved; its proof counts branches with the library's facts about cardinalities.

**IdempotentTool_proofs**

- `ImplementsLedger`: `Spec => OncePerKey`.
- `OneAnswerHolds`, `TableHolds`: `Spec => []OneAnswer`, `Spec => []TableBounded`.

`OnceInv` says that callers in the tool have an uncertain or completed row with
their own input, that no two of them have the same one
(`ExecutionsApart`), that a row is never forgotten once its key was executed
(`RunsBooked`), and what the requests of dropped futures carry. A key that is
executed is executed by nobody else, because its row became *uncertain* from *absent*
or *ready*, in one poll or one transaction, and nothing leads back there.

**ContextCompaction_proofs**

- `LocksKept`: `Spec => []LockInv`.
- `SavesKeptApart`: `Spec => SavesApart`, with every disruption.
- `SummariesKept`: `Spec => [](SummaryFits /\ Undisturbed)` if nothing is dropped or
  no snapshot is restored.
- `SummariesKeptAfterRestart`, `SavesKeptApartAfterRestart`: all of the three properties with every
  disruption for agents that start over a stored record (`RestartSpec`); SettledSpec
  starts from such states.

Three invariants rest on each other. `LockInv`: a writer holds `context_operations`
alone, and operations that run together share an instance without a store;
thus nobody changes the state that a compaction works on. `SaveInv`:
what an operation whose save can still succeed has made of the
stored state (`SaveHeld`). `FitsInv`: summaries fit what they are sent, saved or
installed with. The argument about the data is `CutAtUser`: `RecentTurns` cuts at the
first message or at one of the user's, so what compaction summarizes is a prefix
that ends where a turn ends (`PrefixFits`); and a summary survives whatever is appended (`ValidAppend`).

The hypothesis of `SummariesKept` is needed. When the save of a first restore fails and a second one is
dropped between messages and summary, an instance without a stored
record is torn, and the next operation works on it: TLC finds this behaviour of
`Spec`, and it is why `FitsInv` begins with a conjunct about the record.

**McpClient_proofs**

- `ConnectionSound`: `Spec => []ConnectionInv`.
- `DefiniteHolds`: `Spec => []DefiniteMeansSettled`.
- `NothingFollowsDoubt`: `Spec => NothingAfterDoubt`.

`McpInv` has five parts besides the types: the session is out of the slot for exactly the actor
that holds the lock (`LockInv`); a session that is gone leaves nothing
that could still send a request or deliver an answer (`GoneInv`); at most one request is between the client and its
answer, and its identifier is the last one (`RequestInv`), which is why a late
answer never fits another request; what was executed was read once, in order
(`ExecInv`); and outcomes are given by futures that are done (`OutcomeInv`). A call that is
given up inside an exchange takes the session with it, so nothing is written after it.

**ChatStream_proofs**

- `RequestsWhole`: `Spec => []RequestWhole`.
- `RetriesDisciplined`: `Spec => RetryDiscipline`.
- `BodyCutsIrrelevant`: `Spec => []ChunkingIrrelevant`.
- `AnswersComplete`: `Spec => []CompleteAnswer`.

These compare what folds and recursive functions compute, for every history, body and
cut. The library's induction theorems cannot be applied by the provers (they take an
operator), so the module has its own, about sets: `Induct`, that a set
of numbers with 0 and with n + 1 for each n of it is Nat, because there is no least
number outside of it; and `MessageInduct`, the same of conversations. A fold is, by its definition in the
community modules, the value of a function on the sets of indices; `IteratedAppend` and
`IteratedTyped` make it a step for each element.

*The request.* `RequestInv` follows the request through the stages: pinned messages and
what the policy keeps, then also the additions, then `RequestWhole`. The work is in the lemmas
about `RecentTurns`. `CutIs` says where it cuts, for every conversation: at the beginning
or at a turn, not after the last turns, where no result is apart from its call, and
nowhere earlier if the last turns allow it. Offloading changes neither turns nor cuts
(`AlikeCut`, `OffloadedFrom`). The budget cuts again what the policy
has cut; there messages stand at other places, because the system messages of what
was dropped are gathered at the front, and `FromUsers`, `FromApart` and `FromFrom` carry turns, calls and a
second cut back to the whole conversation. `TrimKeeps` puts this together: a turn that the
budget drops would not have fitted.

*The retries.* `SendInv` says that nothing of an answer has been seen while requests are
sent, and that the last delay of the policy is that of the last retry.
`DelayGrows` covers the saturated factor.

*The stream.* `StreamInv`: while a stream is read, the frames still to come, those of the
buffer and of the rest of the body, are the last frames of the body; and what the decoder has
said of the others is what the accumulator has been told followed by what is pending.
Receiving a chunk keeps the first fact by definition, taking a frame because a
delimiter that is found stays the first one when more arrives. The decoder does not look at its pending
events, so it says the same after any part of them has been delivered (`With`).

*The answer.* By the invariant of the stream, a finished stream has been told the events
of the whole body, so what is left is about data: those events, applied one by one,
make the message that `Spelled` reads off the lines. `Matches` says of accumulator and
decoder that what has been told is the message of the first tokens: its blocks so
far, its usage, its reason, the calls known by index. A chunk keeps it (`ChunkStep`: thought,
content, usage, reason, and the tool deltas by an induction over them, `ToldMatches`); a
frame keeps it with the tokens it takes from the body (`FrameStep`); and the frames
are the tokens of the body in order, without the delimiters (`NextFrame`, and
`Follows` by induction over the frames). `DoneStep` and the end of the body then decide: `Right`, the response is the message, or
`Wrong`, the body does not decode or contradicts itself. `Decided` carries this
through the steps of the specification; only the ends of a stream can disturb it.

The proofs changed the model in four places: `FinishReason` and `Apply` were CASE
expressions with arms that overlap, which TLA+ leaves undetermined although TLC takes the first;
they are IF expressions now. `WholeTurns` counts what is said before any turn as a part of the first (`Begin`), because
the proof showed that the budget may keep it or drop it with that turn only; the run has sessions
that begin with answers, where this matters. The reference of `CompleteAnswer` selected
and concatenated lines; it is a fold now, in the order of the body. And the premise
`Coherent` is stated: the proof of the tool deltas fails without it, where a delta under
one identifier extends the block of another call.

**Only model-checked.** Liveness (`OperationsReturn`, `CallsReturn`), which is outside
of the prover's logic. Every safety invariant, action property and refinement that a
passing run checks is proved.

## 5. Disagreements between code and documentation

1. **A failing `AfterToolCall` hook leaves a session that cannot be loaded**
   (`AgentSession_bricked`). `resume_tool_calls` and `resolve` mark the calls
   `Finished` in memory, run the hooks, and only then clear the checkpoint. When
   a hook fails, `finish_state_operation` saves the checkpoint (calls `Asking`)
   beside the history (calls `Finished`), and `validate_state` rejects that in every later
   operation. The stream form says why it avoids this: "One atomic replacement
   keeps checkpoints and observations consistent even when a later hook fails."
   (`src/agent/react/recovery_stream.rs:262-263`).
2. **An interrupt is lost** (`AgentSession_interrupt`). "Each operation captures the current
   signal generation when it starts" (`src/agent/interrupt.rs:7-9`); `resume` captures its token after the
   hooks, `retry` and `resolve` capture another one when they continue.

Three remarks that no run is about. `README.md:76-77` says that a paused agent "rejects
unrelated messages while paused": `reply` does, `observe` appends them, and the
context policies are prepared for it. `restore` is documented to restore
"atomically", which a future that is dropped between `memory.replace` and the locks
does not (section 2, ContextCompaction). `RecentTurns` moves its start back while
it walks back, so a system message with a tool result would move it behind messages
it has already passed over; the agent writes no such message.

## 6. Left out, and the plan

Left out of the modelled parts: message text, tool inputs and results, JSON;
`delete` of a record (no agent or pipeline operation calls it); events as such
(their state changes are there).

Not modelled, and why:

- *Agents without a store* (except in ContextCompaction): their clones share no
  lock across an operation and nothing is durable; what they may rely on is not stated anywhere.
- *Plain `run` and `stream` of the pipelines*: a chain, a join and a choice of agent calls
  without state of their own. As holders of the lock they are in RoutedCheckpoint.
- *Slots and the decoding of a model's selection*, JSON schemas, wire formats: data.
- *The file store of offloaded results and its reading tool*: files named by their
  content and written once, and arithmetic on byte ranges within one call.
- *Registration of tools*: a map that is filled before the agent runs. *Streaming tool results*: a
  type without a producer in the repository.
- *The order of emitted events*: the same in every execution of a handler, apart from
  what the state changes in the models already say.
- *The chat example*.

Planned:

1. A composition of AgentSession and IdempotentTool: with one key per call and an
   idempotent tool, a confirmed call takes effect at most once; its proof would join
   `OneKey` and `ImplementsLedger`. Error codes: `reconcile` of the SQLite store turns
   away `idempotency_in_doubt`, not every result in doubt.
