--------------------------- MODULE IdempotentTool ---------------------------
(***************************************************************************)
(* The two wrappers that run a tool at most once per idempotency key:      *)
(* IdempotentTool, with a bounded table in memory that its clones share,   *)
(* and PersistentIdempotentTool, with an IdempotencyStore that several     *)
(* processes share.  A scope is one such table: a local wrapper, or the    *)
(* store of a tool in a namespace.                                         *)
(*                                                                         *)
(* Code: src/tool/idempotent.rs, src/tool/idempotency.rs,                  *)
(* plugins/agentscope-idempotency-sqlite/src/lib.rs.                       *)
(***************************************************************************)
EXTENDS Naturals, FiniteSets

CONSTANTS
    Locals,       \* scopes of IdempotentTool
    Stores,       \* scopes of PersistentIdempotentTool
    Capacity,     \* Capacity[s]: records of the local scope s
    Keys,         \* idempotency keys
    Inputs,       \* requests: input and context
    Callers,      \* each runs one operation at a time
    None,         \* neither a caller nor an input
    MaxCalls,     \* bound: operations started in one behaviour
    Disruptions   \* what may go wrong, see AllDisruptions

AllDisruptions ==
    {"store",     \* an access to the store fails and has no effect
     "ack",       \* an access takes effect but reports a failure
     "late",      \* what a dropped future asked of the store happens later, or never
     "drop",      \* the caller drops its future, or its process stops
     "doubt"}     \* the tool does not know its outcome

Scopes == Locals \cup Stores

ASSUME IdempotencyAssumption ==
    /\ Locals \cap Stores = {}
    /\ Capacity \in [Locals -> Nat]
    /\ None \notin Callers \cup Inputs
    /\ MaxCalls \in Nat
    /\ Disruptions \subseteq AllDisruptions

-----------------------------------------------------------------------------
(* Data.  A terminal result, success or error, comes from the execution of  *)
(* a caller ("done"), or from an application that verified it with some      *)
(* caller's evidence ("verified").                                           *)

Result == [kind : {"done", "verified"}, by : Callers]
NoResult == [kind |-> "none", by |-> None]
Row ==
    {row \in [phase : {"absent", "ready", "uncertain", "completed"},
              input : Inputs \cup {None}, owner : Callers \cup {None},
              result : Result \cup {NoResult}] :
        /\ row.input = None <=> row.phase = "absent"
        /\ row.result = NoResult <=> row.phase # "completed"}
NoRow == [phase |-> "absent", input |-> None, owner |-> None, result |-> NoResult]
Call == [scope : Scopes, key : Keys, input : Inputs, result : Result \cup {NoResult}]

-----------------------------------------------------------------------------
VARIABLES
    rows,       \* rows[s][k]: the record of key k in scope s
    orphans,    \* requests of dropped futures that may still reach the store
    pc,         \* per caller: the next await of its operation
    call,       \* per caller: what it asked for, and the result at hand
    called,     \* operations started
    \* history variables
    runs,       \* runs[<<s, k>>]: how often the tool has been executed
    answers     \* terminal results that were returned

vars == <<rows, orphans, pc, call, called, runs, answers>>

PCs == {"idle", "wait", "claim", "run", "running", "complete", "reconcile"}

TypeOK ==
    /\ rows \in [Scopes -> [Keys -> Row]]
    /\ orphans \subseteq [caller : Callers, kind : {"claim", "complete", "reconcile"},
                          call : Call]
    /\ pc \in [Callers -> PCs]
    /\ call \in [Callers -> Call \cup {None}]
    /\ \A c \in Callers : pc[c] # "idle" => call[c] \in Call
    /\ called \in Nat
    /\ runs \in [Scopes \X Keys -> Nat]
    /\ answers \subseteq Call

Init ==
    /\ rows = [s \in Scopes |-> [k \in Keys |-> NoRow]]
    /\ orphans = {}
    /\ pc = [c \in Callers |-> "idle"]
    /\ call = [c \in Callers |-> None]
    /\ called = 0
    /\ runs = [u \in Scopes \X Keys |-> 0]
    /\ answers = {}

-----------------------------------------------------------------------------
(* Building blocks of the actions.                                          *)

RowOf(r) == rows[r.scope][r.key]
SetRow(r, row) == rows' = [rows EXCEPT ![r.scope][r.key] = row]
Goto(c, where) == pc' = [pc EXCEPT ![c] = where]

\* The operation returns something that is no terminal result.
Fails(c) ==
    /\ Goto(c, "idle")
    /\ call' = [call EXCEPT ![c] = None]
    /\ UNCHANGED answers

\* The operation returns the given terminal result.
Answers(c, result) ==
    /\ Goto(c, "idle")
    /\ call' = [call EXCEPT ![c] = None]
    /\ answers' = answers \cup {[call[c] EXCEPT !.result = result]}

\* Mutation of Full: one record too many.
OverFull(s) == Cardinality({k \in Keys : rows[s][k] # NoRow}) > Capacity[s]
Full(s) == Cardinality({k \in Keys : rows[s][k] # NoRow}) >= Capacity[s]

\* IdempotentTool: an execution holds the lock of its record.
Locked(r) ==
    \E d \in Callers :
        /\ pc[d] \in {"run", "running"}
        /\ call[d].scope = r.scope /\ call[d].key = r.key

\* Begin an operation at the given place.
Ask(c, where, r) ==
    /\ pc[c] = "idle"
    /\ called < MaxCalls
    /\ called' = called + 1
    /\ Goto(c, where)
    /\ call' = [call EXCEPT ![c] = r]

-----------------------------------------------------------------------------
(* IdempotentTool::execute.                                                  *)

\* record(): the record of the key is found, or made while there is room.
Lookup(c, r) ==
    /\ \/ /\ RowOf(r) = NoRow
          /\ ~Full(r.scope)
          /\ SetRow(r, [NoRow EXCEPT !.phase = "ready", !.input = r.input])
       \/ /\ RowOf(r).input = r.input
          /\ UNCHANGED rows
    /\ Ask(c, "wait", r)
    /\ UNCHANGED <<orphans, runs, answers>>

\* The key was used with another input, or the table is full.
Refuse(c, r) ==
    /\ IF RowOf(r) = NoRow THEN Full(r.scope) ELSE RowOf(r).input # r.input
    /\ pc[c] = "idle"
    /\ called < MaxCalls
    /\ called' = called + 1
    /\ UNCHANGED <<rows, orphans, pc, call, runs, answers>>

\* Mutation of Acquire: an uncertain record is waited for.
AcquireSettled(c) ==
    /\ pc[c] = "wait"
    /\ ~Locked(call[c])
    /\ LET row == RowOf(call[c])
       IN  \/ /\ row.phase = "completed"
              /\ Answers(c, row.result)
              /\ UNCHANGED rows
           \/ /\ row.phase = "ready"
              /\ SetRow(call[c], [row EXCEPT !.phase = "uncertain"])
              /\ Goto(c, "run")
              /\ UNCHANGED <<call, answers>>
    /\ UNCHANGED <<orphans, called, runs>>

\* Mutation of Acquire: an uncertain record is started again.
AcquireUncertain(c) ==
    /\ pc[c] = "wait"
    /\ ~Locked(call[c])
    /\ LET row == RowOf(call[c])
       IN  IF row.phase = "completed"
           THEN Answers(c, row.result) /\ UNCHANGED rows
           ELSE /\ SetRow(call[c], [row EXCEPT !.phase = "uncertain"])
                /\ Goto(c, "run")
                /\ UNCHANGED <<call, answers>>
    /\ UNCHANGED <<orphans, called, runs>>

\* The lock of the record is taken: a duplicate gets the result, or is told
\* that it is uncertain; the first call marks the record and goes on.
Acquire(c) ==
    /\ pc[c] = "wait"
    /\ ~Locked(call[c])
    /\ LET row == RowOf(call[c])
       IN  \/ /\ row.phase = "completed"
              /\ Answers(c, row.result)
              /\ UNCHANGED rows
           \/ /\ row.phase = "uncertain"
              /\ Fails(c)
              /\ UNCHANGED rows
           \/ /\ row.phase = "ready"
              /\ SetRow(call[c], [row EXCEPT !.phase = "uncertain"])
              /\ Goto(c, "run")
              /\ UNCHANGED <<call, answers>>
    /\ UNCHANGED <<orphans, called, runs>>

\* The record is completed before the lock is released.
Remember(c) ==
    LET result == [kind |-> "done", by |-> c]
    IN  /\ pc[c] = "running"
        /\ call[c].scope \in Locals
        /\ SetRow(call[c], [RowOf(call[c]) EXCEPT !.phase = "completed", !.result = result])
        /\ Answers(c, result)
        /\ UNCHANGED <<orphans, called, runs>>

-----------------------------------------------------------------------------
(* The store: the transactions claim, complete (with the owner token) and   *)
(* reconcile.                                                                *)

\* Mutation of Finishable: a completed result is overwritten.
FinishableAgain(r) == RowOf(r).phase # "absent" /\ RowOf(r).input = r.input

\* finish(): the record exists and has no other result yet.
Finishable(r) ==
    /\ RowOf(r).phase # "absent"
    /\ RowOf(r).input = r.input
    /\ RowOf(r).phase = "completed" => RowOf(r).result = r.result

\* The store accepts the request r of caller c.
Accepts(kind, c, r) ==
    CASE kind = "claim" -> RowOf(r) = NoRow
      [] kind = "complete" -> RowOf(r).owner = c /\ Finishable(r)
      [] kind = "reconcile" -> Finishable(r)

\* The transaction commits.
Takes(kind, c, r) ==
    /\ Accepts(kind, c, r)
    /\ IF kind = "claim"
       THEN SetRow(r, [NoRow EXCEPT !.phase = "uncertain", !.input = r.input, !.owner = c])
       ELSE SetRow(r, [RowOf(r) EXCEPT !.phase = "completed", !.result = r.result])

-----------------------------------------------------------------------------
(* PersistentIdempotentTool::execute, and reconcile by the application.      *)

BeginClaim(c, r) ==
    /\ Ask(c, "claim", r)
    /\ UNCHANGED <<rows, orphans, runs, answers>>

\* The verified result may be the one submitted before, or another one.
BeginReconcile(c, r) ==
    /\ \E d \in Callers :
          Ask(c, "reconcile", [r EXCEPT !.result = [kind |-> "verified", by |-> d]])
    /\ UNCHANGED <<rows, orphans, runs, answers>>

\* Acquired
Claim(c) ==
    /\ pc[c] = "claim"
    /\ Takes("claim", c, call[c])
    /\ Goto(c, "run")
    /\ UNCHANGED <<orphans, call, called, runs, answers>>

\* Completed; InDoubt; or another input.
ClaimKnown(c) ==
    /\ pc[c] = "claim"
    /\ LET row == RowOf(call[c])
       IN  /\ row # NoRow
           /\ IF row.input = call[c].input /\ row.phase = "completed"
              THEN Answers(c, row.result)
              ELSE Fails(c)
    /\ UNCHANGED <<rows, orphans, called, runs>>

\* The terminal result goes to the store before it is returned.
HandIn(c) ==
    /\ pc[c] = "running"
    /\ call[c].scope \in Stores
    /\ call' = [call EXCEPT ![c].result = [kind |-> "done", by |-> c]]
    /\ Goto(c, "complete")
    /\ UNCHANGED <<rows, orphans, called, runs, answers>>

Finish(c) ==
    /\ pc[c] \in {"complete", "reconcile"}
    /\ Takes(pc[c], c, call[c])
    /\ Answers(c, call[c].result)
    /\ UNCHANGED <<orphans, called, runs>>

\* The store refuses the request, or fails before or after its commit.
StoreFails(c) ==
    /\ pc[c] \in {"claim", "complete", "reconcile"}
    /\ \/ /\ \/ "store" \in Disruptions
             \/ pc[c] # "claim" /\ ~Accepts(pc[c], c, call[c])
          /\ UNCHANGED rows
       \/ "ack" \in Disruptions /\ Takes(pc[c], c, call[c])
    /\ Fails(c)
    /\ UNCHANGED <<orphans, called, runs>>

-----------------------------------------------------------------------------
(* The tool, for both wrappers.                                             *)

Run(c) ==
    /\ pc[c] = "run"
    /\ runs' = [runs EXCEPT ![<<call[c].scope, call[c].key>>] = @ + 1]
    /\ Goto(c, "running")
    /\ UNCHANGED <<rows, orphans, call, called, answers>>

\* The tool returns an error that is in doubt: the record stays uncertain.
Doubt(c) ==
    /\ "doubt" \in Disruptions
    /\ pc[c] = "running"
    /\ Fails(c)
    /\ UNCHANGED <<rows, orphans, called, runs>>

\* The marker of a local record and the call of the tool share one poll.
Drop(c) ==
    /\ "drop" \in Disruptions
    /\ pc[c] # "idle"
    /\ ~(pc[c] = "run" /\ call[c].scope \in Locals)
    /\ \/ UNCHANGED orphans
       \/ /\ "late" \in Disruptions
          /\ pc[c] \in {"claim", "complete", "reconcile"}
          /\ orphans' = orphans \cup {[caller |-> c, kind |-> pc[c], call |-> call[c]]}
    /\ Fails(c)
    /\ UNCHANGED <<rows, called, runs>>

OrphanCommits(w) ==
    /\ w \in orphans
    /\ orphans' = orphans \ {w}
    /\ Takes(w.kind, w.caller, w.call)
    /\ UNCHANGED <<pc, call, called, runs, answers>>

OrphanLost(w) ==
    /\ w \in orphans
    /\ orphans' = orphans \ {w}
    /\ UNCHANGED <<rows, pc, call, called, runs, answers>>

-----------------------------------------------------------------------------
Request(scopes) ==
    [scope : scopes, key : Keys, input : Inputs, result : {NoResult}]

\* What the executor does for a running operation.
Progress(c) ==
    \/ Acquire(c) \/ Remember(c)
    \/ Claim(c) \/ ClaimKnown(c) \/ HandIn(c) \/ Finish(c) \/ StoreFails(c)
    \/ Run(c) \/ Doubt(c)

Next ==
    \/ \E c \in Callers :
          \/ \E r \in Request(Locals) : Lookup(c, r) \/ Refuse(c, r)
          \/ \E r \in Request(Stores) : BeginClaim(c, r) \/ BeginReconcile(c, r)
          \/ Progress(c) \/ Drop(c)
    \/ \E w \in orphans : OrphanCommits(w) \/ OrphanLost(w)

Spec == Init /\ [][Next]_vars

\* Live futures are polled; the tool and the store return; the lock of a
\* record is granted in turn.
FairSpec == Spec /\ \A c \in Callers : SF_vars(Progress(c))

-----------------------------------------------------------------------------
(* Properties.                                                              *)

Phase ==
    [u \in Scopes \X Keys |->
        IF rows[u[1]][u[2]].phase \in {"absent", "ready"} THEN "open"
        ELSE IF rows[u[1]][u[2]].phase = "uncertain" THEN "claimed"
        ELSE "settled"]

Ledger == INSTANCE DispatchLedger WITH
    Units <- Scopes \X Keys,
    Needs <- [u \in Scopes \X Keys |-> {}],
    phase <- Phase,
    runs <- runs

\* A key is executed at most once and only after it is marked uncertain,
\* whatever is dropped, duplicated, lost or reconciled ("Unfinished claims
\* never expire or rerun").
OncePerKey == Ledger!Spec

\* All terminal results that were returned for a key are one, are the stored
\* one and belong to one input, even if the application reconciles the key
\* while its execution is still running ("Completed results are immutable").
OneAnswer ==
    /\ TypeOK
    /\ \A a \in answers :
        LET row == RowOf(a)
        IN  row.phase = "completed" /\ row.result = a.result /\ row.input = a.input

\* The table of a local wrapper never outgrows its capacity, and no key that
\* was executed is ever forgotten to make room for another ("Records are never
\* evicted": a forgotten key would run again).
TableBounded ==
    \A s \in Locals :
        /\ Cardinality({k \in Keys : rows[s][k] # NoRow}) <= Capacity[s]
        /\ \A k \in Keys : runs[<<s, k>>] # 0 => rows[s][k] # NoRow

\* The inductive invariant behind them: what a caller in the middle of an
\* operation may rely on,
CallerInv(c) ==
    /\ pc[c] = "wait" => call[c].scope \in Locals
    /\ pc[c] \in {"claim", "complete", "reconcile"} => call[c].scope \in Stores
    /\ pc[c] \in {"complete", "reconcile"} => call[c].result \in Result
    /\ pc[c] \in {"wait", "run", "running"} => RowOf(call[c]).input = call[c].input
    /\ pc[c] \in {"run", "running"} =>
          /\ RowOf(call[c]).phase \in {"uncertain", "completed"}
          /\ call[c].scope \in Locals => RowOf(call[c]).phase = "uncertain"
    /\ pc[c] = "run" => runs[<<call[c].scope, call[c].key>>] = 0

\* that no two callers execute the tool for one key,
Executes(c, s, k) ==
    pc[c] \in {"run", "running"} /\ call[c].scope = s /\ call[c].key = k
ExecutionsApart ==
    \A c, d \in Callers, s \in Scopes, k \in Keys :
        Executes(c, s, k) /\ Executes(d, s, k) => c = d

\* what the requests of dropped futures carry,
OrphanInv ==
    \A w \in orphans :
        w.call.scope \in Stores /\ (w.kind # "claim" => w.call.result \in Result)

\* and what the rows say of the executions.
RunsBooked ==
    \A s \in Scopes, k \in Keys :
        /\ runs[<<s, k>>] <= 1
        /\ runs[<<s, k>>] # 0 => rows[s][k].phase \in {"uncertain", "completed"}
        /\ s \in Stores => rows[s][k].phase # "ready"

Used(s) == {k \in Keys : rows[s][k] # NoRow}
OnceInv ==
    /\ OneAnswer
    /\ \A c \in Callers : CallerInv(c)
    /\ ExecutionsApart
    /\ OrphanInv
    /\ RunsBooked
    /\ \A s \in Locals : IsFiniteSet(Used(s)) /\ Cardinality(Used(s)) <= Capacity[s]

\* A duplicate that waits for an execution returns, also when that execution
\* is dropped or in doubt.
CallsReturn == \A c \in Callers : pc[c] # "idle" ~> pc[c] = "idle"
=============================================================================
