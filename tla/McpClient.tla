----------------------------- MODULE McpClient -----------------------------
(* One MCP connection over the standard streams of a child process, shared  *)
(* by the clones of a client (plugins/agentscope-mcp), and the batch of     *)
(* tool calls that a ToolExecutor runs over it (src/tool/executor.rs).      *)
(*                                                                          *)
(* The session lives in a slot behind a lock.  A request takes it out,      *)
(* writes one frame, waits for one response and puts it back; whatever goes *)
(* wrong in between (a timeout, a transport error, a dropped future) drops  *)
(* the session, which kills the child, and the slot stays empty for good.   *)
(* A reader task turns the output of the child into responses and answers   *)
(* its pings through the same input the requests are written to.            *)
(*                                                                          *)
(* The server is the environment: it may answer late, twice, wrongly or     *)
(* never, exit, or stop reading.  It does not guess request identifiers.    *)
EXTENDS Naturals, Sequences, FiniteSets, Functions

CONSTANTS
    BatchSize,   \* the calls of the batch are 1..BatchSize
    Cursors,     \* cursors of the discovery pages
    MaxPages,    \* pages a discovery may ask for (128)
    ChannelCap,  \* responses the channel of the reader holds (8)
    PipeCap,     \* frames the input pipe of the child holds
    MaxNoise,    \* bound: frames the server sends unasked
    Disruptions  \* what may go wrong, a subset of AllDisruptions

AllDisruptions == {"ping", "note", "again", "bad", "exit", "limit", "drop"}

ASSUME ConstantsAssumption ==
    /\ BatchSize \in Nat /\ MaxPages \in Nat /\ MaxNoise \in Nat
    /\ ChannelCap \in Nat \ {0} /\ PipeCap \in Nat \ {0}
    /\ Disruptions \subseteq AllDisruptions

-----------------------------------------------------------------------------
(* Data.                                                                    *)

\* One actor per future: the connect, the calls of the batch, a discovery
\* and a close by other clones.
Opener == 0
Calls == 1 .. BatchSize
Lister == BatchSize + 1
Closer == BatchSize + 2
Actors == Opener .. Closer
Nobody == Closer + 1

\* What a call returns: the answer of the server (a result, isError or a
\* JSON-RPC error); an error from before the dispatch; ToolError::in_doubt;
\* or nothing, its future being dropped outside or inside the exchange.
Outcomes == {"none", "answered", "not sent", "doubt", "dropped", "abandoned"}

\* What the server can say about a request: "mangled" is neither a result nor
\* an error, and "unusable" a result that the client cannot decode.  A page
\* of the discovery names the next cursor; the last page is "ok".
Bodies(a) == {"ok", "unusable", "mangled"} \cup (IF a = Lister THEN Cursors ELSE {})

Request(a, i) == [kind |-> "request", id |-> i, from |-> a, body |-> "none"]
Frame(kind) == [kind |-> kind, id |-> 0, from |-> Nobody, body |-> "none"]
Frames == [kind: {"request", "answer", "ping", "note", "bad", "reply", "error"},
           id: Nat, from: Actors \cup {Nobody},
           body: {"none"} \cup UNION {Bodies(a) : a \in Actors}]

-----------------------------------------------------------------------------

VARIABLES
    mode,       \* ToolExecutionMode of the batch
    connected,  \* connect has returned the client
    slot,       \* McpClient::session: "held", "taken" by a future, or "gone"
    lock,       \* the actor that holds the lock of the slot, or Nobody
    child,      \* the server: "up", "dying" once killed, "dead"
    input,      \* the child's input: "open" or "closed"
    stdin,      \* frames written to the child and not read by it
    stdout,     \* frames of the child not read by the reader
    reader,     \* the reader task
    responses,  \* the channel from the reader to the requests
    nextId,     \* Session::next_id
    pc,         \* where each actor is
    seen,       \* cursors the discovery has followed
    outcome,    \* what each call returned
    source,     \* ghost: whose answer that was
    open,       \* the server: requests it has read and not answered
    executed,   \* the server: the calls it has executed, in order
    noise       \* the server: frames sent unasked

session == <<slot, lock, child, input, reader, responses>>
server == <<open, executed, noise>>
actors == <<pc, seen, outcome, source>>
vars == <<mode, connected, session, stdin, stdout, nextId, actors, server>>

TypeOK ==
    /\ mode \in {"sequential", "concurrent"} /\ connected \in BOOLEAN
    /\ slot \in {"held", "taken", "gone"} /\ lock \in Actors \cup {Nobody}
    /\ child \in {"up", "dying", "dead"} /\ input \in {"open", "closed"}
    /\ reader \in {"reading", "answering", "failing", "ended"}
    /\ stdin \in Seq(Frames) /\ Len(stdin) <= PipeCap
    /\ stdout \in Seq(Frames)
    /\ responses \in Seq(Frames) /\ Len(responses) <= ChannelCap
    /\ nextId \in Nat \ {0}
    /\ pc \in [Actors -> {"idle", "queued", "sending", "awaiting", "notifying",
                          "aborting", "hanging up", "waiting", "reaping", "done"}]
    /\ seen \subseteq Cursors
    /\ outcome \in [Calls -> Outcomes]
    /\ source \in [Calls -> Actors \cup {Nobody}]
    /\ open \subseteq Frames
    /\ executed \in Seq(Calls) /\ noise \in 0 .. MaxNoise

\* Session::spawn has started the child and connect has queued its request.
Init ==
    /\ mode \in {"sequential", "concurrent"} /\ connected = FALSE
    /\ slot = "held" /\ lock = Nobody /\ child = "up" /\ input = "open"
    /\ stdin = <<>> /\ stdout = <<>> /\ reader = "reading" /\ responses = <<>>
    /\ nextId = 1 /\ seen = {}
    /\ pc = [a \in Actors |-> IF a = Opener THEN "queued" ELSE "idle"]
    /\ outcome = [c \in Calls |-> "none"]
    /\ source = [c \in Calls |-> Nobody]
    /\ open = {} /\ executed = <<>> /\ noise = 0

-----------------------------------------------------------------------------
(* Building blocks.                                                         *)

Moves(a, where) == pc' = [pc EXCEPT ![a] = where]
Ends(a, how) ==
    /\ Moves(a, "done")
    /\ outcome' = [c \in Calls |-> IF c = a THEN how ELSE outcome[c]]

\* Mutation of SessionDropped: the child is not killed.
ChildLeftRunning ==
    /\ slot' = "gone" /\ lock' = Nobody /\ reader' = "ended" /\ responses' = <<>>
    /\ stdout' = <<>> /\ open' = {}
    /\ UNCHANGED <<child, input, stdin>>

\* Session is dropped: the child is killed, the reader is aborted and the
\* channel goes with it.  The child may still read what it was sent, but
\* nobody reads what it says.  (The abort is seen at the reader's next await:
\* a poll under way may finish writing a pong, never a request.)
SessionDropped ==
    /\ slot' = "gone" /\ lock' = Nobody /\ reader' = "ended" /\ responses' = <<>>
    /\ child' = IF child = "up" THEN "dying" ELSE child
    /\ input' = "closed" /\ stdout' = <<>> /\ open' = {}
    /\ UNCHANGED stdin

\* The session goes back into the slot, which is unlocked.
SessionPutBack ==
    /\ slot' = "held" /\ lock' = Nobody
    /\ UNCHANGED <<child, input, stdin, stdout, reader>>

\* Mutation of RequestLost: the connection is kept for the next request.
RequestCancelled(a) ==
    /\ SessionPutBack /\ Ends(a, "doubt")
    /\ UNCHANGED <<mode, connected, responses, nextId, seen, source, server>>

\* The request fails after its dispatch may have begun: a call is in doubt.
RequestLost(a) ==
    /\ SessionDropped /\ Ends(a, "doubt")
    /\ UNCHANGED <<mode, connected, nextId, seen, source, executed, noise>>

InExchange(a) == pc[a] \in {"sending", "awaiting", "notifying"}

-----------------------------------------------------------------------------
(* The batch, and the futures of other clones.                              *)

\* Concurrent mode starts all calls together, sequential mode the next one
\* when the one before has a result, whatever that result is.
Ready(c) == mode = "concurrent" \/ \A d \in 1 .. c - 1 : pc[d] = "done"

StartCall(c) ==
    /\ connected /\ pc[c] = "idle" /\ Ready(c)
    /\ Moves(c, "queued")
    /\ UNCHANGED <<mode, connected, session, stdin, stdout, nextId,
                   seen, outcome, source, server>>

\* The tool is not registered or the arguments are no JSON or do not match
\* the schema: an error result without a request.
RefuseCall(c) ==
    /\ connected /\ pc[c] = "idle" /\ Ready(c)
    /\ Ends(c, "not sent")
    /\ UNCHANGED <<mode, connected, session, stdin, stdout, nextId,
                   seen, source, server>>

\* tools and close start whenever their callers like.
StartOther(a) ==
    /\ connected /\ a \in {Lister, Closer} /\ pc[a] = "idle"
    /\ Moves(a, "queued")
    /\ UNCHANGED <<mode, connected, session, stdin, stdout, nextId,
                   seen, outcome, source, server>>

\* Futures are dropped: those of the whole batch together, by an interrupt.
\* The future that holds the session drops it too.
DropFutures(S) ==
    /\ "drop" \in Disruptions
    /\ \E a \in S : pc[a] \notin {"idle", "done"}
    /\ pc' = [a \in Actors |-> IF a \in S THEN "done" ELSE pc[a]]
    /\ outcome' = [c \in Calls |->
                      IF c \notin S \/ pc[c] = "done" THEN outcome[c]
                      ELSE IF c = lock THEN "abandoned" ELSE "dropped"]
    /\ IF lock \in S THEN SessionDropped
                     ELSE UNCHANGED <<session, stdin, stdout, open>>
    /\ UNCHANGED <<mode, connected, nextId, seen, source, executed, noise>>

\* The last clone of the client is dropped.
LastHandleDropped ==
    /\ slot = "held" /\ \A a \in Actors : pc[a] = "done"
    /\ SessionDropped
    /\ UNCHANGED <<mode, connected, nextId, actors, executed, noise>>

-----------------------------------------------------------------------------
(* McpClient::request, connect, tools.                                      *)

\* The deadline passes while another future holds the slot.
QueueTimeout(a) ==
    /\ pc[a] = "queued" /\ lock # Nobody
    /\ Ends(a, "not sent")
    /\ UNCHANGED <<mode, connected, session, stdin, stdout, nextId,
                   seen, source, server>>

\* The slot is locked and found empty.
FindClosed(a) ==
    /\ pc[a] = "queued" /\ lock = Nobody /\ slot = "gone"
    /\ Ends(a, "not sent")
    /\ UNCHANGED <<mode, connected, session, stdin, stdout, nextId,
                   seen, source, server>>

\* The session is taken out and the request gets the next identifier, which
\* is nextId - 1 for as long as this exchange lasts.
TakeSession(a) ==
    /\ pc[a] = "queued" /\ lock = Nobody /\ slot = "held"
    /\ slot' = "taken" /\ lock' = a
    /\ IF a = Closer
       THEN Moves(a, "aborting") /\ UNCHANGED nextId
       ELSE Moves(a, "sending") /\ nextId' = nextId + 1
    /\ UNCHANGED <<mode, connected, child, input, reader, responses,
                   stdin, stdout, seen, outcome, source, server>>

\* The frame is written; the reader may be holding the input.
Write(a) ==
    /\ pc[a] = "sending" /\ reader # "answering"
    /\ child # "dead" /\ Len(stdin) < PipeCap
    /\ stdin' = Append(stdin, Request(a, nextId - 1))
    /\ Moves(a, "awaiting")
    /\ UNCHANGED <<mode, connected, session, stdout, nextId,
                   seen, outcome, source, server>>

\* The frame is larger than allowed, or the pipe is broken.
WriteFails(a) ==
    /\ \/ pc[a] = "sending" /\ ("limit" \in Disruptions \/ child = "dead")
       \/ pc[a] = "notifying" /\ child = "dead"
    /\ RequestLost(a)

Timeout(a) == InExchange(a) /\ RequestLost(a)

\* Mutation of Unfit: any response is taken for the answer.
NoAnswer(f) == f.kind = "error" \/ f.body = "mangled"

\* The next response is an error of the reader, belongs to another request
\* or is no response at all; or the reader is gone.
Unfit(f) == f.kind = "error" \/ f.id # nextId - 1 \/ f.body = "mangled"
ExchangeFails(a) ==
    /\ pc[a] = "awaiting"
    /\ IF responses = <<>> THEN reader = "ended" ELSE Unfit(Head(responses))
    /\ RequestLost(a)

Fits(a) ==
    /\ pc[a] = "awaiting" /\ responses # <<>> /\ ~Unfit(Head(responses))
    /\ responses' = Tail(responses)

\* A call, or the last page, or a page that ends the discovery: a bad or a
\* repeated cursor, or one page too many.
Return(a) ==
    LET body == Head(responses).body IN
    /\ a # Opener /\ Fits(a) /\ SessionPutBack
    /\ body \in Cursors => body \in seen \/ Cardinality(seen) + 1 >= MaxPages
    /\ Ends(a, IF body = "unusable" THEN "doubt" ELSE "answered")
    /\ source' = [c \in Calls |-> IF c = a THEN Head(responses).from ELSE source[c]]
    /\ UNCHANGED <<mode, connected, nextId, seen, server>>

\* One more page: a new request, which queues again.
NextPage ==
    LET body == Head(responses).body IN
    /\ Fits(Lister) /\ SessionPutBack
    /\ body \in Cursors \ seen /\ Cardinality(seen) + 1 < MaxPages
    /\ seen' = seen \cup {body}
    /\ Moves(Lister, "queued")
    /\ UNCHANGED <<mode, connected, nextId, outcome, source, server>>

\* initialize was answered: the version and the capabilities are accepted
\* and the notification follows, or connect fails and drops the client.
Negotiated ==
    /\ Fits(Opener) /\ Head(responses).body = "ok"
    /\ Moves(Opener, "notifying")
    /\ UNCHANGED <<mode, connected, slot, lock, child, input, reader, stdin,
                   stdout, nextId, seen, outcome, source, server>>

NotNegotiated ==
    /\ pc[Opener] = "awaiting" /\ responses # <<>>
    /\ ~Unfit(Head(responses)) /\ Head(responses).body # "ok"
    /\ RequestLost(Opener)

Notify ==
    /\ pc[Opener] = "notifying" /\ reader # "answering"
    /\ child # "dead" /\ Len(stdin) < PipeCap
    /\ stdin' = Append(stdin, Frame("note"))
    /\ slot' = "held" /\ lock' = Nobody
    /\ connected' = TRUE /\ Moves(Opener, "done")
    /\ UNCHANGED <<mode, child, input, reader, responses, stdout, nextId,
                   seen, outcome, source, server>>

-----------------------------------------------------------------------------
(* Session::close.                                                          *)

\* Mutation of AbortReader: the reader is left to finish its answer.
AbortReaderLater ==
    /\ pc[Closer] = "aborting" /\ Moves(Closer, "hanging up")
    /\ UNCHANGED <<mode, connected, session, stdin, stdout,
                   nextId, seen, outcome, source, server>>

AbortReader ==
    /\ pc[Closer] = "aborting"
    /\ reader' = "ended" /\ Moves(Closer, "hanging up")
    /\ UNCHANGED <<mode, connected, slot, lock, child, input, responses, stdin,
                   stdout, nextId, seen, outcome, source, server>>

\* The input is locked, which a reader that is answering prevents, and closed.
CloseInput ==
    /\ pc[Closer] = "hanging up" /\ reader # "answering"
    /\ input' = "closed" /\ Moves(Closer, "waiting")
    /\ UNCHANGED <<mode, connected, slot, lock, child, reader, responses, stdin,
                   stdout, nextId, seen, outcome, source, server>>

\* The grace period passes and the child is killed.
Kill ==
    /\ pc[Closer] = "waiting" /\ child # "dead"
    /\ child' = "dying" /\ Moves(Closer, "reaping")
    /\ UNCHANGED <<mode, connected, slot, lock, input, reader, responses, stdin,
                   stdout, nextId, seen, outcome, source, server>>

\* The child has exited, or even the kill has not ended it in time.
Closed ==
    /\ pc[Closer] \in {"waiting", "reaping"}
    /\ pc[Closer] = "waiting" => child = "dead"
    /\ SessionDropped /\ Moves(Closer, "done")
    /\ UNCHANGED <<mode, connected, nextId, seen, outcome, source, executed, noise>>

-----------------------------------------------------------------------------
(* read_loop.                                                               *)

ReaderReads ==
    /\ reader = "reading" /\ stdout # <<>>
    /\ stdout' = Tail(stdout)
    /\ LET f == Head(stdout)
           room == Len(responses) < ChannelCap
       IN
       /\ responses' = IF f.kind = "answer" /\ room THEN Append(responses, f)
                       ELSE responses
       /\ reader' = IF f.kind = "ping" THEN "answering"
                    ELSE IF f.kind = "bad" \/ (f.kind = "answer" /\ ~room) THEN "failing"
                    ELSE "reading"
    /\ UNCHANGED <<mode, connected, slot, lock, child, input, stdin, nextId,
                   actors, server>>

\* The answer to a ping waits for room in the pipe with the input locked.
ReaderAnswers ==
    /\ reader = "answering" /\ child # "dead" /\ Len(stdin) < PipeCap
    /\ stdin' = Append(stdin, Frame("reply")) /\ reader' = "reading"
    /\ UNCHANGED <<mode, connected, slot, lock, child, input, responses, stdout,
                   nextId, actors, server>>

\* The output ends, or the pipe breaks under an answer.
ReaderFails ==
    /\ child = "dead"
    /\ reader = "answering" \/ (reader = "reading" /\ stdout = <<>>)
    /\ reader' = "failing"
    /\ UNCHANGED <<mode, connected, slot, lock, child, input, responses, stdin,
                   stdout, nextId, actors, server>>

\* The error is the last thing the channel delivers.
ReaderReports ==
    /\ reader = "failing" /\ Len(responses) < ChannelCap
    /\ responses' = Append(responses, Frame("error")) /\ reader' = "ended"
    /\ UNCHANGED <<mode, connected, slot, lock, child, input, stdin, stdout,
                   nextId, actors, server>>

-----------------------------------------------------------------------------
(* The server.                                                              *)

ServerReads ==
    /\ child # "dead" /\ stdin # <<>>
    /\ stdin' = Tail(stdin)
    /\ LET f == Head(stdin) IN
       /\ open' = IF f.kind = "request" /\ reader # "ended"
                  THEN open \cup {f} ELSE open
       /\ executed' = IF f.from \in Calls THEN Append(executed, f.from)
                      ELSE executed
    /\ UNCHANGED <<mode, connected, session, stdout, nextId, actors, noise>>

\* It answers what it has read, possibly twice.
ServerAnswers ==
    /\ child = "up" /\ reader # "ended"
    /\ \E r \in open : \E body \in Bodies(r.from) :
           LET answer == [r EXCEPT !.kind = "answer", !.body = body] IN
           /\ open' = open \ {r}
           /\ \/ stdout' = Append(stdout, answer) /\ UNCHANGED noise
              \/ /\ "again" \in Disruptions /\ noise < MaxNoise
                 /\ stdout' = stdout \o <<answer, answer>>
                 /\ noise' = noise + 1
    /\ UNCHANGED <<mode, connected, session, stdin, nextId, actors, executed>>

\* Something nobody asked for: a ping, a notification, a frame that is no
\* JSON-RPC or too long.
ServerChatters ==
    /\ child = "up" /\ reader # "ended" /\ noise < MaxNoise
    /\ noise' = noise + 1
    /\ \E k \in Disruptions \cap {"ping", "note", "bad"} :
           stdout' = Append(stdout, Frame(k))
    /\ UNCHANGED <<mode, connected, session, stdin, nextId, actors, open, executed>>

\* It exits by itself, when its input ends, or because it was killed.
ServerStops ==
    /\ child # "dead"
    /\ \/ child = "dying" \/ "exit" \in Disruptions
       \/ input = "closed" /\ stdin = <<>>
    /\ child' = "dead" /\ open' = {} /\ stdin' = <<>>
    /\ UNCHANGED <<mode, connected, slot, lock, input, reader, responses, stdout,
                   nextId, actors, executed, noise>>

-----------------------------------------------------------------------------

LeaveQueue(a) == QueueTimeout(a) \/ FindClosed(a) \/ TakeSession(a)
Exchange(a) ==
    Write(a) \/ WriteFails(a) \/ ExchangeFails(a) \/ Return(a)
Connect == Negotiated \/ NotNegotiated \/ Notify
Shutdown == AbortReader \/ CloseInput \/ Kill \/ Closed
Reader == ReaderReads \/ ReaderAnswers \/ ReaderFails \/ ReaderReports
Server == ServerReads \/ ServerAnswers \/ ServerChatters \/ ServerStops
Disrupted == DropFutures(Calls) \/ DropFutures({Opener})
             \/ DropFutures({Lister}) \/ DropFutures({Closer})

Next ==
    \/ \E c \in Calls : StartCall(c) \/ RefuseCall(c)
    \/ \E a \in Actors : StartOther(a) \/ LeaveQueue(a) \/ Exchange(a) \/ Timeout(a)
    \/ NextPage \/ Connect \/ Shutdown \/ Reader \/ Server
    \/ Disrupted \/ LastHandleDropped

Spec == Init /\ [][Next]_vars

\* The runtime polls every future and the deadlines pass.  Nothing is asked
\* of the server, except that a killed process ends.
FairSpec ==
    /\ Spec
    /\ WF_vars(\E a \in Actors : LeaveQueue(a) \/ Timeout(a))
    /\ WF_vars(Shutdown)
    /\ WF_vars(child = "dying" /\ ServerStops)

-----------------------------------------------------------------------------
(* Properties.                                                              *)

\* A session in the slot has no request in flight, whatever happened to the
\* futures that used it; and no server keeps running whose session is gone.
NoRequestInFlight ==
    open = {} /\ \A i \in DOMAIN stdin : stdin[i].kind # "request"
ConnectionInv ==
    /\ TypeOK
    /\ slot = "held" => NoRequestInFlight
    /\ slot = "gone" => child # "up"

\* A call that returns an error which is not in doubt was never sent, or the
\* server itself answered it: nothing that may still be executed is reported
\* as a definite failure, and no answer to another request is taken for one.
MayRun(c) ==
    \/ c \in Range(executed)
    \/ \E i \in DOMAIN stdin : stdin[i].from = c
DefiniteMeansSettled ==
    \A c \in Calls :
        /\ outcome[c] = "not sent" => ~MayRun(c)
        /\ outcome[c] = "answered" => c \in Range(executed) /\ source[c] = c

\* Once a call was given up in the middle of its exchange nothing is written
\* to that server any more; and no call is executed twice or, in a sequential
\* batch, before one that precedes it.
GivenUp(c) == outcome[c] = "abandoned" \/ (outcome[c] = "doubt" /\ source[c] = Nobody)
ExecutedInOrder ==
    \A i, j \in DOMAIN executed : i < j =>
        /\ executed[i] # executed[j]
        /\ mode = "sequential" => executed[i] < executed[j]
NothingAfterDoubt ==
    [][/\ (\E c \in Calls : GivenUp(c)) => Len(stdin') <= Len(stdin)
       /\ ExecutedInOrder']_vars

\* The inductive invariant behind them.  The session is out of the slot for
\* exactly one actor, and once it is gone nothing of it is left but what the
\* child was sent.
Holding(a) ==
    pc[a] \in {"sending", "awaiting", "notifying",
               "aborting", "hanging up", "waiting", "reaping"}
LockInv ==
    /\ lock = Nobody <=> slot # "taken"
    /\ \A a \in Actors : Holding(a) <=> lock = a
    /\ \A a \in Actors : pc[a] \in {"sending", "awaiting"} => a # Closer
GoneInv ==
    slot = "gone" =>
        reader = "ended" /\ child # "up" /\ open = {} /\ stdout = <<>> /\ responses = <<>>

\* The child holds at most one request, that of the actor that awaits its
\* answer, and an answer to it ends it; earlier identifiers are used up.
Heard == Range(stdout) \cup Range(responses)
Answers == {f \in Heard : f.kind = "answer"}
RequestInv ==
    /\ \A i, j \in DOMAIN stdin :
          stdin[i].kind = "request" /\ stdin[j].kind = "request" => i = j
    /\ \A f \in Range(stdin) : f.kind = "request" \/ f.from = Nobody
    /\ \A f \in Range(responses) : f.kind \in {"answer", "error"}
    /\ \A f \in Answers : f.id < nextId
    /\ open # {} => \A f \in Range(stdin) : f.kind # "request"
    /\ \A f \in open \cup (IF slot = "gone" THEN {} ELSE Range(stdin)) :
          f.kind = "request" =>
             lock \in Actors /\ pc[lock] = "awaiting" /\ f = Request(lock, nextId - 1)
    /\ \A f \in open : f.kind = "request"
    /\ \A f \in Answers : f.id = nextId - 1 =>
          /\ NoRequestInFlight
          /\ \A a \in Actors : pc[a] # "sending" /\ (pc[a] = "awaiting" => f.from = a)

\* What was executed was read from the child's input once, in the order of a
\* sequential batch, before anything was said about it.
ExecInv ==
    /\ \A c \in Calls : pc[c] \in {"idle", "queued", "sending"} => ~MayRun(c)
    /\ \A f \in Range(stdin) :
          f.from \in Calls =>
             /\ f.from \notin Range(executed)
             /\ mode = "sequential" => \A c \in Range(executed) : c < f.from
    /\ \A f \in open \cup Answers : f.from \in Calls => f.from \in Range(executed)
    /\ ExecutedInOrder
    /\ mode = "sequential" =>
          \A c, d \in Calls : c < d /\ pc[d] # "idle" => pc[c] = "done"
OutcomeInv ==
    /\ \A c \in Calls : outcome[c] # "none" => pc[c] = "done"
    /\ \A c \in Calls : GivenUp(c) => slot = "gone"
    /\ DefiniteMeansSettled

McpInv == TypeOK /\ LockInv /\ GoneInv /\ RequestInv /\ ExecInv /\ OutcomeInv

\* Every connect, call, discovery and close returns, whatever the server does:
\* each actor starts once, so from some point on none is under way.
OperationsReturn ==
    <>[](\A a \in Actors : pc[a] \in {"idle", "done"})

=============================================================================
