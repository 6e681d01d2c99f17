----------------------------- MODULE ChatStream -----------------------------
(* One call of a chat model by the agent: the request that ModelRequest      *)
(* prepares is sent with retries (src/model/openai.rs, openai/retry.rs), and *)
(* the response is either decoded whole (openai/wire.rs) or streamed: the    *)
(* decoder of the event stream (openai/sse.rs), the accumulator              *)
(* (accumulator.rs) and the loop of the agent that drives them (model_step   *)
(* in src/agent/react/streaming.rs).                                         *)
(*                                                                           *)
(* The body of the response is a sequence of tokens: a line of data is one   *)
(* token, the bytes that end lines are tokens of their own, and the network  *)
(* delivers the body in chunks cut anywhere between two tokens.  What a line *)
(* of data decodes to is a record; text and JSON arguments are sequences of  *)
(* brackets, which are valid JSON when they are one pair.                    *)
EXTENDS ModelRequest, SequencesExt, FiniteSetsExt

CONSTANTS
    Names,         \* identifiers, names and reasons: strings
    Wires,         \* bodies the provider may send
    MaxRetries,    \* RetryPolicy::max_retries
    InitialDelay,  \* RetryPolicy::initial_delay
    MaxDelay,      \* RetryPolicy::max_delay
    Width,         \* bits of the factor of the exponential delay (32)
    RetryAfters,   \* delays a provider may ask for
    Disruptions    \* what may go wrong, a subset of AllDisruptions

AllDisruptions == {"status", "transport", "broken", "interrupt"}

Text == Seq({"{", "}"})
DeltaType == [index: Nat, id: Names, name: Names, args: Text]
TokenType ==
    [is: {"data", "comment", "CR", "LF"}, what: {"chunk", "done", "error", "garbage"},
     think: Text, text: Text, tools: Seq(DeltaType),
     usage: {"none", "ok", "bad"}, amount: Nat, finish: Names]

ASSUME ConstantsAssumption ==
    /\ {"none", "thinking", "content"} \subseteq Names
    /\ Wires \subseteq Seq(TokenType)
    /\ MaxRetries \in Nat /\ InitialDelay \in Nat /\ MaxDelay \in Nat
    /\ Width \in Nat \ {0} /\ RetryAfters \subseteq Nat
    /\ Disruptions \subseteq AllDisruptions

-----------------------------------------------------------------------------
(* Tokens, frames and what a chunk of the provider says.                    *)

Tokens == UNION {Range(w) : w \in Wires}
IsAt(pattern, b, p) ==
    /\ p + Len(pattern) - 1 <= Len(b)
    /\ \A i \in DOMAIN pattern : b[p + i - 1].is = pattern[i]
Delimiters == {<<"CR", "LF", "CR", "LF">>, <<"LF", "LF">>}
Found(b) == {f \in (DOMAIN b) \X Delimiters : IsAt(f[2], b, f[1])}

\* Mutation of FirstDelimiter: the longer delimiter is preferred.
LongestDelimiter(b) ==
    CHOOSE f \in Found(b) : \A g \in Found(b) :
        Len(f[2]) > Len(g[2]) \/ (f[2] = g[2] /\ f[1] <= g[1])

\* find_delimiter: the delimiter that starts first.
FirstDelimiter(b) ==
    CHOOSE f \in Found(b) : \A g \in Found(b) : f[1] <= g[1]

Frame(b) == SubSeq(b, 1, FirstDelimiter(b)[1] - 1)
AfterFrame(b) ==
    LET f == FirstDelimiter(b) IN SubSeq(b, f[1] + Len(f[2]), Len(b))

\* The data lines of a frame, joined: two of them are no JSON document, and
\* a carriage return that ends the frame makes [DONE] another string.
DataIn(frame) == {i \in DOMAIN frame : frame[i].is = "data"}
DataOf(frame) ==
    IF DataIn(frame) = {} THEN "none"
    ELSE LET first == Min(DataIn(frame)) IN
         IF DataIn(frame) # {first} THEN "garbage"
         ELSE IF frame[first].what = "done" /\ Last(frame).is = "CR" THEN "garbage"
         ELSE frame[first].what

IsJson(s) == s = <<"{", "}">>

-----------------------------------------------------------------------------
(* SseState: what has been decoded, and process_frame.                      *)

NewDecoder == [pending |-> <<>>, tools |-> {}, finish |-> "none", closed |-> FALSE]

Event(kind, key, name, delta, amount) ==
    [kind |-> kind, key |-> key, name |-> name, delta |-> delta, amount |-> amount]
Events == [kind: {"thinking", "text", "structured", "tool", "usage", "finished", "error"},
           key: Names, name: Names, delta: Text, amount: Nat]
Failure == Event("error", "none", "none", <<>>, 0)

Push(d, e) == [d EXCEPT !.pending = Append(@, e)]
Fail(d) == [Push(d, Failure) EXCEPT !.closed = TRUE]

\* An undecodable usage is an error item, but the decoding goes on.
Usage(d, c) ==
    CASE c.usage = "none" -> d
      [] c.usage = "bad"  -> Push(d, Failure)
      [] OTHER            -> Push(d, Event("usage", "none", "none", <<>>, c.amount))

Content(d, kind, key, delta) ==
    IF delta = <<>> THEN d ELSE Push(d, Event(kind, key, "none", delta, 0))

\* Mutation of ToolDelta: a later delta must repeat the identity of its call.
ForgetfulToolDelta(d, t) ==
    IF d.closed THEN d
    ELSE IF t.id = "none" \/ t.name = "none" THEN Fail(d)
    ELSE Push(d, Event("tool", t.id, t.name, t.args, 0))

\* process_tool_call_delta: the identity of a call is remembered by index.
Known(d, i) ==
    IF \E p \in d.tools : p.index = i THEN CHOOSE p \in d.tools : p.index = i
    ELSE [index |-> i, id |-> "none", name |-> "none", announced |-> FALSE]
ToolDelta(d, t) ==
    LET old == Known(d, t.index)
        id == IF t.id = "none" THEN old.id ELSE t.id
        name == IF t.name = "none" THEN old.name ELSE t.name
        new == [index |-> t.index, id |-> id, name |-> name, announced |-> TRUE]
        tools == {p \in d.tools : p.index # t.index} \cup {new}
    IN
    IF d.closed THEN d
    ELSE IF t.args = <<>> /\ old.announced
    THEN [d EXCEPT !.tools = tools]
    ELSE IF id = "none" \/ name = "none" THEN Fail(d)
    ELSE Push([d EXCEPT !.tools = tools],
              Event("tool", id, name, t.args, 0))

FinishReason(d, c) ==
    IF d.closed \/ c.finish = "none" THEN d
    ELSE IF c.finish = "unknown" THEN Fail(d)
    ELSE [d EXCEPT !.finish = c.finish]

\* process_chunk and process_delta: usage, thinking, content, tool calls and
\* the finish reason, in this order and up to the first error.
Chunk(d, c, schema) ==
    LET thought == Content(Usage(d, c), "thinking", "thinking", c.think)
        said == Content(thought, IF schema THEN "structured" ELSE "text",
                        "content", c.text)
    IN FinishReason(FoldLeft(ToolDelta, said, c.tools), c)

\* Mutation of ProcessFrame: the end of the data is the end of the answer.
LenientFrame(d, frame, schema) ==
    LET what == DataOf(frame) IN
    IF what = "none" THEN d
    ELSE IF what = "chunk"
    THEN Chunk(d, frame[Min(DataIn(frame))], schema)
    ELSE [Push(d, Event("finished", "none", d.finish, <<>>, 0)) EXCEPT !.closed = TRUE]

\* process_frame.
ProcessFrame(d, frame, schema) ==
    LET what == DataOf(frame) IN
    CASE what = "none"  -> d
      [] what = "chunk" -> Chunk(d, frame[Min(DataIn(frame))], schema)
      [] what = "done" /\ d.finish # "none" ->
            [Push(d, Event("finished", "none", d.finish, <<>>, 0)) EXCEPT !.closed = TRUE]
      [] OTHER -> Fail(d)

\* The end of the body: what remains is a frame, and [DONE] must have come.
ProcessEnd(d, remaining, schema) ==
    LET e == IF remaining = <<>> THEN d ELSE ProcessFrame(d, remaining, schema)
    IN IF e.closed THEN e ELSE Fail(e)

-----------------------------------------------------------------------------
(* ChatResponseAccumulator.                                                 *)

NewAccumulator ==
    [content |-> <<>>, usage |-> 0, reason |-> "none", state |-> "open"]

Reject(acc) == [acc EXCEPT !.state = "error"]

\* A delta extends the block of its identifier, which must have the same type
\* and name, or starts a new one.
ApplyDelta(acc, e) ==
    LET at == {i \in DOMAIN acc.content : acc.content[i].key = e.key}
        block == [kind |-> e.kind, key |-> e.key, name |-> e.name, text |-> e.delta]
    IN
    IF at = {} THEN [acc EXCEPT !.content = Append(@, block)]
    ELSE LET i == Min(at) IN
         IF acc.content[i].kind = e.kind /\ acc.content[i].name = e.name
         THEN [acc EXCEPT !.content[i].text = @ \o e.delta]
         ELSE Reject(acc)

\* All blocks are finished, or none.
CompleteBlocks(content) ==
    \A b \in Range(content) : b.kind \in {"tool", "structured"} => IsJson(b.text)

Apply(acc, e) ==
    IF acc.state # "open" \/ e.kind = "error" THEN Reject(acc)
    ELSE IF e.kind = "usage" THEN [acc EXCEPT !.usage = @ + e.amount]
    ELSE IF e.kind # "finished" THEN ApplyDelta(acc, e)
    ELSE IF CompleteBlocks(acc.content)
    THEN [acc EXCEPT !.state = "finished", !.reason = e.name]
    ELSE Reject(acc)

-----------------------------------------------------------------------------
(* decode_response: the message that the body spells out, decoded whole.    *)

\* The body up to [DONE], or to the first line of data that is no chunk.
Said(wire) ==
    LET ends == {i \in DataIn(wire) : wire[i].what # "chunk"}
    IN IF ends = {} THEN wire ELSE SubSeq(wire, 1, Min(ends) - 1)

\* What the lines of data say, joined.
Silent == [think |-> <<>>, text |-> <<>>, tools |-> <<>>, usage |-> 0, finish |-> "none"]
Spell(m, c) ==
    IF c.is # "data" THEN m
    ELSE [think |-> m.think \o c.think, text |-> m.text \o c.text,
          tools |-> m.tools \o c.tools,
          usage |-> IF c.usage = "ok" THEN m.usage + c.amount ELSE m.usage,
          finish |-> IF c.finish = "none" THEN m.finish ELSE c.finish]
Spelled(tokens) == FoldLeft(Spell, Silent, tokens)

\* The tool calls of the message, one for each index.
Own(deltas, i) == {j \in DOMAIN deltas : deltas[j].index = i}
Arguments(deltas, i) ==
    FoldLeft(LAMBDA s, t : IF t.index = i THEN s \o t.args ELSE s, <<>>, deltas)
CallOf(deltas, i) ==
    LET first == deltas[Min(Own(deltas, i))] IN
    [kind |-> "tool", key |-> first.id, name |-> first.name, text |-> Arguments(deltas, i)]

\* The blocks of a message.
WholeBlocks(m, schema) ==
    {b \in {[kind |-> "thinking", key |-> "thinking", name |-> "none", text |-> m.think],
            [kind |-> IF schema THEN "structured" ELSE "text", key |-> "content",
             name |-> "none", text |-> m.text]} : b.text # <<>>}
    \cup {CallOf(m.tools, t.index) : t \in Range(m.tools)}

\* [DONE] came, and before it nothing but chunks.
Intact(wire) ==
    Len(Said(wire)) < Len(wire) /\ wire[Len(Said(wire)) + 1].what = "done"

\* decode_response: the structured output and the arguments must be JSON, the
\* identities complete, the reason known, and the usage an object.
Decodes(wire, schema) ==
    LET said == Said(wire)
        m == Spelled(said)
    IN
    /\ \A b \in WholeBlocks(m, schema) :
           /\ b.kind \in {"tool", "structured"} => IsJson(b.text)
           /\ b.kind = "tool" => b.key # "none" /\ b.name # "none"
    /\ m.finish # "none"
    /\ \A i \in DataIn(said) : said[i].finish # "unknown" /\ said[i].usage # "bad"

-----------------------------------------------------------------------------
(* The whole body at once: its frames, the events of its decoder, and what   *)
(* the accumulator makes of them.                                            *)

FramesOf[b \in Seq(Tokens)] ==
    IF Found(b) = {} THEN <<b>> ELSE <<Frame(b)>> \o FramesOf[AfterFrame(b)]
Decoded(frames, s) ==
    FoldLeft(LAMBDA d, f : IF d.closed THEN d ELSE ProcessFrame(d, f, s), NewDecoder, frames)
WholeEvents(b, s) ==
    LET d == Decoded(Front(FramesOf[b]), s)
    IN (IF d.closed THEN d ELSE ProcessEnd(d, Last(FramesOf[b]), s)).pending
Accumulated(events) == FoldLeft(Apply, NewAccumulator, events)

-----------------------------------------------------------------------------

VARIABLES
    mode,      \* "stream" or "generate"
    schema,    \* the request asks for structured output
    retries,   \* retries of send_with_retries, a local of it
    wait,      \* the last delay, and who asked for it
    wire,      \* the body of the response
    arrived,   \* tokens of it that the network has delivered
    buffer,    \* SseState::buffer
    decoder,   \* the rest of SseState
    acc        \* the accumulator of model_step

setting == <<requestVars, mode, schema>>
sending == <<retries, wait>>
reading == <<wire, arrived, buffer, decoder, acc>>
vars == <<pc, outcome, setting, sending, reading>>

TypeOK ==
    /\ session.covered \in 0 .. Len(session.history) /\ pinned \in 0 .. Len(request)
    /\ mode \in {"none", "stream", "generate"} /\ schema \in BOOLEAN
    /\ pc \in {"selecting", "augmenting", "budgeting", "encoding", "requesting",
               "waiting", "reading", "done"}
    /\ retries \in 0 .. MaxRetries
    /\ wait \in [by: {"nobody", "policy", "provider"}, for: Nat]
    /\ wire \in Wires \cup {<<>>} /\ arrived \in 0 .. Len(wire)
    /\ buffer \in Seq(Tokens) /\ decoder.pending \in Seq(Events)
    /\ acc.state \in {"open", "finished", "error"}
    /\ outcome \in {"none", "response", "error", "broken", "interrupted"}

Init ==
    /\ session \in Sessions /\ request = <<>> /\ pinned = 0
    /\ mode = "none" /\ schema = FALSE
    /\ pc = "selecting" /\ retries = 0 /\ wait = [by |-> "nobody", for |-> 0]
    /\ wire = <<>> /\ arrived = 0 /\ buffer = <<>>
    /\ decoder = NewDecoder /\ acc = NewAccumulator /\ outcome = "none"

-----------------------------------------------------------------------------
(* The agent prepares the request and calls generate or stream of its model. *)

Prepare == Preparation /\ UNCHANGED <<mode, schema, sending, reading>>
Call ==
    /\ Encode
    /\ mode' \in {"stream", "generate"} /\ schema' \in BOOLEAN
    /\ UNCHANGED <<sending, reading>>

-----------------------------------------------------------------------------
(* send_with_retries.                                                       *)

\* Mutation of Factor: the shift wraps around its width.
WrappedFactor(n) == 2 ^ (n % Width)

\* checked_shl, or the largest value.
Factor(n) == IF n < Width THEN 2 ^ n ELSE 2 ^ Width - 1

\* RetryPolicy::delay: what the provider asks for replaces the exponential
\* delay, and both are capped.
Delay(n, after) ==
    Min({IF after # <<>> THEN after[1] ELSE InitialDelay * Factor(n), MaxDelay})

\* The attempt has failed: can_retry, then the wait.
RetryOrFail(retryable, after) ==
    /\ pc = "requesting"
    /\ IF retries < MaxRetries /\ retryable
       THEN /\ wait' = [by |-> IF after = <<>> THEN "policy" ELSE "provider",
                        for |-> Delay(retries, after)]
            /\ retries' = retries + 1 /\ pc' = "waiting" /\ UNCHANGED outcome
       ELSE Ends("error") /\ UNCHANGED sending
    /\ UNCHANGED <<setting, reading>>

\* 408, 409, 429 and 5xx are retryable, and may say Retry-After.
StatusError ==
    /\ "status" \in Disruptions
    /\ \E retryable \in BOOLEAN, after \in {<<>>} \cup {<<n>> : n \in RetryAfters} :
           RetryOrFail(retryable, after)

\* Timeouts and failures to connect are retryable.
TransportError ==
    /\ "transport" \in Disruptions
    /\ \E retryable \in BOOLEAN : RetryOrFail(retryable, <<>>)

Wake ==
    /\ pc = "waiting" /\ pc' = "requesting"
    /\ UNCHANGED <<setting, sending, reading, outcome>>

\* The status is a success; the count of the retries ends with its function.
Succeeds ==
    /\ pc = "requesting" /\ pc' = "reading" /\ wire' \in Wires
    /\ retries' = 0 /\ wait' = [by |-> "nobody", for |-> 0]
    /\ UNCHANGED <<setting, arrived, buffer, decoder, acc, outcome>>

\* generate: the whole body, which says the same in one JSON document.
Generated ==
    /\ pc = "reading" /\ mode = "generate"
    /\ Ends(IF Intact(wire) /\ Decodes(wire, schema) THEN "response" ELSE "error")
    /\ UNCHANGED <<setting, sending, reading>>

-----------------------------------------------------------------------------
(* next_event, and the loop of model_step over it.                          *)

Streaming == pc = "reading" /\ mode = "stream"

\* The next event goes to the accumulator; the first error ends the step.
Deliver ==
    /\ Streaming /\ decoder.pending # <<>>
    /\ acc' = Apply(acc, Head(decoder.pending))
    /\ decoder' = [decoder EXCEPT !.pending = Tail(@)]
    /\ IF acc'.state = "error" THEN Ends("error") ELSE UNCHANGED <<pc, outcome>>
    /\ UNCHANGED <<setting, sending, wire, arrived, buffer>>

Drained == Streaming /\ decoder.pending = <<>>

TakeFrame ==
    /\ Drained /\ ~decoder.closed /\ Found(buffer) # {}
    /\ decoder' = ProcessFrame(decoder, Frame(buffer), schema)
    /\ buffer' = AfterFrame(buffer)
    /\ UNCHANGED <<setting, pc, sending, wire, arrived, acc, outcome>>

NeedsMore == Drained /\ ~decoder.closed /\ Found(buffer) = {}

\* The network cuts the body where it likes.
ReceiveChunk ==
    /\ NeedsMore
    /\ \E n \in arrived + 1 .. Len(wire) :
           /\ buffer' = buffer \o SubSeq(wire, arrived + 1, n)
           /\ arrived' = n
    /\ UNCHANGED <<setting, pc, sending, wire, decoder, acc, outcome>>

EndOfBody ==
    /\ NeedsMore /\ arrived = Len(wire)
    /\ decoder' = ProcessEnd(decoder, buffer, schema) /\ buffer' = <<>>
    /\ UNCHANGED <<setting, pc, sending, wire, arrived, acc, outcome>>

\* The accumulator is asked for its response.
StreamOver ==
    /\ Drained /\ decoder.closed
    /\ Ends(IF acc.state = "finished" THEN "response" ELSE "error")
    /\ UNCHANGED <<setting, sending, reading>>

\* Mutation of BodyFails: the request is sent again.
RetryMidStream ==
    /\ "broken" \in Disruptions /\ pc = "reading"
    /\ mode = "stream" => NeedsMore
    /\ IF retries < MaxRetries
       THEN /\ pc' = "requesting" /\ retries' = retries + 1 /\ arrived' = 0
            /\ buffer' = <<>> /\ decoder' = NewDecoder /\ UNCHANGED outcome
       ELSE Ends("broken") /\ UNCHANGED <<retries, arrived, buffer, decoder>>
    /\ UNCHANGED <<setting, wait, wire, acc>>

\* The connection breaks or the deadline of the request passes.
BodyFails ==
    /\ "broken" \in Disruptions /\ pc = "reading"
    /\ mode = "stream" => NeedsMore
    /\ Ends("broken")
    /\ UNCHANGED <<setting, sending, reading>>

\* Every wait of the agent is a biased select with the interrupt.
Interrupt ==
    /\ "interrupt" \in Disruptions /\ pc # "done" /\ Ends("interrupted")
    /\ UNCHANGED <<setting, sending, reading>>

-----------------------------------------------------------------------------

Send == StatusError \/ TransportError \/ Wake \/ Succeeds
Read == Deliver \/ TakeFrame \/ ReceiveChunk \/ EndOfBody \/ StreamOver
Next == Prepare \/ Call \/ Send \/ Generated \/ Read \/ BodyFails \/ Interrupt

Spec == Init /\ [][Next]_vars

-----------------------------------------------------------------------------
(* Properties.                                                              *)

\* However the network cuts the body, a caller sees a prefix of the events of
\* the whole body, and all of them unless it was disturbed.
SeenSoFar(n) == acc = Accumulated(SubSeq(WholeEvents(wire, schema), 1, n))
ChunkingIrrelevant ==
    /\ TypeOK
    /\ mode = "stream" /\ wire # <<>> =>
        \E n \in 0 .. Len(WholeEvents(wire, schema)) :
            /\ SeenSoFar(n)
            /\ outcome \in {"response", "error"} =>
                   SeenSoFar(Len(WholeEvents(wire, schema)))

\* A stream returns a response exactly when a call without a stream would, and
\* the same one: every block whole, no usage lost or counted twice, the same
\* reason, and nothing cut off before [DONE].  Only a body whose frames or
\* calls contradict themselves may end a stream in an error instead.  Nothing
\* is said of providers that give a call two identifiers, or two calls one.
Coherent(w) ==
    LET deltas == Spelled(Said(w)).tools
        Id(t) == CallOf(deltas, t.index).key
    IN \A t \in Range(deltas) : Id(t) # "none" =>
           /\ t.id \in {"none", Id(t)}
           /\ Id(t) \notin {"thinking", "content"}
           /\ \A u \in Range(deltas) : Id(t) = Id(u) => t.index = u.index
Consistent(w) ==
    /\ \A f \in Range(FramesOf[w]) : DataOf(f) # "garbage"
    /\ LET deltas == Spelled(Said(w)).tools IN
       \A t \in Range(deltas) : t.name \in {"none", CallOf(deltas, t.index).name}
CompleteAnswer ==
    LET message == Spelled(Said(wire))
        decodes == Intact(wire) /\ Decodes(wire, schema)
    IN
    mode = "stream" /\ wire # <<>> /\ Coherent(wire) =>
        /\ outcome = "response" =>
               /\ decodes
               /\ Range(acc.content) = WholeBlocks(message, schema)
               /\ acc.usage = message.usage /\ acc.reason = message.finish
        /\ outcome = "error" => ~(decodes /\ Consistent(wire))

\* A request is sent again only while nothing of an answer has been seen, no
\* more often than allowed, never after more than the longest delay, and the
\* delays of the policy never shrink, past the width of the factor too.
RetryDiscipline ==
    [][retries' > retries =>
           /\ pc = "requesting" /\ wire = <<>> /\ acc = NewAccumulator
           /\ wait'.for <= MaxDelay
           /\ wait.by = "policy" /\ wait'.by = "policy" => wait.for <= wait'.for]_vars

=============================================================================
