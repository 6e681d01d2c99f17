---------------------------- MODULE ModelRequest ----------------------------
(* The request of one model call, as the agent prepares it from the          *)
(* conversation (prepare_model_request in src/agent/react.rs): the summary   *)
(* takes the place of the messages it covers, the context policy selects,    *)
(* long tool results are stored elsewhere, augmenters add messages, and the  *)
(* token budget drops old turns until the request fits; then it is encoded   *)
(* for the provider.  The stored conversation is never changed.              *)
EXTENDS ContextWindow

CONSTANTS
    Sessions,      \* what a model call may start from: see Session below
    Offloading,    \* ToolResultOffload is attached
    Threshold,     \* the longest tool result that is not offloaded
    Reference,     \* tokens of what stands for an offloaded result
    MaxAdditions,  \* messages the augmenters may add
    Limit,         \* TokenBudget::input_limit
    Mishaps        \* what may fail: a subset of AllMishaps

AllMishaps == {"offload", "augment", "budget", "hook", "encode"}

MessageType ==
    [kind: {"user", "answer", "call", "results", "system"}, id: Nat, size: Nat]
SessionType == [history: Seq(MessageType), covered: Nat, turns: Nat]

ASSUME RequestAssumption ==
    /\ Sessions \subseteq {s \in SessionType : s.covered <= Len(s.history)}
    /\ Offloading \in BOOLEAN
    /\ Threshold \in Nat /\ Reference \in Nat /\ Reference <= Threshold
    /\ MaxAdditions \in Nat /\ Limit \in Nat
    /\ Mishaps \subseteq AllMishaps

\* A session: its history, how many messages of it the summary covers, and the
\* turns that the context policy keeps (0: FullContext).
Session(history, covered, turns) ==
    [history |-> history, covered |-> covered, turns |-> turns]
NoSession == Session(<<>>, 0, 0)

-----------------------------------------------------------------------------

VARIABLES
    session,  \* what the call starts from
    request,  \* ChatRequest::messages
    pinned,   \* how many messages at its beginning the budget must keep
    pc,       \* where the call is
    outcome   \* how it ended

requestVars == <<session, request, pinned>>

\* Every message has its tokens; tool results may have many.
Message(kind, size) == [kind |-> kind, id |-> 0, size |-> size]
TokenCount(messages) == FoldLeft(LAMBDA n, m : n + m.size, 0, messages)
Fits(messages) == TokenCount(messages) <= Limit

Ends(how) == pc' = "done" /\ outcome' = how
Fails(mishap) == mishap \in Mishaps /\ Ends("error") /\ UNCHANGED requestVars

-----------------------------------------------------------------------------
(* unbudgeted_request.                                                      *)

\* summary_projection: the messages that the summary does not cover.
Projected(s) == From(s.history, s.covered + 1)

\* The system prompt and the summary.
Pinned(s) ==
    <<Message("system", 1)>> \o (IF s.covered = 0 THEN <<>> ELSE <<Message("answer", 1)>>)

\* ToolResultOffload::project: results are successful ones in text, and none is
\* a page that the offload's own reader has returned.
Long(m) == Offloading /\ m.kind = "results" /\ m.size > Threshold
Offloaded(messages) ==
    [i \in DOMAIN messages |->
        IF Long(messages[i]) THEN [messages[i] EXCEPT !.size = Reference]
                             ELSE messages[i]]

Policy(s) ==
    IF s.turns = 0 THEN Projected(s) ELSE RecentTurns(Projected(s), s.turns)

\* A summary that does not fit the history is an error.
Select ==
    /\ pc = "selecting"
    /\ IF Valid(SubSeq(session.history, 1, session.covered), session.history)
       THEN /\ request' = Offloaded(Pinned(session) \o Policy(session))
            /\ pinned' = Len(Pinned(session))
            /\ pc' = "augmenting" /\ UNCHANGED <<session, outcome>>
       ELSE Ends("error") /\ UNCHANGED requestVars

\* The store of long results fails or returns no identifier.
OffloadFails ==
    /\ pc = "selecting" /\ \E i \in DOMAIN Policy(session) : Long(Policy(session)[i])
    /\ Fails("offload")

-----------------------------------------------------------------------------
(* prepare_model_request.                                                   *)

\* Mutation of Augment: what was added is not pinned.
AugmentUnpinned ==
    /\ pc = "augmenting"
    /\ \E n \in 0 .. MaxAdditions :
           request' = SubSeq(request, 1, pinned)
                      \o [i \in 1 .. n |-> Message("user", 1)]
                      \o SubSeq(request, pinned + 1, Len(request))
    /\ pc' = "budgeting" /\ UNCHANGED <<session, pinned, outcome>>

\* The augmenters' messages follow the pinned ones and are pinned.
Augment ==
    /\ pc = "augmenting"
    /\ \E n \in 0 .. MaxAdditions :
           /\ request' = SubSeq(request, 1, pinned)
                         \o [i \in 1 .. n |-> Message("user", 1)]
                         \o SubSeq(request, pinned + 1, Len(request))
           /\ pinned' = pinned + n
    /\ pc' = "budgeting" /\ UNCHANGED <<session, outcome>>
AugmentFails == pc = "augmenting" /\ Fails("augment")

\* apply_with_pinned_prefix: as many turns as fit, but always the last one.
Trimmed(messages, n) ==
    LET prefix == SubSeq(messages, 1, n)
        history == SubSeq(messages, n + 1, Len(messages))
        fitting == {k \in 1 .. Cardinality(Users(history)) - 1 :
                        Fits(prefix \o RecentTurns(history, k))}
        most == CHOOSE k \in fitting : \A l \in fitting : l <= k
    IN  IF Fits(messages) THEN {messages}
        ELSE IF fitting = {} THEN {}
        ELSE {prefix \o RecentTurns(history, most)}
ApplyBudget ==
    /\ pc = "budgeting"
    /\ IF Trimmed(request, pinned) = {}
       THEN Ends("error") /\ UNCHANGED requestVars
       ELSE /\ request' \in Trimmed(request, pinned)
            /\ pc' = "encoding" /\ UNCHANGED <<session, pinned, outcome>>

\* The output limit is invalid, or the counter fails.
BudgetFails == pc = "budgeting" /\ Fails("budget")

\* The hook before the call fails, or encode_request: content that it does not
\* support, tool calls of another role, or a reserved option.
HookFails == pc = "encoding" /\ Fails("hook")
EncodeFails == pc = "encoding" /\ Fails("encode")

\* encode_request: the messages are handed over.
Encode ==
    /\ pc = "encoding" /\ pc' = "requesting"
    /\ session' = NoSession /\ request' = <<>> /\ pinned' = 0
    /\ UNCHANGED outcome

Preparation ==
    \/ Select \/ Augment \/ ApplyBudget
    \/ OffloadFails \/ AugmentFails \/ BudgetFails \/ HookFails \/ EncodeFails

-----------------------------------------------------------------------------

\* The request that is sent fits the window and tells the truth about the
\* conversation: after the pinned messages come the system messages of what the
\* summary leaves, and all of the rest from some point on.  That point is not
\* after the current turn, separates no results from their calls, and drops no
\* more turns than it must.  What was said before any turn belongs to the first.
Apart(said, at) == \E i \in at .. Len(said), j \in 1 .. at - 1 :
    /\ said[i].kind = "results" /\ said[j].kind = "call" /\ said[i].id = said[j].id
    /\ \A k \in j + 1 .. i : said[k].kind # "call" \/ said[k].id # said[j].id
TurnsFrom(said, at) == Cardinality({u \in Users(said) : u >= at})
WholeTurns(s, tail) ==
    LET said == Offloaded(Projected(s))
        current == IF Users(said) = {} THEN 1 ELSE Max(Users(said))
        Begin(u) == IF \E v \in Users(said) : v < u THEN u ELSE 1
        TooMuch(u) == ~Fits(SubSeq(request, 1, pinned) \o From(said, Begin(u)))
    IN  \E at \in 1 .. current :
            /\ tail = From(said, at) /\ ~Apart(said, at)
            /\ \A u \in Users(said) : u < at /\ ~Apart(said, u) =>
                   TooMuch(u) \/ (s.turns # 0 /\ TurnsFrom(said, u) > s.turns)
RequestWhole ==
    pc = "encoding" =>
        /\ Fits(request)
        /\ SubSeq(request, 1, Len(Pinned(session))) = Pinned(session)
        /\ WholeTurns(session, SubSeq(request, pinned + 1, Len(request)))

=============================================================================
