---------------------------- MODULE MCChatStream ----------------------------
(* A provider that sends a few lines of data in any order, well formed or    *)
(* not, between delimiters of both kinds.                                    *)
EXTENDS ChatStream

MCNames == {"none", "thinking", "content", "id", "jd", "f", "g", "stop", "tool_calls", "unknown"}

Token(what) ==
    [is |-> "data", what |-> what, think |-> <<>>, text |-> <<>>, tools |-> <<>>,
     usage |-> "none", amount |-> 0, finish |-> "none"]
Silence == [Token("chunk") EXCEPT !.is = "comment"]
CR == [Token("chunk") EXCEPT !.is = "CR"]
LF == [Token("chunk") EXCEPT !.is = "LF"]
Delta(id, name, args) == [index |-> 1, id |-> id, name |-> name, args |-> args]

Thought == [Token("chunk") EXCEPT !.think = <<"{">>]
Open == [Token("chunk") EXCEPT !.text = <<"{">>]
Shut == [Token("chunk") EXCEPT !.text = <<"}">>, !.finish = "stop"]
Start == [Token("chunk") EXCEPT !.tools = <<Delta("id", "f", <<"{">>)>>]
More == [Token("chunk") EXCEPT !.tools = <<Delta("none", "none", <<"}">>)>>, !.finish = "tool_calls"]
Other == [Token("chunk") EXCEPT !.tools = <<Delta("none", "g", <<"}">>)>>]
Cost == [Token("chunk") EXCEPT !.usage = "ok", !.amount = 1]
BadCost == [Token("chunk") EXCEPT !.usage = "bad"]
Odd == [Token("chunk") EXCEPT !.finish = "unknown"]
\* Everything at once, with a second call.
Full == [Token("chunk") EXCEPT !.think = <<"{">>, !.text = <<"{", "}">>,
             !.tools = <<Delta("id", "f", <<"{", "}">>), [Delta("jd", "f", <<"{", "}">>) EXCEPT !.index = 2]>>,
             !.usage = "ok", !.amount = 2, !.finish = "tool_calls"]

Chunks == {Thought, Open, Shut, Start, More, Other, Cost, BadCost, Odd, Full}
Closings == {Token("done"), Token("error"), Token("garbage"), Silence}
Ending == {<<LF, LF>>, <<CR, LF, CR, LF>>}

\* Two or three chunks and an end, between empty lines.
Line(t) == <<t, LF, LF>>
LongWires ==
    {Line(c[1]) \o Line(c[2]) \o Line(e) : c \in Chunks \X Chunks, e \in Closings}
    \cup {Line(Start) \o Line(c) \o Line(More) \o Line(Token("done")) : c \in Chunks}
    \cup {Line(Open) \o Line(c) \o Line(Shut) \o Line(Token("done")) : c \in Chunks}

\* Line endings of both kinds, and bodies cut off anywhere.
Whole(d1, d2) == <<Open>> \o d1 \o <<Shut>> \o d2 \o <<Token("done")>>
Marked == {Whole(d1, d2) \o d3 : d1, d2 \in Ending, d3 \in Ending \cup {<<CR>>, <<LF>>, <<CR, LF>>, <<CR, LF, LF>>}}
CutWires == UNION {{SubSeq(w, 1, n) : n \in 1 .. Len(w)} : w \in Marked}
OddWires == {<<Open, LF, Shut, LF, LF, Token("done"), LF, LF>>,
             <<Silence, LF, Shut, LF, LF, Token("done"), LF, LF>>,
             <<Shut, LF, LF, Token("done"), LF, Shut, LF, LF>>}

MCWires == LongWires \cup CutWires \cup OddWires

-----------------------------------------------------------------------------
(* Sessions that are ready for a model call.  Messages may be observed at any *)
(* time, also between the calls of a paused reply and their results.          *)

Pending(h) ==
    Cardinality({i \in DOMAIN h : h[i].kind = "call"})
    > Cardinality({i \in DOMAIN h : h[i].kind = "results"})
LastCall(h) == Max({i \in DOMAIN h : h[i].kind = "call"})
\* The provider may use an identifier again.
CallIds(h) == {0, Len(h) + 1}
Continuations(h) ==
    {Message("user", 1), Message("system", 1)}
    \cup (IF Pending(h) THEN {[Message("results", 2 + (Len(h) % 2)) EXCEPT !.id = h[LastCall(h)].id]}
          ELSE {Message("answer", 1)}
               \cup {[Message("call", 1) EXCEPT !.id = i] :
                        i \in IF Users(h) = {} THEN {} ELSE CallIds(h)})
Histories[n \in 0 .. 7] ==
    IF n = 0 THEN {<<>>}
    ELSE {Append(h, m) : <<h, m>> \in
             UNION {{h} \X Continuations(h) : h \in Histories[n - 1]}}
Kinds(h, kind) == Cardinality({i \in DOMAIN h : h[i].kind = kind})
Ready(h) == h # <<>> /\ Last(h).kind \in {"user", "results"} /\ ~Pending(h)
MCSessions ==
    LET ready == {h \in UNION {Histories[n] : n \in 1 .. 7} :
                     Ready(h) /\ Kinds(h, "system") <= 1 /\ Kinds(h, "answer") <= 1}
    IN  {s \in {Session(h, n, t) : h \in ready, n \in 0 .. 6, t \in {0, 1, 2}} :
            s.covered <= Len(s.history)
            /\ Valid(SubSeq(s.history, 1, s.covered), s.history)}

=============================================================================
