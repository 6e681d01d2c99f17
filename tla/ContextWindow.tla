--------------------------- MODULE ContextWindow ---------------------------
(* The conversation as the context policies see it: turns, finished turns,  *)
(* summaries of a prefix, and the cut that RecentTurns makes                *)
(* (src/context.rs, src/context/summary.rs).                                *)
(*                                                                          *)
(* A history is a sequence of records with a kind ("user", "answer", "call",*)
(* "results" or "system") and an id.  A "call" message holds all the tool   *)
(* calls that the model asked for together and "results" their results,     *)
(* under the id of the "call" message.                                      *)
EXTENDS Naturals, Sequences, FiniteSets, FiniteSetsExt, SequencesExt

Users(h) == {i \in DOMAIN h : h[i].kind = "user"}

\* The first n messages end with an answer and leave no call without results.
Concluded(h, n) ==
    /\ n > 0
    /\ h[n].kind = "answer"
    /\ \A i \in 1 .. n : h[i].kind = "call" =>
          \E j \in (i + 1) .. n : h[j].kind = "results" /\ h[j].id = h[i].id

\* validate_completed, of the messages that are not the system's.
Completed(history) ==
    LET h == SelectSeq(history, LAMBDA m : m.kind # "system") IN
    /\ Users(h) # {}
    /\ Concluded(h, Len(h))
    /\ \A i \in Users(h) : i # Min(Users(h)) => Concluded(h, i - 1)

\* ContextSummary::validate
Valid(summary, h) ==
    \/ summary = <<>>
    \/ LET rest == {i \in Len(summary) + 1 .. Len(h) : h[i].kind # "system"} IN
       /\ Len(summary) < Len(h)
       /\ IsPrefix(summary, h)
       /\ Completed(summary)
       /\ rest # {} /\ h[Min(rest)].kind = "user"

\* The user message at which the turn of message i began, or the beginning.
TurnStart(h, i) ==
    LET before == {u \in Users(h) : u <= i}
    IN  IF before = {} THEN 1 ELSE Max(before)

\* Mutation of Dependency: results may lose their calls.
NoDependency(h, i) == i

\* Results depend on the turn of the last call they may answer.
Dependency(h, i) ==
    LET asked == {j \in 1 .. (i - 1) : h[j].kind = "call" /\ h[j].id = h[i].id}
    IN  IF h[i].kind = "results" /\ asked # {} THEN TurnStart(h, Max(asked)) ELSE i

\* RecentTurns: where the messages begin that it keeps.  It moves the start of
\* the last turns back before every exchange that reaches into them.
CutAt(h, turns) ==
    IF Cardinality(Users(h)) <= turns
    THEN 1
    ELSE LET recent == CHOOSE u \in Users(h) : Cardinality({v \in Users(h) : v >= u}) = turns
         IN  Max({s \in 1 .. recent : \A i \in s .. Len(h) : Dependency(h, i) >= s})

\* RecentTurns::select_messages: system messages are kept wherever they are.
SystemOf(h) ==
    FoldLeft(LAMBDA kept, m : IF m.kind = "system" THEN Append(kept, m) ELSE kept, <<>>, h)
From(h, start) == SystemOf(SubSeq(h, 1, start - 1)) \o SubSeq(h, start, Len(h))
RecentTurns(h, turns) == From(h, CutAt(h, turns))

=============================================================================
