--------------------------- MODULE McpClient_proofs ---------------------------
(* Theorems about McpClient, for any batch, cursors and bounds: the slot of *)
(* the connection never holds a session with a request in flight, a definite *)
(* outcome of a call is true, and nothing is sent after a call in doubt.    *)
EXTENDS McpClient, TLAPS

(* Actors, frames and sequences of frames.                                  *)

LEMMA ActorFacts ==
    /\ Calls \subseteq Actors /\ Calls \subseteq Nat
    /\ Opener \in Actors /\ Lister \in Actors /\ Closer \in Actors
    /\ Nobody \notin Actors /\ Nobody \notin Calls
    /\ Opener \notin Calls /\ Lister \notin Calls /\ Closer \notin Calls
    /\ Opener # Closer /\ Lister # Closer /\ Opener # Lister
BY ConstantsAssumption DEF Calls, Actors, Opener, Lister, Closer, Nobody

LEMMA FrameFacts ==
    /\ \A a \in Actors, i \in Nat :
          /\ Request(a, i) \in Frames
          /\ Request(a, i).kind = "request" /\ Request(a, i).from = a
          /\ Request(a, i).id = i
    /\ \A k \in {"ping", "note", "bad", "reply", "error"} :
          Frame(k) \in Frames /\ Frame(k).kind = k /\ Frame(k).from = Nobody
    /\ \A f \in Frames : f.id \in Nat /\ f.from \in Actors \cup {Nobody}
    /\ \A f \in Frames : f.from \in Actors =>
          \A body \in Bodies(f.from) :
             LET answer == [f EXCEPT !.kind = "answer", !.body = body]
             IN  /\ answer \in Frames
                 /\ answer.kind = "answer" /\ answer.from = f.from /\ answer.id = f.id
<1>1. \A a \in Actors, i \in Nat :
         /\ Request(a, i) \in Frames
         /\ Request(a, i).kind = "request" /\ Request(a, i).from = a
         /\ Request(a, i).id = i
  BY DEF Request, Frames
<1>2. \A k \in {"ping", "note", "bad", "reply", "error"} :
         Frame(k) \in Frames /\ Frame(k).kind = k /\ Frame(k).from = Nobody
  BY DEF Frame, Frames
<1>3. \A f \in Frames : f.id \in Nat /\ f.from \in Actors \cup {Nobody}
  BY DEF Frames
<1>4. ASSUME NEW f \in Frames, f.from \in Actors, NEW body \in Bodies(f.from)
      PROVE  LET answer == [f EXCEPT !.kind = "answer", !.body = body]
             IN  /\ answer \in Frames
                 /\ answer.kind = "answer" /\ answer.from = f.from /\ answer.id = f.id
  <2>1. body \in UNION {Bodies(a) : a \in Actors}
    BY <1>4
  <2> QED
    BY <2>1 DEF Frames
<1> QED
  BY <1>1, <1>2, <1>3, <1>4

LEMMA RangeFacts ==
    ASSUME NEW S, NEW s \in Seq(S)
    PROVE  /\ Range(s) \subseteq S
           /\ Len(s) \in Nat
           /\ \A e \in S : /\ Append(s, e) \in Seq(S)
                           /\ Len(Append(s, e)) = Len(s) + 1
                           /\ Range(Append(s, e)) = Range(s) \cup {e}
           /\ s # <<>> => /\ Head(s) \in S /\ Head(s) \in Range(s)
                          /\ Tail(s) \in Seq(S)
                          /\ Len(Tail(s)) = Len(s) - 1 /\ Len(s) > 0
                          /\ Range(s) = {Head(s)} \cup Range(Tail(s))
<1>1. Range(s) \subseteq S /\ Len(s) \in Nat
  BY DEF Range
<1>2. ASSUME NEW e \in S
      PROVE  /\ Append(s, e) \in Seq(S) /\ Len(Append(s, e)) = Len(s) + 1
             /\ Range(Append(s, e)) = Range(s) \cup {e}
  <2>1. /\ Append(s, e) \in Seq(S) /\ Len(Append(s, e)) = Len(s) + 1
        /\ DOMAIN Append(s, e) = 1 .. (Len(s) + 1) /\ DOMAIN s = 1 .. Len(s)
        /\ \A i \in 1 .. Len(s) : Append(s, e)[i] = s[i]
        /\ Append(s, e)[Len(s) + 1] = e
    OBVIOUS
  <2>2. Range(Append(s, e)) \subseteq Range(s) \cup {e}
    BY <2>1 DEF Range
  <2>3. Range(s) \subseteq Range(Append(s, e)) /\ e \in Range(Append(s, e))
    <3>1. \A i \in 1 .. Len(s) : i \in 1 .. (Len(s) + 1)
      BY <1>1
    <3>2. Len(s) + 1 \in 1 .. (Len(s) + 1)
      BY <1>1
    <3> QED
      BY <2>1, <3>1, <3>2 DEF Range
  <2> QED
    BY <2>1, <2>2, <2>3
<1>3. ASSUME s # <<>>
      PROVE  /\ Head(s) \in S /\ Head(s) \in Range(s)
             /\ Tail(s) \in Seq(S)
             /\ Len(Tail(s)) = Len(s) - 1 /\ Len(s) > 0
             /\ Range(s) = {Head(s)} \cup Range(Tail(s))
  <2>1. /\ Head(s) \in S /\ Tail(s) \in Seq(S)
        /\ Len(Tail(s)) = Len(s) - 1 /\ Len(s) > 0 /\ Len(s) \in Nat
        /\ DOMAIN s = 1 .. Len(s) /\ DOMAIN Tail(s) = 1 .. (Len(s) - 1)
        /\ Head(s) = s[1]
        /\ \A i \in 1 .. (Len(s) - 1) : Tail(s)[i] = s[i + 1]
    BY <1>3
  <2>2. 1 \in DOMAIN s /\ \A i \in 1 .. (Len(s) - 1) : i + 1 \in DOMAIN s
    BY <2>1
  <2>3. {Head(s)} \cup Range(Tail(s)) \subseteq Range(s)
    BY <2>1, <2>2 DEF Range
  <2>4. ASSUME NEW i \in DOMAIN s PROVE s[i] \in {Head(s)} \cup Range(Tail(s))
    <3>1. CASE i = 1
      BY <2>1, <3>1
    <3>2. CASE i # 1
      <4>1. i - 1 \in 1 .. (Len(s) - 1) /\ (i - 1) + 1 = i
        BY <2>1, <3>2
      <4>2. Tail(s)[i - 1] = s[i] /\ i - 1 \in DOMAIN Tail(s)
        BY <2>1, <4>1
      <4> QED
        BY <4>2 DEF Range
    <3> QED
      BY <3>1, <3>2
  <2> QED
    BY <2>1, <2>2, <2>3, <2>4 DEF Range
<1> QED
  BY <1>1, <1>2, <1>3

LEMMA RangeEmpty == Range(<<>>) = {}
BY DEF Range

\* At most one request among the frames of a sequence.
One(s) == \A i, j \in DOMAIN s : s[i].kind = "request" /\ s[j].kind = "request" => i = j
NoRequest(s) == \A f \in Range(s) : f.kind # "request"

LEMMA OneFacts ==
    ASSUME NEW S, NEW s \in Seq(S), One(s)
    PROVE  /\ \A e \in S : e.kind # "request" \/ NoRequest(s) => One(Append(s, e))
           /\ s # <<>> => /\ One(Tail(s))
                          /\ Head(s).kind = "request" => NoRequest(Tail(s))
<1>1. ASSUME NEW e \in S, e.kind # "request" \/ NoRequest(s)
      PROVE  One(Append(s, e))
  <2>1. /\ DOMAIN Append(s, e) = 1 .. (Len(s) + 1) /\ DOMAIN s = 1 .. Len(s)
        /\ \A i \in 1 .. Len(s) : Append(s, e)[i] = s[i]
        /\ Append(s, e)[Len(s) + 1] = e /\ Len(s) \in Nat
    OBVIOUS
  <2>2. \A i \in 1 .. (Len(s) + 1) : i \in 1 .. Len(s) \/ i = Len(s) + 1
    BY <2>1
  <2>3. NoRequest(s) => \A i \in 1 .. Len(s) : s[i].kind # "request"
    BY <2>1 DEF NoRequest, Range
  <2> QED
    BY <1>1, <2>1, <2>2, <2>3 DEF One
<1>2. ASSUME s # <<>>
      PROVE  One(Tail(s)) /\ (Head(s).kind = "request" => NoRequest(Tail(s)))
  <2>1. /\ DOMAIN s = 1 .. Len(s) /\ DOMAIN Tail(s) = 1 .. (Len(s) - 1)
        /\ Head(s) = s[1] /\ Len(s) \in Nat /\ Len(s) > 0
        /\ \A i \in 1 .. (Len(s) - 1) : Tail(s)[i] = s[i + 1]
    BY <1>2
  <2>2. /\ 1 \in DOMAIN s
        /\ \A i \in 1 .. (Len(s) - 1) : i + 1 \in DOMAIN s /\ i + 1 # 1
        /\ \A i, j \in 1 .. (Len(s) - 1) : i + 1 = j + 1 => i = j
    BY <2>1
  <2>3. One(Tail(s))
    BY <2>1, <2>2 DEF One
  <2>4. Head(s).kind = "request" => NoRequest(Tail(s))
    BY <2>1, <2>2 DEF One, NoRequest, Range
  <2> QED
    BY <2>3, <2>4
<1> QED
  BY <1>1, <1>2

LEMMA OneEmpty == One(<<>>) /\ NoRequest(<<>>)
BY RangeEmpty DEF One, NoRequest

-----------------------------------------------------------------------------
(* The invariant, in terms of the sets of frames.                           *)

Inside == open \cup (IF slot = "gone" THEN {} ELSE Range(stdin))

LEMMA Quiet == NoRequestInFlight <=> open = {} /\ NoRequest(stdin)
BY DEF NoRequestInFlight, NoRequest, Range

LEMMA QuietNext == NoRequestInFlight' <=> open' = {} /\ NoRequest(stdin')
BY DEF NoRequestInFlight, NoRequest, Range

LEMMA RunFacts ==
    \A c : MayRun(c) <=> c \in Range(executed) \/ \E f \in Range(stdin) : f.from = c
BY DEF MayRun, Range

LEMMA RunFactsNext ==
    \A c : MayRun(c)' <=> c \in Range(executed') \/ \E f \in Range(stdin') : f.from = c
BY DEF MayRun, Range

LEMMA RequestParts ==
    RequestInv <=>
        /\ One(stdin)
        /\ \A f \in Range(stdin) : f.kind = "request" \/ f.from = Nobody
        /\ \A f \in Range(responses) : f.kind \in {"answer", "error"}
        /\ \A f \in Answers : f.id < nextId
        /\ open # {} => NoRequest(stdin)
        /\ \A f \in Inside :
              f.kind = "request" =>
                 lock \in Actors /\ pc[lock] = "awaiting" /\ f = Request(lock, nextId - 1)
        /\ \A f \in open : f.kind = "request"
        /\ \A f \in Answers : f.id = nextId - 1 =>
              /\ open = {} /\ NoRequest(stdin)
              /\ \A a \in Actors : pc[a] # "sending" /\ (pc[a] = "awaiting" => f.from = a)
BY Quiet DEF RequestInv, One, NoRequest, Inside

LEMMA RequestPartsNext ==
    RequestInv' <=>
        /\ One(stdin')
        /\ \A f \in Range(stdin') : f.kind = "request" \/ f.from = Nobody
        /\ \A f \in Range(responses') : f.kind \in {"answer", "error"}
        /\ \A f \in Answers' : f.id < nextId'
        /\ open' # {} => NoRequest(stdin')
        /\ \A f \in Inside' :
              f.kind = "request" =>
                 lock' \in Actors /\ pc'[lock'] = "awaiting" /\ f = Request(lock', nextId' - 1)
        /\ \A f \in open' : f.kind = "request"
        /\ \A f \in Answers' : f.id = nextId' - 1 =>
              /\ open' = {} /\ NoRequest(stdin')
              /\ \A a \in Actors : pc'[a] # "sending" /\ (pc'[a] = "awaiting" => f.from = a)
<1>1. RequestInv' <=>
        /\ One(stdin')
        /\ \A f \in Range(stdin') : f.kind = "request" \/ f.from = Nobody
        /\ \A f \in Range(responses') : f.kind \in {"answer", "error"}
        /\ \A f \in Answers' : f.id < nextId'
        /\ open' # {} => NoRequest(stdin')
        /\ \A f \in Inside' :
              f.kind = "request" =>
                 lock' \in Actors /\ pc'[lock'] = "awaiting" /\ f = Request(lock, nextId - 1)'
        /\ \A f \in open' : f.kind = "request"
        /\ \A f \in Answers' : f.id = nextId' - 1 =>
              /\ NoRequestInFlight'
              /\ \A a \in Actors : pc'[a] # "sending" /\ (pc'[a] = "awaiting" => f.from = a)
  BY DEF RequestInv, One, NoRequest, Inside
<1>2. Request(lock, nextId - 1)' = Request(lock', nextId' - 1)
  BY DEF Request
<1> QED
  BY <1>1, <1>2, QuietNext

Orderly ==
    mode = "sequential" =>
        \A c, d \in Calls : c < d /\ pc[d] # "idle" => pc[c] = "done"

LEMMA Parts ==
    McpInv <=> TypeOK /\ LockInv /\ GoneInv /\ RequestInv /\ ExecInv /\ OutcomeInv
BY DEF McpInv

LEMMA PartsNext ==
    McpInv' <=> TypeOK' /\ LockInv' /\ GoneInv' /\ RequestInv' /\ ExecInv' /\ OutcomeInv'
BY DEF McpInv

-----------------------------------------------------------------------------
(* How the actors move.                                                     *)

Places == {"idle", "queued", "sending", "awaiting", "notifying",
           "aborting", "hanging up", "waiting", "reaping", "done"}

PcStep(a, where) ==
    /\ pc' \in [Actors -> Places] /\ pc'[a] = where
    /\ \A b \in Actors \ {a} : pc'[b] = pc[b]

LEMMA MovesStep ==
    ASSUME TypeOK, NEW a \in Actors, NEW where \in Places, Moves(a, where)
    PROVE  PcStep(a, where)
BY DEF TypeOK, Moves, PcStep, Places

LEMMA EndsStep ==
    ASSUME TypeOK, NEW a \in Actors, NEW how \in Outcomes, Ends(a, how)
    PROVE  /\ PcStep(a, "done")
           /\ outcome' \in [Calls -> Outcomes]
           /\ \A c \in Calls : outcome'[c] = IF c = a THEN how ELSE outcome[c]
<1>1. PcStep(a, "done")
  BY MovesStep DEF Ends, Places
<1>2. outcome \in [Calls -> Outcomes]
  BY DEF TypeOK
<1> QED
  BY <1>1, <1>2 DEF Ends

\* Nobody holds the session but the one that locked the slot.
LEMMA HolderFacts ==
    ASSUME McpInv, NEW a \in Actors
    PROVE  /\ pc[a] \in Places
           /\ Holding(a) <=> lock = a
           /\ lock = a => slot = "taken" /\ lock \in Actors /\ lock # Nobody
           /\ \A b \in Actors \ {a} : lock = a => ~Holding(b)
BY ActorFacts DEF McpInv, LockInv, TypeOK, Places

\* An actor moves and keeps, or still lacks, the session.
LEMMA LockSame ==
    ASSUME McpInv, NEW a \in Actors, NEW where, PcStep(a, where),
           Holding(a)' <=> Holding(a),
           where \in {"sending", "awaiting"} => a # Closer,
           UNCHANGED <<lock, slot>>
    PROVE  LockInv'
<1>1. \A b \in Actors \ {a} : Holding(b)' <=> Holding(b)
  BY DEF PcStep, Holding
<1> QED
  BY <1>1 DEF McpInv, LockInv, PcStep

LEMMA LockFreed ==
    ASSUME McpInv, lock' = Nobody, slot' # "taken",
           \A a \in Actors : Holding(a)' => Holding(a) /\ lock # a
    PROVE  LockInv'
<1>1. \A a \in Actors : ~Holding(a)'
  BY DEF McpInv, LockInv
<1> QED
  BY <1>1, ActorFacts DEF LockInv, Holding

LEMMA LockTaken ==
    ASSUME McpInv, NEW a \in Actors, lock = Nobody, lock' = a, slot' = "taken",
           NEW where, PcStep(a, where), Holding(a)',
           where \in {"sending", "awaiting"} => a # Closer
    PROVE  LockInv'
<1>1. \A b \in Actors \ {a} : ~Holding(b)'
  BY ActorFacts DEF McpInv, LockInv, PcStep, Holding
<1> QED
  BY <1>1, ActorFacts DEF McpInv, LockInv, PcStep

LEMMA LockStill ==
    ASSUME McpInv, UNCHANGED <<lock, slot, pc>>
    PROVE  LockInv'
BY DEF McpInv, LockInv, Holding

\* The order of a sequential batch is kept when no call begins.
NoCallBegins ==
    /\ mode' = mode
    /\ \A c \in Calls : /\ pc'[c] # "idle" => pc[c] # "idle"
                        /\ pc[c] = "done" => pc'[c] = "done"
                        /\ pc'[c] \in {"queued", "sending"} =>
                              pc[c] \in {"queued", "sending"}

LEMMA OrderlyKept == ASSUME McpInv, NoCallBegins PROVE Orderly'
BY DEF McpInv, ExecInv, Orderly, NoCallBegins

\* What the server has executed and may yet execute stays.
LEMMA ExecKept ==
    ASSUME McpInv, mode' = mode, executed' = executed, Orderly',
           \A f \in Range(stdin') : f \in Range(stdin) \/ f.from = Nobody,
           \A f \in open' \cup Answers' : f.from \in Calls =>
              f \in open \cup Answers \/ f.from \in Range(executed),
           \A c \in Calls : pc'[c] \in {"idle", "queued", "sending"} =>
              pc[c] \in {"idle", "queued", "sending"}
    PROVE  ExecInv'
<1>1. \A c \in Calls : MayRun(c)' => MayRun(c)
  BY ActorFacts, RunFacts, RunFactsNext
<1>2. \A c \in Calls : pc'[c] \in {"idle", "queued", "sending"} => ~MayRun(c)'
  BY <1>1 DEF McpInv, ExecInv
<1>3. \A f \in Range(stdin') :
         f.from \in Calls =>
            /\ f.from \notin Range(executed')
            /\ mode' = "sequential" => \A c \in Range(executed') : c < f.from
  BY ActorFacts DEF McpInv, ExecInv
<1>4. \A f \in open' \cup Answers' : f.from \in Calls => f.from \in Range(executed')
  BY DEF McpInv, ExecInv
<1>5. ExecutedInOrder'
  BY DEF McpInv, ExecInv, ExecutedInOrder
<1> QED
  BY <1>2, <1>3, <1>4, <1>5 DEF ExecInv, Orderly

\* The outcomes so far stay true.
LEMMA OutcomeKept ==
    ASSUME McpInv, outcome' = outcome, source' = source,
           \A c \in Calls : pc[c] = "done" => pc'[c] = "done",
           \A c \in Calls : pc[c] = "done" /\ MayRun(c)' => MayRun(c),
           Range(executed) \subseteq Range(executed'),
           slot = "gone" => slot' = "gone"
    PROVE  OutcomeInv'
<1>1. \A c \in Calls : outcome[c] # "none" => pc[c] = "done" /\ pc'[c] = "done"
  BY DEF McpInv, OutcomeInv
<1>2. \A c \in Calls : GivenUp(c)' => slot' = "gone"
  BY DEF McpInv, OutcomeInv, GivenUp
<1>3. DefiniteMeansSettled'
  <2> SUFFICES ASSUME NEW c \in Calls
               PROVE  /\ outcome[c] = "not sent" => ~MayRun(c)'
                      /\ outcome[c] = "answered" =>
                            c \in Range(executed') /\ source[c] = c
    BY DEF DefiniteMeansSettled
  <2>1. /\ outcome[c] = "not sent" => ~MayRun(c)
        /\ outcome[c] = "answered" => c \in Range(executed) /\ source[c] = c
    BY DEF McpInv, OutcomeInv, DefiniteMeansSettled
  <2> QED
    BY <1>1, <2>1
<1> QED
  BY <1>1, <1>2, <1>3 DEF OutcomeInv

\* The actor a returns with an outcome that is true.
LEMMA OutcomeEnds ==
    ASSUME McpInv, NEW a \in Actors, NEW how \in Outcomes, PcStep(a, "done"), pc[a] # "done",
           \A c \in Calls : outcome'[c] = IF c = a THEN how ELSE outcome[c],
           \A c \in Calls \ {a} : source'[c] = source[c],
           \A c \in Calls : MayRun(c)' => MayRun(c),
           executed' = executed,
           slot = "gone" => slot' = "gone",
           a \in Calls =>
              /\ GivenUp(a)' => slot' = "gone"
              /\ how = "not sent" => ~MayRun(a)
              /\ how = "answered" => a \in Range(executed) /\ source'[a] = a
    PROVE  OutcomeInv'
<1>1. ASSUME NEW c \in Calls, c # a
      PROVE  /\ outcome'[c] = outcome[c] /\ source'[c] = source[c] /\ pc'[c] = pc[c]
             /\ GivenUp(c)' => slot' = "gone"
             /\ outcome[c] # "none" => pc[c] = "done"
             /\ outcome[c] = "not sent" => ~MayRun(c)
             /\ outcome[c] = "answered" => c \in Range(executed) /\ source[c] = c
  <2>1. c \in Actors
    BY ActorFacts
  <2>2. outcome'[c] = outcome[c] /\ source'[c] = source[c] /\ pc'[c] = pc[c]
    BY <1>1, <2>1 DEF PcStep
  <2>3. GivenUp(c)' => GivenUp(c)
    BY <2>2 DEF GivenUp
  <2> QED
    BY <2>2, <2>3 DEF McpInv, OutcomeInv, DefiniteMeansSettled
<1>2. \A c \in Calls : outcome'[c] # "none" => pc'[c] = "done"
  BY <1>1 DEF PcStep
<1>3. \A c \in Calls : GivenUp(c)' => slot' = "gone"
  BY <1>1
<1>4. \A c \in Calls :
         /\ outcome'[c] = "not sent" => ~MayRun(c)'
         /\ outcome'[c] = "answered" => c \in Range(executed') /\ source'[c] = c
  BY <1>1
<1> QED
  BY <1>2, <1>3, <1>4 DEF OutcomeInv, DefiniteMeansSettled

\* No new request and no new answer.
LEMMA RequestKept ==
    ASSUME McpInv, nextId' = nextId, slot = "gone" => slot' = "gone",
           One(stdin'),
           \A f \in Range(stdin') :
              f \in Range(stdin) \/ (f.kind # "request" /\ f.from = Nobody),
           open' \subseteq open, Answers' \subseteq Answers,
           \A f \in Range(responses') : f.kind \in {"answer", "error"},
           \A a \in Actors : pc'[a] \in {"sending", "awaiting"} => pc'[a] = pc[a],
           \/ /\ lock' = lock
              /\ lock \in Actors /\ pc[lock] = "awaiting" => pc'[lock] = "awaiting"
           \/ \A f \in Inside' : f.kind # "request"
    PROVE  RequestInv'
<1>1. /\ \A f \in Range(stdin) : f.kind = "request" \/ f.from = Nobody
      /\ \A f \in Answers : f.id < nextId
      /\ open # {} => NoRequest(stdin)
      /\ \A f \in Inside :
            f.kind = "request" =>
               lock \in Actors /\ pc[lock] = "awaiting" /\ f = Request(lock, nextId - 1)
      /\ \A f \in open : f.kind = "request"
      /\ \A f \in Answers : f.id = nextId - 1 =>
            /\ open = {} /\ NoRequest(stdin)
            /\ \A a \in Actors : pc[a] # "sending" /\ (pc[a] = "awaiting" => f.from = a)
  BY RequestParts DEF McpInv
<1>2. NoRequest(stdin) => NoRequest(stdin')
  BY DEF NoRequest
<1>3. \A f \in Inside' : f.kind = "request" => f \in Inside
  BY DEF Inside
<1>4. \A f \in Inside' :
         f.kind = "request" =>
            /\ lock' \in Actors /\ pc'[lock'] = "awaiting"
            /\ f = Request(lock', nextId' - 1)
  BY <1>1, <1>3
<1>5. \A f \in Answers' : f.id = nextId' - 1 =>
         /\ open' = {} /\ NoRequest(stdin')
         /\ \A a \in Actors : pc'[a] # "sending" /\ (pc'[a] = "awaiting" => f.from = a)
  <2> SUFFICES ASSUME NEW f \in Answers', f.id = nextId' - 1
               PROVE  /\ open' = {} /\ NoRequest(stdin')
                      /\ \A a \in Actors :
                            pc'[a] # "sending" /\ (pc'[a] = "awaiting" => f.from = a)
    OBVIOUS
  <2>1. /\ open = {} /\ NoRequest(stdin)
        /\ \A a \in Actors : pc[a] # "sending" /\ (pc[a] = "awaiting" => f.from = a)
    BY <1>1
  <2> QED
    BY <1>2, <2>1
<1>6. \A f \in Range(stdin') : f.kind = "request" \/ f.from = Nobody
  BY <1>1
<1>7. /\ \A f \in Answers' : f.id < nextId'
      /\ open' # {} => NoRequest(stdin')
      /\ \A f \in open' : f.kind = "request"
  BY <1>1, <1>2
<1> QED
  BY <1>4, <1>5, <1>6, <1>7, RequestPartsNext

LEMMA Unmoved ==
    ASSUME McpInv
    PROVE  /\ stdin' = stdin => One(stdin') /\ Range(stdin') = Range(stdin)
           /\ UNCHANGED <<stdout, responses>> => Answers' = Answers
           /\ responses' = responses =>
                 \A f \in Range(responses') : f.kind \in {"answer", "error"}
           /\ UNCHANGED <<stdin, executed>> => \A c : MayRun(c)' => MayRun(c)
BY RequestParts DEF McpInv, One, Range, Answers, Heard, MayRun

-----------------------------------------------------------------------------
(* Calls begin, and requests leave the queue without the session.           *)

LEMMA OutsideHeld ==
    ASSUME McpInv, NEW a \in Actors, NEW where \in {"queued", "done"},
           pc[a] \in {"idle", "queued"}, PcStep(a, where),
           UNCHANGED <<mode, connected, session, stdin, stdout, nextId, seen, source, server>>,
           outcome' \in [Calls -> Outcomes], OutcomeInv', Orderly'
    PROVE  McpInv'
<1>1. ~Holding(a) /\ ~Holding(a)' /\ lock # a
  <2>1. ~Holding(a) /\ ~Holding(a)'
    BY DEF PcStep, Holding
  <2> QED
    BY <2>1, HolderFacts
<1>2. /\ UNCHANGED <<mode, connected, stdin, stdout, nextId, seen, source>>
      /\ UNCHANGED <<slot, lock, child, input, reader, responses, open, executed, noise>>
  BY DEF session, server
<1>3. LockInv'
  BY <1>1, <1>2, LockSame
<1>4. GoneInv'
  BY <1>2 DEF McpInv, GoneInv
<1>5. \A b \in Actors : pc'[b] \in {"sending", "awaiting"} => pc'[b] = pc[b]
  BY DEF PcStep
<1>6. lock \in Actors /\ pc[lock] = "awaiting" => pc'[lock] = "awaiting"
  BY <1>1 DEF PcStep
<1>7. RequestInv'
  BY <1>2, <1>5, <1>6, Unmoved, RequestKept
<1>8. \A c \in Calls : pc'[c] \in {"idle", "queued", "sending"} =>
         pc[c] \in {"idle", "queued", "sending"}
  BY ActorFacts DEF PcStep
<1>9. ExecInv'
  BY <1>2, <1>8, Unmoved, ExecKept
<1>10. TypeOK'
  BY <1>2 DEF PcStep, Places, McpInv, TypeOK
<1> QED
  BY <1>3, <1>4, <1>7, <1>9, <1>10, PartsNext

LEMMA StartStep ==
    ASSUME McpInv, NEW c \in Calls, StartCall(c) \/ RefuseCall(c)
    PROVE  McpInv'
<1>1. /\ TypeOK /\ c \in Actors /\ c \in Nat /\ pc[c] = "idle" /\ Ready(c)
      /\ UNCHANGED <<mode, connected, session, stdin, stdout, nextId, seen, source, server>>
  BY ActorFacts DEF StartCall, RefuseCall, McpInv
<1>2. /\ UNCHANGED <<mode, stdin, executed, slot>>
      /\ \A d : MayRun(d)' => MayRun(d)
  BY <1>1, Unmoved DEF session, server
<1>3. ~MayRun(c)
  BY <1>1 DEF McpInv, ExecInv
<1>4. ASSUME NEW where \in {"queued", "done"}, PcStep(c, where) PROVE Orderly'
  <2> SUFFICES ASSUME mode = "sequential", NEW b \in Calls, NEW d \in Calls, b < d,
                      pc'[d] # "idle"
               PROVE  pc'[b] = "done"
    BY <1>2 DEF Orderly
  <2>1. b \in Actors /\ d \in Actors /\ b # d
    BY ActorFacts
  <2>2. CASE d = c
    <3>1. b \in 1 .. c - 1
      BY <2>2 DEF Calls
    <3>2. pc[b] = "done"
      BY <1>1, <3>1 DEF Ready
    <3> QED
      BY <1>4, <2>1, <2>2, <3>2 DEF PcStep
  <2>3. CASE d # c
    <3>1. pc[d] # "idle"
      BY <1>4, <2>1, <2>3 DEF PcStep
    <3>2. pc[b] = "done"
      BY <3>1 DEF McpInv, ExecInv
    <3> QED
      BY <1>1, <1>4, <2>1, <3>2 DEF PcStep
  <2> QED
    BY <2>2, <2>3
<1>5. CASE StartCall(c)
  <2>1. Moves(c, "queued") /\ outcome' = outcome /\ source' = source
    BY <1>5 DEF StartCall
  <2>2. PcStep(c, "queued")
    BY <1>1, <2>1, MovesStep DEF Places
  <2>3. \A d \in Calls : pc[d] = "done" => pc'[d] = "done"
    BY <1>1, <2>2, ActorFacts DEF PcStep
  <2>4. OutcomeInv'
    BY <1>2, <2>1, <2>3, OutcomeKept
  <2>5. outcome' \in [Calls -> Outcomes]
    BY <1>1, <2>1 DEF TypeOK
  <2> QED
    BY <1>1, <1>4, <2>2, <2>4, <2>5, OutsideHeld
<1>6. CASE RefuseCall(c)
  <2>1. Ends(c, "not sent") /\ source' = source
    BY <1>6 DEF RefuseCall
  <2>2. /\ PcStep(c, "done") /\ outcome' \in [Calls -> Outcomes]
        /\ \A d \in Calls : outcome'[d] = IF d = c THEN "not sent" ELSE outcome[d]
    BY <1>1, <2>1, EndsStep DEF Outcomes
  <2>3. ~GivenUp(c)'
    BY <2>2 DEF GivenUp
  <2>4. OutcomeInv'
    BY <1>1, <1>2, <1>3, <2>1, <2>2, <2>3, OutcomeEnds DEF Outcomes
  <2> QED
    BY <1>1, <1>4, <2>2, <2>4, OutsideHeld
<1> QED
  BY <1>5, <1>6

LEMMA QueueStep ==
    ASSUME McpInv, NEW a \in Actors, StartOther(a) \/ QueueTimeout(a) \/ FindClosed(a)
    PROVE  McpInv'
<1>1. /\ TypeOK /\ pc[a] \in {"idle", "queued"}
      /\ UNCHANGED <<mode, connected, session, stdin, stdout, nextId, seen, source, server>>
      /\ UNCHANGED source
  BY DEF StartOther, QueueTimeout, FindClosed, McpInv
<1>2. /\ UNCHANGED <<mode, stdin, executed, slot>>
      /\ \A d : MayRun(d)' => MayRun(d)
  BY <1>1, Unmoved DEF session, server
<1>3. CASE StartOther(a)
  <2>1. Moves(a, "queued") /\ outcome' = outcome /\ a \notin Calls
    BY <1>3, ActorFacts DEF StartOther
  <2>2. PcStep(a, "queued")
    BY <1>1, <2>1, MovesStep DEF Places
  <2>3. \A d \in Calls : pc'[d] = pc[d]
    BY <2>1, <2>2, ActorFacts DEF PcStep
  <2>4. OutcomeInv'
    BY <1>1, <1>2, <2>1, <2>3, OutcomeKept
  <2>5. outcome' \in [Calls -> Outcomes]
    BY <1>1, <2>1 DEF TypeOK
  <2>6. Orderly'
    BY <1>2, <2>3, OrderlyKept DEF NoCallBegins
  <2> QED
    BY <1>1, <2>2, <2>4, <2>5, <2>6, OutsideHeld
<1>4. CASE QueueTimeout(a) \/ FindClosed(a)
  <2>1. Ends(a, "not sent") /\ pc[a] = "queued"
    BY <1>4 DEF QueueTimeout, FindClosed
  <2>2. /\ PcStep(a, "done") /\ outcome' \in [Calls -> Outcomes]
        /\ \A d \in Calls : outcome'[d] = IF d = a THEN "not sent" ELSE outcome[d]
    BY <1>1, <2>1, EndsStep DEF Outcomes
  <2>3. a \in Calls => ~MayRun(a) /\ ~GivenUp(a)'
    BY <2>1, <2>2 DEF McpInv, ExecInv, GivenUp
  <2>4. OutcomeInv'
    BY <1>1, <1>2, <2>1, <2>2, <2>3, OutcomeEnds DEF Outcomes
  <2>5. NoCallBegins
    BY <1>2, <2>1, <2>2, ActorFacts DEF NoCallBegins, PcStep
  <2> QED
    BY <1>1, <2>2, <2>4, <2>5, OrderlyKept, OutsideHeld
<1> QED
  BY <1>3, <1>4

-----------------------------------------------------------------------------
(* The session is dropped.                                                  *)

LEMMA DropHeld ==
    ASSUME McpInv, SessionDropped,
           UNCHANGED <<mode, connected, nextId, seen, source, executed, noise>>,
           pc' \in [Actors -> Places], outcome' \in [Calls -> Outcomes],
           \A a \in Actors : pc'[a] = pc[a] \/ pc'[a] = "done",
           \A a \in Actors : Holding(a) => pc'[a] = "done",
           OutcomeInv', Orderly'
    PROVE  McpInv'
<1>1. /\ slot' = "gone" /\ lock' = Nobody /\ reader' = "ended" /\ responses' = <<>>
      /\ child' = (IF child = "up" THEN "dying" ELSE child)
      /\ input' = "closed" /\ stdout' = <<>> /\ open' = {} /\ stdin' = stdin
  BY DEF SessionDropped
<1>2. Answers' = {} /\ Inside' = {} /\ Range(responses') = {}
  BY <1>1, RangeEmpty DEF Answers, Heard, Inside
<1>3. LockInv'
  <2>1. \A a \in Actors : ~Holding(a)'
    BY DEF Holding
  <2> QED
    BY <1>1, <2>1, LockFreed
<1>4. child' # "up" /\ child' \in {"up", "dying", "dead"}
  BY <1>1 DEF McpInv, TypeOK
<1>5. GoneInv'
  BY <1>1, <1>4 DEF GoneInv
<1>6. RequestInv'
  BY <1>1, <1>2, Unmoved, RequestKept
<1>7. ExecInv'
  BY <1>1, <1>2, ActorFacts, ExecKept
<1>8. TypeOK'
  <2>1. /\ stdin' \in Seq(Frames) /\ Len(stdin') <= PipeCap
        /\ stdout' \in Seq(Frames) /\ responses' \in Seq(Frames)
        /\ Len(responses') <= ChannelCap /\ open' \subseteq Frames
    <3>1. <<>> \in Seq(Frames) /\ Len(<<>>) = 0
      OBVIOUS
    <3>2. 0 <= ChannelCap
      BY ConstantsAssumption
    <3> QED
      BY <1>1, <3>1, <3>2 DEF McpInv, TypeOK
  <2> QED
    BY <1>1, <1>4, <2>1 DEF Places, McpInv, TypeOK
<1> QED
  BY <1>3, <1>5, <1>6, <1>7, <1>8, PartsNext

LEMMA LostStep ==
    ASSUME McpInv, NEW a \in Actors, RequestLost(a), Holding(a)
    PROVE  McpInv'
<1>1. /\ TypeOK /\ SessionDropped /\ Ends(a, "doubt")
      /\ UNCHANGED <<mode, connected, nextId, seen, source, executed, noise>>
      /\ UNCHANGED <<mode, source, executed>> /\ stdin' = stdin /\ slot' = "gone"
  BY DEF RequestLost, SessionDropped, McpInv
<1>2. /\ PcStep(a, "done") /\ outcome' \in [Calls -> Outcomes]
      /\ \A d \in Calls : outcome'[d] = IF d = a THEN "doubt" ELSE outcome[d]
  BY <1>1, EndsStep DEF Outcomes
<1>3. pc[a] \notin {"idle", "queued", "done"}
  BY DEF Holding
<1>4. OutcomeInv'
  BY <1>1, <1>2, <1>3, Unmoved, OutcomeEnds DEF Outcomes
<1>5. NoCallBegins
  BY <1>1, <1>2, <1>3, ActorFacts DEF NoCallBegins, PcStep
<1>6. \A b \in Actors : Holding(b) => b = a
  BY HolderFacts
<1> QED
  BY <1>1, <1>2, <1>4, <1>5, <1>6, OrderlyKept, DropHeld DEF PcStep

LEMMA ClosedStep ==
    ASSUME McpInv, Closed
    PROVE  McpInv'
<1>1. /\ TypeOK /\ SessionDropped /\ Moves(Closer, "done") /\ Holding(Closer)
      /\ UNCHANGED <<mode, connected, nextId, seen, source, executed, noise>>
      /\ UNCHANGED <<mode, source, executed, outcome>> /\ stdin' = stdin /\ slot' = "gone"
  BY DEF Closed, SessionDropped, Holding, McpInv
<1>2. PcStep(Closer, "done") /\ Closer \in Actors
  BY <1>1, ActorFacts, MovesStep DEF Places
<1>3. \A c \in Calls : pc'[c] = pc[c]
  BY <1>2, ActorFacts DEF PcStep
<1>4. OutcomeInv'
  BY <1>1, <1>3, Unmoved, OutcomeKept
<1>5. NoCallBegins
  BY <1>1, <1>3 DEF NoCallBegins
<1>6. \A b \in Actors : Holding(b) => b = Closer
  BY <1>1, <1>2, HolderFacts
<1>7. outcome' \in [Calls -> Outcomes]
  BY <1>1 DEF TypeOK
<1> QED
  BY <1>1, <1>2, <1>4, <1>5, <1>6, <1>7, OrderlyKept, DropHeld DEF PcStep

LEMMA HandleStep ==
    ASSUME McpInv, LastHandleDropped
    PROVE  McpInv'
<1>1. /\ TypeOK /\ SessionDropped /\ \A a \in Actors : pc[a] = "done"
      /\ UNCHANGED <<mode, connected, nextId, seen, source, executed, noise>>
      /\ UNCHANGED <<mode, source, executed, outcome, pc>> /\ stdin' = stdin /\ slot' = "gone"
  BY DEF LastHandleDropped, SessionDropped, actors, McpInv
<1>2. OutcomeInv'
  BY <1>1, Unmoved, OutcomeKept
<1>3. NoCallBegins
  BY <1>1 DEF NoCallBegins
<1>4. pc' \in [Actors -> Places] /\ outcome' \in [Calls -> Outcomes]
  BY <1>1 DEF TypeOK, Places
<1> QED
  BY <1>1, <1>2, <1>3, <1>4, OrderlyKept, DropHeld

LEMMA DropStep ==
    ASSUME McpInv, NEW S \in {Calls, {Opener}, {Lister}, {Closer}}, DropFutures(S)
    PROVE  McpInv'
<1>1. /\ TypeOK /\ S \subseteq Actors
      /\ pc' = [a \in Actors |-> IF a \in S THEN "done" ELSE pc[a]]
      /\ outcome' = [c \in Calls |->
                       IF c \notin S \/ pc[c] = "done" THEN outcome[c]
                       ELSE IF c = lock THEN "abandoned" ELSE "dropped"]
      /\ UNCHANGED <<mode, connected, nextId, seen, source, executed, noise>>
      /\ UNCHANGED <<mode, source, executed>>
      /\ IF lock \in S THEN SessionDropped ELSE UNCHANGED <<session, stdin, stdout, open>>
  BY ActorFacts DEF DropFutures, McpInv
<1>2. UNCHANGED stdin /\ (slot = "gone" => slot' = "gone")
      /\ (lock \in S => slot' = "gone")
  BY <1>1 DEF SessionDropped, session
<1>3. pc \in [Actors -> Places] /\ outcome \in [Calls -> Outcomes]
  BY <1>1 DEF TypeOK, Places
<1>4. /\ pc' \in [Actors -> Places] /\ outcome' \in [Calls -> Outcomes]
      /\ \A a \in Actors : pc'[a] = pc[a] \/ pc'[a] = "done"
      /\ \A a \in Actors \ S : pc'[a] = pc[a]
      /\ \A a \in S : pc'[a] = "done"
  BY <1>1, <1>3 DEF Places, Outcomes
<1>5. OutcomeInv'
  <2>1. ASSUME NEW c \in Calls, outcome'[c] = outcome[c]
        PROVE  /\ outcome'[c] # "none" => pc'[c] = "done"
               /\ GivenUp(c)' => slot' = "gone"
               /\ outcome'[c] = "not sent" => ~MayRun(c)'
               /\ outcome'[c] = "answered" => c \in Range(executed') /\ source'[c] = c
    <3>1. GivenUp(c)' => GivenUp(c)
      BY <1>1, <2>1 DEF GivenUp
    <3>2. c \in Actors
      BY ActorFacts
    <3> QED
      BY <1>1, <1>2, <1>4, <2>1, <3>1, <3>2, Unmoved
         DEF McpInv, OutcomeInv, DefiniteMeansSettled
  <2>2. ASSUME NEW c \in Calls, outcome'[c] # outcome[c]
        PROVE  /\ pc'[c] = "done"
               /\ GivenUp(c)' => slot' = "gone"
               /\ outcome'[c] \notin {"not sent", "answered"}
    <3>1. c \in S /\ outcome'[c] = IF c = lock THEN "abandoned" ELSE "dropped"
      BY <1>1, <2>2
    <3>2. GivenUp(c)' => c = lock
      BY <3>1 DEF GivenUp
    <3> QED
      BY <1>2, <1>4, <3>1, <3>2
  <2> QED
    BY <2>1, <2>2 DEF OutcomeInv, DefiniteMeansSettled
<1>6. Orderly'
  <2>1. CASE S = Calls
    BY <1>4, <2>1 DEF Orderly
  <2>2. CASE S # Calls
    <3>1. \A c \in Calls : pc'[c] = pc[c]
      BY <1>4, <2>2, ActorFacts
    <3> QED
      BY <1>1, <3>1, OrderlyKept DEF NoCallBegins
  <2> QED
    BY <2>1, <2>2
<1>7. CASE lock \in S
  <2>1. \A a \in Actors : Holding(a) => a = lock
    BY HolderFacts
  <2> QED
    BY <1>1, <1>4, <1>5, <1>6, <1>7, <2>1, DropHeld
<1>8. CASE lock \notin S
  <2>1. /\ UNCHANGED <<stdin, stdout, open>>
        /\ UNCHANGED <<slot, lock, child, input, reader, responses>>
    BY <1>1, <1>8 DEF session
  <2>2. \A a \in S : ~Holding(a) /\ ~Holding(a)'
    BY <1>1, <1>4, <1>8, HolderFacts DEF Holding
  <2>3. LockInv'
    <3>1. \A a \in Actors : Holding(a)' <=> Holding(a)
      BY <1>4, <2>2 DEF Holding
    <3> QED
      BY <1>4, <2>1, <3>1 DEF McpInv, LockInv
  <2>4. GoneInv'
    BY <2>1 DEF McpInv, GoneInv
  <2>5. \A a \in Actors : pc'[a] \in {"sending", "awaiting"} => pc'[a] = pc[a]
    BY <1>4
  <2>6. lock \in Actors /\ pc[lock] = "awaiting" => pc'[lock] = "awaiting"
    BY <1>4, <1>8
  <2>7. RequestInv'
    BY <1>1, <2>1, <2>5, <2>6, Unmoved, RequestKept
  <2>8. ExecInv'
    BY <1>1, <1>4, <1>6, <2>1, ActorFacts, Unmoved, ExecKept
  <2>9. TypeOK'
    BY <1>1, <1>4, <2>1 DEF Places, TypeOK
  <2> QED
    BY <1>5, <2>3, <2>4, <2>7, <2>8, <2>9, PartsNext
<1> QED
  BY <1>7, <1>8

-----------------------------------------------------------------------------
(* The exchange.                                                            *)

LEMMA TakeStep ==
    ASSUME McpInv, NEW a \in Actors, TakeSession(a)
    PROVE  McpInv'
<1>1. /\ TypeOK /\ pc[a] = "queued" /\ lock = Nobody /\ slot = "held"
      /\ slot' = "taken" /\ lock' = a
      /\ UNCHANGED <<mode, connected, child, input, reader, responses,
                     stdin, stdout, seen, outcome, source, server>>
      /\ UNCHANGED <<mode, stdin, stdout, responses, outcome, source>>
  BY DEF TakeSession, McpInv
<1>2. UNCHANGED <<open, executed, noise>>
  BY <1>1 DEF server
<1>3. PICK where \in {"sending", "aborting"} :
         /\ PcStep(a, where)
         /\ where = "sending" => a # Closer /\ nextId' = nextId + 1
         /\ where = "aborting" => a = Closer /\ nextId' = nextId
  BY <1>1, MovesStep DEF TakeSession, Places
<1>4. NoRequestInFlight
  <2>1. \A b \in Actors : pc[b] # "awaiting"
    BY <1>1, ActorFacts DEF McpInv, LockInv, Holding
  <2>2. lock \notin Actors
    BY <1>1, ActorFacts
  <2>3. open = {} /\ NoRequest(stdin)
    BY <1>1, <2>2, RequestParts DEF McpInv, Inside, NoRequest
  <2> QED
    BY <2>3, Quiet
<1>5. LockInv'
  <2>1. Holding(a)'
    BY <1>3 DEF PcStep, Holding
  <2> QED
    BY <1>1, <1>3, <2>1, LockTaken
<1>6. GoneInv'
  BY <1>1 DEF GoneInv
<1>7. nextId \in Nat /\ nextId' \in Nat \ {0} /\ nextId' >= nextId
  <2>1. nextId \in Nat \ {0} /\ (nextId' = nextId \/ nextId' = nextId + 1)
    BY <1>1, <1>3 DEF TypeOK
  <2> QED
    BY <2>1
<1>8. RequestInv'
  <2>1. /\ One(stdin') /\ open' = {} /\ NoRequest(stdin') /\ Answers' = Answers
        /\ Range(stdin') = Range(stdin)
        /\ \A f \in Range(responses') : f.kind \in {"answer", "error"}
    BY <1>1, <1>2, <1>4, Quiet, Unmoved DEF NoRequest
  <2>2. \A f \in Inside' : f.kind # "request"
    BY <2>1 DEF Inside, NoRequest
  <2>3. \A f \in Answers : f.id \in Nat /\ f.id < nextId
    <3>1. Answers \subseteq Frames
      BY <1>1, RangeFacts DEF TypeOK, Answers, Heard
    <3> QED
      BY <3>1, FrameFacts, RequestParts DEF McpInv
  <2>4. \A f \in Answers' : f.id < nextId'
    BY <1>7, <2>1, <2>3
  <2>5. ASSUME NEW f \in Answers', f.id = nextId' - 1
        PROVE  \A b \in Actors : pc'[b] # "sending" /\ (pc'[b] = "awaiting" => f.from = b)
    <3>1. where = "aborting" /\ nextId' = nextId
      BY <1>3, <1>7, <2>1, <2>3, <2>5
    <3>2. \A b \in Actors : pc[b] # "sending" /\ pc[b] # "awaiting"
      BY <1>1, ActorFacts DEF McpInv, LockInv, Holding
    <3> QED
      BY <1>3, <3>1, <3>2 DEF PcStep
  <2>6. \A f \in Range(stdin') : f.kind = "request" \/ f.from = Nobody
    BY <2>1, RequestParts DEF McpInv
  <2> QED
    BY <2>1, <2>2, <2>4, <2>5, <2>6, RequestPartsNext
<1>9. NoCallBegins
  BY <1>1, <1>3, ActorFacts DEF NoCallBegins, PcStep
<1>10. ExecInv'
  <2>1. \A c \in Calls : pc'[c] \in {"idle", "queued", "sending"} =>
           pc[c] \in {"idle", "queued", "sending"}
    BY <1>1, <1>3, ActorFacts DEF PcStep
  <2> QED
    BY <1>1, <1>2, <1>9, <2>1, OrderlyKept, Unmoved, ExecKept
<1>11. OutcomeInv'
  BY <1>1, <1>2, <1>9, Unmoved, OutcomeKept DEF NoCallBegins
<1>12. TypeOK'
  BY <1>1, <1>2, <1>3, <1>7 DEF PcStep, Places, TypeOK
<1> QED
  BY <1>5, <1>6, <1>8, <1>10, <1>11, <1>12, PartsNext

LEMMA WriteStep ==
    ASSUME McpInv, NEW a \in Actors, Write(a)
    PROVE  McpInv'
<1> DEFINE i == nextId - 1
           f == Request(a, i)
<1>1. /\ TypeOK /\ pc[a] = "sending" /\ Len(stdin) < PipeCap
      /\ stdin' = Append(stdin, f) /\ Moves(a, "awaiting")
      /\ UNCHANGED <<mode, connected, session, stdout, nextId, seen, outcome, source, server>>
      /\ UNCHANGED <<mode, stdout, nextId, outcome, source>>
  BY DEF Write, McpInv
<1>2. /\ UNCHANGED <<slot, lock, child, input, reader, responses>>
      /\ UNCHANGED <<open, executed, noise>>
  BY <1>1 DEF session, server
<1>3. PcStep(a, "awaiting")
  BY <1>1, MovesStep DEF Places
<1>4. lock = a /\ slot = "taken" /\ a # Closer
  BY <1>1, HolderFacts DEF Holding, McpInv, LockInv
<1>5. i \in Nat /\ stdin \in Seq(Frames) /\ nextId \in Nat
  <2>1. nextId \in Nat \ {0} /\ stdin \in Seq(Frames)
    BY <1>1 DEF TypeOK
  <2> QED
    BY <2>1
<1>6. /\ f \in Frames /\ f.kind = "request" /\ f.from = a
      /\ stdin' \in Seq(Frames) /\ Len(stdin') = Len(stdin) + 1
      /\ Range(stdin') = Range(stdin) \cup {f}
  <2>1. f \in Frames /\ f.kind = "request" /\ f.from = a
    BY <1>5, FrameFacts
  <2> HIDE DEF f
  <2> QED
    BY <1>1, <1>5, <2>1, RangeFacts
<1>7. open = {} /\ NoRequest(stdin)
  <2>1. pc[lock] # "awaiting"
    BY <1>1, <1>4
  <2> QED
    BY <1>4, <2>1, RequestParts DEF McpInv, Inside, NoRequest
<1>8. LockInv'
  <2>1. Holding(a) /\ Holding(a)'
    BY <1>1, <1>3 DEF Holding, PcStep
  <2> QED
    BY <1>2, <1>3, <1>4, <2>1, LockSame
<1>9. GoneInv'
  BY <1>2, <1>4 DEF GoneInv
<1>10. Answers' = Answers
  BY <1>1, <1>2, Unmoved
<1>11. RequestInv'
  <2>1. One(stdin')
    BY <1>1, <1>5, <1>6, <1>7, OneFacts, RequestParts DEF McpInv
  <2>2. \A g \in Answers : g.id # nextId - 1 /\ g.id < nextId
    BY <1>1, RequestParts DEF McpInv
  <2>3. \A g \in Range(responses') : g.kind \in {"answer", "error"}
    BY <1>2, Unmoved
  <2>4. \A g \in Range(stdin') : g.kind = "request" \/ g.from = Nobody
    BY <1>6, RequestParts DEF McpInv
  <2>5. \A g \in Inside' : g.kind = "request" => g = f
    BY <1>2, <1>6, <1>7 DEF Inside, NoRequest
  <2>6. f = Request(lock', nextId' - 1)
    BY <1>1, <1>2, <1>4
  <2>7. lock' \in Actors /\ pc'[lock'] = "awaiting"
    BY <1>2, <1>3, <1>4 DEF PcStep
  <2> HIDE DEF f
  <2> QED
    BY <1>1, <1>2, <1>7, <1>10, <2>1, <2>2, <2>3, <2>4, <2>5, <2>6, <2>7, RequestPartsNext
<1>12. NoCallBegins
  BY <1>1, <1>3, ActorFacts DEF NoCallBegins, PcStep
<1>13. \A c \in Calls : MayRun(c)' => MayRun(c) \/ c = a
  BY <1>2, <1>6, RunFacts, RunFactsNext
<1>14. ExecInv'
  <2>1. a \in Calls =>
           /\ a \notin Range(executed)
           /\ mode = "sequential" => \A c \in Range(executed) : c < a
    <3> SUFFICES ASSUME a \in Calls
                 PROVE  /\ a \notin Range(executed)
                        /\ mode = "sequential" => \A c \in Range(executed) : c < a
      OBVIOUS
    <3>1. ~MayRun(a)
      BY <1>1 DEF McpInv, ExecInv
    <3>2. a \notin Range(executed)
      BY <3>1, RunFacts
    <3>3. ASSUME mode = "sequential", NEW c \in Range(executed) PROVE c < a
      <4>1. c \in Calls
        BY <1>1, RangeFacts DEF TypeOK
      <4>2. pc[c] # "idle"
        BY <3>3, <4>1, RunFacts DEF McpInv, ExecInv
      <4>3. ~(a < c)
        BY <1>1, <3>3, <4>1, <4>2 DEF McpInv, ExecInv
      <4>4. a \in Nat /\ c \in Nat /\ a # c
        BY <3>2, <4>1, ActorFacts
      <4> QED
        BY <4>3, <4>4
    <3> QED
      BY <3>2, <3>3
  <2>2. \A c \in Calls : pc'[c] \in {"idle", "queued", "sending"} => ~MayRun(c)'
    BY <1>3, <1>13, ActorFacts DEF PcStep, McpInv, ExecInv
  <2>3. \A g \in Range(stdin') :
           g.from \in Calls =>
              /\ g.from \notin Range(executed')
              /\ mode' = "sequential" => \A c \in Range(executed') : c < g.from
    BY <1>1, <1>2, <1>6, <2>1 DEF McpInv, ExecInv
  <2>4. \A g \in open' \cup Answers' : g.from \in Calls => g.from \in Range(executed')
    BY <1>2, <1>10 DEF McpInv, ExecInv
  <2>5. ExecutedInOrder'
    BY <1>1, <1>2 DEF McpInv, ExecInv, ExecutedInOrder
  <2> QED
    BY <1>12, <2>2, <2>3, <2>4, <2>5, OrderlyKept DEF ExecInv, Orderly
<1>15. OutcomeInv'
  <2>1. \A c \in Calls : pc[c] = "done" /\ MayRun(c)' => MayRun(c)
    BY <1>1, <1>13
  <2> QED
    BY <1>1, <1>2, <1>12, <2>1, OutcomeKept DEF NoCallBegins
<1>16. TypeOK'
  <2>1. Len(stdin') <= PipeCap
    BY <1>1, <1>5, <1>6, ConstantsAssumption
  <2> QED
    BY <1>1, <1>2, <1>3, <1>6, <2>1 DEF PcStep, Places, TypeOK
<1> QED
  BY <1>8, <1>9, <1>11, <1>14, <1>15, <1>16, PartsNext

\* A response that fits is the answer to the one request of its actor.
LEMMA FitsFacts ==
    ASSUME McpInv, NEW a \in Actors, pc[a] = "awaiting", responses # <<>>,
           ~Unfit(Head(responses))
    PROVE  /\ lock = a /\ slot = "taken" /\ a # Closer
           /\ Head(responses).from = a
           /\ open = {} /\ NoRequest(stdin)
           /\ a \in Calls => a \in Range(executed)
           /\ Tail(responses) \in Seq(Frames)
           /\ Len(Tail(responses)) <= ChannelCap
           /\ Range(Tail(responses)) \subseteq Range(responses)
<1>1. lock = a /\ slot = "taken" /\ a # Closer
  BY HolderFacts DEF Holding, McpInv, LockInv
<1>2. /\ responses \in Seq(Frames) /\ Len(responses) <= ChannelCap
      /\ ChannelCap \in Nat
  BY ConstantsAssumption DEF McpInv, TypeOK
<1>3. /\ Head(responses) \in Range(responses)
      /\ Tail(responses) \in Seq(Frames) /\ Len(Tail(responses)) = Len(responses) - 1
      /\ Len(responses) \in Nat
      /\ Range(responses) = {Head(responses)} \cup Range(Tail(responses))
  BY <1>2, RangeFacts
<1>4. Head(responses) \in Answers /\ Head(responses).id = nextId - 1
  BY <1>3, RequestParts DEF McpInv, Unfit, Answers, Heard
<1>5. /\ Head(responses).from = a
      /\ open = {} /\ NoRequest(stdin)
  BY <1>4, RequestParts DEF McpInv
<1>6. a \in Calls => a \in Range(executed)
  BY <1>4, <1>5 DEF McpInv, ExecInv
<1>7. Len(Tail(responses)) <= ChannelCap
  BY <1>2, <1>3
<1> QED
  BY <1>1, <1>3, <1>5, <1>6, <1>7

\* After it nothing is in flight, and the rest of the connection is as before.
LEMMA FitsHeld ==
    ASSUME McpInv, NEW a \in Actors, pc[a] = "awaiting", Fits(a),
           NEW where \in Places, PcStep(a, where), where \notin {"sending", "awaiting"},
           UNCHANGED <<nextId, child, input, stdin, stdout, reader, server, mode, connected>>,
           slot' \in {"held", "taken"},
           seen' \subseteq Cursors, outcome' \in [Calls -> Outcomes],
           source' \in [Calls -> Actors \cup {Nobody}], lock' \in Actors \cup {Nobody},
           LockInv', OutcomeInv', a \in Calls => where = "done"
    PROVE  McpInv'
<1>1. /\ UNCHANGED <<nextId, child, input, stdin, stdout, reader, mode, connected>>
      /\ UNCHANGED <<open, executed, noise>>
      /\ responses # <<>> /\ ~Unfit(Head(responses)) /\ responses' = Tail(responses)
  BY DEF server, Fits
<1>2. /\ open' = {} /\ NoRequest(stdin')
      /\ responses' \in Seq(Frames) /\ Len(responses') <= ChannelCap
      /\ Range(responses') \subseteq Range(responses) /\ slot = "taken"
  BY <1>1, FitsFacts
<1>3. Answers' \subseteq Answers
  BY <1>1, <1>2 DEF Answers, Heard
<1>4. \A f \in Inside' : f.kind # "request"
  BY <1>2 DEF Inside, NoRequest
<1>5. \A b \in Actors : pc'[b] \in {"sending", "awaiting"} => pc'[b] = pc[b]
  BY DEF PcStep
<1>6. \A f \in Range(responses') : f.kind \in {"answer", "error"}
  BY <1>2, RequestParts DEF McpInv
<1>7. RequestInv'
  BY <1>1, <1>2, <1>3, <1>4, <1>5, <1>6, Unmoved, RequestKept
<1>8. GoneInv'
  BY DEF GoneInv
<1>9. NoCallBegins
  BY <1>1, ActorFacts DEF NoCallBegins, PcStep
<1>10. ExecInv'
  <2>1. \A c \in Calls : pc'[c] \in {"idle", "queued", "sending"} =>
           pc[c] \in {"idle", "queued", "sending"}
    BY ActorFacts DEF PcStep
  <2> QED
    BY <1>1, <1>2, <1>3, <1>9, <2>1, OrderlyKept, Unmoved, ExecKept
<1>11. TypeOK'
  BY <1>1, <1>2 DEF PcStep, Places, McpInv, TypeOK
<1> QED
  BY <1>7, <1>8, <1>10, <1>11, PartsNext

LEMMA FreedHeld ==
    ASSUME McpInv, NEW a \in Actors, lock = a, SessionPutBack,
           NEW where, PcStep(a, where), where \in {"queued", "done"}
    PROVE  LockInv' /\ lock' = Nobody /\ slot' = "held"
<1>1. lock' = Nobody /\ slot' = "held"
  BY DEF SessionPutBack
<1>2. \A b \in Actors : Holding(b)' => Holding(b) /\ lock # b
  BY HolderFacts DEF PcStep, Holding
<1> QED
  BY <1>1, <1>2, LockFreed

LEMMA ReturnStep ==
    ASSUME McpInv, NEW a \in Actors, Return(a)
    PROVE  McpInv'
<1> DEFINE how == IF Head(responses).body = "unusable" THEN "doubt" ELSE "answered"
<1>1. /\ TypeOK /\ Fits(a) /\ SessionPutBack /\ Ends(a, how) /\ pc[a] = "awaiting"
      /\ responses # <<>> /\ ~Unfit(Head(responses))
      /\ source' = [c \in Calls |-> IF c = a THEN Head(responses).from ELSE source[c]]
      /\ UNCHANGED <<nextId, child, input, stdin, stdout, reader, server, mode, connected>>
      /\ seen' = seen /\ executed' = executed
  BY DEF Return, Fits, SessionPutBack, server, McpInv
<1>2. /\ lock = a /\ Head(responses).from = a /\ slot = "taken"
      /\ a \in Calls => a \in Range(executed)
  BY <1>1, FitsFacts
<1>3. how \in {"doubt", "answered"} /\ how \in Outcomes
  BY DEF Outcomes
<1> HIDE DEF how
<1>4. /\ PcStep(a, "done") /\ outcome' \in [Calls -> Outcomes]
      /\ \A c \in Calls : outcome'[c] = IF c = a THEN how ELSE outcome[c]
  BY <1>1, <1>3, EndsStep
<1>5. LockInv' /\ lock' = Nobody /\ slot' = "held"
  BY <1>1, <1>2, <1>4, FreedHeld
<1>6. source' \in [Calls -> Actors \cup {Nobody}]
  BY <1>1, <1>2 DEF TypeOK
<1>7. a \in Calls => source'[a] = a /\ ~GivenUp(a)'
  <2> SUFFICES ASSUME a \in Calls PROVE source'[a] = a /\ ~GivenUp(a)'
    OBVIOUS
  <2>1. source'[a] = a /\ outcome'[a] = how
    BY <1>1, <1>2, <1>4
  <2> QED
    BY <1>3, <2>1, ActorFacts DEF GivenUp
<1>8. OutcomeInv'
  <2>1. \A c \in Calls \ {a} : source'[c] = source[c]
    BY <1>1
  <2>2. \A c \in Calls : MayRun(c)' => MayRun(c)
    BY <1>1, Unmoved
  <2> QED
    BY <1>1, <1>2, <1>3, <1>4, <1>7, <2>1, <2>2, OutcomeEnds
<1>9. seen' \subseteq Cursors
  BY <1>1 DEF TypeOK
<1> QED
  BY <1>1, <1>4, <1>5, <1>6, <1>8, <1>9, FitsHeld DEF Places

LEMMA NextPageStep ==
    ASSUME McpInv, NextPage
    PROVE  McpInv'
<1>1. /\ TypeOK /\ Fits(Lister) /\ SessionPutBack /\ Moves(Lister, "queued")
      /\ pc[Lister] = "awaiting" /\ responses # <<>> /\ ~Unfit(Head(responses))
      /\ UNCHANGED <<nextId, child, input, stdin, stdout, reader, server, mode, connected>>
      /\ UNCHANGED <<outcome, source, executed>>
      /\ seen' \subseteq Cursors
      /\ Lister \in Actors /\ Lister \notin Calls
  BY ActorFacts DEF NextPage, Fits, SessionPutBack, server, McpInv, TypeOK
<1>2. lock = Lister /\ slot = "taken"
  BY <1>1, FitsFacts
<1>3. PcStep(Lister, "queued")
  BY <1>1, MovesStep DEF Places
<1>4. LockInv' /\ lock' = Nobody /\ slot' = "held"
  BY <1>1, <1>2, <1>3, FreedHeld
<1>5. \A c \in Calls : pc[c] = "done" => pc'[c] = "done"
  BY <1>1, <1>3, ActorFacts DEF PcStep
<1>6. OutcomeInv'
  BY <1>1, <1>2, <1>5, Unmoved, OutcomeKept
<1>7. outcome' \in [Calls -> Outcomes] /\ source' \in [Calls -> Actors \cup {Nobody}]
  BY <1>1 DEF TypeOK
<1> QED
  BY <1>1, <1>3, <1>4, <1>6, <1>7, FitsHeld DEF Places

LEMMA NegotiatedStep ==
    ASSUME McpInv, Negotiated
    PROVE  McpInv'
<1>1. /\ TypeOK /\ Fits(Opener) /\ Moves(Opener, "notifying")
      /\ pc[Opener] = "awaiting" /\ responses # <<>> /\ ~Unfit(Head(responses))
      /\ UNCHANGED <<nextId, child, input, stdin, stdout, reader, server, mode, connected>>
      /\ UNCHANGED <<slot, lock, seen, outcome, source, executed>>
      /\ Opener \in Actors /\ Opener \notin Calls /\ Opener # Closer
  BY ActorFacts DEF Negotiated, Fits, server, McpInv
<1>2. lock = Opener /\ slot = "taken"
  BY <1>1, FitsFacts
<1>3. PcStep(Opener, "notifying")
  BY <1>1, MovesStep DEF Places
<1>4. LockInv'
  <2>1. Holding(Opener) /\ Holding(Opener)'
    BY <1>1, <1>3 DEF Holding, PcStep
  <2> QED
    BY <1>1, <1>3, <2>1, LockSame
<1>5. \A c \in Calls : pc[c] = "done" => pc'[c] = "done"
  BY <1>1, <1>3, ActorFacts DEF PcStep
<1>6. OutcomeInv'
  BY <1>1, <1>5, Unmoved, OutcomeKept
<1>7. /\ outcome' \in [Calls -> Outcomes] /\ source' \in [Calls -> Actors \cup {Nobody}]
      /\ seen' \subseteq Cursors /\ lock' \in Actors \cup {Nobody} /\ slot' = "taken"
  BY <1>1, <1>2 DEF TypeOK
<1> QED
  BY <1>1, <1>3, <1>4, <1>6, <1>7, FitsHeld DEF Places

LEMMA NotifyStep ==
    ASSUME McpInv, Notify
    PROVE  McpInv'
<1>1. /\ TypeOK /\ pc[Opener] = "notifying" /\ Len(stdin) < PipeCap
      /\ stdin' = Append(stdin, Frame("note"))
      /\ slot' = "held" /\ lock' = Nobody /\ connected' = TRUE /\ Moves(Opener, "done")
      /\ UNCHANGED <<mode, child, input, reader, responses, stdout, nextId,
                     seen, outcome, source, server>>
      /\ UNCHANGED <<open, executed, noise>>
      /\ Opener \in Actors /\ Opener \notin Calls
  BY ActorFacts DEF Notify, server, McpInv
<1>2. lock = Opener /\ slot = "taken"
  BY <1>1, HolderFacts DEF Holding
<1>3. PcStep(Opener, "done")
  BY <1>1, MovesStep DEF Places
<1>4. /\ stdin \in Seq(Frames) /\ PipeCap \in Nat
      /\ Frame("note") \in Frames /\ Frame("note").kind # "request"
      /\ Frame("note").from = Nobody
  BY <1>1, ConstantsAssumption, FrameFacts DEF TypeOK
<1>5. /\ stdin' \in Seq(Frames) /\ Len(stdin') = Len(stdin) + 1 /\ Len(stdin) \in Nat
      /\ Range(stdin') = Range(stdin) \cup {Frame("note")}
  BY <1>1, <1>4, RangeFacts
<1>6. open = {} /\ NoRequest(stdin)
  <2>1. pc[lock] # "awaiting"
    BY <1>1, <1>2
  <2> QED
    BY <1>2, <2>1, RequestParts DEF McpInv, Inside, NoRequest
<1>7. LockInv'
  <2>1. \A b \in Actors : Holding(b)' => Holding(b) /\ lock # b
    BY <1>2, <1>3, HolderFacts DEF PcStep, Holding
  <2> QED
    BY <1>1, <2>1, LockFreed
<1>8. GoneInv'
  BY <1>1 DEF GoneInv
<1>9. RequestInv'
  <2>1. One(stdin')
    BY <1>1, <1>4, OneFacts, RequestParts DEF McpInv
  <2>2. \A f \in Inside' : f.kind # "request"
    BY <1>1, <1>4, <1>5, <1>6 DEF Inside, NoRequest
  <2>3. \A b \in Actors : pc'[b] \in {"sending", "awaiting"} => pc'[b] = pc[b]
    BY <1>3 DEF PcStep
  <2> QED
    BY <1>1, <1>2, <1>4, <1>5, <2>1, <2>2, <2>3, Unmoved, RequestKept
<1>10. \A c \in Calls : pc'[c] = pc[c]
  BY <1>1, <1>3, ActorFacts DEF PcStep
<1>11. \A f \in Range(stdin') : f \in Range(stdin) \/ f.from = Nobody
  BY <1>4, <1>5
<1>12. ExecInv'
  BY <1>1, <1>10, <1>11, OrderlyKept, Unmoved, ExecKept DEF NoCallBegins
<1>13. OutcomeInv'
  <2>1. \A c \in Calls : MayRun(c)' => MayRun(c)
    BY <1>1, <1>11, ActorFacts, RunFacts, RunFactsNext
  <2> QED
    BY <1>1, <1>2, <1>10, <2>1, OutcomeKept
<1>14. TypeOK'
  <2>1. Len(stdin') <= PipeCap
    BY <1>1, <1>4, <1>5
  <2> QED
    BY <1>1, <1>3, <1>5, <2>1 DEF PcStep, Places, TypeOK
<1> QED
  BY <1>7, <1>8, <1>9, <1>12, <1>13, <1>14, PartsNext

-----------------------------------------------------------------------------
(* The close, up to the drop of the session.                                *)

LEMMA CloseStep ==
    ASSUME McpInv, AbortReader \/ CloseInput \/ Kill
    PROVE  McpInv'
<1>1. PICK where \in {"hanging up", "waiting", "reaping"} :
         /\ Moves(Closer, where)
         /\ pc[Closer] \in {"aborting", "hanging up", "waiting"}
         /\ UNCHANGED <<mode, connected, slot, lock, responses, stdin, stdout, nextId,
                        seen, outcome, source, server>>
         /\ reader' \in {reader, "ended"} /\ input' \in {input, "closed"}
         /\ child' \in {child, "dying"}
  BY DEF AbortReader, CloseInput, Kill
<1>2. /\ TypeOK /\ Closer \in Actors /\ Closer \notin Calls
      /\ UNCHANGED <<mode, connected, slot, lock, responses, stdin, stdout, nextId,
                     seen, outcome, source>>
      /\ UNCHANGED <<open, executed, noise>>
  BY <1>1, ActorFacts DEF McpInv, server
<1>3. PcStep(Closer, where)
  BY <1>1, <1>2, MovesStep DEF Places
<1>4. Holding(Closer) /\ Holding(Closer)' /\ lock = Closer /\ slot = "taken"
  <2>1. Holding(Closer) /\ Holding(Closer)'
    BY <1>1, <1>3 DEF Holding, PcStep
  <2> QED
    BY <1>2, <2>1, HolderFacts
<1>5. LockInv'
  BY <1>2, <1>3, <1>4, LockSame
<1>6. GoneInv'
  BY <1>2, <1>4 DEF GoneInv
<1>7. RequestInv'
  <2>1. \A b \in Actors : pc'[b] \in {"sending", "awaiting"} => pc'[b] = pc[b]
    BY <1>3 DEF PcStep
  <2>2. pc[lock] # "awaiting"
    BY <1>1, <1>4
  <2> QED
    BY <1>2, <2>1, <2>2, Unmoved, RequestKept
<1>8. \A c \in Calls : pc'[c] = pc[c]
  BY <1>2, <1>3, ActorFacts DEF PcStep
<1>9. ExecInv'
  BY <1>2, <1>8, OrderlyKept, Unmoved, ExecKept DEF NoCallBegins
<1>10. OutcomeInv'
  BY <1>2, <1>8, Unmoved, OutcomeKept
<1>11. TypeOK'
  BY <1>1, <1>2, <1>3, ZenonT(30) DEF PcStep, Places, TypeOK
<1> QED
  BY <1>5, <1>6, <1>7, <1>9, <1>10, <1>11, PartsNext

-----------------------------------------------------------------------------
(* The reader and the server.                                               *)

LEMMA OutsideStep ==
    ASSUME McpInv, UNCHANGED <<mode, connected, slot, lock, input, nextId, actors>>,
           child' \in {"up", "dying", "dead"}, child # "up" => child' # "up",
           reader' \in {"reading", "answering", "failing", "ended"},
           stdin' \in Seq(Frames), Len(stdin') <= PipeCap, stdout' \in Seq(Frames),
           responses' \in Seq(Frames), Len(responses') <= ChannelCap,
           open' \subseteq Frames, executed' \in Seq(Calls), noise' \in 0 .. MaxNoise,
           slot = "gone" =>
              reader' = "ended" /\ open' = {} /\ stdout' = <<>> /\ responses' = <<>>,
           RequestInv', ExecInv',
           \A c \in Calls : MayRun(c)' => MayRun(c),
           Range(executed) \subseteq Range(executed')
    PROVE  McpInv'
<1>1. UNCHANGED <<mode, connected, slot, lock, input, nextId>>
      /\ UNCHANGED <<pc, seen, outcome, source>>
  BY DEF actors
<1>2. LockInv'
  BY <1>1, LockStill
<1>3. GoneInv'
  BY <1>1 DEF McpInv, GoneInv
<1>4. OutcomeInv'
  BY <1>1, OutcomeKept
<1>5. TypeOK'
  BY <1>1 DEF McpInv, TypeOK
<1> QED
  BY <1>2, <1>3, <1>4, <1>5, PartsNext

LEMMA SessionTypes ==
    ASSUME McpInv
    PROVE  /\ stdin \in Seq(Frames) /\ Len(stdin) <= PipeCap /\ stdout \in Seq(Frames)
           /\ responses \in Seq(Frames) /\ Len(responses) <= ChannelCap
           /\ open \subseteq Frames /\ executed \in Seq(Calls) /\ noise \in 0 .. MaxNoise
           /\ child \in {"up", "dying", "dead"}
           /\ reader \in {"reading", "answering", "failing", "ended"}
           /\ PipeCap \in Nat /\ ChannelCap \in Nat /\ MaxNoise \in Nat
           /\ slot = "gone" => /\ reader = "ended" /\ child # "up" /\ open = {}
                               /\ stdout = <<>> /\ responses = <<>>
BY ConstantsAssumption DEF McpInv, TypeOK, GoneInv

\* The reader moves frames on, and answers.
LEMMA ReaderStep ==
    ASSUME McpInv, Reader
    PROVE  McpInv'
<1>1. /\ UNCHANGED <<mode, connected, slot, lock, child, input, nextId, actors, server>>
      /\ reader # "ended" /\ reader' \in {"reading", "answering", "failing", "ended"}
  BY SessionTypes DEF Reader, ReaderReads, ReaderAnswers, ReaderFails, ReaderReports
<1>2. /\ slot # "gone"
      /\ UNCHANGED <<mode, slot, lock, child, nextId>>
      /\ UNCHANGED <<open, executed, noise>> /\ pc' = pc
  BY <1>1, SessionTypes DEF server, actors
<1>3. /\ stdin' \in Seq(Frames) /\ Len(stdin') <= PipeCap /\ One(stdin')
      /\ \A f \in Range(stdin') :
            f \in Range(stdin) \/ (f.kind # "request" /\ f.from = Nobody)
  <2>1. CASE stdin' = stdin
    BY <2>1, SessionTypes, Unmoved
  <2>2. CASE Len(stdin) < PipeCap /\ stdin' = Append(stdin, Frame("reply"))
    <3>1. /\ Frame("reply") \in Frames /\ Frame("reply").kind # "request"
          /\ Frame("reply").from = Nobody
      BY FrameFacts
    <3>2. /\ stdin' \in Seq(Frames) /\ Len(stdin') = Len(stdin) + 1 /\ Len(stdin) \in Nat
          /\ Range(stdin') = Range(stdin) \cup {Frame("reply")}
      BY <2>2, <3>1, SessionTypes, RangeFacts
    <3>3. One(stdin')
      BY <2>2, <3>1, SessionTypes, OneFacts, RequestParts DEF McpInv
    <3>4. Len(stdin') <= PipeCap
      BY <2>2, <3>2, SessionTypes
    <3> QED
      BY <3>1, <3>2, <3>3, <3>4
  <2> QED
    BY <2>1, <2>2 DEF Reader, ReaderReads, ReaderAnswers, ReaderFails, ReaderReports
<1>4. /\ stdout' \in Seq(Frames) /\ responses' \in Seq(Frames)
      /\ Len(responses') <= ChannelCap
      /\ Answers' \subseteq Answers
      /\ \A f \in Range(responses') : f.kind \in {"answer", "error"}
  <2>1. \A f \in Range(responses) : f.kind \in {"answer", "error"}
    BY RequestParts DEF McpInv
  <2>2. CASE UNCHANGED <<stdout, responses>>
    BY <2>1, <2>2, SessionTypes, Unmoved
  <2>3. CASE ReaderReads
    <3>1. /\ stdout # <<>> /\ stdout' = Tail(stdout)
          /\ \/ responses' = responses
             \/ /\ Head(stdout).kind = "answer" /\ Len(responses) < ChannelCap
                /\ responses' = Append(responses, Head(stdout))
      BY <2>3 DEF ReaderReads
    <3>2. /\ stdout' \in Seq(Frames) /\ Head(stdout) \in Frames
          /\ Range(stdout) = {Head(stdout)} \cup Range(stdout')
      BY <3>1, SessionTypes, RangeFacts
    <3>3. CASE responses' = responses
      BY <2>1, <3>2, <3>3, SessionTypes DEF Answers, Heard
    <3>4. CASE /\ Head(stdout).kind = "answer" /\ Len(responses) < ChannelCap
               /\ responses' = Append(responses, Head(stdout))
      <4>1. /\ responses' \in Seq(Frames) /\ Len(responses') = Len(responses) + 1
            /\ Len(responses) \in Nat
            /\ Range(responses') = Range(responses) \cup {Head(stdout)}
        BY <3>2, <3>4, SessionTypes, RangeFacts
      <4>2. Len(responses') <= ChannelCap
        BY <3>4, <4>1, SessionTypes
      <4>3. Answers' \subseteq Answers
        BY <3>2, <4>1 DEF Answers, Heard
      <4> QED
        BY <2>1, <3>2, <3>4, <4>1, <4>2, <4>3
    <3> QED
      BY <3>1, <3>3, <3>4
  <2>4. CASE ReaderReports
    <3>1. /\ Len(responses) < ChannelCap /\ stdout' = stdout
          /\ responses' = Append(responses, Frame("error"))
          /\ Frame("error") \in Frames /\ Frame("error").kind = "error"
      BY <2>4, FrameFacts DEF ReaderReports
    <3>2. /\ responses' \in Seq(Frames) /\ Len(responses') = Len(responses) + 1
          /\ Len(responses) \in Nat
          /\ Range(responses') = Range(responses) \cup {Frame("error")}
      BY <3>1, SessionTypes, RangeFacts
    <3>3. Len(responses') <= ChannelCap
      BY <3>1, <3>2, SessionTypes
    <3>4. Answers' \subseteq Answers
      BY <3>1, <3>2 DEF Answers, Heard
    <3> QED
      BY <2>1, <3>1, <3>2, <3>3, <3>4, SessionTypes
  <2> QED
    BY <2>2, <2>3, <2>4 DEF Reader, ReaderAnswers, ReaderFails
<1>5. RequestInv'
  <2>1. \A b \in Actors : pc'[b] \in {"sending", "awaiting"} => pc'[b] = pc[b]
    BY <1>2
  <2> QED
    BY <1>2, <1>3, <1>4, <2>1, RequestKept
<1>6. ExecInv'
  BY <1>2, <1>3, <1>4, OrderlyKept, ExecKept DEF NoCallBegins
<1>7. \A c \in Calls : MayRun(c)' => MayRun(c)
  BY <1>2, <1>3, ActorFacts, RunFacts, RunFactsNext
<1>8. /\ child' \in {"up", "dying", "dead"} /\ child' = child /\ open' \subseteq Frames
      /\ executed' \in Seq(Calls) /\ noise' \in 0 .. MaxNoise
      /\ Range(executed) \subseteq Range(executed')
  BY <1>2, SessionTypes
<1> QED
  BY <1>1, <1>2, <1>3, <1>4, <1>5, <1>6, <1>7, <1>8, OutsideStep

LEMMA OrderAppend ==
    ASSUME executed \in Seq(Calls), ExecutedInOrder, NEW c \in Calls,
           c \notin Range(executed),
           mode = "sequential" => \A d \in Range(executed) : d < c,
           executed' = Append(executed, c), mode' = mode
    PROVE  ExecutedInOrder'
<1>1. /\ DOMAIN executed' = 1 .. (Len(executed) + 1) /\ DOMAIN executed = 1 .. Len(executed)
      /\ \A i \in 1 .. Len(executed) : executed'[i] = executed[i]
      /\ executed'[Len(executed) + 1] = c /\ Len(executed) \in Nat
  OBVIOUS
<1> SUFFICES ASSUME NEW i \in DOMAIN executed', NEW j \in DOMAIN executed', i < j
             PROVE  /\ executed'[i] # executed'[j]
                    /\ mode' = "sequential" => executed'[i] < executed'[j]
  BY DEF ExecutedInOrder
<1>2. i \in 1 .. Len(executed)
  BY <1>1
<1>3. executed'[i] = executed[i] /\ executed[i] \in Range(executed)
  BY <1>1, <1>2 DEF Range
<1>4. CASE j = Len(executed) + 1
  BY <1>1, <1>3, <1>4
<1>5. CASE j # Len(executed) + 1
  <2>1. j \in 1 .. Len(executed)
    BY <1>1, <1>5
  <2> QED
    BY <1>1, <1>2, <2>1 DEF ExecutedInOrder
<1> QED
  BY <1>4, <1>5

LEMMA ServerReadsStep ==
    ASSUME McpInv, ServerReads
    PROVE  McpInv'
<1> DEFINE f == Head(stdin)
<1>1. /\ stdin # <<>> /\ stdin' = Tail(stdin)
      /\ open' = (IF f.kind = "request" /\ reader # "ended" THEN open \cup {f} ELSE open)
      /\ executed' = (IF f.from \in Calls THEN Append(executed, f.from) ELSE executed)
      /\ UNCHANGED <<mode, connected, session, stdout, nextId, actors, noise>>
  BY DEF ServerReads
<1>2. /\ UNCHANGED <<mode, connected, nextId, stdout, noise>>
      /\ UNCHANGED <<slot, lock, child, input, reader, responses>> /\ pc' = pc
  BY <1>1 DEF session, actors
<1>3. /\ f \in Frames /\ f \in Range(stdin) /\ stdin' \in Seq(Frames)
      /\ Len(stdin') = Len(stdin) - 1 /\ Len(stdin) \in Nat
      /\ Range(stdin) = {f} \cup Range(stdin')
  BY <1>1, SessionTypes, RangeFacts
<1>4. One(stdin') /\ (f.kind = "request" => NoRequest(stdin'))
  BY <1>1, SessionTypes, OneFacts, RequestParts DEF McpInv
<1> HIDE DEF f
<1>5. Answers' = Answers /\ \A g \in Range(responses') : g.kind \in {"answer", "error"}
  BY <1>2, Unmoved
<1>6. f.kind = "request" \/ f.from = Nobody
  BY <1>3, RequestParts DEF McpInv
<1>7. RequestInv'
  <2>1. CASE open' = open
    BY <1>2, <1>3, <1>4, <1>5, <2>1, RequestKept
  <2>2. CASE f.kind = "request" /\ reader # "ended" /\ open' = open \cup {f}
    <3>1. slot # "gone" /\ f \in Inside /\ ~NoRequest(stdin)
      BY <1>3, <2>2, SessionTypes DEF Inside, NoRequest
    <3>2. /\ lock \in Actors /\ pc[lock] = "awaiting" /\ f = Request(lock, nextId - 1)
          /\ open = {} /\ \A g \in Answers : g.id # nextId - 1
          /\ \A g \in Answers : g.id < nextId
          /\ \A g \in Range(stdin) : g.kind = "request" \/ g.from = Nobody
      BY <2>2, <3>1, RequestParts DEF McpInv
    <3>3. \A g \in Inside' : g.kind = "request" => g = f
      BY <1>2, <1>4, <2>2, <3>2 DEF Inside, NoRequest
    <3> QED
      BY <1>2, <1>3, <1>4, <1>5, <2>2, <3>2, <3>3, RequestPartsNext
  <2> QED
    BY <1>1, <2>1, <2>2
<1>8. /\ executed' \in Seq(Calls) /\ Range(executed) \subseteq Range(executed')
      /\ f.from \in Calls => Range(executed') = Range(executed) \cup {f.from}
      /\ f.from \notin Calls => executed' = executed
  BY <1>1, SessionTypes, RangeFacts
<1>9. \A c \in Calls : MayRun(c)' => MayRun(c)
  BY <1>3, <1>8, RunFacts, RunFactsNext
<1>10. ExecInv'
  <2>1. \A c \in Calls : pc'[c] \in {"idle", "queued", "sending"} => ~MayRun(c)'
    BY <1>2, <1>9 DEF McpInv, ExecInv
  <2>2. ASSUME NEW g \in Range(stdin'), g.from \in Calls
        PROVE  /\ g.from \notin Range(executed')
               /\ mode' = "sequential" => \A c \in Range(executed') : c < g.from
    <3>1. g.kind = "request" /\ g \in Range(stdin)
      BY <1>3, <2>2, ActorFacts, RequestParts DEF McpInv
    <3>2. f.from \notin Calls
      BY <1>4, <1>6, <2>2, <3>1, ActorFacts DEF NoRequest
    <3> QED
      BY <1>2, <1>8, <2>2, <3>1, <3>2 DEF McpInv, ExecInv
  <2>3. \A g \in open' \cup Answers' : g.from \in Calls => g.from \in Range(executed')
    <3>1. \A g \in open \cup Answers : g.from \in Calls => g.from \in Range(executed)
      BY DEF McpInv, ExecInv
    <3>2. open' \subseteq open \cup {f}
      BY <1>1
    <3> QED
      BY <1>5, <1>8, <3>1, <3>2
  <2>4. ExecutedInOrder'
    <3>1. CASE f.from \in Calls
      <4>1. /\ f.from \notin Range(executed)
            /\ mode = "sequential" => \A c \in Range(executed) : c < f.from
            /\ ExecutedInOrder
        BY <1>3, <3>1 DEF McpInv, ExecInv
      <4> QED
        BY <1>1, <1>2, <3>1, <4>1, SessionTypes, OrderAppend
    <3>2. CASE f.from \notin Calls
      BY <1>2, <1>8, <3>2 DEF McpInv, ExecInv, ExecutedInOrder
    <3> QED
      BY <3>1, <3>2
  <2>5. Orderly'
    BY <1>2, OrderlyKept DEF NoCallBegins
  <2> QED
    BY <2>1, <2>2, <2>3, <2>4, <2>5 DEF ExecInv, Orderly
<1>11. Len(stdin') <= PipeCap
  BY <1>3, SessionTypes
<1>12. open' \subseteq Frames /\ (slot = "gone" => open' = {})
  BY <1>1, <1>3, SessionTypes
<1>13. /\ UNCHANGED <<mode, connected, slot, lock, input, nextId, actors>>
       /\ UNCHANGED <<child, reader, stdout, responses, noise>>
  BY <1>1, <1>2
<1> QED
  BY <1>3, <1>7, <1>8, <1>9, <1>10, <1>11, <1>12, <1>13, SessionTypes, OutsideStep

LEMMA TwiceFacts ==
    ASSUME NEW S, NEW s \in Seq(S), NEW e \in S
    PROVE  s \o <<e, e>> \in Seq(S) /\ Range(s \o <<e, e>>) = Range(s) \cup {e}
<1>1. s \o <<e, e>> = Append(Append(s, e), e)
  OBVIOUS
<1>2. Append(s, e) \in Seq(S) /\ Range(Append(s, e)) = Range(s) \cup {e}
  BY RangeFacts
<1> DEFINE t == Append(s, e)
<1>3. t \in Seq(S)
  BY <1>2
<1>4. /\ Append(t, e) \in Seq(S)
      /\ Range(Append(t, e)) = Range(t) \cup {e}
  <2> HIDE DEF t
  <2> QED
    BY <1>3, RangeFacts
<1> QED
  BY <1>1, <1>2, <1>4

LEMMA ServerAnswersStep ==
    ASSUME McpInv, ServerAnswers
    PROVE  McpInv'
<1>0. PICK r \in open : \E body \in Bodies(r.from) :
         LET answer == [r EXCEPT !.kind = "answer", !.body = body] IN
         /\ open' = open \ {r}
         /\ \/ stdout' = Append(stdout, answer) /\ UNCHANGED noise
            \/ /\ noise < MaxNoise
               /\ stdout' = stdout \o <<answer, answer>>
               /\ noise' = noise + 1
  BY DEF ServerAnswers
<1>1. PICK body \in Bodies(r.from) :
         LET answer == [r EXCEPT !.kind = "answer", !.body = body] IN
         /\ open' = open \ {r}
         /\ \/ stdout' = Append(stdout, answer) /\ UNCHANGED noise
            \/ /\ noise < MaxNoise
               /\ stdout' = stdout \o <<answer, answer>>
               /\ noise' = noise + 1
  BY <1>0
<1>2. /\ UNCHANGED <<mode, connected, session, stdin, nextId, actors, executed>>
      /\ reader # "ended"
  BY DEF ServerAnswers
<1>3. /\ UNCHANGED <<mode, connected, stdin, nextId, executed>>
      /\ UNCHANGED <<slot, lock, child, input, reader, responses>> /\ pc' = pc
      /\ slot # "gone"
  BY <1>2, SessionTypes DEF session, actors
<1>4. /\ r.kind = "request" /\ r = Request(lock, nextId - 1)
      /\ lock \in Actors /\ pc[lock] = "awaiting" /\ NoRequest(stdin)
      /\ \A f \in open : f = r
  <2>1. \A f \in open : /\ f.kind = "request" /\ lock \in Actors
                       /\ pc[lock] = "awaiting" /\ f = Request(lock, nextId - 1)
    BY RequestParts DEF McpInv, Inside
  <2> QED
    BY <2>1, RequestParts DEF McpInv
<1>5. nextId - 1 \in Nat /\ nextId \in Nat
  <2>1. nextId \in Nat \ {0}
    BY DEF McpInv, TypeOK
  <2> QED
    BY <2>1
<1>6. r \in Frames /\ r.from = lock /\ r.id = nextId - 1
  BY <1>4, <1>5, FrameFacts
<1> DEFINE answer == [r EXCEPT !.kind = "answer", !.body = body]
<1>7. /\ answer \in Frames /\ answer.kind = "answer"
      /\ answer.from = lock /\ answer.id = nextId - 1
  BY <1>1, <1>4, <1>6, FrameFacts
<1>8. \/ stdout' = Append(stdout, answer) /\ UNCHANGED noise
      \/ /\ noise < MaxNoise
         /\ stdout' = stdout \o <<answer, answer>>
         /\ noise' = noise + 1
  BY <1>1
<1> HIDE DEF answer
<1>9. stdout' \in Seq(Frames) /\ Range(stdout') = Range(stdout) \cup {answer}
  <2>1. stdout \in Seq(Frames) /\ answer \in Frames
    BY <1>7, SessionTypes
  <2>2. CASE stdout' = Append(stdout, answer)
    BY <2>1, <2>2, RangeFacts
  <2>3. CASE stdout' = stdout \o <<answer, answer>>
    BY <2>1, <2>3, TwiceFacts
  <2> QED
    BY <1>8, <2>2, <2>3
<1>10. noise' \in 0 .. MaxNoise
  BY <1>8, SessionTypes
<1>11. open' = {} /\ open' \subseteq Frames
  BY <1>1, <1>4, SessionTypes
<1>12. \A f \in Answers' : f \in Answers \/ f = answer
  BY <1>3, <1>9 DEF Answers, Heard
<1>13. RequestInv'
  <2>1. One(stdin') /\ NoRequest(stdin') /\ Range(stdin') = Range(stdin)
        /\ \A g \in Range(responses') : g.kind \in {"answer", "error"}
    BY <1>3, <1>4, Unmoved DEF NoRequest
  <2>2. \A g \in Inside' : g.kind # "request"
    BY <1>11, <2>1 DEF Inside, NoRequest
  <2>3. \A g \in Answers' : g.id < nextId'
    <3>1. nextId - 1 < nextId
      BY <1>5
    <3> QED
      BY <1>3, <1>7, <1>12, <3>1, RequestParts DEF McpInv
  <2>4. \A a \in Actors : pc'[a] # "sending" /\ (pc'[a] = "awaiting" => a = lock)
    BY <1>3, <1>4, HolderFacts DEF Holding
  <2>5. \A g \in Answers' : g.id = nextId' - 1 => \A a \in Actors :
           pc'[a] # "sending" /\ (pc'[a] = "awaiting" => g.from = a)
    BY <1>3, <1>7, <1>12, <2>4, RequestParts DEF McpInv
  <2>6. \A g \in Range(stdin') : g.kind = "request" \/ g.from = Nobody
    BY <2>1, RequestParts DEF McpInv
  <2> QED
    BY <1>11, <2>1, <2>2, <2>3, <2>5, <2>6, RequestPartsNext
<1>14. ExecInv'
  <2>1. r.from \in Calls => r.from \in Range(executed)
    BY DEF McpInv, ExecInv
  <2>2. \A g \in open' \cup Answers' : g.from \in Calls =>
           g \in open \cup Answers \/ g.from \in Range(executed)
    BY <1>6, <1>7, <1>11, <1>12, <2>1
  <2> QED
    BY <1>3, <2>2, OrderlyKept, Unmoved, ExecKept DEF NoCallBegins
<1>15. \A c \in Calls : MayRun(c)' => MayRun(c)
  BY <1>3, Unmoved
<1>16. UNCHANGED <<mode, connected, slot, lock, input, nextId, actors>>
  BY <1>2, <1>3
<1> QED
  BY <1>3, <1>9, <1>10, <1>11, <1>13, <1>14, <1>15, <1>16, SessionTypes, OutsideStep

LEMMA ServerChattersStep ==
    ASSUME McpInv, ServerChatters
    PROVE  McpInv'
<1>1. PICK k \in {"ping", "note", "bad"} : stdout' = Append(stdout, Frame(k))
  BY DEF ServerChatters
<1>2. /\ UNCHANGED <<mode, connected, slot, lock, input, nextId, actors>>
      /\ UNCHANGED <<stdin, child, reader, responses, open, executed>>
      /\ UNCHANGED <<mode, slot, lock, nextId>> /\ pc' = pc
      /\ slot # "gone"
  BY SessionTypes DEF ServerChatters, session, actors
<1>3. noise' \in 0 .. MaxNoise
  BY SessionTypes DEF ServerChatters
<1>4. Frame(k) \in Frames /\ Frame(k).kind # "answer"
  BY FrameFacts
<1>5. stdout' \in Seq(Frames) /\ Range(stdout') = Range(stdout) \cup {Frame(k)}
  BY <1>1, <1>4, SessionTypes, RangeFacts
<1>6. Answers' \subseteq Answers
  BY <1>2, <1>4, <1>5 DEF Answers, Heard
<1>7. RequestInv'
  BY <1>2, <1>6, Unmoved, RequestKept
<1>8. ExecInv'
  BY <1>2, <1>6, OrderlyKept, Unmoved, ExecKept DEF NoCallBegins
<1>9. \A c \in Calls : MayRun(c)' => MayRun(c)
  BY <1>2, Unmoved
<1> QED
  BY <1>2, <1>3, <1>5, <1>7, <1>8, <1>9, SessionTypes, OutsideStep

LEMMA ServerStopsStep ==
    ASSUME McpInv, ServerStops
    PROVE  McpInv'
<1>1. /\ UNCHANGED <<mode, connected, slot, lock, input, nextId, actors>>
      /\ UNCHANGED <<stdout, reader, responses, executed, noise>>
      /\ pc' = pc /\ child' = "dead" /\ open' = {} /\ stdin' = <<>>
  BY DEF ServerStops, actors
<1>2. /\ One(stdin') /\ Range(stdin') = {}
      /\ stdin' \in Seq(Frames) /\ Len(stdin') <= PipeCap
  BY <1>1, OneEmpty, RangeEmpty, SessionTypes
<1>3. Answers' = Answers /\ \A f \in Range(responses') : f.kind \in {"answer", "error"}
  BY <1>1, Unmoved
<1>4. RequestInv'
  BY <1>1, <1>2, <1>3, RequestKept
<1>5. ExecInv'
  BY <1>1, <1>2, <1>3, OrderlyKept, ExecKept DEF NoCallBegins
<1>6. \A c \in Calls : MayRun(c)' => MayRun(c)
  BY <1>1, <1>2, RunFacts, RunFactsNext
<1> QED
  BY <1>1, <1>2, <1>4, <1>5, <1>6, SessionTypes, OutsideStep

-----------------------------------------------------------------------------
(* The invariant.                                                           *)

LEMMA InvInit == Init => McpInv
<1> SUFFICES ASSUME Init PROVE McpInv
  OBVIOUS
<1>1. /\ stdin = <<>> /\ stdout = <<>> /\ responses = <<>> /\ open = {} /\ executed = <<>>
      /\ Range(stdin) = {} /\ Range(stdout) = {} /\ Range(responses) = {}
      /\ Range(executed) = {}
  BY RangeEmpty DEF Init
<1>2. /\ \A a \in Actors : pc[a] \in {"idle", "queued"} /\ ~Holding(a)
      /\ \A c \in Calls : pc[c] = "idle"
      /\ \A c \in Calls : outcome[c] = "none"
  BY ActorFacts DEF Init, Holding
<1>3. TypeOK
  <2>1. /\ <<>> \in Seq(Frames) /\ <<>> \in Seq(Calls)
        /\ Len(<<>>) <= PipeCap /\ Len(<<>>) <= ChannelCap /\ 0 \in 0 .. MaxNoise
    BY ConstantsAssumption
  <2>2. /\ pc \in [Actors -> {"idle", "queued", "sending", "awaiting", "notifying",
                              "aborting", "hanging up", "waiting", "reaping", "done"}]
        /\ outcome \in [Calls -> Outcomes]
        /\ source \in [Calls -> Actors \cup {Nobody}]
    BY DEF Init, Outcomes
  <2>3. /\ stdin \in Seq(Frames) /\ Len(stdin) <= PipeCap
        /\ stdout \in Seq(Frames)
        /\ responses \in Seq(Frames) /\ Len(responses) <= ChannelCap
        /\ executed \in Seq(Calls) /\ noise \in 0 .. MaxNoise
    BY <1>1, <2>1 DEF Init
  <2>4. connected \in BOOLEAN
    BY Zenon DEF Init
  <2>5. /\ mode \in {"sequential", "concurrent"}
        /\ slot \in {"held", "taken", "gone"} /\ lock \in Actors \cup {Nobody}
        /\ child \in {"up", "dying", "dead"} /\ input \in {"open", "closed"}
        /\ reader \in {"reading", "answering", "failing", "ended"}
        /\ nextId \in Nat \ {0} /\ seen \subseteq Cursors /\ open \subseteq Frames
    BY DEF Init
  <2> QED
    BY <2>2, <2>3, <2>4, <2>5 DEF TypeOK
<1>4. LockInv
  BY <1>2, ActorFacts DEF LockInv, Init
<1>5. GoneInv
  BY DEF GoneInv, Init
<1>6. RequestInv
  BY <1>1, OneEmpty, RequestParts DEF Answers, Heard, Inside
<1>7. \A c \in Calls : ~MayRun(c)
  BY <1>1, RunFacts
<1>8. ExecInv
  BY <1>1, <1>2, <1>7 DEF ExecInv, ExecutedInOrder, Answers, Heard
<1>9. OutcomeInv
  BY <1>2 DEF OutcomeInv, DefiniteMeansSettled, GivenUp
<1> QED
  BY <1>3, <1>4, <1>5, <1>6, <1>8, <1>9 DEF McpInv

LEMMA ExchangeStep ==
    ASSUME McpInv, NEW a \in Actors, Exchange(a) \/ Timeout(a)
    PROVE  McpInv'
<1>1. CASE Write(a)
  BY <1>1, WriteStep
<1>2. CASE WriteFails(a) \/ ExchangeFails(a) \/ Timeout(a)
  <2>1. RequestLost(a) /\ Holding(a)
    BY <1>2 DEF WriteFails, ExchangeFails, Timeout, InExchange, Holding
  <2> QED
    BY <2>1, LostStep
<1>3. CASE Return(a)
  BY <1>3, ReturnStep
<1> QED
  BY <1>1, <1>2, <1>3 DEF Exchange

LEMMA ConnectStep ==
    ASSUME McpInv, Connect
    PROVE  McpInv'
<1>1. CASE Negotiated
  BY <1>1, NegotiatedStep
<1>2. CASE NotNegotiated
  <2>1. RequestLost(Opener) /\ Holding(Opener) /\ Opener \in Actors
    BY <1>2, ActorFacts DEF NotNegotiated, Holding
  <2> QED
    BY <2>1, LostStep
<1>3. CASE Notify
  BY <1>3, NotifyStep
<1> QED
  BY <1>1, <1>2, <1>3 DEF Connect

LEMMA StutterStep ==
    ASSUME McpInv, UNCHANGED vars
    PROVE  McpInv'
<1>1. /\ UNCHANGED <<mode, connected, slot, lock, child, input, reader, responses>>
      /\ UNCHANGED <<stdin, stdout, nextId, pc, seen, outcome, source>>
      /\ UNCHANGED <<open, executed, noise>>
  BY DEF vars, session, actors, server
<1>2. UNCHANGED <<mode, connected, slot, lock, input, nextId, actors>>
  BY <1>1 DEF actors
<1>3. Answers' = Answers /\ One(stdin') /\ Range(stdin') = Range(stdin)
      /\ \A f \in Range(responses') : f.kind \in {"answer", "error"}
  BY <1>1, Unmoved
<1>4. RequestInv'
  BY <1>1, <1>3, RequestKept
<1>5. ExecInv'
  BY <1>1, <1>3, OrderlyKept, ExecKept DEF NoCallBegins
<1>6. \A c \in Calls : MayRun(c)' => MayRun(c)
  BY <1>1, Unmoved
<1> QED
  BY <1>1, <1>2, <1>4, <1>5, <1>6, SessionTypes, OutsideStep

LEMMA InvStep == McpInv /\ [Next]_vars => McpInv'
<1> SUFFICES ASSUME McpInv, [Next]_vars PROVE McpInv'
  OBVIOUS
<1>1. CASE \E c \in Calls : StartCall(c) \/ RefuseCall(c)
  BY <1>1, StartStep
<1>2. ASSUME NEW a \in Actors,
             StartOther(a) \/ LeaveQueue(a) \/ Exchange(a) \/ Timeout(a)
      PROVE  McpInv'
  BY <1>2, QueueStep, TakeStep, ExchangeStep DEF LeaveQueue
<1>3. CASE NextPage \/ Connect
  BY <1>3, NextPageStep, ConnectStep
<1>4. CASE Shutdown
  BY <1>4, CloseStep, ClosedStep DEF Shutdown
<1>5. CASE Reader
  BY <1>5, ReaderStep
<1>6. CASE Server
  BY <1>6, ServerReadsStep, ServerAnswersStep, ServerChattersStep, ServerStopsStep
     DEF Server
<1>7. CASE Disrupted
  BY <1>7, DropStep DEF Disrupted
<1>8. CASE LastHandleDropped
  BY <1>8, HandleStep
<1>9. CASE UNCHANGED vars
  BY <1>9, StutterStep
<1> QED
  BY <1>1, <1>2, <1>3, <1>4, <1>5, <1>6, <1>7, <1>8, <1>9 DEF Next

LEMMA Invariance == Spec => []McpInv
BY InvInit, InvStep, PTL DEF Spec

-----------------------------------------------------------------------------
(* The theorems.                                                            *)

\* The buffers of the connection stay within the capacity of the pipe and of
\* the reader's channel, and every part of its state keeps its type.
THEOREM TypeCorrect == Spec => []TypeOK
<1>1. McpInv => TypeOK
  BY DEF McpInv
<1> QED
  BY <1>1, Invariance, PTL

\* McpClient::request: a session that is back in the slot has no request in
\* flight, whichever future was dropped, timed out or failed before, and a
\* session that is gone has left no child running.
THEOREM ConnectionSound == Spec => []ConnectionInv
<1>1. ASSUME McpInv, slot = "held" PROVE NoRequestInFlight
  <2>1. lock = Nobody /\ lock \notin Actors
    BY <1>1, ActorFacts DEF McpInv, LockInv
  <2>2. \A f \in Inside : f.kind # "request"
    BY <1>1, <2>1, RequestParts DEF McpInv
  <2>3. open = {}
    BY <1>1, <2>2, RequestParts DEF McpInv, Inside
  <2>4. NoRequest(stdin)
    BY <1>1, <2>2 DEF Inside, NoRequest
  <2> QED
    BY <2>3, <2>4, Quiet
<1>2. McpInv => ConnectionInv
  BY <1>1 DEF McpInv, GoneInv, ConnectionInv
<1> QED
  BY <1>2, Invariance, PTL

\* McpTool::call: a call that returns a definite error was never sent and can
\* no longer be, and one that returns an answer was executed and got its own.
THEOREM DefiniteHolds == Spec => []DefiniteMeansSettled
<1>1. McpInv => DefiniteMeansSettled
  BY DEF McpInv, OutcomeInv
<1> QED
  BY <1>1, Invariance, PTL

LEMMA NothingWritten ==
    ASSUME McpInv, NEW c \in Calls, GivenUp(c), [Next]_vars
    PROVE  Len(stdin') <= Len(stdin)
<1>1. slot = "gone" /\ reader = "ended" /\ Len(stdin) \in Nat
  BY SessionTypes DEF McpInv, OutcomeInv
<1>2. \A a \in Actors : ~Holding(a)
  BY <1>1, HolderFacts
<1>3. CASE stdin' = stdin
  BY <1>1, <1>3
<1>4. CASE ServerReads
  <2>1. stdin # <<>> /\ stdin' = Tail(stdin)
    BY <1>4 DEF ServerReads
  <2>2. Len(Tail(stdin)) = Len(stdin) - 1
    BY <2>1, SessionTypes, RangeFacts
  <2> QED
    BY <1>1, <2>1, <2>2
<1>5. CASE ServerStops
  BY <1>1, <1>5 DEF ServerStops
<1>6. /\ \A a \in Actors : ~Write(a)
      /\ ~Notify /\ ~ReaderAnswers
  BY <1>1, <1>2, ActorFacts DEF Write, Notify, ReaderAnswers, Holding
<1>7. CASE \E d \in Calls : StartCall(d) \/ RefuseCall(d)
  BY <1>3, <1>7 DEF StartCall, RefuseCall
<1>8. CASE \E a \in Actors : StartOther(a) \/ LeaveQueue(a) \/ Exchange(a) \/ Timeout(a)
  BY <1>3, <1>6, <1>8 DEF StartOther, LeaveQueue, QueueTimeout, FindClosed, TakeSession,
     Exchange, WriteFails, ExchangeFails, Return, Timeout, RequestLost, SessionDropped,
     SessionPutBack
<1>9. CASE NextPage \/ Connect \/ Shutdown \/ Reader
  BY <1>3, <1>6, <1>9 DEF NextPage, Connect, Negotiated, NotNegotiated, RequestLost,
     SessionDropped, SessionPutBack, Shutdown, AbortReader, CloseInput, Kill, Closed,
     Reader, ReaderReads, ReaderFails, ReaderReports
<1>10. CASE ServerAnswers \/ ServerChatters
  BY <1>3, <1>10 DEF ServerAnswers, ServerChatters
<1>11. CASE Disrupted \/ LastHandleDropped
  BY <1>3, <1>11 DEF Disrupted, DropFutures, LastHandleDropped, SessionDropped
<1>12. CASE UNCHANGED vars
  BY <1>3, <1>12 DEF vars
<1> QED
  BY <1>4, <1>5, <1>7, <1>8, <1>9, <1>10, <1>11, <1>12 DEF Next, Server

\* McpClient::request and ToolExecutor: once a call was given up inside its
\* exchange no frame reaches the server any more; no call is executed twice,
\* and those of a sequential batch only in the order of the batch.
THEOREM NothingFollowsDoubt == Spec => NothingAfterDoubt
<1>1. McpInv /\ McpInv' /\ [Next]_vars =>
         [/\ (\E c \in Calls : GivenUp(c)) => Len(stdin') <= Len(stdin)
          /\ ExecutedInOrder']_vars
  BY NothingWritten DEF McpInv, ExecInv
<1> QED
  BY <1>1, Invariance, PTL DEF Spec, NothingAfterDoubt

=============================================================================
