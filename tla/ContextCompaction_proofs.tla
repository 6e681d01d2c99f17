---------------------- MODULE ContextCompaction_proofs ----------------------
(* Theorems about ContextCompaction, for any instances, callers, snapshots   *)
(* and turns to keep: a session keeps a summary that belongs to its history, *)
(* and the saves of conversations and of summaries do not undo each other.   *)
EXTENDS ContextCompaction, FiniteSetTheorems, SequenceTheorems, WellFoundedInduction, TLAPS

(* Numbers and sequences.                                                   *)

LEMMA LeastOf ==
    ASSUME NEW T, T \subseteq Nat, T # {}
    PROVE  \E x \in T : \A y \in T : x <= y
<1> DEFINE Less == OpToRel(<, Nat)
<1>0. IsWellFoundedOn(Less, Nat)
  BY NatLessThanWellFounded
<1> HIDE DEF Less
<1>1. PICK x \in T : \A y \in T : ~(<<y, x>> \in Less)
  BY <1>0, WFMin
<1>2. \A y \in T : ~(y < x)
  BY <1>1 DEF Less, OpToRel
<1>3. \A y \in T : x <= y
  BY <1>2
<1> QED
  BY <1>3

LEMMA GreatestOf ==
    ASSUME NEW n \in Nat, NEW T, T \subseteq 1 .. n, T # {}
    PROVE  Max(T) \in T /\ \A y \in T : y <= Max(T)
<1> DEFINE D == {n - x : x \in T}
<1>1. D \subseteq Nat /\ D # {}
  <2>1. \A x \in T : n - x \in Nat
    OBVIOUS
  <2>2. D \subseteq Nat
    BY <2>1
  <2>3. PICK x \in T : TRUE
    OBVIOUS
  <2>4. n - x \in D
    BY <2>3
  <2> QED
    BY <2>2, <2>4
<1>2. PICK d \in D : \A e \in D : d <= e
  BY <1>1, LeastOf
<1>3. PICK x \in T : d = n - x
  BY <1>2
<1>4. \A y \in T : n - x <= n - y
  BY <1>2, <1>3
<1>5. \A y \in T : x >= y
  BY <1>3, <1>4
<1>6. Max(T) \in T /\ \A y \in T : Max(T) >= y
  BY <1>3, <1>5 DEF Max
<1> QED
  BY <1>6

LEMMA MinInterval ==
    ASSUME NEW k \in Nat, NEW n \in Nat, k <= n
    PROVE  Min(k .. n) = k
<1>1. k \in k .. n /\ \A y \in k .. n : k <= y
  OBVIOUS
<1>2. Min(k .. n) \in k .. n /\ \A y \in k .. n : Min(k .. n) <= y
  BY <1>1 DEF Min
<1> QED
  BY <1>1, <1>2

LEMMA PrefixAppend ==
    ASSUME NEW s \in History, NEW h \in History, IsPrefix(s, h), NEW m \in Msg
    PROVE  IsPrefix(s, Append(h, m))
  BY DEF IsPrefix, History

LEMMA PrefixSelf ==
    ASSUME NEW h \in History
    PROVE  IsPrefix(h, h)
  BY DEF IsPrefix, History

LEMMA PrefixSub ==
    ASSUME NEW h \in History, NEW n \in Nat, n <= Len(h)
    PROVE  /\ SubSeq(h, 1, n) \in History
           /\ Len(SubSeq(h, 1, n)) = n
           /\ IsPrefix(SubSeq(h, 1, n), h)
<1>1. SubSeq(h, 1, n) \in History /\ Len(SubSeq(h, 1, n)) = n
  BY DEF History
<1>2. SubSeq(SubSeq(h, 1, n), 1, n) = SubSeq(h, 1, n)
  BY DEF History
<1> QED
  BY <1>1, <1>2 DEF IsPrefix, History

(* Summaries.  No message of an agent is a system message, so the first one  *)
(* after the summary is the one that has to begin a turn.                    *)

LEMMA ValidIs ==
    ASSUME NEW s \in History, NEW h \in History
    PROVE  Valid(s, h) <=>
              \/ s = <<>>
              \/ /\ Len(s) < Len(h)
                 /\ IsPrefix(s, h)
                 /\ Completed(s)
                 /\ h[Len(s) + 1].kind = "user"
<1> DEFINE rest == {i \in Len(s) + 1 .. Len(h) : h[i].kind # "system"}
<1>1. rest = Len(s) + 1 .. Len(h)
  <2>1. ASSUME NEW i \in DOMAIN h PROVE h[i].kind # "system"
    <3>1. h[i] \in Msg
      BY DEF History
    <3> QED
      BY <3>1 DEF Msg
  <2>2. \A i \in Len(s) + 1 .. Len(h) : i \in DOMAIN h
    BY DEF History
  <2> QED
    BY <2>1, <2>2
<1>2. CASE Len(s) < Len(h)
  <2>1. Len(s) + 1 \in Nat /\ Len(h) \in Nat /\ Len(s) + 1 <= Len(h)
    BY <1>2 DEF History
  <2>2. Min(rest) = Len(s) + 1 /\ rest # {}
    <3>1. Min(Len(s) + 1 .. Len(h)) = Len(s) + 1
      BY <2>1, MinInterval
    <3>2. Len(s) + 1 \in Len(s) + 1 .. Len(h)
      BY <2>1
    <3> QED
      BY <1>1, <3>1, <3>2
  <2> HIDE DEF rest
  <2>3. Valid(s, h) <=> \/ s = <<>>
                        \/ /\ Len(s) < Len(h)
                           /\ IsPrefix(s, h)
                           /\ Completed(s)
                           /\ rest # {} /\ h[Min(rest)].kind = "user"
    BY DEF Valid, rest
  <2> QED
    BY <2>2, <2>3
<1>3. CASE ~(Len(s) < Len(h))
  BY <1>3 DEF Valid
<1> QED
  BY <1>2, <1>3

LEMMA ValidEmpty == ASSUME NEW h PROVE Valid(<<>>, h)
  BY DEF Valid

\* A summary survives what is appended to the history.
LEMMA ValidAppend ==
    ASSUME NEW s \in History, NEW h \in History, NEW m \in Msg, Valid(s, h)
    PROVE  Valid(s, Append(h, m))
<1>1. Append(h, m) \in History
  BY DEF History
<1>2. CASE s = <<>>
  BY <1>2, ValidEmpty
<1>3. CASE s # <<>>
  <2>1. Len(s) < Len(h) /\ IsPrefix(s, h) /\ Completed(s) /\ h[Len(s) + 1].kind = "user"
    BY <1>3, ValidIs
  <2>2. IsPrefix(s, Append(h, m))
    BY <2>1, PrefixAppend
  <2>3. Len(s) < Len(Append(h, m)) /\ Append(h, m)[Len(s) + 1] = h[Len(s) + 1]
    BY <2>1 DEF History
  <2> QED
    BY <1>1, <2>1, <2>2, <2>3, ValidIs
<1> QED
  BY <1>2, <1>3

(* The cut of RecentTurns.                                                  *)

UsersFrom(h, n) == {v \in Users(h) : v >= n}

LEMMA UsersCounted ==
    ASSUME NEW h \in History, NEW n \in Nat
    PROVE  /\ Users(h) \subseteq 1 .. Len(h)
           /\ IsFiniteSet(UsersFrom(h, n))
           /\ Cardinality(UsersFrom(h, n)) \in Nat
<1>1. Users(h) \subseteq 1 .. Len(h)
  BY DEF Users, History
<1>2. Len(h) \in Nat /\ IsFiniteSet(1 .. Len(h))
  BY FS_Interval DEF History
<1>3. UsersFrom(h, n) \subseteq 1 .. Len(h)
  BY <1>1 DEF UsersFrom
<1> QED
  BY <1>1, <1>2, <1>3, FS_Subset, FS_CardinalityType

\* Going back by one message adds at most that message to the users.
LEMMA UsersBack ==
    ASSUME NEW h \in History, NEW n \in Nat, n > 0
    PROVE  LET here == UsersFrom(h, n)
               more == UsersFrom(h, n - 1)
           IN  Cardinality(more) = IF n - 1 \in Users(h) THEN Cardinality(here) + 1
                                                       ELSE Cardinality(here)
<1> DEFINE here == UsersFrom(h, n)
           more == UsersFrom(h, n - 1)
<1>1. Users(h) \subseteq Nat
  BY UsersCounted
<1>2. CASE n - 1 \in Users(h)
  <2>1. \A v \in Users(h) : v >= n - 1 <=> v >= n \/ v = n - 1
    BY <1>1
  <2>2. more = here \cup {n - 1}
    BY <1>1, <1>2, <2>1 DEF UsersFrom
  <2>3. n - 1 \notin here
    BY DEF UsersFrom
  <2> QED
    BY <1>2, <2>2, <2>3, UsersCounted, FS_AddElement
<1>3. CASE n - 1 \notin Users(h)
  <2>1. \A v \in Users(h) : v >= n - 1 <=> v >= n
    BY <1>1, <1>3
  <2>2. more = here
    BY <2>1 DEF UsersFrom
  <2> QED
    BY <1>3, <2>2
<1> QED
  BY <1>2, <1>3

\* With more users than turns to keep, the last turns begin with one of them.
LEMMA RecentUser ==
    ASSUME NEW h \in History, NEW turns \in Nat \ {0}, ~(Cardinality(Users(h)) <= turns)
    PROVE  \E u \in Users(h) : Cardinality({v \in Users(h) : v >= u}) = turns
<1> DEFINE few == {n \in Nat : Cardinality(UsersFrom(h, n)) <= turns}
<1>1. Users(h) \subseteq 1 .. Len(h) /\ Len(h) \in Nat
  BY UsersCounted DEF History
<1>2. Len(h) + 1 \in few
  <2>1. UsersFrom(h, Len(h) + 1) = {}
    BY <1>1 DEF UsersFrom
  <2>2. Cardinality(UsersFrom(h, Len(h) + 1)) = 0
    BY <2>1, FS_EmptySet
  <2> QED
    BY <1>1, <2>2
<1>3. PICK n \in few : \A k \in few : n <= k
  <2>1. few \subseteq Nat
    OBVIOUS
  <2> HIDE DEF few
  <2> QED
    BY <1>2, <2>1, LeastOf
<1>4. n \in Nat /\ Cardinality(UsersFrom(h, n)) <= turns
  BY <1>3
<1>5. n > 0
  <2>1. SUFFICES ASSUME n = 0 PROVE FALSE
    BY <1>4
  <2>2. UsersFrom(h, 0) = Users(h)
    BY <1>1 DEF UsersFrom
  <2> QED
    BY <1>4, <2>1, <2>2
<1>6. n - 1 \in Nat /\ n - 1 \notin few
  BY <1>3, <1>4, <1>5
<1>7. ~(Cardinality(UsersFrom(h, n - 1)) <= turns)
  BY <1>6
<1>8. Cardinality(UsersFrom(h, n)) = turns
  <2>1. Cardinality(UsersFrom(h, n)) \in Nat /\ Cardinality(UsersFrom(h, n - 1)) \in Nat
    BY <1>4, <1>6, UsersCounted
  <2>2. Cardinality(UsersFrom(h, n - 1)) <= Cardinality(UsersFrom(h, n)) + 1
    BY <1>4, <1>5, <2>1, UsersBack
  <2> QED
    BY <1>4, <1>7, <2>1, <2>2
<1>9. UsersFrom(h, n) # {}
  BY <1>8, FS_EmptySet
<1>10. UsersFrom(h, n) \subseteq Nat
  BY <1>1 DEF UsersFrom
<1>11. PICK u \in UsersFrom(h, n) : \A v \in UsersFrom(h, n) : u <= v
  BY <1>9, <1>10, LeastOf
<1>12. u \in Users(h) /\ u >= n
  BY <1>11 DEF UsersFrom
<1>13. \A v \in Users(h) : v >= n <=> v >= u
  BY <1>1, <1>4, <1>11, <1>12 DEF UsersFrom
<1>14. {v \in Users(h) : v >= u} = UsersFrom(h, n)
  BY <1>13 DEF UsersFrom
<1> QED
  BY <1>8, <1>12, <1>14

\* A turn begins at the first message or at one of the user's.
LEMMA TurnBegins ==
    ASSUME NEW h \in History, NEW i \in DOMAIN h
    PROVE  TurnStart(h, i) \in DOMAIN h /\ (TurnStart(h, i) = 1 \/ TurnStart(h, i) \in Users(h))
<1> DEFINE before == {u \in Users(h) : u <= i}
<1>1. Len(h) \in Nat /\ DOMAIN h = 1 .. Len(h)
  BY DEF History
<1>2. CASE before = {}
  BY <1>1, <1>2 DEF TurnStart
<1>3. CASE before # {}
  <2>1. before \subseteq 1 .. Len(h)
    BY UsersCounted
  <2>2. Max(before) \in before
    BY <1>1, <1>3, <2>1, GreatestOf
  <2>3. TurnStart(h, i) = Max(before)
    BY <1>3 DEF TurnStart
  <2> QED
    BY <1>1, <2>1, <2>2, <2>3
<1> QED
  BY <1>2, <1>3

\* Whatever a message depends on is itself or the beginning of a turn.
LEMMA DependsOn ==
    ASSUME NEW h \in History, NEW i \in DOMAIN h
    PROVE  /\ Dependency(h, i) \in DOMAIN h
           /\ Dependency(h, i) \in {1, i} \cup Users(h)
<1> DEFINE asked == {j \in 1 .. (i - 1) : h[j].kind = "call" /\ h[j].id = h[i].id}
<1>1. Len(h) \in Nat /\ DOMAIN h = 1 .. Len(h)
  BY DEF History
<1>2. CASE h[i].kind = "results" /\ asked # {}
  <2>1. asked \subseteq 1 .. Len(h)
    BY <1>1
  <2>2. Max(asked) \in asked
    BY <1>1, <1>2, <2>1, GreatestOf
  <2>3. Dependency(h, i) = TurnStart(h, Max(asked))
    BY <1>2 DEF Dependency
  <2>4. Max(asked) \in DOMAIN h
    BY <1>1, <2>1, <2>2
  <2> HIDE DEF asked
  <2>5. TurnStart(h, Max(asked)) \in DOMAIN h
        /\ (TurnStart(h, Max(asked)) = 1 \/ TurnStart(h, Max(asked)) \in Users(h))
    BY <2>4, TurnBegins
  <2> QED
    BY <2>3, <2>5
<1>3. CASE ~(h[i].kind = "results" /\ asked # {})
  BY <1>3 DEF Dependency
<1> QED
  BY <1>2, <1>3

\* RecentTurns begins what it keeps with the first message or one of the user's.
LEMMA CutAtUser ==
    ASSUME NEW h \in History, NEW turns \in Nat \ {0}
    PROVE  CutAt(h, turns) = 1 \/ CutAt(h, turns) \in Users(h)
<1>1. CASE Cardinality(Users(h)) <= turns
  BY <1>1 DEF CutAt
<1>2. CASE ~(Cardinality(Users(h)) <= turns)
  <2> DEFINE recent == CHOOSE u \in Users(h) : Cardinality({v \in Users(h) : v >= u}) = turns
             Closed(s) == \A i \in s .. Len(h) : Dependency(h, i) >= s
             starts == {s \in 1 .. recent : Closed(s)}
  <2>1. recent \in Users(h)
    BY <1>2, RecentUser
  <2>2. CutAt(h, turns) = Max(starts)
    BY <1>2 DEF CutAt
  <2> HIDE DEF recent
  <2>3. Len(h) \in Nat /\ DOMAIN h = 1 .. Len(h) /\ recent \in 1 .. Len(h)
    BY <2>1, UsersCounted DEF History
  <2>4. starts \subseteq 1 .. Len(h)
    BY <2>3
  <2>5. 1 \in starts
    <3>1. \A i \in 1 .. Len(h) : Dependency(h, i) >= 1
      BY <2>3, DependsOn
    <3> QED
      BY <2>3, <3>1
  <2>6. Max(starts) \in starts /\ \A s \in starts : s <= Max(starts)
    <3> HIDE DEF starts
    <3> QED
      BY <2>3, <2>4, <2>5, GreatestOf
  <2> DEFINE s == Max(starts)
  <2>7. s \in 1 .. recent /\ Closed(s) /\ \A t \in starts : t <= s
    BY <2>6
  <2> HIDE DEF s
  <2>8. CASE s = recent
    BY <2>1, <2>2, <2>8 DEF s
  <2>9. CASE s # recent
    <3>1. s \in Nat /\ s + 1 \in 1 .. recent
      BY <2>3, <2>7, <2>9
    <3>2. s + 1 \notin starts
      BY <2>7, <3>1
    <3>3. PICK i \in (s + 1) .. Len(h) : ~(Dependency(h, i) >= s + 1)
      BY <3>1, <3>2
    <3>4. i \in DOMAIN h /\ i \in s .. Len(h) /\ i # s /\ i \in Nat
      BY <2>3, <2>7, <3>1, <3>3
    <3>5. Dependency(h, i) >= s
      BY <2>7, <3>4
    <3>6. Dependency(h, i) \in DOMAIN h /\ Dependency(h, i) \in {1, i} \cup Users(h)
      BY <3>4, DependsOn
    <3>7. Dependency(h, i) = s
      BY <2>3, <3>1, <3>3, <3>5, <3>6
    <3> QED
      BY <2>2, <3>4, <3>6, <3>7 DEF s
  <2> QED
    BY <2>8, <2>9
<1> QED
  BY <1>1, <1>2

LEMMA PrefixTyped ==
    ASSUME NEW h \in History
    PROVE  Prefix(h) \in History
<1> DEFINE cut == CutAt(h, Keep)
<1>1. cut = 1 \/ cut \in Users(h)
  BY CutAtUser, CompactionAssumption
<1>2. cut - 1 \in Nat /\ (cut - 1 <= Len(h) \/ cut = 1)
  BY <1>1 DEF Users, History
<1>3. Len(h) \in Nat
  BY DEF History
<1> HIDE DEF cut
<1>4. Prefix(h) = SubSeq(h, 1, cut - 1)
  BY DEF Prefix, cut
<1>5. cut - 1 <= Len(h)
  BY <1>2, <1>3
<1> QED
  BY <1>2, <1>4, <1>5, PrefixSub

\* What a compaction summarizes belongs to the history it was taken from.
LEMMA PrefixFits ==
    ASSUME NEW s \in AgentState, CanSummarize(s)
    PROVE  /\ [s EXCEPT !.summary = Prefix(s.hist)] \in AgentState
           /\ Fits([s EXCEPT !.summary = Prefix(s.hist)])
           /\ Len(Prefix(s.hist)) > Len(s.summary)
<1> DEFINE h == s.hist
           cut == CutAt(h, Keep)
<1>1. h \in History /\ s.summary \in History /\ s.calls \in Nat
  BY DEF AgentState
<1>2. Len(Prefix(h)) > Len(s.summary) /\ Completed(Prefix(h))
  BY DEF CanSummarize
<1>3. cut = 1 \/ cut \in Users(h)
  BY <1>1, CutAtUser, CompactionAssumption
<1>4. Len(s.summary) \in Nat /\ Len(h) \in Nat /\ DOMAIN h = 1 .. Len(h)
  BY <1>1 DEF History
<1>5. cut # 1
  <2>1. SUFFICES ASSUME cut = 1 PROVE FALSE
    OBVIOUS
  <2>2. Prefix(h) = <<>>
    BY <1>1, <2>1 DEF Prefix, History
  <2> QED
    BY <1>2, <1>4, <2>2
<1>6. cut \in 1 .. Len(h) /\ h[cut].kind = "user"
  BY <1>3, <1>4, <1>5 DEF Users
<1> HIDE DEF cut, h
<1>7. cut - 1 \in Nat /\ cut - 1 < Len(h) /\ Prefix(h) = SubSeq(h, 1, cut - 1)
  BY <1>4, <1>6 DEF Prefix, cut
<1>8. Prefix(h) \in History /\ Len(Prefix(h)) = cut - 1 /\ IsPrefix(Prefix(h), h)
  BY <1>1, <1>4, <1>7, PrefixSub
<1>9. h[Len(Prefix(h)) + 1].kind = "user"
  BY <1>6, <1>8
<1>10. Valid(Prefix(h), h)
  BY <1>1, <1>2, <1>7, <1>8, <1>9, ValidIs
<1>11. [s EXCEPT !.summary = Prefix(h)] \in AgentState
  BY <1>8 DEF AgentState
<1>12. /\ [s EXCEPT !.summary = Prefix(h)].summary = Prefix(h)
       /\ [s EXCEPT !.summary = Prefix(h)].hist = h
  BY DEF AgentState, h
<1> QED
  BY <1>2, <1>10, <1>11, <1>12 DEF Fits, h

-----------------------------------------------------------------------------
(* The queues.                                                              *)

Waiting(a) == {o \in Ops : Owner[o] = a /\ pc[o] = "queued"}
Distinct(q) == \A i, j \in DOMAIN q : q[i] = q[j] => i = j
Queues == \A a \in Agents :
    queue[a] \in Seq(Ops) /\ Range(queue[a]) = Waiting(a) /\ Distinct(queue[a])

LEMMA QueueKept ==
    ASSUME Queues, queue' = queue,
           \A o \in Ops : pc'[o] = "queued" <=> pc[o] = "queued"
    PROVE  Queues'
<1>1. \A a \in Agents : Waiting(a)' = Waiting(a)
  BY DEF Waiting
<1> QED
  BY <1>1 DEF Queues

\* What is left when the k-th of a queue leaves it.
LEMMA Shortened ==
    ASSUME NEW q \in Seq(Ops), Distinct(q), NEW k \in 1 .. Len(q),
           NEW r \in Seq(Ops), Len(r) = Len(q) - 1,
           \A i \in 1 .. Len(r) : r[i] = IF i < k THEN q[i] ELSE q[i + 1]
    PROVE  Distinct(r) /\ Range(r) = Range(q) \ {q[k]}
<1> DEFINE from(i) == IF i < k THEN i ELSE i + 1
<1>1. Len(q) \in Nat /\ Len(r) \in Nat /\ DOMAIN q = 1 .. Len(q) /\ DOMAIN r = 1 .. Len(r)
  OBVIOUS
<1>2. \A i \in DOMAIN r : from(i) \in DOMAIN q /\ r[i] = q[from(i)] /\ from(i) # k
  BY <1>1
<1>3. \A i, j \in DOMAIN r : from(i) = from(j) => i = j
  BY <1>1
<1>4. \A i \in DOMAIN q : i # k => \E j \in DOMAIN r : from(j) = i
  <2>1. SUFFICES ASSUME NEW i \in DOMAIN q, i # k PROVE \E j \in DOMAIN r : from(j) = i
    OBVIOUS
  <2>2. CASE i < k
    <3>1. i \in DOMAIN r /\ from(i) = i
      BY <1>1, <2>1, <2>2
    <3> QED
      BY <3>1
  <2>3. CASE i > k
    <3>1. i - 1 \in DOMAIN r /\ from(i - 1) = i
      BY <1>1, <2>1, <2>3
    <3> QED
      BY <3>1
  <2> QED
    BY <1>1, <2>1, <2>2, <2>3
<1> HIDE DEF from
<1>5. Distinct(r)
  BY <1>2, <1>3 DEF Distinct
<1>6. \A x : x \in Range(r) <=> x \in Range(q) \ {q[k]}
  <2>1. ASSUME NEW i \in DOMAIN r PROVE r[i] \in Range(q) \ {q[k]}
    BY <1>1, <1>2 DEF Range, Distinct
  <2>2. ASSUME NEW i \in DOMAIN q, q[i] # q[k] PROVE q[i] \in Range(r)
    <3>1. PICK j \in DOMAIN r : from(j) = i
      BY <1>4, <2>2
    <3> QED
      BY <1>2, <3>1 DEF Range
  <2> QED
    BY <2>1, <2>2 DEF Range
<1> QED
  BY <1>5, <1>6

LEMMA QueueLeft ==
    ASSUME Queues, CompactionAssumption, pc \in [Ops -> PCs], queue \in [Agents -> Seq(Ops)],
           NEW o \in Ops, NEW k \in DOMAIN queue[Owner[o]],
           queue[Owner[o]][k] = o, NEW r \in Seq(Ops),
           Len(r) = Len(queue[Owner[o]]) - 1,
           \A i \in 1 .. Len(r) :
              r[i] = IF i < k THEN queue[Owner[o]][i] ELSE queue[Owner[o]][i + 1],
           queue' = [queue EXCEPT ![Owner[o]] = r],
           pc'[o] # "queued", \A d \in Ops \ {o} : pc'[d] = pc[d]
    PROVE  Queues'
<1> DEFINE q == queue[Owner[o]]
<1>1. Owner[o] \in Agents
  BY DEF CompactionAssumption
<1>2. q \in Seq(Ops) /\ Distinct(q) /\ Range(q) = Waiting(Owner[o])
  BY <1>1 DEF Queues
<1>3. k \in 1 .. Len(q)
  BY <1>2
<1>4. Distinct(r) /\ Range(r) = Range(q) \ {o}
  <2>1. q[k] = o /\ Len(r) = Len(q) - 1
        /\ \A i \in 1 .. Len(r) : r[i] = IF i < k THEN q[i] ELSE q[i + 1]
    OBVIOUS
  <2> HIDE DEF q
  <2>2. q \in Seq(Ops) /\ Distinct(q)
    BY <1>2
  <2>3. k \in 1 .. Len(q) /\ r \in Seq(Ops)
    BY <1>3
  <2>4. Distinct(r)
    BY ONLY <2>1, <2>2, <2>3, Shortened
  <2>5. Range(r) = Range(q) \ {q[k]}
    BY ONLY <2>1, <2>2, <2>3, Shortened
  <2> QED
    BY <2>1, <2>4, <2>5
<1>5. Waiting(Owner[o])' = Waiting(Owner[o]) \ {o}
  BY DEF Waiting
<1>6. \A a \in Agents : a # Owner[o] => Waiting(a)' = Waiting(a) /\ queue'[a] = queue[a]
  BY DEF Waiting
<1>7. queue'[Owner[o]] = r
  BY <1>1
<1> QED
  BY <1>1, <1>2, <1>4, <1>5, <1>6, <1>7 DEF Queues

\* The head of the queue is granted context_operations.
LEMMA QueueGranted ==
    ASSUME Queues, CompactionAssumption, pc \in [Ops -> PCs], queue \in [Agents -> Seq(Ops)],
           NEW o \in Ops, pc[o] = "queued",
           Head(queue[Owner[o]]) = o,
           queue' = [queue EXCEPT ![Owner[o]] = Tail(@)],
           pc' = [pc EXCEPT ![o] = "begin"]
    PROVE  Queues' /\ queue' \in [Agents -> Seq(Ops)]
<1> DEFINE q == queue[Owner[o]]
           r == Tail(q)
<1>1. Owner[o] \in Agents
  BY DEF CompactionAssumption
<1>2. q \in Seq(Ops) /\ Range(q) = Waiting(Owner[o])
  BY <1>1 DEF Queues
<1>3. o \in Range(q)
  BY <1>2 DEF Waiting
<1>4. q # <<>>
  BY <1>3 DEF Range
<1>5. r \in Seq(Ops) /\ Len(r) = Len(q) - 1 /\ (\A i \in 1 .. Len(r) : r[i] = q[i + 1])
      /\ 1 \in DOMAIN q /\ q[1] = o /\ Len(q) \in Nat
  BY <1>2, <1>4
<1> DEFINE k == 1
<1>6. k \in DOMAIN q /\ q[k] = o
      /\ \A i \in 1 .. Len(r) : r[i] = IF i < k THEN q[i] ELSE q[i + 1]
  BY <1>5
<1>7. queue' = [queue EXCEPT ![Owner[o]] = r]
  OBVIOUS
<1> HIDE DEF r, k
<1>8. pc'[o] # "queued" /\ \A d \in Ops \ {o} : pc'[d] = pc[d]
  OBVIOUS
<1>9. Queues'
  BY <1>5, <1>6, <1>7, <1>8, QueueLeft, ZenonT(40)
<1> QED
  BY <1>1, <1>5, <1>7, <1>9

\* A waiter whose future is dropped leaves its place.
LEMMA QueueDropped ==
    ASSUME Queues, CompactionAssumption, pc \in [Ops -> PCs], queue \in [Agents -> Seq(Ops)],
           NEW o \in Ops, pc[o] = "queued",
           queue' = [queue EXCEPT ![Owner[o]] = RemoveAt(@, Place(o))],
           pc' = [pc EXCEPT ![o] = "idle"]
    PROVE  Queues' /\ queue' \in [Agents -> Seq(Ops)]
<1> DEFINE q == queue[Owner[o]]
           k == Place(o)
           r == RemoveAt(q, k)
<1>1. Owner[o] \in Agents
  BY DEF CompactionAssumption
<1>2. q \in Seq(Ops) /\ Range(q) = Waiting(Owner[o])
  BY <1>1 DEF Queues
<1>3. o \in Range(q)
  BY <1>2 DEF Waiting
<1>4. \E i \in DOMAIN q : q[i] = o
  BY <1>3 DEF Range
<1>5. k \in DOMAIN q /\ q[k] = o
  BY <1>4 DEF Place
<1> HIDE DEF k
<1>6. Len(q) \in Nat /\ k \in 1 .. Len(q)
  BY <1>2, <1>5
<1>7. r \in Seq(Ops) /\ Len(r) = Len(q) - 1
      /\ \A i \in 1 .. Len(r) : r[i] = IF i < k THEN q[i] ELSE q[i + 1]
  <2> DEFINE u == SubSeq(q, 1, k - 1)
             v == SubSeq(q, k + 1, Len(q))
  <2>1. u \in Seq(Ops) /\ Len(u) = k - 1 /\ \A i \in 1 .. k - 1 : u[i] = q[i]
    BY <1>2, <1>6, SubSeqProperties
  <2>2. v \in Seq(Ops) /\ Len(v) = Len(q) - k /\ \A i \in 1 .. Len(q) - k : v[i] = q[k + i]
    <3>1. /\ k + 1 \in Int /\ Len(q) \in Int
          /\ \A i \in k + 1 .. Len(q) : q[i] \in Ops
      BY <1>2, <1>6
    <3>2. /\ v \in Seq(Ops)
          /\ Len(v) = IF k + 1 <= Len(q) THEN Len(q) - (k + 1) + 1 ELSE 0
          /\ \A i \in 1 .. Len(q) - (k + 1) + 1 : v[i] = q[k + 1 + i - 1]
      BY <3>1, SubSeqProperties
    <3> HIDE DEF v
    <3>3. Len(v) = Len(q) - k
      BY <1>6, <3>2
    <3>4. ASSUME NEW i \in 1 .. Len(q) - k PROVE v[i] = q[k + i]
      <4>1. i \in 1 .. Len(q) - (k + 1) + 1 /\ k + 1 + i - 1 = k + i
        BY <1>6
      <4>2. v[i] = q[k + 1 + i - 1]
        BY <3>2, <4>1
      <4> QED
        BY <4>1, <4>2
    <3> QED
      BY <3>2, <3>3, <3>4
  <2>3. r = u \o v
    BY DEF RemoveAt
  <2> HIDE DEF u, v
  <2> HIDE DEF r
  <2>4. r \in Seq(Ops) /\ Len(r) = Len(u) + Len(v)
    BY <2>1, <2>2, <2>3, ConcatProperties
  <2>5. \A i \in 1 .. Len(u) + Len(v) :
           r[i] = IF i <= Len(u) THEN u[i] ELSE v[i - Len(u)]
    BY <2>1, <2>2, <2>3, ConcatProperties, SMTT(30)
  <2>6. ASSUME NEW i \in 1 .. Len(r), i < k PROVE r[i] = q[i]
    <3>1. k \in Nat /\ i \in Nat /\ i >= 1 /\ Len(u) = k - 1
      BY <1>6, <2>1, <2>6
    <3>2. i \in 1 .. k - 1 /\ i <= Len(u)
      BY <2>6, <3>1
    <3>3. i \in 1 .. Len(u) + Len(v)
      BY <2>4
    <3>4. r[i] = u[i]
      BY <2>5, <3>2, <3>3
    <3> QED
      BY <2>1, <3>2, <3>4
  <2>7. ASSUME NEW i \in 1 .. Len(r), ~(i < k) PROVE r[i] = q[i + 1]
    <3>1. /\ k \in Nat /\ i \in Nat /\ Len(u) = k - 1 /\ Len(v) = Len(q) - k
          /\ Len(q) \in Nat /\ i <= Len(u) + Len(v)
      BY <1>6, <2>1, <2>2, <2>4
    <3>2. i - Len(u) \in 1 .. Len(q) - k /\ k + (i - Len(u)) = i + 1
      BY <2>7, <3>1
    <3>3. i \in 1 .. Len(u) + Len(v) /\ ~(i <= Len(u))
      BY <2>4, <2>7, <3>1
    <3>4. r[i] = v[i - Len(u)]
      BY <2>5, <3>3
    <3> QED
      BY <2>2, <3>2, <3>4
  <2>8. Len(r) = Len(q) - 1
    BY <1>6, <2>1, <2>2, <2>4
  <2>9. \A i \in 1 .. Len(r) : r[i] = IF i < k THEN q[i] ELSE q[i + 1]
    BY ONLY <2>6, <2>7
  <2> QED
    BY ONLY <2>4, <2>8, <2>9
<1>8. queue' = [queue EXCEPT ![Owner[o]] = r]
  BY DEF k
<1> HIDE DEF r
<1>9. pc'[o] # "queued" /\ \A d \in Ops \ {o} : pc'[d] = pc[d]
  OBVIOUS
<1>10. Queues'
  BY <1>5, <1>7, <1>8, <1>9, QueueLeft, ZenonT(40)
<1> QED
  BY <1>1, <1>7, <1>8, <1>10

\* A new operation waits behind the others.
LEMMA QueueJoined ==
    ASSUME Queues, CompactionAssumption, pc \in [Ops -> PCs], queue \in [Agents -> Seq(Ops)],
           NEW o \in Ops, pc[o] = "idle",
           queue' = [queue EXCEPT ![Owner[o]] = Append(@, o)],
           pc' = [pc EXCEPT ![o] = "queued"]
    PROVE  Queues' /\ queue' \in [Agents -> Seq(Ops)]
<1> DEFINE q == queue[Owner[o]]
           r == Append(q, o)
<1>1. Owner[o] \in Agents
  BY DEF CompactionAssumption
<1>2. q \in Seq(Ops) /\ Range(q) = Waiting(Owner[o]) /\ Distinct(q)
  BY <1>1 DEF Queues
<1>3. o \notin Range(q)
  BY <1>2 DEF Waiting
<1>4. /\ Len(q) \in Nat /\ DOMAIN q = 1 .. Len(q)
      /\ r \in Seq(Ops) /\ DOMAIN r = 1 .. Len(q) + 1
      /\ r[Len(q) + 1] = o
      /\ \A i \in DOMAIN q : r[i] = q[i]
  BY <1>2
<1> HIDE DEF r
<1>5. \A i \in DOMAIN q : q[i] # o
  BY <1>3 DEF Range
<1>6. \A i \in DOMAIN r : i \in DOMAIN q \/ i = Len(q) + 1
  BY <1>4
<1>7. Distinct(r)
  BY <1>2, <1>4, <1>5, <1>6 DEF Distinct
<1>8. Len(q) + 1 \in DOMAIN r /\ \A i \in DOMAIN q : i \in DOMAIN r
  BY <1>4
<1>9. Range(r) = Range(q) \cup {o}
  <2>1. \A i \in DOMAIN r : r[i] \in Range(q) \cup {o}
    BY <1>4, <1>6 DEF Range
  <2>2. \A i \in DOMAIN q : q[i] \in Range(r)
    BY <1>4, <1>8 DEF Range
  <2>3. o \in Range(r)
    BY <1>4, <1>8 DEF Range
  <2> HIDE DEF q
  <2> QED
    BY <2>1, <2>2, <2>3 DEF Range
<1>10. Waiting(Owner[o])' = Waiting(Owner[o]) \cup {o}
  BY DEF Waiting
<1>11. queue' = [queue EXCEPT ![Owner[o]] = r]
  BY DEF r
<1>12. \A a \in Agents : a # Owner[o] => Waiting(a)' = Waiting(a) /\ queue'[a] = queue[a]
  BY <1>11 DEF Waiting
<1>13. queue'[Owner[o]] = r
  BY <1>1, <1>11
<1>14. Queues'
  BY <1>1, <1>2, <1>4, <1>7, <1>9, <1>10, <1>12, <1>13 DEF Queues
<1> QED
  BY <1>1, <1>4, <1>11, <1>14

-----------------------------------------------------------------------------
(* Types.                                                                   *)

Stores == [rev : Nat, state : AgentState]
Orphans == [agent : Agents, base : Nat, state : AgentState]
Jobs == Shared \cup Exclusive

LEMMA EmptyTyped == EmptyState \in AgentState
  BY DEF EmptyState, AgentState, History

LEMMA Typed ==
    ASSUME TypeOK, NEW o \in Ops
    PROVE  /\ Owner[o] \in Agents
           /\ State(o) \in AgentState
           /\ held[o] \in AgentState
           /\ Pending(o) \in AgentState
           /\ store.state \in AgentState /\ store.rev \in Nat
           /\ store = [rev |-> store.rev, state |-> store.state]
           /\ base[o] \in Nat /\ nextId \in Nat
  BY CompactionAssumption DEF TypeOK, State, Pending

LEMMA AppendedTyped ==
    ASSUME NEW s \in AgentState, NEW kind \in {"user", "call", "results", "answer"},
           NEW id \in Nat
    PROVE  /\ Appended(s, kind, id) \in AgentState
           /\ Appended(s, kind, id).hist = Append(s.hist, [kind |-> kind, id |-> id])
           /\ Appended(s, kind, id).summary = s.summary
           /\ Appended(s, kind, id).calls = s.calls
           /\ [kind |-> kind, id |-> id] \in Msg
<1> DEFINE m == [kind |-> kind, id |-> id]
<1>1. m \in Msg
  BY DEF Msg
<1> HIDE DEF m
<1>2. s.hist \in History /\ Append(s.hist, m) \in History
  BY <1>1 DEF AgentState, History
<1>3. Appended(s, kind, id) = [s EXCEPT !.hist = Append(s.hist, m)]
  BY DEF Appended, m
<1> QED
  BY <1>1, <1>2, <1>3 DEF AgentState, m

LEMMA CallsTyped ==
    ASSUME NEW s \in AgentState, NEW n \in Nat
    PROVE  /\ [s EXCEPT !.calls = n] \in AgentState
           /\ [s EXCEPT !.calls = n].hist = s.hist
           /\ [s EXCEPT !.calls = n].summary = s.summary
  BY DEF AgentState

LEMMA SummaryTyped ==
    ASSUME NEW s \in AgentState, NEW h \in History
    PROVE  /\ [s EXCEPT !.summary = h] \in AgentState
           /\ [s EXCEPT !.summary = h].hist = s.hist
           /\ [s EXCEPT !.summary = h].calls = s.calls
           /\ [s EXCEPT !.summary = h].summary = h
  BY DEF AgentState

LEMMA HistTyped ==
    ASSUME NEW s \in AgentState, NEW h \in History
    PROVE  [s EXCEPT !.hist = h] \in AgentState
  BY DEF AgentState

LEMMA FieldsTyped ==
    ASSUME NEW s \in AgentState
    PROVE  s.hist \in History /\ s.summary \in History /\ s.calls \in Nat
  BY DEF AgentState

LEMMA CommitTyped ==
    ASSUME TypeOK, NEW e \in Nat, NEW s \in AgentState, Commits(e, s)
    PROVE  store' \in Stores /\ store'.rev = e + 1 /\ store'.state = s /\ store.rev = e
  BY DEF Commits, Stores

\* A step of an operation that neither joins nor leaves a queue.
LEMMA StepTyped ==
    ASSUME TypeOK, Queues, NEW o \in Ops, pc[o] # "queued",
           NEW x \in PCs \ {"queued"}, NEW s \in AgentState, NEW t \in AgentState, NEW b \in Nat,
           pc' = [pc EXCEPT ![o] = x],
           view' = view \/ view' = [view EXCEPT ![Owner[o]] = s],
           held' = held \/ held' = [held EXCEPT ![o] = t],
           base' = base \/ base' = [base EXCEPT ![o] = b],
           store' = store \/ store' \in Stores, orphans' = orphans \/ orphans' \subseteq Orphans,
           job' = job \/ job' \in [Ops -> Jobs], nextId' = nextId \/ nextId' \in Nat,
           called' = called \/ called' \in Nat, queue' = queue, bound' = bound
    PROVE  TypeOK' /\ Queues'
<1>1. Queues'
  <2>1. \A d \in Ops : pc'[d] = "queued" <=> pc[d] = "queued"
    BY DEF TypeOK
  <2> QED
    BY <2>1, QueueKept
<1>2. \A a \in Agents : Range(queue'[a]) = {d \in Ops : Owner[d] = a /\ pc'[d] = "queued"}
  BY <1>1 DEF Queues, Waiting
<1>3. pc' \in [Ops -> PCs] /\ base' \in [Ops -> Nat] /\ held' \in [Ops -> AgentState]
  <2>1. pc \in [Ops -> PCs] /\ base \in [Ops -> Nat] /\ held \in [Ops -> AgentState]
    BY DEF TypeOK
  <2>2. x \in PCs
    OBVIOUS
  <2>3. pc' \in [Ops -> PCs]
    BY <2>1, <2>2
  <2>4. base' \in [Ops -> Nat]
    BY <2>1
  <2>5. held' \in [Ops -> AgentState]
    BY <2>1
  <2> QED
    BY <2>3, <2>4, <2>5
<1>4. view' \in [Agents -> AgentState]
  BY Typed DEF TypeOK
<1>5. store' \in Stores /\ orphans' \subseteq Orphans /\ job' \in [Ops -> Jobs]
      /\ nextId' \in Nat /\ called' \in Nat /\ bound' \subseteq Agents
      /\ queue' \in [Agents -> Seq(Ops)]
  BY DEF TypeOK, Stores, Orphans, Jobs
<1> QED
  BY <1>1, <1>2, <1>3, <1>4, <1>5 DEF TypeOK, Stores, Orphans, Jobs

LEMMA PlacesTyped ==
    /\ "idle" \in PCs \ {"queued"} /\ "begin" \in PCs \ {"queued"}
    /\ Running \subseteq PCs \ {"queued"}
    /\ "open" \in Running /\ "install" \in Running /\ "summarize" \in Running
    /\ "commit" \in Running /\ "input" \in Running /\ "model" \in Running
    /\ "save" \in Running
    /\ "begin" \notin Running /\ "idle" \notin Running /\ "queued" \notin Running
  BY DEF Running, PCs

LEMMA EntryTyped ==
    ASSUME TypeOK, Queues, NEW o \in Ops, Entry(o)
    PROVE  TypeOK' /\ Queues'
<1>1. ASSUME NEW kind \in Shared \cup {"auto"}, Wait(o, kind) PROVE TypeOK' /\ Queues'
  <2>1. Queues' /\ queue' \in [Agents -> Seq(Ops)]
    BY <1>1, QueueJoined, CompactionAssumption DEF Wait, Goto, TypeOK
  <2>2. \A a \in Agents : Range(queue'[a]) = {d \in Ops : Owner[d] = a /\ pc'[d] = "queued"}
    BY <2>1 DEF Queues, Waiting
  <2>3. pc' \in [Ops -> PCs] /\ job' \in [Ops -> Jobs] /\ called' \in Nat
    BY <1>1 DEF Wait, Goto, TypeOK, PCs, Jobs, Exclusive
  <2> QED
    BY <1>1, <2>1, <2>2, <2>3 DEF Wait, TypeOK, Jobs
<1>2. ASSUME NEW kind \in {"compact", "clear"}, TryWrite(o, kind) PROVE TypeOK' /\ Queues'
  <2>1. pc[o] = "idle" /\ called' \in Nat
    BY <1>2 DEF TryWrite, TypeOK
  <2>2. CASE pc' = [pc EXCEPT ![o] = "begin"] /\ job' = [job EXCEPT ![o] = kind]
    <3>1. job' \in [Ops -> Jobs]
      BY <2>2 DEF TypeOK, Jobs, Exclusive
    <3> QED
      BY <1>2, <2>1, <2>2, <3>1, EmptyTyped, PlacesTyped, StepTyped DEF TryWrite
  <2>3. CASE pc' = pc /\ job' = job
    <3>1. Queues'
      BY <1>2, <2>3, QueueKept DEF TryWrite
    <3>2. \A a \in Agents : Range(queue'[a]) = {d \in Ops : Owner[d] = a /\ pc'[d] = "queued"}
      BY <3>1 DEF Queues, Waiting
    <3> QED
      BY <1>2, <2>1, <2>3, <3>1, <3>2 DEF TryWrite, TypeOK
  <2> QED
    BY <1>2, <2>2, <2>3 DEF TryWrite, Goto
<1> QED
  BY <1>1, <1>2 DEF Entry

LEMMA BeginTyped ==
    ASSUME TypeOK, Queues, NEW o \in Ops, Begin(o) \/ BeginFails(o)
    PROVE  TypeOK' /\ Queues'
<1>1. CASE Begin(o)
  <2>1. pc[o] = "begin" /\ pc' = [pc EXCEPT ![o] = "open"]
        /\ UNCHANGED <<bound, store, orphans, queue, job, held, nextId, called>>
    BY <1>1 DEF Begin, Goto
  <2>2. base' = base \/ base' = [base EXCEPT ![o] = store.rev]
    BY <1>1 DEF Begin
  <2>3. view' = view \/ view' = [view EXCEPT ![Owner[o]] = store.state]
    BY <1>1 DEF Begin, SetState
  <2> QED
    BY <2>1, <2>2, <2>3, Typed, PlacesTyped, StepTyped
<1>2. CASE BeginFails(o)
  BY <1>2, EmptyTyped, PlacesTyped, StepTyped DEF BeginFails, Release, Goto, Hold
<1> QED
  BY <1>1, <1>2

\* What an operation does to the state, the lock and the checkpoint it holds.
LEMMA ProgressTyped ==
    ASSUME TypeOK, Queues, NEW o \in Ops, Progress(o)
    PROVE  TypeOK' /\ Queues'
<1>s. /\ Owner[o] \in Agents /\ State(o) \in AgentState /\ held[o] \in AgentState
      /\ Pending(o) \in AgentState /\ base[o] \in Nat /\ nextId \in Nat /\ nextId + 1 \in Nat
      /\ held[o].hist \in History /\ held[o].summary \in History
      /\ State(o).hist \in History /\ State(o).calls \in Nat
  BY Typed, FieldsTyped
<1>1. ASSUME Grant(o) PROVE TypeOK' /\ Queues'
  <2>1. Queues' /\ queue' \in [Agents -> Seq(Ops)]
    BY <1>1, QueueGranted, CompactionAssumption DEF Grant, Goto, TypeOK
  <2>2. \A a \in Agents : Range(queue'[a]) = {d \in Ops : Owner[d] = a /\ pc'[d] = "queued"}
    BY <2>1 DEF Queues, Waiting
  <2>3. pc' \in [Ops -> PCs]
    BY <1>1 DEF Grant, Goto, TypeOK, PCs
  <2> QED
    BY <1>1, <2>1, <2>2, <2>3 DEF Grant, TypeOK
<1>2. ASSUME Observe(o) PROVE TypeOK' /\ Queues'
  <2>1. Appended(State(o), "user", nextId) \in AgentState
    BY <1>s, AppendedTyped
  <2> QED
    BY <1>2, <1>s, <2>1, PlacesTyped, StepTyped DEF Observe, Remember, SetState, Goto
<1>3. ASSUME Replace(o) PROVE TypeOK' /\ Queues'
  <2>1. PICK s \in Backups : SetState(o, [State(o) EXCEPT !.hist = s.hist]) /\ Hold(o, s)
    BY <1>3 DEF Replace
  <2>2. s \in AgentState /\ s.hist \in History
    BY BackupsAssumption, FieldsTyped
  <2>3. [State(o) EXCEPT !.hist = s.hist] \in AgentState
    BY <1>s, <2>2, HistTyped
  <2> QED
    BY <1>3, <1>s, <2>1, <2>2, <2>3, PlacesTyped, StepTyped DEF Replace, SetState, Hold, Goto
<1>4. ASSUME Install(o) PROVE TypeOK' /\ Queues'
  BY <1>4, <1>s, EmptyTyped, PlacesTyped, StepTyped DEF Install, SetState, Hold, Goto
<1>5. ASSUME RestoreFails(o) PROVE TypeOK' /\ Queues'
  BY <1>5, EmptyTyped, PlacesTyped, StepTyped DEF RestoreFails, Release, Goto, Hold
<1>6. ASSUME AcceptReply(o) PROVE TypeOK' /\ Queues'
  <2>1. Appended(State(o), "user", nextId) \in AgentState
    BY <1>s, AppendedTyped
  <2>2. pc[o] # "queued"
    BY <1>6 DEF AcceptReply
  <2> QED
    BY <1>6, <1>s, <2>1, <2>2, PlacesTyped, StepTyped
    DEF AcceptReply, Remember, SetState, Hold, Goto
<1>7. ASSUME AcceptResults(o) PROVE TypeOK' /\ Queues'
  <2> DEFINE s == [Appended(State(o), "results", State(o).calls) EXCEPT !.calls = 0]
  <2>1. s \in AgentState
    BY <1>s, AppendedTyped, CallsTyped
  <2>2. /\ pc[o] # "queued" /\ pc' = [pc EXCEPT ![o] = "model"]
        /\ view' = [view EXCEPT ![Owner[o]] = s] /\ held' = [held EXCEPT ![o] = s]
        /\ UNCHANGED <<bound, store, orphans, queue, job, base, nextId, called>>
    BY <1>7 DEF AcceptResults, SetState, Hold, Goto
  <2> HIDE DEF s
  <2> QED
    BY <2>1, <2>2, <1>s, PlacesTyped, StepTyped
<1>8. ASSUME Refuse(o) PROVE TypeOK' /\ Queues'
  <2>1. pc[o] # "queued"
        /\ UNCHANGED <<bound, store, orphans, view, queue, job, nextId, called>>
        /\ (\/ Goto(o, "save") /\ UNCHANGED <<base, held>>
            \/ Release(o))
    BY <1>8 DEF Refuse
  <2>2. CASE Goto(o, "save") /\ UNCHANGED <<base, held>>
    BY <2>1, <2>2, <1>s, PlacesTyped, StepTyped DEF Goto
  <2>3. CASE Release(o)
    BY <2>1, <2>3, EmptyTyped, PlacesTyped, StepTyped DEF Release, Goto, Hold
  <2> QED
    BY <2>1, <2>2, <2>3
<1>9. ASSUME ModelAnswers(o) PROVE TypeOK' /\ Queues'
  <2>1. Appended(State(o), "answer", nextId) \in AgentState
    BY <1>s, AppendedTyped
  <2> QED
    BY <1>9, <1>s, <2>1, PlacesTyped, StepTyped DEF ModelAnswers, Remember, SetState, Goto
<1>10. ASSUME ModelPauses(o) PROVE TypeOK' /\ Queues'
  <2> DEFINE s == [Appended(State(o), "call", nextId) EXCEPT !.calls = nextId]
  <2>1. s \in AgentState
    BY <1>s, AppendedTyped, CallsTyped
  <2>2. /\ pc[o] # "queued" /\ pc' = [pc EXCEPT ![o] = "save"]
        /\ view' = [view EXCEPT ![Owner[o]] = s] /\ nextId' = nextId + 1
        /\ UNCHANGED <<bound, store, orphans, queue, job, base, held, called>>
    BY <1>10 DEF ModelPauses, SetState, Goto
  <2> HIDE DEF s
  <2> QED
    BY <2>1, <2>2, <1>s, PlacesTyped, StepTyped
<1>11. ASSUME ModelFails(o) PROVE TypeOK' /\ Queues'
  BY <1>11, <1>s, PlacesTyped, StepTyped DEF ModelFails, Goto
<1>12. ASSUME Finish(o) PROVE TypeOK' /\ Queues'
  <2>1. store' = store \/ store' \in Stores
    BY <1>12, <1>s, CommitTyped DEF Finish, SaveSucceeds
  <2> QED
    BY <1>12, <2>1, EmptyTyped, PlacesTyped, StepTyped DEF Finish, Release, Goto, Hold
<1>13. ASSUME Plan(o) PROVE TypeOK' /\ Queues'
  BY <1>13, <1>s, PlacesTyped, StepTyped DEF Plan, Hold, Goto
<1>14. ASSUME PlanClear(o) PROVE TypeOK' /\ Queues'
  <2>1. <<>> \in History
    BY DEF History
  <2>2. [State(o) EXCEPT !.summary = <<>>] \in AgentState
    BY <1>s, <2>1, SummaryTyped
  <2> QED
    BY <1>14, <1>s, <2>2, PlacesTyped, StepTyped DEF PlanClear, Hold, Goto
<1>15. ASSUME NoNeed(o) PROVE TypeOK' /\ Queues'
  BY <1>15, <1>s, PlacesTyped, StepTyped DEF NoNeed, Goto
<1>16. ASSUME NoPlan(o) PROVE TypeOK' /\ Queues'
  BY <1>16, EmptyTyped, PlacesTyped, StepTyped DEF NoPlan, Release, Goto, Hold
<1>17. ASSUME Summarized(o) PROVE TypeOK' /\ Queues'
  <2>1. Prefix(held[o].hist) \in History
    BY <1>s, PrefixTyped
  <2>2. [held[o] EXCEPT !.summary = Prefix(held[o].hist)] \in AgentState
    BY <1>s, <2>1, SummaryTyped
  <2> QED
    BY <1>17, <1>s, <2>2, PlacesTyped, StepTyped DEF Summarized, Hold, Goto
<1>18. ASSUME SummaryFails(o) PROVE TypeOK' /\ Queues'
  BY <1>18, EmptyTyped, PlacesTyped, StepTyped DEF SummaryFails, Release, Goto, Hold
<1>19. ASSUME Commit(o) PROVE TypeOK' /\ Queues'
  <2>1. store' = store \/ store' \in Stores
    BY <1>19, <1>s, CommitTyped DEF Commit, SaveSucceeds
  <2>2. store'.rev \in Nat
    BY <2>1, Typed DEF Stores
  <2>3. [State(o) EXCEPT !.summary = held[o].summary] \in AgentState
    BY <1>s, SummaryTyped
  <2>4. /\ pc[o] # "queued"
        /\ view' = [view EXCEPT ![Owner[o]] = [State(o) EXCEPT !.summary = held[o].summary]]
        /\ UNCHANGED <<bound, orphans, queue, job, nextId, called>>
    BY <1>19 DEF Commit, SetState
  <2>5. CASE job[o] = "auto"
    <3>1. /\ pc' = [pc EXCEPT ![o] = "input"] /\ base' = [base EXCEPT ![o] = store'.rev]
          /\ held' = [held EXCEPT ![o] = EmptyState]
      BY <1>19, <2>5 DEF Commit, Goto, Hold
    <3> QED
      BY <2>1, <2>2, <2>3, <2>4, <3>1, EmptyTyped, PlacesTyped, StepTyped
  <2>6. CASE job[o] # "auto"
    <3>1. /\ pc' = [pc EXCEPT ![o] = "idle"] /\ base' = [base EXCEPT ![o] = 0]
          /\ held' = [held EXCEPT ![o] = EmptyState]
      BY <1>19, <2>6 DEF Commit, Release, Goto, Hold
    <3> QED
      BY <2>1, <2>3, <2>4, <3>1, EmptyTyped, PlacesTyped, StepTyped
  <2> QED
    BY <2>5, <2>6
<1>20. ASSUME InputFails(o) PROVE TypeOK' /\ Queues'
  <2>1. pc[o] # "queued"
        /\ UNCHANGED <<bound, store, orphans, view, queue, job, nextId, called>>
        /\ (\/ Goto(o, "save") /\ UNCHANGED <<base, held>>
            \/ Release(o))
    BY <1>20 DEF InputFails
  <2>2. CASE Goto(o, "save") /\ UNCHANGED <<base, held>>
    BY <2>1, <2>2, <1>s, PlacesTyped, StepTyped DEF Goto
  <2>3. CASE Release(o)
    BY <2>1, <2>3, EmptyTyped, PlacesTyped, StepTyped DEF Release, Goto, Hold
  <2> QED
    BY <2>1, <2>2, <2>3
<1>21. ASSUME SaveFails(o) PROVE TypeOK' /\ Queues'
  <2>1. store' = store \/ store' \in Stores
    BY <1>21, <1>s, CommitTyped DEF SaveFails, SaveSucceeds
  <2>2. pc[o] # "queued"
    BY <1>21 DEF SaveFails, Saving
  <2> QED
    BY <1>21, <2>1, <2>2, EmptyTyped, PlacesTyped, StepTyped DEF SaveFails, Release, Goto, Hold
<1> QED
  BY <1>1, <1>2, <1>3, <1>4, <1>5, <1>6, <1>7, <1>8, <1>9, <1>10, <1>11, <1>12, <1>13,
     <1>14, <1>15, <1>16, <1>17, <1>18, <1>19, <1>20, <1>21, BeginTyped DEF Progress

LEMMA DropTyped ==
    ASSUME TypeOK, Queues, NEW o \in Ops, Drop(o)
    PROVE  TypeOK' /\ Queues'
<1>1. /\ pc' = [pc EXCEPT ![o] = "idle"] /\ base' = [base EXCEPT ![o] = 0]
      /\ held' = [held EXCEPT ![o] = EmptyState]
      /\ UNCHANGED <<bound, store, view, job, nextId, called>>
  BY DEF Drop, Release, Goto, Hold
<1>2. orphans' \subseteq Orphans
  BY Typed DEF Drop, TypeOK, Orphans
<1>3. CASE pc[o] = "queued"
  <2>1. Queues' /\ queue' \in [Agents -> Seq(Ops)]
    BY <1>1, <1>3, QueueDropped, CompactionAssumption DEF Drop, TypeOK
  <2>2. \A a \in Agents : Range(queue'[a]) = {d \in Ops : Owner[d] = a /\ pc'[d] = "queued"}
    BY <2>1 DEF Queues, Waiting
  <2>3. pc' \in [Ops -> PCs] /\ base' \in [Ops -> Nat] /\ held' \in [Ops -> AgentState]
    BY <1>1, EmptyTyped DEF TypeOK, PCs
  <2> QED
    BY <1>1, <1>2, <2>1, <2>2, <2>3 DEF TypeOK, Orphans
<1>4. CASE pc[o] # "queued"
  <2>1. queue' = queue
    BY <1>4 DEF Drop
  <2> QED
    BY <1>1, <1>2, <1>4, <2>1, EmptyTyped, PlacesTyped, StepTyped
<1> QED
  BY <1>3, <1>4

LEMMA OrphanTyped ==
    ASSUME TypeOK, Queues, NEW w \in orphans, OrphanCommits(w) \/ OrphanLost(w)
    PROVE  TypeOK' /\ Queues'
<1>1. /\ orphans' \subseteq orphans /\ UNCHANGED <<bound, view, queue, pc, job, base, held, nextId, called>>
  BY DEF OrphanCommits, OrphanLost
<1>2. w.base \in Nat /\ w.state \in AgentState
  BY DEF TypeOK
<1>3. store' = store \/ store' \in Stores
  BY <1>2, CommitTyped DEF OrphanCommits, OrphanLost
<1>4. Queues'
  BY <1>1, QueueKept
<1> QED
  BY <1>1, <1>3, <1>4 DEF TypeOK, Stores

LEMMA CrashTyped ==
    ASSUME TypeOK, Queues, NEW a \in Agents, Crash(a)
    PROVE  TypeOK' /\ Queues'
<1>1. /\ pc' = [o \in Ops |-> IF Owner[o] = a THEN "idle" ELSE pc[o]]
      /\ base' = [o \in Ops |-> IF Owner[o] = a THEN 0 ELSE base[o]]
      /\ held' = [o \in Ops |-> IF Owner[o] = a THEN EmptyState ELSE held[o]]
      /\ queue' = [queue EXCEPT ![a] = <<>>]
      /\ view' = [view EXCEPT ![a] = EmptyState]
      /\ orphans' \subseteq orphans
      /\ UNCHANGED <<bound, store, job, nextId, called>>
  BY DEF Crash
<1>2. pc' \in [Ops -> PCs] /\ base' \in [Ops -> Nat] /\ held' \in [Ops -> AgentState]
  BY <1>1, EmptyTyped DEF TypeOK, PCs
<1>3. view' \in [Agents -> AgentState] /\ queue' \in [Agents -> Seq(Ops)]
  BY <1>1, EmptyTyped DEF TypeOK
<1>4. Queues'
  <2>1. ASSUME NEW b \in Agents, b # a PROVE Waiting(b)' = Waiting(b) /\ queue'[b] = queue[b]
    BY <1>1, <2>1 DEF Waiting, TypeOK
  <2>2. Waiting(a)' = {} /\ queue'[a] = <<>>
    BY <1>1 DEF Waiting, TypeOK
  <2>3. Range(queue'[a]) = {} /\ Distinct(queue'[a])
    BY <2>2 DEF Range, Distinct
  <2> QED
    BY <1>3, <2>1, <2>2, <2>3 DEF Queues
<1>5. \A b \in Agents : Range(queue'[b]) = {d \in Ops : Owner[d] = b /\ pc'[d] = "queued"}
  BY <1>4 DEF Queues, Waiting
<1> QED
  BY <1>1, <1>2, <1>3, <1>4, <1>5 DEF TypeOK

LEMMA TypeStep == TypeOK /\ Queues /\ [Next]_vars => TypeOK' /\ Queues'
<1> SUFFICES ASSUME TypeOK, Queues, [Next]_vars PROVE TypeOK' /\ Queues'
  OBVIOUS
<1>1. CASE UNCHANGED vars
  <2>1. Queues'
    BY <1>1, QueueKept DEF vars
  <2> QED
    BY <1>1, <2>1 DEF vars, TypeOK
<1>2. CASE Next
  BY <1>2, EntryTyped, BeginTyped, ProgressTyped, DropTyped, OrphanTyped, CrashTyped
  DEF Next, Progress
<1> QED
  BY <1>1, <1>2

LEMMA InitTyped == Init => TypeOK /\ Queues
<1> SUFFICES ASSUME Init PROVE TypeOK /\ Queues
  OBVIOUS
<1>1. \A a \in Agents : queue[a] = <<>> /\ Waiting(a) = {}
  BY DEF Init, Waiting
<1>2. Range(<<>>) = {} /\ Distinct(<<>>)
  BY DEF Range, Distinct
<1>3. Queues
  <2>1. ASSUME NEW a \in Agents
        PROVE  queue[a] \in Seq(Ops) /\ Range(queue[a]) = Waiting(a) /\ Distinct(queue[a])
    <3>1. queue[a] = <<>> /\ Waiting(a) = {}
      BY <1>1
    <3>2. <<>> \in Seq(Ops)
      OBVIOUS
    <3> QED
      BY <1>2, <3>1, <3>2
  <2> QED
    BY <2>1 DEF Queues
<1>4. \A a \in Agents : Range(queue[a]) = {o \in Ops : Owner[o] = a /\ pc[o] = "queued"}
  BY <1>3 DEF Queues, Waiting
<1> QED
  BY <1>3, <1>4, EmptyTyped DEF Init, TypeOK, PCs, Shared

\* Every state that the operations of the clones reach is well typed, and who
\* waits for context_operations is in its queue.
THEOREM TypeCorrect == Spec => []TypeOK
<1>1. Spec => [](TypeOK /\ Queues)
  BY InitTyped, TypeStep, PTL DEF Spec
<1> QED
  BY <1>1, PTL

-----------------------------------------------------------------------------
(* The locks.                                                               *)

Apart ==
    \A o, d \in Ops : o # d /\ Owner[o] = Owner[d] =>
        /\ Holds(o) /\ Holds(d) => job[o] \in Shared
        /\ pc[o] \in Running /\ pc[d] \in Running => ~Bound(o)

LEMMA LocksApartIs == Queues /\ Apart => LocksApart
  BY DEF Queues, Distinct, Apart, LocksApart

LEMMA Places ==
    /\ \A o \in Ops : pc[o] \in Running => Holds(o)
    /\ \A o \in Ops : pc[o] = "begin" => Holds(o)
  BY DEF Running, PCs, Holds

\* Nobody takes a lock.
LEMMA ApartKept ==
    ASSUME Apart, bound' = bound,
           \A d \in Ops : /\ Holds(d)' => Holds(d) /\ job'[d] = job[d]
                          /\ pc'[d] \in Running => pc[d] \in Running
    PROVE  Apart'
  BY DEF Apart, Bound

\* An operation that goes on or ends.
LEMMA ApartGoesOn ==
    ASSUME TypeOK, Apart, bound' = bound, job' = job, NEW o \in Ops, NEW x,
           pc' = [pc EXCEPT ![o] = x], x = "idle" \/ pc[o] \in Running
    PROVE  Apart'
<1>1. x \in Running => pc[o] \in Running
  BY PlacesTyped
<1>2. ASSUME NEW d \in Ops
      PROVE  (Holds(d)' => Holds(d) /\ job'[d] = job[d]) /\ (pc'[d] \in Running => pc[d] \in Running)
  <2>1. CASE d = o
    BY <1>1, <2>1, Places DEF Holds, TypeOK
  <2>2. CASE d # o
    BY <2>2 DEF Holds, TypeOK
  <2> QED
    BY <2>1, <2>2
<1> QED
  BY <1>2, ApartKept

LEMMA EntryApart ==
    ASSUME TypeOK, Apart, NEW o \in Ops, Entry(o)
    PROVE  Apart'
<1>1. ASSUME NEW kind \in Shared \cup {"auto"}, Wait(o, kind) PROVE Apart'
  <2>1. /\ pc' = [pc EXCEPT ![o] = "queued"] /\ job' = [job EXCEPT ![o] = kind]
        /\ bound' = bound
    BY <1>1 DEF Wait, Goto
  <2>2. ASSUME NEW d \in Ops
        PROVE  (Holds(d)' => Holds(d) /\ job'[d] = job[d]) /\ (pc'[d] \in Running => pc[d] \in Running)
    <3>1. CASE d = o
      BY <2>1, <3>1, PlacesTyped DEF Holds, TypeOK
    <3>2. CASE d # o
      BY <2>1, <3>2 DEF Holds, TypeOK
    <3> QED
      BY <3>1, <3>2
  <2> QED
    BY <2>1, <2>2, ApartKept
<1>2. ASSUME NEW kind \in {"compact", "clear"}, TryWrite(o, kind) PROVE Apart'
  <2>1. CASE pc' = pc /\ job' = job
    BY <1>2, <2>1, ApartKept DEF TryWrite, Holds
  <2>2. CASE Free(Owner[o]) /\ pc' = [pc EXCEPT ![o] = "begin"] /\ job' = [job EXCEPT ![o] = kind]
    <3>1. \A d \in Ops : Owner[d] = Owner[o] => ~Holds(d)
      BY <2>2 DEF Free, Holders, Holds
    <3>2. \A d \in Ops : d # o => pc'[d] = pc[d] /\ job'[d] = job[d] /\ (Holds(d)' <=> Holds(d))
      BY <2>2 DEF Holds
    <3>3. pc'[o] \notin Running /\ bound' = bound
      BY <1>2, <2>2, PlacesTyped DEF TypeOK, TryWrite
    <3>4. ASSUME NEW p \in Ops, NEW d \in Ops, p # d, Owner[p] = Owner[d]
          PROVE  /\ Holds(p)' /\ Holds(d)' => job'[p] \in Shared
                 /\ pc'[p] \in Running /\ pc'[d] \in Running => ~(Owner[p] \in bound')
      <4>1. CASE p = o
        BY <3>1, <3>2, <3>3, <3>4, <4>1
      <4>2. CASE d = o
        BY <3>1, <3>2, <3>3, <3>4, <4>2
      <4>3. CASE p # o /\ d # o
        BY <3>2, <3>3, <3>4, <4>3 DEF Apart, Bound
      <4> QED
        BY <4>1, <4>2, <4>3
    <3> QED
      BY <3>4 DEF Apart, Bound
  <2> QED
    BY <1>2, <2>1, <2>2 DEF TryWrite, Goto
<1> QED
  BY <1>1, <1>2 DEF Entry

LEMMA GrantApart ==
    ASSUME TypeOK, Apart, NEW o \in Ops, Grant(o)
    PROVE  Apart'
<1>1. pc' = [pc EXCEPT ![o] = "begin"] /\ job' = job /\ bound' = bound
  BY DEF Grant, Goto
<1>2. \A d \in Ops : Owner[d] = Owner[o] /\ Holds(d) => job[o] \in Shared /\ job[d] \in Shared
  BY DEF Grant, Holders, Holds
<1>3. \A d \in Ops : d # o => pc'[d] = pc[d] /\ (Holds(d)' <=> Holds(d))
  BY <1>1 DEF Holds
<1>4. pc'[o] \notin Running
  BY <1>1, PlacesTyped DEF TypeOK
<1>5. ASSUME NEW p \in Ops, NEW d \in Ops, p # d, Owner[p] = Owner[d]
      PROVE  /\ Holds(p)' /\ Holds(d)' => job'[p] \in Shared
             /\ pc'[p] \in Running /\ pc'[d] \in Running => ~(Owner[p] \in bound')
  <2>1. CASE p = o
    BY <1>1, <1>2, <1>3, <1>4, <1>5, <2>1
  <2>2. CASE d = o
    BY <1>1, <1>2, <1>3, <1>4, <1>5, <2>2
  <2>3. CASE p # o /\ d # o
    BY <1>1, <1>3, <1>5, <2>3 DEF Apart, Bound
  <2> QED
    BY <2>1, <2>2, <2>3
<1> QED
  BY <1>5 DEF Apart, Bound

LEMMA BeginApart ==
    ASSUME TypeOK, Apart, NEW o \in Ops, Begin(o)
    PROVE  Apart'
<1>1. pc[o] = "begin" /\ pc' = [pc EXCEPT ![o] = "open"] /\ job' = job /\ bound' = bound
  BY DEF Begin, Goto
<1>2. Bound(o) => Unlocked(Owner[o])
  BY DEF Begin
<1>3. \A d \in Ops : (Holds(d)' => Holds(d)) /\ (d # o => pc'[d] = pc[d])
  BY <1>1 DEF Holds, TypeOK
<1>4. ASSUME NEW p \in Ops, NEW d \in Ops, p # d, Owner[p] = Owner[d]
      PROVE  /\ Holds(p)' /\ Holds(d)' => job'[p] \in Shared
             /\ pc'[p] \in Running /\ pc'[d] \in Running => ~(Owner[p] \in bound')
  <2>1. Holds(p)' /\ Holds(d)' => job'[p] \in Shared
    BY <1>1, <1>3, <1>4 DEF Apart
  <2>2. CASE p = o \/ d = o
    BY <1>1, <1>2, <1>3, <1>4, <2>1, <2>2 DEF Unlocked, Bound
  <2>3. CASE p # o /\ d # o
    BY <1>1, <1>3, <1>4, <2>1, <2>3 DEF Apart, Bound
  <2> QED
    BY <2>2, <2>3
<1> QED
  BY <1>4 DEF Apart, Bound

-----------------------------------------------------------------------------
(* What a step of an operation leaves alone.                                *)

OthersWait(o) ==
    /\ bound' = bound
    /\ \A d \in Ops : d # o =>
          pc'[d] = pc[d] /\ job'[d] = job[d] /\ base'[d] = base[d] /\ held'[d] = held[d]
OthersViews(o) ==
    \/ view' = view
    \/ /\ pc[o] \in Running \/ (Bound(o) /\ Unlocked(Owner[o]))
       /\ \A a \in Agents : a # Owner[o] => view'[a] = view[a]
StoreGrows == store' = store \/ store'.rev = store.rev + 1

LEMMA SetStateShape ==
    ASSUME TypeOK, NEW o \in Ops, NEW s, SetState(o, s)
    PROVE  view'[Owner[o]] = s /\ \A a \in Agents : a # Owner[o] => view'[a] = view[a]
  BY Typed DEF SetState, TypeOK

LEMMA ReleaseShape ==
    ASSUME TypeOK, NEW o \in Ops, Release(o)
    PROVE  /\ pc' = [pc EXCEPT ![o] = "idle"] /\ pc'[o] = "idle" /\ base'[o] = 0
           /\ held'[o] = EmptyState
           /\ \A d \in Ops : d # o => pc'[d] = pc[d] /\ base'[d] = base[d] /\ held'[d] = held[d]
  BY DEF Release, Goto, Hold, TypeOK

LEMMA GotoShape ==
    ASSUME TypeOK, NEW o \in Ops, NEW x, Goto(o, x)
    PROVE  pc'[o] = x /\ \A d \in Ops : d # o => pc'[d] = pc[d]
  BY DEF Goto, TypeOK

LEMMA HoldShape ==
    ASSUME TypeOK, NEW o \in Ops, NEW s, Hold(o, s)
    PROVE  held'[o] = s /\ \A d \in Ops : d # o => held'[d] = held[d]
  BY DEF Hold, TypeOK

LEMMA BaseShape ==
    ASSUME TypeOK, NEW o \in Ops, NEW b, base' = [base EXCEPT ![o] = b]
    PROVE  base'[o] = b /\ \A d \in Ops : d # o => base'[d] = base[d]
  BY DEF TypeOK

LEMMA SaveShape ==
    ASSUME TypeOK, NEW o \in Ops, SaveSucceeds(o)
    PROVE  /\ store.rev = base[o] /\ store'.rev = store.rev + 1
           /\ store'.state = Pending(o) /\ StoreGrows
  BY DEF SaveSucceeds, Commits, StoreGrows

\* The steps of an operation that has the instance.
Works(o) ==
    \/ Observe(o) \/ Replace(o) \/ Install(o) \/ RestoreFails(o) \/ AcceptReply(o)
    \/ AcceptResults(o) \/ Refuse(o) \/ ModelAnswers(o) \/ ModelPauses(o) \/ ModelFails(o)
    \/ Finish(o) \/ Plan(o) \/ PlanClear(o) \/ NoNeed(o) \/ NoPlan(o) \/ Summarized(o)
    \/ SummaryFails(o) \/ Commit(o) \/ InputFails(o) \/ SaveFails(o)

LEMMA WorksShape ==
    ASSUME TypeOK, NEW o \in Ops, Works(o)
    PROVE  /\ pc[o] \in Running /\ job' = job /\ orphans' = orphans /\ bound' = bound
           /\ OthersWait(o) /\ StoreGrows /\ OthersViews(o)
           /\ \E x : pc' = [pc EXCEPT ![o] = x]
<1>1. pc[o] \in Running
  BY PlacesTyped DEF Works, Observe, Replace, Install, RestoreFails, AcceptReply,
     AcceptResults, Refuse, ModelAnswers, ModelPauses, ModelFails, Finish, Plan, PlanClear,
     NoNeed, NoPlan, Summarized, SummaryFails, Commit, InputFails, SaveFails, Saving
<1>2. job' = job /\ orphans' = orphans /\ bound' = bound
  BY DEF Works, Observe, Replace, Install, RestoreFails, AcceptReply,
     AcceptResults, Refuse, ModelAnswers, ModelPauses, ModelFails, Finish, Plan, PlanClear,
     NoNeed, NoPlan, Summarized, SummaryFails, Commit, InputFails, SaveFails
<1>3. \E x : pc' = [pc EXCEPT ![o] = x]
  BY DEF Works, Observe, Replace, Install, RestoreFails, AcceptReply,
     AcceptResults, Refuse, ModelAnswers, ModelPauses, ModelFails, Finish, Plan, PlanClear,
     NoNeed, NoPlan, Summarized, SummaryFails, Commit, InputFails, SaveFails, Goto, Release
<1>4. base' = base \/ \E b : base' = [base EXCEPT ![o] = b]
  BY DEF Works, Observe, Replace, Install, RestoreFails, AcceptReply,
     AcceptResults, Refuse, ModelAnswers, ModelPauses, ModelFails, Finish, Plan, PlanClear,
     NoNeed, NoPlan, Summarized, SummaryFails, Commit, InputFails, SaveFails, Release
<1>5. held' = held \/ \E s : held' = [held EXCEPT ![o] = s]
  BY DEF Works, Observe, Replace, Install, RestoreFails, AcceptReply,
     AcceptResults, Refuse, ModelAnswers, ModelPauses, ModelFails, Finish, Plan, PlanClear,
     NoNeed, NoPlan, Summarized, SummaryFails, Commit, InputFails, SaveFails, Release, Hold
<1>6. view' = view \/ \E s : view' = [view EXCEPT ![Owner[o]] = s]
  BY DEF Works, Observe, Replace, Install, RestoreFails, AcceptReply,
     AcceptResults, Refuse, ModelAnswers, ModelPauses, ModelFails, Finish, Plan, PlanClear,
     NoNeed, NoPlan, Summarized, SummaryFails, Commit, InputFails, SaveFails, Remember, SetState
<1>7. store' = store \/ SaveSucceeds(o)
  BY DEF Works, Observe, Replace, Install, RestoreFails, AcceptReply,
     AcceptResults, Refuse, ModelAnswers, ModelPauses, ModelFails, Finish, Plan, PlanClear,
     NoNeed, NoPlan, Summarized, SummaryFails, Commit, InputFails, SaveFails
<1>8. OthersWait(o)
  BY <1>2, <1>3, <1>4, <1>5 DEF OthersWait, TypeOK
<1>9. OthersViews(o)
  BY <1>1, <1>6 DEF OthersViews, TypeOK
<1>10. StoreGrows
  BY <1>7, SaveShape DEF StoreGrows
<1> QED
  BY <1>1, <1>2, <1>3, <1>8, <1>9, <1>10

LEMMA BeginShape ==
    ASSUME TypeOK, NEW o \in Ops, Begin(o)
    PROVE  /\ pc[o] = "begin" /\ pc'[o] = "open" /\ job' = job /\ orphans' = orphans
           /\ store' = store /\ held' = held
           /\ bound' = bound /\ OthersWait(o) /\ OthersViews(o)
<1>1. /\ pc[o] = "begin" /\ pc'[o] = "open" /\ job' = job /\ orphans' = orphans
      /\ store' = store /\ held' = held /\ bound' = bound
      /\ \A d \in Ops : d # o => pc'[d] = pc[d]
  BY GotoShape DEF Begin
<1>2. \A d \in Ops : d # o => base'[d] = base[d]
  BY BaseShape DEF Begin
<1>3. view' = view \/ (Bound(o) /\ Unlocked(Owner[o]) /\ SetState(o, store.state))
  BY DEF Begin
<1>4. OthersViews(o)
  BY <1>3, SetStateShape DEF OthersViews
<1> QED
  BY <1>1, <1>2, <1>4 DEF OthersWait

LEMMA BeginFailsShape ==
    ASSUME TypeOK, NEW o \in Ops, BeginFails(o)
    PROVE  /\ pc'[o] = "idle" /\ job' = job /\ orphans' = orphans /\ store' = store
           /\ pc' = [pc EXCEPT ![o] = "idle"] /\ view' = view
           /\ bound' = bound /\ OthersWait(o) /\ base'[o] = 0
<1>1. job' = job /\ orphans' = orphans /\ store' = store /\ view' = view /\ bound' = bound
      /\ Release(o)
  BY DEF BeginFails
<1> QED
  BY <1>1, ReleaseShape DEF OthersWait

LEMMA GrantShape ==
    ASSUME TypeOK, NEW o \in Ops, Grant(o)
    PROVE  /\ pc[o] = "queued" /\ pc'[o] = "begin" /\ job' = job /\ orphans' = orphans
           /\ store' = store /\ view' = view /\ base' = base /\ held' = held
           /\ bound' = bound /\ OthersWait(o)
<1>1. /\ pc[o] = "queued" /\ Goto(o, "begin") /\ job' = job /\ orphans' = orphans
      /\ store' = store /\ view' = view /\ base' = base /\ held' = held /\ bound' = bound
  BY DEF Grant
<1> QED
  BY <1>1, GotoShape DEF OthersWait

LEMMA EntryShape ==
    ASSUME TypeOK, NEW o \in Ops, Entry(o)
    PROVE  /\ pc[o] = "idle" /\ pc'[o] \in {"idle", "queued", "begin"} /\ orphans' = orphans
           /\ store' = store /\ view' = view /\ base' = base /\ held' = held
           /\ bound' = bound /\ OthersWait(o)
           /\ pc'[o] # "idle" /\ job'[o] = "restore" => Bound(o)
<1>1. ASSUME NEW kind \in Shared \cup {"auto"}, Wait(o, kind)
      PROVE  /\ pc[o] = "idle" /\ pc'[o] = "queued" /\ orphans' = orphans
             /\ store' = store /\ view' = view /\ base' = base /\ held' = held
             /\ bound' = bound /\ OthersWait(o)
             /\ job'[o] = "restore" => Bound(o)
  <2>1. job' = [job EXCEPT ![o] = kind] /\ Goto(o, "queued") /\ (kind = "restore" => Bound(o))
    BY <1>1 DEF Wait
  <2>2. job'[o] = kind /\ \A d \in Ops : d # o => job'[d] = job[d]
    BY <2>1 DEF TypeOK
  <2> QED
    BY <1>1, <2>1, <2>2, GotoShape DEF Wait, OthersWait
<1>2. ASSUME NEW kind \in {"compact", "clear"}, TryWrite(o, kind)
      PROVE  /\ pc[o] = "idle" /\ pc'[o] \in {"idle", "begin"} /\ orphans' = orphans
             /\ store' = store /\ view' = view /\ base' = base /\ held' = held
             /\ bound' = bound /\ OthersWait(o)
             /\ pc'[o] # "idle" /\ job'[o] = "restore" => Bound(o)
  <2>1. CASE pc' = pc /\ job' = job
    BY <1>2, <2>1 DEF TryWrite, OthersWait
  <2>2. CASE Goto(o, "begin") /\ job' = [job EXCEPT ![o] = kind]
    <3>1. job'[o] = kind /\ \A d \in Ops : d # o => job'[d] = job[d]
      BY <2>2 DEF TypeOK
    <3> QED
      BY <1>2, <2>2, <3>1, GotoShape DEF TryWrite, OthersWait
  <2> QED
    BY <1>2, <2>1, <2>2 DEF TryWrite
<1> QED
  BY <1>1, <1>2 DEF Entry

LEMMA DropShape ==
    ASSUME TypeOK, NEW o \in Ops, Drop(o)
    PROVE  /\ pc'[o] = "idle" /\ job' = job /\ store' = store /\ view' = view
           /\ pc' = [pc EXCEPT ![o] = "idle"] /\ base'[o] = 0
           /\ bound' = bound /\ OthersWait(o)
           /\ \/ orphans' = orphans
              \/ /\ Saving(o)
                 /\ orphans' = orphans \cup
                      {[agent |-> Owner[o], base |-> base[o], state |-> Pending(o)]}
<1>1. job' = job /\ store' = store /\ view' = view /\ bound' = bound /\ Release(o)
  BY DEF Drop
<1>2. \/ orphans' = orphans
      \/ /\ Saving(o)
         /\ orphans' = orphans \cup
              {[agent |-> Owner[o], base |-> base[o], state |-> Pending(o)]}
  BY DEF Drop
<1> QED
  BY <1>1, <1>2, ReleaseShape DEF OthersWait

-----------------------------------------------------------------------------
(* Which operation is where, and what it compacts.                          *)

\* The next place tells which step was taken.
LEMMA WorksPlaces ==
    ASSUME TypeOK, NEW o \in Ops, Works(o)
    PROVE  /\ pc'[o] \notin {"open", "queued", "begin"}
           /\ pc'[o] = "install" => Replace(o)
           /\ pc'[o] = "summarize" => Plan(o)
           /\ pc'[o] = "commit" => PlanClear(o) \/ Summarized(o)
           /\ pc'[o] = "input" => NoNeed(o) \/ (Commit(o) /\ job[o] = "auto")
           /\ pc'[o] = "model" => AcceptReply(o) \/ AcceptResults(o)
           /\ pc'[o] = "save" =>
                 \/ Observe(o) \/ Install(o) \/ Refuse(o) \/ ModelAnswers(o)
                 \/ ModelPauses(o) \/ ModelFails(o) \/ InputFails(o)
<1>1. \A x : Goto(o, x) => pc'[o] = x
  BY GotoShape
<1>2. Release(o) => pc'[o] = "idle"
  BY ReleaseShape
<1> QED
  BY <1>1, <1>2 DEF Works, Observe, Replace, Install, RestoreFails, AcceptReply,
     AcceptResults, Refuse, ModelAnswers, ModelPauses, ModelFails, Finish, Plan, PlanClear,
     NoNeed, NoPlan, Summarized, SummaryFails, Commit, InputFails, SaveFails

LEMMA JobOthers ==
    ASSUME NEW o \in Ops, OthersWait(o), NEW d \in Ops, d # o, JobHeld(d)
    PROVE  JobHeld(d)'
  BY DEF OthersWait, JobHeld, Bound

LEMMA WorksJob ==
    ASSUME TypeOK, NEW o \in Ops, JobHeld(o), Works(o)
    PROVE  JobHeld(o)'
<1>1. pc[o] # "idle" /\ job' = job /\ bound' = bound
  BY WorksShape, PlacesTyped
<1>2. pc'[o] = "install" => job[o] = "restore" /\ held'[o] \in Backups
  <2>1. SUFFICES ASSUME Replace(o) PROVE job[o] = "restore" /\ held'[o] \in Backups
    BY WorksPlaces
  <2>2. PICK s \in Backups : Hold(o, s)
    BY <2>1 DEF Replace
  <2> QED
    BY <2>1, <2>2, HoldShape DEF Replace
<1>3. pc'[o] \in {"summarize", "commit"} => job[o] \in Exclusive
  BY WorksPlaces DEF Plan, PlanClear, Summarized, JobHeld, Exclusive
<1>4. pc'[o] = "input" => job[o] = "auto"
  BY WorksPlaces DEF NoNeed
<1> QED
  BY <1>1, <1>2, <1>3, <1>4 DEF JobHeld, Bound

\* The state of an operation that has it for itself.
LEMMA OthersState ==
    ASSUME TypeOK, Apart, NEW o \in Ops, OthersViews(o), NEW d \in Ops, d # o,
           pc[d] \in Running, Bound(d) \/ job[d] \in Exclusive
    PROVE  State(d)' = State(d)
<1>1. CASE Owner[d] # Owner[o] \/ view' = view
  BY <1>1, Typed DEF OthersViews, State
<1>2. CASE Owner[d] = Owner[o] /\ view' # view
  <2>1. pc[o] \in Running \/ (Bound(o) /\ Unlocked(Owner[o]))
    BY <1>2 DEF OthersViews
  <2>2. pc[o] \in Running
    BY <1>2, <2>1 DEF Unlocked
  <2>3. job[d] \in Shared /\ ~Bound(d)
    BY <1>2, <2>2, Places DEF Apart
  <2> QED
    BY <2>3 DEF Shared, Exclusive
<1> QED
  BY <1>1, <1>2

LEMMA SourceOthers ==
    ASSUME TypeOK, Apart, NEW o \in Ops, OthersWait(o), OthersViews(o),
           NEW d \in Ops, d # o, JobHeld(d), SourceHeld(d)
    PROVE  SourceHeld(d)'
<1>1. pc'[d] = pc[d] /\ held'[d] = held[d]
  BY DEF OthersWait
<1>2. CASE pc[d] \in {"summarize", "commit"}
  <2>1. State(d)' = State(d)
    BY <1>2, OthersState, PlacesTyped DEF JobHeld
  <2> QED
    BY <1>1, <2>1 DEF SourceHeld
<1>3. CASE pc[d] \notin {"summarize", "commit"}
  BY <1>1, <1>3 DEF SourceHeld
<1> QED
  BY <1>2, <1>3

LEMMA WorksSource ==
    ASSUME TypeOK, NEW o \in Ops, SourceHeld(o), Works(o)
    PROVE  SourceHeld(o)'
<1>1. ASSUME pc'[o] = "summarize" PROVE State(o)' = held'[o] /\ CanSummarize(held'[o])
  <2>1. Plan(o)
    BY <1>1, WorksPlaces
  <2>2. held'[o] = State(o) /\ view' = view /\ CanSummarize(State(o))
    BY <2>1, HoldShape DEF Plan
  <2> QED
    BY <2>2 DEF State
<1>2. ASSUME pc'[o] = "commit"
      PROVE  State(o)' = [held'[o] EXCEPT !.summary = State(o)'.summary]
  <2>1. view' = view
    BY <1>2, WorksPlaces DEF PlanClear, Summarized
  <2>2. State(o)' = State(o) /\ State(o) \in AgentState
    BY <2>1, Typed DEF State
  <2>3. \E h : held'[o] = [State(o) EXCEPT !.summary = h]
    <3>1. CASE PlanClear(o)
      BY <3>1, HoldShape DEF PlanClear
    <3>2. CASE Summarized(o)
      BY <3>2, HoldShape DEF Summarized
    <3> QED
      BY <1>2, <3>1, <3>2, WorksPlaces
  <2> QED
    BY <2>2, <2>3 DEF AgentState
<1> QED
  BY <1>1, <1>2 DEF SourceHeld

LocksHeld == Apart /\ \A o \in Ops : JobHeld(o) /\ SourceHeld(o)

LEMMA LockStep == TypeOK /\ Queues /\ LocksHeld /\ [Next]_vars => LocksHeld'
<1> SUFFICES ASSUME TypeOK, Queues, LocksHeld, [Next]_vars PROVE LocksHeld'
  OBVIOUS
<1>a. Apart /\ \A o \in Ops : JobHeld(o) /\ SourceHeld(o)
  BY DEF LocksHeld
<1>1. ASSUME UNCHANGED vars PROVE LocksHeld'
  BY <1>1, <1>a DEF vars, LocksHeld, Apart, JobHeld, SourceHeld, Holds, Bound, State
\* It is enough to look at the operation that takes the step.
<1>o. ASSUME NEW o \in Ops, Apart', OthersWait(o), OthersViews(o), JobHeld(o)', SourceHeld(o)'
      PROVE  LocksHeld'
  <2>1. ASSUME NEW d \in Ops PROVE JobHeld(d)' /\ SourceHeld(d)'
    BY <1>a, <1>o, JobOthers, SourceOthers
  <2> QED
    BY <1>o, <2>1 DEF LocksHeld
<1>2. ASSUME NEW o \in Ops, Works(o) PROVE LocksHeld'
  <2>1. Apart'
    BY <1>2, <1>a, WorksShape, ApartGoesOn
  <2> QED
    BY <1>2, <1>a, <1>o, <2>1, WorksShape, WorksJob, WorksSource
<1>3. ASSUME NEW o \in Ops, Begin(o) PROVE LocksHeld'
  <2>1. Apart' /\ OthersWait(o) /\ OthersViews(o)
    BY <1>3, <1>a, BeginApart, BeginShape
  <2>2. JobHeld(o)' /\ SourceHeld(o)'
    BY <1>3, <1>a, BeginShape DEF JobHeld, SourceHeld, Bound
  <2> QED
    BY <1>o, <2>1, <2>2
<1>4. ASSUME NEW o \in Ops, BeginFails(o) \/ Drop(o) PROVE LocksHeld'
  <2>1. OthersWait(o) /\ OthersViews(o) /\ pc'[o] = "idle"
        /\ pc' = [pc EXCEPT ![o] = "idle"] /\ job' = job /\ bound' = bound
    BY <1>4, BeginFailsShape, DropShape DEF OthersViews
  <2>2. Apart'
    BY <1>a, <2>1, ApartGoesOn
  <2>3. JobHeld(o)' /\ SourceHeld(o)'
    BY <2>1 DEF JobHeld, SourceHeld
  <2> QED
    BY <1>o, <2>1, <2>2, <2>3
<1>5. ASSUME NEW o \in Ops, Grant(o) PROVE LocksHeld'
  <2>1. Apart' /\ OthersWait(o) /\ OthersViews(o)
    BY <1>5, <1>a, GrantApart, GrantShape DEF OthersViews
  <2>2. JobHeld(o)' /\ SourceHeld(o)'
    BY <1>5, <1>a, GrantShape DEF JobHeld, SourceHeld, Bound
  <2> QED
    BY <1>o, <2>1, <2>2
<1>6. ASSUME NEW o \in Ops, Entry(o) PROVE LocksHeld'
  <2>1. Apart' /\ OthersWait(o) /\ OthersViews(o)
    BY <1>6, <1>a, EntryApart, EntryShape DEF OthersViews
  <2>2. JobHeld(o)' /\ SourceHeld(o)'
    BY <1>6, EntryShape DEF JobHeld, SourceHeld, Bound
  <2> QED
    BY <1>o, <2>1, <2>2
<1>7. ASSUME NEW w \in orphans, OrphanCommits(w) \/ OrphanLost(w) PROVE LocksHeld'
  <2>1. UNCHANGED <<bound, view, pc, job, held>>
    BY <1>7 DEF OrphanCommits, OrphanLost
  <2> QED
    BY <1>a, <2>1 DEF LocksHeld, Apart, JobHeld, SourceHeld, Holds, Bound, State
<1>8. ASSUME NEW a \in Agents, Crash(a) PROVE LocksHeld'
  <2>1. \A d \in Ops : Owner[d] = a => pc'[d] = "idle"
    BY <1>8 DEF Crash
  <2>2. \A d \in Ops : Owner[d] # a => pc'[d] = pc[d] /\ held'[d] = held[d]
    BY <1>8 DEF Crash
  <2>3. bound' = bound /\ job' = job
    BY <1>8 DEF Crash
  <2>4. \A d \in Ops : Owner[d] # a => State(d)' = State(d)
    BY <1>8, Typed DEF Crash, State, TypeOK
  <2>5. Apart'
    BY <1>a, <2>1, <2>2, <2>3, ApartKept, PlacesTyped DEF Holds
  <2>6. ASSUME NEW d \in Ops PROVE JobHeld(d)' /\ SourceHeld(d)'
    <3>1. CASE Owner[d] = a
      BY <2>1, <3>1 DEF JobHeld, SourceHeld
    <3>2. CASE Owner[d] # a
      BY <1>a, <2>2, <2>3, <2>4, <3>2 DEF JobHeld, SourceHeld, Bound
    <3> QED
      BY <3>1, <3>2
  <2> QED
    BY <2>5, <2>6 DEF LocksHeld
<1> QED
  BY <1>1, <1>2, <1>3, <1>4, <1>5, <1>6, <1>7, <1>8 DEF Next, Progress, Works

-----------------------------------------------------------------------------
(* What the saves make of the stored state.                                 *)

Live(o) == Bound(o) /\ pc[o] \in Running /\ base[o] = store.rev /\ store.rev # 0
SaveKept(o) == base[o] <= store.rev /\ (Live(o) => SaveHeld(o))
OrphanKept(w) ==
    w.base <= store.rev /\ (w.base = store.rev /\ store.rev # 0 => Replaces(store.state, w.state))

LEMMA SaveInvIs ==
    SaveInv <=> (\A w \in orphans : OrphanKept(w)) /\ (\A o \in Ops : SaveKept(o))
  BY DEF SaveInv, SaveKept, OrphanKept, Live

LEMMA ExtendsSelf ==
    ASSUME NEW s \in AgentState
    PROVE  Extends(s, s)
  BY PrefixSelf, FieldsTyped DEF Extends

LEMMA ExtendsMore ==
    ASSUME NEW s \in AgentState, NEW t \in AgentState, Extends(s, t),
           NEW kind \in {"user", "call", "results", "answer"}, NEW id \in Nat, NEW n \in Nat
    PROVE  /\ Extends(s, Appended(t, kind, id))
           /\ Extends(s, [Appended(t, kind, id) EXCEPT !.calls = n])
<1> DEFINE a == Appended(t, kind, id)
           m == [kind |-> kind, id |-> id]
<1>1. a \in AgentState /\ a.hist = Append(t.hist, m) /\ a.summary = t.summary /\ m \in Msg
  BY AppendedTyped
<1>2. s.hist \in History /\ t.hist \in History /\ IsPrefix(s.hist, t.hist) /\ t.summary = s.summary
  BY FieldsTyped DEF Extends
<1> HIDE DEF a, m
<1>3. IsPrefix(s.hist, Append(t.hist, m))
  BY <1>1, <1>2, PrefixAppend
<1>4. [a EXCEPT !.calls = n].hist = a.hist /\ [a EXCEPT !.calls = n].summary = a.summary
  BY <1>1, CallsTyped
<1>5. Extends(s, a) /\ Extends(s, [a EXCEPT !.calls = n])
  BY <1>1, <1>2, <1>3, <1>4 DEF Extends
<1> QED
  BY <1>5 DEF a

LEMMA SummarizesTo ==
    ASSUME NEW s \in AgentState, NEW h \in History, h = <<>> \/ Len(h) > Len(s.summary)
    PROVE  Summarizes(s, [s EXCEPT !.summary = h])
<1>1. [s EXCEPT !.summary = h].summary = h
  BY SummaryTyped
<1>2. [[s EXCEPT !.summary = h] EXCEPT !.summary = s.summary] = s
  BY DEF AgentState
<1> QED
  BY <1>1, <1>2 DEF Summarizes

\* A save that is not late replaces the stored state as it should.
LEMMA SavesWell ==
    ASSUME NEW o \in Ops, SaveKept(o), Saving(o), base[o] = store.rev, store.rev # 0
    PROVE  Replaces(store.state, Pending(o))
<1>1. SaveHeld(o)
  BY PlacesTyped DEF SaveKept, Live, Saving
<1> QED
  BY <1>1 DEF SaveHeld, Saving, Pending, Replaces

LEMMA SaveOthers ==
    ASSUME TypeOK, Apart, NEW o \in Ops, OthersWait(o), OthersViews(o), StoreGrows,
           NEW d \in Ops, d # o, SaveKept(d)
    PROVE  SaveKept(d)'
<1>1. pc'[d] = pc[d] /\ base'[d] = base[d] /\ held'[d] = held[d] /\ bound' = bound
  BY DEF OthersWait
<1>2. base[d] \in Nat /\ store.rev \in Nat /\ base[d] <= store.rev
  BY Typed DEF SaveKept
<1>3. CASE store' = store
  <2>1. SUFFICES ASSUME Live(d)' PROVE SaveHeld(d)'
    BY <1>1, <1>2, <1>3 DEF SaveKept
  <2>2. Live(d)
    BY <1>1, <1>3, <2>1 DEF Live, Bound
  <2>3. SaveHeld(d) /\ State(d)' = State(d)
    BY <2>2, OthersState DEF SaveKept, Live
  <2> QED
    BY <1>1, <1>3, <2>3 DEF SaveHeld
<1>4. CASE store'.rev = store.rev + 1
  <2>1. base'[d] <= store'.rev /\ base'[d] # store'.rev
    BY <1>1, <1>2, <1>4
  <2> QED
    BY <2>1 DEF SaveKept, Live
<1> QED
  BY <1>3, <1>4 DEF StoreGrows

LEMMA SaveOrphans ==
    ASSUME TypeOK, StoreGrows, NEW w \in orphans, OrphanKept(w)
    PROVE  OrphanKept(w)'
<1>1. w.base \in Nat /\ store.rev \in Nat /\ w.base <= store.rev
  BY DEF TypeOK, OrphanKept
<1>2. CASE store' = store
  BY <1>2 DEF OrphanKept
<1>3. CASE store'.rev = store.rev + 1
  <2>1. w.base <= store'.rev /\ w.base # store'.rev
    BY <1>1, <1>3
  <2> QED
    BY <2>1 DEF OrphanKept
<1> QED
  BY <1>2, <1>3 DEF StoreGrows

\* The base of an operation is that of its last load or save.
LEMMA WorksBase ==
    ASSUME TypeOK, NEW o \in Ops, Works(o)
    PROVE  /\ base'[o] = base[o] \/ base'[o] = 0 \/ base'[o] = store'.rev
           /\ pc'[o] # "idle" => \/ base'[o] = base[o] /\ store' = store
                                 \/ Commit(o) /\ job[o] = "auto" /\ base'[o] = store'.rev
<1>1. ASSUME Commit(o), job[o] = "auto" PROVE base'[o] = store'.rev
  BY <1>1, BaseShape DEF Commit
<1>2. ASSUME Release(o) PROVE base'[o] = 0 /\ pc'[o] = "idle"
  BY <1>2, ReleaseShape
<1>3. ASSUME ~Release(o), ~(Commit(o) /\ job[o] = "auto")
      PROVE  base' = base /\ store' = store
  BY <1>3 DEF Works, Observe, Replace, Install, RestoreFails, AcceptReply,
     AcceptResults, Refuse, ModelAnswers, ModelPauses, ModelFails, Finish, Plan, PlanClear,
     NoNeed, NoPlan, Summarized, SummaryFails, Commit, InputFails, SaveFails
<1> QED
  BY <1>1, <1>2, <1>3

\* What an operation is about to save, step by step.
LEMMA WorksSave ==
    ASSUME TypeOK, NEW o \in Ops, JobHeld(o), SourceHeld(o), SaveKept(o), Works(o)
    PROVE  SaveKept(o)'
<1>t. /\ State(o) \in AgentState /\ held[o] \in AgentState /\ store.state \in AgentState
      /\ base[o] \in Nat /\ nextId \in Nat /\ State(o).calls \in Nat /\ store.rev \in Nat
      /\ State(o).hist \in History /\ held[o].hist \in History
  BY Typed, FieldsTyped
<1>w. pc[o] \in Running /\ bound' = bound /\ StoreGrows
  BY WorksShape
<1>s. \A s : SetState(o, s) => State(o)' = s
  BY SetStateShape DEF State
<1>1. base'[o] <= store'.rev
  <2>1. store'.rev \in Nat /\ base[o] <= store'.rev
    BY <1>t, <1>w DEF StoreGrows, SaveKept
  <2> QED
    BY <2>1, WorksBase
<1> SUFFICES ASSUME Live(o)' PROVE SaveHeld(o)'
  BY <1>1 DEF SaveKept
<1>l. Bound(o) /\ pc'[o] \in Running /\ base'[o] = store'.rev /\ store'.rev # 0 /\ pc'[o] # "idle"
  BY <1>w, PlacesTyped DEF Live, Bound
<1>k. ASSUME ~(Commit(o) /\ job[o] = "auto")
      PROVE  store' = store /\ SaveHeld(o)
  <2>1. base'[o] = base[o] /\ store' = store
    BY <1>k, <1>l, WorksBase
  <2> QED
    BY <1>l, <1>w, <2>1 DEF SaveKept, Live
<1>p. ASSUME pc'[o] # "input" PROVE store' = store /\ SaveHeld(o)
  <2>1. Commit(o) /\ job[o] = "auto" => pc'[o] = "input"
    BY GotoShape DEF Commit
  <2> QED
    BY <1>k, <1>p, <2>1
<1>2. ASSUME pc'[o] = "summarize" PROVE State(o)' = store'.state
  <2>1. Plan(o) /\ store' = store /\ SaveHeld(o)
    BY <1>2, <1>p, WorksPlaces
  <2> QED
    BY <2>1 DEF Plan, SaveHeld, State
<1>3. ASSUME pc'[o] = "commit"
      PROVE  State(o)' = store'.state /\ Summarizes(store'.state, held'[o])
  <2>1. store' = store /\ SaveHeld(o) /\ (PlanClear(o) \/ Summarized(o))
    BY <1>3, <1>p, WorksPlaces
  <2>2. CASE PlanClear(o)
    <3>1. State(o) = store.state /\ State(o)' = State(o)
          /\ held'[o] = [State(o) EXCEPT !.summary = <<>>]
      BY <2>1, <2>2, HoldShape DEF PlanClear, SaveHeld, State
    <3>2. <<>> \in History
      BY DEF History
    <3> QED
      BY <1>t, <2>1, <3>1, <3>2, SummarizesTo
  <2>3. CASE Summarized(o)
    <3>1. State(o) = store.state /\ State(o)' = State(o) /\ State(o) = held[o]
          /\ held'[o] = [held[o] EXCEPT !.summary = Prefix(held[o].hist)]
      BY <2>1, <2>3, HoldShape DEF Summarized, SaveHeld, State
    <3>2. CanSummarize(held[o])
      BY <2>3 DEF Summarized, SourceHeld
    <3>3. Prefix(held[o].hist) \in History /\ Len(Prefix(held[o].hist)) > Len(held[o].summary)
      BY <1>t, <3>2, PrefixTyped DEF CanSummarize
    <3> QED
      BY <1>t, <2>1, <3>1, <3>3, SummarizesTo
  <2> QED
    BY <2>1, <2>2, <2>3
<1>4. ASSUME pc'[o] = "input" PROVE Extends(store'.state, State(o)')
  <2>1. CASE Commit(o) /\ job[o] = "auto"
    <3>1. pc[o] = "commit" /\ State(o)' = [State(o) EXCEPT !.summary = held[o].summary]
      BY <2>1, <1>s DEF Commit
    <3>2. SaveSucceeds(o)
      BY <1>l, <2>1 DEF Commit
    <3>3. store'.state = held[o]
      BY <3>1, <3>2, SaveShape DEF Pending
    <3>4. State(o) = [held[o] EXCEPT !.summary = State(o).summary]
      BY <3>1 DEF SourceHeld
    <3>5. State(o)' = held[o]
      BY <1>t, <3>1, <3>4 DEF AgentState
    <3> QED
      BY <1>t, <3>3, <3>5, ExtendsSelf
  <2>2. CASE ~(Commit(o) /\ job[o] = "auto")
    <3>1. NoNeed(o) /\ store' = store /\ SaveHeld(o)
      BY <1>4, <1>k, <2>2, WorksPlaces
    <3>2. State(o)' = State(o) /\ State(o) = store.state
      BY <3>1 DEF NoNeed, SaveHeld, State
    <3> QED
      BY <1>t, <3>1, <3>2, ExtendsSelf
  <2> QED
    BY <2>1, <2>2
<1>5. ASSUME pc'[o] = "model" PROVE Extends(store'.state, State(o)')
  <2>1. store' = store /\ SaveHeld(o) /\ (AcceptReply(o) \/ AcceptResults(o))
    BY <1>5, <1>p, WorksPlaces
  <2>2. Extends(store.state, State(o))
    BY <1>t, <2>1, ExtendsSelf DEF SaveHeld, AcceptReply, AcceptResults
  <2>3. CASE AcceptReply(o)
    <3>1. State(o)' = Appended(State(o), "user", nextId)
      BY <2>3, <1>s DEF AcceptReply, Remember
    <3> QED
      BY <1>t, <2>1, <2>2, <3>1, ExtendsMore
  <2>4. CASE AcceptResults(o)
    <3> DEFINE n == 0
    <3>1. State(o)' = [Appended(State(o), "results", State(o).calls) EXCEPT !.calls = n] /\ n \in Nat
      BY <2>4, <1>s DEF AcceptResults
    <3> HIDE DEF n
    <3> QED
      BY <1>t, <2>1, <2>2, <3>1, ExtendsMore
  <2> QED
    BY <2>1, <2>3, <2>4
<1>6. ASSUME pc'[o] = "save" PROVE State(o)' \in Backups \/ Extends(store'.state, State(o)')
  <2>1. /\ store' = store /\ SaveHeld(o)
        /\ \/ Observe(o) \/ Install(o) \/ Refuse(o) \/ ModelAnswers(o)
           \/ ModelPauses(o) \/ ModelFails(o) \/ InputFails(o)
    BY <1>6, <1>p, WorksPlaces
  <2>2. CASE Install(o)
    <3>1. State(o)' = held[o] /\ held[o] \in Backups
      BY <2>2, <1>s DEF Install, JobHeld
    <3> QED
      BY <3>1
  <2>3. CASE ~Install(o)
    <3>1. Extends(store.state, State(o))
      BY <1>t, <2>1, <2>3, ExtendsSelf
      DEF SaveHeld, Observe, Refuse, ModelAnswers, ModelPauses, ModelFails, InputFails
    <3>2. CASE Observe(o)
      <4>1. State(o)' = Appended(State(o), "user", nextId)
        BY <3>2, <1>s DEF Observe, Remember
      <4> QED
        BY <1>t, <2>1, <3>1, <4>1, ExtendsMore
    <3>3. CASE ModelAnswers(o)
      <4>1. State(o)' = Appended(State(o), "answer", nextId)
        BY <3>3, <1>s DEF ModelAnswers, Remember
      <4> QED
        BY <1>t, <2>1, <3>1, <4>1, ExtendsMore
    <3>4. CASE ModelPauses(o)
      <4>1. State(o)' = [Appended(State(o), "call", nextId) EXCEPT !.calls = nextId]
        BY <3>4, <1>s DEF ModelPauses
      <4> QED
        BY <1>t, <2>1, <3>1, <4>1, ExtendsMore
    <3>5. CASE Refuse(o) \/ ModelFails(o) \/ InputFails(o)
      <4>1. State(o)' = State(o)
        BY <3>5 DEF Refuse, ModelFails, InputFails, State
      <4> QED
        BY <2>1, <3>1, <4>1
    <3> QED
      BY <2>1, <2>3, <3>2, <3>3, <3>4, <3>5
  <2> QED
    BY <2>2, <2>3
<1>7. pc'[o] # "open"
  BY WorksPlaces
<1> QED
  BY <1>2, <1>3, <1>4, <1>5, <1>6, <1>7 DEF SaveHeld

LEMMA SaveStep == TypeOK /\ LocksHeld /\ SaveInv /\ [Next]_vars => SaveInv'
<1> SUFFICES ASSUME TypeOK, LocksHeld, SaveInv, [Next]_vars PROVE SaveInv'
  OBVIOUS
<1>a. /\ Apart /\ \A o \in Ops : JobHeld(o) /\ SourceHeld(o)
      /\ \A w \in orphans : OrphanKept(w)
      /\ \A o \in Ops : SaveKept(o)
  BY SaveInvIs DEF LocksHeld
<1>p. SaveInv' <=> (\A w \in orphans' : OrphanKept(w)') /\ (\A o \in Ops : SaveKept(o)')
  BY DEF SaveInv, SaveKept, OrphanKept, Live
<1>1. ASSUME UNCHANGED vars PROVE SaveInv'
  BY <1>1, <1>a, <1>p DEF vars, SaveKept, OrphanKept, Live, SaveHeld, Bound, State
\* It is enough to look at the operation that takes the step.
<1>o. ASSUME NEW o \in Ops, OthersWait(o), OthersViews(o), StoreGrows, SaveKept(o)',
             \A w \in orphans' \ orphans : OrphanKept(w)'
      PROVE  SaveInv'
  <2>1. ASSUME NEW d \in Ops PROVE SaveKept(d)'
    BY <1>a, <1>o, SaveOthers
  <2>2. ASSUME NEW w \in orphans' PROVE OrphanKept(w)'
    BY <1>a, <1>o, SaveOrphans
  <2> QED
    BY <1>p, <2>1, <2>2
\* An operation that has not begun, or has ended, holds nothing.
<1>q. ASSUME NEW o \in Ops, OthersWait(o), store' = store, view' = view, orphans' = orphans,
             pc'[o] \notin Running, base'[o] = base[o] \/ base'[o] = 0
      PROVE  SaveInv'
  <2>1. OthersViews(o) /\ StoreGrows
    BY <1>q DEF OthersViews, StoreGrows
  <2>2. base'[o] <= store'.rev
    BY <1>a, <1>q, Typed DEF SaveKept
  <2>3. SaveKept(o)'
    BY <1>q, <2>2 DEF SaveKept, Live
  <2> QED
    BY <1>o, <1>q, <2>1, <2>3
<1>2. ASSUME NEW o \in Ops, Works(o) PROVE SaveInv'
  <2>1. OthersWait(o) /\ OthersViews(o) /\ StoreGrows /\ orphans' = orphans
    BY <1>2, WorksShape
  <2>2. SaveKept(o)'
    BY <1>2, <1>a, WorksSave
  <2> QED
    BY <1>o, <2>1, <2>2
<1>3. ASSUME NEW o \in Ops, Begin(o) PROVE SaveInv'
  <2>1. OthersWait(o) /\ OthersViews(o) /\ StoreGrows /\ orphans' = orphans /\ store' = store
        /\ bound' = bound /\ pc'[o] = "open"
    BY <1>3, BeginShape DEF StoreGrows
  <2>2. CASE Bound(o)
    <3>1. base'[o] = store.rev
      BY <1>3, <2>2, BaseShape DEF Begin
    <3>2. store.rev # 0 => SetState(o, store.state)
      BY <1>3, <2>2 DEF Begin
    <3>3. store.rev # 0 => State(o)' = store.state
      BY <3>2, SetStateShape DEF State
    <3>4. store.rev <= store.rev
      BY Typed
    <3>5. SaveKept(o)'
      BY <2>1, <3>1, <3>3, <3>4 DEF SaveKept, Live, SaveHeld
    <3> QED
      BY <1>o, <2>1, <3>5
  <2>3. CASE ~Bound(o)
    <3>1. base' = base
      BY <1>3, <2>3 DEF Begin
    <3>2. SaveKept(o)'
      BY <1>a, <2>1, <2>3, <3>1 DEF SaveKept, Live, Bound
    <3> QED
      BY <1>o, <2>1, <3>2
  <2> QED
    BY <2>2, <2>3
<1>4. ASSUME NEW o \in Ops, BeginFails(o) PROVE SaveInv'
  BY <1>4, <1>q, BeginFailsShape, PlacesTyped
<1>5. ASSUME NEW o \in Ops, Grant(o) PROVE SaveInv'
  BY <1>5, <1>q, GrantShape, PlacesTyped
<1>6. ASSUME NEW o \in Ops, Entry(o) PROVE SaveInv'
  BY <1>6, <1>q, EntryShape, PlacesTyped
<1>7. ASSUME NEW o \in Ops, Drop(o) PROVE SaveInv'
  <2>1. OthersWait(o) /\ store' = store /\ view' = view /\ pc'[o] = "idle" /\ base'[o] = 0
    BY <1>7, DropShape
  <2>2. CASE orphans' = orphans
    BY <1>q, <2>1, <2>2, PlacesTyped
  <2>3. CASE Saving(o)
             /\ orphans' = orphans \cup
                  {[agent |-> Owner[o], base |-> base[o], state |-> Pending(o)]}
    <3>0. PICK w : w = [agent |-> Owner[o], base |-> base[o], state |-> Pending(o)]
      OBVIOUS
    <3>1. base[o] = store.rev /\ store.rev # 0 => Replaces(store.state, Pending(o))
      BY <1>a, <2>3, SavesWell
    <3>2. OrphanKept(w)'
      BY <1>a, <2>1, <3>0, <3>1 DEF OrphanKept, SaveKept
    <3>3. OthersViews(o) /\ StoreGrows
      BY <2>1 DEF OthersViews, StoreGrows
    <3>4. SaveKept(o)'
      BY <2>1, Typed, PlacesTyped DEF SaveKept, Live
    <3>5. \A u \in orphans' \ orphans : u = w
      BY <2>3, <3>0
    <3> QED
      BY <1>o, <2>1, <3>2, <3>3, <3>4, <3>5
  <2> QED
    BY <1>7, <2>2, <2>3, DropShape
<1>8. ASSUME NEW w \in orphans, OrphanCommits(w) \/ OrphanLost(w) PROVE SaveInv'
  <2>1. orphans' \subseteq orphans /\ UNCHANGED <<bound, view, pc, job, base, held>>
    BY <1>8 DEF OrphanCommits, OrphanLost
  <2>2. w.base \in Nat /\ w.state \in AgentState
    BY DEF TypeOK
  <2>3. StoreGrows
    BY <1>8, <2>2, CommitTyped DEF OrphanCommits, OrphanLost, StoreGrows
  <2>4. ASSUME NEW u \in orphans' PROVE OrphanKept(u)'
    BY <1>a, <2>1, <2>3, SaveOrphans
  <2>5. ASSUME NEW d \in Ops PROVE SaveKept(d)'
    <3>1. CASE store' = store
      BY <1>a, <2>1, <3>1 DEF SaveKept, Live, SaveHeld, Bound, State
    <3>2. CASE store'.rev = store.rev + 1
      <4>1. base'[d] <= store'.rev /\ base'[d] # store'.rev
        BY <1>a, <2>1, <3>2, Typed DEF SaveKept
      <4> QED
        BY <4>1 DEF SaveKept, Live
    <3> QED
      BY <2>3, <3>1, <3>2 DEF StoreGrows
  <2> QED
    BY <1>p, <2>4, <2>5
<1>9. ASSUME NEW a \in Agents, Crash(a) PROVE SaveInv'
  <2>1. store' = store /\ orphans' \subseteq orphans /\ bound' = bound
    BY <1>9 DEF Crash
  <2>2. \A d \in Ops : Owner[d] = a => pc'[d] = "idle" /\ base'[d] = 0
    BY <1>9 DEF Crash
  <2>3. \A d \in Ops : Owner[d] # a =>
           pc'[d] = pc[d] /\ held'[d] = held[d] /\ base'[d] = base[d] /\ State(d)' = State(d)
    BY <1>9, Typed DEF Crash, State, TypeOK
  <2>4. ASSUME NEW d \in Ops PROVE SaveKept(d)'
    <3>1. CASE Owner[d] = a
      BY <2>1, <2>2, <3>1, Typed, PlacesTyped DEF SaveKept, Live
    <3>2. CASE Owner[d] # a
      BY <1>a, <2>1, <2>3, <3>2 DEF SaveKept, Live, SaveHeld, Bound
    <3> QED
      BY <3>1, <3>2
  <2>5. ASSUME NEW u \in orphans' PROVE OrphanKept(u)'
    BY <1>a, <2>1 DEF OrphanKept
  <2> QED
    BY <1>p, <2>4, <2>5
<1> QED
  BY <1>1, <1>2, <1>3, <1>4, <1>5, <1>6, <1>7, <1>8, <1>9 DEF Next, Progress, Works

\* Whoever saves replaces the stored state as it should.
LEMMA SavesApartStep ==
    TypeOK /\ SaveInv /\ [Next]_vars
       => (store' # store /\ store.rev # 0 => Replaces(store.state, store'.state))
<1> SUFFICES ASSUME TypeOK, SaveInv, [Next]_vars, store' # store, store.rev # 0
             PROVE  Replaces(store.state, store'.state)
  OBVIOUS
<1>a. (\A w \in orphans : OrphanKept(w)) /\ (\A o \in Ops : SaveKept(o))
  BY SaveInvIs
<1>1. ASSUME NEW o \in Ops, Works(o) PROVE Replaces(store.state, store'.state)
  <2>1. Saving(o) /\ SaveSucceeds(o)
    BY <1>1 DEF Works, Observe, Replace, Install, RestoreFails, AcceptReply,
       AcceptResults, Refuse, ModelAnswers, ModelPauses, ModelFails, Finish, Plan, PlanClear,
       NoNeed, NoPlan, Summarized, SummaryFails, Commit, InputFails, SaveFails, Saving
  <2> QED
    BY <1>a, <2>1, SaveShape, SavesWell
<1>2. ASSUME NEW w \in orphans, OrphanCommits(w) \/ OrphanLost(w)
      PROVE  Replaces(store.state, store'.state)
  <2>1. Commits(w.base, w.state)
    BY <1>2 DEF OrphanCommits, OrphanLost
  <2> QED
    BY <1>a, <2>1 DEF Commits, OrphanKept
<1>3. ASSUME NEW o \in Ops, Entry(o) \/ Begin(o) \/ BeginFails(o) \/ Grant(o) \/ Drop(o)
      PROVE  FALSE
  BY <1>3, EntryShape, BeginShape, BeginFailsShape, GrantShape, DropShape
<1>4. ASSUME NEW a \in Agents, Crash(a) PROVE FALSE
  BY <1>4 DEF Crash
<1> QED
  BY <1>1, <1>2, <1>3, <1>4 DEF Next, Progress, Works, vars

-----------------------------------------------------------------------------
(* Summaries fit the histories beside them.                                 *)

LEMMA FitsAppended ==
    ASSUME NEW s \in AgentState, Fits(s),
           NEW kind \in {"user", "call", "results", "answer"}, NEW id \in Nat, NEW n \in Nat
    PROVE  /\ Fits(Appended(s, kind, id))
           /\ Fits([Appended(s, kind, id) EXCEPT !.calls = n])
<1> DEFINE a == Appended(s, kind, id)
           m == [kind |-> kind, id |-> id]
<1>1. a \in AgentState /\ a.hist = Append(s.hist, m) /\ a.summary = s.summary /\ m \in Msg
  BY AppendedTyped
<1>2. s.hist \in History /\ s.summary \in History /\ Valid(s.summary, s.hist)
  BY FieldsTyped DEF Fits
<1> HIDE DEF a, m
<1>3. Valid(s.summary, Append(s.hist, m))
  BY <1>1, <1>2, ValidAppend
<1>4. [a EXCEPT !.calls = n].hist = a.hist /\ [a EXCEPT !.calls = n].summary = a.summary
  BY <1>1, CallsTyped
<1>5. Fits(a) /\ Fits([a EXCEPT !.calls = n])
  BY <1>1, <1>3, <1>4 DEF Fits
<1> QED
  BY <1>5 DEF a

LEMMA FitsEmpty == Fits(EmptyState)
  BY ValidEmpty DEF Fits, EmptyState

\* What is committed was made of the state it is installed in.
LEMMA CommitInstalls ==
    ASSUME TypeOK, NEW o \in Ops, SourceHeld(o), Commit(o)
    PROVE  State(o)' = held[o]
<1>1. pc[o] = "commit" /\ SetState(o, [State(o) EXCEPT !.summary = held[o].summary])
  BY DEF Commit
<1>2. State(o)' = [State(o) EXCEPT !.summary = held[o].summary]
  BY <1>1, SetStateShape DEF State
<1>3. State(o) = [held[o] EXCEPT !.summary = State(o).summary]
  BY <1>1 DEF SourceHeld
<1>4. held[o] \in AgentState /\ State(o) \in AgentState
  BY Typed
<1> QED
  BY <1>2, <1>3, <1>4 DEF AgentState

\* An operation leaves its instance as it was or in a state that fits, unless
\* it is in the middle of a restore.
LEMMA WorksView ==
    ASSUME TypeOK, NEW o \in Ops, JobHeld(o), SourceHeld(o), FitsHeld(o), Works(o)
    PROVE  \/ pc'[o] = "install"
           \/ view' = view /\ pc[o] # "install"
           \/ Fits(State(o)')
<1>t. /\ State(o) \in AgentState /\ nextId \in Nat /\ State(o).calls \in Nat
  BY Typed, FieldsTyped
<1>s. \A s : SetState(o, s) => State(o)' = s
  BY SetStateShape DEF State
<1>f. pc[o] \in {"open", "input", "model"} => Fits(State(o))
  BY PlacesTyped DEF FitsHeld
<1>1. CASE Observe(o)
  BY <1>1, <1>f, <1>s, <1>t, FitsAppended DEF Observe, Remember
<1>2. CASE Replace(o)
  BY <1>2, GotoShape DEF Replace
<1>3. CASE Install(o)
  <2>1. State(o)' = held[o] /\ held[o] \in Backups
    BY <1>3, <1>s DEF Install, JobHeld
  <2> QED
    BY <2>1, BackupsAssumption DEF Fits
<1>4. CASE AcceptReply(o)
  BY <1>4, <1>f, <1>s, <1>t, FitsAppended DEF AcceptReply, Remember
<1>5. CASE AcceptResults(o)
  <2> DEFINE n == 0
  <2>1. State(o)' = [Appended(State(o), "results", State(o).calls) EXCEPT !.calls = n]
        /\ n \in Nat /\ Fits(State(o))
    BY <1>5, <1>f, <1>s DEF AcceptResults
  <2> HIDE DEF n
  <2> QED
    BY <1>t, <2>1, FitsAppended
<1>6. CASE ModelAnswers(o)
  BY <1>6, <1>f, <1>s, <1>t, FitsAppended DEF ModelAnswers, Remember
<1>7. CASE ModelPauses(o)
  BY <1>7, <1>f, <1>s, <1>t, FitsAppended DEF ModelPauses
<1>8. CASE Commit(o)
  <2>1. pc[o] = "commit" /\ State(o)' = held[o]
    BY <1>8, CommitInstalls DEF Commit
  <2> QED
    BY <2>1 DEF FitsHeld
<1>9. CASE \/ RestoreFails(o) \/ Refuse(o) \/ ModelFails(o) \/ Finish(o) \/ Plan(o)
           \/ PlanClear(o) \/ NoNeed(o) \/ NoPlan(o) \/ Summarized(o) \/ SummaryFails(o)
           \/ InputFails(o) \/ SaveFails(o)
  BY <1>9 DEF RestoreFails, Refuse, ModelFails, Finish, Plan, PlanClear, NoNeed, NoPlan,
     Summarized, SummaryFails, InputFails, SaveFails, Saving
<1> QED
  BY <1>1, <1>2, <1>3, <1>4, <1>5, <1>6, <1>7, <1>8, <1>9 DEF Works

LEMMA WorksFits ==
    ASSUME TypeOK, NEW o \in Ops, JobHeld(o), SourceHeld(o), FitsHeld(o), Works(o)
    PROVE  FitsHeld(o)'
<1>t. State(o) \in AgentState /\ held[o] \in AgentState /\ pc[o] \in Running
  BY Typed, WorksShape
<1>1. ASSUME pc'[o] \in Running \ {"install"} PROVE Fits(State(o)')
  <2>1. CASE view' = view /\ pc[o] # "install"
    BY <1>t, <2>1 DEF FitsHeld, State
  <2> QED
    BY <1>1, <2>1, WorksView
<1>2. ASSUME pc'[o] = "commit" PROVE Fits(held'[o])
  <2>1. CASE PlanClear(o)
    <3>1. held'[o] = [State(o) EXCEPT !.summary = <<>>]
      BY <2>1, HoldShape DEF PlanClear
    <3>2. held'[o].summary = <<>>
      BY <1>t, <3>1 DEF AgentState
    <3> QED
      BY <3>2, ValidEmpty DEF Fits
  <2>2. CASE Summarized(o)
    <3>1. held'[o] = [held[o] EXCEPT !.summary = Prefix(held[o].hist)] /\ CanSummarize(held[o])
      BY <2>2, HoldShape DEF Summarized, SourceHeld
    <3> QED
      BY <1>t, <3>1, PrefixFits
  <2> QED
    BY <1>2, <2>1, <2>2, WorksPlaces
<1>3. ASSUME pc'[o] = "model" PROVE Prepared(o)'
  <2>1. AcceptReply(o) \/ AcceptResults(o)
    BY <1>3, WorksPlaces
  <2>2. held'[o] = State(o)'
    <3>1. CASE AcceptReply(o)
      BY <3>1, HoldShape, SetStateShape DEF AcceptReply, Remember, State
    <3>2. CASE AcceptResults(o)
      BY <3>2, HoldShape, SetStateShape DEF AcceptResults, State
    <3> QED
      BY <2>1, <3>1, <3>2
  <2>3. Fits(State(o)')
    BY <1>1, <1>3, PlacesTyped
  <2> QED
    BY <2>2, <2>3 DEF Prepared, Fits
<1> QED
  BY <1>1, <1>2, <1>3 DEF FitsHeld, Fits, Prepared, State

\* Only a commit and a restore change the summary of an instance.
LEMMA WorksSummary ==
    ASSUME TypeOK, NEW o \in Ops, Works(o), ~Install(o), ~Commit(o)
    PROVE  State(o)'.summary = State(o).summary
<1>t. /\ State(o) \in AgentState /\ nextId \in Nat /\ State(o).calls \in Nat
  BY Typed, FieldsTyped
<1>s. \A s : SetState(o, s) => State(o)' = s
  BY SetStateShape DEF State
<1>a. ASSUME NEW kind \in {"user", "call", "results", "answer"}, NEW id \in Nat, NEW n \in Nat
      PROVE  /\ Appended(State(o), kind, id).summary = State(o).summary
             /\ [Appended(State(o), kind, id) EXCEPT !.calls = n].summary = State(o).summary
  <2> DEFINE a == Appended(State(o), kind, id)
  <2>1. a \in AgentState /\ a.summary = State(o).summary
    BY <1>t, AppendedTyped
  <2> HIDE DEF a
  <2>2. [a EXCEPT !.calls = n].summary = a.summary
    BY <2>1, CallsTyped
  <2> QED
    BY <2>1, <2>2 DEF a
<1>1. CASE Observe(o) \/ AcceptReply(o) \/ ModelAnswers(o) \/ ModelPauses(o)
  <2>1. CASE Observe(o)
    BY <2>1, <1>a, <1>s, <1>t DEF Observe, Remember
  <2>2. CASE AcceptReply(o)
    BY <2>2, <1>a, <1>s, <1>t DEF AcceptReply, Remember
  <2>3. CASE ModelAnswers(o)
    BY <2>3, <1>a, <1>s, <1>t DEF ModelAnswers, Remember
  <2>4. CASE ModelPauses(o)
    BY <2>4, <1>a, <1>s, <1>t DEF ModelPauses, Remember
  <2> QED
    BY <1>1, <2>1, <2>2, <2>3, <2>4
<1>2. CASE Replace(o)
  <2>1. \E h : State(o)' = [State(o) EXCEPT !.hist = h]
    BY <1>2, <1>s DEF Replace
  <2> QED
    BY <1>t, <2>1 DEF AgentState
<1>3. CASE AcceptResults(o)
  <2> DEFINE n == 0
  <2>1. State(o)' = [Appended(State(o), "results", State(o).calls) EXCEPT !.calls = n] /\ n \in Nat
    BY <1>3, <1>s DEF AcceptResults
  <2> HIDE DEF n
  <2> QED
    BY <1>a, <1>t, <2>1
<1>9. CASE \/ RestoreFails(o) \/ Refuse(o) \/ ModelFails(o) \/ Finish(o) \/ Plan(o)
           \/ PlanClear(o) \/ NoNeed(o) \/ NoPlan(o) \/ Summarized(o) \/ SummaryFails(o)
           \/ InputFails(o) \/ SaveFails(o)
  BY <1>9 DEF RestoreFails, Refuse, ModelFails, Finish, Plan, PlanClear, NoNeed, NoPlan,
     Summarized, SummaryFails, InputFails, SaveFails, State
<1> QED
  BY <1>1, <1>2, <1>3, <1>9 DEF Works

\* The operations of the clones of an instance without a store do not take the
\* summaries from each other.
LEMMA FitsOthers ==
    ASSUME TypeOK, LocksHeld, NEW o \in Ops, OthersWait(o), OthersViews(o),
           Works(o) \/ view' = view \/ Bound(o),
           pc'[o] = "install" \/ view' = view \/ Fits(State(o)'),
           NEW d \in Ops, d # o, FitsHeld(d)
    PROVE  FitsHeld(d)'
<1>a. Apart /\ JobHeld(o) /\ JobHeld(d)
  BY DEF LocksHeld
<1>1. pc'[d] = pc[d] /\ held'[d] = held[d] /\ bound' = bound
  BY DEF OthersWait
<1>2. CASE State(d)' = State(d)
  BY <1>1, <1>2 DEF FitsHeld, Prepared
<1>3. CASE State(d)' # State(d)
  <2>1. Owner[d] = Owner[o] /\ view' # view
    BY <1>3, Typed DEF OthersViews, State
  <2>2. CASE pc[d] \notin Running
    BY <1>1, <2>2, PlacesTyped DEF FitsHeld
  <2>3. CASE pc[d] \in Running
    <3>1. ~Bound(d) /\ job[d] \notin Exclusive
      BY <1>3, <1>a, <2>3, OthersState
    <3>2. ~Bound(o) /\ Works(o)
      BY <2>1, <3>1 DEF Bound
    <3>3. job[o] \in Shared /\ pc[o] \in Running
      BY <1>a, <2>1, <2>3, <3>2, WorksShape, Places DEF Apart
    <3>4. ~Install(o) /\ ~Commit(o)
      BY <1>a, <3>2, <3>3 DEF Install, Commit, JobHeld, Shared, Exclusive
    <3>5. pc'[o] # "install"
      BY <1>a, <3>2, <3>3, PlacesTyped, WorksPlaces DEF Replace, JobHeld
    <3>6. State(d)' = State(o)' /\ State(d) = State(o)
      BY <2>1 DEF State
    <3>7. State(d)'.summary = State(d).summary
      BY <3>2, <3>4, <3>6, WorksSummary
    <3>8. Fits(State(d)')
      BY <2>1, <3>5, <3>6
    <3> QED
      BY <1>1, <3>7, <3>8 DEF FitsHeld, Prepared, Fits
  <2> QED
    BY <2>2, <2>3
<1> QED
  BY <1>2, <1>3

\* A restore is dropped in the middle only in an instance that is bound to a
\* stored record.
Recorded == "drop" \in Disruptions /\ Backups # {} => bound = {} \/ store.rev > 0
\* Apart from restores, every instance that begins without a record fits.
Unrecorded(a) == Fits(view[a]) \/ \E o \in Ops : Owner[o] = a /\ pc[o] = "install"

LEMMA FitsInvIs ==
    FitsInv <=> /\ Recorded
                /\ Fits(store.state)
                /\ \A w \in orphans : Fits(w.state)
                /\ \A a \in Agents \ bound : Fits(view[a])
                /\ store.rev = 0 => \A a \in bound : Unrecorded(a)
                /\ \A o \in Ops : FitsHeld(o)
  BY DEF FitsInv, Recorded, Unrecorded

\* Views of instances, when one operation took a step.
LEMMA FitsViews ==
    ASSUME TypeOK, FitsInv, NEW o \in Ops, OthersWait(o), StoreGrows,
           view' = view \/ \A a \in Agents : a # Owner[o] => view'[a] = view[a],
           \/ pc'[o] = "install" /\ Bound(o)
           \/ view' = view /\ pc[o] # "install"
           \/ Fits(State(o)')
    PROVE  /\ \A a \in Agents \ bound : Fits(view'[a])
           /\ store'.rev = 0 => \A a \in bound : Unrecorded(a)'
<1>f. /\ \A a \in Agents \ bound : Fits(view[a])
      /\ store.rev = 0 => \A a \in bound : Unrecorded(a)
  BY FitsInvIs
<1>t. Owner[o] \in Agents /\ bound \subseteq Agents /\ store.rev \in Nat
  BY Typed DEF TypeOK
<1>1. ASSUME NEW a \in Agents \ bound PROVE Fits(view'[a])
  <2>1. CASE view'[a] = view[a]
    BY <1>f, <2>1 DEF Fits
  <2>2. CASE view'[a] # view[a]
    <3>1. a = Owner[o] /\ view' # view /\ ~Bound(o)
      BY <1>1, <2>2 DEF Bound
    <3> QED
      BY <3>1 DEF State, Fits
  <2> QED
    BY <2>1, <2>2
<1>2. ASSUME store'.rev = 0, NEW a \in bound PROVE Unrecorded(a)'
  <2>1. store.rev = 0
    BY <1>2, <1>t DEF StoreGrows
  <2>2. Unrecorded(a) /\ a \in Agents
    BY <1>f, <1>t, <2>1
  <2>3. CASE a = Owner[o] /\ ~(view' = view /\ pc[o] # "install")
    BY <2>3 DEF Unrecorded, State
  <2>4. CASE a # Owner[o] \/ (view' = view /\ pc[o] # "install")
    <3>1. view'[a] = view[a]
      BY <2>2, <2>4
    <3>2. \A d \in Ops : Owner[d] = a /\ pc[d] = "install" => pc'[d] = "install"
      BY <2>4 DEF OthersWait
    <3> QED
      BY <2>2, <3>1, <3>2 DEF Unrecorded, Fits
  <2> QED
    BY <2>3, <2>4
<1> QED
  BY <1>1, <1>2

LEMMA RecordedKept ==
    ASSUME TypeOK, Recorded, bound' = bound, StoreGrows
    PROVE  Recorded'
<1>1. store.rev \in Nat
  BY DEF TypeOK
<1> QED
  BY <1>1 DEF Recorded, StoreGrows

LEMMA FitsStep == TypeOK /\ LocksHeld /\ FitsInv /\ [Next]_vars => FitsInv'
<1> SUFFICES ASSUME TypeOK, LocksHeld, FitsInv, [Next]_vars PROVE FitsInv'
  OBVIOUS
<1>a. /\ Apart /\ \A o \in Ops : JobHeld(o) /\ SourceHeld(o)
      /\ Recorded /\ Fits(store.state)
      /\ \A w \in orphans : Fits(w.state)
      /\ \A a \in Agents \ bound : Fits(view[a])
      /\ store.rev = 0 => \A a \in bound : Unrecorded(a)
      /\ \A o \in Ops : FitsHeld(o)
  BY FitsInvIs DEF LocksHeld
<1>p. FitsInv' <=> /\ Recorded'
                   /\ Fits(store'.state)
                   /\ \A w \in orphans' : Fits(w.state)
                   /\ \A a \in Agents \ bound' : Fits(view'[a])
                   /\ store'.rev = 0 => \A a \in bound' : Unrecorded(a)'
                   /\ \A o \in Ops : FitsHeld(o)'
  BY DEF FitsInv, Recorded, Unrecorded, Fits
<1>1. ASSUME UNCHANGED vars PROVE FitsInv'
  BY <1>1, <1>a, <1>p DEF vars, Recorded, Unrecorded, Fits, FitsHeld, Prepared, State
\* It is enough to look at the operation that takes the step.
<1>o. ASSUME NEW o \in Ops, OthersWait(o), OthersViews(o), StoreGrows,
             Works(o) \/ view' = view \/ Bound(o),
             \/ pc'[o] = "install" /\ Bound(o)
             \/ view' = view /\ pc[o] # "install"
             \/ Fits(State(o)'),
             FitsHeld(o)', Fits(store'.state), \A w \in orphans' \ orphans : Fits(w.state)
      PROVE  FitsInv'
  <2>1. bound' = bound
    BY <1>o DEF OthersWait
  <2>2. ASSUME NEW d \in Ops PROVE FitsHeld(d)'
    <3>1. pc'[o] = "install" \/ view' = view \/ Fits(State(o)')
      BY <1>o
    <3> QED
      BY <1>a, <1>o, <3>1, FitsOthers
  <2>3. view' = view \/ \A a \in Agents : a # Owner[o] => view'[a] = view[a]
    BY <1>o DEF OthersViews
  <2>4. /\ \A a \in Agents \ bound : Fits(view'[a])
        /\ store'.rev = 0 => \A a \in bound : Unrecorded(a)'
    BY <1>o, <2>3, FitsViews
  <2>5. Recorded'
    BY <1>a, <1>o, <2>1, RecordedKept
  <2>6. \A w \in orphans' : Fits(w.state)
    BY <1>a, <1>o
  <2> QED
    BY <1>o, <1>p, <2>1, <2>2, <2>4, <2>5, <2>6
\* An operation that has not begun, or has ended, knows nothing.
<1>q. ASSUME NEW o \in Ops, OthersWait(o), store' = store, view' = view,
             pc[o] # "install", pc'[o] \in {"idle", "queued", "begin"},
             \A w \in orphans' \ orphans : Fits(w.state)
      PROVE  FitsInv'
  <2>1. OthersViews(o) /\ StoreGrows
    BY <1>q DEF OthersViews, StoreGrows
  <2>2. FitsHeld(o)'
    BY <1>q, PlacesTyped DEF FitsHeld
  <2>3. Fits(store'.state)
    BY <1>a, <1>q DEF Fits
  <2> QED
    BY <1>o, <1>q, <2>1, <2>2, <2>3
<1>2. ASSUME NEW o \in Ops, Works(o) PROVE FitsInv'
  <2>1. OthersWait(o) /\ OthersViews(o) /\ StoreGrows /\ orphans' = orphans
    BY <1>2, WorksShape
  <2>2. FitsHeld(o)'
    BY <1>2, <1>a, WorksFits
  <2>3. \/ pc'[o] = "install"
        \/ view' = view /\ pc[o] # "install"
        \/ Fits(State(o)')
    BY <1>2, <1>a, WorksView
  <2>4. pc'[o] = "install" => Bound(o)
    BY <1>2, <1>a, WorksPlaces DEF Replace, JobHeld
  <2>5. Fits(store'.state)
    <3>1. CASE store' = store
      BY <1>a, <3>1 DEF Fits
    <3>2. CASE store' # store
      <4>1. Saving(o) /\ SaveSucceeds(o)
        BY <1>2, <3>2 DEF Works, Observe, Replace, Install, RestoreFails, AcceptReply,
           AcceptResults, Refuse, ModelAnswers, ModelPauses, ModelFails, Finish, Plan, PlanClear,
           NoNeed, NoPlan, Summarized, SummaryFails, Commit, InputFails, SaveFails, Saving
      <4>2. store'.state = Pending(o)
        BY <4>1, SaveShape
      <4>3. Fits(Pending(o))
        BY <1>a, <4>1, PlacesTyped DEF FitsHeld, Saving, Pending
      <4> QED
        BY <4>2, <4>3 DEF Fits
    <3> QED
      BY <3>1, <3>2
  <2> QED
    BY <1>2, <1>o, <2>1, <2>2, <2>3, <2>4, <2>5
<1>3. ASSUME NEW o \in Ops, Begin(o) PROVE FitsInv'
  <2>1. OthersWait(o) /\ OthersViews(o) /\ StoreGrows /\ orphans' = orphans /\ store' = store
        /\ bound' = bound /\ pc'[o] = "open"
    BY <1>3, BeginShape DEF StoreGrows
  <2>2. Fits(State(o)') /\ (view' = view \/ Bound(o))
    <3>1. CASE Bound(o) /\ store.rev # 0
      <4>1. SetState(o, store.state)
        BY <1>3, <3>1 DEF Begin
      <4>2. State(o)' = store.state
        BY <4>1, SetStateShape DEF State
      <4> QED
        BY <1>a, <3>1, <4>2 DEF Fits
    <3>2. CASE Bound(o) /\ store.rev = 0
      <4>1. view' = view /\ Unlocked(Owner[o])
        BY <1>3, <3>2 DEF Begin
      <4>2. Unrecorded(Owner[o])
        BY <1>a, <3>2 DEF Bound
      <4>3. Fits(view[Owner[o]])
        BY <4>1, <4>2, PlacesTyped DEF Unrecorded, Unlocked
      <4> QED
        BY <4>1, <4>3 DEF Fits, State
    <3>3. CASE ~Bound(o)
      <4>1. view' = view /\ Fits(view[Owner[o]])
        BY <1>3, <1>a, <3>3, Typed DEF Begin, Bound
      <4> QED
        BY <4>1 DEF Fits, State
    <3> QED
      BY <3>1, <3>2, <3>3
  <2>3. FitsHeld(o)'
    BY <2>1, <2>2 DEF FitsHeld, Fits, State
  <2>4. Fits(store'.state)
    BY <1>a, <2>1 DEF Fits
  <2> QED
    BY <1>o, <2>1, <2>2, <2>3, <2>4
<1>4. ASSUME NEW o \in Ops, BeginFails(o) PROVE FitsInv'
  <2>1. pc[o] = "begin"
    BY <1>4 DEF BeginFails
  <2> QED
    BY <1>4, <1>q, <2>1, BeginFailsShape
<1>5. ASSUME NEW o \in Ops, Grant(o) PROVE FitsInv'
  BY <1>5, <1>q, GrantShape
<1>6. ASSUME NEW o \in Ops, Entry(o) PROVE FitsInv'
  BY <1>6, <1>q, EntryShape
<1>7. ASSUME NEW o \in Ops, Drop(o) PROVE FitsInv'
  <2>1. OthersWait(o) /\ store' = store /\ view' = view /\ pc'[o] = "idle" /\ bound' = bound
        /\ "drop" \in Disruptions
    BY <1>7, DropShape DEF Drop
  <2>2. \A w \in orphans' \ orphans : Fits(w.state)
    <3>1. CASE orphans' = orphans
      BY <3>1
    <3>2. CASE Saving(o)
               /\ orphans' = orphans \cup
                    {[agent |-> Owner[o], base |-> base[o], state |-> Pending(o)]}
      <4>1. Fits(Pending(o))
        BY <1>a, <3>2, PlacesTyped DEF FitsHeld, Saving, Pending
      <4> QED
        BY <3>2, <4>1
    <3> QED
      BY <1>7, <3>1, <3>2, DropShape
  <2>3. CASE pc[o] # "install"
    BY <1>q, <2>1, <2>2, <2>3
  \* Half of a restore stays in an instance whose record is loaded next.
  <2>4. CASE pc[o] = "install"
    <3>1. Bound(o) /\ Backups # {}
      BY <1>a, <2>4 DEF JobHeld
    <3>2. store.rev > 0
      BY <1>a, <2>1, <3>1 DEF Recorded, Bound
    <3>3. store'.rev # 0
      BY <2>1, <3>2, Typed
    <3>4. ASSUME NEW d \in Ops PROVE FitsHeld(d)'
      <4>1. CASE d = o
        BY <2>1, <4>1, PlacesTyped DEF FitsHeld
      <4>2. CASE d # o
        BY <1>a, <2>1, <4>2 DEF OthersWait, FitsHeld, Prepared, Fits, State
      <4> QED
        BY <4>1, <4>2
    <3> QED
      BY <1>a, <1>p, <2>1, <2>2, <3>3, <3>4 DEF Recorded, Fits
  <2> QED
    BY <2>3, <2>4
<1>8. ASSUME NEW w \in orphans, OrphanCommits(w) \/ OrphanLost(w) PROVE FitsInv'
  <2>1. orphans' \subseteq orphans /\ UNCHANGED <<bound, view, pc, job, base, held>>
    BY <1>8 DEF OrphanCommits, OrphanLost
  <2>2. w.base \in Nat /\ w.state \in AgentState
    BY DEF TypeOK
  <2>3. StoreGrows /\ (store' = store \/ store'.state = w.state)
    BY <1>8, <2>2, CommitTyped DEF OrphanCommits, OrphanLost, StoreGrows
  <2>4. Fits(store'.state)
    BY <1>a, <2>3 DEF Fits
  <2>5. Recorded'
    BY <1>a, <2>1, <2>3, RecordedKept
  <2>6. store'.rev = 0 => store.rev = 0
    BY <2>3 DEF StoreGrows, TypeOK
  <2>7. \A d \in Ops : FitsHeld(d)'
    BY <1>a, <2>1 DEF FitsHeld, Prepared, Fits, State
  <2>8. \A a \in bound : Unrecorded(a)' <=> Unrecorded(a)
    BY <2>1 DEF Unrecorded, Fits
  <2> QED
    BY <1>a, <1>p, <2>1, <2>4, <2>5, <2>6, <2>7, <2>8 DEF Fits
<1>9. ASSUME NEW a \in Agents, Crash(a) PROVE FitsInv'
  <2>1. store' = store /\ orphans' \subseteq orphans /\ bound' = bound
    BY <1>9 DEF Crash
  <2>2. \A d \in Ops : Owner[d] = a => pc'[d] = "idle"
    BY <1>9 DEF Crash
  <2>3. \A d \in Ops : Owner[d] # a =>
           pc'[d] = pc[d] /\ held'[d] = held[d] /\ State(d)' = State(d)
    BY <1>9, Typed DEF Crash, State, TypeOK
  <2>4. view'[a] = EmptyState /\ \A b \in Agents : b # a => view'[b] = view[b]
    BY <1>9 DEF Crash, TypeOK
  <2>5. Fits(view'[a])
    BY <2>4, FitsEmpty DEF Fits
  <2>6. ASSUME NEW d \in Ops PROVE FitsHeld(d)'
    <3>1. CASE Owner[d] = a
      BY <2>2, <3>1, PlacesTyped DEF FitsHeld
    <3>2. CASE Owner[d] # a
      BY <1>a, <2>3, <3>2 DEF FitsHeld, Prepared, Fits
    <3> QED
      BY <3>1, <3>2
  <2>7. ASSUME NEW b \in Agents \ bound PROVE Fits(view'[b])
    BY <1>a, <2>4, <2>5 DEF Fits
  <2>8. ASSUME store.rev = 0, NEW b \in bound PROVE Unrecorded(b)'
    <3>1. CASE b = a
      BY <2>5, <3>1 DEF Unrecorded, Fits
    <3>2. CASE b # a
      <4>1. Unrecorded(b) /\ view'[b] = view[b]
        BY <1>a, <2>4, <2>8, <3>2 DEF TypeOK
      <4>2. \A d \in Ops : Owner[d] = b => pc'[d] = pc[d]
        BY <2>3, <3>2
      <4> QED
        BY <4>1, <4>2 DEF Unrecorded, Fits
    <3> QED
      BY <3>1, <3>2
  <2> QED
    BY <1>a, <1>p, <2>1, <2>6, <2>7, <2>8 DEF Recorded, Fits
<1> QED
  BY <1>1, <1>2, <1>3, <1>4, <1>5, <1>6, <1>7, <1>8, <1>9 DEF Next, Progress, Works

-----------------------------------------------------------------------------
(* The theorems that rest on the three invariants.                          *)

Inductive == TypeOK /\ Queues /\ LocksHeld /\ SaveInv

LEMMA InductiveStep ==
    /\ Inductive /\ [Next]_vars => Inductive'
    /\ Inductive /\ FitsInv /\ [Next]_vars => FitsInv'
  BY TypeStep, LockStep, SaveStep, FitsStep DEF Inductive

LEMMA InductiveShows ==
    /\ Inductive => LockInv
    /\ Inductive /\ FitsInv => SummaryFits /\ Undisturbed
<1>1. ASSUME Inductive PROVE LockInv
  BY <1>1, LocksApartIs DEF Inductive, LocksHeld, LockInv
<1>2. ASSUME Inductive, FitsInv PROVE SummaryFits /\ Undisturbed
  <2>1. SummaryFits
    BY <1>2 DEF Inductive, FitsInv, FitsHeld, Fits, SummaryFits
  <2>2. Undisturbed
    BY <1>2 DEF Inductive, LocksHeld, SourceHeld, FitsInv, FitsHeld, Undisturbed
  <2> QED
    BY <2>1, <2>2
<1> QED
  BY <1>1, <1>2

LEMMA InitInductive == Init => Inductive
<1>1. ASSUME Init PROVE LocksHeld /\ SaveInv
  <2>1. orphans = {} /\ store.rev = 0 /\ \A o \in Ops : pc[o] = "idle" /\ base[o] = 0
    BY <1>1 DEF Init
  <2>2. LocksHeld
    BY <2>1, PlacesTyped DEF LocksHeld, Apart, JobHeld, SourceHeld, Holds
  <2>3. SaveInv
    BY <2>1, PlacesTyped DEF SaveInv
  <2> QED
    BY <2>2, <2>3
<1> QED
  BY <1>1, InitTyped DEF Inductive

LEMMA InitFits ==
    ASSUME "drop" \notin Disruptions \/ Backups = {}
    PROVE  Init => FitsInv
<1> SUFFICES ASSUME Init PROVE FitsInv
  OBVIOUS
<1>1. orphans = {} /\ store.state = EmptyState /\ \A o \in Ops : pc[o] = "idle"
  BY DEF Init
<1>2. \A a \in Agents : view[a] = EmptyState
  BY DEF Init
<1>3. bound \subseteq Agents
  BY DEF Init
<1> QED
  BY <1>1, <1>2, <1>3, FitsEmpty, PlacesTyped DEF FitsInv, FitsHeld

LEMMA RestartInductive == TypeOK /\ Restart => Inductive /\ FitsInv
<1> SUFFICES ASSUME TypeOK, Restart PROVE Inductive /\ FitsInv
  OBVIOUS
<1>1. orphans = {} /\ \A o \in Ops : pc[o] = "idle" /\ base[o] = 0
  BY DEF Restart
<1>2. Queues
  <2>1. ASSUME NEW a \in Agents
        PROVE  queue[a] \in Seq(Ops) /\ Range(queue[a]) = Waiting(a) /\ Distinct(queue[a])
    <3>1. queue[a] \in Seq(Ops) /\ Range(queue[a]) = Waiting(a) /\ Waiting(a) = {}
      BY <1>1 DEF TypeOK, Waiting
    <3>2. DOMAIN queue[a] = {}
      BY <3>1 DEF Range
    <3> QED
      BY <3>1, <3>2 DEF Distinct
  <2> QED
    BY <2>1 DEF Queues
<1>3. LocksHeld
  BY <1>1, PlacesTyped DEF LocksHeld, Apart, JobHeld, SourceHeld, Holds
<1>4. SaveInv
  BY <1>1, PlacesTyped DEF SaveInv, TypeOK
<1>5. FitsInv
  <2>1. store.rev \in Nat /\ (bound # {} => store.rev > 0)
    BY DEF TypeOK, Restart
  <2> QED
    BY <1>1, <2>1, PlacesTyped DEF Restart, FitsInv, FitsHeld
<1> QED
  BY <1>2, <1>3, <1>4, <1>5 DEF Inductive

\* The two locks keep whoever compacts alone, and the operations of an instance
\* with a store one after the other; the state that a summary is made of stays
\* as it was until the summary is committed.
THEOREM LocksKept == Spec => []LockInv
  BY InitInductive, InductiveStep, InductiveShows, PTL DEF Spec

\* Ordinary saves, summaries, restored snapshots and the late saves of dropped
\* futures never undo each other in the store: whatever wins the
\* compare-and-swap extends the stored conversation, changes only the summary,
\* or is a snapshot that is put in place whole.
THEOREM SavesKeptApart == Spec => SavesApart
<1>1. Inductive /\ [Next]_vars
         => [store' # store /\ store.rev # 0 => Replaces(store.state, store'.state)]_store
  BY SavesApartStep DEF Inductive
<1> QED
  BY <1>1, InitInductive, InductiveStep, PTL DEF Spec, SavesApart

\* Agents that start without a record, and of which no restore is dropped in
\* the middle, never keep, load or send a summary of another history, and
\* nobody changes the session that a compaction has taken.
THEOREM SummariesKept ==
    ASSUME "drop" \notin Disruptions \/ Backups = {}
    PROVE  Spec => [](SummaryFits /\ Undisturbed)
  BY InitInductive, InitFits, InductiveStep, InductiveShows, PTL DEF Spec

\* Agents that go on with a stored record never do either, whatever is dropped:
\* the next operation loads the record over half of a restore.
THEOREM SummariesKeptAfterRestart == RestartSpec => [](SummaryFits /\ Undisturbed)
  BY RestartInductive, InductiveStep, InductiveShows, PTL DEF RestartSpec

\* Their saves are kept apart too.
THEOREM SavesKeptApartAfterRestart == RestartSpec => SavesApart
<1>1. Inductive /\ [Next]_vars
         => [store' # store /\ store.rev # 0 => Replaces(store.state, store'.state)]_store
  BY SavesApartStep DEF Inductive
<1> QED
  BY <1>1, RestartInductive, InductiveStep, PTL DEF RestartSpec, SavesApart
=============================================================================
