-------------------------- MODULE ChatStream_proofs --------------------------
(* Theorems about ChatStream, for any sessions, bodies, cuts and delays: the *)
(* request that is sent is whole, retries keep their discipline, the cuts of *)
(* the network change nothing of what a caller sees, and a stream returns    *)
(* the answer that its body spells out.                                      *)
EXTENDS ChatStream, FiniteSetTheorems, SequenceTheorems, WellFoundedInduction, TLAPS

-----------------------------------------------------------------------------
(* Numbers.                                                                 *)

LEMMA LeastOf ==
    ASSUME NEW T, T \subseteq Nat, T # {}
    PROVE  Min(T) \in T /\ \A y \in T : Min(T) <= y
<1> DEFINE Less == OpToRel(<, Nat)
<1>1. IsWellFoundedOn(Less, Nat)
  BY NatLessThanWellFounded
<1> HIDE DEF Less
<1>2. PICK x \in T : \A y \in T : ~(<<y, x>> \in Less)
  BY <1>1, WFMin
<1>3. \A y \in T : ~(y < x)
  BY <1>2 DEF Less, OpToRel
<1>4. \A y \in T : x <= y
  BY <1>3
<1> QED
  BY <1>4 DEF Min

\* What holds of 0, and of n + 1 when it holds of n, holds of every number.
LEMMA Induct ==
    ASSUME NEW T, T \subseteq Nat, 0 \in T, \A n \in T : n + 1 \in T
    PROVE  T = Nat
<1> DEFINE D == Nat \ T
<1> SUFFICES ASSUME D # {} PROVE FALSE
  OBVIOUS
<1> DEFINE m == Min(D)
<1>1. m \in D /\ \A y \in D : m <= y
  BY LeastOf
<1> HIDE DEF m
<1>2. m \in Nat /\ m # 0 /\ m - 1 \in Nat /\ m - 1 < m
  BY <1>1
<1>3. m - 1 \in T
  BY <1>1, <1>2
<1> QED
  BY <1>1, <1>2, <1>3

-----------------------------------------------------------------------------
(* Retries.                                                                 *)

\* A power of 2 is less than the next one: subsets are counted.
LEMMA PowersGrow ==
    ASSUME NEW n \in Nat
    PROVE  2 ^ n \in Nat /\ 2 ^ (n + 1) \in Nat /\ 2 ^ n < 2 ^ (n + 1)
<1> DEFINE S == 1 .. n
           T == 1 .. (n + 1)
<1>1. IsFiniteSet(S) /\ Cardinality(S) = n /\ IsFiniteSet(T) /\ Cardinality(T) = n + 1
  BY FS_Interval
<1>2. /\ IsFiniteSet(SUBSET S) /\ Cardinality(SUBSET S) = 2 ^ n
      /\ IsFiniteSet(SUBSET T) /\ Cardinality(SUBSET T) = 2 ^ (n + 1)
  BY <1>1, FS_SUBSET
<1>3. SUBSET S \subseteq SUBSET T /\ n + 1 \in T /\ n + 1 \notin S
  OBVIOUS
<1>4. {n + 1} \in SUBSET T /\ {n + 1} \notin SUBSET S
  BY <1>3
<1> HIDE DEF S, T
<1>5. SUBSET S # SUBSET T
  BY <1>4
<1>6. Cardinality(SUBSET S) \in Nat /\ Cardinality(SUBSET T) \in Nat
  BY <1>2, FS_CardinalityType
<1>7. Cardinality(SUBSET S) < Cardinality(SUBSET T)
  <2> DEFINE A == SUBSET S
             B == SUBSET T
  <2>1. IsFiniteSet(B) /\ A \in SUBSET B /\ A # B
    BY <1>2, <1>3, <1>5
  <2>2. Cardinality(A) \in Nat /\ Cardinality(B) \in Nat
    BY <1>6
  <2> HIDE DEF A, B
  <2>3. Cardinality(A) < Cardinality(B)
    BY <2>1, <2>2, FS_Subset
  <2> QED
    BY <2>3 DEF A, B
<1> QED
  BY <1>2, <1>6, <1>7

\* The exponential delay never shrinks, past the width of its factor too.
LEMMA FactorGrows ==
    ASSUME ConstantsAssumption, NEW n \in Nat
    PROVE  Factor(n) \in Nat /\ Factor(n + 1) \in Nat /\ Factor(n) <= Factor(n + 1)
<1>1. Width \in Nat /\ Width > 0
  BY DEF ConstantsAssumption
<1>2. CASE n + 1 < Width
  <2>1. n < Width
    BY <1>1, <1>2
  <2>2. Factor(n) = 2 ^ n /\ Factor(n + 1) = 2 ^ (n + 1)
    BY <1>2, <2>1 DEF Factor
  <2> QED
    BY <2>2, PowersGrow
<1>3. CASE n + 1 = Width
  <2>1. n < Width /\ ~(n + 1 < Width)
    BY <1>1, <1>3
  <2>2. Factor(n) = 2 ^ n /\ Factor(n + 1) = 2 ^ (n + 1) - 1
    BY <1>3, <2>1 DEF Factor
  <2>3. 2 ^ n \in Nat /\ 2 ^ (n + 1) \in Nat /\ 2 ^ n < 2 ^ (n + 1)
    BY PowersGrow
  <2> DEFINE a == 2 ^ n
             b == 2 ^ (n + 1)
  <2>4. a \in Nat /\ b \in Nat /\ a < b
    BY <2>3
  <2>5. Factor(n) = a /\ Factor(n + 1) = b - 1
    BY <2>2
  <2> HIDE DEF a, b
  <2> QED
    BY <2>4, <2>5
<1>4. CASE n >= Width
  <2>1. ~(n < Width) /\ ~(n + 1 < Width)
    BY <1>1, <1>4
  <2>2. Factor(n) = 2 ^ Width - 1 /\ Factor(n + 1) = 2 ^ Width - 1
    BY <2>1 DEF Factor
  <2> DEFINE m == Width - 1
             a == 2 ^ m
             b == 2 ^ (m + 1)
  <2>3. m \in Nat /\ m + 1 = Width
    BY <1>1
  <2> HIDE DEF m
  <2>4. a \in Nat /\ b \in Nat /\ a < b
    BY <2>3, PowersGrow
  <2>5. Factor(n) = b - 1 /\ Factor(n + 1) = b - 1
    BY <2>2, <2>3
  <2> HIDE DEF a, b
  <2> QED
    BY <2>4, <2>5
<1> QED
  BY <1>1, <1>2, <1>3, <1>4

LEMMA SmallerOf ==
    ASSUME NEW a \in Nat, NEW b \in Nat
    PROVE  Min({a, b}) = IF a <= b THEN a ELSE b
<1>1. Min({a, b}) \in {a, b} /\ \A y \in {a, b} : Min({a, b}) <= y
  BY LeastOf
<1> QED
  BY <1>1

\* A delay is a number and not more than the longest.
LEMMA DelayCapped ==
    ASSUME ConstantsAssumption, NEW n \in Nat,
           NEW after, after = <<>> \/ \E m \in RetryAfters : after = <<m>>
    PROVE  Delay(n, after) \in Nat /\ Delay(n, after) <= MaxDelay
<1>1. /\ MaxDelay \in Nat /\ InitialDelay \in Nat /\ RetryAfters \subseteq Nat
      /\ Factor(n) \in Nat
  BY FactorGrows DEF ConstantsAssumption
<1> DEFINE asked == IF after # <<>> THEN after[1] ELSE InitialDelay * Factor(n)
<1>2. InitialDelay * Factor(n) \in Nat
  BY <1>1
<1>3. asked \in Nat
  BY <1>1, <1>2
<1>4. Delay(n, after) = Min({asked, MaxDelay})
  BY DEF Delay
<1> HIDE DEF asked
<1> QED
  BY <1>1, <1>3, <1>4, SmallerOf

LEMMA DelayGrows ==
    ASSUME ConstantsAssumption, NEW n \in Nat
    PROVE  Delay(n, <<>>) <= Delay(n + 1, <<>>)
<1> DEFINE f == Factor(n)
           g == Factor(n + 1)
           a == InitialDelay * f
           b == InitialDelay * g
<1>1. /\ MaxDelay \in Nat /\ InitialDelay \in Nat
      /\ f \in Nat /\ g \in Nat /\ f <= g
  BY FactorGrows DEF ConstantsAssumption
<1>2. Delay(n, <<>>) = Min({a, MaxDelay}) /\ Delay(n + 1, <<>>) = Min({b, MaxDelay})
  BY DEF Delay
<1> HIDE DEF f, g
<1>3. a \in Nat /\ b \in Nat /\ a <= b
  <2> DEFINE d == g - f
  <2>1. d \in Nat /\ g = f + d
    BY <1>1
  <2> HIDE DEF d
  <2>2. b = a + InitialDelay * d
    BY <1>1, <2>1
  <2>3. a \in Nat /\ InitialDelay * d \in Nat
    BY <1>1, <2>1
  <2> QED
    BY <2>2, <2>3
<1> HIDE DEF a, b
<1> QED
  BY <1>1, <1>2, <1>3, SmallerOf

\* Nothing of a body has been seen.
Untouched ==
    /\ wire = <<>> /\ arrived = 0 /\ buffer = <<>>
    /\ decoder = NewDecoder /\ acc = NewAccumulator

Preparing == {"selecting", "augmenting", "budgeting", "encoding"}

\* What holds while requests are sent: the last delay of the policy is the one
\* of the last retry.
SendInv ==
    /\ pc \in Preparing \cup {"requesting", "waiting", "reading", "done"}
    /\ outcome \in {"none", "response", "error", "broken", "interrupted"}
    /\ retries \in 0 .. MaxRetries
    /\ wait \in [by: {"nobody", "policy", "provider"}, for: Nat]
    /\ wait.by = "policy" => retries > 0 /\ wait.for = Delay(retries - 1, <<>>)
    /\ pc \in Preparing \cup {"requesting", "waiting"} => Untouched

LEMMA InitSends == ASSUME ConstantsAssumption, Init PROVE SendInv
BY DEF Init, SendInv, ConstantsAssumption, Untouched, Preparing

LEMMA PreparesSends ==
    ASSUME ConstantsAssumption, SendInv, Prepare
    PROVE  SendInv' /\ retries' = retries
<1>1. /\ UNCHANGED <<retries, wait, wire, arrived, buffer, decoder, acc>>
  BY DEF Prepare, sending, reading
<1>2. /\ pc \in Preparing
      /\ pc' \in Preparing \/ pc' = "done"
      /\ outcome' \in {outcome, "error"}
  BY DEF Prepare, Preparation, Select, Augment, ApplyBudget, OffloadFails, AugmentFails,
     BudgetFails, HookFails, EncodeFails, Fails, Ends, Preparing
<1>3. Untouched'
  BY <1>1, <1>2 DEF SendInv, Untouched
<1> QED
  BY <1>1, <1>2, <1>3 DEF SendInv

LEMMA RetrySends ==
    ASSUME ConstantsAssumption, SendInv, NEW retryable \in BOOLEAN,
           NEW after, after = <<>> \/ \E m \in RetryAfters : after = <<m>>,
           RetryOrFail(retryable, after)
    PROVE  /\ SendInv'
           /\ retries' > retries =>
                 /\ pc = "requesting" /\ wire = <<>> /\ acc = NewAccumulator
                 /\ wait'.for <= MaxDelay
                 /\ wait.by = "policy" /\ wait'.by = "policy" => wait.for <= wait'.for
<1>1. /\ pc = "requesting" /\ Untouched /\ retries \in Nat /\ MaxRetries \in Nat
      /\ UNCHANGED <<wire, arrived, buffer, decoder, acc>>
  BY DEF RetryOrFail, reading, SendInv, ConstantsAssumption
<1>2. Untouched'
  BY <1>1 DEF Untouched
<1>3. CASE retries < MaxRetries /\ retryable
  <2>1. /\ wait' = [by |-> IF after = <<>> THEN "policy" ELSE "provider",
                   for |-> Delay(retries, after)]
        /\ retries' = retries + 1 /\ pc' = "waiting" /\ outcome' = outcome
    BY <1>3 DEF RetryOrFail
  <2>2. Delay(retries, after) \in Nat /\ Delay(retries, after) <= MaxDelay
    BY <1>1, DelayCapped
  <2>3. wait'.by = "policy" => after = <<>> /\ wait'.for = Delay(retries, <<>>)
    BY <2>1
  <2>4. retries' - 1 = retries /\ retries' > 0 /\ retries' \in 0 .. MaxRetries
    BY <1>1, <1>3, <2>1
  <2>5. wait' \in [by: {"nobody", "policy", "provider"}, for: Nat]
    BY <2>1, <2>2
  <2>6. SendInv'
    BY <1>2, <2>1, <2>3, <2>4, <2>5 DEF SendInv
  <2>7. ASSUME wait.by = "policy", wait'.by = "policy" PROVE wait.for <= wait'.for
    <3> DEFINE n == retries - 1
    <3>1. n \in Nat /\ n + 1 = retries /\ wait.for = Delay(n, <<>>)
      BY <1>1, <2>7 DEF SendInv
    <3>2. wait'.for = Delay(n + 1, <<>>)
      BY <2>3, <2>7, <3>1
    <3> HIDE DEF n
    <3> QED
      BY <3>1, <3>2, DelayGrows
  <2>8. wait'.for <= MaxDelay
    BY <2>1, <2>2
  <2> QED
    BY <1>1, <2>6, <2>7, <2>8 DEF Untouched
<1>4. CASE ~(retries < MaxRetries /\ retryable)
  <2>1. pc' = "done" /\ outcome' = "error" /\ wait' = wait /\ retries' = retries
    BY <1>4 DEF RetryOrFail, Ends, sending
  <2> QED
    BY <1>1, <1>2, <2>1 DEF SendInv
<1> QED
  BY <1>3, <1>4

LEMMA SendStep ==
    ASSUME ConstantsAssumption, SendInv, [Next]_vars
    PROVE  /\ SendInv'
           /\ retries' > retries =>
                 /\ pc = "requesting" /\ wire = <<>> /\ acc = NewAccumulator
                 /\ wait'.for <= MaxDelay
                 /\ wait.by = "policy" /\ wait'.by = "policy" => wait.for <= wait'.for
<1>t. retries \in Nat /\ MaxRetries \in Nat
  BY DEF SendInv, ConstantsAssumption
<1>1. CASE Prepare
  BY <1>1, <1>t, PreparesSends
<1>2. CASE StatusError
  BY <1>2, RetrySends DEF StatusError
<1>3. CASE TransportError
  BY <1>3, RetrySends DEF TransportError
<1>4. CASE Call
  <2>1. /\ pc = "encoding" /\ pc' = "requesting" /\ outcome' = outcome
        /\ UNCHANGED <<retries, wait, wire, arrived, buffer, decoder, acc>>
    BY <1>4 DEF Call, Encode, sending, reading
  <2> QED
    BY <1>t, <2>1 DEF SendInv, Untouched, Preparing
<1>5. CASE Wake
  BY <1>5, <1>t DEF Wake, sending, reading, SendInv, Untouched
<1>6. CASE Succeeds
  <2>1. retries' = 0 /\ wait' = [by |-> "nobody", for |-> 0] /\ pc' = "reading"
        /\ outcome' = outcome
    BY <1>6 DEF Succeeds
  <2> QED
    BY <1>t, <2>1 DEF SendInv, Preparing
<1>7. CASE Generated \/ BodyFails \/ Interrupt
  <2>1. /\ pc' = "done" /\ retries' = retries /\ wait' = wait
        /\ outcome' \in {"response", "error", "broken", "interrupted"}
    BY <1>7 DEF Generated, BodyFails, Interrupt, Ends, sending
  <2> QED
    BY <1>t, <2>1 DEF SendInv, Preparing
<1>8. CASE Read
  <2>1. /\ pc = "reading" /\ pc' \in {"reading", "done"}
        /\ retries' = retries /\ wait' = wait
        /\ outcome' \in {outcome, "response", "error"}
    BY <1>8 DEF Read, Deliver, TakeFrame, ReceiveChunk, EndOfBody, StreamOver, Drained,
       NeedsMore, Streaming, Ends, sending
  <2> QED
    BY <1>t, <2>1 DEF SendInv, Preparing
<1>9. CASE UNCHANGED vars
  BY <1>9, <1>t DEF vars, sending, reading, SendInv, Untouched
<1> QED
  BY <1>1, <1>2, <1>3, <1>4, <1>5, <1>6, <1>7, <1>8, <1>9 DEF Next, Send

LEMMA Sends == Spec => []SendInv
<1>1. Init => SendInv
  BY InitSends, ConstantsAssumption
<1>2. SendInv /\ [Next]_vars => SendInv'
  BY SendStep, ConstantsAssumption
<1> QED
  BY <1>1, <1>2, PTL DEF Spec

\* A request is sent again only while nothing of an answer has been seen, never
\* after more than the longest delay, and the delays of the policy never
\* shrink, whatever the width of the factor.
THEOREM RetriesDisciplined == Spec => RetryDiscipline
<1>1. SendInv /\ [Next]_vars =>
         [retries' > retries =>
             /\ pc = "requesting" /\ wire = <<>> /\ acc = NewAccumulator
             /\ wait'.for <= MaxDelay
             /\ wait.by = "policy" /\ wait'.by = "policy" => wait.for <= wait'.for]_vars
  BY SendStep, ConstantsAssumption
<1> QED
  BY <1>1, Sends, PTL DEF Spec, RetryDiscipline

-----------------------------------------------------------------------------
(* Folds.  The community module defines FoldLeft by a function on the sets of *)
(* indices, which takes the largest index last.                              *)

LEMMA TopOf ==
    ASSUME NEW n \in Nat, NEW s, s \subseteq 1 .. n + 1, n + 1 \in s
    PROVE  Max(s) = n + 1
<1>1. \A y \in s : n + 1 >= y
  OBVIOUS
<1>2. Max(s) \in s /\ \A y \in s : Max(s) >= y
  BY <1>1 DEF Max
<1>3. Max(s) \in 1 .. n + 1 /\ Max(s) >= n + 1
  BY <1>2
<1> QED
  BY <1>3

LEMMA UpTo ==
    ASSUME NEW n \in Nat
    PROVE  /\ n + 1 \in 1 .. n + 1 /\ 1 .. n \subseteq 1 .. n + 1
           /\ (1 .. n + 1) \ {n + 1} = 1 .. n
OBVIOUS

LEMMA MaxInside ==
    ASSUME NEW n \in Nat, NEW s \in SUBSET (1 .. n), s # {}
    PROVE  Max(s) \in s /\ \A y \in s : Max(s) >= y
<1> DEFINE D == {n - y : y \in s}
<1>1. D \subseteq Nat /\ D # {}
  <2>1. \A y \in s : n - y \in Nat
    OBVIOUS
  <2>2. D \subseteq Nat
    BY <2>1
  <2>3. PICK y \in s : TRUE
    OBVIOUS
  <2>4. n - y \in D
    BY <2>3
  <2> QED
    BY <2>2, <2>4
<1>2. Min(D) \in D /\ \A e \in D : Min(D) <= e
  BY <1>1, LeastOf
<1>3. PICK x \in s : Min(D) = n - x
  BY <1>2
<1>4. \A y \in s : n - x <= n - y
  BY <1>2, <1>3
<1>5. \A y \in s : x >= y
  BY <1>3, <1>4
<1> QED
  BY <1>3, <1>5 DEF Max

\* Two such functions that agree on every step are the same.
LEMMA SameIteration ==
    ASSUME NEW n \in Nat, NEW g, NEW h, g[{}] = h[{}],
           \A s \in SUBSET (1 .. n) :
              s # {} /\ g[s \ {Max(s)}] = h[s \ {Max(s)}] => g[s] = h[s]
    PROVE  g[1 .. n] = h[1 .. n] /\ \A s \in SUBSET (1 .. n) : g[s] = h[s]
<1> DEFINE T == {k \in Nat : k <= n => \A s \in SUBSET (1 .. k) : g[s] = h[s]}
<1>1. 0 \in T
  <2>1. \A s \in SUBSET (1 .. 0) : s = {}
    OBVIOUS
  <2> QED
    BY <2>1
<1>2. ASSUME NEW k \in T PROVE k + 1 \in T
  <2> SUFFICES ASSUME k + 1 <= n, NEW s \in SUBSET (1 .. k + 1) PROVE g[s] = h[s]
    OBVIOUS
  <2>1. k \in Nat /\ k <= n /\ \A r \in SUBSET (1 .. k) : g[r] = h[r]
    OBVIOUS
  <2>2. CASE k + 1 \notin s
    <3>1. s \in SUBSET (1 .. k)
      BY <2>1, <2>2
    <3> QED
      BY <2>1, <3>1
  <2>3. CASE k + 1 \in s
    <3>1. Max(s) = k + 1
      BY <2>1, <2>3, TopOf
    <3>2. s \ {k + 1} \in SUBSET (1 .. k) /\ s \in SUBSET (1 .. n)
      BY <2>1
    <3> QED
      BY <2>1, <2>3, <3>1, <3>2
  <2> QED
    BY <2>2, <2>3
<1>3. T = Nat
  <2>1. T \subseteq Nat
    OBVIOUS
  <2> HIDE DEF T
  <2> QED
    BY <1>1, <1>2, <2>1, Induct
<1>4. \A s \in SUBSET (1 .. n) : g[s] = h[s]
  BY <1>3
<1> QED
  BY <1>4

\* The iteration of a step over the first k elements of a sequence, and its
\* value for all of them.
Iteration(g, base, step, es, k) ==
    g = [s \in SUBSET (1 .. k) |->
            IF s = {} THEN base ELSE step[<<g[s \ {Max(s)}], es[Max(s)]>>]]
Iterated(base, step, es) ==
    (CHOOSE g : Iteration(g, base, step, es, Len(es)))[1 .. Len(es)]

LEMMA IterationExists ==
    ASSUME NEW base, NEW step, NEW es, NEW n \in Nat
    PROVE  \E g : Iteration(g, base, step, es, n)
<1> DEFINE T == {k \in Nat : \E g : Iteration(g, base, step, es, k)}
<1>1. 0 \in T
  <2> DEFINE g == [s \in SUBSET (1 .. 0) |-> base]
  <2>1. \A s \in SUBSET (1 .. 0) : s = {}
    OBVIOUS
  <2>2. Iteration(g, base, step, es, 0)
    BY <2>1 DEF Iteration
  <2> HIDE DEF g
  <2> QED
    BY <2>2
<1>2. ASSUME NEW k \in T PROVE k + 1 \in T
  <2>1. PICK g : Iteration(g, base, step, es, k)
    OBVIOUS
  <2> DEFINE h == [s \in SUBSET (1 .. k + 1) |->
                     IF s \in SUBSET (1 .. k) THEN g[s]
                     ELSE step[<<g[s \ {Max(s)}], es[Max(s)]>>]]
  <2>2. ASSUME NEW s \in SUBSET (1 .. k + 1)
        PROVE  h[s] = IF s = {} THEN base ELSE step[<<h[s \ {Max(s)}], es[Max(s)]>>]
    <3>1. CASE s \in SUBSET (1 .. k)
      <4>1. g[s] = IF s = {} THEN base ELSE step[<<g[s \ {Max(s)}], es[Max(s)]>>]
        BY <2>1, <3>1 DEF Iteration
      <4>2. s \ {Max(s)} \in SUBSET (1 .. k) /\ s \ {Max(s)} \in SUBSET (1 .. k + 1)
        BY <3>1
      <4>3. h[s] = g[s] /\ h[s \ {Max(s)}] = g[s \ {Max(s)}]
        BY <3>1, <4>2
      <4> QED
        BY <4>1, <4>3
    <3>2. CASE s \notin SUBSET (1 .. k)
      <4>1. k + 1 \in s /\ s # {}
        BY <3>2
      <4>2. Max(s) = k + 1
        BY <4>1, TopOf
      <4>3. s \ {Max(s)} \in SUBSET (1 .. k) /\ s \ {Max(s)} \in SUBSET (1 .. k + 1)
        BY <4>2
      <4>4. h[s] = step[<<g[s \ {Max(s)}], es[Max(s)]>>] /\ h[s \ {Max(s)}] = g[s \ {Max(s)}]
        BY <3>2, <4>3
      <4> QED
        BY <4>1, <4>4
    <3> QED
      BY <3>1, <3>2
  <2>3. Iteration(h, base, step, es, k + 1)
    BY <2>2 DEF Iteration
  <2> HIDE DEF h
  <2> QED
    BY <2>3
<1>3. T = Nat
  <2>1. T \subseteq Nat
    OBVIOUS
  <2> HIDE DEF T
  <2> QED
    BY <1>1, <1>2, <2>1, Induct
<1> QED
  BY <1>3

LEMMA IterationStep ==
    ASSUME NEW base, NEW step, NEW n \in Nat, NEW es, NEW ee,
           \A i \in 1 .. n : ee[i] = es[i],
           NEW f, Iteration(f, base, step, es, n),
           NEW h, Iteration(h, base, step, ee, n + 1)
    PROVE  h[1 .. n + 1] = step[<<f[1 .. n], ee[n + 1]>>]
<1>1. h[{}] = f[{}]
  BY DEF Iteration
<1>2. ASSUME NEW s \in SUBSET (1 .. n), s # {}, h[s \ {Max(s)}] = f[s \ {Max(s)}]
      PROVE  h[s] = f[s]
  <2>1. Max(s) \in s
    BY <1>2, MaxInside
  <2>2. Max(s) \in 1 .. n /\ s \in SUBSET (1 .. n + 1)
    BY <2>1, UpTo, Zenon
  <2>3. h[s] = step[<<h[s \ {Max(s)}], ee[Max(s)]>>]
    BY <1>2, <2>2 DEF Iteration
  <2>4. f[s] = step[<<f[s \ {Max(s)}], es[Max(s)]>>]
    BY <1>2 DEF Iteration
  <2> QED
    BY <1>2, <2>2, <2>3, <2>4
<1>3. h[1 .. n] = f[1 .. n]
  <2> HIDE DEF Iteration
  <2> QED
    BY <1>1, <1>2, SameIteration
<1> DEFINE all == 1 .. n + 1
<1>4. /\ n + 1 \in all /\ all \subseteq 1 .. n + 1 /\ all \in SUBSET (1 .. n + 1)
      /\ all # {} /\ all \ {n + 1} = 1 .. n
  OBVIOUS
<1>5. h[all] = IF all = {} THEN base ELSE step[<<h[all \ {Max(all)}], ee[Max(all)]>>]
  BY <1>4 DEF Iteration
<1> HIDE DEF all
<1>6. Max(all) = n + 1
  BY <1>4, TopOf
<1>7. h[all] = step[<<f[1 .. n], ee[n + 1]>>]
  BY <1>3, <1>4, <1>5, <1>6
<1> QED
  BY <1>7 DEF all

LEMMA IterationChosen ==
    ASSUME NEW base, NEW step, NEW es, NEW n \in Nat, Len(es) = n
    PROVE  \E g : Iteration(g, base, step, es, n) /\ Iterated(base, step, es) = g[1 .. n]
<1> DEFINE g == CHOOSE g : Iteration(g, base, step, es, n)
<1>1. Iteration(g, base, step, es, n)
  <2>1. \E h : Iteration(h, base, step, es, n)
    BY IterationExists
  <2> QED
    BY <2>1
<1>2. Iterated(base, step, es) = g[1 .. n]
  BY DEF Iterated
<1> HIDE DEF g
<1> QED
  BY <1>1, <1>2

LEMMA IteratedStep ==
    ASSUME NEW base, NEW step, NEW n \in Nat, NEW es, NEW ee,
           Len(es) = n, Len(ee) = n + 1, \A i \in 1 .. n : ee[i] = es[i]
    PROVE  Iterated(base, step, ee) = step[<<Iterated(base, step, es), ee[n + 1]>>]
<1>1. PICK f : Iteration(f, base, step, es, n) /\ Iterated(base, step, es) = f[1 .. n]
  BY IterationChosen
<1>2. n + 1 \in Nat
  OBVIOUS
<1>3. PICK h : Iteration(h, base, step, ee, n + 1)
               /\ Iterated(base, step, ee) = h[1 .. n + 1]
  BY <1>2, IterationChosen
<1>4. h[1 .. n + 1] = step[<<f[1 .. n], ee[n + 1]>>]
  BY <1>1, <1>3, IterationStep
<1> QED
  BY <1>1, <1>3, <1>4

\* The value for no element, and for one more.
LEMMA IteratedAppend ==
    ASSUME NEW base, NEW step, NEW S, NEW es \in Seq(S), NEW e \in S
    PROVE  /\ Iterated(base, step, <<>>) = base
           /\ Iterated(base, step, Append(es, e)) = step[<<Iterated(base, step, es), e>>]
<1> DEFINE n == Len(es)
           ee == Append(es, e)
<1>1. n \in Nat /\ n + 1 \in Nat /\ Len(es) = n /\ Len(ee) = n + 1
  OBVIOUS
<1>2. ee[n + 1] = e /\ \A i \in 1 .. n : ee[i] = es[i]
  OBVIOUS
<1> HIDE DEF n, ee
<1>5. Iterated(base, step, ee) = step[<<Iterated(base, step, es), e>>]
  BY <1>1, <1>2, IteratedStep
<1>6. Iterated(base, step, <<>>) = base
  <2>1. 0 \in Nat /\ Len(<<>>) = 0 /\ 1 .. 0 = {}
    OBVIOUS
  <2>2. PICK g : Iteration(g, base, step, <<>>, 0)
                 /\ Iterated(base, step, <<>>) = g[1 .. 0]
    BY <2>1, IterationChosen
  <2> QED
    BY <2>1, <2>2 DEF Iteration
<1> QED
  BY <1>5, <1>6 DEF ee

\* What the steps keep, every value of the iteration is in.
LEMMA IterationTyped ==
    ASSUME NEW D, NEW E, NEW base \in D, NEW step \in [D \X E -> D],
           NEW n \in Nat, NEW es, \A i \in 1 .. n : es[i] \in E,
           NEW g, Iteration(g, base, step, es, n)
    PROVE  \A s \in SUBSET (1 .. n) : g[s] \in D
<1> DEFINE T == {k \in Nat : k <= n => \A s \in SUBSET (1 .. k) : g[s] \in D}
<1>0. ASSUME NEW s \in SUBSET (1 .. n), s # {}, g[s \ {Max(s)}] \in D PROVE g[s] \in D
  <2>1. Max(s) \in s /\ Max(s) \in 1 .. n
    BY <1>0, MaxInside
  <2>2. es[Max(s)] \in E
    BY <2>1
  <2>3. g[s] = step[<<g[s \ {Max(s)}], es[Max(s)]>>]
    BY <1>0 DEF Iteration
  <2>4. <<g[s \ {Max(s)}], es[Max(s)]>> \in D \X E
    BY <1>0, <2>2
  <2> QED
    BY <2>3, <2>4
<1>1. 0 \in T
  <2>1. \A s \in SUBSET (1 .. 0) : s = {} /\ s \in SUBSET (1 .. n)
    OBVIOUS
  <2>2. g[{}] = base
    BY DEF Iteration
  <2> QED
    BY <2>1, <2>2
<1>2. ASSUME NEW k \in T PROVE k + 1 \in T
  <2>0. k \in Nat /\ k + 1 \in Nat /\ (k <= n => \A r \in SUBSET (1 .. k) : g[r] \in D)
    OBVIOUS
  <2>a. SUFFICES ASSUME k + 1 <= n, NEW s \in SUBSET (1 .. k + 1) PROVE g[s] \in D
    BY <2>0, Zenon
  <2>1. k \in Nat /\ k <= n /\ \A r \in SUBSET (1 .. k) : g[r] \in D
    BY <2>0, <2>a
  <2>2. CASE k + 1 \notin s
    <3>1. s \in SUBSET (1 .. k)
      BY <2>1, <2>2
    <3> QED
      BY <2>1, <3>1
  <2>3. CASE k + 1 \in s
    <3>1. Max(s) = k + 1
      BY <2>1, <2>3, TopOf
    <3>2. s \ {k + 1} \in SUBSET (1 .. k) /\ s \in SUBSET (1 .. n)
      BY <2>0, <2>1, <2>a
    <3>3. g[s \ {Max(s)}] \in D
      BY <2>1, <3>1, <3>2
    <3>4. s # {}
      BY <2>3
    <3> QED
      BY <1>0, <3>2, <3>3, <3>4, Zenon
  <2> QED
    BY <2>2, <2>3
<1>3. T = Nat
  <2>1. T \subseteq Nat
    OBVIOUS
  <2> HIDE DEF T
  <2> QED
    BY <1>1, <1>2, <2>1, Induct
<1> QED
  BY <1>3

LEMMA IteratedTyped ==
    ASSUME NEW D, NEW E, NEW base \in D, NEW step \in [D \X E -> D], NEW es \in Seq(E)
    PROVE  Iterated(base, step, es) \in D
<1> DEFINE n == Len(es)
<1>1. /\ n \in Nat /\ Len(es) = n /\ 1 .. n \in SUBSET (1 .. n)
      /\ \A i \in 1 .. n : es[i] \in E
  OBVIOUS
<1> HIDE DEF n
<1>2. PICK g : Iteration(g, base, step, es, n) /\ Iterated(base, step, es) = g[1 .. n]
  BY <1>1, IterationChosen
<1>3. \A s \in SUBSET (1 .. n) : g[s] \in D
  BY <1>1, <1>2, IterationTyped, Zenon
<1> QED
  BY <1>1, <1>2, <1>3, Zenon

-----------------------------------------------------------------------------
(* Frames.                                                                  *)

LEMMA TokensTyped == ASSUME ConstantsAssumption PROVE Tokens \subseteq TokenType
<1>1. ASSUME NEW w \in Wires PROVE Range(w) \subseteq TokenType
  <2>1. w \in Seq(TokenType)
    BY DEF ConstantsAssumption
  <2> QED
    BY <2>1, RangeOfSeq
<1> QED
  BY <1>1 DEF Tokens

LEMMA WireTokens == ASSUME ConstantsAssumption, NEW w \in Wires PROVE w \in Seq(Tokens)
<1>1. w \in Seq(TokenType)
  BY DEF ConstantsAssumption
<1>2. w \in Seq(Range(w))
  BY <1>1, SeqOfRange
<1>3. Range(w) \subseteq Tokens
  BY DEF Tokens
<1> QED
  BY <1>2, <1>3, SeqMonotonic

\* Where the two delimiters are found.
Long4 == <<"CR", "LF", "CR", "LF">>
Short2 == <<"LF", "LF">>
LongAt(b, p) ==
    /\ p + 3 <= Len(b)
    /\ b[p].is = "CR" /\ b[p + 1].is = "LF" /\ b[p + 2].is = "CR" /\ b[p + 3].is = "LF"
ShortAt(b, p) == p + 1 <= Len(b) /\ b[p].is = "LF" /\ b[p + 1].is = "LF"

LEMMA FoundIs ==
    ASSUME NEW b \in Seq(Tokens)
    PROVE  /\ \A f \in Found(b) :
                 /\ f[1] \in 1 .. Len(b) /\ f = <<f[1], f[2]>>
                 /\ \/ f[2] = Long4 /\ LongAt(b, f[1])
                    \/ f[2] = Short2 /\ ShortAt(b, f[1])
           /\ \A p \in 1 .. Len(b) :
                 /\ LongAt(b, p) => <<p, Long4>> \in Found(b)
                 /\ ShortAt(b, p) => <<p, Short2>> \in Found(b)
<1>1. ASSUME NEW p \in 1 .. Len(b) PROVE IsAt(Long4, b, p) <=> LongAt(b, p)
  <2>1. Len(Long4) = 4 /\ DOMAIN Long4 = {1, 2, 3, 4} /\ p \in Nat /\ Len(b) \in Nat
    BY DEF Long4
  <2>2. Long4[1] = "CR" /\ Long4[2] = "LF" /\ Long4[3] = "CR" /\ Long4[4] = "LF"
    BY DEF Long4
  <2>3. /\ p + 4 - 1 = p + 3 /\ p + 1 - 1 = p /\ p + 2 - 1 = p + 1
        /\ p + 3 - 1 = p + 2
    BY <2>1
  <2> QED
    BY <2>1, <2>2, <2>3 DEF IsAt, LongAt
<1>2. ASSUME NEW p \in 1 .. Len(b) PROVE IsAt(Short2, b, p) <=> ShortAt(b, p)
  <2>1. Len(Short2) = 2 /\ DOMAIN Short2 = {1, 2} /\ p \in Nat /\ Len(b) \in Nat
    BY DEF Short2
  <2>2. Short2[1] = "LF" /\ Short2[2] = "LF"
    BY DEF Short2
  <2>3. p + 2 - 1 = p + 1 /\ p + 1 - 1 = p
    BY <2>1
  <2> QED
    BY <2>1, <2>2, <2>3 DEF IsAt, ShortAt
<1>3. DOMAIN b = 1 .. Len(b) /\ Delimiters = {Long4, Short2}
  BY DEF Delimiters, Long4, Short2
<1>4. Found(b) = {f \in (1 .. Len(b)) \X {Long4, Short2} : IsAt(f[2], b, f[1])}
  BY <1>3 DEF Found
<1> HIDE DEF Long4, Short2
<1>5. ASSUME NEW f \in Found(b)
      PROVE  /\ f[1] \in 1 .. Len(b) /\ f = <<f[1], f[2]>>
             /\ \/ f[2] = Long4 /\ LongAt(b, f[1])
                \/ f[2] = Short2 /\ ShortAt(b, f[1])
  <2>1. PICK p \in 1 .. Len(b), d \in {Long4, Short2} : f = <<p, d>> /\ IsAt(f[2], b, f[1])
    BY <1>4
  <2> QED
    BY <1>1, <1>2, <2>1
<1>6. ASSUME NEW p \in 1 .. Len(b)
      PROVE  /\ LongAt(b, p) => <<p, Long4>> \in Found(b)
             /\ ShortAt(b, p) => <<p, Short2>> \in Found(b)
  BY <1>1, <1>2, <1>4
<1> QED
  BY <1>5, <1>6

LEMMA FirstFound ==
    ASSUME NEW b \in Seq(Tokens), Found(b) # {}
    PROVE  /\ FirstDelimiter(b) \in Found(b)
           /\ \A g \in Found(b) : FirstDelimiter(b)[1] <= g[1]
<1> DEFINE T == {f[1] : f \in Found(b)}
<1>1. T \subseteq Nat /\ T # {}
  BY FoundIs
<1>2. Min(T) \in T /\ \A y \in T : Min(T) <= y
  BY <1>1, LeastOf
<1>3. \E f \in Found(b) : \A g \in Found(b) : f[1] <= g[1]
  BY <1>2
<1> QED
  BY <1>3 DEF FirstDelimiter

\* At one place only one delimiter is found.
LEMMA OneDelimiter ==
    ASSUME NEW b \in Seq(Tokens), NEW f \in Found(b), NEW g \in Found(b), f[1] = g[1]
    PROVE  f = g
<1>1. /\ f = <<f[1], f[2]>> /\ g = <<g[1], g[2]>>
      /\ \/ f[2] = Long4 /\ LongAt(b, f[1])
         \/ f[2] = Short2 /\ ShortAt(b, f[1])
      /\ \/ g[2] = Long4 /\ LongAt(b, g[1])
         \/ g[2] = Short2 /\ ShortAt(b, g[1])
  BY FoundIs
<1>2. ~(LongAt(b, f[1]) /\ ShortAt(b, f[1]))
  BY DEF LongAt, ShortAt
<1> QED
  BY <1>1, <1>2, Zenon

LEMMA Extended ==
    ASSUME NEW b \in Seq(Tokens), NEW rest \in Seq(Tokens)
    PROVE  /\ b \o rest \in Seq(Tokens) /\ Len(b \o rest) = Len(b) + Len(rest)
           /\ Len(b) \in Nat /\ Len(rest) \in Nat
           /\ \A i \in 1 .. Len(b) : (b \o rest)[i] = b[i]
<1>1. Len(b) \in Nat /\ Len(rest) \in Nat
  OBVIOUS
<1>2. \A i \in 1 .. Len(b) + Len(rest) :
         (b \o rest)[i] = IF i <= Len(b) THEN b[i] ELSE rest[i - Len(b)]
  BY ConcatProperties
<1>3. \A i \in 1 .. Len(b) : i \in 1 .. Len(b) + Len(rest) /\ i <= Len(b)
  BY <1>1
<1> QED
  BY <1>1, <1>2, <1>3, ConcatProperties

\* What is found stays found, and nothing is found before it later.
LEMMA FoundStays ==
    ASSUME NEW b \in Seq(Tokens), NEW rest \in Seq(Tokens), NEW f \in Found(b)
    PROVE  f \in Found(b \o rest)
<1> DEFINE c == b \o rest
           p == f[1]
<1>1. /\ c \in Seq(Tokens) /\ Len(b) \in Nat /\ Len(c) \in Nat /\ Len(b) <= Len(c)
      /\ \A i \in 1 .. Len(b) : c[i] = b[i]
  BY Extended
<1>2. /\ p \in 1 .. Len(b) /\ f = <<p, f[2]>>
      /\ \/ f[2] = Long4 /\ LongAt(b, p)
         \/ f[2] = Short2 /\ ShortAt(b, p)
  BY FoundIs
<1> HIDE DEF c, p
<1>3. p \in 1 .. Len(c) /\ p \in Nat
  BY <1>1, <1>2
<1>4. CASE f[2] = Long4 /\ LongAt(b, p)
  <2>1. /\ p + 1 \in 1 .. Len(b) /\ p + 2 \in 1 .. Len(b) /\ p + 3 \in 1 .. Len(b)
        /\ p + 3 <= Len(c)
    BY <1>1, <1>2, <1>3, <1>4 DEF LongAt
  <2>2. LongAt(c, p)
    BY <1>1, <1>2, <1>4, <2>1 DEF LongAt
  <2> QED
    BY <1>1, <1>2, <1>3, <1>4, <2>2, FoundIs DEF c
<1>5. CASE f[2] = Short2 /\ ShortAt(b, p)
  <2>1. p + 1 \in 1 .. Len(b) /\ p + 1 <= Len(c)
    BY <1>1, <1>2, <1>3, <1>5 DEF ShortAt
  <2>2. ShortAt(c, p)
    BY <1>1, <1>2, <1>5, <2>1 DEF ShortAt
  <2> QED
    BY <1>1, <1>2, <1>3, <1>5, <2>2, FoundIs DEF c
<1> QED
  BY <1>2, <1>4, <1>5

LEMMA NothingEarlier ==
    ASSUME NEW b \in Seq(Tokens), NEW rest \in Seq(Tokens), NEW f \in Found(b),
           NEW g \in Found(b \o rest), g[1] < f[1]
    PROVE  g \in Found(b)
<1> DEFINE c == b \o rest
           p == f[1]
           q == g[1]
<1>1. /\ c \in Seq(Tokens) /\ Len(b) \in Nat /\ Len(c) \in Nat /\ Len(b) <= Len(c)
      /\ \A i \in 1 .. Len(b) : c[i] = b[i]
  BY Extended
<1>2. /\ p \in 1 .. Len(b)
      /\ LongAt(b, p) \/ ShortAt(b, p)
  BY FoundIs
<1>3. /\ q \in 1 .. Len(c) /\ g = <<q, g[2]>>
      /\ \/ g[2] = Long4 /\ LongAt(c, q)
         \/ g[2] = Short2 /\ ShortAt(c, q)
  BY <1>1, FoundIs
<1>a. q < p
  OBVIOUS
<1> HIDE DEF c, p, q
<1>b. p \in Nat /\ q \in Nat /\ p <= Len(b) /\ 1 <= q
  BY <1>1, <1>2, <1>3
<1>c. p + 1 <= Len(b)
  BY <1>1, <1>2, <1>b DEF LongAt, ShortAt
<1>4. q \in Nat /\ p \in Nat /\ q < p /\ q \in 1 .. Len(b) /\ p + 1 <= Len(b)
      /\ p + 1 \in 1 .. Len(b)
  BY <1>1, <1>a, <1>b, <1>c
<1>5. q + 1 <= Len(b) /\ q + 1 \in 1 .. Len(b) /\ q + 2 \in 1 .. Len(b)
  BY <1>1, <1>4
<1>6. CASE g[2] = Short2 /\ ShortAt(c, q)
  <2>1. ShortAt(b, q)
    BY <1>1, <1>4, <1>5, <1>6 DEF ShortAt
  <2> QED
    BY <1>3, <1>4, <1>6, <2>1, FoundIs
<1>7. CASE g[2] = Long4 /\ LongAt(c, q)
  <2>1. c[q] = b[q] /\ c[q + 1] = b[q + 1] /\ c[q + 2] = b[q + 2]
    BY <1>1, <1>4, <1>5
  <2>2. b[q].is = "CR" /\ b[q + 1].is = "LF" /\ b[q + 2].is = "CR"
    BY <1>7, <2>1 DEF LongAt
  <2>3. q + 3 <= Len(b)
    <3>1. SUFFICES ASSUME Len(b) < q + 3 PROVE FALSE
      BY <1>1, <1>4
    <3>2. p = q + 1
      BY <1>1, <1>4, <3>1
    <3>3. ~LongAt(b, p)
      BY <1>1, <1>4, <3>1 DEF LongAt
    <3>4. b[p + 1].is = "LF" /\ p + 1 = q + 2
      BY <1>2, <1>4, <3>2, <3>3 DEF ShortAt
    <3> QED
      BY <2>2, <3>4
  <2>4. q + 3 \in 1 .. Len(b)
    BY <1>1, <1>4, <2>3
  <2>5. LongAt(b, q)
    BY <1>1, <1>7, <2>2, <2>3, <2>4 DEF LongAt
  <2> QED
    BY <1>3, <1>4, <1>7, <2>5, FoundIs
<1> QED
  BY <1>3, <1>6, <1>7

\* More bytes do not change the first delimiter.
LEMMA FirstStays ==
    ASSUME NEW b \in Seq(Tokens), NEW rest \in Seq(Tokens), Found(b) # {}
    PROVE  Found(b \o rest) # {} /\ FirstDelimiter(b \o rest) = FirstDelimiter(b)
<1> DEFINE f == FirstDelimiter(b)
           c == b \o rest
           g == FirstDelimiter(c)
<1>1. f \in Found(b) /\ (\A h \in Found(b) : f[1] <= h[1]) /\ f[1] \in 1 .. Len(b)
  BY FirstFound, FoundIs
<1>2. c \in Seq(Tokens) /\ f \in Found(c)
  BY <1>1, Extended, FoundStays
<1>3. g \in Found(c) /\ (\A h \in Found(c) : g[1] <= h[1]) /\ g[1] \in 1 .. Len(c)
  BY <1>2, FirstFound, FoundIs
<1>4. g[1] <= f[1]
  BY <1>2, <1>3
<1>5. Len(b) \in Nat /\ Len(c) \in Nat
  BY <1>2
<1> HIDE DEF f, g
<1>6. f[1] \in Nat /\ g[1] \in Nat
  BY <1>1, <1>3, <1>5
<1>7. ~(g[1] < f[1])
  <2>1. SUFFICES ASSUME g[1] < f[1] PROVE FALSE
    OBVIOUS
  <2>2. g \in Found(b)
    BY <1>1, <1>3, <2>1, NothingEarlier
  <2> QED
    BY <1>1, <1>6, <2>1, <2>2
<1>8. g[1] = f[1]
  BY <1>4, <1>6, <1>7
<1> HIDE DEF c
<1>9. f = g
  BY <1>2, <1>3, <1>8, OneDelimiter
<1> QED
  BY <1>2, <1>9 DEF c, f, g

LEMMA HeadStays ==
    ASSUME NEW S, NEW b \in Seq(S), NEW rest \in Seq(S), NEW k \in 0 .. Len(b)
    PROVE  SubSeq(b \o rest, 1, k) = SubSeq(b, 1, k)
<1>1. CASE k = 0
  <2>1. SubSeq(b \o rest, 1, 0) = <<>> /\ SubSeq(b, 1, 0) = <<>>
    BY SubSeqEmpty
  <2> QED
    BY <1>1, <2>1
<1>2. CASE k # 0
  <2>1. 1 \in 1 .. Len(b) /\ k \in 1 .. Len(b)
    BY <1>2
  <2> QED
    BY <2>1, SubSeqOfConcat1
<1> QED
  BY <1>1, <1>2

LEMMA TailStays ==
    ASSUME NEW S, NEW b \in Seq(S), NEW rest \in Seq(S), NEW k \in 1 .. Len(b) + 1
    PROVE  SubSeq(b \o rest, k, Len(b \o rest)) = SubSeq(b, k, Len(b)) \o rest
<1> DEFINE c == b \o rest
           t == SubSeq(c, k, Len(c))
           u == SubSeq(b, k, Len(b))
           v == u \o rest
<1>1. /\ c \in Seq(S) /\ Len(c) = Len(b) + Len(rest) /\ Len(b) \in Nat /\ Len(rest) \in Nat
      /\ \A i \in 1 .. Len(b) + Len(rest) :
            c[i] = IF i <= Len(b) THEN b[i] ELSE rest[i - Len(b)]
  BY ConcatProperties
<1> HIDE DEF c
<1>2. k \in Nat /\ k >= 1 /\ k <= Len(b) + 1
  BY <1>1
<1>3. /\ t \in Seq(S) /\ Len(t) = Len(c) - k + 1
      /\ \A i \in 1 .. Len(c) - k + 1 : t[i] = c[k + i - 1]
  <2>1. \A i \in k .. Len(c) : c[i] \in S
    BY <1>1, <1>2
  <2>2. /\ t \in Seq(S) /\ Len(t) = IF k <= Len(c) THEN Len(c) - k + 1 ELSE 0
        /\ \A i \in 1 .. Len(c) - k + 1 : t[i] = c[k + i - 1]
    BY <1>1, <1>2, <2>1, SubSeqProperties
  <2>3. Len(c) - k + 1 = IF k <= Len(c) THEN Len(c) - k + 1 ELSE 0
    <3> DEFINE l == Len(c)
    <3>1. l \in Nat /\ k \in Nat /\ k <= l + 1
      BY <1>1, <1>2
    <3> HIDE DEF l
    <3>2. l - k + 1 = IF k <= l THEN l - k + 1 ELSE 0
      BY <3>1
    <3> QED
      BY <3>2 DEF l
  <2> HIDE DEF t
  <2> QED
    BY <2>2, <2>3
<1>4. /\ u \in Seq(S) /\ Len(u) = Len(b) - k + 1
      /\ \A i \in 1 .. Len(b) - k + 1 : u[i] = b[k + i - 1]
  <2>1. \A i \in k .. Len(b) : b[i] \in S
    BY <1>1, <1>2
  <2>2. /\ u \in Seq(S) /\ Len(u) = IF k <= Len(b) THEN Len(b) - k + 1 ELSE 0
        /\ \A i \in 1 .. Len(b) - k + 1 : u[i] = b[k + i - 1]
    BY <1>1, <1>2, <2>1, SubSeqProperties
  <2>3. Len(b) - k + 1 = IF k <= Len(b) THEN Len(b) - k + 1 ELSE 0
    <3> DEFINE l == Len(b)
    <3>1. l \in Nat /\ k \in Nat /\ k <= l + 1
      BY <1>1, <1>2
    <3> HIDE DEF l
    <3>2. l - k + 1 = IF k <= l THEN l - k + 1 ELSE 0
      BY <3>1
    <3> QED
      BY <3>2 DEF l
  <2> HIDE DEF u
  <2> QED
    BY <2>2, <2>3
<1> HIDE DEF t, u
<1>5. /\ v \in Seq(S) /\ Len(v) = Len(u) + Len(rest)
      /\ \A i \in 1 .. Len(u) + Len(rest) :
            v[i] = IF i <= Len(u) THEN u[i] ELSE rest[i - Len(u)]
  BY <1>4, ConcatProperties
<1> HIDE DEF v
<1>6. Len(t) = Len(v)
  BY <1>1, <1>2, <1>3, <1>4, <1>5
<1>7. ASSUME NEW i \in 1 .. Len(t) PROVE t[i] = v[i]
  <2>1. i \in Nat /\ i >= 1 /\ i <= Len(c) - k + 1
    BY <1>1, <1>2, <1>3
  <2>2. t[i] = c[k + i - 1] /\ k + i - 1 \in 1 .. Len(b) + Len(rest)
    BY <1>1, <1>2, <1>3, <2>1
  <2>3. v[i] = IF i <= Len(u) THEN u[i] ELSE rest[i - Len(u)]
    BY <1>5, <1>6
  <2>4. CASE i <= Len(u)
    <3>1. k + i - 1 <= Len(b) /\ i \in 1 .. Len(b) - k + 1
      BY <1>1, <1>2, <1>4, <2>1, <2>4
    <3> QED
      BY <1>1, <1>4, <2>2, <2>3, <2>4, <3>1
  <2>5. CASE ~(i <= Len(u))
    <3> DEFINE j == k + i - 1
    <3>1. ~(j <= Len(b)) /\ j - Len(b) = i - Len(u)
      BY <1>1, <1>2, <1>4, <2>1, <2>5
    <3>2. j \in 1 .. Len(b) + Len(rest) /\ t[i] = c[j]
      BY <2>2
    <3> HIDE DEF j
    <3>4. c[j] = rest[j - Len(b)]
      BY <1>1, <3>1, <3>2, Zenon
    <3>3. v[i] = rest[i - Len(u)]
      BY <2>3, <2>5, Zenon
    <3> QED
      BY <3>1, <3>2, <3>3, <3>4, Zenon
  <2> QED
    BY <2>4, <2>5
<1>8. t = v
  BY <1>3, <1>5, <1>6, <1>7, SeqEqual
<1> QED
  BY <1>8 DEF t, u, v, c

LEMMA FrameSplit ==
    ASSUME NEW b \in Seq(Tokens), Found(b) # {}
    PROVE  /\ Frame(b) \in Seq(Tokens) /\ AfterFrame(b) \in Seq(Tokens)
           /\ Len(AfterFrame(b)) \in Nat /\ Len(AfterFrame(b)) < Len(b)
           /\ \E k \in 1 .. Len(b) + 1, m \in 0 .. Len(b) :
                 /\ k = FirstDelimiter(b)[1] + Len(FirstDelimiter(b)[2])
                 /\ m = FirstDelimiter(b)[1] - 1
                 /\ AfterFrame(b) = SubSeq(b, k, Len(b)) /\ Frame(b) = SubSeq(b, 1, m)
<1> DEFINE f == FirstDelimiter(b)
           p == f[1]
           k == p + Len(f[2])
           m == p - 1
<1>1. /\ p \in 1 .. Len(b) /\ Len(b) \in Nat
      /\ \/ f[2] = Long4 /\ LongAt(b, p)
         \/ f[2] = Short2 /\ ShortAt(b, p)
  BY FirstFound, FoundIs
<1>2. Len(Long4) = 4 /\ Len(Short2) = 2
  BY DEF Long4, Short2
<1>3. \/ Len(f[2]) = 4 /\ p + 3 <= Len(b)
      \/ Len(f[2]) = 2 /\ p + 1 <= Len(b)
  BY <1>1, <1>2 DEF LongAt, ShortAt
<1>4. AfterFrame(b) = SubSeq(b, k, Len(b)) /\ Frame(b) = SubSeq(b, 1, m)
  BY DEF AfterFrame, Frame
<1>5. k \in 1 .. Len(b) + 1 /\ m \in 0 .. Len(b) /\ k >= 2
  <2> DEFINE x == Len(f[2])
  <2>1. (x = 4 /\ p + 3 <= Len(b)) \/ (x = 2 /\ p + 1 <= Len(b))
    BY <1>3
  <2>2. k = p + x
    OBVIOUS
  <2>3. m = p - 1 /\ p \in 1 .. Len(b) /\ Len(b) \in Nat
    BY <1>1
  <2> HIDE DEF x, f, p, k, m
  <2> QED
    BY <2>1, <2>2, <2>3
<1> HIDE DEF k, m
<1>6. /\ SubSeq(b, k, Len(b)) \in Seq(Tokens) /\ SubSeq(b, 1, m) \in Seq(Tokens)
      /\ Len(SubSeq(b, k, Len(b))) = IF k <= Len(b) THEN Len(b) - k + 1 ELSE 0
  <2>0. \A i \in 1 .. Len(b) : b[i] \in Tokens
    BY ElementOfSeq
  <2>1. (\A i \in k .. Len(b) : b[i] \in Tokens) /\ \A i \in 1 .. m : b[i] \in Tokens
    <3>1. (\A i \in k .. Len(b) : i \in 1 .. Len(b)) /\ \A i \in 1 .. m : i \in 1 .. Len(b)
      BY <1>1, <1>5
    <3> QED
      BY <2>0, <3>1, Zenon
  <2>2. k \in Int /\ m \in Int /\ Len(b) \in Int
    BY <1>1, <1>5
  <2> QED
    BY <2>1, <2>2, SubSeqProperties
<1>7. Len(AfterFrame(b)) \in Nat /\ Len(AfterFrame(b)) < Len(b)
  BY <1>1, <1>4, <1>5, <1>6
<1> QED
  BY <1>4, <1>5, <1>6, <1>7 DEF k, m

\* The first frame of a longer buffer is the same, and what follows it is longer.
LEMMA FrameStays ==
    ASSUME NEW b \in Seq(Tokens), NEW rest \in Seq(Tokens), Found(b) # {}
    PROVE  /\ Frame(b \o rest) = Frame(b)
           /\ AfterFrame(b \o rest) = AfterFrame(b) \o rest
<1>1. Found(b \o rest) # {} /\ FirstDelimiter(b \o rest) = FirstDelimiter(b)
  BY FirstStays
<1>2. PICK k \in 1 .. Len(b) + 1, m \in 0 .. Len(b) :
         /\ k = FirstDelimiter(b)[1] + Len(FirstDelimiter(b)[2])
         /\ m = FirstDelimiter(b)[1] - 1
         /\ AfterFrame(b) = SubSeq(b, k, Len(b)) /\ Frame(b) = SubSeq(b, 1, m)
  BY FrameSplit
<1>3. Frame(b \o rest) = SubSeq(b \o rest, 1, m)
  BY <1>1, <1>2 DEF Frame
<1>4. AfterFrame(b \o rest) = SubSeq(b \o rest, k, Len(b \o rest))
  BY <1>1, <1>2 DEF AfterFrame
<1> QED
  BY <1>2, <1>3, <1>4, HeadStays, TailStays

\* A function that frames the buffers of at most n tokens.
UpToLength(n) == {b \in Seq(Tokens) : Len(b) <= n}
FramedBy(g, b) ==
    IF Found(b) = {} THEN <<b>> ELSE <<Frame(b)>> \o g[AfterFrame(b)]
Framing(g, n) == g = [b \in UpToLength(n) |-> FramedBy(g, b)]

LEMMA ShorterAfter ==
    ASSUME NEW n \in Nat, NEW b \in UpToLength(n + 1), Found(b) # {}
    PROVE  AfterFrame(b) \in UpToLength(n)
<1>1. b \in Seq(Tokens) /\ Len(b) \in Nat /\ Len(b) <= n + 1
  BY DEF UpToLength
<1>2. /\ AfterFrame(b) \in Seq(Tokens) /\ Len(AfterFrame(b)) \in Nat
      /\ Len(AfterFrame(b)) < Len(b)
  BY <1>1, FrameSplit
<1>3. Len(AfterFrame(b)) <= n
  BY <1>1, <1>2
<1> QED
  BY <1>2, <1>3 DEF UpToLength

LEMMA FramingExists == ASSUME NEW n \in Nat PROVE \E g : Framing(g, n)
<1> DEFINE T == {k \in Nat : \E g : Framing(g, k)}
<1>1. 0 \in T
  <2> DEFINE g == [b \in UpToLength(0) |-> <<b>>]
  <2>1. ASSUME NEW b \in UpToLength(0) PROVE Found(b) = {}
    <3>1. b \in Seq(Tokens) /\ Len(b) = 0
      BY DEF UpToLength
    <3>2. 1 .. Len(b) = {}
      BY <3>1
    <3> QED
      BY <3>1, <3>2, FoundIs
  <2>2. Framing(g, 0)
    BY <2>1 DEF Framing, FramedBy
  <2> HIDE DEF g
  <2> QED
    BY <2>2
<1>2. ASSUME NEW k \in T PROVE k + 1 \in T
  <2>1. PICK g : Framing(g, k)
    OBVIOUS
  <2> DEFINE h == [b \in UpToLength(k + 1) |-> FramedBy(g, b)]
  <2>2. k \in Nat /\ k + 1 \in Nat
    OBVIOUS
  <2>3. UpToLength(k) \subseteq UpToLength(k + 1)
    <3>1. \A i \in Nat : i <= k => i <= k + 1
      BY <2>2
    <3> QED
      BY <3>1 DEF UpToLength
  <2>4. ASSUME NEW b \in UpToLength(k) PROVE h[b] = g[b]
    <3>1. g[b] = FramedBy(g, b)
      BY <2>1 DEF Framing
    <3> QED
      BY <2>3, <3>1
  <2>5. ASSUME NEW b \in UpToLength(k + 1) PROVE FramedBy(g, b) = FramedBy(h, b)
    <3>1. Found(b) # {} => AfterFrame(b) \in UpToLength(k)
      BY <2>2, ShorterAfter
    <3> HIDE DEF h
    <3> QED
      BY <2>4, <3>1 DEF FramedBy
  <2>6. Framing(h, k + 1)
    BY <2>5, Zenon DEF Framing
  <2> HIDE DEF h
  <2> QED
    BY <2>2, <2>6
<1>3. T = Nat
  <2>1. T \subseteq Nat
    OBVIOUS
  <2> HIDE DEF T
  <2> QED
    BY <1>1, <1>2, <2>1, Induct
<1> QED
  BY <1>3

LEMMA FramingSame ==
    ASSUME NEW n \in Nat, NEW m \in Nat, n <= m, NEW g, Framing(g, n), NEW h, Framing(h, m),
           NEW b \in UpToLength(n)
    PROVE  g[b] = h[b]
<1> DEFINE T == {k \in Nat : k <= n => \A c \in UpToLength(k) : g[c] = h[c]}
<1>0. ASSUME NEW c \in UpToLength(n) PROVE c \in UpToLength(m)
  <2>1. c \in Seq(Tokens) /\ Len(c) \in Nat /\ Len(c) <= n
    BY DEF UpToLength
  <2>2. Len(c) <= m
    BY <2>1
  <2> QED
    BY <2>1, <2>2 DEF UpToLength
<1>a. ASSUME NEW c \in UpToLength(n) PROVE g[c] = FramedBy(g, c) /\ h[c] = FramedBy(h, c)
  <2>1. g[c] = FramedBy(g, c)
    BY DEF Framing
  <2>2. h[c] = FramedBy(h, c)
    BY <1>0 DEF Framing
  <2> QED
    BY <2>1, <2>2
<1>1. 0 \in T
  <2>1. ASSUME NEW c \in UpToLength(0) PROVE g[c] = h[c]
    <3>1. c \in Seq(Tokens) /\ Len(c) = 0
      BY DEF UpToLength
    <3>2. 1 .. Len(c) = {}
      BY <3>1
    <3>3. Found(c) = {}
      BY <3>1, <3>2, FoundIs
    <3>4. c \in UpToLength(n)
      BY <3>1 DEF UpToLength
    <3> QED
      BY <1>a, <3>3, <3>4 DEF FramedBy
  <2> QED
    BY <2>1
<1>2. ASSUME NEW k \in T PROVE k + 1 \in T
  <2>1. k \in Nat /\ k + 1 \in Nat /\ (k <= n => \A c \in UpToLength(k) : g[c] = h[c])
    OBVIOUS
  <2>2. ASSUME k + 1 <= n, NEW c \in UpToLength(k + 1) PROVE g[c] = h[c]
    <3>1. k <= n
      BY <2>1, <2>2
    <3>2. c \in UpToLength(n)
      <4>1. c \in Seq(Tokens) /\ Len(c) \in Nat /\ Len(c) <= k + 1
        BY <2>2 DEF UpToLength
      <4>2. Len(c) <= n
        BY <2>1, <2>2, <4>1
      <4> QED
        BY <4>1, <4>2 DEF UpToLength
    <3>3. Found(c) # {} => AfterFrame(c) \in UpToLength(k)
      BY <2>1, <2>2, ShorterAfter
    <3>4. FramedBy(g, c) = FramedBy(h, c)
      BY <2>1, <3>1, <3>3 DEF FramedBy
    <3> QED
      BY <1>a, <3>2, <3>4
  <2> QED
    BY <2>1, <2>2
<1>3. T = Nat
  <2>1. T \subseteq Nat
    OBVIOUS
  <2> HIDE DEF T
  <2> QED
    BY <1>1, <1>2, <2>1, Induct
<1>4. n \in T
  BY <1>3
<1> QED
  BY <1>4

\* The frames of a body are its first frame and the frames of the rest.
LEMMA FramesOfIs ==
    ASSUME NEW b \in Seq(Tokens)
    PROVE  FramesOf[b] = FramedBy(FramesOf, b)
<1> DEFINE G == [c \in Seq(Tokens) |-> (CHOOSE f : Framing(f, Len(c)))[c]]
<1>1. ASSUME NEW c \in Seq(Tokens) PROVE G[c] = FramedBy(G, c)
  <2> DEFINE n == Len(c)
             g == CHOOSE f : Framing(f, n)
             a == AfterFrame(c)
             m == Len(a)
             h == CHOOSE f : Framing(f, m)
  <2>1. n \in Nat /\ c \in UpToLength(n)
    BY DEF UpToLength
  <2>2. Framing(g, n)
    <3>1. \E f : Framing(f, n)
      BY <2>1, FramingExists
    <3> QED
      BY <3>1
  <2>3. G[c] = g[c]
    OBVIOUS
  <2>4. g[c] = FramedBy(g, c)
    <3> HIDE DEF n, g
    <3> QED
      BY <2>1, <2>2 DEF Framing
  <2>5. ASSUME Found(c) # {} PROVE g[a] = G[a]
    <3>1. a \in Seq(Tokens) /\ m \in Nat /\ m < n
      BY <2>5, FrameSplit
    <3>2. G[a] = h[a]
      BY <3>1
    <3>3. Framing(h, m)
      <4>1. \E f : Framing(f, m)
        BY <3>1, FramingExists
      <4> QED
        BY <4>1
    <3>4. a \in UpToLength(m)
      BY <3>1 DEF UpToLength
    <3>5. m <= n
      BY <2>1, <3>1
    <3> HIDE DEF g, h, n, m, a, G
    <3>6. h[a] = g[a]
      BY <2>1, <2>2, <3>1, <3>3, <3>4, <3>5, FramingSame
    <3> QED
      BY <3>2, <3>6
  <2> HIDE DEF g, G
  <2> QED
    BY <2>3, <2>4, <2>5 DEF FramedBy
<1>2. G = [c \in Seq(Tokens) |-> FramedBy(G, c)]
  <2>1. G = [c \in Seq(Tokens) |-> G[c]]
    OBVIOUS
  <2> HIDE DEF G
  <2> QED
    BY <1>1, <2>1
<1> HIDE DEF G
<1>3. FramesOf = [c \in Seq(Tokens) |-> FramedBy(FramesOf, c)]
  BY <1>2 DEF FramesOf, FramedBy
<1> QED
  BY <1>3

LEMMA FramesTyped ==
    ASSUME NEW b \in Seq(Tokens)
    PROVE  FramesOf[b] \in Seq(Seq(Tokens)) /\ Len(FramesOf[b]) \in Nat \ {0}
<1> DEFINE Good(c) == FramesOf[c] \in Seq(Seq(Tokens)) /\ Len(FramesOf[c]) \in Nat \ {0}
           T == {k \in Nat : \A c \in UpToLength(k) : Good(c)}
<1>0. ASSUME NEW c \in Seq(Tokens), Found(c) = {} \/ Good(AfterFrame(c)) PROVE Good(c)
  <2>1. FramesOf[c] = FramedBy(FramesOf, c)
    BY FramesOfIs
  <2>2. CASE Found(c) = {}
    <3>1. FramesOf[c] = <<c>>
      BY <2>1, <2>2 DEF FramedBy
    <3> QED
      BY <3>1
  <2>3. CASE Found(c) # {}
    <3>1. FramesOf[c] = <<Frame(c)>> \o FramesOf[AfterFrame(c)]
      BY <2>1, <2>3 DEF FramedBy
    <3>2. /\ Frame(c) \in Seq(Tokens) /\ FramesOf[AfterFrame(c)] \in Seq(Seq(Tokens))
          /\ Len(FramesOf[AfterFrame(c)]) \in Nat
      BY <1>0, <2>3, FrameSplit
    <3>3. <<Frame(c)>> \in Seq(Seq(Tokens)) /\ Len(<<Frame(c)>>) = 1
      BY <3>2
    <3>4. /\ FramesOf[c] \in Seq(Seq(Tokens))
          /\ Len(FramesOf[c]) = 1 + Len(FramesOf[AfterFrame(c)])
      BY <3>1, <3>2, <3>3, ConcatProperties
    <3> QED
      BY <3>2, <3>4
  <2> QED
    BY <2>2, <2>3
<1>1. 0 \in T
  <2>1. ASSUME NEW c \in UpToLength(0) PROVE Good(c)
    <3>1. c \in Seq(Tokens) /\ Len(c) = 0
      BY DEF UpToLength
    <3>2. 1 .. Len(c) = {}
      BY <3>1
    <3>3. Found(c) = {}
      BY <3>1, <3>2, FoundIs
    <3> QED
      BY <1>0, <3>1, <3>3
  <2> QED
    BY <2>1
<1>2. ASSUME NEW k \in T PROVE k + 1 \in T
  <2>1. k \in Nat /\ k + 1 \in Nat /\ \A c \in UpToLength(k) : Good(c)
    OBVIOUS
  <2>2. ASSUME NEW c \in UpToLength(k + 1) PROVE Good(c)
    <3>1. c \in Seq(Tokens)
      BY DEF UpToLength
    <3>2. Found(c) # {} => AfterFrame(c) \in UpToLength(k)
      BY <2>1, ShorterAfter
    <3> HIDE DEF Good
    <3> QED
      BY <1>0, <2>1, <3>1, <3>2
  <2> QED
    BY <2>1, <2>2
<1>3. T = Nat
  <2>1. T \subseteq Nat
    OBVIOUS
  <2> HIDE DEF T
  <2> QED
    BY <1>1, <1>2, <2>1, Induct
<1>4. Len(b) \in Nat /\ b \in UpToLength(Len(b))
  BY DEF UpToLength
<1>5. Len(b) \in T
  <2> HIDE DEF T
  <2> QED
    BY <1>3, <1>4
<1>6. Good(b)
  <2> HIDE DEF Good
  <2> QED
    BY <1>4, <1>5
<1> QED
  BY <1>6

-----------------------------------------------------------------------------
(* The decoder.  What it has decoded before does not change what it decodes. *)

Calls == [index: Nat, id: Names, name: Names, announced: BOOLEAN]
Decoders ==
    [pending: Seq(Events), tools: SUBSET Calls, finish: Names, closed: BOOLEAN]
Kinds7 == {"thinking", "text", "structured", "tool", "usage", "finished", "error"}

\* A decoder that has decoded p before what d has.
With(p, d) == [d EXCEPT !.pending = p \o @]

LEMMA EventTyped ==
    ASSUME NEW kind \in Kinds7, NEW key \in Names, NEW name \in Names, NEW delta \in Text,
           NEW amount \in Nat
    PROVE  Event(kind, key, name, delta, amount) \in Events
BY DEF Event, Events, Kinds7

LEMMA WithIs ==
    ASSUME NEW d \in Decoders, NEW p \in Seq(Events)
    PROVE  /\ With(p, d) \in Decoders /\ With(p, d).pending = p \o d.pending
           /\ With(p, d).tools = d.tools /\ With(p, d).finish = d.finish
           /\ With(p, d).closed = d.closed
<1>1. d.pending \in Seq(Events)
  BY DEF Decoders
<1>2. p \o d.pending \in Seq(Events)
  BY <1>1, ConcatProperties
<1> QED
  BY <1>2 DEF With, Decoders

\* Decoders are the same when their parts are.
LEMMA SameDecoder ==
    ASSUME NEW d \in Decoders, NEW e \in Decoders, d.pending = e.pending, d.tools = e.tools,
           d.finish = e.finish, d.closed = e.closed
    PROVE  d = e
BY DEF Decoders

LEMMA AppendAfter ==
    ASSUME NEW p \in Seq(Events), NEW q \in Seq(Events), NEW e \in Events
    PROVE  Append(p \o q, e) = p \o Append(q, e)
<1>1. Append(q, e) = q \o <<e>> /\ <<e>> \in Seq(Events)
  BY AppendIsConcat
<1>2. p \o q \in Seq(Events)
  BY ConcatProperties
<1>3. Append(p \o q, e) = (p \o q) \o <<e>>
  BY <1>2, AppendIsConcat
<1>4. (p \o q) \o <<e>> = p \o (q \o <<e>>)
  BY <1>1, ConcatAssociative
<1> QED
  BY <1>1, <1>3, <1>4

LEMMA PushKeeps ==
    ASSUME NEW d \in Decoders, NEW p \in Seq(Events), NEW e \in Events
    PROVE  Push(d, e) \in Decoders /\ Push(With(p, d), e) = With(p, Push(d, e))
<1>4. d.pending \in Seq(Events)
  BY DEF Decoders
<1>5. Append(p \o d.pending, e) = p \o Append(d.pending, e)
  <2> DEFINE q == d.pending
  <2>1. q \in Seq(Events)
    BY <1>4
  <2> HIDE DEF q
  <2>2. Append(p \o q, e) = p \o Append(q, e)
    BY <2>1, AppendAfter, Zenon
  <2> QED
    BY <2>2 DEF q
<1> DEFINE w == With(p, d)
           v == Push(d, e)
           a == Push(w, e)
           b == With(p, v)
<1>1. /\ w \in Decoders /\ w.pending = p \o d.pending
      /\ w.tools = d.tools /\ w.finish = d.finish /\ w.closed = d.closed
  BY WithIs
<1> HIDE DEF w
<1>2. ASSUME NEW x \in Decoders
      PROVE  /\ Push(x, e) \in Decoders /\ Push(x, e).pending = Append(x.pending, e)
             /\ Push(x, e).tools = x.tools /\ Push(x, e).finish = x.finish
             /\ Push(x, e).closed = x.closed
  <2>1. x.pending \in Seq(Events)
    BY DEF Decoders
  <2>2. Append(x.pending, e) \in Seq(Events)
    BY <2>1, AppendProperties
  <2> QED
    BY <2>2 DEF Push, Decoders
<1>3. v \in Decoders
  BY <1>2
<1>b. /\ b \in Decoders /\ b.pending = p \o v.pending
      /\ b.tools = v.tools /\ b.finish = v.finish /\ b.closed = v.closed
  <2> HIDE DEF v
  <2> QED
    BY <1>3, WithIs
<1>6. a = b
  <2>1. /\ a \in Decoders /\ a.pending = Append(w.pending, e) /\ a.tools = w.tools
        /\ a.finish = w.finish /\ a.closed = w.closed
    BY <1>1, <1>2
  <2>2. /\ v.pending = Append(d.pending, e) /\ v.tools = d.tools
        /\ v.finish = d.finish /\ v.closed = d.closed
    BY <1>2
  <2> HIDE DEF a, b, v
  <2>3. a.pending = b.pending
    BY <1>1, <1>b, <1>5, <2>1, <2>2
  <2>4. a.tools = b.tools /\ a.finish = b.finish /\ a.closed = b.closed
    BY <1>1, <1>b, <2>1, <2>2
  <2> QED
    BY <1>b, <2>1, <2>3, <2>4, SameDecoder
<1> QED
  BY <1>2, <1>6 DEF w

LEMMA FailKeeps ==
    ASSUME ConstantsAssumption, NEW d \in Decoders, NEW p \in Seq(Events)
    PROVE  /\ Fail(d) \in Decoders /\ Fail(d).closed /\ Fail(With(p, d)) = With(p, Fail(d))
<1>1. Failure \in Events
  <2>1. <<>> \in Text
    BY DEF Text
  <2> QED
    BY <2>1 DEF Failure, Event, Events, ConstantsAssumption
<1> DEFINE f == Push(d, Failure)
<1>2. f \in Decoders /\ Push(With(p, d), Failure) = With(p, f)
  BY <1>1, PushKeeps
<1>3. Fail(d) = [f EXCEPT !.closed = TRUE] /\ Fail(With(p, d)) = [With(p, f) EXCEPT !.closed = TRUE]
  BY <1>2 DEF Fail
<1> HIDE DEF f
<1>4. [f EXCEPT !.closed = TRUE] \in Decoders /\ [f EXCEPT !.closed = TRUE].closed
  BY <1>2 DEF Decoders
<1>5. [With(p, f) EXCEPT !.closed = TRUE] = With(p, [f EXCEPT !.closed = TRUE])
  BY <1>2 DEF With, Decoders
<1> QED
  BY <1>3, <1>4, <1>5

LEMMA UsageKeeps ==
    ASSUME ConstantsAssumption, NEW d \in Decoders, NEW p \in Seq(Events), NEW c \in TokenType
    PROVE  Usage(d, c) \in Decoders /\ Usage(With(p, d), c) = With(p, Usage(d, c))
<1> DEFINE e == Event("usage", "none", "none", <<>>, c.amount)
<1>1. e \in Events /\ Failure \in Events
  <2>1. <<>> \in Text /\ c.amount \in Nat /\ "none" \in Names
    <3>1. <<>> \in Text
      BY DEF Text
    <3>2. c.amount \in Nat
      BY DEF TokenType
    <3>3. "none" \in Names
      BY DEF ConstantsAssumption
    <3> QED
      BY <3>1, <3>2, <3>3
  <2> QED
    BY <2>1 DEF Event, Events, Failure
<1>2. /\ Push(d, e) \in Decoders /\ Push(With(p, d), e) = With(p, Push(d, e))
      /\ Push(d, Failure) \in Decoders /\ Push(With(p, d), Failure) = With(p, Push(d, Failure))
  BY <1>1, PushKeeps
<1>3. CASE c.usage = "none"
  BY <1>3 DEF Usage
<1>4. CASE c.usage = "bad"
  BY <1>2, <1>4 DEF Usage
<1>5. CASE c.usage # "none" /\ c.usage # "bad"
  BY <1>2, <1>5 DEF Usage
<1> QED
  BY <1>3, <1>4, <1>5

LEMMA ContentKeeps ==
    ASSUME ConstantsAssumption, NEW d \in Decoders, NEW p \in Seq(Events),
           NEW kind \in Kinds7, NEW key \in Names, NEW delta \in Text
    PROVE  /\ Content(d, kind, key, delta) \in Decoders
           /\ Content(With(p, d), kind, key, delta) = With(p, Content(d, kind, key, delta))
<1> DEFINE e == Event(kind, key, "none", delta, 0)
<1>1. e \in Events
  <2>1. "none" \in Names
    BY DEF ConstantsAssumption
  <2> QED
    BY <2>1 DEF Event, Events, Kinds7
<1>2. /\ Push(d, e) \in Decoders /\ Push(With(p, d), e) = With(p, Push(d, e))
  BY <1>1, PushKeeps
<1> HIDE DEF e
<1>3. /\ Content(d, kind, key, delta) = IF delta = <<>> THEN d ELSE Push(d, e)
      /\ Content(With(p, d), kind, key, delta)
            = IF delta = <<>> THEN With(p, d) ELSE Push(With(p, d), e)
  BY Zenon DEF Content, e
<1> QED
  BY <1>2, <1>3, Zenon

\* The tool calls that are known after a delta.
CallAfter(d, t) ==
    [index |-> t.index,
     id |-> IF t.id = "none" THEN Known(d, t.index).id ELSE t.id,
     name |-> IF t.name = "none" THEN Known(d, t.index).name ELSE t.name,
     announced |-> TRUE]
ToolsAfter(d, t) == {p \in d.tools : p.index # t.index} \cup {CallAfter(d, t)}
Announce(d, t) ==
    Event("tool", CallAfter(d, t).id, CallAfter(d, t).name, t.args, 0)

LEMMA ToolDeltaIs ==
    ASSUME NEW d, NEW t
    PROVE  ToolDelta(d, t) =
              IF d.closed THEN d
              ELSE IF t.args = <<>> /\ Known(d, t.index).announced
              THEN [d EXCEPT !.tools = ToolsAfter(d, t)]
              ELSE IF CallAfter(d, t).id = "none" \/ CallAfter(d, t).name = "none" THEN Fail(d)
              ELSE Push([d EXCEPT !.tools = ToolsAfter(d, t)], Announce(d, t))
BY DEF ToolDelta, ToolsAfter, CallAfter, Announce

LEMMA CallsTyped ==
    ASSUME ConstantsAssumption, NEW d \in Decoders, NEW t \in DeltaType
    PROVE  /\ CallAfter(d, t) \in Calls /\ ToolsAfter(d, t) \in SUBSET Calls
           /\ Announce(d, t) \in Events
<1>1. /\ t.index \in Nat /\ t.id \in Names /\ t.name \in Names /\ t.args \in Text
      /\ "none" \in Names /\ d.tools \in SUBSET Calls
  BY DEF DeltaType, Decoders, ConstantsAssumption
<1>2. Known(d, t.index) \in Calls
  <2>1. CASE \E p \in d.tools : p.index = t.index
    BY <1>1, <2>1 DEF Known
  <2>2. CASE ~\E p \in d.tools : p.index = t.index
    BY <1>1, <2>2 DEF Known, Calls
  <2> QED
    BY <2>1, <2>2
<1>3. Known(d, t.index).id \in Names /\ Known(d, t.index).name \in Names
  BY <1>2 DEF Calls
<1>4. CallAfter(d, t) \in Calls
  BY <1>1, <1>3 DEF CallAfter, Calls
<1>5. ToolsAfter(d, t) \in SUBSET Calls
  BY <1>1, <1>4 DEF ToolsAfter
<1>6. Announce(d, t) \in Events
  <2>1. CallAfter(d, t).id \in Names /\ CallAfter(d, t).name \in Names
    BY <1>4 DEF Calls
  <2> QED
    BY <1>1, <2>1 DEF Announce, Event, Events
<1> QED
  BY <1>4, <1>5, <1>6

LEMMA ToolDeltaKeeps ==
    ASSUME ConstantsAssumption, NEW d \in Decoders, NEW p \in Seq(Events), NEW t \in DeltaType
    PROVE  ToolDelta(d, t) \in Decoders /\ ToolDelta(With(p, d), t) = With(p, ToolDelta(d, t))
<1> DEFINE w == With(p, d)
           tools == ToolsAfter(d, t)
           e == Announce(d, t)
           x == [d EXCEPT !.tools = tools]
<1>1. w.tools = d.tools /\ w.closed = d.closed
  BY WithIs
<1>2. Known(w, t.index) = Known(d, t.index)
  BY <1>1 DEF Known
<1>3. CallAfter(w, t) = CallAfter(d, t)
  BY <1>2 DEF CallAfter
<1>4. ToolsAfter(w, t) = tools /\ Announce(w, t) = e
  BY <1>1, <1>3 DEF ToolsAfter, Announce
<1>5. tools \in SUBSET Calls /\ e \in Events
  BY CallsTyped
<1> HIDE DEF tools, e
<1>6. x \in Decoders /\ [w EXCEPT !.tools = tools] = With(p, x)
  BY <1>5 DEF Decoders, With
<1> HIDE DEF x
<1>7. /\ Push(x, e) \in Decoders /\ Push(With(p, x), e) = With(p, Push(x, e))
      /\ Fail(d) \in Decoders /\ Fail(w) = With(p, Fail(d))
  BY <1>5, <1>6, PushKeeps, FailKeeps
<1> DEFINE known == t.args = <<>> /\ Known(d, t.index).announced
           nameless == CallAfter(d, t).id = "none" \/ CallAfter(d, t).name = "none"
<1>8. /\ ToolDelta(d, t) = IF d.closed THEN d ELSE IF known THEN x
                           ELSE IF nameless THEN Fail(d) ELSE Push(x, e)
      /\ ToolDelta(w, t) = IF d.closed THEN w ELSE IF known THEN With(p, x)
                           ELSE IF nameless THEN Fail(w) ELSE Push(With(p, x), e)
  <2>1. ToolDelta(d, t) = IF d.closed THEN d ELSE IF known THEN x
                           ELSE IF nameless THEN Fail(d) ELSE Push(x, e)
    BY ToolDeltaIs, Zenon DEF x, tools, e
  <2>2. ToolDelta(w, t) = IF w.closed THEN w
              ELSE IF t.args = <<>> /\ Known(w, t.index).announced
              THEN [w EXCEPT !.tools = ToolsAfter(w, t)]
              ELSE IF CallAfter(w, t).id = "none" \/ CallAfter(w, t).name = "none" THEN Fail(w)
              ELSE Push([w EXCEPT !.tools = ToolsAfter(w, t)], Announce(w, t))
    BY ToolDeltaIs, Zenon
  <2> HIDE DEF w
  <2> QED
    BY <1>1, <1>2, <1>3, <1>4, <1>6, <2>1, <2>2
<1> HIDE DEF known, nameless
<1> QED
  BY <1>6, <1>7, <1>8

LEMMA FinishKeeps ==
    ASSUME ConstantsAssumption, NEW d \in Decoders, NEW p \in Seq(Events), NEW c \in TokenType
    PROVE  FinishReason(d, c) \in Decoders
           /\ FinishReason(With(p, d), c) = With(p, FinishReason(d, c))
<1>1. With(p, d).closed = d.closed
  BY WithIs
<1>2. Fail(d) \in Decoders /\ Fail(With(p, d)) = With(p, Fail(d))
  BY FailKeeps
<1>3. CASE d.closed \/ c.finish = "none"
  <2>1. FinishReason(d, c) = d
    BY <1>3 DEF FinishReason
  <2>2. FinishReason(With(p, d), c) = With(p, d)
    BY <1>1, <1>3 DEF FinishReason
  <2> QED
    BY <2>1, <2>2
<1>4. CASE ~(d.closed \/ c.finish = "none") /\ c.finish = "unknown"
  BY <1>1, <1>2, <1>4 DEF FinishReason
<1>5. CASE ~(d.closed \/ c.finish = "none") /\ c.finish # "unknown"
  <2>1. /\ FinishReason(d, c) = [d EXCEPT !.finish = c.finish]
        /\ FinishReason(With(p, d), c) = [With(p, d) EXCEPT !.finish = c.finish]
    BY <1>1, <1>5 DEF FinishReason
  <2>2. c.finish \in Names
    BY DEF TokenType
  <2> QED
    BY <2>1, <2>2 DEF Decoders, With
<1> QED
  BY <1>3, <1>4, <1>5

\* The deltas of one chunk, one after the other.
Told(d, deltas) == FoldLeft(ToolDelta, d, deltas)
Telling == [x \in Decoders \X DeltaType |-> ToolDelta(x[1], x[2])]

LEMMA TellingTyped ==
    ASSUME ConstantsAssumption
    PROVE  /\ Telling \in [Decoders \X DeltaType -> Decoders]
           /\ \A d \in Decoders, t \in DeltaType : Telling[<<d, t>>] = ToolDelta(d, t)
<1>1. \A d \in Decoders, t \in DeltaType : ToolDelta(d, t) \in Decoders
  <2>1. <<>> \in Seq(Events)
    OBVIOUS
  <2> QED
    BY <2>1, ToolDeltaKeeps
<1>2. \A x \in Decoders \X DeltaType : x[1] \in Decoders /\ x[2] \in DeltaType
  OBVIOUS
<1>3. \A x \in Decoders \X DeltaType : ToolDelta(x[1], x[2]) \in Decoders
  BY <1>1, <1>2
<1> QED
  BY <1>3 DEF Telling

LEMMA ToldIs ==
    ASSUME ConstantsAssumption, NEW d \in Decoders, NEW deltas \in Seq(DeltaType)
    PROVE  Told(d, deltas) = Iterated(d, Telling, deltas)
<1> DEFINE n == Len(deltas)
           Tells(h) == h = [s \in SUBSET (1 .. n) |->
                              IF s = {} THEN d ELSE ToolDelta(h[s \ {Max(s)}], deltas[Max(s)])]
           h == CHOOSE h : Tells(h)
<1>1. n \in Nat /\ Len(deltas) = n /\ DOMAIN deltas = 1 .. n
      /\ \A i \in 1 .. n : deltas[i] \in DeltaType
  OBVIOUS
<1>2. Told(d, deltas) = h[1 .. n]
  BY <1>1 DEF Told, FoldLeft, MapThenFoldSet
<1> HIDE DEF n
<1>3. PICK g : Iteration(g, d, Telling, deltas, n) /\ Iterated(d, Telling, deltas) = g[1 .. n]
  BY <1>1, IterationChosen
<1>4. \A s \in SUBSET (1 .. n) : g[s] \in Decoders
  BY <1>1, <1>3, IterationTyped, TellingTyped
<1>5. ASSUME NEW s \in SUBSET (1 .. n), s # {}
      PROVE  g[s] = ToolDelta(g[s \ {Max(s)}], deltas[Max(s)])
  <2>1. Max(s) \in 1 .. n
    BY <1>1, <1>5, MaxInside
  <2>2. g[s] = Telling[<<g[s \ {Max(s)}], deltas[Max(s)]>>]
    BY <1>3, <1>5 DEF Iteration
  <2>3. s \ {Max(s)} \in SUBSET (1 .. n)
    OBVIOUS
  <2>4. g[s \ {Max(s)}] \in Decoders /\ deltas[Max(s)] \in DeltaType
    BY <1>1, <1>4, <2>1, <2>3
  <2> QED
    BY <2>2, <2>4, TellingTyped
<1>6. g[{}] = d /\ g = [s \in SUBSET (1 .. n) |-> g[s]]
  BY <1>3 DEF Iteration
<1>7. Tells(g)
  <2>1. ASSUME NEW s \in SUBSET (1 .. n)
        PROVE  g[s] = IF s = {} THEN d ELSE ToolDelta(g[s \ {Max(s)}], deltas[Max(s)])
    BY <1>5, <1>6, Zenon
  <2> QED
    BY <1>6, <2>1
<1>8. Tells(h)
  <2> HIDE DEF Tells
  <2> QED
    BY <1>7
<1>9. g[1 .. n] = h[1 .. n]
  <2>1. g[{}] = h[{}]
    BY <1>6, <1>8
  <2>2. ASSUME NEW s \in SUBSET (1 .. n), s # {}, g[s \ {Max(s)}] = h[s \ {Max(s)}]
        PROVE  g[s] = h[s]
    <3>1. h[s] = ToolDelta(h[s \ {Max(s)}], deltas[Max(s)])
      BY <1>8, <2>2
    <3>2. g[s] = ToolDelta(g[s \ {Max(s)}], deltas[Max(s)])
      BY <1>5, <2>2
    <3> QED
      BY <2>2, <3>1, <3>2
  <2> HIDE DEF Tells, h
  <2> QED
    BY <1>1, <2>1, <2>2, SameIteration, ZenonT(60)
<1> QED
  BY <1>2, <1>3, <1>9

LEMMA ToldKeeps ==
    ASSUME ConstantsAssumption, NEW d \in Decoders, NEW p \in Seq(Events),
           NEW deltas \in Seq(DeltaType)
    PROVE  /\ Told(d, deltas) \in Decoders
           /\ Told(With(p, d), deltas) = With(p, Told(d, deltas))
<1> DEFINE w == With(p, d)
           Good(ts) == /\ Told(d, ts) \in Decoders
                       /\ Told(w, ts) = With(p, Told(d, ts))
           T == {k \in Nat : \A ts \in Seq(DeltaType) : Len(ts) = k => Good(ts)}
<1>1. w \in Decoders
  BY WithIs
<1> HIDE DEF w
<1>2. 0 \in T
  <2>1. <<>> \in Seq(DeltaType)
    OBVIOUS
  <2>2. Told(d, <<>>) = Iterated(d, Telling, <<>>) /\ Told(w, <<>>) = Iterated(w, Telling, <<>>)
    BY <1>1, <2>1, ToldIs
  <2>3. ASSUME NEW ts \in Seq(DeltaType), Len(ts) = 0 PROVE Good(ts)
    <3>1. ts = <<>>
      BY <2>3
    <3>2. SUFFICES Told(d, <<>>) = d /\ Told(w, <<>>) = w
      BY <3>1 DEF w
    <3>3. DeltaType # {}
      <4>0. <<>> \in Text /\ "none" \in Names
        <5>1. <<>> \in Text
          BY DEF Text
        <5>2. "none" \in Names
          BY DEF ConstantsAssumption
        <5> QED
          BY <5>1, <5>2
      <4>1. [index |-> 0, id |-> "none", name |-> "none", args |-> <<>>] \in DeltaType
        BY <4>0 DEF DeltaType
      <4> QED
        BY <4>1
    <3>4. PICK e \in DeltaType : TRUE
      BY <3>3
    <3> QED
      BY <2>1, <2>2, <3>4, IteratedAppend
  <2> QED
    BY <2>3
<1>3. ASSUME NEW k \in T PROVE k + 1 \in T
  <2>1. ASSUME NEW ts \in Seq(DeltaType), Len(ts) = k + 1 PROVE Good(ts)
    <3>1. ts # <<>>
      BY <2>1
    <3>2. PICK rs \in Seq(DeltaType), t \in DeltaType : ts = Append(rs, t)
      BY <3>1, SequenceEmptyOrAppend
    <3>3. Len(rs) = k
      BY <2>1, <3>2
    <3>4. Good(rs)
      BY <3>3
    <3>5. ASSUME NEW x \in Decoders PROVE Told(x, ts) = Telling[<<Told(x, rs), t>>]
      <4>1. Told(x, ts) = Iterated(x, Telling, Append(rs, t))
        BY <3>2, ToldIs
      <4>2. Told(x, rs) = Iterated(x, Telling, rs)
        BY ToldIs
      <4> QED
        BY <4>1, <4>2, IteratedAppend
    <3>6. Told(d, ts) = Telling[<<Told(d, rs), t>>] /\ Told(w, ts) = Telling[<<Told(w, rs), t>>]
      BY <1>1, <3>5
    <3> DEFINE r == Told(d, rs)
    <3>7. r \in Decoders /\ Told(w, rs) = With(p, r) /\ With(p, r) \in Decoders
      BY <3>4, WithIs
    <3> HIDE DEF r
    <3>8. Telling[<<r, t>>] = ToolDelta(r, t) /\ Telling[<<With(p, r), t>>] = ToolDelta(With(p, r), t)
      BY <3>7, TellingTyped
    <3>9. ToolDelta(r, t) \in Decoders /\ ToolDelta(With(p, r), t) = With(p, ToolDelta(r, t))
      BY <3>7, ToolDeltaKeeps
    <3>10. Told(d, ts) = Telling[<<r, t>>]
      BY <3>6 DEF r
    <3> QED
      BY <3>6, <3>7, <3>8, <3>9, <3>10
  <2>2. k + 1 \in Nat
    OBVIOUS
  <2> QED
    BY <2>1, <2>2
<1>4. T = Nat
  <2>1. T \subseteq Nat
    OBVIOUS
  <2> HIDE DEF T
  <2> QED
    BY <1>2, <1>3, <2>1, Induct
<1>5. Len(deltas) \in Nat
  OBVIOUS
<1>6. Len(deltas) \in T
  <2> HIDE DEF T
  <2> QED
    BY <1>4, <1>5
<1>7. Good(deltas)
  <2> HIDE DEF Good
  <2> QED
    BY <1>6
<1> QED
  BY <1>7 DEF w

LEMMA ChunkKeeps ==
    ASSUME ConstantsAssumption, NEW d \in Decoders, NEW p \in Seq(Events), NEW c \in TokenType,
           NEW s \in BOOLEAN
    PROVE  Chunk(d, c, s) \in Decoders /\ Chunk(With(p, d), c, s) = With(p, Chunk(d, c, s))
<1> DEFINE kind == IF s THEN "structured" ELSE "text"
           Thought(x) == Content(Usage(x, c), "thinking", "thinking", c.think)
           SaidBy(x) == Content(Thought(x), kind, "content", c.text)
           w == With(p, d)
           a == Usage(d, c)
           b == Thought(d)
           e == SaidBy(d)
           f == Told(e, c.tools)
<1>1. /\ c.think \in Text /\ c.text \in Text /\ c.tools \in Seq(DeltaType)
      /\ "thinking" \in Names /\ "content" \in Names
  <2>1. "thinking" \in Names /\ "content" \in Names
    BY DEF ConstantsAssumption
  <2>2. c.think \in Text /\ c.text \in Text /\ c.tools \in Seq(DeltaType)
    BY DEF TokenType
  <2> QED
    BY <2>1, <2>2
<1>2. kind \in Kinds7 /\ "thinking" \in Kinds7
  BY DEF Kinds7
<1>3. a \in Decoders /\ Usage(w, c) = With(p, a)
  BY UsageKeeps
<1> HIDE DEF a
<1>4. b \in Decoders /\ Thought(w) = With(p, b)
  <2>1. b = Content(a, "thinking", "thinking", c.think)
    BY DEF a
  <2>2. Thought(w) = Content(With(p, a), "thinking", "thinking", c.think)
    BY <1>3
  <2> HIDE DEF b, Thought
  <2> QED
    BY <1>1, <1>2, <1>3, <2>1, <2>2, ContentKeeps
<1> HIDE DEF b, Thought, kind
<1>5. e \in Decoders /\ SaidBy(w) = With(p, e)
  <2>1. e = Content(b, kind, "content", c.text)
    BY DEF b
  <2>2. SaidBy(w) = Content(With(p, b), kind, "content", c.text)
    BY <1>4
  <2> HIDE DEF e, SaidBy
  <2> QED
    BY <1>1, <1>2, <1>4, <2>1, <2>2, ContentKeeps
<1>6. /\ Chunk(d, c, s) = FinishReason(Told(SaidBy(d), c.tools), c)
      /\ Chunk(w, c, s) = FinishReason(Told(SaidBy(w), c.tools), c)
  BY DEF Chunk, Told, Thought, kind
<1> HIDE DEF e, SaidBy, w
<1>7. f \in Decoders /\ Told(With(p, e), c.tools) = With(p, f)
  BY <1>1, <1>5, ToldKeeps
<1>8. Chunk(d, c, s) = FinishReason(f, c) /\ Chunk(w, c, s) = FinishReason(With(p, f), c)
  BY <1>5, <1>6, <1>7 DEF e
<1> HIDE DEF f
<1> QED
  BY <1>7, <1>8, FinishKeeps DEF w

\* What a frame says does not depend on what was decoded before it.
LEMMA FrameKeeps ==
    ASSUME ConstantsAssumption, NEW d \in Decoders, NEW p \in Seq(Events),
           NEW frame \in Seq(TokenType), NEW s \in BOOLEAN
    PROVE  /\ ProcessFrame(d, frame, s) \in Decoders
           /\ ProcessFrame(With(p, d), frame, s) = With(p, ProcessFrame(d, frame, s))
<1> DEFINE w == With(p, d)
           what == DataOf(frame)
           c == frame[Min(DataIn(frame))]
           e == Event("finished", "none", d.finish, <<>>, 0)
<1>1. w.finish = d.finish /\ w.closed = d.closed
  BY WithIs
<1>2. Fail(d) \in Decoders /\ Fail(w) = With(p, Fail(d))
  BY FailKeeps
<1>3. CASE what = "none"
  BY <1>3 DEF ProcessFrame
<1>4. CASE what = "chunk"
  <2>1. DataIn(frame) # {} /\ DataIn(frame) \subseteq 1 .. Len(frame)
    BY <1>4 DEF DataOf, DataIn
  <2>2. Min(DataIn(frame)) \in 1 .. Len(frame)
    <3>1. DataIn(frame) \subseteq Nat
      BY <2>1
    <3>2. Min(DataIn(frame)) \in DataIn(frame)
      BY <2>1, <3>1, LeastOf
    <3> QED
      BY <2>1, <3>2
  <2>3. c \in TokenType
    BY <2>2, ElementOfSeq
  <2>4. ProcessFrame(d, frame, s) = Chunk(d, c, s) /\ ProcessFrame(w, frame, s) = Chunk(w, c, s)
    BY <1>4 DEF ProcessFrame
  <2> HIDE DEF c
  <2> QED
    BY <2>3, <2>4, ChunkKeeps
<1>5. CASE what = "done" /\ d.finish # "none"
  <2>1. e \in Events
    <3>1. "none" \in Names
      BY DEF ConstantsAssumption
    <3>2. d.finish \in Names
      BY DEF Decoders
    <3>3. <<>> \in Text
      BY DEF Text
    <3> QED
      BY <3>1, <3>2, <3>3 DEF Event, Events
  <2> DEFINE f == Push(d, e)
  <2>2. f \in Decoders /\ Push(w, e) = With(p, f)
    BY <2>1, PushKeeps
  <2>3. /\ ProcessFrame(d, frame, s) = [f EXCEPT !.closed = TRUE]
        /\ ProcessFrame(w, frame, s) = [With(p, f) EXCEPT !.closed = TRUE]
    BY <1>1, <1>5, <2>2 DEF ProcessFrame
  <2> HIDE DEF f
  <2>4. /\ [f EXCEPT !.closed = TRUE] \in Decoders
        /\ [With(p, f) EXCEPT !.closed = TRUE] = With(p, [f EXCEPT !.closed = TRUE])
    BY <2>2 DEF With, Decoders
  <2> QED
    BY <2>3, <2>4
<1>6. CASE what # "none" /\ what # "chunk" /\ ~(what = "done" /\ d.finish # "none")
  BY <1>1, <1>2, <1>6 DEF ProcessFrame
<1> QED
  BY <1>3, <1>4, <1>5, <1>6

LEMMA EndKeeps ==
    ASSUME ConstantsAssumption, NEW d \in Decoders, NEW p \in Seq(Events),
           NEW frame \in Seq(TokenType), NEW s \in BOOLEAN
    PROVE  /\ ProcessEnd(d, frame, s) \in Decoders /\ ProcessEnd(d, frame, s).closed
           /\ ProcessEnd(With(p, d), frame, s) = With(p, ProcessEnd(d, frame, s))
<1> DEFINE w == With(p, d)
           e == IF frame = <<>> THEN d ELSE ProcessFrame(d, frame, s)
           f == IF frame = <<>> THEN w ELSE ProcessFrame(w, frame, s)
<1>1. e \in Decoders /\ f = With(p, e)
  BY FrameKeeps
<1>2. /\ ProcessEnd(d, frame, s) = IF e.closed THEN e ELSE Fail(e)
      /\ ProcessEnd(w, frame, s) = IF f.closed THEN f ELSE Fail(f)
  BY DEF ProcessEnd
<1> HIDE DEF e, f
<1>3. f.closed = e.closed
  BY <1>1, WithIs
<1>4. Fail(e) \in Decoders /\ Fail(e).closed /\ Fail(With(p, e)) = With(p, Fail(e))
  BY <1>1, FailKeeps
<1> QED
  BY <1>1, <1>2, <1>3, <1>4

-----------------------------------------------------------------------------
(* The frames of a body, decoded one after the other.                        *)

Initial(p, q) == \E x \in Seq(Events) : q = p \o x

LEMMA InitialOf ==
    ASSUME NEW p \in Seq(Events), NEW q \in Seq(Events), Initial(p, q)
    PROVE  Len(p) \in Nat /\ Len(q) \in Nat /\ Len(p) <= Len(q) /\ SubSeq(q, 1, Len(p)) = p
<1>1. PICK x \in Seq(Events) : q = p \o x
  BY DEF Initial
<1>2. Len(q) = Len(p) + Len(x) /\ Len(p) \in Nat /\ Len(x) \in Nat
  BY <1>1, ConcatProperties
<1>3. Len(p) \in 0 .. Len(p)
  BY <1>2
<1>4. SubSeq(p \o x, 1, Len(p)) = SubSeq(p, 1, Len(p))
  BY <1>3, HeadStays
<1>5. SubSeq(p, 1, Len(p)) = p
  BY SubSeqFull
<1>6. Len(p) <= Len(q)
  BY <1>2
<1> QED
  BY <1>1, <1>2, <1>4, <1>5, <1>6

LEMMA InitialSelf == ASSUME NEW p \in Seq(Events) PROVE Initial(p, p)
<1>1. p = p \o <<>> /\ <<>> \in Seq(Events)
  BY ConcatEmptySeq
<1> QED
  BY <1>1 DEF Initial

LEMMA InitialThen ==
    ASSUME NEW p \in Seq(Events), NEW q \in Seq(Events), NEW r \in Seq(Events),
           Initial(p, q), Initial(q, r)
    PROVE  Initial(p, r)
<1>1. PICK x \in Seq(Events) : q = p \o x
  BY DEF Initial
<1>2. PICK y \in Seq(Events) : r = q \o y
  BY DEF Initial
<1>3. (p \o x) \o y = p \o (x \o y)
  BY ConcatAssociative, SMTT(30)
<1>4. x \o y \in Seq(Events)
  BY ConcatProperties
<1> QED
  BY <1>1, <1>2, <1>3, <1>4 DEF Initial

\* Decoding a frame only adds events.
LEMMA FrameGrows ==
    ASSUME ConstantsAssumption, NEW d \in Decoders, NEW frame \in Seq(TokenType),
           NEW s \in BOOLEAN
    PROVE  /\ Initial(d.pending, ProcessFrame(d, frame, s).pending)
           /\ Initial(d.pending, ProcessEnd(d, frame, s).pending)
<1> DEFINE p == d.pending
           e == [d EXCEPT !.pending = <<>>]
<1>0. <<>> \in Seq(Events)
  OBVIOUS
<1>1. p \in Seq(Events) /\ e \in Decoders /\ e.pending = <<>>
  BY <1>0 DEF Decoders
<1>2. d = With(p, e)
  <2>1. p \o <<>> = p
    BY <1>1, ConcatEmptySeq
  <2> QED
    BY <1>1, <2>1 DEF With, Decoders
<1> HIDE DEF p, e
<1>3. /\ ProcessFrame(e, frame, s) \in Decoders /\ ProcessEnd(e, frame, s) \in Decoders
      /\ ProcessFrame(d, frame, s) = With(p, ProcessFrame(e, frame, s))
      /\ ProcessEnd(d, frame, s) = With(p, ProcessEnd(e, frame, s))
  BY <1>1, <1>2, FrameKeeps, EndKeeps
<1>4. ASSUME NEW x \in Decoders PROVE Initial(p, With(p, x).pending)
  <2>1. With(p, x).pending = p \o x.pending
    BY <1>1, WithIs
  <2>2. x.pending \in Seq(Events)
    BY DEF Decoders
  <2> QED
    BY <2>1, <2>2 DEF Initial
<1> QED
  BY <1>3, <1>4 DEF p

\* One frame of a decoder that may be closed, as in Decoded.
Taken(d, frame, s) == IF d.closed THEN d ELSE ProcessFrame(d, frame, s)
Taking(s) == [x \in Decoders \X Seq(TokenType) |-> Taken(x[1], x[2], s)]

LEMMA TakingTyped ==
    ASSUME ConstantsAssumption, NEW s \in BOOLEAN
    PROVE  /\ Taking(s) \in [Decoders \X Seq(TokenType) -> Decoders]
           /\ \A d \in Decoders, f \in Seq(TokenType) : Taking(s)[<<d, f>>] = Taken(d, f, s)
<1>1. \A d \in Decoders, f \in Seq(TokenType) : Taken(d, f, s) \in Decoders
  <2>1. <<>> \in Seq(Events)
    OBVIOUS
  <2> QED
    BY <2>1, FrameKeeps DEF Taken
<1>2. \A x \in Decoders \X Seq(TokenType) : x[1] \in Decoders /\ x[2] \in Seq(TokenType)
  OBVIOUS
<1>3. \A x \in Decoders \X Seq(TokenType) : Taken(x[1], x[2], s) \in Decoders
  BY <1>1, <1>2
<1> QED
  BY <1>3 DEF Taking

LEMMA NewTyped == ASSUME ConstantsAssumption PROVE NewDecoder \in Decoders
<1>1. "none" \in Names
  BY DEF ConstantsAssumption
<1>2. <<>> \in Seq(Events) /\ {} \in SUBSET Calls
  OBVIOUS
<1> QED
  BY <1>1, <1>2 DEF NewDecoder, Decoders

LEMMA DecodedIs ==
    ASSUME ConstantsAssumption, NEW s \in BOOLEAN, NEW frames \in Seq(Seq(TokenType))
    PROVE  Decoded(frames, s) = Iterated(NewDecoder, Taking(s), frames)
<1> DEFINE n == Len(frames)
           Takes(h) == h = [r \in SUBSET (1 .. n) |->
                              IF r = {} THEN NewDecoder
                              ELSE IF h[r \ {Max(r)}].closed THEN h[r \ {Max(r)}]
                              ELSE ProcessFrame(h[r \ {Max(r)}], frames[Max(r)], s)]
           h == CHOOSE h : Takes(h)
<1>1. n \in Nat /\ Len(frames) = n /\ DOMAIN frames = 1 .. n
      /\ \A i \in 1 .. n : frames[i] \in Seq(TokenType)
  OBVIOUS
<1>2. Decoded(frames, s) = h[1 .. n]
  BY <1>1 DEF Decoded, FoldLeft, MapThenFoldSet
<1> HIDE DEF n
<1>3. PICK g : Iteration(g, NewDecoder, Taking(s), frames, n)
               /\ Iterated(NewDecoder, Taking(s), frames) = g[1 .. n]
  <2>1. n \in Nat /\ Len(frames) = n
    BY <1>1
  <2> DEFINE step == Taking(s)
  <2> HIDE DEF step, Takes, h
  <2>2. \E g : Iteration(g, NewDecoder, step, frames, n)
               /\ Iterated(NewDecoder, step, frames) = g[1 .. n]
    BY <2>1, IterationChosen
  <2> QED
    BY <2>2 DEF step
<1>4. \A r \in SUBSET (1 .. n) : g[r] \in Decoders
  <2>1. NewDecoder \in Decoders /\ Taking(s) \in [Decoders \X Seq(TokenType) -> Decoders]
    BY NewTyped, TakingTyped
  <2> QED
    BY <1>1, <1>3, <2>1, IterationTyped, Zenon
<1>5. ASSUME NEW r \in SUBSET (1 .. n), r # {}
      PROVE  g[r] = Taken(g[r \ {Max(r)}], frames[Max(r)], s)
  <2>1. Max(r) \in 1 .. n
    BY <1>1, <1>5, MaxInside
  <2>2. g[r] = Taking(s)[<<g[r \ {Max(r)}], frames[Max(r)]>>]
    BY <1>3, <1>5 DEF Iteration
  <2>3. r \ {Max(r)} \in SUBSET (1 .. n)
    OBVIOUS
  <2>4. g[r \ {Max(r)}] \in Decoders /\ frames[Max(r)] \in Seq(TokenType)
    BY <1>1, <1>4, <2>1, <2>3
  <2> QED
    BY <2>2, <2>4, TakingTyped
<1>6. g[{}] = NewDecoder /\ g = [r \in SUBSET (1 .. n) |-> g[r]]
  BY <1>3 DEF Iteration
<1>7. Takes(g)
  <2>1. ASSUME NEW r \in SUBSET (1 .. n)
        PROVE  g[r] = IF r = {} THEN NewDecoder
                      ELSE IF g[r \ {Max(r)}].closed THEN g[r \ {Max(r)}]
                      ELSE ProcessFrame(g[r \ {Max(r)}], frames[Max(r)], s)
    BY <1>5, <1>6, Zenon DEF Taken
  <2> QED
    BY <1>6, <2>1
<1>8. Takes(h)
  <2> HIDE DEF Takes
  <2> QED
    BY <1>7
<1>9. g[1 .. n] = h[1 .. n]
  <2>1. g[{}] = h[{}]
    BY <1>6, <1>8
  <2>2. ASSUME NEW r \in SUBSET (1 .. n), r # {}, g[r \ {Max(r)}] = h[r \ {Max(r)}]
        PROVE  g[r] = h[r]
    <3>1. h[r] = Taken(h[r \ {Max(r)}], frames[Max(r)], s)
      BY <1>8, <2>2, Zenon DEF Taken
    <3>2. g[r] = Taken(g[r \ {Max(r)}], frames[Max(r)], s)
      BY <1>5, <2>2
    <3> QED
      BY <2>2, <3>1, <3>2
  <2> HIDE DEF Takes, h
  <2> QED
    BY <1>1, <2>1, <2>2, SameIteration, ZenonT(60)
<1> QED
  BY <1>2, <1>3, <1>9

LEMMA DecodedTyped ==
    ASSUME ConstantsAssumption, NEW s \in BOOLEAN, NEW frames \in Seq(Seq(TokenType))
    PROVE  Decoded(frames, s) \in Decoders
<1>1. Decoded(frames, s) = Iterated(NewDecoder, Taking(s), frames)
  BY DecodedIs
<1>2. NewDecoder \in Decoders /\ Taking(s) \in [Decoders \X Seq(TokenType) -> Decoders]
  BY NewTyped, TakingTyped
<1>3. Iterated(NewDecoder, Taking(s), frames) \in Decoders
  BY <1>2, IteratedTyped, Zenon
<1> QED
  BY <1>1, <1>3

LEMMA DecodedAppend ==
    ASSUME ConstantsAssumption, NEW s \in BOOLEAN, NEW frames \in Seq(Seq(TokenType)),
           NEW f \in Seq(TokenType)
    PROVE  /\ Decoded(<<>>, s) = NewDecoder
           /\ Decoded(Append(frames, f), s) = Taken(Decoded(frames, s), f, s)
<1> DEFINE S == Seq(TokenType)
           more == Append(frames, f)
           step == Taking(s)
           d == Decoded(frames, s)
<1>1. <<>> \in Seq(S) /\ more \in Seq(S)
  OBVIOUS
<1>2. /\ Decoded(<<>>, s) = Iterated(NewDecoder, step, <<>>)
      /\ Decoded(frames, s) = Iterated(NewDecoder, step, frames)
      /\ Decoded(more, s) = Iterated(NewDecoder, step, more)
  BY <1>1, DecodedIs
<1>3. d \in Decoders
  BY DecodedTyped
<1>4. step[<<d, f>>] = Taken(d, f, s)
  BY <1>3, TakingTyped
<1>5. frames \in Seq(S) /\ f \in S
  OBVIOUS
<1> HIDE DEF step, S
<1>6. /\ Iterated(NewDecoder, step, <<>>) = NewDecoder
      /\ Iterated(NewDecoder, step, more) = step[<<Iterated(NewDecoder, step, frames), f>>]
  BY <1>5, IteratedAppend
<1> QED
  BY <1>2, <1>4, <1>6

LEMMA OneMore ==
    ASSUME NEW S, NEW q \in Seq(S), NEW k \in Nat, k < Len(q)
    PROVE  /\ SubSeq(q, 1, k) \in Seq(S) /\ q[k + 1] \in S
           /\ SubSeq(q, 1, k + 1) = Append(SubSeq(q, 1, k), q[k + 1])
<1>1. Len(q) \in Nat /\ k + 1 \in 1 .. Len(q) /\ 1 \in 1 .. Len(q) /\ k + 1 \in Nat
  OBVIOUS
<1>2. SubSeq(q, 1, k + 1) = SubSeq(q, 1, (k + 1) - 1) \o <<q[k + 1]>>
  BY <1>1, SubSeqRecursiveSecond
<1>3. (k + 1) - 1 = k
  OBVIOUS
<1>4. SubSeq(q, 1, k) \in Seq(S) /\ q[k + 1] \in S
  <2>1. \A i \in 1 .. Len(q) : q[i] \in S
    BY ElementOfSeq
  <2>2. \A i \in 1 .. k : q[i] \in S
    <3>1. \A i \in 1 .. k : i \in 1 .. Len(q)
      BY <1>1
    <3> QED
      BY <2>1, <3>1, Zenon
  <2>3. 1 \in Int /\ k \in Int
    OBVIOUS
  <2> QED
    BY <1>1, <2>1, <2>2, <2>3, SubSeqProperties
<1>5. Append(SubSeq(q, 1, k), q[k + 1]) = SubSeq(q, 1, k) \o <<q[k + 1]>>
  BY <1>4, AppendIsConcat
<1> QED
  BY <1>2, <1>3, <1>4, <1>5

\* The decoder after the first k frames.
After(frames, k, s) == Decoded(SubSeq(frames, 1, k), s)

LEMMA AfterNext ==
    ASSUME ConstantsAssumption, NEW s \in BOOLEAN, NEW frames \in Seq(Seq(TokenType)),
           NEW k \in Nat, k < Len(frames)
    PROVE  /\ After(frames, k, s) \in Decoders
           /\ After(frames, k + 1, s) = Taken(After(frames, k, s), frames[k + 1], s)
           /\ frames[k + 1] \in Seq(TokenType)
<1> DEFINE S == Seq(TokenType)
           q == SubSeq(frames, 1, k)
           f == frames[k + 1]
<1>1. frames \in Seq(S)
  OBVIOUS
<1> HIDE DEF S
<1>2. q \in Seq(S) /\ f \in S /\ SubSeq(frames, 1, k + 1) = Append(q, f)
  BY <1>1, OneMore
<1> HIDE DEF q, f
<1>3. Decoded(q, s) \in Decoders /\ Decoded(Append(q, f), s) = Taken(Decoded(q, s), f, s)
  BY <1>2, DecodedTyped, DecodedAppend DEF S
<1> QED
  BY <1>2, <1>3 DEF After, q, f, S

LEMMA AfterGrows ==
    ASSUME ConstantsAssumption, NEW s \in BOOLEAN, NEW frames \in Seq(Seq(TokenType)),
           NEW k \in Nat, NEW l \in Nat, k <= l, l <= Len(frames)
    PROVE  /\ After(frames, k, s) \in Decoders /\ After(frames, l, s) \in Decoders
           /\ Initial(After(frames, k, s).pending, After(frames, l, s).pending)
           /\ After(frames, k, s).closed => After(frames, l, s) = After(frames, k, s)
<1> DEFINE A(i) == After(frames, i, s)
           Good(i) == /\ A(i) \in Decoders
                      /\ Initial(A(k).pending, A(i).pending)
                      /\ A(k).closed => A(i) = A(k)
           T == {i \in Nat : k + i <= Len(frames) => Good(k + i)}
<1>0. Len(frames) \in Nat
  OBVIOUS
<1>1. A(k) \in Decoders /\ A(k).pending \in Seq(Events)
  <2>1. SubSeq(frames, 1, k) \in Seq(Seq(TokenType))
    <3>1. \A i \in 1 .. k : frames[i] \in Seq(TokenType)
      <4>1. \A i \in 1 .. k : i \in 1 .. Len(frames)
        BY <1>0
      <4> QED
        BY <4>1, ElementOfSeq
    <3>2. 1 \in Int /\ k \in Int
      OBVIOUS
    <3> QED
      BY <3>1, <3>2, SubSeqProperties
  <2>2. A(k) \in Decoders
    BY <2>1, DecodedTyped DEF After
  <2> QED
    BY <2>2 DEF Decoders
<1>2. 0 \in T
  <2>1. k + 0 = k
    OBVIOUS
  <2>2. Good(k)
    <3> HIDE DEF A
    <3> QED
      BY <1>1, InitialSelf
  <2> HIDE DEF Good
  <2> QED
    BY <2>1, <2>2
<1>3. ASSUME NEW i \in T PROVE i + 1 \in T
  <2> DEFINE j == k + i
  <2>1. i \in Nat /\ i + 1 \in Nat /\ j \in Nat /\ k + (i + 1) = j + 1
    OBVIOUS
  <2>2. j <= Len(frames) => Good(j)
    OBVIOUS
  <2> HIDE DEF j
  <2>3. ASSUME j + 1 <= Len(frames) PROVE Good(j + 1)
    <3>1. j < Len(frames) /\ j <= Len(frames)
      BY <1>0, <2>1, <2>3
    <3>2. Good(j)
      BY <2>2, <3>1
    <3> DEFINE a == A(j)
               b == A(j + 1)
               f == frames[j + 1]
    <3>3. a \in Decoders /\ b = Taken(a, f, s) /\ f \in Seq(TokenType)
      BY <2>1, <3>1, AfterNext
    <3>4. Initial(A(k).pending, a.pending) /\ (A(k).closed => a = A(k))
      BY <3>2
    <3> HIDE DEF a, b, f, A
    <3>5. CASE a.closed
      <4>1. b = a
        BY <3>3, <3>5 DEF Taken
      <4> QED
        BY <3>3, <3>4, <4>1 DEF a, b
    <3>6. CASE ~a.closed
      <4>1. b = ProcessFrame(a, f, s)
        BY <3>3, <3>6 DEF Taken
      <4>2. b \in Decoders /\ Initial(a.pending, b.pending)
        <5>1. <<>> \in Seq(Events)
          OBVIOUS
        <5>2. ProcessFrame(a, f, s) \in Decoders
          BY <3>3, <5>1, FrameKeeps
        <5> QED
          BY <3>3, <4>1, <5>2, FrameGrows
      <4>3. a.pending \in Seq(Events) /\ b.pending \in Seq(Events)
        BY <3>3, <4>2 DEF Decoders
      <4>4. Initial(A(k).pending, b.pending)
        BY <1>1, <3>4, <4>2, <4>3, InitialThen
      <4>5. ~A(k).closed
        BY <3>4, <3>6
      <4> QED
        BY <4>2, <4>4, <4>5 DEF b
    <3> QED
      BY <3>5, <3>6
  <2> HIDE DEF Good
  <2> QED
    BY <2>1, <2>3
<1>4. T = Nat
  <2>1. T \subseteq Nat
    OBVIOUS
  <2> HIDE DEF T
  <2> QED
    BY <1>2, <1>3, <2>1, Induct
<1>5. Good(l)
  <2> DEFINE i == l - k
  <2>1. i \in Nat /\ k + i = l
    OBVIOUS
  <2> HIDE DEF i, Good
  <2>2. i \in T
    <3> HIDE DEF T
    <3> QED
      BY <1>4, <2>1
  <2> QED
    BY <2>1, <2>2
<1> QED
  BY <1>1, <1>5

LEMMA FramesOfWire ==
    ASSUME ConstantsAssumption, NEW b \in Seq(Tokens)
    PROVE  /\ FramesOf[b] \in Seq(Seq(TokenType)) /\ Len(FramesOf[b]) - 1 \in Nat
           /\ b \in Seq(TokenType)
<1>1. FramesOf[b] \in Seq(Seq(Tokens)) /\ Len(FramesOf[b]) \in Nat \ {0}
  BY FramesTyped
<1>2. Seq(Tokens) \subseteq Seq(TokenType)
  BY TokensTyped, SeqMonotonic
<1>3. FramesOf[b] \in Seq(Seq(TokenType))
  <2> DEFINE S == Seq(Tokens)
             T == Seq(TokenType)
             f == FramesOf[b]
  <2>1. S \subseteq T /\ f \in Seq(S)
    BY <1>1, <1>2
  <2> HIDE DEF S, T, f
  <2>2. f \in Seq(T)
    BY <2>1, SeqMonotonic
  <2> QED
    BY <2>2 DEF T, f
<1> QED
  BY <1>1, <1>2, <1>3

\* What the decoder says of the whole body begins with what it says of its
\* first frames, and is that when they close it.
LEMMA WholeIs ==
    ASSUME ConstantsAssumption, NEW b \in Seq(Tokens), NEW s \in BOOLEAN,
           NEW k \in 0 .. Len(FramesOf[b]) - 1
    PROVE  /\ WholeEvents(b, s) \in Seq(Events)
           /\ After(FramesOf[b], k, s) \in Decoders
           /\ Initial(After(FramesOf[b], k, s).pending, WholeEvents(b, s))
           /\ After(FramesOf[b], k, s).closed =>
                 WholeEvents(b, s) = After(FramesOf[b], k, s).pending
           /\ k = Len(FramesOf[b]) - 1 /\ ~After(FramesOf[b], k, s).closed =>
                 WholeEvents(b, s)
                    = ProcessEnd(After(FramesOf[b], k, s), FramesOf[b][k + 1], s).pending
<1> DEFINE F == FramesOf[b]
           m == Len(F) - 1
           a == After(F, k, s)
           d == After(F, m, s)
           last == F[m + 1]
           e == ProcessEnd(d, last, s)
           W == WholeEvents(b, s)
<1>1. /\ F \in Seq(Seq(TokenType)) /\ m \in Nat /\ Len(F) = m + 1 /\ k \in Nat /\ k <= m
      /\ m <= Len(F) /\ m + 1 \in 1 .. Len(F)
  BY FramesOfWire
<1>2. W = (IF d.closed THEN d ELSE e).pending
  BY <1>1 DEF WholeEvents, After, Front, Last
<1> HIDE DEF F, m, W
<1>3. last \in Seq(TokenType)
  BY <1>1, ElementOfSeq
<1>4. /\ a \in Decoders /\ d \in Decoders /\ Initial(a.pending, d.pending)
      /\ a.closed => d = a
  BY <1>1, AfterGrows
<1> HIDE DEF a, d, last
<1>5. <<>> \in Seq(Events)
  OBVIOUS
<1>6. e \in Decoders
  BY <1>3, <1>4, <1>5, EndKeeps
<1>7. Initial(d.pending, e.pending)
  BY <1>3, <1>4, FrameGrows
<1> HIDE DEF e
<1>8. a.pending \in Seq(Events) /\ d.pending \in Seq(Events) /\ e.pending \in Seq(Events)
  BY <1>4, <1>6 DEF Decoders
<1>9. Initial(a.pending, e.pending)
  BY <1>4, <1>7, <1>8, InitialThen
<1>10. W \in Seq(Events) /\ Initial(a.pending, W)
  BY <1>2, <1>4, <1>8, <1>9
<1>11. a.closed => W = a.pending
  BY <1>2, <1>4
<1>12. k = m /\ ~a.closed => W = ProcessEnd(a, F[k + 1], s).pending
  <2>1. k = m => a = d /\ F[k + 1] = last
    BY DEF a, d, last
  <2> QED
    BY <1>2, <2>1 DEF e
<1> QED
  BY <1>4, <1>10, <1>11, <1>12 DEF F, m, a, W

-----------------------------------------------------------------------------
(* The accumulator.                                                         *)

Blocks == [kind: Kinds7, key: Names, name: Names, text: Text]
Accs ==
    [content: Seq(Blocks), usage: Nat, reason: Names, state: {"open", "finished", "error"}]

LEMMA DeltaApplied ==
    ASSUME NEW a \in Accs, NEW e \in Events
    PROVE  ApplyDelta(a, e) \in Accs
<1> DEFINE at == {i \in DOMAIN a.content : a.content[i].key = e.key}
           block == [kind |-> e.kind, key |-> e.key, name |-> e.name, text |-> e.delta]
           i == Min(at)
<1>1. /\ a.content \in Seq(Blocks) /\ DOMAIN a.content = 1 .. Len(a.content)
      /\ Len(a.content) \in Nat
  <2>1. a.content \in Seq(Blocks)
    BY DEF Accs
  <2> QED
    BY <2>1
<1>2. block \in Blocks /\ e.delta \in Text
  BY DEF Events, Blocks, Kinds7
<1>3. CASE at = {}
  <2>1. ApplyDelta(a, e) = [a EXCEPT !.content = Append(@, block)]
    BY <1>3 DEF ApplyDelta
  <2> DEFINE c == Append(a.content, block)
  <2>2. c \in Seq(Blocks)
    BY <1>1, <1>2, AppendProperties
  <2>3. ApplyDelta(a, e) = [a EXCEPT !.content = c]
    BY <2>1
  <2> HIDE DEF c
  <2> QED
    BY <2>2, <2>3 DEF Accs
<1>4. CASE at # {}
  <2>1. i \in 1 .. Len(a.content)
    <3>1. at \subseteq Nat
      BY <1>1
    <3>2. i \in at
      BY <1>4, <3>1, LeastOf
    <3> QED
      BY <1>1, <3>2
  <2>2. ApplyDelta(a, e) \in {[a EXCEPT !.content[i].text = @ \o e.delta], Reject(a)}
    BY <1>4, Zenon DEF ApplyDelta
  <2>3. Reject(a) \in Accs
    BY DEF Reject, Accs
  <2> DEFINE old == a.content[i]
             new == [old EXCEPT !.text = old.text \o e.delta]
             c == [a.content EXCEPT ![i] = new]
  <2>4. old \in Blocks
    BY <1>1, <2>1, ElementOfSeq
  <2>5. old.text \o e.delta \in Text
    <3>1. old.text \in Text
      BY <2>4 DEF Blocks
    <3> QED
      BY <1>2, <3>1, ConcatProperties DEF Text
  <2> HIDE DEF old
  <2>6. new \in Blocks
    BY <2>4, <2>5 DEF Blocks
  <2>7. [a EXCEPT !.content[i].text = @ \o e.delta] = [a EXCEPT !.content = c]
    BY DEF old
  <2> HIDE DEF new, i
  <2>8. c \in Seq(Blocks)
    BY <1>1, <2>1, <2>6, ExceptSeq
  <2> HIDE DEF c
  <2>9. [a EXCEPT !.content = c] \in Accs
    BY <2>8 DEF Accs
  <2> QED
    BY <2>2, <2>3, <2>7, <2>9
<1> QED
  BY <1>3, <1>4

LEMMA ApplyTyped ==
    ASSUME NEW a \in Accs, NEW e \in Events
    PROVE  /\ Apply(a, e) \in Accs
           /\ a.state = "error" => Apply(a, e) = a
<1>1. Reject(a) \in Accs /\ (a.state = "error" => Reject(a) = a)
  BY DEF Reject, Accs
<1>2. ApplyDelta(a, e) \in Accs
  BY DeltaApplied
<1>3. e.amount \in Nat /\ e.name \in Names
  BY DEF Events
<1>4. [a EXCEPT !.usage = @ + e.amount] \in Accs
  BY <1>3 DEF Accs
<1>5. [a EXCEPT !.state = "finished", !.reason = e.name] \in Accs
  BY <1>3 DEF Accs
<1>6. Apply(a, e) \in {Reject(a), ApplyDelta(a, e), [a EXCEPT !.usage = @ + e.amount],
                       [a EXCEPT !.state = "finished", !.reason = e.name]}
  BY DEF Apply
<1>7. a.state = "error" => Apply(a, e) = Reject(a)
  BY DEF Apply
<1> QED
  BY <1>1, <1>2, <1>4, <1>5, <1>6, <1>7

Applying == [x \in Accs \X Events |-> Apply(x[1], x[2])]

LEMMA ApplyingTyped ==
    /\ Applying \in [Accs \X Events -> Accs]
    /\ \A a \in Accs, e \in Events : Applying[<<a, e>>] = Apply(a, e)
<1>1. \A x \in Accs \X Events : x[1] \in Accs /\ x[2] \in Events
  OBVIOUS
<1>2. \A x \in Accs \X Events : Apply(x[1], x[2]) \in Accs
  BY <1>1, ApplyTyped
<1> QED
  BY <1>2 DEF Applying

LEMMA NewAccumulatorTyped == ASSUME ConstantsAssumption PROVE NewAccumulator \in Accs
<1>1. "none" \in Names
  BY DEF ConstantsAssumption
<1>2. <<>> \in Seq(Blocks)
  OBVIOUS
<1> QED
  BY <1>1, <1>2 DEF NewAccumulator, Accs

LEMMA AccumulatedIs ==
    ASSUME ConstantsAssumption, NEW es \in Seq(Events)
    PROVE  Accumulated(es) = Iterated(NewAccumulator, Applying, es)
<1> DEFINE n == Len(es)
           Applies(h) == h = [r \in SUBSET (1 .. n) |->
                              IF r = {} THEN NewAccumulator
                              ELSE Apply(h[r \ {Max(r)}], es[Max(r)])]
           h == CHOOSE h : Applies(h)
<1>1. n \in Nat /\ Len(es) = n /\ DOMAIN es = 1 .. n
      /\ \A i \in 1 .. n : es[i] \in Events
  OBVIOUS
<1>2. Accumulated(es) = h[1 .. n]
  BY <1>1 DEF Accumulated, FoldLeft, MapThenFoldSet
<1> HIDE DEF n
<1>3. PICK g : Iteration(g, NewAccumulator, Applying, es, n)
               /\ Iterated(NewAccumulator, Applying, es) = g[1 .. n]
  <2>1. n \in Nat /\ Len(es) = n
    BY <1>1
  <2> HIDE DEF Applies, h
  <2> QED
    BY <2>1, IterationChosen
<1>4. \A r \in SUBSET (1 .. n) : g[r] \in Accs
  <2>1. NewAccumulator \in Accs /\ Applying \in [Accs \X Events -> Accs]
    BY NewAccumulatorTyped, ApplyingTyped
  <2> QED
    BY <1>1, <1>3, <2>1, IterationTyped, Zenon
<1>5. ASSUME NEW r \in SUBSET (1 .. n), r # {}
      PROVE  g[r] = Apply(g[r \ {Max(r)}], es[Max(r)])
  <2>1. Max(r) \in 1 .. n
    BY <1>1, <1>5, MaxInside
  <2>2. g[r] = Applying[<<g[r \ {Max(r)}], es[Max(r)]>>]
    BY <1>3, <1>5 DEF Iteration
  <2>3. r \ {Max(r)} \in SUBSET (1 .. n)
    OBVIOUS
  <2>4. g[r \ {Max(r)}] \in Accs /\ es[Max(r)] \in Events
    BY <1>1, <1>4, <2>1, <2>3
  <2> QED
    BY <2>2, <2>4, ApplyingTyped
<1>6. g[{}] = NewAccumulator /\ g = [r \in SUBSET (1 .. n) |-> g[r]]
  BY <1>3 DEF Iteration
<1>7. Applies(g)
  <2>1. ASSUME NEW r \in SUBSET (1 .. n)
        PROVE  g[r] = IF r = {} THEN NewAccumulator ELSE Apply(g[r \ {Max(r)}], es[Max(r)])
    BY <1>5, <1>6, Zenon
  <2> QED
    BY <1>6, <2>1
<1>8. Applies(h)
  <2> HIDE DEF Applies
  <2> QED
    BY <1>7
<1>9. g[1 .. n] = h[1 .. n]
  <2>1. g[{}] = h[{}]
    BY <1>6, <1>8
  <2>2. ASSUME NEW r \in SUBSET (1 .. n), r # {}, g[r \ {Max(r)}] = h[r \ {Max(r)}]
        PROVE  g[r] = h[r]
    <3>1. h[r] = Apply(h[r \ {Max(r)}], es[Max(r)])
      BY <1>8, <2>2
    <3>2. g[r] = Apply(g[r \ {Max(r)}], es[Max(r)])
      BY <1>5, <2>2
    <3> QED
      BY <2>2, <3>1, <3>2
  <2> HIDE DEF Applies, h
  <2> QED
    BY <1>1, <2>1, <2>2, SameIteration, ZenonT(60)
<1> QED
  BY <1>2, <1>3, <1>9

\* The response after the first n events, and after one more.
LEMMA AccumulatedNext ==
    ASSUME ConstantsAssumption, NEW W \in Seq(Events), NEW n \in Nat, n < Len(W)
    PROVE  /\ Accumulated(SubSeq(W, 1, n)) \in Accs
           /\ Accumulated(SubSeq(W, 1, n + 1)) = Apply(Accumulated(SubSeq(W, 1, n)), W[n + 1])
           /\ W[n + 1] \in Events
<1> DEFINE q == SubSeq(W, 1, n)
           e == W[n + 1]
           r == SubSeq(W, 1, n + 1)
           a == Accumulated(q)
<1>1. q \in Seq(Events) /\ e \in Events /\ r = Append(q, e)
  BY OneMore
<1> HIDE DEF q, e, r
<1>2. r \in Seq(Events)
  BY <1>1, AppendProperties
<1>3. /\ Accumulated(q) = Iterated(NewAccumulator, Applying, q)
      /\ Accumulated(r) = Iterated(NewAccumulator, Applying, r)
  BY <1>1, <1>2, AccumulatedIs
<1>4. Iterated(NewAccumulator, Applying, r) = Applying[<<Iterated(NewAccumulator, Applying, q), e>>]
  BY <1>1, IteratedAppend
<1>5. a \in Accs
  <2>1. NewAccumulator \in Accs /\ Applying \in [Accs \X Events -> Accs]
    BY NewAccumulatorTyped, ApplyingTyped
  <2>2. Iterated(NewAccumulator, Applying, q) \in Accs
    BY <1>1, <2>1, IteratedTyped, Zenon
  <2> QED
    BY <1>3, <2>2
<1>6. Applying[<<a, e>>] = Apply(a, e)
  BY <1>1, <1>5, ApplyingTyped
<1> QED
  BY <1>1, <1>3, <1>4, <1>5, <1>6 DEF q, e, r

LEMMA AccumulatedFirst ==
    ASSUME ConstantsAssumption, NEW W \in Seq(Events)
    PROVE  Accumulated(SubSeq(W, 1, 0)) = NewAccumulator
<1>1. SubSeq(W, 1, 0) = <<>>
  BY SubSeqEmpty
<1>2. <<>> \in Seq(Events) /\ Failure \in Events
  <2>1. <<>> \in Text
    BY DEF Text
  <2> QED
    BY <2>1 DEF Failure, Event, Events, ConstantsAssumption
<1>3. Accumulated(<<>>) = Iterated(NewAccumulator, Applying, <<>>)
  BY <1>2, AccumulatedIs
<1> QED
  BY <1>1, <1>2, <1>3, IteratedAppend

\* A response that has failed stays as it is.
LEMMA FailedStays ==
    ASSUME ConstantsAssumption, NEW W \in Seq(Events), NEW n \in 0 .. Len(W),
           Accumulated(SubSeq(W, 1, n)).state = "error"
    PROVE  Accumulated(SubSeq(W, 1, Len(W))) = Accumulated(SubSeq(W, 1, n))
<1> DEFINE A(i) == Accumulated(SubSeq(W, 1, i))
           T == {i \in Nat : n + i <= Len(W) => A(n + i) = A(n)}
<1>0. Len(W) \in Nat /\ n \in Nat /\ n <= Len(W)
  OBVIOUS
<1>1. 0 \in T
  BY <1>0
<1>2. ASSUME NEW i \in T PROVE i + 1 \in T
  <2> DEFINE j == n + i
  <2>1. i \in Nat /\ i + 1 \in Nat /\ j \in Nat /\ n + (i + 1) = j + 1
    BY <1>0
  <2>2. j <= Len(W) => A(j) = A(n)
    OBVIOUS
  <2> HIDE DEF j
  <2>3. ASSUME j + 1 <= Len(W) PROVE A(j + 1) = A(n)
    <3>1. j < Len(W) /\ j <= Len(W)
      BY <1>0, <2>1, <2>3
    <3>2. A(j) \in Accs /\ A(j + 1) = Apply(A(j), W[j + 1]) /\ W[j + 1] \in Events
      BY <2>1, <3>1, AccumulatedNext
    <3>3. A(j) = A(n) /\ A(n).state = "error"
      BY <2>2, <3>1
    <3> HIDE DEF A
    <3> QED
      BY <3>2, <3>3, ApplyTyped
  <2> HIDE DEF A
  <2> QED
    BY <2>1, <2>3
<1>3. T = Nat
  <2>1. T \subseteq Nat
    OBVIOUS
  <2> HIDE DEF T
  <2> QED
    BY <1>1, <1>2, <2>1, Induct
<1>4. A(Len(W)) = A(n)
  <2> DEFINE i == Len(W) - n
  <2>1. i \in Nat /\ n + i = Len(W) /\ n + i <= Len(W)
    BY <1>0
  <2> HIDE DEF i
  <2>2. i \in T
    <3> HIDE DEF T
    <3> QED
      BY <1>3, <2>1
  <2> HIDE DEF A
  <2> QED
    BY <2>1, <2>2
<1> QED
  BY <1>4

-----------------------------------------------------------------------------
(* The stream.  Whatever the cuts, the frames that are still to come are the *)
(* last ones of the body, and the decoder has said what it says of the       *)
(* first ones of the body, except what the accumulator has been told.        *)

StreamTyped ==
    /\ mode \in {"none", "stream", "generate"} /\ schema \in BOOLEAN
    /\ wire \in Wires \cup {<<>>} /\ arrived \in 0 .. Len(wire)
    /\ buffer \in Seq(Tokens) /\ decoder \in Decoders /\ acc \in Accs

LEMMA WireTyped ==
    ASSUME ConstantsAssumption, StreamTyped
    PROVE  wire \in Seq(Tokens) /\ arrived \in Nat /\ Len(wire) \in Nat /\ arrived <= Len(wire)
<1>1. wire \in Seq(Tokens)
  <2>1. CASE wire \in Wires
    BY <2>1, WireTokens
  <2>2. CASE wire = <<>>
    BY <2>2
  <2> QED
    BY <2>1, <2>2 DEF StreamTyped
<1>2. Len(wire) \in Nat
  BY <1>1
<1> QED
  BY <1>1, <1>2 DEF StreamTyped

LEMMA FrameTyped ==
    ASSUME ConstantsAssumption, NEW b \in Seq(Tokens)
    PROVE  /\ b \in Seq(TokenType)
           /\ Found(b) # {} => Frame(b) \in Seq(TokenType)
                               /\ Frame(b) \in Seq(Tokens) /\ AfterFrame(b) \in Seq(Tokens)
<1>1. \A c \in Seq(Tokens) : c \in Seq(TokenType)
  BY TokensTyped
<1> QED
  BY <1>1, FrameSplit

LEMMA DrainTyped ==
    ASSUME NEW d \in Decoders, d.pending # <<>>
    PROVE  /\ d.pending \in Seq(Events) /\ Head(d.pending) \in Events
           /\ Tail(d.pending) \in Seq(Events)
           /\ [d EXCEPT !.pending = Tail(@)] \in Decoders
<1>1. d.pending \in Seq(Events)
  BY DEF Decoders
<1>2. Head(d.pending) \in Events /\ Tail(d.pending) \in Seq(Events)
  BY <1>1, HeadTailProperties
<1> QED
  BY <1>1, <1>2 DEF Decoders

LEMMA StreamTypedStep ==
    ASSUME ConstantsAssumption, SendInv, StreamTyped, [Next]_vars
    PROVE  StreamTyped'
<1>t. /\ buffer \in Seq(Tokens) /\ decoder \in Decoders /\ acc \in Accs /\ schema \in BOOLEAN
      /\ wire \in Seq(Tokens) /\ arrived \in Nat /\ Len(wire) \in Nat /\ arrived <= Len(wire)
  BY WireTyped DEF StreamTyped
<1>1. CASE Prepare \/ StatusError \/ TransportError \/ Wake \/ Generated \/ StreamOver
           \/ BodyFails \/ Interrupt \/ UNCHANGED vars
  <2>1. UNCHANGED <<mode, schema, wire, arrived, buffer, decoder, acc>>
    BY <1>1 DEF Prepare, StatusError, TransportError, RetryOrFail, Wake, Generated,
       StreamOver, BodyFails, Interrupt, vars, setting, reading
  <2> QED
    BY <2>1 DEF StreamTyped
<1>2. CASE Call
  BY <1>2 DEF Call, reading, StreamTyped
<1>3. CASE Succeeds
  <2>1. /\ wire' \in Wires /\ UNCHANGED <<mode, schema, arrived, buffer, decoder, acc>>
        /\ arrived = 0
    BY <1>3 DEF Succeeds, setting, SendInv, Untouched
  <2>2. wire' \in Seq(Tokens)
    BY <2>1, WireTokens
  <2>3. Len(wire') \in Nat
    BY <2>2
  <2> QED
    BY <2>1, <2>3 DEF StreamTyped
<1>4. CASE Deliver
  <2>1. /\ UNCHANGED <<mode, schema, wire, arrived, buffer>> /\ decoder.pending # <<>>
        /\ acc' = Apply(acc, Head(decoder.pending))
        /\ decoder' = [decoder EXCEPT !.pending = Tail(@)]
    BY <1>4 DEF Deliver, setting
  <2>2. Head(decoder.pending) \in Events /\ decoder' \in Decoders
    BY <1>t, <2>1, DrainTyped
  <2>3. acc' \in Accs
    BY <1>t, <2>1, <2>2, ApplyTyped
  <2> QED
    BY <2>1, <2>2, <2>3 DEF StreamTyped
<1>5. CASE TakeFrame
  <2>1. /\ UNCHANGED <<mode, schema, wire, arrived, acc>> /\ Found(buffer) # {}
        /\ decoder' = ProcessFrame(decoder, Frame(buffer), schema)
        /\ buffer' = AfterFrame(buffer)
    BY <1>5 DEF TakeFrame, setting
  <2>2. Frame(buffer) \in Seq(TokenType) /\ buffer' \in Seq(Tokens)
    BY <1>t, <2>1, FrameTyped
  <2>3. <<>> \in Seq(Events)
    OBVIOUS
  <2>4. decoder' \in Decoders
    BY <1>t, <2>1, <2>2, <2>3, FrameKeeps
  <2> QED
    BY <2>1, <2>2, <2>4 DEF StreamTyped
<1>6. CASE ReceiveChunk
  <2>1. /\ UNCHANGED <<mode, schema, wire, decoder, acc>>
        /\ \E n \in arrived + 1 .. Len(wire) :
               buffer' = buffer \o SubSeq(wire, arrived + 1, n) /\ arrived' = n
    BY <1>6 DEF ReceiveChunk, setting
  <2>2. PICK n \in arrived + 1 .. Len(wire) :
               buffer' = buffer \o SubSeq(wire, arrived + 1, n) /\ arrived' = n
    BY <2>1
  <2>3. n \in 0 .. Len(wire)
    BY <1>t
  <2>4. SubSeq(wire, arrived + 1, n) \in Seq(Tokens)
    BY <1>t
  <2>5. buffer' \in Seq(Tokens)
    BY <1>t, <2>2, <2>4, ConcatProperties
  <2> QED
    BY <2>1, <2>2, <2>3, <2>5 DEF StreamTyped
<1>7. CASE EndOfBody
  <2>1. /\ UNCHANGED <<mode, schema, wire, arrived, acc>>
        /\ decoder' = ProcessEnd(decoder, buffer, schema) /\ buffer' = <<>>
    BY <1>7 DEF EndOfBody, setting
  <2>2. buffer \in Seq(TokenType)
    BY <1>t, FrameTyped
  <2>3. <<>> \in Seq(Events) /\ <<>> \in Seq(Tokens)
    OBVIOUS
  <2>4. decoder' \in Decoders
    BY <1>t, <2>1, <2>2, <2>3, EndKeeps
  <2> QED
    BY <2>1, <2>3, <2>4 DEF StreamTyped
<1> QED
  BY <1>1, <1>2, <1>3, <1>4, <1>5, <1>6, <1>7 DEF Next, Send, Read

\* What is still to be framed, and the first n events of the whole body.
ToFrame == buffer \o SubSeq(wire, arrived + 1, Len(wire))
FirstEvents(n) == SubSeq(WholeEvents(wire, schema), 1, n)

\* After k frames of the body, all of them but the last to come: what the
\* decoder holds comes after the first n events.
Ahead(n, k) ==
    /\ k \in 0 .. Len(FramesOf[wire]) - 1
    /\ FramesOf[ToFrame] = SubSeq(FramesOf[wire], k + 1, Len(FramesOf[wire]))
    /\ After(FramesOf[wire], k, schema) = With(FirstEvents(n), decoder)

\* There are no more events than those that the decoder holds.
Closed(n) ==
    decoder.closed /\ WholeEvents(wire, schema) = FirstEvents(n) \o decoder.pending

SeenFirst(n) ==
    /\ n \in 0 .. Len(WholeEvents(wire, schema))
    /\ acc = Accumulated(FirstEvents(n))
Reading(n) == SeenFirst(n) /\ ((\E k : Ahead(n, k)) \/ Closed(n))

StreamInv ==
    mode = "stream" /\ wire # <<>> =>
        /\ pc = "reading" => \E n : Reading(n)
        /\ pc = "done" => \E n : SeenFirst(n)
        /\ outcome \in {"response", "error"} =>
               SeenFirst(Len(WholeEvents(wire, schema)))

LEMMA EventsTyped ==
    ASSUME ConstantsAssumption, StreamTyped
    PROVE  /\ WholeEvents(wire, schema) \in Seq(Events) /\ Len(WholeEvents(wire, schema)) \in Nat
           /\ FramesOf[wire] \in Seq(Seq(TokenType)) /\ Len(FramesOf[wire]) - 1 \in Nat
           /\ \A n \in 0 .. Len(WholeEvents(wire, schema)) :
                 FirstEvents(n) \in Seq(Events) /\ Len(FirstEvents(n)) = n
<1>1. wire \in Seq(Tokens) /\ schema \in BOOLEAN
  BY WireTyped DEF StreamTyped
<1>2. FramesOf[wire] \in Seq(Seq(TokenType)) /\ Len(FramesOf[wire]) - 1 \in Nat
  BY <1>1, FramesOfWire
<1>3. 0 \in 0 .. Len(FramesOf[wire]) - 1
  BY <1>2
<1>4. WholeEvents(wire, schema) \in Seq(Events)
  BY <1>1, <1>3, WholeIs
<1> DEFINE W == WholeEvents(wire, schema)
<1>5. W \in Seq(Events) /\ Len(W) \in Nat
  BY <1>4
<1>6. ASSUME NEW n \in 0 .. Len(W)
      PROVE  SubSeq(W, 1, n) \in Seq(Events) /\ Len(SubSeq(W, 1, n)) = n
  <2> HIDE DEF W
  <2> QED
    BY <1>5
<1> QED
  BY <1>2, <1>5, <1>6 DEF FirstEvents

LEMMA WithNothing == ASSUME NEW d \in Decoders PROVE With(<<>>, d) = d
<1>1. d.pending \in Seq(Events) /\ <<>> \in Seq(Events)
  BY DEF Decoders
<1>2. <<>> \o d.pending = d.pending
  BY <1>1, ConcatEmptySeq
<1> DEFINE e == With(<<>>, d)
<1>3. /\ e \in Decoders /\ e.pending = <<>> \o d.pending /\ e.tools = d.tools
      /\ e.finish = d.finish /\ e.closed = d.closed
  BY <1>1, WithIs
<1> HIDE DEF e
<1>4. e.pending = d.pending
  BY <1>2, <1>3
<1>5. e = d
  BY <1>3, <1>4, SameDecoder
<1> QED
  BY <1>5 DEF e

\* At the beginning of a body, everything is still to come.
LEMMA ReadingFirst ==
    ASSUME ConstantsAssumption, NEW w \in Wires, NEW s \in BOOLEAN
    PROVE  /\ 0 \in 0 .. Len(WholeEvents(w, s)) /\ 0 \in 0 .. Len(FramesOf[w]) - 1
           /\ FramesOf[<<>> \o SubSeq(w, 0 + 1, Len(w))]
                 = SubSeq(FramesOf[w], 0 + 1, Len(FramesOf[w]))
           /\ After(FramesOf[w], 0, s) = With(SubSeq(WholeEvents(w, s), 1, 0), NewDecoder)
           /\ NewAccumulator = Accumulated(SubSeq(WholeEvents(w, s), 1, 0))
<1> DEFINE W == WholeEvents(w, s)
           F == FramesOf[w]
<1>0. w \in Seq(Tokens) /\ Len(w) \in Nat
  BY WireTokens
<1>1. F \in Seq(Seq(TokenType)) /\ Len(F) - 1 \in Nat /\ Len(F) \in Nat
  BY <1>0, FramesOfWire
<1>2. 0 \in 0 .. Len(F) - 1 /\ 0 + 1 = 1
  BY <1>1
<1>3. W \in Seq(Events)
  BY <1>0, <1>2, WholeIs
<1>4. 0 \in 0 .. Len(W) /\ SubSeq(W, 1, 0) = <<>>
  BY <1>3, SubSeqEmpty
<1>5. <<>> \o SubSeq(w, 1, Len(w)) = w
  <2>1. SubSeq(w, 1, Len(w)) = w
    BY <1>0, SubSeqFull
  <2>2. <<>> \o w = w
    BY <1>0, ConcatEmptySeq
  <2> QED
    BY <2>1, <2>2
<1>6. SubSeq(F, 1, Len(F)) = F
  BY <1>1, SubSeqFull
<1>7. After(F, 0, s) = NewDecoder
  <2>1. SubSeq(F, 1, 0) = <<>>
    BY SubSeqEmpty
  <2>2. <<>> \in Seq(Seq(TokenType)) /\ <<>> \in Seq(TokenType)
    OBVIOUS
  <2>3. Decoded(<<>>, s) = NewDecoder
    BY <2>2, DecodedAppend
  <2> QED
    BY <2>1, <2>3 DEF After
<1>8. With(<<>>, NewDecoder) = NewDecoder
  BY NewTyped, WithNothing
<1>9. NewAccumulator = Accumulated(SubSeq(W, 1, 0))
  BY <1>3, AccumulatedFirst
<1> QED
  BY <1>2, <1>4, <1>5, <1>6, <1>7, <1>8, <1>9

\* A closed decoder has said everything.
LEMMA AheadClosed ==
    ASSUME ConstantsAssumption, StreamTyped, NEW n, Reading(n), decoder.closed
    PROVE  Closed(n)
<1>1. CASE Closed(n)
  BY <1>1
<1>2. CASE \E k : Ahead(n, k)
  <2>1. PICK k : Ahead(n, k)
    BY <1>2
  <2> DEFINE a == After(FramesOf[wire], k, schema)
             p == FirstEvents(n)
  <2>2. wire \in Seq(Tokens) /\ schema \in BOOLEAN /\ decoder \in Decoders
    BY WireTyped DEF StreamTyped
  <2>3. a.closed => WholeEvents(wire, schema) = a.pending
    BY <2>1, <2>2, WholeIs DEF Ahead
  <2>4. p \in Seq(Events)
    BY EventsTyped DEF Reading, SeenFirst
  <2>5. a = With(p, decoder)
    BY <2>1 DEF Ahead
  <2> HIDE DEF a, p
  <2>6. a.closed = decoder.closed /\ a.pending = p \o decoder.pending
    BY <2>2, <2>4, <2>5, WithIs
  <2> QED
    BY <2>3, <2>6 DEF Closed, p
<1> QED
  BY <1>1, <1>2 DEF Reading

\* Cuts move nothing but what has arrived.
LEMMA ReceiveKeeps ==
    ASSUME ConstantsAssumption, StreamTyped, NEW n, Reading(n), ReceiveChunk
    PROVE  Reading(n)'
<1>1. /\ UNCHANGED <<wire, schema, decoder, acc>>
      /\ \E m \in arrived + 1 .. Len(wire) :
             buffer' = buffer \o SubSeq(wire, arrived + 1, m) /\ arrived' = m
  BY DEF ReceiveChunk, setting
<1>2. PICK m \in arrived + 1 .. Len(wire) :
             buffer' = buffer \o SubSeq(wire, arrived + 1, m) /\ arrived' = m
  BY <1>1
<1>3. /\ wire \in Seq(Tokens) /\ arrived \in Nat /\ Len(wire) \in Nat /\ arrived <= Len(wire)
      /\ buffer \in Seq(Tokens)
  BY WireTyped DEF StreamTyped
<1>4. ToFrame' = ToFrame
  <2> DEFINE x == SubSeq(wire, arrived + 1, m)
             y == SubSeq(wire, m + 1, Len(wire))
             z == SubSeq(wire, arrived + 1, Len(wire))
  <2>1. /\ arrived + 1 \in 1 .. Len(wire) + 1 /\ m \in (arrived + 1) - 1 .. Len(wire)
        /\ Len(wire) \in m .. Len(wire)
    BY <1>3
  <2>2. x \o y = z
    BY <1>3, <2>1, ConcatAdjacentSubSeq
  <2>3. x \in Seq(Tokens) /\ y \in Seq(Tokens)
    BY <1>3, <2>1
  <2>4. ToFrame' = (buffer \o x) \o y /\ ToFrame = buffer \o z
    BY <1>1, <1>2 DEF ToFrame
  <2> HIDE DEF x, y, z
  <2>5. (buffer \o x) \o y = buffer \o (x \o y)
    BY <1>3, <2>3, ConcatAssociative, SMTT(30)
  <2> QED
    BY <2>2, <2>4, <2>5
<1> QED
  BY <1>1, <1>4 DEF Reading, SeenFirst, Ahead, Closed, FirstEvents

\* A frame that is complete in the buffer is the next one of the body.
LEMMA TakeKeeps ==
    ASSUME ConstantsAssumption, StreamTyped, NEW n, Reading(n), TakeFrame
    PROVE  Reading(n)'
<1>1. /\ UNCHANGED <<wire, schema, arrived, acc>> /\ ~decoder.closed /\ Found(buffer) # {}
      /\ decoder' = ProcessFrame(decoder, Frame(buffer), schema)
      /\ buffer' = AfterFrame(buffer)
  BY DEF TakeFrame, setting
<1>2. PICK k : Ahead(n, k)
  BY <1>1 DEF Reading, Closed
<1> DEFINE F == FramesOf[wire]
           f == Frame(buffer)
           rest == SubSeq(wire, arrived + 1, Len(wire))
           G == FramesOf[AfterFrame(buffer) \o rest]
<1>3. /\ wire \in Seq(Tokens) /\ arrived \in Nat /\ Len(wire) \in Nat /\ arrived <= Len(wire)
      /\ buffer \in Seq(Tokens) /\ decoder \in Decoders /\ schema \in BOOLEAN
  BY WireTyped DEF StreamTyped
<1>4. rest \in Seq(Tokens)
  BY <1>3
<1>5. /\ f \in Seq(Tokens) /\ f \in Seq(TokenType) /\ AfterFrame(buffer) \in Seq(Tokens)
      /\ Found(buffer \o rest) # {}
      /\ Frame(buffer \o rest) = f
      /\ AfterFrame(buffer \o rest) = AfterFrame(buffer) \o rest
  <2> HIDE DEF rest
  <2> QED
    BY <1>1, <1>3, <1>4, FrameTyped, FirstStays, FrameStays
<1>6. /\ buffer \o rest \in Seq(Tokens) /\ AfterFrame(buffer) \o rest \in Seq(Tokens)
  BY <1>3, <1>4, <1>5, ConcatProperties
<1>7. FramesOf[buffer \o rest] = <<f>> \o G
  <2> HIDE DEF rest
  <2>1. FramesOf[buffer \o rest] = FramedBy(FramesOf, buffer \o rest)
    BY <1>6, FramesOfIs
  <2> QED
    BY <1>5, <2>1 DEF FramedBy
<1>8. /\ G \in Seq(Seq(TokenType)) /\ Len(G) - 1 \in Nat
      /\ F \in Seq(Seq(TokenType)) /\ Len(F) - 1 \in Nat
  <2> HIDE DEF rest
  <2> QED
    BY <1>3, <1>6, FramesOfWire
<1>9. k \in 0 .. Len(F) - 1 /\ <<f>> \o G = SubSeq(F, k + 1, Len(F))
      /\ After(F, k, schema) = With(FirstEvents(n), decoder)
  BY <1>2, <1>7 DEF Ahead, ToFrame
<1>10. ToFrame' = AfterFrame(buffer) \o rest
  BY <1>1 DEF ToFrame
<1>11. F' = F /\ FirstEvents(n)' = FirstEvents(n) /\ FramesOf[ToFrame'] = G
  BY <1>1, <1>10 DEF FirstEvents
<1> HIDE DEF F, f, rest, G
<1>12. /\ k + 1 \in 0 .. Len(F) - 1 /\ F[k + 1] = f
       /\ G = SubSeq(F, (k + 1) + 1, Len(F))
  <2> DEFINE x == <<f>> \o G
             y == SubSeq(F, k + 2, Len(F))
  <2>1. x = <<F[k + 1]>> \o y
    <3>1. k + 1 \in 1 .. Len(F) /\ Len(F) \in k + 1 .. Len(F) /\ (k + 1) + 1 = k + 2
      BY <1>8, <1>9
    <3>2. SubSeq(F, k + 1, Len(F)) = << F[k + 1] >> \o SubSeq(F, (k + 1) + 1, Len(F))
      BY <1>8, <3>1, SubSeqRecursiveFirst
    <3> QED
      BY <1>9, <3>1, <3>2
  <2>2. y \in Seq(Seq(TokenType)) /\ Len(y) = Len(F) - (k + 1) /\ F[k + 1] \in Seq(TokenType)
    BY <1>8, <1>9
  <2>3. f = F[k + 1] /\ G = y
    <3> HIDE DEF y
    <3>1. x[1] = f /\ Tail(x) = G
      BY <1>5, <1>8, SMTT(30)
    <3>2. (<<F[k + 1]>> \o y)[1] = F[k + 1] /\ Tail(<<F[k + 1]>> \o y) = y
      BY <2>2, SMTT(30)
    <3> QED
      BY <2>1, <3>1, <3>2
  <2>4. k + 1 <= Len(F) - 1 /\ (k + 1) + 1 = k + 2
    BY <1>8, <1>9, <2>2, <2>3
  <2> QED
    BY <1>8, <1>9, <2>3, <2>4
<1>13. After(F, k + 1, schema) = With(FirstEvents(n), decoder')
  <2> DEFINE p == FirstEvents(n)
             a == After(F, k, schema)
  <2>1. p \in Seq(Events)
    BY EventsTyped DEF Reading, SeenFirst
  <2>2. a = With(p, decoder)
    BY <1>9
  <2>3. After(F, k + 1, schema) = Taken(a, F[k + 1], schema)
    <3>1. k \in Nat /\ k < Len(F)
      BY <1>8, <1>9
    <3> QED
      BY <1>3, <1>8, <3>1, AfterNext
  <2> HIDE DEF p, a
  <2>4. ~With(p, decoder).closed
    BY <1>1, <1>3, <2>1, WithIs
  <2>5. Taken(a, F[k + 1], schema) = ProcessFrame(With(p, decoder), f, schema)
    BY <1>12, <2>2, <2>4 DEF Taken
  <2>6. ProcessFrame(With(p, decoder), f, schema) = With(p, ProcessFrame(decoder, f, schema))
    BY <1>3, <1>5, <2>1, FrameKeeps
  <2> QED
    BY <1>1, <2>3, <2>5, <2>6 DEF p, f
<1>14. Ahead(n, k + 1)'
  BY <1>1, <1>11, <1>12, <1>13 DEF Ahead, F
<1>15. SeenFirst(n)'
  BY <1>1 DEF SeenFirst, Reading, FirstEvents
<1> QED
  BY <1>14, <1>15 DEF Reading

\* What remains of the body at its end is its last frame.
LEMMA EndCloses ==
    ASSUME ConstantsAssumption, StreamTyped, NEW n, Reading(n), EndOfBody
    PROVE  Reading(n)'
<1>1. /\ UNCHANGED <<wire, schema, arrived, acc>> /\ ~decoder.closed /\ Found(buffer) = {}
      /\ arrived = Len(wire)
      /\ decoder' = ProcessEnd(decoder, buffer, schema)
  BY DEF EndOfBody, NeedsMore, setting
<1>2. PICK k : Ahead(n, k)
  BY <1>1 DEF Reading, Closed
<1> DEFINE F == FramesOf[wire]
           a == After(F, k, schema)
           p == FirstEvents(n)
           W == WholeEvents(wire, schema)
<1>3. /\ wire \in Seq(Tokens) /\ arrived \in Nat /\ Len(wire) \in Nat
      /\ buffer \in Seq(Tokens) /\ decoder \in Decoders /\ schema \in BOOLEAN
      /\ buffer \in Seq(TokenType)
  BY WireTyped, FrameTyped DEF StreamTyped
<1>4. ToFrame = buffer
  <2>1. SubSeq(wire, arrived + 1, Len(wire)) = <<>>
    BY <1>1, <1>3, SubSeqEmpty
  <2>2. buffer \o <<>> = buffer
    BY <1>3, ConcatEmptySeq
  <2> QED
    BY <2>1, <2>2 DEF ToFrame
<1>5. FramesOf[ToFrame] = <<buffer>>
  BY <1>1, <1>3, <1>4, FramesOfIs DEF FramedBy
<1>6. F \in Seq(Seq(TokenType)) /\ Len(F) - 1 \in Nat /\ p \in Seq(Events)
  BY EventsTyped DEF Reading, SeenFirst
<1>7. k \in 0 .. Len(F) - 1 /\ <<buffer>> = SubSeq(F, k + 1, Len(F)) /\ a = With(p, decoder)
  BY <1>2, <1>5 DEF Ahead
<1>8. k \in 0 .. Len(F) - 1 /\ ~a.closed /\ k = Len(F) - 1
         => W = ProcessEnd(a, F[k + 1], schema).pending
  BY <1>3, WholeIs
<1> HIDE DEF F, a, p, W
<1>9. k = Len(F) - 1 /\ F[k + 1] = buffer
  <2> DEFINE y == SubSeq(F, k + 1, Len(F))
  <2>0. k \in Nat /\ Len(F) \in Nat /\ k + 1 <= Len(F)
    BY <1>6, <1>7
  <2>1. Len(y) = Len(F) - k /\ y[1] = F[k + 1]
    BY <1>6, <2>0
  <2>2. Len(y) = 1 /\ y[1] = buffer
    BY <1>7
  <2> HIDE DEF y
  <2>3. Len(F) - k = 1
    BY <2>1, <2>2
  <2> QED
    BY <2>0, <2>1, <2>2, <2>3
<1>10. ~a.closed
  BY <1>1, <1>3, <1>6, <1>7, WithIs
<1>11. W = ProcessEnd(With(p, decoder), buffer, schema).pending
  BY <1>7, <1>8, <1>9, <1>10
<1>12. ProcessEnd(With(p, decoder), buffer, schema) = With(p, decoder') /\ decoder' \in Decoders
       /\ decoder'.closed
  BY <1>1, <1>3, <1>6, EndKeeps
<1>13. W = p \o decoder'.pending
  BY <1>6, <1>11, <1>12, WithIs
<1>14. Closed(n)'
  BY <1>1, <1>12, <1>13 DEF Closed, W, p, FirstEvents
<1>15. SeenFirst(n)'
  BY <1>1 DEF SeenFirst, Reading, FirstEvents
<1> QED
  BY <1>14, <1>15 DEF Reading

LEMMA EventsJoin ==
    ASSUME NEW p \in Seq(Events), NEW q \in Seq(Events), NEW r \in Seq(Events)
    PROVE  (p \o q) \o r = p \o (q \o r) /\ q \o r \in Seq(Events)
BY ConcatAssociative, ConcatProperties

\* The next event of the decoder is the next one of the whole body.
LEMMA DeliverNext ==
    ASSUME ConstantsAssumption, StreamTyped, NEW n, Reading(n), Deliver
    PROVE  /\ Reading(n + 1)'
           /\ acc'.state = "error" => SeenFirst(Len(WholeEvents(wire, schema)))'
<1>1. /\ UNCHANGED <<wire, schema, arrived, buffer>> /\ decoder.pending # <<>>
      /\ acc' = Apply(acc, Head(decoder.pending))
      /\ decoder' = [decoder EXCEPT !.pending = Tail(@)]
  BY DEF Deliver, setting
<1> DEFINE F == FramesOf[wire]
           W == WholeEvents(wire, schema)
           p == FirstEvents(n)
           q == FirstEvents(n + 1)
           h == Head(decoder.pending)
           t == Tail(decoder.pending)
<1>2. /\ decoder \in Decoders /\ decoder.pending \in Seq(Events) /\ h \in Events
      /\ t \in Seq(Events) /\ decoder' \in Decoders /\ acc \in Accs
  BY <1>1, DrainTyped DEF StreamTyped
<1>3. /\ W \in Seq(Events) /\ Len(W) \in Nat /\ n \in 0 .. Len(W)
      /\ p \in Seq(Events) /\ Len(p) = n
      /\ wire \in Seq(Tokens) /\ schema \in BOOLEAN
  BY EventsTyped, WireTyped DEF Reading, SeenFirst, StreamTyped
<1>4. p \o decoder.pending = Append(p, h) \o t /\ Append(p, h) \in Seq(Events)
  <2> HIDE DEF p
  <2> DEFINE r == decoder.pending
  <2>1. r = <<h>> \o t
    BY <1>1, <1>2
  <2>2. <<h>> \in Seq(Events)
    BY <1>2
  <2>3. Append(p, h) = p \o <<h>>
    BY <1>2, <1>3, AppendIsConcat
  <2> DEFINE one == <<h>>
  <2> HIDE DEF r, h, t, one
  <2>a. p \in Seq(Events) /\ one \in Seq(Events) /\ t \in Seq(Events)
    BY <1>2, <1>3, <2>2 DEF one
  <2>b. (p \o one) \o t = p \o (one \o t)
    BY <2>a, EventsJoin
  <2>4. p \o (<<h>> \o t) = (p \o <<h>>) \o t
    BY <2>b DEF one
  <2>5. Append(p, h) \in Seq(Events)
    BY <1>2, <1>3, AppendProperties
  <2> QED
    BY <2>1, <2>3, <2>4, <2>5 DEF r
<1>5. \E x \in Seq(Events) : W = (p \o decoder.pending) \o x
  <2>1. CASE Closed(n)
    <3>1. W = p \o decoder.pending
      BY <2>1 DEF Closed
    <3>2. p \o decoder.pending \in Seq(Events) /\ <<>> \in Seq(Events)
      BY <1>2, <1>3, ConcatProperties
    <3>3. (p \o decoder.pending) \o <<>> = p \o decoder.pending
      BY <3>2, ConcatEmptySeq
    <3> QED
      BY <3>1, <3>2, <3>3
  <2>2. CASE \E k : Ahead(n, k)
    <3>1. PICK k : Ahead(n, k)
      BY <2>2
    <3>2. k \in 0 .. Len(F) - 1 /\ After(F, k, schema) = With(p, decoder)
      BY <3>1 DEF Ahead
    <3>3. Initial(After(F, k, schema).pending, W)
      BY <1>3, <3>2, WholeIs
    <3> HIDE DEF F, p, W
    <3>4. After(F, k, schema).pending = p \o decoder.pending
      <4>1. With(p, decoder).pending = p \o decoder.pending
        BY <1>2, <1>3, WithIs
      <4> QED
        BY <3>2, <4>1
    <3> QED
      BY <3>3, <3>4 DEF Initial
  <2> QED
    BY <2>1, <2>2 DEF Reading
<1>6. n < Len(W) /\ n + 1 \in 0 .. Len(W) /\ q = Append(p, h) /\ h = W[n + 1]
  <2>1. PICK x \in Seq(Events) : W = (p \o decoder.pending) \o x
    BY <1>5
  <2> DEFINE a == Append(p, h)
             y == t \o x
  <2>0. W \in Seq(Events)
    BY <1>3
  <2> HIDE DEF W, p, h, t
  <2>2. a \in Seq(Events) /\ Len(a) = n + 1 /\ a[n + 1] = h /\ y \in Seq(Events)
    BY <1>2, <1>3, <1>4, <2>1, ConcatProperties
  <2>3. W = a \o y
    <3> HIDE DEF a
    <3>1. a \in Seq(Events) /\ t \in Seq(Events) /\ W = (a \o t) \o x
      BY <1>2, <1>4, <2>1, <2>2 DEF a
    <3>2. (a \o t) \o x = a \o (t \o x)
      BY <3>1, EventsJoin
    <3> QED
      BY <3>1, <3>2
  <2>4. Initial(a, W)
    BY <2>2, <2>3 DEF Initial
  <2> HIDE DEF a, y
  <2>5. Len(a) <= Len(W) /\ SubSeq(W, 1, Len(a)) = a
    BY <1>3, <2>2, <2>4, InitialOf
  <2>6. n < Len(W) /\ n + 1 \in 0 .. Len(W) /\ SubSeq(W, 1, n + 1) = a
    BY <1>3, <2>2, <2>5
  <2>7. W[n + 1] = h
    BY <1>3, <2>2, <2>6
  <2> QED
    BY <2>6, <2>7 DEF FirstEvents, W, a
<1>7. acc' = Accumulated(SubSeq(W, 1, n + 1))
  <2>1. acc = Accumulated(SubSeq(W, 1, n))
    BY DEF Reading, SeenFirst, FirstEvents
  <2> HIDE DEF W, h
  <2>2. Accumulated(SubSeq(W, 1, n + 1)) = Apply(Accumulated(SubSeq(W, 1, n)), W[n + 1])
    BY <1>3, <1>6, AccumulatedNext, SMTT(30)
  <2> QED
    BY <1>1, <1>6, <2>1, <2>2 DEF h
<1>8. SeenFirst(n + 1)'
  BY <1>1, <1>6, <1>7 DEF SeenFirst, FirstEvents
<1>9. decoder' = [decoder EXCEPT !.pending = t] /\ decoder'.pending = t
      /\ decoder'.closed = decoder.closed
  BY <1>1, <1>2 DEF Decoders
<1>10. p \o decoder.pending = q \o decoder'.pending /\ q \in Seq(Events)
  BY <1>4, <1>6, <1>9
<1>11. ASSUME Closed(n) PROVE Closed(n + 1)'
  BY <1>1, <1>9, <1>10, <1>11 DEF Closed, FirstEvents
<1>12. ASSUME NEW k, Ahead(n, k) PROVE Ahead(n + 1, k)'
  <2>1. k \in 0 .. Len(F) - 1 /\ After(F, k, schema) = With(p, decoder)
        /\ FramesOf[ToFrame] = SubSeq(F, k + 1, Len(F))
    BY <1>12 DEF Ahead
  <2> HIDE DEF p, q, t
  <2>2. With(p, decoder) = With(q, decoder')
    <3> DEFINE d == With(p, decoder)
               e == With(q, decoder')
    <3>1. /\ d \in Decoders /\ d.pending = p \o decoder.pending /\ d.tools = decoder.tools
          /\ d.finish = decoder.finish /\ d.closed = decoder.closed
      BY <1>2, <1>3, WithIs
    <3>2. /\ e \in Decoders /\ e.pending = q \o decoder'.pending /\ e.tools = decoder'.tools
          /\ e.finish = decoder'.finish /\ e.closed = decoder'.closed
      BY <1>2, <1>10, WithIs
    <3>3. decoder'.tools = decoder.tools /\ decoder'.finish = decoder.finish
      BY <1>1, <1>2 DEF Decoders
    <3>5. p \o decoder.pending = q \o decoder'.pending /\ decoder'.closed = decoder.closed
      BY <1>9, <1>10
    <3> HIDE DEF d, e
    <3>6. d.pending = e.pending /\ d.tools = e.tools /\ d.finish = e.finish
          /\ d.closed = e.closed
      BY <3>1, <3>2, <3>3, <3>5
    <3>4. d = e
      BY <3>1, <3>2, <3>6, SameDecoder
    <3> QED
      BY <3>4 DEF d, e
  <2>3. FramesOf[ToFrame'] = FramesOf[ToFrame]
    BY <1>1 DEF ToFrame
  <2>4. FirstEvents(n + 1)' = q
    BY <1>1 DEF q, FirstEvents
  <2> QED
    BY <1>1, <2>1, <2>2, <2>3, <2>4 DEF Ahead
<1>13. Reading(n + 1)'
  BY <1>8, <1>11, <1>12 DEF Reading
<1>14. acc'.state = "error" => SeenFirst(Len(W))'
  <2>1. ASSUME acc'.state = "error" PROVE acc' = Accumulated(SubSeq(W, 1, Len(W)))
    <3> HIDE DEF W
    <3> QED
      BY <1>3, <1>6, <1>7, <2>1, FailedStays
  <2>2. Len(W) \in 0 .. Len(W)
    BY <1>3
  <2> QED
    BY <1>1, <2>1, <2>2 DEF SeenFirst, FirstEvents
<1> QED
  BY <1>1, <1>13, <1>14

LEMMA StreamStep ==
    ASSUME ConstantsAssumption, SendInv, StreamTyped, StreamTyped', StreamInv, [Next]_vars,
           pc # "done" => outcome = "none"
    PROVE  StreamInv'
<1>1. CASE Prepare \/ Call \/ StatusError \/ TransportError \/ Wake
  <2>1. pc \in Preparing \cup {"requesting", "waiting"} /\ UNCHANGED wire
    BY <1>1 DEF Prepare, Preparation, Select, Augment, ApplyBudget, OffloadFails, AugmentFails,
       BudgetFails, HookFails, EncodeFails, Fails, Ends, Preparing, Call, Encode, StatusError,
       TransportError, RetryOrFail, Wake, reading
  <2> QED
    BY <2>1 DEF SendInv, Untouched, StreamInv
<1>2. CASE Succeeds
  <2>1. /\ wire' \in Wires /\ pc' = "reading" /\ pc = "requesting"
        /\ UNCHANGED <<mode, schema, arrived, buffer, decoder, acc, outcome>>
    BY <1>2 DEF Succeeds, setting
  <2>2. Untouched /\ outcome' = "none"
    BY <2>1 DEF SendInv
  <2>3. /\ arrived' = 0 /\ buffer' = <<>> /\ decoder' = NewDecoder /\ acc' = NewAccumulator
    BY <2>1, <2>2 DEF Untouched
  <2>4. Reading(0)'
    <3>1. wire' \in Wires /\ schema' \in BOOLEAN
      BY <2>1 DEF StreamTyped
    <3> DEFINE w == wire'
               s == schema'
    <3>2. w \in Wires /\ s \in BOOLEAN
      BY <3>1
    <3> HIDE DEF w, s
    <3>3. /\ 0 \in 0 .. Len(WholeEvents(w, s)) /\ 0 \in 0 .. Len(FramesOf[w]) - 1
          /\ FramesOf[<<>> \o SubSeq(w, 0 + 1, Len(w))]
                = SubSeq(FramesOf[w], 0 + 1, Len(FramesOf[w]))
          /\ After(FramesOf[w], 0, s) = With(SubSeq(WholeEvents(w, s), 1, 0), NewDecoder)
          /\ NewAccumulator = Accumulated(SubSeq(WholeEvents(w, s), 1, 0))
      BY <3>2, ReadingFirst
    <3>4. SeenFirst(0)'
      BY <2>3, <3>3 DEF SeenFirst, FirstEvents, w, s
    <3>5. Ahead(0, 0)'
      BY <2>3, <3>3 DEF Ahead, FirstEvents, ToFrame, w, s
    <3> QED
      BY <3>4, <3>5 DEF Reading
  <2> QED
    BY <2>1, <2>2, <2>4 DEF StreamInv
<1>3. CASE Generated
  <2>1. UNCHANGED mode /\ mode = "generate"
    BY <1>3 DEF Generated, setting
  <2> QED
    BY <2>1 DEF StreamInv
<1>4. CASE Interrupt \/ BodyFails
  <2>1. /\ UNCHANGED <<mode, schema, wire, acc>> /\ pc' = "done" /\ pc # "done"
        /\ outcome' \notin {"response", "error"}
    BY <1>4 DEF Interrupt, BodyFails, Ends, setting, reading
  <2>3. ASSUME mode = "stream", wire # <<>> PROVE \E n : SeenFirst(n)
    <3>1. pc = "reading"
      BY <2>1, <2>3 DEF SendInv, Untouched
    <3> QED
      BY <2>3, <3>1 DEF StreamInv, Reading
  <2>4. \A n : SeenFirst(n)' <=> SeenFirst(n)
    BY <2>1 DEF SeenFirst, FirstEvents
  <2> QED
    BY <2>1, <2>3, <2>4 DEF StreamInv
<1>5. CASE StreamOver
  <2>1. /\ UNCHANGED <<mode, schema, wire, acc>> /\ pc' = "done" /\ pc = "reading"
        /\ decoder.pending = <<>> /\ decoder.closed
    BY <1>5 DEF StreamOver, Drained, Streaming, Ends, setting, reading
  <2>3. ASSUME mode = "stream", wire # <<>> PROVE SeenFirst(Len(WholeEvents(wire, schema)))
    <3>1. PICK n : Reading(n)
      BY <2>1, <2>3 DEF StreamInv
    <3>2. Closed(n) /\ SeenFirst(n)
      BY <2>1, <3>1, AheadClosed DEF Reading
    <3>3. FirstEvents(n) \in Seq(Events) /\ Len(FirstEvents(n)) = n
      BY <3>2, EventsTyped DEF SeenFirst
    <3>4. FirstEvents(n) \o <<>> = FirstEvents(n)
      BY <3>3, ConcatEmptySeq
    <3>5. WholeEvents(wire, schema) = FirstEvents(n)
      BY <2>1, <3>2, <3>4 DEF Closed
    <3> QED
      BY <3>2, <3>3, <3>5
  <2>4. \A n : SeenFirst(n)' <=> SeenFirst(n)
    BY <2>1 DEF SeenFirst, FirstEvents
  <2>5. SeenFirst(Len(WholeEvents(wire, schema)))' <=> SeenFirst(Len(WholeEvents(wire, schema)))
    BY <2>1 DEF SeenFirst, FirstEvents
  <2> QED
    BY <2>1, <2>3, <2>4, <2>5 DEF StreamInv
<1>6. CASE ReceiveChunk \/ TakeFrame \/ EndOfBody
  <2>1. /\ UNCHANGED <<mode, pc, outcome, wire>> /\ pc = "reading"
    BY <1>6 DEF ReceiveChunk, TakeFrame, EndOfBody, NeedsMore, Drained, Streaming, setting
  <2>2. ASSUME NEW n, Reading(n) PROVE Reading(n)'
    BY <1>6, <2>2, ReceiveKeeps, TakeKeeps, EndCloses
  <2>3. outcome' = "none"
    BY <2>1
  <2> QED
    BY <2>1, <2>2, <2>3 DEF StreamInv
<1>7. CASE Deliver
  <2>1. /\ UNCHANGED <<mode, wire>> /\ pc = "reading" /\ mode = "stream"
        /\ \/ acc'.state = "error" /\ pc' = "done" /\ outcome' = "error"
           \/ acc'.state # "error" /\ pc' = pc /\ outcome' = outcome
    BY <1>7 DEF Deliver, Streaming, Ends, setting
  <2>2. CASE wire = <<>>
    BY <2>1, <2>2 DEF StreamInv
  <2>3. CASE wire # <<>>
    <3>1. PICK n : Reading(n)
      BY <2>1, <2>3 DEF StreamInv
    <3>2. Reading(n + 1)' /\ (acc'.state = "error" => SeenFirst(Len(WholeEvents(wire, schema)))')
      BY <1>7, <3>1, DeliverNext
    <3>3. SeenFirst(n + 1)'
      BY <3>2 DEF Reading
    <3>4. pc' = pc => outcome' = "none"
      BY <2>1
    <3> QED
      BY <2>1, <3>2, <3>3, <3>4 DEF StreamInv
  <2> QED
    BY <2>2, <2>3
<1>8. CASE UNCHANGED vars
  BY <1>8 DEF vars, setting, reading, StreamInv, Reading, SeenFirst, FirstEvents, Ahead, Closed,
     ToFrame
<1> QED
  BY <1>1, <1>2, <1>3, <1>4, <1>5, <1>6, <1>7, <1>8 DEF Next, Send, Read

-----------------------------------------------------------------------------
(* System messages.                                                         *)

Keeping ==
    [x \in Seq(MessageType) \X MessageType |->
        IF x[2].kind = "system" THEN Append(x[1], x[2]) ELSE x[1]]

LEMMA KeepingTyped ==
    /\ Keeping \in [Seq(MessageType) \X MessageType -> Seq(MessageType)]
    /\ \A q \in Seq(MessageType), m \in MessageType :
          Keeping[<<q, m>>] = IF m.kind = "system" THEN Append(q, m) ELSE q
<1>1. \A x \in Seq(MessageType) \X MessageType : x[1] \in Seq(MessageType) /\ x[2] \in MessageType
  OBVIOUS
<1>2. \A x \in Seq(MessageType) \X MessageType : Append(x[1], x[2]) \in Seq(MessageType)
  BY <1>1, AppendProperties
<1> QED
  BY <1>1, <1>2 DEF Keeping

LEMMA SystemIs ==
    ASSUME NEW h \in Seq(MessageType)
    PROVE  SystemOf(h) = Iterated(<<>>, Keeping, h)
<1> DEFINE n == Len(h)
           Kept(q, m) == IF m.kind = "system" THEN Append(q, m) ELSE q
           Keeps(f) == f = [s \in SUBSET (1 .. n) |->
                              IF s = {} THEN <<>> ELSE Kept(f[s \ {Max(s)}], h[Max(s)])]
           f == CHOOSE f : Keeps(f)
<1>1. /\ n \in Nat /\ Len(h) = n /\ DOMAIN h = 1 .. n
      /\ \A i \in 1 .. n : h[i] \in MessageType
  OBVIOUS
<1>2. SystemOf(h) = f[1 .. n]
  BY <1>1 DEF SystemOf, FoldLeft, MapThenFoldSet
<1> HIDE DEF n
<1>3. PICK g : Iteration(g, <<>>, Keeping, h, n) /\ Iterated(<<>>, Keeping, h) = g[1 .. n]
  BY <1>1, IterationChosen
<1>0. <<>> \in Seq(MessageType)
  OBVIOUS
<1>4. \A s \in SUBSET (1 .. n) : g[s] \in Seq(MessageType)
  BY <1>0, <1>1, <1>3, IterationTyped, KeepingTyped
<1>5. ASSUME NEW s \in SUBSET (1 .. n), s # {}
      PROVE  g[s] = Kept(g[s \ {Max(s)}], h[Max(s)])
  <2>1. Max(s) \in 1 .. n
    BY <1>1, <1>5, MaxInside
  <2>2. g[s] = Keeping[<<g[s \ {Max(s)}], h[Max(s)]>>]
    BY <1>3, <1>5 DEF Iteration
  <2>3. s \ {Max(s)} \in SUBSET (1 .. n)
    OBVIOUS
  <2>4. g[s \ {Max(s)}] \in Seq(MessageType) /\ h[Max(s)] \in MessageType
    BY <1>1, <1>4, <2>1, <2>3
  <2> QED
    BY <2>2, <2>4, KeepingTyped
<1>6. g[{}] = <<>> /\ g = [s \in SUBSET (1 .. n) |-> g[s]]
  BY <1>3 DEF Iteration
<1> HIDE DEF Kept
<1>7. Keeps(g)
  <2>1. ASSUME NEW s \in SUBSET (1 .. n)
        PROVE  g[s] = IF s = {} THEN <<>> ELSE Kept(g[s \ {Max(s)}], h[Max(s)])
    BY <1>5, <1>6, Zenon
  <2> QED
    BY <1>6, <2>1
<1>8. Keeps(f)
  <2> HIDE DEF Keeps
  <2> QED
    BY <1>7
<1>9. g[1 .. n] = f[1 .. n]
  <2>1. g[{}] = f[{}]
    BY <1>6, <1>8
  <2>2. ASSUME NEW s \in SUBSET (1 .. n), s # {}, g[s \ {Max(s)}] = f[s \ {Max(s)}]
        PROVE  g[s] = f[s]
    <3>1. f[s] = Kept(f[s \ {Max(s)}], h[Max(s)])
      BY <1>8, <2>2
    <3>2. g[s] = Kept(g[s \ {Max(s)}], h[Max(s)])
      BY <1>5, <2>2
    <3> QED
      BY <2>2, <3>1, <3>2
  <2> HIDE DEF Keeps, f
  <2> QED
    BY <1>1, <2>1, <2>2, SameIteration
<1> QED
  BY <1>2, <1>3, <1>9

LEMMA SystemStep ==
    /\ SystemOf(<<>>) = <<>>
    /\ \A h \in Seq(MessageType), m \in MessageType :
          /\ SystemOf(h) \in Seq(MessageType)
          /\ SystemOf(Append(h, m)) = IF m.kind = "system" THEN Append(SystemOf(h), m)
                                                           ELSE SystemOf(h)
<1>0. <<>> \in Seq(MessageType)
  OBVIOUS
<1>1. ASSUME NEW h \in Seq(MessageType), NEW m \in MessageType
      PROVE  /\ SystemOf(<<>>) = <<>> /\ SystemOf(h) \in Seq(MessageType)
             /\ SystemOf(Append(h, m)) = IF m.kind = "system" THEN Append(SystemOf(h), m)
                                                              ELSE SystemOf(h)
  <2>1. Append(h, m) \in Seq(MessageType)
    BY AppendProperties
  <2>2. /\ SystemOf(<<>>) = Iterated(<<>>, Keeping, <<>>)
        /\ SystemOf(h) = Iterated(<<>>, Keeping, h)
        /\ SystemOf(Append(h, m)) = Iterated(<<>>, Keeping, Append(h, m))
    BY <1>0, <2>1, SystemIs
  <2>3. Iterated(<<>>, Keeping, h) \in Seq(MessageType)
    BY <1>0, KeepingTyped, IteratedTyped, Zenon
  <2>4. /\ Iterated(<<>>, Keeping, <<>>) = <<>>
        /\ Iterated(<<>>, Keeping, Append(h, m)) = Keeping[<<Iterated(<<>>, Keeping, h), m>>]
    BY IteratedAppend
  <2> HIDE DEF Iterated
  <2> QED
    BY <2>2, <2>3, <2>4, KeepingTyped
<1>2. [kind |-> "user", id |-> 0, size |-> 0] \in MessageType
  BY DEF MessageType
<1> QED
  BY <1>0, <1>1, <1>2

\* What holds of no message, and of one more when it holds of some, holds of
\* all conversations.
LEMMA MessageInduct ==
    ASSUME NEW T, T \subseteq Seq(MessageType), <<>> \in T,
           \A h \in T, m \in MessageType : Append(h, m) \in T
    PROVE  T = Seq(MessageType)
<1> DEFINE L == {k \in Nat : \A h \in Seq(MessageType) : Len(h) = k => h \in T}
<1>1. 0 \in L
  <2>1. \A h \in Seq(MessageType) : Len(h) = 0 => h = <<>>
    OBVIOUS
  <2> QED
    BY <2>1
<1>2. ASSUME NEW k \in L PROVE k + 1 \in L
  <2>1. ASSUME NEW h \in Seq(MessageType), Len(h) = k + 1 PROVE h \in T
    <3>1. h # <<>>
      BY <2>1
    <3>2. PICK r \in Seq(MessageType), m \in MessageType : h = Append(r, m)
      BY <3>1, SequenceEmptyOrAppend
    <3>3. Len(r) = k
      BY <2>1, <3>2
    <3> QED
      BY <3>2, <3>3
  <2> QED
    BY <2>1
<1>3. L = Nat
  <2>1. L \subseteq Nat
    OBVIOUS
  <2> HIDE DEF L
  <2> QED
    BY <1>1, <1>2, <2>1, Induct
<1>4. ASSUME NEW h \in Seq(MessageType) PROVE h \in T
  <2>1. Len(h) \in Nat
    OBVIOUS
  <2>2. Len(h) \in L
    <3> HIDE DEF L
    <3> QED
      BY <1>3, <2>1
  <2> QED
    BY <2>2
<1> QED
  BY <1>4

AllSystem(h) == \A i \in 1 .. Len(h) : h[i].kind = "system"

\* System messages are kept, and nothing else, wherever they are.
LEMMA SystemAll ==
    ASSUME NEW h \in Seq(MessageType)
    PROVE  /\ SystemOf(h) \in Seq(MessageType) /\ AllSystem(SystemOf(h))
           /\ AllSystem(h) => SystemOf(h) = h
<1> DEFINE Good(q) == /\ SystemOf(q) \in Seq(MessageType) /\ AllSystem(SystemOf(q))
                      /\ AllSystem(q) => SystemOf(q) = q
           T == {q \in Seq(MessageType) : Good(q)}
<1>1. <<>> \in T
  <2>1. <<>> \in Seq(MessageType) /\ Len(<<>>) = 0 /\ 1 .. 0 = {}
    OBVIOUS
  <2>2. SystemOf(<<>>) = <<>>
    BY SystemStep
  <2>3. AllSystem(<<>>)
    BY <2>1 DEF AllSystem
  <2> QED
    BY <2>1, <2>2, <2>3
<1>2. ASSUME NEW q \in T, NEW m \in MessageType PROVE Append(q, m) \in T
  <2> DEFINE r == Append(q, m)
             p == SystemOf(q)
  <2>1. /\ q \in Seq(MessageType) /\ p \in Seq(MessageType) /\ AllSystem(p)
        /\ AllSystem(q) => p = q
    OBVIOUS
  <2>2. /\ r \in Seq(MessageType) /\ Len(r) = Len(q) + 1 /\ r[Len(q) + 1] = m
        /\ \A i \in 1 .. Len(q) : r[i] = q[i] /\ i \in 1 .. Len(r)
    BY <2>1
  <2>3. SystemOf(r) = IF m.kind = "system" THEN Append(p, m) ELSE p
    BY <2>1, SystemStep
  <2> HIDE DEF p, T
  <2>4. SystemOf(r) \in Seq(MessageType) /\ AllSystem(SystemOf(r))
    <3>1. CASE m.kind = "system"
      <4>1. Append(p, m) \in Seq(MessageType) /\ AllSystem(Append(p, m))
        BY <2>1, <3>1 DEF AllSystem
      <4> QED
        BY <2>3, <3>1, <4>1
    <3>2. CASE m.kind # "system"
      BY <2>1, <2>3, <3>2
    <3> QED
      BY <3>1, <3>2
  <2>5. ASSUME AllSystem(r) PROVE SystemOf(r) = r
    <3>1. AllSystem(q)
      BY <2>2, <2>5 DEF AllSystem
    <3>2. m.kind = "system"
      <4>1. Len(q) + 1 \in 1 .. Len(r)
        BY <2>1, <2>2
      <4> QED
        BY <2>2, <2>5, <4>1 DEF AllSystem
    <3> QED
      BY <2>1, <2>3, <3>1, <3>2
  <2> HIDE DEF r
  <2> QED
    BY <2>2, <2>4, <2>5 DEF T, r
<1>3. T = Seq(MessageType)
  <2>1. T \subseteq Seq(MessageType)
    OBVIOUS
  <2> HIDE DEF T
  <2> QED
    BY <1>1, <1>2, <2>1, MessageInduct
<1>4. h \in T
  <2> HIDE DEF T
  <2> QED
    BY <1>3
<1> QED
  BY <1>4

LEMMA MessagesJoin ==
    ASSUME NEW p \in Seq(MessageType), NEW q \in Seq(MessageType), NEW r \in Seq(MessageType)
    PROVE  /\ (p \o q) \o r = p \o (q \o r) /\ q \o r \in Seq(MessageType)
           /\ p \o <<>> = p /\ <<>> \o p = p
BY ConcatAssociative, ConcatProperties, ConcatEmptySeq

LEMMA MessageAppend ==
    ASSUME NEW p \in Seq(MessageType), NEW q \in Seq(MessageType), NEW m \in MessageType
    PROVE  /\ Append(p \o q, m) = p \o Append(q, m)
           /\ p \o q \in Seq(MessageType) /\ Append(q, m) \in Seq(MessageType)
<1>1. Append(q, m) = q \o <<m>> /\ <<m>> \in Seq(MessageType)
  BY AppendIsConcat
<1>2. p \o q \in Seq(MessageType) /\ Append(q, m) \in Seq(MessageType)
  BY ConcatProperties, AppendProperties
<1>3. Append(p \o q, m) = (p \o q) \o <<m>>
  BY <1>2, AppendIsConcat
<1>4. (p \o q) \o <<m>> = p \o (q \o <<m>>)
  BY <1>1, MessagesJoin
<1> QED
  BY <1>1, <1>2, <1>3, <1>4

LEMMA SystemJoin ==
    ASSUME NEW a \in Seq(MessageType), NEW b \in Seq(MessageType)
    PROVE  SystemOf(a \o b) = SystemOf(a) \o SystemOf(b)
<1> DEFINE T == {q \in Seq(MessageType) : SystemOf(a \o q) = SystemOf(a) \o SystemOf(q)}
<1>0. SystemOf(a) \in Seq(MessageType)
  BY SystemAll
<1>1. <<>> \in T
  <2>1. a \o <<>> = a /\ SystemOf(a) \o <<>> = SystemOf(a) /\ <<>> \in Seq(MessageType)
    BY <1>0, MessagesJoin
  <2> QED
    BY <2>1, SystemStep
<1>2. ASSUME NEW q \in T, NEW m \in MessageType PROVE Append(q, m) \in T
  <2> DEFINE sa == SystemOf(a)
             sq == SystemOf(q)
  <2>1. /\ q \in Seq(MessageType) /\ SystemOf(a \o q) = sa \o sq /\ sa \in Seq(MessageType)
        /\ sq \in Seq(MessageType)
    BY <1>0, SystemAll
  <2>2. /\ a \o Append(q, m) = Append(a \o q, m) /\ a \o q \in Seq(MessageType)
        /\ Append(q, m) \in Seq(MessageType)
    BY <2>1, MessageAppend
  <2>3. sa \o Append(sq, m) = Append(sa \o sq, m)
    BY <2>1, MessageAppend, SMTT(30)
  <2>4. SystemOf(Append(q, m)) = IF m.kind = "system" THEN Append(sq, m) ELSE sq
    BY <2>1, SystemStep
  <2>5. SystemOf(Append(a \o q, m)) = IF m.kind = "system" THEN Append(SystemOf(a \o q), m)
                                                          ELSE SystemOf(a \o q)
    BY <2>2, SystemStep
  <2> HIDE DEF sa, sq
  <2>6. SystemOf(a \o Append(q, m)) = sa \o SystemOf(Append(q, m))
    BY <2>1, <2>2, <2>3, <2>4, <2>5
  <2> QED
    BY <2>2, <2>6 DEF sa
<1>3. T = Seq(MessageType)
  <2>1. T \subseteq Seq(MessageType)
    OBVIOUS
  <2> HIDE DEF T
  <2> QED
    BY <1>1, <1>2, <2>1, MessageInduct
<1>4. b \in T
  <2> HIDE DEF T
  <2> QED
    BY <1>3
<1> QED
  BY <1>4
-----------------------------------------------------------------------------
(* Long results stored elsewhere change nothing of where a conversation is   *)
(* cut.                                                                      *)

LEMMA OffloadedTyped ==
    ASSUME RequestAssumption, NEW h \in Seq(MessageType)
    PROVE  /\ Offloaded(h) \in Seq(MessageType) /\ Len(Offloaded(h)) = Len(h)
           /\ \A i \in 1 .. Len(h) : /\ h[i] \in MessageType /\ Offloaded(h)[i] \in MessageType
                                     /\ Offloaded(h)[i].kind = h[i].kind
                                     /\ Offloaded(h)[i].id = h[i].id
                                     /\ h[i].kind # "results" => Offloaded(h)[i] = h[i]
<1> DEFINE f(m) == IF Long(m) THEN [m EXCEPT !.size = Reference] ELSE m
<1>1. ASSUME NEW m \in MessageType
      PROVE  /\ f(m) \in MessageType /\ f(m).kind = m.kind /\ f(m).id = m.id
             /\ m.kind # "results" => f(m) = m
  BY DEF RequestAssumption, MessageType, Long
<1>2. /\ Len(h) \in Nat /\ DOMAIN h = 1 .. Len(h) /\ \A i \in 1 .. Len(h) : h[i] \in MessageType
  OBVIOUS
<1>3. Offloaded(h) = [i \in 1 .. Len(h) |-> f(h[i])]
  BY <1>2 DEF Offloaded
<1> HIDE DEF f
<1>4. [i \in 1 .. Len(h) |-> f(h[i])] \in Seq(MessageType)
  BY <1>1, <1>2
<1>5. /\ Len(Offloaded(h)) = Len(h)
      /\ \A i \in 1 .. Len(h) : Offloaded(h)[i] = f(h[i])
  BY <1>2, <1>3
<1> QED
  BY <1>1, <1>2, <1>3, <1>4, <1>5

LEMMA OffloadedJoin ==
    ASSUME NEW a \in Seq(MessageType), NEW b \in Seq(MessageType)
    PROVE  Offloaded(a \o b) = Offloaded(a) \o Offloaded(b)
<1> DEFINE f(m) == IF Long(m) THEN [m EXCEPT !.size = Reference] ELSE m
<1>1. \A h \in Seq(MessageType) : Offloaded(h) = [i \in 1 .. Len(h) |-> f(h[i])]
  BY DEF Offloaded
<1>2. a \o b \in Seq(MessageType) /\ Len(a \o b) = Len(a) + Len(b)
      /\ Len(a) \in Nat /\ Len(b) \in Nat
  BY ConcatProperties
<1> HIDE DEF f
<1> DEFINE x == [i \in 1 .. Len(a) |-> f(a[i])]
           y == [i \in 1 .. Len(b) |-> f(b[i])]
           z == [i \in 1 .. Len(a) + Len(b) |-> f((a \o b)[i])]
<1>3. z = x \o y
  OBVIOUS
<1> QED
  BY <1>1, <1>2, <1>3

LEMMA OffloadedPart ==
    ASSUME NEW h \in Seq(MessageType), NEW m \in Nat, NEW n \in Nat, m >= 1, n <= Len(h)
    PROVE  Offloaded(SubSeq(h, m, n)) = SubSeq(Offloaded(h), m, n)
<1> DEFINE f(e) == IF Long(e) THEN [e EXCEPT !.size = Reference] ELSE e
           k == IF m <= n THEN n - m + 1 ELSE 0
           p == SubSeq(h, m, n)
           o == [i \in 1 .. Len(h) |-> f(h[i])]
<1>1. \A q : Offloaded(q) = [i \in DOMAIN q |-> f(q[i])]
  BY DEF Offloaded
<1>2. Len(h) \in Nat /\ DOMAIN h = 1 .. Len(h) /\ k \in Nat
  OBVIOUS
<1> HIDE DEF f
<1>3. /\ DOMAIN p = 1 .. k
      /\ \A i \in 1 .. k : p[i] = h[m + i - 1] /\ m + i - 1 \in 1 .. Len(h)
  <2>1. p = [i \in 1 .. (n - m + 1) |-> h[m + i - 1]]
    BY <1>2
  <2>2. 1 .. (n - m + 1) = 1 .. k
    BY <1>2
  <2> QED
    BY <1>2, <2>1, <2>2
<1>4. SubSeq(o, m, n) = [i \in 1 .. k |-> o[m + i - 1]]
  <2>1. 1 .. (n - m + 1) = 1 .. k
    BY <1>2
  <2> HIDE DEF k, o
  <2>2. SubSeq(o, m, n) = [i \in 1 .. (n - m + 1) |-> o[m + i - 1]]
    OBVIOUS
  <2> QED
    BY <2>1, <2>2
<1>5. Offloaded(p) = [i \in 1 .. k |-> f(p[i])] /\ Offloaded(h) = o
  BY <1>1, <1>2, <1>3
<1>6. \A i \in 1 .. k : o[m + i - 1] = f(p[i])
  BY <1>3
<1> QED
  BY <1>4, <1>5, <1>6

LEMMA OffloadedSystem ==
    ASSUME RequestAssumption, NEW h \in Seq(MessageType)
    PROVE  SystemOf(Offloaded(h)) = SystemOf(h) /\ Offloaded(SystemOf(h)) = SystemOf(h)
<1> DEFINE T == {q \in Seq(MessageType) : SystemOf(Offloaded(q)) = SystemOf(q)}
<1>1. <<>> \in T
  <2>1. Offloaded(<<>>) = <<>> /\ <<>> \in Seq(MessageType)
    BY DEF Offloaded
  <2> QED
    BY <2>1
<1>2. ASSUME NEW q \in T, NEW m \in MessageType PROVE Append(q, m) \in T
  <2> DEFINE o == Offloaded(<<m>>)
  <2>1. q \in Seq(MessageType) /\ <<m>> \in Seq(MessageType) /\ SystemOf(Offloaded(q)) = SystemOf(q)
        /\ Append(q, m) = q \o <<m>> /\ Append(q, m) \in Seq(MessageType)
    BY AppendIsConcat, AppendProperties
  <2>2. Offloaded(q) \in Seq(MessageType) /\ o \in Seq(MessageType) /\ Len(o) = 1
        /\ o[1] \in MessageType /\ o[1].kind = m.kind /\ (m.kind # "results" => o[1] = m)
    <3> DEFINE x == <<m>>
    <3>1. x \in Seq(MessageType) /\ Len(x) = 1 /\ x[1] = m /\ 1 \in 1 .. Len(x)
      BY <2>1
    <3> HIDE DEF x
    <3>2. /\ Offloaded(x) \in Seq(MessageType) /\ Len(Offloaded(x)) = Len(x)
          /\ Offloaded(x)[1] \in MessageType /\ Offloaded(x)[1].kind = x[1].kind
          /\ x[1].kind # "results" => Offloaded(x)[1] = x[1]
      BY <3>1, OffloadedTyped
    <3>3. Offloaded(q) \in Seq(MessageType)
      BY <2>1, OffloadedTyped
    <3> QED
      BY <3>1, <3>2, <3>3 DEF x
  <2>3. Offloaded(q \o <<m>>) = Offloaded(q) \o o
    BY <2>1, OffloadedJoin
  <2> HIDE DEF o, T
  <2> DEFINE e == o[1]
             p == Offloaded(q)
  <2>4. o = <<e>> /\ e \in MessageType
    BY <2>2
  <2>5. p \o <<e>> = Append(p, e)
    BY <2>2, <2>4, AppendIsConcat
  <2>6. SystemOf(Append(p, e)) = IF e.kind = "system" THEN Append(SystemOf(p), e)
                                                       ELSE SystemOf(p)
    BY <2>2, <2>4, SystemStep
  <2>7. SystemOf(Append(q, m)) = IF m.kind = "system" THEN Append(SystemOf(q), m)
                                                       ELSE SystemOf(q)
    BY <2>1, SystemStep
  <2>8. e.kind = m.kind /\ (m.kind = "system" => e = m) /\ SystemOf(p) = SystemOf(q)
    BY <2>1, <2>2
  <2>9. Offloaded(Append(q, m)) = Append(p, e)
    BY <2>1, <2>3, <2>4, <2>5
  <2> HIDE DEF e, p
  <2>10. SystemOf(Offloaded(Append(q, m))) = SystemOf(Append(q, m))
    BY <2>6, <2>7, <2>8, <2>9
  <2> QED
    BY <2>1, <2>10 DEF T
<1>3. T = Seq(MessageType)
  <2>1. T \subseteq Seq(MessageType)
    OBVIOUS
  <2> HIDE DEF T
  <2> QED
    BY <1>1, <1>2, <2>1, MessageInduct
<1>4. h \in T
  <2> HIDE DEF T
  <2> QED
    BY <1>3
<1>5. Offloaded(SystemOf(h)) = SystemOf(h)
  <2> DEFINE s == SystemOf(h)
  <2>1. s \in Seq(MessageType) /\ AllSystem(s)
    BY SystemAll
  <2> HIDE DEF s
  <2>2. Offloaded(s) \in Seq(MessageType) /\ Len(Offloaded(s)) = Len(s)
    BY <2>1, OffloadedTyped
  <2>3. \A i \in 1 .. Len(s) : Offloaded(s)[i] = s[i]
    BY <2>1, OffloadedTyped DEF AllSystem
  <2>4. Offloaded(s) = s
    BY <2>1, <2>2, <2>3
  <2> QED
    BY <2>4 DEF s
<1> QED
  BY <1>4, <1>5

\* What is kept of a conversation from a message on.
LEMMA FromTyped ==
    ASSUME NEW h \in Seq(MessageType), NEW c \in Nat, 1 <= c, c <= Len(h) + 1
    PROVE  /\ SubSeq(h, 1, c - 1) \in Seq(MessageType) /\ SubSeq(h, c, Len(h)) \in Seq(MessageType)
           /\ SystemOf(SubSeq(h, 1, c - 1)) \in Seq(MessageType)
           /\ Len(SubSeq(h, 1, c - 1)) = c - 1
           /\ From(h, c) \in Seq(MessageType)
           /\ c = 1 => From(h, c) = h
<1>1. SubSeq(h, 1, c - 1) \in Seq(MessageType) /\ SubSeq(h, c, Len(h)) \in Seq(MessageType)
      /\ Len(SubSeq(h, 1, c - 1)) = c - 1
  <2>1. Len(h) \in Nat /\ \A i \in 1 .. Len(h) : h[i] \in MessageType
    OBVIOUS
  <2>2. (\A i \in 1 .. c - 1 : h[i] \in MessageType) /\ \A i \in c .. Len(h) : h[i] \in MessageType
    BY <2>1
  <2>3. c - 1 \in Int /\ 1 \in Int /\ c \in Int /\ Len(h) \in Int
    BY <2>1
  <2>4. /\ SubSeq(h, 1, c - 1) \in Seq(MessageType)
        /\ Len(SubSeq(h, 1, c - 1)) = IF 1 <= c - 1 THEN c - 1 - 1 + 1 ELSE 0
    BY <2>2, <2>3, SubSeqProperties
  <2>5. SubSeq(h, c, Len(h)) \in Seq(MessageType)
    BY <2>2, <2>3, SubSeqProperties
  <2> QED
    BY <2>4, <2>5
<1>2. SystemOf(SubSeq(h, 1, c - 1)) \in Seq(MessageType)
  BY <1>1, SystemAll
<1>3. From(h, c) \in Seq(MessageType)
  BY <1>1, <1>2, ConcatProperties DEF From
<1>4. ASSUME c = 1 PROVE From(h, c) = h
  <2>1. SubSeq(h, 1, 0) = <<>>
    BY SubSeqEmpty
  <2>2. SubSeq(h, 1, Len(h)) = h /\ <<>> \o h = h
    BY SubSeqFull, ConcatEmptySeq
  <2>3. SystemOf(<<>>) = <<>>
    BY SystemStep
  <2>4. From(h, 1) = SystemOf(SubSeq(h, 1, 0)) \o SubSeq(h, 1, Len(h))
    BY DEF From
  <2> QED
    BY <1>4, <2>1, <2>2, <2>3, <2>4
<1> QED
  BY <1>1, <1>2, <1>3, <1>4

LEMMA OffloadedFrom ==
    ASSUME RequestAssumption, NEW h \in Seq(MessageType), NEW c \in Nat, 1 <= c, c <= Len(h) + 1
    PROVE  Offloaded(From(h, c)) = From(Offloaded(h), c)
<1> DEFINE a == SubSeq(h, 1, c - 1)
           b == SubSeq(h, c, Len(h))
           o == Offloaded(h)
<1>1. a \in Seq(MessageType) /\ b \in Seq(MessageType) /\ SystemOf(a) \in Seq(MessageType)
  BY FromTyped
<1>2. o \in Seq(MessageType) /\ Len(o) = Len(h) /\ Len(h) \in Nat
  BY OffloadedTyped
<1>3. Offloaded(a) = SubSeq(o, 1, c - 1) /\ Offloaded(b) = SubSeq(o, c, Len(o))
  <2>1. c - 1 \in Nat /\ c - 1 <= Len(h) /\ 1 \in Nat /\ Len(h) <= Len(h)
    BY <1>2
  <2> DEFINE d == c - 1
  <2>2. d \in Nat /\ d <= Len(h) /\ 1 <= 1
    BY <2>1
  <2> HIDE DEF d
  <2>3. Offloaded(SubSeq(h, 1, d)) = SubSeq(Offloaded(h), 1, d)
    BY <2>1, <2>2, OffloadedPart
  <2>4. Offloaded(SubSeq(h, c, Len(h))) = SubSeq(Offloaded(h), c, Len(h))
    BY <1>2, <2>1, OffloadedPart
  <2> QED
    BY <1>2, <2>3, <2>4 DEF d
<1>4. From(h, c) = SystemOf(a) \o b /\ From(o, c) = SystemOf(Offloaded(a)) \o Offloaded(b)
  BY <1>3 DEF From
<1> HIDE DEF a, b, o
<1>5. Offloaded(SystemOf(a) \o b) = Offloaded(SystemOf(a)) \o Offloaded(b)
  BY <1>1, OffloadedJoin
<1>6. SystemOf(Offloaded(a)) = SystemOf(a) /\ Offloaded(SystemOf(a)) = SystemOf(a)
  BY <1>1, OffloadedSystem
<1>7. Offloaded(From(h, c)) = From(o, c)
  BY <1>4, <1>5, <1>6
<1> QED
  BY <1>7 DEF o
-----------------------------------------------------------------------------
(* The cut of RecentTurns.                                                  *)

LEMMA UsersTyped ==
    ASSUME NEW h \in Seq(MessageType), NEW n \in Nat
    PROVE  /\ Len(h) \in Nat /\ DOMAIN h = 1 .. Len(h)
           /\ Users(h) \subseteq 1 .. Len(h) /\ IsFiniteSet(Users(h))
           /\ Cardinality(Users(h)) \in Nat
           /\ TurnsFrom(h, n) \in Nat /\ TurnsFrom(h, n) <= Cardinality(Users(h))
<1>1. Len(h) \in Nat /\ DOMAIN h = 1 .. Len(h)
  OBVIOUS
<1>2. Users(h) \subseteq 1 .. Len(h)
  BY <1>1 DEF Users
<1>3. IsFiniteSet(1 .. Len(h))
  BY <1>1, FS_Interval
<1>4. IsFiniteSet(Users(h)) /\ Cardinality(Users(h)) \in Nat
  BY <1>2, <1>3, FS_Subset, FS_CardinalityType
<1> DEFINE T == {u \in Users(h) : u >= n}
<1>5. T \in SUBSET Users(h) /\ TurnsFrom(h, n) = Cardinality(T)
  BY DEF TurnsFrom
<1> HIDE DEF T
<1>6. IsFiniteSet(T) /\ Cardinality(T) <= Cardinality(Users(h))
  BY <1>4, <1>5, FS_Subset
<1>7. Cardinality(T) \in Nat
  BY <1>6, FS_CardinalityType
<1> QED
  BY <1>1, <1>2, <1>4, <1>5, <1>6, <1>7

\* A turn that begins earlier has more turns from it on.
LEMMA TurnsBefore ==
    ASSUME NEW h \in Seq(MessageType), NEW u \in Users(h), NEW n \in Nat, u < n
    PROVE  TurnsFrom(h, u) > TurnsFrom(h, n)
<1> DEFINE T == {v \in Users(h) : v >= n}
           U == {v \in Users(h) : v >= u}
<1>1. Users(h) \subseteq 1 .. Len(h) /\ IsFiniteSet(Users(h)) /\ Len(h) \in Nat
  BY UsersTyped
<1>2. \A v \in Users(h) : v >= n => v >= u
  BY <1>1
<1>3. u \in U /\ u \notin T
  BY <1>1
<1>4. T \in SUBSET U /\ U \in SUBSET Users(h) /\ T # U
  BY <1>2, <1>3
<1>5. TurnsFrom(h, u) = Cardinality(U) /\ TurnsFrom(h, n) = Cardinality(T)
  BY DEF TurnsFrom
<1> HIDE DEF T, U
<1>6. IsFiniteSet(U)
  BY <1>1, <1>4, FS_Subset
<1>7. IsFiniteSet(T) /\ Cardinality(T) <= Cardinality(U) /\ Cardinality(T) # Cardinality(U)
  BY <1>4, <1>6, FS_Subset
<1>8. Cardinality(T) \in Nat /\ Cardinality(U) \in Nat
  BY <1>6, <1>7, FS_CardinalityType
<1> QED
  BY <1>5, <1>7, <1>8

\* Going back by one message adds at most that message to the turns.
LEMMA TurnsBack ==
    ASSUME NEW h \in Seq(MessageType), NEW n \in Nat
    PROVE  TurnsFrom(h, n) = IF n \in Users(h) THEN TurnsFrom(h, n + 1) + 1
                                               ELSE TurnsFrom(h, n + 1)
<1> DEFINE here == {v \in Users(h) : v >= n + 1}
           more == {v \in Users(h) : v >= n}
<1>1. Users(h) \subseteq Nat /\ IsFiniteSet(Users(h))
  BY UsersTyped
<1>2. TurnsFrom(h, n) = Cardinality(more) /\ TurnsFrom(h, n + 1) = Cardinality(here)
  BY DEF TurnsFrom
<1>3. IsFiniteSet(here) /\ n \notin here
  <2>1. here \in SUBSET Users(h)
    OBVIOUS
  <2> HIDE DEF here
  <2>2. IsFiniteSet(here)
    BY <1>1, <2>1, FS_Subset
  <2> QED
    BY <2>2 DEF here
<1>4. CASE n \in Users(h)
  <2>1. \A v \in Users(h) : v >= n <=> v >= n + 1 \/ v = n
    BY <1>1
  <2>2. more = here \cup {n}
    BY <1>4, <2>1
  <2> HIDE DEF here, more
  <2> QED
    BY <1>2, <1>3, <1>4, <2>2, FS_AddElement
<1>5. CASE n \notin Users(h)
  <2>1. \A v \in Users(h) : v >= n <=> v >= n + 1
    BY <1>1, <1>5
  <2>2. more = here
    BY <2>1
  <2> QED
    BY <1>2, <1>5, <2>2
<1> QED
  BY <1>4, <1>5

\* With more users than turns to keep, the last turns begin with one of them.
LEMMA RecentUser ==
    ASSUME NEW h \in Seq(MessageType), NEW k \in Nat \ {0}, k < Cardinality(Users(h))
    PROVE  \E u \in Users(h) : TurnsFrom(h, u) = k
<1> DEFINE few == {n \in Nat : TurnsFrom(h, n) <= k}
<1>1. Users(h) \subseteq 1 .. Len(h) /\ Len(h) \in Nat /\ Cardinality(Users(h)) \in Nat
  BY UsersTyped
<1>2. Len(h) + 1 \in few
  <2>1. {u \in Users(h) : u >= Len(h) + 1} = {}
    BY <1>1
  <2>2. TurnsFrom(h, Len(h) + 1) = 0
    BY <2>1, FS_EmptySet DEF TurnsFrom
  <2> QED
    BY <1>1, <2>2
<1>3. Min(few) \in few /\ \A j \in few : Min(few) <= j
  <2>1. few \subseteq Nat
    OBVIOUS
  <2> HIDE DEF few
  <2> QED
    BY <1>2, <2>1, LeastOf
<1> DEFINE n == Min(few)
<1>4. n \in Nat /\ TurnsFrom(h, n) <= k /\ \A j \in few : n <= j
  BY <1>3
<1> HIDE DEF n
<1>5. n # 0
  <2>1. SUFFICES ASSUME n = 0 PROVE FALSE
    OBVIOUS
  <2>2. {u \in Users(h) : u >= 0} = Users(h)
    BY <1>1
  <2>3. TurnsFrom(h, 0) = Cardinality(Users(h))
    BY <2>2 DEF TurnsFrom
  <2> QED
    BY <1>1, <1>4, <2>1, <2>3
<1> DEFINE u == n - 1
<1>6. u \in Nat /\ u + 1 = n
  BY <1>4, <1>5
<1>7. u \notin few
  BY <1>4, <1>6
<1> HIDE DEF u
<1>8. TurnsFrom(h, u) \in Nat /\ TurnsFrom(h, n) \in Nat
  BY <1>4, <1>6, UsersTyped
<1>9. TurnsFrom(h, u) > k
  BY <1>6, <1>7, <1>8
<1>10. TurnsFrom(h, u) = IF u \in Users(h) THEN TurnsFrom(h, n) + 1 ELSE TurnsFrom(h, n)
  BY <1>6, TurnsBack
<1>11. TurnsFrom(h, n) = k
  BY <1>4, <1>8, <1>9, <1>10

\* The first user at n or after it.
<1> DEFINE T == {v \in Users(h) : v >= n}
           w == Min(T)
<1>12. T # {} /\ T \subseteq Nat
  <2>1. Cardinality(T) = k
    BY <1>11 DEF TurnsFrom
  <2>2. T # {}
    <3> HIDE DEF T
    <3> QED
      BY <2>1, FS_EmptySet
  <2> QED
    BY <1>1, <2>2
<1>13. w \in T /\ \A v \in T : w <= v
  <2> HIDE DEF T
  <2> QED
    BY <1>12, LeastOf
<1>14. w \in Users(h) /\ w >= n /\ \A v \in Users(h) : v >= n => w <= v
  BY <1>13
<1> HIDE DEF w
<1>15. {v \in Users(h) : v >= w} = {v \in Users(h) : v >= n}
  BY <1>1, <1>4, <1>14
<1>16. TurnsFrom(h, w) = k
  BY <1>11, <1>15 DEF TurnsFrom
<1> QED
  BY <1>14, <1>16

LEMMA TurnBegins ==
    ASSUME NEW h \in Seq(MessageType), NEW i \in 1 .. Len(h)
    PROVE  /\ TurnStart(h, i) \in 1 .. i /\ (TurnStart(h, i) = 1 \/ TurnStart(h, i) \in Users(h))
           /\ \A u \in Users(h) : u <= i => u <= TurnStart(h, i)
<1> DEFINE before == {u \in Users(h) : u <= i}
<1>1. Len(h) \in Nat /\ i \in Nat /\ Users(h) \subseteq 1 .. Len(h)
  BY UsersTyped
<1>2. CASE before = {}
  <2>1. TurnStart(h, i) = 1
    BY <1>2 DEF TurnStart
  <2> QED
    BY <1>2, <2>1
<1>3. CASE before # {}
  <2>1. before \in SUBSET (1 .. i)
    BY <1>1
  <2>2. TurnStart(h, i) = Max(before)
    BY <1>3 DEF TurnStart
  <2>3. Max(before) \in before /\ \A y \in before : Max(before) >= y
    <3> HIDE DEF before
    <3> QED
      BY <1>1, <1>3, <2>1, MaxInside
  <2> DEFINE m == Max(before)
  <2>4. m \in 1 .. i /\ m \in Users(h) /\ \A u \in Users(h) : u <= i => m >= u
    BY <1>1, <2>3
  <2> HIDE DEF m
  <2>5. \A u \in Users(h) : u <= i => u <= m
    BY <1>1, <2>4
  <2> QED
    BY <2>2, <2>4, <2>5 DEF m
<1> QED
  BY <1>2, <1>3

\* Whatever a message depends on is itself or the beginning of a turn.
LEMMA DependsOn ==
    ASSUME NEW h \in Seq(MessageType), NEW i \in 1 .. Len(h)
    PROVE  /\ Dependency(h, i) \in 1 .. i
           /\ Dependency(h, i) \in {1, i} \cup Users(h)
<1> DEFINE asked == {j \in 1 .. (i - 1) : h[j].kind = "call" /\ h[j].id = h[i].id}
<1>1. Len(h) \in Nat /\ i \in Nat
  OBVIOUS
<1>2. CASE h[i].kind = "results" /\ asked # {}
  <2>1. asked \in SUBSET (1 .. Len(h)) /\ \A j \in asked : j < i
    BY <1>1
  <2>3. Dependency(h, i) = TurnStart(h, Max(asked))
    BY <1>2 DEF Dependency
  <2> HIDE DEF asked
  <2> DEFINE m == Max(asked)
  <2>2. m \in asked
    BY <1>1, <1>2, <2>1, MaxInside
  <2> HIDE DEF m
  <2>4. m \in 1 .. Len(h) /\ m < i
    BY <2>1, <2>2
  <2>5. TurnStart(h, m) \in 1 .. m /\ (TurnStart(h, m) = 1 \/ TurnStart(h, m) \in Users(h))
    BY <2>4, TurnBegins
  <2> QED
    BY <1>1, <2>3, <2>4, <2>5 DEF m
<1>3. CASE ~(h[i].kind = "results" /\ asked # {})
  <2>1. Dependency(h, i) = i
    BY <1>3 DEF Dependency
  <2> QED
    BY <1>1, <2>1
<1> QED
  BY <1>2, <1>3

\* No message from s on depends on one before it.
Unbroken(h, s) == \A i \in s .. Len(h) : Dependency(h, i) >= s

LEMMA UnbrokenTogether ==
    ASSUME NEW h \in Seq(MessageType), NEW s \in Nat \ {0}, Unbroken(h, s)
    PROVE  ~Apart(h, s)
<1> SUFFICES ASSUME Apart(h, s) PROVE FALSE
  OBVIOUS
<1>1. PICK i \in s .. Len(h), j \in 1 .. s - 1 :
        /\ h[i].kind = "results" /\ h[j].kind = "call" /\ h[i].id = h[j].id
        /\ \A k \in j + 1 .. i : h[k].kind # "call" \/ h[k].id # h[j].id
  BY DEF Apart
<1> DEFINE asked == {x \in 1 .. (i - 1) : h[x].kind = "call" /\ h[x].id = h[i].id}
<1>2. Len(h) \in Nat /\ i \in Nat /\ j \in Nat /\ i \in 1 .. Len(h) /\ j < s /\ s <= i /\ j >= 1
  OBVIOUS
<1>3. j \in asked
  BY <1>1, <1>2
<1>4. \A x \in asked : x <= j
  <2>1. SUFFICES ASSUME NEW x \in asked, x > j PROVE FALSE
    BY <1>2
  <2>2. x \in j + 1 .. i /\ h[x].kind = "call" /\ h[x].id = h[i].id
    BY <1>2, <2>1
  <2> QED
    BY <1>1, <2>2
<1>5. asked \in SUBSET (1 .. Len(h))
  BY <1>2
<1>6. Dependency(h, i) = TurnStart(h, Max(asked))
  BY <1>1, <1>3 DEF Dependency
<1> HIDE DEF asked
<1>7. Max(asked) \in asked /\ \A y \in asked : Max(asked) >= y
  BY <1>2, <1>3, <1>5, MaxInside
<1>8. Max(asked) = j
  <2> DEFINE m == Max(asked)
  <2>1. m \in asked /\ m >= j
    BY <1>3, <1>7
  <2> HIDE DEF m
  <2>2. m \in Nat /\ m <= j
    BY <1>4, <1>5, <2>1
  <2>3. m = j
    BY <1>2, <2>1, <2>2
  <2> QED
    BY <2>3 DEF m
<1>9. j \in 1 .. Len(h)
  BY <1>2
<1>10. TurnStart(h, j) \in 1 .. j
  BY <1>9, TurnBegins
<1>11. Dependency(h, i) >= s
  BY <1>2 DEF Unbroken
<1> QED
  BY <1>2, <1>6, <1>8, <1>10, <1>11

LEMMA TogetherUnbroken ==
    ASSUME NEW h \in Seq(MessageType), NEW s \in Users(h), ~Apart(h, s)
    PROVE  Unbroken(h, s)
<1> SUFFICES ASSUME NEW i \in s .. Len(h) PROVE Dependency(h, i) >= s
  BY DEF Unbroken
<1> DEFINE asked == {x \in 1 .. (i - 1) : h[x].kind = "call" /\ h[x].id = h[i].id}
<1>2. Len(h) \in Nat /\ s \in 1 .. Len(h) /\ i \in Nat /\ i \in 1 .. Len(h) /\ s <= i
  BY UsersTyped
<1>3. CASE ~(h[i].kind = "results" /\ asked # {})
  <2>1. Dependency(h, i) = i
    BY <1>3 DEF Dependency
  <2> QED
    BY <1>2, <2>1
<1>4. CASE h[i].kind = "results" /\ asked # {}
  <2>1. asked \in SUBSET (1 .. Len(h))
    BY <1>2
  <2>2. Dependency(h, i) = TurnStart(h, Max(asked))
    BY <1>4 DEF Dependency
  <2> DEFINE j == Max(asked)
  <2>3. j \in asked /\ \A y \in asked : j >= y
    <3> HIDE DEF asked
    <3> QED
      BY <1>2, <1>4, <2>1, MaxInside
  <2> HIDE DEF j
  <2>4. j \in 1 .. i - 1 /\ h[j].kind = "call" /\ h[j].id = h[i].id
    BY <2>3
  <2>5. \A k \in j + 1 .. i : h[k].kind # "call" \/ h[k].id # h[j].id
    <3>1. SUFFICES ASSUME NEW k \in j + 1 .. i, h[k].kind = "call", h[k].id = h[j].id PROVE FALSE
      OBVIOUS
    <3>2. k # i
      BY <1>4, <3>1
    <3>3. k \in asked
      BY <1>2, <2>4, <3>1, <3>2
    <3>4. j >= k
      BY <2>3, <3>3
    <3> QED
      BY <2>4, <3>1, <3>4
  <2>6. j >= s
    <3>1. SUFFICES ASSUME j < s PROVE FALSE
      BY <1>2, <2>4
    <3>2. j \in 1 .. s - 1
      BY <1>2, <2>4, <3>1
    <3>3. Apart(h, s)
      BY <1>4, <2>4, <2>5, <3>2 DEF Apart
    <3> QED
      BY <3>3
  <2>7. j \in 1 .. Len(h) /\ s <= j
    BY <1>2, <2>4, <2>6
  <2>8. s <= TurnStart(h, j)
    BY <2>7, TurnBegins
  <2>9. TurnStart(h, j) \in Nat
    BY <2>7, TurnBegins
  <2> QED
    BY <1>2, <2>2, <2>8, <2>9 DEF j
<1> QED
  BY <1>3, <1>4

\* RecentTurns keeps all when there are no more turns than it may keep, and
\* otherwise begins with a turn that is not later than the last ones, apart from
\* nothing; it drops nothing more when they depend on nothing before them.
LEMMA CutIs ==
    ASSUME NEW h \in Seq(MessageType), NEW k \in Nat \ {0}
    PROVE  LET c == CutAt(h, k) IN
           /\ c = 1 \/ c \in Users(h)
           /\ c \in Nat /\ 1 <= c /\ c <= Len(h) + 1
           /\ ~Apart(h, c)
           /\ Cardinality(Users(h)) <= k => c = 1
           /\ \A u \in Users(h) : u < c => TurnsFrom(h, u) > k
           /\ c \in Users(h) /\ k < Cardinality(Users(h)) => TurnsFrom(h, c) >= k
           /\ \A u \in Users(h) :
                 k < Cardinality(Users(h)) /\ TurnsFrom(h, u) = k /\ ~Apart(h, u) => c = u
<1> DEFINE c == CutAt(h, k)
<1>1. /\ Len(h) \in Nat /\ Users(h) \subseteq 1 .. Len(h) /\ Cardinality(Users(h)) \in Nat
  BY UsersTyped
<1>2. CASE Cardinality(Users(h)) <= k
  <2>1. c = 1
    BY <1>2 DEF CutAt
  <2>2. ~Apart(h, 1)
    BY DEF Apart
  <2> HIDE DEF c
  <2>3. \A u \in Users(h) : ~(u < c)
    BY <1>1, <2>1
  <2> QED
    BY <1>1, <1>2, <2>1, <2>2, <2>3 DEF c
<1>3. CASE ~(Cardinality(Users(h)) <= k)
  <2> DEFINE recent == CHOOSE u \in Users(h) : Cardinality({v \in Users(h) : v >= u}) = k
             starts == {s \in 1 .. recent : \A i \in s .. Len(h) : Dependency(h, i) >= s}
  <2>0. k < Cardinality(Users(h))
    BY <1>1, <1>3
  <2>1. recent \in Users(h) /\ TurnsFrom(h, recent) = k
    <3>1. \E u \in Users(h) : Cardinality({v \in Users(h) : v >= u}) = k
      BY <2>0, RecentUser DEF TurnsFrom
    <3> QED
      BY <3>1 DEF TurnsFrom
  <2>2. c = Max(starts)
    BY <1>3 DEF CutAt
  <2> HIDE DEF recent, c
  <2>3. recent \in Nat /\ recent \in 1 .. Len(h)
    BY <1>1, <2>1
  <2>4. starts \in SUBSET (1 .. Len(h)) /\ \A s \in starts : s \in 1 .. recent /\ Unbroken(h, s)
    BY <1>1, <2>3 DEF Unbroken
  <2>5. 1 \in starts
    <3>1. \A i \in 1 .. Len(h) : Dependency(h, i) >= 1
      BY <1>1, DependsOn
    <3> QED
      BY <2>3, <3>1
  <2>6. c \in starts /\ \A s \in starts : c >= s
    <3> HIDE DEF starts
    <3> QED
      BY <1>1, <2>2, <2>4, <2>5, MaxInside
  <2>7. c \in 1 .. recent /\ c \in 1 .. Len(h) /\ Unbroken(h, c) /\ c \in Nat
    BY <2>4, <2>6
  <2>8. ~Apart(h, c)
    BY <2>7, UnbrokenTogether
  <2>9. c = 1 \/ c \in Users(h)
    <3>1. CASE c = recent
      BY <2>1, <3>1
    <3>2. CASE c # recent
      <4>1. c + 1 \in 1 .. recent
        BY <2>3, <2>7, <3>2
      <4>2. c + 1 \notin starts
        BY <2>6, <2>7, <4>1
      <4>3. PICK i \in (c + 1) .. Len(h) : ~(Dependency(h, i) >= c + 1)
        BY <4>1, <4>2
      <4>4. i \in 1 .. Len(h) /\ i \in c .. Len(h) /\ i # c /\ i \in Nat
        BY <1>1, <2>7, <4>3
      <4>5. Dependency(h, i) >= c
        BY <2>7, <4>4 DEF Unbroken
      <4>6. Dependency(h, i) \in 1 .. i /\ Dependency(h, i) \in {1, i} \cup Users(h)
        BY <4>4, DependsOn
      <4> DEFINE d == Dependency(h, i)
      <4>7. d \in Nat /\ d >= c /\ ~(d >= c + 1)
        BY <4>3, <4>4, <4>5, <4>6
      <4> HIDE DEF d
      <4>8. d = c
        BY <2>7, <4>7
      <4> QED
        BY <4>4, <4>6, <4>8 DEF d
    <3> QED
      BY <3>1, <3>2
  <2>10. ASSUME NEW u \in Users(h), u < c PROVE TurnsFrom(h, u) > k
    <3>1. u < recent /\ recent \in Nat
      BY <1>1, <2>3, <2>7, <2>10
    <3>2. TurnsFrom(h, u) > TurnsFrom(h, recent)
      BY <3>1, TurnsBefore
    <3> QED
      BY <2>1, <3>2
  <2>11. ASSUME c \in Users(h) PROVE TurnsFrom(h, c) >= k
    <3>1. TurnsFrom(h, c) \in Nat
      BY <2>7, UsersTyped
    <3>2. CASE c = recent
      BY <2>1, <3>1, <3>2
    <3>3. CASE c # recent
      <4>1. c < recent
        BY <2>3, <2>7, <3>3
      <4>2. TurnsFrom(h, c) > TurnsFrom(h, recent)
        BY <2>3, <2>11, <4>1, TurnsBefore
      <4> QED
        BY <2>1, <3>1, <4>2
    <3> QED
      BY <3>2, <3>3
  <2>12. ASSUME NEW u \in Users(h), TurnsFrom(h, u) = k, ~Apart(h, u) PROVE c = u
    <3>0. u \in 1 .. Len(h) /\ u \in Nat
      BY <1>1
    <3>1. u = recent
      <4>1. CASE u < recent
        <5>1. TurnsFrom(h, u) > TurnsFrom(h, recent)
          BY <2>3, <4>1, TurnsBefore
        <5> QED
          BY <2>1, <2>12, <5>1
      <4>2. CASE u > recent
        <5>1. TurnsFrom(h, recent) > TurnsFrom(h, u)
          BY <2>1, <3>0, <4>2, TurnsBefore
        <5> QED
          BY <2>1, <2>12, <5>1
      <4> QED
        BY <2>3, <3>0, <4>1, <4>2
    <3>2. Unbroken(h, u)
      BY <2>12, TogetherUnbroken
    <3>3. u \in starts
      BY <2>3, <3>1, <3>2 DEF Unbroken
    <3>4. c >= u
      BY <2>6, <3>3
    <3> QED
      BY <2>7, <3>0, <3>1, <3>4
  <2>13. 1 <= c /\ c <= Len(h) + 1
    BY <1>1, <2>7
  <2> HIDE DEF starts
  <2> QED
    BY <1>3, <2>7, <2>8, <2>9, <2>10, <2>11, <2>12, <2>13 DEF c
<1> QED
  BY <1>2, <1>3

\* Where a conversation is cut depends on the kinds and identifiers only.
LEMMA AlikeCut ==
    ASSUME NEW g \in Seq(MessageType), NEW h \in Seq(MessageType), Len(g) = Len(h),
           \A i \in 1 .. Len(h) : g[i].kind = h[i].kind /\ g[i].id = h[i].id,
           NEW k \in Nat \ {0}
    PROVE  Users(g) = Users(h) /\ CutAt(g, k) = CutAt(h, k)
<1>1. DOMAIN g = 1 .. Len(h) /\ DOMAIN h = 1 .. Len(h) /\ Len(h) \in Nat
  OBVIOUS
<1>2. Users(g) = Users(h)
  BY <1>1 DEF Users
<1>3. \A i : TurnStart(g, i) = TurnStart(h, i)
  BY <1>2 DEF TurnStart
<1>4. ASSUME NEW i \in 1 .. Len(h) PROVE Dependency(g, i) = Dependency(h, i)
  <2> DEFINE asked == {j \in 1 .. (i - 1) : h[j].kind = "call" /\ h[j].id = h[i].id}
  <2>1. \A j \in 1 .. (i - 1) : j \in 1 .. Len(h)
    BY <1>1
  <2>2. asked = {j \in 1 .. (i - 1) : g[j].kind = "call" /\ g[j].id = g[i].id}
    BY <2>1
  <2>3. Dependency(h, i) = IF h[i].kind = "results" /\ asked # {}
                           THEN TurnStart(h, Max(asked)) ELSE i
    BY DEF Dependency
  <2>4. Dependency(g, i) = IF g[i].kind = "results" /\ asked # {}
                           THEN TurnStart(g, Max(asked)) ELSE i
    BY <2>2 DEF Dependency
  <2> HIDE DEF asked
  <2> QED
    BY <1>3, <2>3, <2>4
<1>5. CASE Cardinality(Users(h)) <= k
  BY <1>2, <1>5 DEF CutAt
<1>6. CASE ~(Cardinality(Users(h)) <= k)
  <2> DEFINE recent == CHOOSE u \in Users(h) : Cardinality({v \in Users(h) : v >= u}) = k
             Starts(q) == {s \in 1 .. recent : \A i \in s .. Len(q) : Dependency(q, i) >= s}
  <2>1. CutAt(g, k) = Max(Starts(g)) /\ CutAt(h, k) = Max(Starts(h))
    BY <1>2, <1>6 DEF CutAt
  <2>2. Starts(g) = Starts(h)
    <3> HIDE DEF recent
    <3>1. \A s \in 1 .. recent : \A i \in s .. Len(h) : i \in 1 .. Len(h)
      BY <1>1
    <3> QED
      BY <1>4, <3>1
  <2> HIDE DEF Starts
  <2> QED
    BY <1>2, <2>1, <2>2
<1> QED
  BY <1>5, <1>6

-----------------------------------------------------------------------------
(* A conversation whose beginning has been dropped.                         *)

\* Its messages, which stand at other places than before.
Shift(h, c) == Len(SystemOf(SubSeq(h, 1, c - 1))) - (c - 1)

LEMMA FromIs ==
    ASSUME NEW h \in Seq(MessageType), NEW c \in Nat, 1 <= c, c <= Len(h)
    PROVE  LET q == From(h, c)
               d == Shift(h, c)
               m == d + c - 1
           IN  /\ q \in Seq(MessageType) /\ d \in Int /\ m \in Nat /\ Len(q) = Len(h) + d
               /\ \A i \in c .. Len(h) : i + d \in m + 1 .. Len(q) /\ q[i + d] = h[i]
               /\ \A j \in 1 .. m : q[j].kind = "system"
               /\ \A j \in m + 1 .. Len(q) : j - d \in c .. Len(h) /\ q[j] = h[j - d]
<1> DEFINE s == SystemOf(SubSeq(h, 1, c - 1))
           t == SubSeq(h, c, Len(h))
           q == From(h, c)
           d == Shift(h, c)
           m == d + c - 1
<1>1. q \in Seq(MessageType) /\ s \in Seq(MessageType) /\ SubSeq(h, 1, c - 1) \in Seq(MessageType)
      /\ t \in Seq(MessageType) /\ Len(h) \in Nat
  <2>1. c <= Len(h) + 1 /\ Len(h) \in Nat
    OBVIOUS
  <2> QED
    BY <2>1, FromTyped
<1>2. AllSystem(s)
  BY <1>1, SystemAll
<1>3. Len(t) = Len(h) - c + 1 /\ \A i \in 1 .. Len(h) - c + 1 : t[i] = h[c + i - 1]
  OBVIOUS
<1>4. q = s \o t /\ d = Len(s) - (c - 1)
  BY DEF From, Shift
<1> HIDE DEF s, t, q, d
<1>5. m = Len(s) /\ d \in Int /\ m \in Nat /\ Len(q) = Len(h) + d
  <2>1. Len(s) \in Nat /\ Len(t) \in Nat /\ Len(s \o t) = Len(s) + Len(t)
    BY <1>1, ConcatProperties
  <2>2. Len(q) = Len(s) + Len(t)
    BY <1>4, <2>1
  <2>3. d = Len(s) - (c - 1) /\ Len(t) = Len(h) - c + 1 /\ Len(h) \in Nat
    BY <1>1, <1>3, <1>4
  <2> QED
    BY <2>1, <2>2, <2>3
<1>6. ASSUME NEW j \in 1 .. m PROVE q[j].kind = "system"
  <2>1. q[j] = s[j] /\ j \in 1 .. Len(s)
    BY <1>1, <1>4, <1>5
  <2> QED
    BY <1>2, <2>1 DEF AllSystem
<1>7. ASSUME NEW j \in m + 1 .. Len(q) PROVE j - d \in c .. Len(h) /\ q[j] = h[j - d]
  <2>1. j - d \in c .. Len(h)
    BY <1>1, <1>4, <1>5
  <2>2. q[j] = t[j - Len(s)]
    BY <1>1, <1>4, <1>5
  <2>3. j - Len(s) \in 1 .. Len(h) - c + 1 /\ c + (j - Len(s)) - 1 = j - d
    BY <1>1, <1>4, <1>5
  <2> QED
    BY <1>3, <2>1, <2>2, <2>3
<1>8. ASSUME NEW i \in c .. Len(h) PROVE i + d \in m + 1 .. Len(q) /\ q[i + d] = h[i]
  <2>1. i + d \in m + 1 .. Len(q) /\ (i + d) - d = i
    BY <1>1, <1>5
  <2> QED
    BY <1>7, <2>1
<1> QED
  BY <1>1, <1>5, <1>6, <1>7, <1>8 DEF q, d

LEMMA FromUsers ==
    ASSUME NEW h \in Seq(MessageType), NEW c \in Nat, 1 <= c, c <= Len(h)
    PROVE  LET q == From(h, c)
               d == Shift(h, c)
           IN  /\ Users(q) = {u + d : u \in {v \in Users(h) : v >= c}}
               /\ \A u \in c .. Len(h) : u + d \in Nat /\ TurnsFrom(q, u + d) = TurnsFrom(h, u)
               /\ \A u \in c .. Len(h) : u + d \in Users(q) <=> u \in Users(h)
               /\ \A j \in Users(q) : j - d \in c .. Len(h)
               /\ Cardinality(Users(q)) = TurnsFrom(h, c)
<1> DEFINE q == From(h, c)
           d == Shift(h, c)
           m == d + c - 1
<1>1. /\ q \in Seq(MessageType) /\ d \in Int /\ m \in Nat /\ Len(q) = Len(h) + d
      /\ \A i \in c .. Len(h) : i + d \in m + 1 .. Len(q) /\ q[i + d] = h[i]
      /\ \A j \in 1 .. m : q[j].kind = "system"
      /\ \A j \in m + 1 .. Len(q) : j - d \in c .. Len(h) /\ q[j] = h[j - d]
  BY FromIs
<1>2. /\ Users(h) \subseteq 1 .. Len(h) /\ Len(h) \in Nat /\ IsFiniteSet(Users(h))
      /\ DOMAIN h = 1 .. Len(h)
  BY UsersTyped
<1>3. /\ Users(q) \subseteq 1 .. Len(q) /\ Len(q) \in Nat /\ IsFiniteSet(Users(q))
      /\ DOMAIN q = 1 .. Len(q)
  <2> HIDE DEF q
  <2> QED
    BY <1>1, UsersTyped
<1> HIDE DEF q, d
<1>4. ASSUME NEW j \in Users(q) PROVE j - d \in c .. Len(h) /\ j - d \in Users(h)
  <2>1. j \in 1 .. Len(q) /\ q[j].kind = "user"
    BY <1>3 DEF Users
  <2>2. j \notin 1 .. m
    BY <1>1, <2>1
  <2>3. j \in m + 1 .. Len(q)
    BY <1>1, <1>3, <2>1, <2>2
  <2>4. j - d \in c .. Len(h) /\ q[j] = h[j - d]
    BY <1>1, <2>3
  <2>5. j - d \in 1 .. Len(h)
    BY <1>2, <2>4
  <2> QED
    BY <1>2, <2>1, <2>4, <2>5 DEF Users
<1>5. ASSUME NEW u \in c .. Len(h) PROVE u + d \in Nat /\ (u + d \in Users(q) <=> u \in Users(h))
  <2>1. u + d \in m + 1 .. Len(q) /\ q[u + d] = h[u]
    BY <1>1
  <2>2. u + d \in 1 .. Len(q) /\ u \in 1 .. Len(h)
    BY <1>1, <1>2, <1>3, <2>1
  <2> QED
    BY <1>2, <1>3, <2>1, <2>2 DEF Users
<1>6. Users(q) = {u + d : u \in {v \in Users(h) : v >= c}}
  <2>1. \A j \in Users(q) : /\ j - d \in Users(h) /\ j - d >= c /\ (j - d) + d = j
    BY <1>1, <1>3, <1>4
  <2>2. \A u \in Users(h) : u >= c => u \in c .. Len(h)
    BY <1>2
  <2> QED
    BY <1>5, <2>1, <2>2
<1>7. ASSUME NEW u \in c .. Len(h) PROVE TurnsFrom(q, u + d) = TurnsFrom(h, u)
  <2> DEFINE A == {v \in Users(h) : v >= u}
             B == {v \in Users(q) : v >= u + d}
             f == [v \in A |-> v + d]
  <2>0. u \in Int /\ (\A v \in Users(h) : v \in Int) /\ (\A v \in Users(q) : v \in Int)
    BY <1>2, <1>3
  <2>1. \A v \in A : v \in c .. Len(h) /\ v + d \in Users(q) /\ v + d >= u + d
    <3>1. \A v \in A : v \in c .. Len(h) /\ v \in Users(h)
      BY <1>2
    <3> QED
      BY <1>1, <1>5, <2>0, <3>1
  <2>2. \A w \in B : w - d \in A /\ (w - d) + d = w
    <3>1. \A w \in B : w - d \in Users(h) /\ w >= u + d /\ w \in Int /\ w - d \in Int
      BY <1>4, <2>0
    <3>2. d \in Int
      BY <1>1
    <3>3. \A w \in Int : w >= u + d => w - d >= u /\ (w - d) + d = w
      BY <2>0, <3>2
    <3> QED
      BY <3>1, <3>3
  <2>3. f \in Bijection(A, B)
    <3>1. f \in [A -> B]
      BY <2>1
    <3>2. \A v, w \in A : f[v] = f[w] => v = w
      BY <1>1, <2>0
    <3>3. \A w \in B : \E v \in A : f[v] = w
      BY <2>2
    <3> HIDE DEF f, A, B
    <3> QED
      BY <3>1, <3>2, <3>3 DEF Bijection, Injection, Surjection, IsInjective
  <2>4. ExistsBijection(A, B)
    <3> HIDE DEF f, A, B
    <3> QED
      BY <2>3 DEF ExistsBijection
  <2>5. A \in SUBSET Users(h)
    OBVIOUS
  <2>6. TurnsFrom(q, u + d) = Cardinality(B) /\ TurnsFrom(h, u) = Cardinality(A)
    BY DEF TurnsFrom
  <2> HIDE DEF f, A, B
  <2>7. IsFiniteSet(A)
    BY <1>2, <2>5, FS_Subset
  <2>8. Cardinality(B) = Cardinality(A)
    BY <2>4, <2>7, FS_Bijection
  <2> QED
    BY <2>6, <2>8
<1>8. Cardinality(Users(q)) = TurnsFrom(h, c)
  <2>1. c \in c .. Len(h)
    BY <1>2
  <2>2. TurnsFrom(q, c + d) = TurnsFrom(h, c)
    BY <1>7, <2>1
  <2>3. \A j \in Users(q) : j >= c + d
    BY <1>1, <1>3, <1>4
  <2>4. {j \in Users(q) : j >= c + d} = Users(q)
    BY <2>3
  <2> QED
    BY <2>2, <2>4 DEF TurnsFrom
<1> QED
  BY <1>4, <1>5, <1>6, <1>7, <1>8 DEF q, d

LEMMA FromApart ==
    ASSUME NEW h \in Seq(MessageType), NEW c \in Nat, 1 <= c, c <= Len(h), NEW u \in c .. Len(h)
    PROVE  LET q == From(h, c)
               d == Shift(h, c)
           IN  /\ ~Apart(q, u + d) /\ ~Apart(h, c) => ~Apart(h, u)
               /\ ~Apart(h, u) => ~Apart(q, u + d)
<1> DEFINE q == From(h, c)
           d == Shift(h, c)
           m == d + c - 1
<1>1. /\ q \in Seq(MessageType) /\ d \in Int /\ m \in Nat /\ Len(q) = Len(h) + d
      /\ \A i \in c .. Len(h) : i + d \in m + 1 .. Len(q) /\ q[i + d] = h[i]
      /\ \A j \in 1 .. m : q[j].kind = "system"
      /\ \A j \in m + 1 .. Len(q) : j - d \in c .. Len(h) /\ q[j] = h[j - d]
  BY FromIs
<1>2. Len(h) \in Nat /\ u \in Nat /\ c <= u /\ u <= Len(h) /\ Len(q) \in Nat
  BY <1>1
<1> HIDE DEF q, d
<1>3. ASSUME Apart(h, u), ~Apart(h, c) PROVE Apart(q, u + d)
  <2>1. PICK i \in u .. Len(h), j \in 1 .. u - 1 :
          /\ h[i].kind = "results" /\ h[j].kind = "call" /\ h[i].id = h[j].id
          /\ \A k \in j + 1 .. i : h[k].kind # "call" \/ h[k].id # h[j].id
    BY <1>3 DEF Apart
  <2>2. j >= c
    <3>1. SUFFICES ASSUME j < c PROVE FALSE
      BY <1>2
    <3>2. i \in c .. Len(h) /\ j \in 1 .. c - 1
      BY <1>2, <3>1
    <3> QED
      BY <1>3, <2>1, <3>2 DEF Apart
  <2> DEFINE x == i + d
             y == j + d
  <2>3. i \in c .. Len(h) /\ j \in c .. Len(h)
    BY <1>2, <2>2
  <2>4. x \in m + 1 .. Len(q) /\ y \in m + 1 .. Len(q) /\ q[x] = h[i] /\ q[y] = h[j]
    BY <1>1, <2>3
  <2>5. x \in u + d .. Len(q) /\ y \in 1 .. (u + d) - 1
    BY <1>1, <1>2, <2>4
  <2>6. \A k \in y + 1 .. x : k \in m + 1 .. Len(q) /\ k - d \in j + 1 .. i
    BY <1>1, <1>2, <2>4
  <2>7. \A k \in y + 1 .. x : q[k].kind # "call" \/ q[k].id # q[y].id
    BY <1>1, <2>1, <2>4, <2>6
  <2>8. q[x].kind = "results" /\ q[y].kind = "call" /\ q[x].id = q[y].id
    BY <2>1, <2>4
  <2> HIDE DEF x, y, m
  <2> QED
    BY <2>5, <2>7, <2>8 DEF Apart
<1>4. ASSUME Apart(q, u + d) PROVE Apart(h, u)
  <2>1. PICK i \in u + d .. Len(q), j \in 1 .. (u + d) - 1 :
          /\ q[i].kind = "results" /\ q[j].kind = "call" /\ q[i].id = q[j].id
          /\ \A k \in j + 1 .. i : q[k].kind # "call" \/ q[k].id # q[j].id
    BY <1>4 DEF Apart
  <2>2. i \in m + 1 .. Len(q)
    <3> DEFINE l == Len(q)
               b == u + d
    <3>1. d \in Int /\ l \in Nat /\ u \in Nat /\ c <= u /\ b = u + d /\ i \in b .. l
      BY <1>1, <1>2
    <3> HIDE DEF l, b
    <3>2. i \in m + 1 .. l
      BY <3>1
    <3> QED
      BY <3>2 DEF l
  <2>3. j \notin 1 .. m
    BY <1>1, <2>1
  <2>4. j \in m + 1 .. Len(q)
    BY <1>1, <1>2, <2>3
  <2> DEFINE x == i - d
             y == j - d
  <2>5. q[i] = h[x] /\ q[j] = h[y] /\ x \in c .. Len(h) /\ y \in c .. Len(h)
    BY <1>1, <2>2, <2>4
  <2>6. x \in u .. Len(h) /\ y \in 1 .. u - 1
    BY <1>1, <1>2, <2>5
  <2>7. \A k \in y + 1 .. x : k \in c .. Len(h) /\ k + d \in j + 1 .. i
    BY <1>1, <1>2, <2>5
  <2>8. \A k \in y + 1 .. x : h[k].kind # "call" \/ h[k].id # h[y].id
    BY <1>1, <2>1, <2>5, <2>7
  <2> HIDE DEF x, y
  <2> QED
    BY <2>1, <2>5, <2>6, <2>8 DEF Apart
<1> QED
  BY <1>3, <1>4 DEF q, d

LEMMA SameMessages ==
    ASSUME NEW a \in Seq(MessageType), NEW b \in Seq(MessageType), Len(a) = Len(b),
           \A i \in 1 .. Len(a) : a[i] = b[i]
    PROVE  a = b
OBVIOUS

\* To drop the beginning of what is left is to drop more of the whole.
LEMMA FromFrom ==
    ASSUME NEW h \in Seq(MessageType), NEW c \in Nat, 1 <= c, c <= Len(h), NEW u \in c .. Len(h)
    PROVE  From(From(h, c), u + Shift(h, c)) = From(h, u)
<1> DEFINE a == SubSeq(h, 1, c - 1)
           x == SubSeq(h, c, u - 1)
           s == SystemOf(a)
           q == From(h, c)
           d == Shift(h, c)
           m == d + c - 1
           n == u + d - 1
<1>1. /\ q \in Seq(MessageType) /\ d \in Int /\ m \in Nat /\ Len(q) = Len(h) + d
      /\ \A j \in m + 1 .. Len(q) : j - d \in c .. Len(h) /\ q[j] = h[j - d]
  BY FromIs
<1>2. Len(h) \in Nat /\ u \in Nat /\ c <= u /\ u <= Len(h) /\ Len(q) \in Nat
      /\ n \in Nat /\ n + 1 = u + d /\ m <= n /\ n < Len(q)
  BY <1>1
<1>3. a \in Seq(MessageType) /\ s \in Seq(MessageType) /\ AllSystem(s) /\ SystemOf(s) = s
  <2>1. c <= Len(h) + 1
    BY <1>2
  <2>2. a \in Seq(MessageType) /\ s \in Seq(MessageType)
    BY <2>1, FromTyped
  <2> HIDE DEF s
  <2>3. AllSystem(s)
    BY <2>2, SystemAll DEF s
  <2>4. SystemOf(s) = s
    BY <2>2, <2>3, SystemAll
  <2> QED
    BY <2>2, <2>3, <2>4
<1>4. x \in Seq(MessageType) /\ Len(x) = u - c /\ \A i \in 1 .. u - c : x[i] = h[c + i - 1]
  BY <1>2
<1>5. Len(s) = m /\ q = s \o SubSeq(h, c, Len(h))
  BY <1>1, <1>3 DEF From, Shift
<1>6. a \o x = SubSeq(h, 1, u - 1)
  <2>1. /\ 1 \in 1 .. Len(h) + 1 /\ c - 1 \in 1 - 1 .. Len(h) /\ u - 1 \in c - 1 .. Len(h)
        /\ (c - 1) + 1 = c
    BY <1>2
  <2> DEFINE k == c - 1
             l == u - 1
  <2>2. k \in 1 - 1 .. Len(h) /\ l \in k .. Len(h) /\ k + 1 = c
    BY <2>1
  <2> HIDE DEF k, l
  <2>3. SubSeq(h, 1, k) \o SubSeq(h, k + 1, l) = SubSeq(h, 1, l)
    BY <2>1, <2>2, ConcatAdjacentSubSeq
  <2> QED
    BY <2>2, <2>3 DEF k, l
<1>7. SubSeq(q, 1, n) = s \o x
  <2> DEFINE f == SubSeq(q, 1, n)
             g == s \o x
  <2>1. f \in Seq(MessageType) /\ Len(f) = n /\ \A i \in 1 .. n : f[i] = q[i]
    <3> HIDE DEF q, n
    <3> QED
      BY <1>1, <1>2
  <2>2. g \in Seq(MessageType) /\ Len(g) = n
        /\ \A i \in 1 .. n : g[i] = IF i <= m THEN s[i] ELSE x[i - m]
    <3> HIDE DEF s, x
    <3>1. g \in Seq(MessageType) /\ Len(g) = Len(s) + Len(x)
          /\ \A i \in 1 .. Len(s) + Len(x) : g[i] = IF i <= Len(s) THEN s[i] ELSE x[i - Len(s)]
      BY <1>3, <1>4, ConcatProperties
    <3>2. Len(s) + Len(x) = n
      BY <1>1, <1>2, <1>4, <1>5
    <3> QED
      BY <1>5, <3>1, <3>2
  <2>3. ASSUME NEW i \in 1 .. n PROVE f[i] = g[i]
    <3>1. CASE i <= m
      <4> DEFINE t == SubSeq(h, c, Len(h))
      <4>1. t \in Seq(MessageType)
        BY <1>2
      <4> HIDE DEF t, s
      <4>2. (s \o t)[i] = s[i]
        BY <1>2, <1>3, <1>5, <3>1, <4>1
      <4> QED
        BY <1>5, <2>1, <2>2, <3>1, <4>2 DEF t
    <3>2. CASE ~(i <= m)
      <4>1. i \in m + 1 .. Len(q)
        BY <1>1, <1>2, <3>2, SMTT(30)
      <4>2. q[i] = h[i - d]
        BY <1>1, <4>1
      <4>3. i - m \in 1 .. u - c /\ c + (i - m) - 1 = i - d
        <5>1. d \in Int /\ m = d + c - 1 /\ n = u + d - 1 /\ m \in Nat /\ n \in Nat /\ u \in Nat
              /\ i \in 1 .. n /\ i > m /\ c \in Nat
          BY <1>1, <1>2, <3>2
        <5> HIDE DEF d, m, n
        <5> QED
          BY <5>1
      <4>4. x[i - m] = h[i - d]
        BY <1>4, <4>3
      <4> QED
        BY <2>1, <2>2, <3>2, <4>2, <4>4
    <3> QED
      BY <3>1, <3>2
  <2> HIDE DEF f, g
  <2>4. f = g
    BY <2>1, <2>2, <2>3, SameMessages
  <2> QED
    BY <2>4 DEF f, g
<1>8. SubSeq(q, n + 1, Len(q)) = SubSeq(h, u, Len(h))
  <2> DEFINE f == SubSeq(q, n + 1, Len(q))
             g == SubSeq(h, u, Len(h))
             k == Len(h) - u + 1
  <2>3. Len(q) - n = k
    <3>1. Len(q) = Len(h) + d /\ d \in Int /\ Len(h) \in Nat /\ Len(q) \in Nat /\ n = u + d - 1
      BY <1>1, <1>2
    <3> HIDE DEF q, n, d
    <3> QED
      BY <1>2, <3>1
  <2> HIDE DEF q, n, d
  <2>1. f \in Seq(MessageType) /\ Len(f) = Len(q) - n /\ \A i \in 1 .. Len(q) - n : f[i] = q[n + i]
    <3>1. n + 1 \in Nat /\ n + 1 >= 1 /\ n + 1 <= Len(q) /\ Len(q) - (n + 1) + 1 = Len(q) - n
      BY <1>2
    <3> DEFINE n1 == n + 1
    <3>2. n1 \in Nat /\ n1 >= 1 /\ n1 <= Len(q)
      BY <3>1
    <3> HIDE DEF n1
    <3>3. /\ SubSeq(q, n1, Len(q)) \in Seq(MessageType)
          /\ Len(SubSeq(q, n1, Len(q))) = Len(q) - n1 + 1
          /\ \A i \in 1 .. Len(q) - n1 + 1 : SubSeq(q, n1, Len(q))[i] = q[n1 + i - 1]
      BY <1>1, <1>2, <3>2
    <3>4. \A i \in 1 .. Len(q) - n : n1 + i - 1 = n + i
      BY <1>2 DEF n1
    <3> QED
      BY <3>1, <3>3, <3>4 DEF n1
  <2>2. g \in Seq(MessageType) /\ Len(g) = k /\ \A i \in 1 .. k : g[i] = h[u + i - 1]
    BY <1>2
  <2>4. ASSUME NEW i \in 1 .. k PROVE q[n + i] = h[u + i - 1]
    <3>1. n + i \in m + 1 .. Len(q) /\ (n + i) - d = u + i - 1
      BY <1>1, <1>2, <2>3
    <3> QED
      BY <1>1, <3>1
  <2> HIDE DEF f, g, k
  <2>5. f = g
    BY <2>1, <2>2, <2>3, <2>4, SameMessages
  <2> QED
    BY <2>5 DEF f, g
<1>9. From(q, n + 1) = SystemOf(SubSeq(q, 1, n)) \o SubSeq(q, n + 1, Len(q))
  <2>1. (n + 1) - 1 = n
    BY <1>2
  <2> HIDE DEF q, n
  <2> QED
    BY <2>1 DEF From
<1>10. SystemOf(s \o x) = SystemOf(a \o x)
  <2> HIDE DEF a, x
  <2>1. SystemOf(s \o x) = SystemOf(s) \o SystemOf(x) /\ SystemOf(a \o x) = SystemOf(a) \o SystemOf(x)
    BY <1>3, <1>4, SystemJoin
  <2> QED
    BY <1>3, <2>1
<1>11. From(h, u) = SystemOf(SubSeq(h, 1, u - 1)) \o SubSeq(h, u, Len(h))
  BY DEF From
<1> HIDE DEF q, d, n, s, x, a
<1>12. From(q, n + 1) = From(h, u)
  BY <1>6, <1>7, <1>8, <1>9, <1>10, <1>11
<1> QED
  BY <1>2, <1>12 DEF q, d

-----------------------------------------------------------------------------
(* What the budget keeps.                                                   *)

LEMMA MessageParts ==
    ASSUME NEW p \in Seq(MessageType), NEW q \in Seq(MessageType)
    PROVE  /\ p \o q \in Seq(MessageType) /\ Len(p \o q) = Len(p) + Len(q)
           /\ Len(p) \in Nat /\ Len(q) \in Nat /\ Len(p) \in 0 .. Len(p \o q)
           /\ SubSeq(p \o q, 1, Len(p)) = p
           /\ SubSeq(p \o q, Len(p) + 1, Len(p \o q)) = q
<1> DEFINE m == p \o q
           f == SubSeq(m, 1, Len(p))
           g == SubSeq(m, Len(p) + 1, Len(m))
<1>1. /\ m \in Seq(MessageType) /\ Len(m) = Len(p) + Len(q) /\ Len(p) \in Nat /\ Len(q) \in Nat
      /\ \A i \in 1 .. Len(p) + Len(q) : m[i] = IF i <= Len(p) THEN p[i] ELSE q[i - Len(p)]
  BY ConcatProperties
<1> HIDE DEF m
<1>2. f = p
  <2>1. f \in Seq(MessageType) /\ Len(f) = Len(p) /\ \A i \in 1 .. Len(p) : f[i] = m[i]
    BY <1>1
  <2>2. \A i \in 1 .. Len(p) : f[i] = p[i]
    BY <1>1, <2>1
  <2> HIDE DEF f
  <2> QED
    BY <2>1, <2>2, SameMessages
<1>3. g = q
  <2> DEFINE n == Len(p) + 1
  <2>1. n \in Nat /\ 1 <= n /\ n <= Len(m) + 1 /\ Len(m) \in Nat /\ Len(m) - n + 1 = Len(q)
        /\ g = SubSeq(m, n, Len(m))
    BY <1>1
  <2> HIDE DEF n, g
  <2>2. g \in Seq(MessageType) /\ Len(g) = Len(q) /\ \A i \in 1 .. Len(q) : g[i] = m[n + i - 1]
    BY <1>1, <2>1
  <2>3. \A i \in 1 .. Len(q) : m[n + i - 1] = q[i]
    <3>1. SUFFICES ASSUME NEW i \in 1 .. Len(q) PROVE m[n + i - 1] = q[i]
      OBVIOUS
    <3>2. n + i - 1 = Len(p) + i /\ Len(p) + i \in 1 .. Len(p) + Len(q) /\ ~(Len(p) + i <= Len(p))
          /\ (Len(p) + i) - Len(p) = i
      BY <1>1 DEF n
    <3> QED
      BY <1>1, <3>2
  <2> QED
    BY <2>2, <2>3, SameMessages
<1> QED
  BY <1>1, <1>2, <1>3 DEF m, f, g

\* A turn, but the whole conversation if it is the first.
BeginOf(h, u) == IF \E v \in Users(h) : v < u THEN u ELSE 1
CurrentOf(h) == IF Users(h) = {} THEN 1 ELSE Max(Users(h))

LEMMA UserNotLater ==
    ASSUME NEW h \in Seq(MessageType), NEW c, c = 1 \/ c \in Users(h)
    PROVE  c \in 1 .. CurrentOf(h)
<1>1. Len(h) \in Nat /\ Users(h) \subseteq 1 .. Len(h)
  BY UsersTyped
<1>2. CASE Users(h) = {}
  BY <1>2 DEF CurrentOf
<1>3. CASE Users(h) # {}
  <2> DEFINE U == Users(h)
             m == Max(U)
  <2>1. U \in SUBSET (1 .. Len(h)) /\ U # {}
    BY <1>1, <1>3
  <2> HIDE DEF U
  <2>2. m \in U /\ \A y \in U : m >= y
    BY <1>1, <2>1, MaxInside
  <2> HIDE DEF m
  <2>3. c \in 1 .. m
    BY <1>1, <2>1, <2>2 DEF U
  <2> QED
    BY <1>3, <2>3 DEF CurrentOf, m, U
<1> QED
  BY <1>2, <1>3

\* Where the policy begins when it keeps t turns (0: all).
BeginsAt(h, t, c) ==
    /\ c \in Nat /\ 1 <= c /\ c <= Len(h) + 1 /\ (c = 1 \/ c \in Users(h)) /\ ~Apart(h, c)
    /\ c # 1 => t # 0 /\ Cardinality(Users(h)) > t
    /\ \A u \in Users(h) : u < c => t # 0 /\ TurnsFrom(h, u) > t

\* From there on, no more turns are dropped than must be.
KeptFrom(h, t, p, at) ==
    /\ at \in 1 .. CurrentOf(h) /\ ~Apart(h, at)
    /\ \A u \in Users(h) : u < at /\ ~Apart(h, u) =>
           ~Fits(p \o From(h, BeginOf(h, u))) \/ (t # 0 /\ TurnsFrom(h, u) > t)

\* The most turns that fit.
LEMMA MostFitting ==
    ASSUME NEW n \in Nat, NEW s, s \subseteq 1 .. n - 1, s # {}
    PROVE  LET most == CHOOSE k \in s : \A l \in s : l <= k
           IN  most \in s /\ \A l \in s : l <= most
<1>1. n - 1 \in Nat
  <2>1. PICK k \in s : k \in 1 .. n - 1
    OBVIOUS
  <2> QED
    BY <2>1
<1> DEFINE o == n - 1
<1>2. o \in Nat /\ s \in SUBSET (1 .. o)
  BY <1>1
<1> HIDE DEF o
<1>3. Max(s) \in s /\ \A y \in s : Max(s) >= y
  BY <1>2, MaxInside
<1>4. \E k \in s : \A l \in s : l <= k
  <2>1. \A l \in s : l \in Nat
    BY <1>2
  <2> DEFINE m == Max(s)
  <2>2. m \in s /\ m \in Nat /\ \A y \in s : m >= y
    BY <1>3, <2>1
  <2> HIDE DEF m
  <2> QED
    BY <2>1, <2>2
<1> QED
  BY <1>4

\* What the budget makes of the policy's choice.
LEMMA TrimKeeps ==
    ASSUME NEW h \in Seq(MessageType), NEW t \in Nat, NEW c, BeginsAt(h, t, c),
           NEW p \in Seq(MessageType), NEW r \in Trimmed(p \o From(h, c), Len(p))
    PROVE  Fits(r) /\ \E at : r = p \o From(h, at) /\ KeptFrom(h, t, p, at)
<1> DEFINE Q == From(h, c)
           d == Shift(h, c)
           m == p \o Q
           fitting == {k \in 1 .. Cardinality(Users(Q)) - 1 : Fits(p \o RecentTurns(Q, k))}
           most == CHOOSE k \in fitting : \A l \in fitting : l <= k
<1>1. /\ c \in Nat /\ 1 <= c /\ c <= Len(h) + 1 /\ (c = 1 \/ c \in Users(h)) /\ ~Apart(h, c)
      /\ c # 1 => t # 0 /\ Cardinality(Users(h)) > t
      /\ \A u \in Users(h) : u < c => t # 0 /\ TurnsFrom(h, u) > t
      /\ Len(h) \in Nat /\ Users(h) \subseteq 1 .. Len(h)
  BY UsersTyped DEF BeginsAt
<1>2. Q \in Seq(MessageType) /\ (c = 1 => Q = h) /\ From(h, 1) = h
  BY <1>1, FromTyped
<1>3. SubSeq(m, 1, Len(p)) = p /\ SubSeq(m, Len(p) + 1, Len(m)) = Q
  <2> HIDE DEF Q
  <2> QED
    BY <1>2, MessageParts
<1>4. r \in (IF Fits(m) THEN {m} ELSE IF fitting = {} THEN {} ELSE {p \o RecentTurns(Q, most)})
  <2>1. Trimmed(m, Len(p)) =
          LET prefix == p
              history == Q
              fits == {k \in 1 .. Cardinality(Users(history)) - 1 :
                           Fits(prefix \o RecentTurns(history, k))}
              top == CHOOSE k \in fits : \A l \in fits : l <= k
          IN  IF Fits(m) THEN {m} ELSE IF fits = {} THEN {}
              ELSE {prefix \o RecentTurns(history, top)}
    <3> HIDE DEF Q, m
    <3> QED
      BY <1>3 DEF Trimmed
  <2> QED
    BY <2>1
<1> HIDE DEF Q, fitting, most, d
<1>5. CASE Fits(m)
  <2>1. r = m
    BY <1>4, <1>5
  <2>2. KeptFrom(h, t, p, c)
    BY <1>1, UserNotLater DEF KeptFrom
  <2> QED
    BY <1>5, <2>1, <2>2 DEF Q
<1>6. CASE ~Fits(m)
  <2>1. fitting # {} /\ r = p \o RecentTurns(Q, most)
    BY <1>4, <1>6
  <2> DEFINE n == Cardinality(Users(Q))
  <2>2. n \in Nat /\ Users(Q) \subseteq 1 .. Len(Q)
    BY <1>2, UsersTyped
  <2>3. most \in fitting /\ \A l \in fitting : l <= most
    <3>1. fitting \subseteq 1 .. n - 1
      BY DEF fitting
    <3> HIDE DEF n
    <3> QED
      BY <2>1, <2>2, <3>1, MostFitting DEF most
  <2>4. most \in Nat \ {0} /\ most < n /\ Fits(p \o RecentTurns(Q, most))
    <3>1. most \in 1 .. n - 1 /\ Fits(p \o RecentTurns(Q, most))
      BY <2>3 DEF fitting
    <3> HIDE DEF n
    <3> QED
      BY <2>2, <3>1
  <2> HIDE DEF n
  <2> DEFINE c1 == CutAt(Q, most)
             u1 == c1 - d
  <2>5. /\ c1 = 1 \/ c1 \in Users(Q)
        /\ c1 \in Nat /\ ~Apart(Q, c1)
        /\ c1 \in Users(Q) => TurnsFrom(Q, c1) >= most
    BY <1>2, <2>4, CutIs DEF n
  <2>6. RecentTurns(Q, most) = From(Q, c1)
    BY DEF RecentTurns
  <2>7. c1 \in Users(Q)
    <3>1. SUFFICES ASSUME c1 = 1 PROVE FALSE
      BY <2>5
    <3>2. Q \in Seq(MessageType) /\ 1 \in Nat /\ 1 <= 1 /\ 1 <= Len(Q) + 1
      BY <1>2
    <3>3. From(Q, 1) = Q
      BY <3>2, FromTyped
    <3> QED
      BY <1>6, <2>4, <2>6, <3>1, <3>3
  <2>8. c <= Len(h)
    <3>1. SUFFICES ASSUME ~(c <= Len(h)) PROVE FALSE
      OBVIOUS
    <3>2. c \notin Users(h) /\ c = Len(h) + 1
      BY <1>1, <3>1
    <3>3. c = 1 /\ Len(h) = 0
      BY <1>1, <3>2
    <3>4. Q = h /\ Users(h) = {}
      BY <1>1, <1>2, <3>3
    <3> QED
      BY <2>7, <3>4
  <2>9. /\ d \in Int
        /\ \A u \in c .. Len(h) : u + d \in Nat /\ TurnsFrom(Q, u + d) = TurnsFrom(h, u)
        /\ \A u \in c .. Len(h) : u + d \in Users(Q) <=> u \in Users(h)
        /\ \A j \in Users(Q) : j - d \in c .. Len(h)
        /\ n = TurnsFrom(h, c)
    BY <1>1, <2>8, FromUsers, FromIs DEF Q, d, n
  <2>10. u1 \in c .. Len(h) /\ u1 + d = c1
    <3>1. u1 \in c .. Len(h)
      BY <2>7, <2>9
    <3> QED
      BY <2>5, <2>9, <3>1
  <2> HIDE DEF c1, u1
  <2>11. u1 \in Users(h) /\ TurnsFrom(h, u1) >= most /\ ~Apart(h, u1) /\ From(Q, c1) = From(h, u1)
    <3>1. u1 \in Users(h) /\ TurnsFrom(h, u1) >= most
      BY <2>5, <2>7, <2>9, <2>10
    <3>2. ~Apart(h, u1)
      BY <1>1, <2>5, <2>8, <2>10, FromApart DEF Q, d
    <3>3. From(Q, c1) = From(h, u1)
      BY <1>1, <2>8, <2>10, FromFrom DEF Q, d
    <3> QED
      BY <3>1, <3>2, <3>3
  <2>12. ASSUME NEW u \in Users(h), u < u1, ~Apart(h, u)
         PROVE  ~Fits(p \o From(h, BeginOf(h, u))) \/ (t # 0 /\ TurnsFrom(h, u) > t)
    <3>1. CASE u < c
      BY <1>1, <3>1
    <3>2. CASE ~(u < c) /\ ~(\E v \in Users(h) : v < u)
      <4>1. BeginOf(h, u) = 1
        BY <3>2 DEF BeginOf
      <4>2. CASE c = 1
        BY <1>2, <1>6, <4>1, <4>2
      <4>3. CASE c # 1
        <5>1. {v \in Users(h) : v >= u} = Users(h)
          BY <1>1, <3>2
        <5>2. TurnsFrom(h, u) = Cardinality(Users(h))
          BY <5>1 DEF TurnsFrom
        <5> QED
          BY <1>1, <4>3, <5>2
      <4> QED
        BY <4>2, <4>3
    <3>3. CASE ~(u < c) /\ \E v \in Users(h) : v < u
      <4> DEFINE k == TurnsFrom(h, u)
      <4>1. BeginOf(h, u) = u
        BY <3>3 DEF BeginOf
      <4>2. u \in c .. Len(h) /\ u \in Nat /\ u1 \in Nat
        BY <1>1, <2>10, <3>3
      <4>3. k > TurnsFrom(h, u1) /\ TurnsFrom(h, u1) \in Nat /\ k \in Nat
        BY <2>12, <4>2, TurnsBefore, UsersTyped
      <4>4. k \in Nat \ {0} /\ k > most
        BY <2>4, <2>11, <4>3
      <4>5. u + d \in Nat /\ u + d \in Users(Q) /\ TurnsFrom(Q, u + d) = k /\ ~Apart(Q, u + d)
        <5>1. u + d \in Nat /\ u + d \in Users(Q) /\ TurnsFrom(Q, u + d) = k
          BY <2>9, <2>12, <4>2
        <5>2. ~Apart(Q, u + d)
          BY <1>1, <2>8, <2>12, <4>2, FromApart DEF Q, d
        <5> QED
          BY <5>1, <5>2
      <4>6. k <= n
        BY <1>2, <4>5, UsersTyped DEF n
      <4>7. CASE k < n
        <5>1. CutAt(Q, k) = u + d
          <6> HIDE DEF k
          <6> QED
            BY <1>2, <4>4, <4>5, <4>7, CutIs DEF n
        <5>2. From(Q, u + d) = From(h, u)
          BY <1>1, <2>8, <4>2, FromFrom DEF Q, d
        <5>3. RecentTurns(Q, k) = From(h, u)
          BY <5>1, <5>2 DEF RecentTurns
        <5>4. k \in 1 .. n - 1 /\ k \notin fitting
          <6> HIDE DEF k
          <6>1. \A l \in fitting : l <= most
            BY <2>3
          <6> QED
            BY <2>2, <2>4, <4>4, <4>7, <6>1
        <5>5. ~Fits(p \o RecentTurns(Q, k))
          <6> HIDE DEF k
          <6> QED
            BY <5>4 DEF fitting, n
        <5> QED
          BY <4>1, <5>3, <5>5
      <4>8. CASE k = n
        <5>1. u = c
          <6>1. SUFFICES ASSUME u # c PROVE FALSE
            OBVIOUS
          <6>2. PICK v \in Users(h) : c <= v /\ v < u
            BY <1>1, <3>3, <4>2, <6>1
          <6>3. v \in c .. Len(h) /\ v \in Nat
            BY <1>1, <6>2
          <6>4. TurnsFrom(h, v) > k
            BY <4>2, <6>2, TurnsBefore
          <6>5. v + d \in Nat /\ TurnsFrom(Q, v + d) = TurnsFrom(h, v)
            BY <2>9, <6>3
          <6>6. TurnsFrom(h, v) \in Nat /\ TurnsFrom(h, v) <= n
            BY <1>2, <6>5, UsersTyped DEF n
          <6> QED
            BY <2>2, <4>3, <4>8, <6>4, <6>6
        <5> QED
          BY <1>6, <4>1, <5>1 DEF Q
      <4> QED
        BY <2>2, <4>3, <4>6, <4>7, <4>8
    <3> QED
      BY <3>1, <3>2, <3>3
  <2>13. KeptFrom(h, t, p, u1)
    BY <2>11, <2>12, UserNotLater DEF KeptFrom
  <2>14. r = p \o From(h, u1) /\ Fits(r)
    BY <2>1, <2>4, <2>6, <2>11
  <2> QED
    BY <2>13, <2>14
<1> QED
  BY <1>5, <1>6

-----------------------------------------------------------------------------
(* From the session to the request.                                         *)

Has(s) == s \in SessionType /\ s.covered <= Len(s.history)

\* What the summary leaves, with long results stored elsewhere; where the
\* policy begins in it; and what the policy makes of it.
LeftOf(s) == Offloaded(Projected(s))
StartOf(s) == IF s.turns = 0 THEN 1 ELSE CutAt(LeftOf(s), s.turns)
Remembered(s) == Offloaded(Policy(s))

LEMMA PinnedTyped ==
    ASSUME RequestAssumption, NEW s
    PROVE  Pinned(s) \in Seq(MessageType) /\ Offloaded(Pinned(s)) = Pinned(s)
<1> DEFINE x == Message("system", 1)
           y == Message("answer", 1)
           p == Pinned(s)
<1>1. x \in MessageType /\ y \in MessageType /\ x.kind # "results" /\ y.kind # "results"
  BY DEF Message, MessageType
<1> DEFINE z == <<x>>
           w == IF s.covered = 0 THEN <<>> ELSE <<y>>
<1>2. /\ z \in Seq(MessageType) /\ \A i \in 1 .. Len(z) : z[i].kind # "results"
      /\ w \in Seq(MessageType) /\ \A i \in 1 .. Len(w) : w[i].kind # "results"
  <2> HIDE DEF x, y
  <2>1. z \in Seq(MessageType) /\ \A i \in 1 .. Len(z) : z[i].kind # "results"
    BY <1>1
  <2>2. CASE s.covered = 0
    BY <1>1, <2>1, <2>2
  <2>3. CASE s.covered # 0
    BY <1>1, <2>1, <2>3
  <2> QED
    BY <2>2, <2>3
<1>6. p = z \o w
  BY DEF Pinned
<1> HIDE DEF x, y, z, w, p
<1>3. p \in Seq(MessageType) /\ Len(p) \in Nat /\ \A i \in 1 .. Len(p) : p[i].kind # "results"
  <2>1. /\ p \in Seq(MessageType) /\ Len(p) = Len(z) + Len(w) /\ Len(z) \in Nat /\ Len(w) \in Nat
        /\ \A i \in 1 .. Len(z) + Len(w) : p[i] = IF i <= Len(z) THEN z[i] ELSE w[i - Len(z)]
    BY <1>2, <1>6, ConcatProperties
  <2>2. ASSUME NEW i \in 1 .. Len(p) PROVE p[i].kind # "results"
    <3>1. i \in 1 .. Len(z) + Len(w) /\ (i <= Len(z) => i \in 1 .. Len(z))
          /\ (~(i <= Len(z)) => i - Len(z) \in 1 .. Len(w))
      BY <2>1
    <3> QED
      BY <1>2, <2>1, <3>1
  <2> QED
    BY <2>1, <2>2
<1> DEFINE o == Offloaded(p)
<1>4. o \in Seq(MessageType) /\ Len(o) = Len(p) /\ \A i \in 1 .. Len(p) : o[i] = p[i]
  BY <1>3, OffloadedTyped
<1> HIDE DEF o
<1>5. o = p
  BY <1>3, <1>4, SameMessages
<1> QED
  BY <1>3, <1>5 DEF p, o

LEMMA ProjectedTyped ==
    ASSUME RequestAssumption, NEW s, Has(s)
    PROVE  Projected(s) \in Seq(MessageType) /\ LeftOf(s) \in Seq(MessageType) /\ s.turns \in Nat
<1> DEFINE g == s.history
           k == s.covered + 1
<1>1. g \in Seq(MessageType) /\ s.covered \in Nat /\ s.turns \in Nat /\ s.covered <= Len(g)
  BY DEF Has, SessionType
<1>2. k \in Nat /\ 1 <= k /\ k <= Len(g) + 1
  BY <1>1
<1> HIDE DEF k, g
<1>3. From(g, k) \in Seq(MessageType)
  BY <1>1, <1>2, FromTyped
<1>4. Projected(s) \in Seq(MessageType)
  BY <1>3 DEF Projected, g, k
<1> QED
  BY <1>1, <1>4, OffloadedTyped DEF LeftOf

\* The policy keeps the messages from some turn on.
LEMMA RememberedIs ==
    ASSUME RequestAssumption, NEW s, Has(s)
    PROVE  /\ Remembered(s) = From(LeftOf(s), StartOf(s)) /\ Remembered(s) \in Seq(MessageType)
           /\ BeginsAt(LeftOf(s), s.turns, StartOf(s))
<1> DEFINE g == Projected(s)
           h == LeftOf(s)
           t == s.turns
           c == StartOf(s)
<1>1. g \in Seq(MessageType) /\ h \in Seq(MessageType) /\ t \in Nat /\ h = Offloaded(g)
  BY ProjectedTyped DEF LeftOf
<1>2. Policy(s) = (IF t = 0 THEN g ELSE From(g, CutAt(g, t))) /\ Remembered(s) = Offloaded(Policy(s))
  BY DEF Policy, RecentTurns, Remembered
<1>3. c = (IF t = 0 THEN 1 ELSE CutAt(h, t))
  BY DEF StartOf
<1>4. Len(h) = Len(g) /\ \A i \in 1 .. Len(g) : h[i].kind = g[i].kind /\ h[i].id = g[i].id
  <2> HIDE DEF g, h
  <2> QED
    BY <1>1, OffloadedTyped
<1> HIDE DEF g, h, t, c
<1>5. Len(h) \in Nat /\ Users(h) \subseteq 1 .. Len(h) /\ Cardinality(Users(h)) \in Nat
      /\ From(h, 1) = h
  <2>1. Len(h) \in Nat /\ Users(h) \subseteq 1 .. Len(h) /\ Cardinality(Users(h)) \in Nat
    BY <1>1, UsersTyped
  <2>2. 1 \in Nat /\ 1 <= 1 /\ 1 <= Len(h) + 1
    BY <2>1
  <2>3. From(h, 1) = h
    BY <1>1, <2>2, FromTyped
  <2> QED
    BY <2>1, <2>3
<1>6. CASE t = 0
  <2>1. c = 1 /\ Remembered(s) = h
    BY <1>1, <1>2, <1>3, <1>6
  <2>2. BeginsAt(h, t, 1)
    <3>1. ~Apart(h, 1)
      BY DEF Apart
    <3>2. \A u \in Users(h) : ~(u < 1)
      BY <1>5
    <3> QED
      BY <1>5, <3>1, <3>2 DEF BeginsAt
  <2> QED
    BY <1>1, <1>5, <2>1, <2>2 DEF h, t, c
<1>7. CASE t # 0
  <2>1. t \in Nat \ {0}
    BY <1>1, <1>7
  <2>2. CutAt(g, t) = c
    <3>1. CutAt(h, t) = CutAt(g, t)
      BY <1>1, <1>4, <2>1, AlikeCut
    <3> QED
      BY <1>3, <1>7, <3>1
  <2>3. /\ c = 1 \/ c \in Users(h)
        /\ c \in Nat /\ 1 <= c /\ c <= Len(h) + 1
        /\ ~Apart(h, c)
        /\ Cardinality(Users(h)) <= t => c = 1
        /\ \A u \in Users(h) : u < c => TurnsFrom(h, u) > t
    BY <1>1, <1>3, <1>7, <2>1, CutIs
  <2>4. BeginsAt(h, t, c)
    BY <1>5, <1>7, <2>1, <2>3 DEF BeginsAt
  <2>5. Remembered(s) = From(h, c)
    BY <1>1, <1>2, <1>4, <1>7, <2>2, <2>3, OffloadedFrom
  <2>6. From(h, c) \in Seq(MessageType)
    BY <1>1, <2>3, FromTyped
  <2> QED
    BY <2>4, <2>5, <2>6 DEF h, t, c
<1> QED
  BY <1>6, <1>7

\* RequestWhole of given values.
TurnsWhole(s, r, n) ==
    LET tail == SubSeq(r, n + 1, Len(r))
        said == Offloaded(Projected(s))
        current == IF Users(said) = {} THEN 1 ELSE Max(Users(said))
        Begin(u) == IF \E v \in Users(said) : v < u THEN u ELSE 1
        TooMuch(u) == ~Fits(SubSeq(r, 1, n) \o From(said, Begin(u)))
    IN  \E at \in 1 .. current :
            /\ tail = From(said, at) /\ ~Apart(said, at)
            /\ \A u \in Users(said) : u < at /\ ~Apart(said, u) =>
                   TooMuch(u) \/ (s.turns # 0 /\ TurnsFrom(said, u) > s.turns)
WholeOf(s, r, n) ==
    Fits(r) /\ SubSeq(r, 1, Len(Pinned(s))) = Pinned(s) /\ TurnsWhole(s, r, n)

LEMMA TrimmedWhole ==
    ASSUME RequestAssumption, NEW s, Has(s), NEW adds \in Seq(MessageType),
           NEW r \in Trimmed((Pinned(s) \o adds) \o Remembered(s), Len(Pinned(s) \o adds))
    PROVE  /\ r \in Seq(MessageType) /\ Len(Pinned(s) \o adds) \in 0 .. Len(r)
           /\ WholeOf(s, r, Len(Pinned(s) \o adds))
<1> DEFINE h == LeftOf(s)
           t == s.turns
           c == StartOf(s)
           a == Pinned(s)
           p == a \o adds
           n == Len(p)
<1>1. h \in Seq(MessageType) /\ t \in Nat /\ a \in Seq(MessageType) /\ p \in Seq(MessageType)
      /\ Remembered(s) = From(h, c) /\ BeginsAt(h, t, c)
  <2>1. a \in Seq(MessageType) /\ h \in Seq(MessageType) /\ t \in Nat
        /\ Remembered(s) = From(h, c) /\ BeginsAt(h, t, c)
    BY PinnedTyped, ProjectedTyped, RememberedIs
  <2> HIDE DEF a
  <2> QED
    BY <2>1, MessageParts
<1>2. r \in Trimmed(p \o From(h, c), Len(p))
  BY <1>1
<1>3. h = Offloaded(Projected(s))
  BY DEF LeftOf
<1> HIDE DEF h, t, c, p
<1>4. PICK at : Fits(r) /\ r = p \o From(h, at) /\ KeptFrom(h, t, p, at)
  BY <1>1, <1>2, TrimKeeps
<1> DEFINE q == From(h, at)
<1>5. q \in Seq(MessageType)
  <2>1. at \in 1 .. CurrentOf(h)
    BY <1>4 DEF KeptFrom
  <2>2. CurrentOf(h) \in Nat /\ CurrentOf(h) <= Len(h) + 1
    <3>1. Len(h) \in Nat /\ Users(h) \subseteq 1 .. Len(h)
      BY <1>1, UsersTyped
    <3>2. CASE Users(h) = {}
      BY <3>1, <3>2 DEF CurrentOf
    <3>3. CASE Users(h) # {}
      <4> DEFINE U == Users(h)
      <4>1. U \in SUBSET (1 .. Len(h)) /\ U # {}
        BY <3>1, <3>3
      <4> HIDE DEF U
      <4>2. Max(U) \in U
        BY <3>1, <4>1, MaxInside
      <4> DEFINE m == Max(U)
      <4>3. m \in U
        BY <4>2
      <4> HIDE DEF m
      <4>4. m \in Nat /\ m <= Len(h) + 1
        BY <3>1, <4>1, <4>3
      <4> QED
        BY <3>3, <4>4 DEF CurrentOf, U, m
    <3> QED
      BY <3>2, <3>3
  <2>3. at \in Nat /\ 1 <= at /\ at <= Len(h) + 1
    <3>1. Len(h) \in Nat
      BY <1>1
    <3> QED
      BY <2>1, <2>2, <3>1
  <2> QED
    BY <1>1, <2>3, FromTyped
<1> HIDE DEF q
<1>6. /\ r \in Seq(MessageType) /\ Len(p) \in 0 .. Len(r)
      /\ SubSeq(r, 1, Len(p)) = p /\ SubSeq(r, Len(p) + 1, Len(r)) = q
  BY <1>1, <1>4, <1>5, MessageParts DEF q
<1>7. SubSeq(r, 1, Len(a)) = a
  <2> DEFINE z == adds \o q
  <2>1. z \in Seq(MessageType) /\ r = a \o z
    <3> HIDE DEF a
    <3> QED
      BY <1>1, <1>4, <1>5, MessagesJoin, SMTT(30) DEF p, q
  <2> HIDE DEF z, a
  <2> QED
    BY <1>1, <2>1, MessageParts
<1>8. TurnsWhole(s, r, Len(p))
  <2> DEFINE current == IF Users(h) = {} THEN 1 ELSE Max(Users(h))
             Begin(u) == IF \E v \in Users(h) : v < u THEN u ELSE 1
  <2>1. current = CurrentOf(h) /\ \A u : Begin(u) = BeginOf(h, u)
    BY DEF CurrentOf, BeginOf
  <2>2. /\ at \in 1 .. current /\ ~Apart(h, at)
        /\ \A u \in Users(h) : u < at /\ ~Apart(h, u) =>
              ~Fits(p \o From(h, Begin(u))) \/ (t # 0 /\ TurnsFrom(h, u) > t)
    <3> HIDE DEF current, Begin
    <3> QED
      BY <1>4, <2>1 DEF KeptFrom
  <2> HIDE DEF current
  <2>3. /\ SubSeq(r, Len(p) + 1, Len(r)) = From(h, at)
        /\ \A u \in Users(h) : u < at /\ ~Apart(h, u) =>
              ~Fits(SubSeq(r, 1, Len(p)) \o From(h, Begin(u))) \/ (t # 0 /\ TurnsFrom(h, u) > t)
    <3> HIDE DEF Begin
    <3> QED
      BY <1>6, <2>2 DEF q
  <2>4. \E x \in 1 .. current :
            /\ SubSeq(r, Len(p) + 1, Len(r)) = From(h, x) /\ ~Apart(h, x)
            /\ \A u \in Users(h) : u < x /\ ~Apart(h, u) =>
                  ~Fits(SubSeq(r, 1, Len(p)) \o From(h, Begin(u)))
                  \/ (t # 0 /\ TurnsFrom(h, u) > t)
    BY <2>2, <2>3
  <2> QED
    BY <1>3, <2>4 DEF TurnsWhole, current, t
<1> QED
  BY <1>4, <1>6, <1>7, <1>8 DEF WholeOf, p

-----------------------------------------------------------------------------
(* What is true of the request at every step of its preparation: after the   *)
(* pinned messages come those that the policy keeps, and once the budget has *)
(* been applied the request is whole.                                        *)

RequestInv ==
    /\ Has(session) /\ request \in Seq(MessageType) /\ pinned \in 0 .. Len(request)
    /\ pc = "augmenting" =>
          /\ pinned = Len(Pinned(session))
          /\ request = Pinned(session) \o Remembered(session)
    /\ pc = "budgeting" =>
          \E adds \in Seq(MessageType) :
              /\ pinned = Len(Pinned(session) \o adds)
              /\ request = (Pinned(session) \o adds) \o Remembered(session)
    /\ pc = "encoding" => WholeOf(session, request, pinned)

LEMMA InitRequests == ASSUME RequestAssumption, Init PROVE RequestInv
<1>1. session \in Sessions /\ request = <<>> /\ pinned = 0 /\ pc = "selecting"
  BY DEF Init
<1>2. Has(session)
  BY <1>1 DEF RequestAssumption, Has
<1> QED
  BY <1>1, <1>2 DEF RequestInv

LEMMA SelectKeeps == ASSUME RequestAssumption, RequestInv, Select PROVE RequestInv'
<1> DEFINE s == session
           a == Pinned(s)
           b == Remembered(s)
<1>1. Has(s) /\ request \in Seq(MessageType) /\ pinned \in 0 .. Len(request)
  BY DEF RequestInv
<1>2. CASE Ends("error") /\ UNCHANGED requestVars
  BY <1>1, <1>2 DEF Ends, requestVars, RequestInv
<1>3. CASE ~(Ends("error") /\ UNCHANGED requestVars)
  <2>1. /\ request' = Offloaded(a \o Policy(s)) /\ pinned' = Len(a)
        /\ pc' = "augmenting" /\ session' = s
    BY <1>3 DEF Select
  <2>2. Policy(s) \in Seq(MessageType) /\ a \in Seq(MessageType) /\ b \in Seq(MessageType)
        /\ Offloaded(a) = a
    <3>1. a \in Seq(MessageType) /\ b \in Seq(MessageType) /\ Offloaded(a) = a
      BY <1>1, PinnedTyped, RememberedIs
    <3>2. Policy(s) \in Seq(MessageType)
      <4> DEFINE g == Projected(s)
                 t == s.turns
                 c == CutAt(g, t)
      <4>1. g \in Seq(MessageType) /\ t \in Nat
        BY <1>1, ProjectedTyped
      <4>2. Policy(s) = IF t = 0 THEN g ELSE From(g, c)
        BY DEF Policy, RecentTurns
      <4> HIDE DEF g, t
      <4>3. CASE t = 0
        BY <4>1, <4>2, <4>3
      <4>4. CASE t # 0
        <5>1. t \in Nat \ {0}
          BY <4>1, <4>4
        <5>2. c \in Nat /\ 1 <= c /\ c <= Len(g) + 1
          BY <4>1, <5>1, CutIs
        <5> HIDE DEF c
        <5>3. From(g, c) \in Seq(MessageType)
          BY <4>1, <5>2, FromTyped
        <5> QED
          BY <4>2, <4>4, <5>3
      <4> QED
        BY <4>3, <4>4
    <3> QED
      BY <3>1, <3>2
  <2>3. Offloaded(a \o Policy(s)) = a \o b
    <3> DEFINE w == Policy(s)
    <3>1. w \in Seq(MessageType) /\ b = Offloaded(w)
      BY <2>2 DEF Remembered
    <3> HIDE DEF w, a, b
    <3>2. Offloaded(a \o w) = Offloaded(a) \o Offloaded(w)
      BY <2>2, <3>1, OffloadedJoin
    <3> QED
      BY <2>2, <3>1, <3>2 DEF w
  <2>4. a \o b \in Seq(MessageType) /\ Len(a) \in 0 .. Len(a \o b)
    <3> HIDE DEF a, b
    <3> QED
      BY <2>2, MessageParts
  <2> HIDE DEF a, b, s
  <2>5. request' = a \o b /\ pinned' = Len(a)
    BY <2>1, <2>3
  <2> QED
    BY <1>1, <2>1, <2>4, <2>5 DEF RequestInv, a, b, s
<1> QED
  BY <1>2, <1>3

LEMMA AugmentKeeps == ASSUME RequestAssumption, RequestInv, Augment PROVE RequestInv'
<1> DEFINE a == Pinned(session)
           b == Remembered(session)
<1>1. /\ Has(session) /\ pc = "augmenting" /\ pinned = Len(a) /\ request = a \o b
      /\ pc' = "budgeting" /\ session' = session
  BY DEF RequestInv, Augment
<1>2. a \in Seq(MessageType) /\ b \in Seq(MessageType)
  BY <1>1, PinnedTyped, RememberedIs
<1>3. PICK n \in 0 .. MaxAdditions :
          /\ request' = SubSeq(request, 1, pinned)
                        \o [i \in 1 .. n |-> Message("user", 1)]
                        \o SubSeq(request, pinned + 1, Len(request))
          /\ pinned' = pinned + n
  BY DEF Augment
<1> DEFINE m == Message("user", 1)
           adds == [i \in 1 .. n |-> m]
<1>4. m \in MessageType
  BY DEF Message, MessageType
<1>5. n \in Nat
  BY DEF RequestAssumption
<1>6. adds \in Seq(MessageType) /\ Len(adds) = n
  <2> HIDE DEF m
  <2> QED
    BY <1>4, <1>5
<1>7. /\ request' = (SubSeq(request, 1, pinned) \o adds) \o SubSeq(request, pinned + 1, Len(request))
  BY <1>3
<1> HIDE DEF a, b, adds
<1>8. SubSeq(request, 1, pinned) = a /\ SubSeq(request, pinned + 1, Len(request)) = b
  BY <1>1, <1>2, MessageParts
<1> DEFINE p == a \o adds
<1>9. p \in Seq(MessageType) /\ Len(p) = pinned + n
  BY <1>1, <1>2, <1>6, MessageParts
<1>10. request' = p \o b /\ pinned' = Len(p)
  BY <1>3, <1>7, <1>8, <1>9
<1>11. p \o b \in Seq(MessageType) /\ Len(p) \in 0 .. Len(p \o b)
  <2> HIDE DEF p
  <2> QED
    BY <1>2, <1>9, MessageParts
<1>12. \E more \in Seq(MessageType) :
          /\ pinned' = Len(Pinned(session) \o more)
          /\ request' = (Pinned(session) \o more) \o Remembered(session)
  BY <1>6, <1>10 DEF p, a, b
<1> HIDE DEF p
<1> QED
  BY <1>1, <1>10, <1>11, <1>12 DEF RequestInv

LEMMA BudgetKeeps == ASSUME RequestAssumption, RequestInv, ApplyBudget PROVE RequestInv'
<1>1. Has(session) /\ request \in Seq(MessageType) /\ pinned \in 0 .. Len(request)
      /\ pc = "budgeting"
  BY DEF RequestInv, ApplyBudget
<1>2. CASE Ends("error") /\ UNCHANGED requestVars
  BY <1>1, <1>2 DEF Ends, requestVars, RequestInv
<1>3. CASE ~(Ends("error") /\ UNCHANGED requestVars)
  <2>1. /\ request' \in Trimmed(request, pinned) /\ pc' = "encoding"
        /\ session' = session /\ pinned' = pinned
    BY <1>3 DEF ApplyBudget
  <2>2. PICK adds \in Seq(MessageType) :
          /\ pinned = Len(Pinned(session) \o adds)
          /\ request = (Pinned(session) \o adds) \o Remembered(session)
    BY <1>1 DEF RequestInv
  <2> DEFINE r == request'
             n == Len(Pinned(session) \o adds)
  <2>3. r \in Trimmed((Pinned(session) \o adds) \o Remembered(session), n)
    BY <2>1, <2>2
  <2> HIDE DEF r
  <2>4. r \in Seq(MessageType) /\ n \in 0 .. Len(r) /\ WholeOf(session, r, n)
    BY <1>1, <2>3, TrimmedWhole
  <2> QED
    BY <1>1, <2>1, <2>2, <2>4 DEF RequestInv, r
<1> QED
  BY <1>2, <1>3

LEMMA RequestStep ==
    ASSUME RequestAssumption, SendInv, RequestInv, [Next]_vars
    PROVE  RequestInv'
<1>1. CASE Prepare
  <2>1. CASE Select
    BY <2>1, SelectKeeps
  <2>2. CASE Augment
    BY <2>2, AugmentKeeps
  <2>3. CASE ApplyBudget
    BY <2>3, BudgetKeeps
  <2>4. CASE OffloadFails \/ AugmentFails \/ BudgetFails \/ HookFails \/ EncodeFails
    <3>1. pc' = "done" /\ UNCHANGED <<session, request, pinned>>
      BY <2>4 DEF OffloadFails, AugmentFails, BudgetFails, HookFails, EncodeFails, Fails, Ends,
         requestVars
    <3> QED
      BY <3>1 DEF RequestInv
  <2> QED
    BY <1>1, <2>1, <2>2, <2>3, <2>4 DEF Prepare, Preparation
<1>2. CASE Call
  <2>1. session' = NoSession /\ request' = <<>> /\ pinned' = 0 /\ pc' = "requesting"
    BY <1>2 DEF Call, Encode
  <2>2. Has(NoSession)
    <3>1. /\ NoSession = [history |-> <<>>, covered |-> 0, turns |-> 0]
          /\ <<>> \in Seq(MessageType) /\ Len(<<>>) = 0
      BY DEF NoSession, Session
    <3>2. NoSession \in SessionType
      BY <3>1 DEF SessionType
    <3> QED
      BY <3>1, <3>2 DEF Has
  <2> QED
    BY <2>1, <2>2 DEF RequestInv
<1>3. CASE StatusError \/ TransportError \/ Wake \/ Succeeds \/ Generated \/ BodyFails \/ Interrupt
  <2>1. pc' \in {"waiting", "requesting", "reading", "done"} /\ UNCHANGED <<session, request, pinned>>
    BY <1>3 DEF StatusError, TransportError, RetryOrFail, Wake, Succeeds, Generated, BodyFails,
       Interrupt, Ends, setting, requestVars
  <2> QED
    BY <2>1 DEF RequestInv
<1>4. CASE Read
  <2>1. pc' \in {"reading", "done"} /\ UNCHANGED <<session, request, pinned>>
    BY <1>4 DEF Read, Deliver, TakeFrame, ReceiveChunk, EndOfBody, StreamOver, Drained,
       NeedsMore, Streaming, Ends, setting, requestVars
  <2> QED
    BY <2>1 DEF RequestInv
<1>5. CASE UNCHANGED vars
  <2>1. UNCHANGED <<pc, session, request, pinned>>
    BY <1>5 DEF vars, setting, requestVars
  <2> QED
    BY <2>1 DEF RequestInv
<1> QED
  BY <1>1, <1>2, <1>3, <1>4, <1>5 DEF Next, Send

\* Every request that is sent fits the window and tells the truth about the
\* conversation: the pinned messages, then all of what the summary leaves from
\* a turn on that is not after the current one, apart from no call that it
\* answers, and no fewer turns than must be.
THEOREM RequestsWhole == Spec => []RequestWhole
<1>1. Init => SendInv /\ RequestInv
  BY InitSends, InitRequests, ConstantsAssumption, RequestAssumption
<1>2. SendInv /\ RequestInv /\ [Next]_vars => SendInv' /\ RequestInv'
  BY SendStep, RequestStep, ConstantsAssumption, RequestAssumption
<1>3. RequestInv => RequestWhole
  BY DEF RequestInv, RequestWhole, WholeOf, TurnsWhole, WholeTurns
<1> QED
  BY <1>1, <1>2, <1>3, PTL DEF Spec

-----------------------------------------------------------------------------
(* The stream, whatever pieces the network delivers it in.                  *)

Undecided == pc # "done" => outcome = "none"

LEMMA UndecidedStep == ASSUME SendInv, Undecided, [Next]_vars PROVE Undecided'
<1>1. CASE Prepare \/ Call
  BY <1>1 DEF Undecided, Prepare, Preparation, Select, Augment, ApplyBudget, OffloadFails,
     AugmentFails, BudgetFails, HookFails, EncodeFails, Fails, Ends, Call, Encode
<1>2. CASE StatusError \/ TransportError \/ Wake \/ Succeeds
  BY <1>2 DEF Undecided, StatusError, TransportError, RetryOrFail, Wake, Succeeds, Ends
<1>3. CASE Generated \/ BodyFails \/ Interrupt
  BY <1>3 DEF Undecided, Generated, BodyFails, Interrupt, Ends
<1>4. CASE Read
  BY <1>4 DEF Undecided, Read, Deliver, TakeFrame, ReceiveChunk, EndOfBody, StreamOver, Drained,
     NeedsMore, Streaming, Ends
<1>5. CASE UNCHANGED vars
  BY <1>5 DEF Undecided, vars
<1> QED
  BY <1>1, <1>2, <1>3, <1>4, <1>5 DEF Next, Send

LEMMA InitStreams ==
    ASSUME ConstantsAssumption, Init
    PROVE  StreamTyped /\ StreamInv /\ Undecided
<1>1. /\ mode = "none" /\ schema = FALSE /\ wire = <<>> /\ arrived = 0 /\ buffer = <<>>
      /\ decoder = NewDecoder /\ acc = NewAccumulator /\ outcome = "none"
  BY DEF Init
<1>2. NewDecoder \in Decoders /\ NewAccumulator \in Accs
  BY NewTyped, NewAccumulatorTyped
<1>3. 0 \in 0 .. Len(wire) /\ buffer \in Seq(Tokens)
  BY <1>1
<1>4. StreamTyped
  BY <1>1, <1>2, <1>3 DEF StreamTyped
<1>5. mode # "stream"
  BY <1>1
<1> QED
  BY <1>1, <1>4, <1>5 DEF StreamInv, Undecided

\* What is true of a model call from its session to its answer.
CallInv == SendInv /\ RequestInv /\ StreamTyped /\ StreamInv /\ Undecided

LEMMA CallKept == Spec => []CallInv
<1>1. Init => CallInv
  BY InitSends, InitRequests, InitStreams, ConstantsAssumption, RequestAssumption DEF CallInv
<1>2. CallInv /\ [Next]_vars => CallInv'
  <2> SUFFICES ASSUME CallInv, [Next]_vars PROVE CallInv'
    OBVIOUS
  <2>1. SendInv' /\ RequestInv' /\ StreamTyped' /\ Undecided'
    BY SendStep, RequestStep, StreamTypedStep, UndecidedStep, ConstantsAssumption,
       RequestAssumption DEF CallInv
  <2>2. StreamInv'
    <3>1. pc # "done" => outcome = "none"
      BY DEF Undecided, CallInv
    <3> QED
      BY <2>1, <3>1, StreamStep, ConstantsAssumption DEF CallInv
  <2> QED
    BY <2>1, <2>2 DEF CallInv
<1> QED
  BY <1>1, <1>2, PTL DEF Spec

LEMMA CallTyped == ASSUME CallInv PROVE TypeOK
<1>1. session.covered \in 0 .. Len(session.history) /\ pinned \in 0 .. Len(request)
  <2> DEFINE k == session.covered
             l == Len(session.history)
  <2>1. k \in Nat /\ l \in Nat /\ k <= l
    BY DEF CallInv, RequestInv, Has, SessionType
  <2> HIDE DEF k, l
  <2>2. k \in 0 .. l
    BY <2>1
  <2> QED
    BY <2>2 DEF CallInv, RequestInv, k, l
<1>2. decoder.pending \in Seq(Events) /\ acc.state \in {"open", "finished", "error"}
  BY DEF CallInv, StreamTyped, Decoders, Accs
<1> QED
  BY <1>1, <1>2 DEF CallInv, TypeOK, StreamTyped, SendInv, Preparing

\* Type correctness of a model call: what the request has pinned is a part of
\* it, the chunks that arrived are a part of the body, the retries stay within
\* the policy, and decoder and accumulator hold events and blocks.
THEOREM TypeCorrect == Spec => []TypeOK
<1>1. CallInv => TypeOK
  BY CallTyped
<1> QED
  BY <1>1, CallKept, PTL

\* However the network cuts the body, the accumulator has been told a first
\* part of the events of the whole body, and all of them when the stream has
\* ended by itself.
THEOREM BodyCutsIrrelevant == Spec => []ChunkingIrrelevant
<1>1. CallInv => ChunkingIrrelevant
  <2> SUFFICES ASSUME CallInv PROVE ChunkingIrrelevant
    OBVIOUS
  <2>1. TypeOK
    BY CallTyped
  <2>2. ASSUME mode = "stream", wire # <<>>
        PROVE  \E n \in 0 .. Len(WholeEvents(wire, schema)) :
                  /\ SeenSoFar(n)
                  /\ outcome \in {"response", "error"} =>
                         SeenSoFar(Len(WholeEvents(wire, schema)))
    <3>1. pc \in {"reading", "done"}
      BY <2>2 DEF CallInv, SendInv, Untouched
    <3>2. \E n : SeenFirst(n)
      BY <2>2, <3>1 DEF CallInv, StreamInv, Reading
    <3>3. outcome \in {"response", "error"} => SeenFirst(Len(WholeEvents(wire, schema)))
      BY <2>2 DEF CallInv, StreamInv
    <3>4. \A n : SeenFirst(n) =>
                    n \in 0 .. Len(WholeEvents(wire, schema)) /\ SeenSoFar(n)
      BY DEF SeenFirst, SeenSoFar, FirstEvents
    <3> QED
      BY <3>2, <3>3, <3>4
  <2> QED
    BY <2>1, <2>2 DEF ChunkingIrrelevant
<1> QED
  BY <1>1, CallKept, PTL


-----------------------------------------------------------------------------
(* The message that a body spells out.                                      *)

Spellings == [think: Text, text: Text, tools: Seq(DeltaType), usage: Nat, finish: Names]

LEMMA SpellTyped ==
    ASSUME NEW m \in Spellings, NEW c \in TokenType
    PROVE  Spell(m, c) \in Spellings
<1>1. /\ m.think \in Seq({"{", "}"}) /\ m.text \in Seq({"{", "}"})
      /\ m.tools \in Seq(DeltaType) /\ m.usage \in Nat /\ m.finish \in Names
  BY DEF Spellings, Text
<1>2. /\ c.think \in Seq({"{", "}"}) /\ c.text \in Seq({"{", "}"})
      /\ c.tools \in Seq(DeltaType) /\ c.amount \in Nat /\ c.finish \in Names
  BY DEF TokenType, Text
<1> DEFINE think == m.think \o c.think
           text == m.text \o c.text
           tools == m.tools \o c.tools
           usage == IF c.usage = "ok" THEN m.usage + c.amount ELSE m.usage
           finish == IF c.finish = "none" THEN m.finish ELSE c.finish
<1>3. think \in Text /\ text \in Text
  BY <1>1, <1>2, ConcatProperties DEF Text
<1>4. tools \in Seq(DeltaType)
  BY <1>1, <1>2, ConcatProperties
<1>5. usage \in Nat /\ finish \in Names
  <2>1. m.usage \in Nat /\ c.amount \in Nat
    BY <1>1, <1>2
  <2>2. usage \in Nat
    BY <2>1
  <2>3. finish \in Names
    BY <1>1, <1>2, Zenon
  <2> QED
    BY <2>2, <2>3
<1>6. Spell(m, c) = IF c.is # "data" THEN m
                    ELSE [think |-> think, text |-> text, tools |-> tools,
                          usage |-> usage, finish |-> finish]
  BY DEF Spell
<1> HIDE DEF think, text, tools, usage, finish
<1> QED
  BY <1>3, <1>4, <1>5, <1>6 DEF Spellings

LEMMA SilentTyped == ASSUME ConstantsAssumption PROVE Silent \in Spellings
<1>1. "none" \in Names
  BY DEF ConstantsAssumption
<1>2. <<>> \in Text /\ <<>> \in Seq(DeltaType)
  BY DEF Text
<1> QED
  BY <1>1, <1>2 DEF Silent, Spellings

Spelling == [x \in Spellings \X TokenType |-> Spell(x[1], x[2])]

LEMMA SpellingTyped ==
    /\ Spelling \in [Spellings \X TokenType -> Spellings]
    /\ \A m \in Spellings, c \in TokenType : Spelling[<<m, c>>] = Spell(m, c)
<1>1. \A x \in Spellings \X TokenType : x[1] \in Spellings /\ x[2] \in TokenType
  OBVIOUS
<1>2. \A x \in Spellings \X TokenType : Spell(x[1], x[2]) \in Spellings
  BY <1>1, SpellTyped
<1> QED
  BY <1>2 DEF Spelling

LEMMA SpelledIs ==
    ASSUME ConstantsAssumption, NEW w \in Seq(TokenType)
    PROVE  Spelled(w) = Iterated(Silent, Spelling, w)
<1> DEFINE n == Len(w)
           Spells(h) == h = [r \in SUBSET (1 .. n) |->
                              IF r = {} THEN Silent ELSE Spell(h[r \ {Max(r)}], w[Max(r)])]
           h == CHOOSE h : Spells(h)
<1>1. n \in Nat /\ Len(w) = n /\ DOMAIN w = 1 .. n
      /\ \A i \in 1 .. n : w[i] \in TokenType
  OBVIOUS
<1>2. Spelled(w) = h[1 .. n]
  BY <1>1 DEF Spelled, FoldLeft, MapThenFoldSet
<1> HIDE DEF n
<1>3. PICK g : Iteration(g, Silent, Spelling, w, n)
               /\ Iterated(Silent, Spelling, w) = g[1 .. n]
  <2>1. n \in Nat /\ Len(w) = n
    BY <1>1
  <2> HIDE DEF Spells, h
  <2> QED
    BY <2>1, IterationChosen
<1>4. \A r \in SUBSET (1 .. n) : g[r] \in Spellings
  <2>1. Silent \in Spellings /\ Spelling \in [Spellings \X TokenType -> Spellings]
    BY SilentTyped, SpellingTyped
  <2> QED
    BY <1>1, <1>3, <2>1, IterationTyped, Zenon
<1>5. ASSUME NEW r \in SUBSET (1 .. n), r # {}
      PROVE  g[r] = Spell(g[r \ {Max(r)}], w[Max(r)])
  <2>1. Max(r) \in 1 .. n
    BY <1>1, <1>5, MaxInside
  <2>2. g[r] = Spelling[<<g[r \ {Max(r)}], w[Max(r)]>>]
    BY <1>3, <1>5 DEF Iteration
  <2>3. r \ {Max(r)} \in SUBSET (1 .. n)
    OBVIOUS
  <2>4. g[r \ {Max(r)}] \in Spellings /\ w[Max(r)] \in TokenType
    BY <1>1, <1>4, <2>1, <2>3
  <2> QED
    BY <2>2, <2>4, SpellingTyped
<1>6. g[{}] = Silent /\ g = [r \in SUBSET (1 .. n) |-> g[r]]
  BY <1>3 DEF Iteration
<1>7. Spells(g)
  <2>1. ASSUME NEW r \in SUBSET (1 .. n)
        PROVE  g[r] = IF r = {} THEN Silent ELSE Spell(g[r \ {Max(r)}], w[Max(r)])
    BY <1>5, <1>6, Zenon
  <2> QED
    BY <1>6, <2>1
<1>8. Spells(h)
  <2> HIDE DEF Spells
  <2> QED
    BY <1>7
<1>9. g[1 .. n] = h[1 .. n]
  <2>1. g[{}] = h[{}]
    BY <1>6, <1>8
  <2>2. ASSUME NEW r \in SUBSET (1 .. n), r # {}, g[r \ {Max(r)}] = h[r \ {Max(r)}]
        PROVE  g[r] = h[r]
    <3>1. h[r] = Spell(h[r \ {Max(r)}], w[Max(r)])
      BY <1>8, <2>2
    <3>2. g[r] = Spell(g[r \ {Max(r)}], w[Max(r)])
      BY <1>5, <2>2
    <3> QED
      BY <2>2, <3>1, <3>2
  <2> HIDE DEF Spells, h
  <2> QED
    BY <1>1, <2>1, <2>2, SameIteration, ZenonT(60)
<1> QED
  BY <1>2, <1>3, <1>9

\* The message of no tokens, of the first ones, and of one more.
LEMMA SpelledNext ==
    ASSUME ConstantsAssumption, NEW w \in Seq(TokenType), NEW k \in Nat, k <= Len(w)
    PROVE  /\ Spelled(SubSeq(w, 1, 0)) = Silent
           /\ Spelled(SubSeq(w, 1, k)) \in Spellings
           /\ k < Len(w) =>
                 Spelled(SubSeq(w, 1, k + 1)) = Spell(Spelled(SubSeq(w, 1, k)), w[k + 1])
<1> DEFINE q == SubSeq(w, 1, k)
<1>1. q \in Seq(TokenType)
  OBVIOUS
<1>2. Spelled(q) \in Spellings
  <2>1. Silent \in Spellings /\ Spelling \in [Spellings \X TokenType -> Spellings]
    BY SilentTyped, SpellingTyped
  <2> HIDE DEF q
  <2>2. Iterated(Silent, Spelling, q) \in Spellings
    BY <1>1, <2>1, IteratedTyped, Zenon
  <2> QED
    BY <1>1, <2>2, SpelledIs
<1>3. Spelled(SubSeq(w, 1, 0)) = Silent
  <2>1. SubSeq(w, 1, 0) = <<>> /\ <<>> \in Seq(TokenType)
    BY SubSeqEmpty
  <2>2. Spelled(<<>>) = Iterated(Silent, Spelling, <<>>)
    BY <2>1, SpelledIs
  <2>3. <<>> \in Seq({1}) /\ 1 \in {1}
    OBVIOUS
  <2>4. Iterated(Silent, Spelling, <<>>) = Silent
    BY <2>3, IteratedAppend
  <2> QED
    BY <2>1, <2>2, <2>4
<1>4. ASSUME k < Len(w) PROVE Spelled(SubSeq(w, 1, k + 1)) = Spell(Spelled(q), w[k + 1])
  <2> DEFINE c == w[k + 1]
             r == SubSeq(w, 1, k + 1)
  <2>1. c \in TokenType /\ r = Append(q, c)
    BY <1>4, OneMore
  <2> HIDE DEF q, c, r
  <2>2. r \in Seq(TokenType)
    BY <1>1, <2>1, AppendProperties
  <2>3. Spelled(r) = Spelling[<<Spelled(q), c>>]
    <3>1. Spelled(r) = Iterated(Silent, Spelling, r) /\ Spelled(q) = Iterated(Silent, Spelling, q)
      BY <1>1, <2>2, SpelledIs
    <3>2. Iterated(Silent, Spelling, Append(q, c)) = Spelling[<<Iterated(Silent, Spelling, q), c>>]
      BY <1>1, <2>1, IteratedAppend
    <3> QED
      BY <2>1, <3>1, <3>2
  <2>4. Spelled(r) = Spell(Spelled(q), c)
    BY <1>2, <2>1, <2>3, SpellingTyped
  <2> QED
    BY <2>4 DEF q, c, r
<1> QED
  BY <1>2, <1>3, <1>4

Joining(i) ==
    [x \in Text \X DeltaType |-> IF x[2].index = i THEN x[1] \o x[2].args ELSE x[1]]

LEMMA JoiningTyped ==
    ASSUME NEW i
    PROVE  /\ Joining(i) \in [Text \X DeltaType -> Text]
           /\ \A s \in Text, t \in DeltaType :
                 Joining(i)[<<s, t>>] = IF t.index = i THEN s \o t.args ELSE s
<1>1. \A x \in Text \X DeltaType : x[1] \in Text /\ x[2] \in DeltaType
  OBVIOUS
<1>2. \A s \in Text, t \in DeltaType : s \o t.args \in Text
  <2> TAKE s \in Text, t \in DeltaType
  <2>1. t.args \in Text
    BY DEF DeltaType
  <2> QED
    BY <2>1, ConcatProperties DEF Text
<1>3. \A x \in Text \X DeltaType : (IF x[2].index = i THEN x[1] \o x[2].args ELSE x[1]) \in Text
  BY <1>1, <1>2
<1> QED
  BY <1>3 DEF Joining

LEMMA ArgumentsAre ==
    ASSUME NEW deltas \in Seq(DeltaType), NEW i
    PROVE  Arguments(deltas, i) = Iterated(<<>>, Joining(i), deltas)
<1> DEFINE n == Len(deltas)
           Joins(h) == h = [r \in SUBSET (1 .. n) |->
                              IF r = {} THEN <<>>
                              ELSE IF deltas[Max(r)].index = i
                              THEN h[r \ {Max(r)}] \o deltas[Max(r)].args
                              ELSE h[r \ {Max(r)}]]
           h == CHOOSE h : Joins(h)
<1>1. n \in Nat /\ Len(deltas) = n /\ DOMAIN deltas = 1 .. n
      /\ \A j \in 1 .. n : deltas[j] \in DeltaType
  OBVIOUS
<1>2. Arguments(deltas, i) = h[1 .. n]
  BY <1>1 DEF Arguments, FoldLeft, MapThenFoldSet
<1> HIDE DEF n
<1>3. PICK g : Iteration(g, <<>>, Joining(i), deltas, n)
               /\ Iterated(<<>>, Joining(i), deltas) = g[1 .. n]
  <2>1. n \in Nat /\ Len(deltas) = n
    BY <1>1
  <2> DEFINE step == Joining(i)
  <2> HIDE DEF step, Joins, h
  <2>2. \E g : Iteration(g, <<>>, step, deltas, n)
               /\ Iterated(<<>>, step, deltas) = g[1 .. n]
    BY <2>1, IterationChosen
  <2> QED
    BY <2>2 DEF step
<1>4. \A r \in SUBSET (1 .. n) : g[r] \in Text
  <2>1. <<>> \in Text /\ Joining(i) \in [Text \X DeltaType -> Text]
    <3>1. <<>> \in Text
      BY DEF Text
    <3> QED
      BY <3>1, JoiningTyped
  <2> QED
    BY <1>1, <1>3, <2>1, IterationTyped, Zenon
<1>5. ASSUME NEW r \in SUBSET (1 .. n), r # {}
      PROVE  g[r] = IF deltas[Max(r)].index = i
                    THEN g[r \ {Max(r)}] \o deltas[Max(r)].args ELSE g[r \ {Max(r)}]
  <2>1. Max(r) \in 1 .. n
    BY <1>1, <1>5, MaxInside
  <2>2. g[r] = Joining(i)[<<g[r \ {Max(r)}], deltas[Max(r)]>>]
    BY <1>3, <1>5 DEF Iteration
  <2>3. r \ {Max(r)} \in SUBSET (1 .. n)
    OBVIOUS
  <2>4. g[r \ {Max(r)}] \in Text /\ deltas[Max(r)] \in DeltaType
    BY <1>1, <1>4, <2>1, <2>3
  <2> QED
    BY <2>2, <2>4, JoiningTyped
<1>6. g[{}] = <<>> /\ g = [r \in SUBSET (1 .. n) |-> g[r]]
  BY <1>3 DEF Iteration
<1>7. Joins(g)
  <2>1. ASSUME NEW r \in SUBSET (1 .. n)
        PROVE  g[r] = IF r = {} THEN <<>>
                      ELSE IF deltas[Max(r)].index = i
                      THEN g[r \ {Max(r)}] \o deltas[Max(r)].args ELSE g[r \ {Max(r)}]
    BY <1>5, <1>6, Zenon
  <2> QED
    BY <1>6, <2>1
<1>8. Joins(h)
  <2> HIDE DEF Joins
  <2> QED
    BY <1>7
<1>9. g[1 .. n] = h[1 .. n]
  <2>1. g[{}] = h[{}]
    BY <1>6, <1>8
  <2>2. ASSUME NEW r \in SUBSET (1 .. n), r # {}, g[r \ {Max(r)}] = h[r \ {Max(r)}]
        PROVE  g[r] = h[r]
    <3>1. h[r] = IF deltas[Max(r)].index = i
                 THEN h[r \ {Max(r)}] \o deltas[Max(r)].args ELSE h[r \ {Max(r)}]
      BY <1>8, <2>2
    <3>2. g[r] = IF deltas[Max(r)].index = i
                 THEN g[r \ {Max(r)}] \o deltas[Max(r)].args ELSE g[r \ {Max(r)}]
      BY <1>5, <2>2
    <3> QED
      BY <2>2, <3>1, <3>2
  <2> HIDE DEF Joins, h
  <2> QED
    BY <1>1, <2>1, <2>2, SameIteration, ZenonT(60)
<1> QED
  BY <1>2, <1>3, <1>9

\* The arguments that the first deltas spell, and those of one more.
LEMMA ArgumentsNext ==
    ASSUME NEW deltas \in Seq(DeltaType), NEW i, NEW k \in Nat, k <= Len(deltas)
    PROVE  /\ Arguments(SubSeq(deltas, 1, 0), i) = <<>>
           /\ Arguments(SubSeq(deltas, 1, k), i) \in Text
           /\ k < Len(deltas) =>
                 Arguments(SubSeq(deltas, 1, k + 1), i)
                    = IF deltas[k + 1].index = i
                      THEN Arguments(SubSeq(deltas, 1, k), i) \o deltas[k + 1].args
                      ELSE Arguments(SubSeq(deltas, 1, k), i)
<1> DEFINE q == SubSeq(deltas, 1, k)
           step == Joining(i)
<1>1. q \in Seq(DeltaType)
  OBVIOUS
<1>2. <<>> \in Text /\ step \in [Text \X DeltaType -> Text]
  <2>1. <<>> \in Text
    BY DEF Text
  <2> QED
    BY <2>1, JoiningTyped
<1>3. \A x \in Seq(DeltaType) : Arguments(x, i) = Iterated(<<>>, step, x)
  BY ArgumentsAre
<1>4. \A s \in Text, t \in DeltaType :
         step[<<s, t>>] = IF t.index = i THEN s \o t.args ELSE s
  BY JoiningTyped
<1> HIDE DEF q, step
<1>5. Arguments(q, i) \in Text
  <2>1. Iterated(<<>>, step, q) \in Text
    BY <1>1, <1>2, IteratedTyped, Zenon
  <2> QED
    BY <1>1, <1>3, <2>1
<1>6. Arguments(SubSeq(deltas, 1, 0), i) = <<>>
  <2>1. SubSeq(deltas, 1, 0) = <<>> /\ <<>> \in Seq(DeltaType) /\ <<>> \in Seq({1}) /\ 1 \in {1}
    BY SubSeqEmpty
  <2>2. Iterated(<<>>, step, <<>>) = <<>>
    BY <2>1, IteratedAppend
  <2> QED
    BY <1>3, <2>1, <2>2
<1>7. ASSUME k < Len(deltas)
      PROVE  Arguments(SubSeq(deltas, 1, k + 1), i)
                = IF deltas[k + 1].index = i THEN Arguments(q, i) \o deltas[k + 1].args
                  ELSE Arguments(q, i)
  <2> DEFINE t == deltas[k + 1]
             r == SubSeq(deltas, 1, k + 1)
  <2>1. t \in DeltaType /\ r = Append(q, t)
    BY <1>7, OneMore DEF q
  <2> HIDE DEF t, r
  <2>2. r \in Seq(DeltaType)
    BY <1>1, <2>1, AppendProperties
  <2>3. Iterated(<<>>, step, Append(q, t)) = step[<<Iterated(<<>>, step, q), t>>]
    BY <1>1, <2>1, IteratedAppend
  <2>4. Arguments(r, i) = step[<<Arguments(q, i), t>>]
    BY <1>1, <1>3, <2>1, <2>2, <2>3
  <2>5. step[<<Arguments(q, i), t>>]
           = IF t.index = i THEN Arguments(q, i) \o t.args ELSE Arguments(q, i)
    BY <1>4, <1>5, <2>1
  <2> QED
    BY <2>4, <2>5 DEF t, r
<1> QED
  BY <1>5, <1>6, <1>7 DEF q

\* The indices of the first k deltas.
Indices(deltas, k) == {deltas[j].index : j \in 1 .. k}

LEMMA ArgumentsNone ==
    ASSUME NEW deltas \in Seq(DeltaType), NEW i, NEW k \in Nat, k <= Len(deltas),
           i \notin Indices(deltas, k)
    PROVE  Arguments(SubSeq(deltas, 1, k), i) = <<>>
<1> DEFINE T == {l \in Nat : l <= k => Arguments(SubSeq(deltas, 1, l), i) = <<>>}
<1>0. Len(deltas) \in Nat
  OBVIOUS
<1>1. 0 \in T
  BY ArgumentsNext
<1>2. ASSUME NEW l \in T PROVE l + 1 \in T
  <2>1. ASSUME l + 1 <= k PROVE Arguments(SubSeq(deltas, 1, l + 1), i) = <<>>
    <3>1. l \in Nat /\ l <= k /\ l < Len(deltas) /\ l <= Len(deltas) /\ l + 1 \in 1 .. k
      BY <1>0, <2>1
    <3>2. deltas[l + 1].index # i
      BY <3>1 DEF Indices
    <3>3. Arguments(SubSeq(deltas, 1, l), i) = <<>>
      BY <3>1
    <3> QED
      BY <3>1, <3>2, <3>3, ArgumentsNext
  <2> QED
    BY <2>1
<1>3. T = Nat
  <2>1. T \subseteq Nat
    OBVIOUS
  <2> HIDE DEF T
  <2> QED
    BY <1>1, <1>2, <2>1, Induct
<1>4. k \in T
  <2> HIDE DEF T
  <2> QED
    BY <1>3
<1> QED
  BY <1>4

\* The identity of a call is that of its first delta.
LEMMA FirstOfCall ==
    ASSUME NEW deltas \in Seq(DeltaType), NEW k \in Nat, k < Len(deltas),
           deltas[k + 1].index \notin Indices(deltas, k)
    PROVE  /\ CallOf(deltas, deltas[k + 1].index).key = deltas[k + 1].id
           /\ CallOf(deltas, deltas[k + 1].index).name = deltas[k + 1].name
<1> DEFINE i == deltas[k + 1].index
           own == Own(deltas, i)
<1>1. own \subseteq Nat /\ own \subseteq 1 .. Len(deltas) /\ k + 1 \in own
  BY DEF Own
<1>2. \A j \in own : j \notin 1 .. k
  BY DEF Own, Indices
<1> HIDE DEF own
<1>3. Min(own) \in own /\ \A j \in own : Min(own) <= j
  BY <1>1, LeastOf
<1>4. Min(own) = k + 1
  <2> DEFINE u == Min(own)
  <2>1. u \in Nat /\ u \in 1 .. Len(deltas) /\ u <= k + 1 /\ u \notin 1 .. k
    BY <1>1, <1>2, <1>3
  <2> HIDE DEF u
  <2> QED
    BY <2>1 DEF u
<1> QED
  BY <1>4 DEF CallOf, own

\* The accumulator holds these blocks, each under its own key.
Held(content, S) ==
    /\ Range(content) = S
    /\ \A i, j \in DOMAIN content : content[i].key = content[j].key => i = j

BlockOf(e) == [kind |-> e.kind, key |-> e.key, name |-> e.name, text |-> e.delta]
Extending(b, e) == [b EXCEPT !.text = @ \o e.delta]

LEMMA BlockStarted ==
    ASSUME NEW a \in Accs, NEW e \in Events, NEW S, Held(a.content, S), \A b \in S : b.key # e.key
    PROVE  /\ Held(ApplyDelta(a, e).content, S \cup {BlockOf(e)})
           /\ ApplyDelta(a, e).state = a.state /\ ApplyDelta(a, e).usage = a.usage
<1> DEFINE c == a.content
           n == Len(c)
           new == BlockOf(e)
           r == Append(c, new)
<1>1. c \in Seq(Blocks) /\ n \in Nat /\ DOMAIN c = 1 .. n
  <2>1. a.content \in Seq(Blocks)
    BY DEF Accs
  <2> QED
    BY <2>1
<1>2. new \in Blocks
  BY DEF Events, Blocks, Kinds7, BlockOf
<1>3. \A i \in 1 .. n : c[i].key # e.key /\ c[i] \in S
  BY <1>1 DEF Held, Range
<1>4. ApplyDelta(a, e) = [a EXCEPT !.content = r]
  <2>1. {i \in DOMAIN a.content : a.content[i].key = e.key} = {}
    BY <1>1, <1>3
  <2> QED
    BY <2>1 DEF ApplyDelta, BlockOf
<1>5. /\ ApplyDelta(a, e).content = r /\ ApplyDelta(a, e).state = a.state
      /\ ApplyDelta(a, e).usage = a.usage
  <2> HIDE DEF r
  <2> QED
    BY <1>4 DEF Accs
<1>6. Held(r, S \cup {new})
  <2> HIDE DEF new
  <2>1. Len(r) = n + 1 /\ DOMAIN r = 1 .. n + 1 /\ r[n + 1] = new
        /\ \A i \in 1 .. n : r[i] = c[i]
    BY <1>1, <1>2
  <2>2. Range(c) = S
    BY DEF Held
  <2> HIDE DEF r
  <2>3. Range(r) = S \cup {new}
    <3>1. ASSUME NEW x \in Range(r) PROVE x \in S \cup {new}
      <4>1. PICK i \in 1 .. n + 1 : x = r[i]
        BY <2>1 DEF Range
      <4>2. i \in 1 .. n \/ i = n + 1
        BY <1>1
      <4> QED
        BY <1>3, <2>1, <4>1, <4>2
    <3>2. ASSUME NEW x \in S \cup {new} PROVE x \in Range(r)
      <4>1. CASE x = new
        <5>1. n + 1 \in 1 .. n + 1
          BY <1>1
        <5> QED
          BY <2>1, <4>1, <5>1 DEF Range
      <4>2. CASE x \in S
        <5>1. PICK i \in 1 .. n : x = c[i]
          BY <1>1, <2>2, <4>2 DEF Range
        <5>2. i \in 1 .. n + 1
          BY <1>1
        <5> QED
          BY <2>1, <5>1, <5>2 DEF Range
      <4> QED
        BY <4>1, <4>2
    <3> QED
      BY <3>1, <3>2
  <2>4. ASSUME NEW i \in 1 .. n + 1, NEW j \in 1 .. n + 1, r[i].key = r[j].key PROVE i = j
    <3>1. new.key = e.key
      BY DEF new, BlockOf
    <3>2. (i \in 1 .. n \/ i = n + 1) /\ (j \in 1 .. n \/ j = n + 1)
      BY <1>1
    <3>3. CASE i \in 1 .. n /\ j \in 1 .. n
      BY <1>1, <2>1, <2>4, <3>3 DEF Held
    <3>4. CASE i = n + 1 /\ j \in 1 .. n
      BY <1>3, <2>1, <2>4, <3>1, <3>4
    <3>5. CASE j = n + 1 /\ i \in 1 .. n
      BY <1>3, <2>1, <2>4, <3>1, <3>5
    <3> QED
      BY <3>2, <3>3, <3>4, <3>5
  <2> QED
    BY <2>1, <2>3, <2>4 DEF Held
<1> QED
  BY <1>5, <1>6

LEMMA BlockExtended ==
    ASSUME NEW a \in Accs, NEW e \in Events, NEW S, Held(a.content, S),
           NEW b \in S, b.key = e.key
    PROVE  IF b.kind = e.kind /\ b.name = e.name
           THEN /\ Held(ApplyDelta(a, e).content, (S \ {b}) \cup {Extending(b, e)})
                /\ ApplyDelta(a, e).state = a.state /\ ApplyDelta(a, e).usage = a.usage
           ELSE ApplyDelta(a, e).state = "error"
<1> DEFINE c == a.content
           n == Len(c)
           at == {j \in DOMAIN c : c[j].key = e.key}
           new == Extending(b, e)
           same == b.kind = e.kind /\ b.name = e.name
<1>1. c \in Seq(Blocks) /\ n \in Nat /\ DOMAIN c = 1 .. n
  <2>1. a.content \in Seq(Blocks)
    BY DEF Accs
  <2> QED
    BY <2>1
<1>2. PICK i \in 1 .. n : b = c[i]
  BY <1>1 DEF Held, Range
<1>3. at = {i}
  BY <1>1, <1>2 DEF Held
<1>4. Min(at) = i
  <2>1. {i} \subseteq Nat /\ {i} # {}
    BY <1>1
  <2>2. Min({i}) \in {i}
    BY <2>1, LeastOf
  <2> QED
    BY <1>3, <2>2
<1>5. ApplyDelta(a, e) = IF same THEN [a EXCEPT !.content[i].text = @ \o e.delta] ELSE Reject(a)
  <2>1. at # {}
    BY <1>3
  <2>2. ApplyDelta(a, e) = IF c[Min(at)].kind = e.kind /\ c[Min(at)].name = e.name
                           THEN [a EXCEPT !.content[Min(at)].text = @ \o e.delta] ELSE Reject(a)
    BY <2>1 DEF ApplyDelta
  <2> HIDE DEF at
  <2> QED
    BY <1>2, <1>4, <2>2
<1>6. CASE ~same
  <2>1. Reject(a).state = "error"
    BY DEF Reject, Accs
  <2> QED
    BY <1>5, <1>6, <2>1
<1>7. CASE same
  <2> DEFINE r == [c EXCEPT ![i] = new]
  <2>1. [a EXCEPT !.content[i].text = @ \o e.delta] = [a EXCEPT !.content = r]
    BY <1>2 DEF Extending
  <2>2. ApplyDelta(a, e) = [a EXCEPT !.content = r]
    BY <1>5, <1>7, <2>1, Zenon
  <2>3. DOMAIN r = 1 .. n /\ r[i] = new /\ \A j \in 1 .. n : j # i => r[j] = c[j]
    BY <1>1, <1>2
  <2>4. new.key = b.key
    <3>1. b \in Blocks
      BY <1>1, <1>2, ElementOfSeq
    <3> QED
      BY <3>1 DEF Blocks, Extending
  <2> HIDE DEF r, new
  <2>5. /\ ApplyDelta(a, e).content = r /\ ApplyDelta(a, e).state = a.state
        /\ ApplyDelta(a, e).usage = a.usage
    BY <2>2 DEF Accs
  <2>6. Range(c) = S /\ \A j, k \in 1 .. n : c[j].key = c[k].key => j = k
    BY <1>1 DEF Held
  <2>7. Range(r) = (S \ {b}) \cup {new}
    <3>1. ASSUME NEW x \in Range(r) PROVE x \in (S \ {b}) \cup {new}
      <4>1. PICK j \in 1 .. n : x = r[j]
        BY <2>3, <3>1 DEF Range
      <4>2. CASE j = i
        BY <2>3, <4>1, <4>2
      <4>3. CASE j # i
        <5>1. x = c[j] /\ x \in S
          BY <1>1, <2>3, <2>6, <4>1, <4>3 DEF Range
        <5>2. x # b
          BY <1>2, <2>6, <4>3, <5>1
        <5> QED
          BY <5>1, <5>2
      <4> QED
        BY <4>2, <4>3
    <3>2. ASSUME NEW x \in (S \ {b}) \cup {new} PROVE x \in Range(r)
      <4>1. CASE x = new
        BY <2>3, <4>1 DEF Range
      <4>2. CASE x \in S \ {b}
        <5>1. PICK j \in 1 .. n : x = c[j]
          BY <1>1, <2>6, <4>2 DEF Range
        <5>2. j # i
          BY <1>2, <4>2, <5>1
        <5> QED
          BY <2>3, <5>1, <5>2 DEF Range
      <4> QED
        BY <3>2, <4>1, <4>2
    <3> QED
      BY <3>1, <3>2
  <2>8. \A j, k \in 1 .. n : r[j].key = r[k].key => j = k
    <3>1. \A j \in 1 .. n : r[j].key = c[j].key
      BY <1>2, <2>3, <2>4
    <3> QED
      BY <2>6, <3>1
  <2>9. Held(r, (S \ {b}) \cup {new})
    BY <2>3, <2>7, <2>8 DEF Held
  <2>10. Held(ApplyDelta(a, e).content, (S \ {b}) \cup {Extending(b, e)})
    BY <2>5, <2>9 DEF new
  <2> HIDE DEF c
  <2> QED
    BY <1>7, <2>5, <2>10, Zenon
<1> QED
  BY <1>6, <1>7
-----------------------------------------------------------------------------
(* What a decoder has said, and the accumulator that has been told it.        *)

AccOf(d) == Accumulated(d.pending)

LEMMA AccumulatedAppend ==
    ASSUME ConstantsAssumption, NEW es \in Seq(Events), NEW e \in Events
    PROVE  /\ Accumulated(es) \in Accs
           /\ Accumulated(Append(es, e)) = Apply(Accumulated(es), e)
<1>1. Accumulated(es) = Iterated(NewAccumulator, Applying, es)
  BY AccumulatedIs
<1>2. Accumulated(es) \in Accs
  <2>1. NewAccumulator \in Accs /\ Applying \in [Accs \X Events -> Accs]
    BY NewAccumulatorTyped, ApplyingTyped
  <2>2. Iterated(NewAccumulator, Applying, es) \in Accs
    BY <2>1, IteratedTyped, Zenon
  <2> QED
    BY <1>1, <2>2
<1>3. Append(es, e) \in Seq(Events)
  BY AppendProperties
<1>4. Accumulated(Append(es, e)) = Iterated(NewAccumulator, Applying, Append(es, e))
  BY <1>3, AccumulatedIs
<1>5. Iterated(NewAccumulator, Applying, Append(es, e))
         = Applying[<<Iterated(NewAccumulator, Applying, es), e>>]
  BY IteratedAppend
<1>6. Applying[<<Accumulated(es), e>>] = Apply(Accumulated(es), e)
  BY <1>2, ApplyingTyped
<1> QED
  BY <1>1, <1>2, <1>4, <1>5, <1>6

LEMMA Pushed ==
    ASSUME ConstantsAssumption, NEW d \in Decoders, NEW e \in Events
    PROVE  /\ Push(d, e) \in Decoders /\ Push(d, e).tools = d.tools
           /\ Push(d, e).finish = d.finish /\ Push(d, e).closed = d.closed
           /\ AccOf(d) \in Accs /\ AccOf(Push(d, e)) = Apply(AccOf(d), e)
<1>1. d.pending \in Seq(Events)
  BY DEF Decoders
<1>2. Append(d.pending, e) \in Seq(Events)
  BY <1>1, AppendProperties
<1>3. /\ Push(d, e) \in Decoders /\ Push(d, e).tools = d.tools
      /\ Push(d, e).finish = d.finish /\ Push(d, e).closed = d.closed
      /\ Push(d, e).pending = Append(d.pending, e)
  BY <1>2 DEF Push, Decoders
<1>4. Accumulated(d.pending) \in Accs
      /\ Accumulated(Append(d.pending, e)) = Apply(Accumulated(d.pending), e)
  BY <1>1, AccumulatedAppend
<1> QED
  BY <1>3, <1>4 DEF AccOf

\* An error has been told.
Failed(d) == d \in Decoders /\ AccOf(d).state = "error"

LEMMA FailureTyped == ASSUME ConstantsAssumption PROVE Failure \in Events /\ Failure.kind = "error"
<1>1. <<>> \in Text
  BY DEF Text
<1> QED
  BY <1>1 DEF Failure, Event, Events, ConstantsAssumption

LEMMA PushFailed ==
    ASSUME ConstantsAssumption, NEW d \in Decoders, NEW e \in Events
    PROVE  /\ Failed(d) \/ e.kind = "error" => Failed(Push(d, e))
           /\ Failed(Fail(d))
<1>1. ASSUME NEW f \in Events, Failed(d) \/ f.kind = "error" PROVE Failed(Push(d, f))
  <2> DEFINE a == AccOf(d)
  <2>1. Push(d, f) \in Decoders /\ a \in Accs /\ AccOf(Push(d, f)) = Apply(a, f)
    BY Pushed
  <2> HIDE DEF a
  <2>2. Apply(a, f) = Reject(a) \/ a.state = "error"
    BY <1>1 DEF Apply, Failed, a
  <2>3. Apply(a, f).state = "error"
    <3>1. Reject(a).state = "error"
      BY <2>1 DEF Reject, Accs
    <3> QED
      BY <2>1, <2>2, <3>1, ApplyTyped
  <2> QED
    BY <2>1, <2>3 DEF Failed
<1>2. Failed(Push(d, Failure))
  BY <1>1, FailureTyped
<1>3. Failed(Fail(d))
  <2> DEFINE x == Push(d, Failure)
  <2>1. x \in Decoders /\ Fail(d) = [x EXCEPT !.closed = TRUE]
    BY FailureTyped, Pushed DEF Fail
  <2> HIDE DEF x
  <2>2. Fail(d) \in Decoders /\ Fail(d).pending = x.pending
    BY <2>1 DEF Decoders
  <2> QED
    BY <1>2, <2>2 DEF Failed, AccOf, x
<1> QED
  BY <1>1, <1>3

LEMMA FailedOn ==
    ASSUME ConstantsAssumption, NEW p \in Seq(Events), NEW q \in Seq(Events), Initial(p, q),
           Accumulated(p).state = "error"
    PROVE  Accumulated(q).state = "error"
<1>1. /\ Len(p) \in Nat /\ Len(q) \in Nat /\ Len(p) <= Len(q) /\ SubSeq(q, 1, Len(p)) = p
  BY InitialOf
<1>2. Len(p) \in 0 .. Len(q)
  BY <1>1
<1>3. Accumulated(SubSeq(q, 1, Len(q))) = Accumulated(SubSeq(q, 1, Len(p)))
  BY <1>1, <1>2, FailedStays
<1>4. SubSeq(q, 1, Len(q)) = q
  BY SubSeqFull
<1> QED
  BY <1>1, <1>3, <1>4

-----------------------------------------------------------------------------
(* The blocks of a message of which k deltas of tool calls, out of deltas,    *)
(* have been said.                                                            *)

CallSoFar(deltas, k, i) ==
    [kind |-> "tool", key |-> CallOf(deltas, i).key, name |-> CallOf(deltas, i).name,
     text |-> Arguments(SubSeq(deltas, 1, k), i)]
CallsSoFar(deltas, k) == {CallSoFar(deltas, k, i) : i \in Indices(deltas, k)}
ThinkBlock(m) ==
    [kind |-> "thinking", key |-> "thinking", name |-> "none", text |-> m.think]
TextBlock(m, s) ==
    [kind |-> IF s THEN "structured" ELSE "text", key |-> "content", name |-> "none",
     text |-> m.text]
Spoken(b) == {x \in {b} : x.text # <<>>}
BlocksSoFar(deltas, k, m, s) ==
    Spoken(ThinkBlock(m)) \cup Spoken(TextBlock(m, s)) \cup CallsSoFar(deltas, k)

\* Coherent, of the deltas.
CallsApart(deltas) ==
    \A t \in Range(deltas) : CallOf(deltas, t.index).key # "none" =>
        /\ t.id \in {"none", CallOf(deltas, t.index).key}
        /\ CallOf(deltas, t.index).key \notin {"thinking", "content"}
        /\ \A u \in Range(deltas) :
              CallOf(deltas, t.index).key = CallOf(deltas, u.index).key => t.index = u.index

\* The deltas do not decode, or contradict themselves.
Flawed(deltas) ==
    \E t \in Range(deltas) :
        \/ CallOf(deltas, t.index).key = "none" \/ CallOf(deltas, t.index).name = "none"
        \/ t.name \notin {"none", CallOf(deltas, t.index).name}

\* The decoder knows the calls of the first k deltas.
Knows(tools, deltas, k) ==
    /\ \A i \in Indices(deltas, k) : \E p \in tools : p.index = i
    /\ \A p \in tools :
          /\ p.index \in Indices(deltas, k) /\ p.announced
          /\ p.id = CallOf(deltas, p.index).key /\ p.id # "none" /\ p.name # "none"
          /\ CallOf(deltas, p.index).name # "none"
          /\ p.name = CallOf(deltas, p.index).name \/ Flawed(deltas)

\* What has been told is the message m, with the first k deltas.
Matches(d, deltas, k, m, s) ==
    /\ d \in Decoders /\ ~d.closed /\ d.finish = m.finish
    /\ AccOf(d).state = "open" /\ AccOf(d).usage = m.usage
    /\ Held(AccOf(d).content, BlocksSoFar(deltas, k, m, s))
    /\ Knows(d.tools, deltas, k)

LEMMA SlotExtended ==
    ASSUME NEW a \in Accs, NEW e \in Events, NEW R, NEW b \in Blocks,
           b.kind = e.kind, b.key = e.key, b.name = e.name, \A x \in R : x.key # e.key,
           Held(a.content, R \cup Spoken(b))
    PROVE  /\ Held(ApplyDelta(a, e).content, R \cup {Extending(b, e)})
           /\ ApplyDelta(a, e).state = a.state /\ ApplyDelta(a, e).usage = a.usage
<1>1. CASE b.text = <<>>
  <2>1. R \cup Spoken(b) = R
    BY <1>1 DEF Spoken
  <2>2. BlockOf(e) = Extending(b, e)
    <3>1. b.text \o e.delta = e.delta
      <4>1. e.delta \in Seq({"{", "}"})
        BY DEF Events, Text
      <4> QED
        BY <1>1, <4>1, ConcatEmptySeq
    <3> QED
      BY <3>1 DEF BlockOf, Extending, Blocks
  <2> QED
    BY <2>1, <2>2, BlockStarted
<1>2. CASE b.text # <<>>
  <2> DEFINE S == R \cup {b}
  <2>1. R \cup Spoken(b) = S
    BY <1>2 DEF Spoken
  <2>2. (S \ {b}) \cup {Extending(b, e)} = R \cup {Extending(b, e)}
    <3>1. b \notin R
      OBVIOUS
    <3>2. S \ {b} = R
      BY <3>1
    <3> QED
      BY <3>2
  <2>3. b \in S /\ Held(a.content, S)
    BY <2>1
  <2> HIDE DEF S
  <2> QED
    BY <2>2, <2>3, BlockExtended
<1> QED
  BY <1>1, <1>2

LEMMA LongerText ==
    ASSUME NEW S, NEW x \in Seq(S), NEW y \in Seq(S), y # <<>>
    PROVE  x \o y # <<>>
<1>1. Len(y) > 0 /\ Len(y) \in Nat /\ Len(x) \in Nat
  BY EmptySeq
<1>2. Len(x \o y) = Len(x) + Len(y) /\ Len(<<>>) = 0
  BY ConcatProperties
<1> QED
  BY <1>1, <1>2

LEMMA SpellingParts ==
    ASSUME NEW m \in Spellings, NEW s \in BOOLEAN
    PROVE  /\ ThinkBlock(m) \in [kind: Kinds7, key: {"thinking"}, name: {"none"}, text: Text]
           /\ TextBlock(m, s) \in [kind: Kinds7, key: {"content"}, name: {"none"}, text: Text]
<1>1. m.think \in Text /\ m.text \in Text
  BY DEF Spellings
<1> QED
  BY <1>1 DEF ThinkBlock, TextBlock, Kinds7

\* No call has the key of the thinking or of the text.
LEMMA OtherKeys ==
    ASSUME NEW deltas \in Seq(DeltaType), NEW k \in Nat, k <= Len(deltas), CallsApart(deltas),
           NEW m \in Spellings, NEW s \in BOOLEAN
    PROVE  /\ \A x \in CallsSoFar(deltas, k) : x.key \notin {"thinking", "content"}
           /\ \A x \in Spoken(ThinkBlock(m)) : x.key = "thinking"
           /\ \A x \in Spoken(TextBlock(m, s)) : x.key = "content"
<1>1. ASSUME NEW i \in Indices(deltas, k) PROVE CallOf(deltas, i).key \notin {"thinking", "content"}
  <2>1. PICK j \in 1 .. k : i = deltas[j].index
    BY DEF Indices
  <2>2. j \in DOMAIN deltas /\ deltas[j] \in Range(deltas)
    BY DEF Range
  <2> QED
    BY <2>1, <2>2 DEF CallsApart
<1>2. \A x \in CallsSoFar(deltas, k) : x.key \notin {"thinking", "content"}
  BY <1>1 DEF CallsSoFar, CallSoFar
<1> QED
  BY <1>2 DEF Spoken, ThinkBlock, TextBlock

LEMMA ContentMatches ==
    ASSUME ConstantsAssumption, NEW deltas \in Seq(DeltaType), NEW k \in Nat, k <= Len(deltas),
           CallsApart(deltas), NEW m \in Spellings, NEW s \in BOOLEAN, NEW d,
           Matches(d, deltas, k, m, s), NEW delta \in Text
    PROVE  /\ Matches(Content(d, "thinking", "thinking", delta), deltas, k,
                      [m EXCEPT !.think = @ \o delta], s)
           /\ Matches(Content(d, IF s THEN "structured" ELSE "text", "content", delta),
                      deltas, k, [m EXCEPT !.text = @ \o delta], s)
<1> DEFINE kind == IF s THEN "structured" ELSE "text"
           calls == CallsSoFar(deltas, k)
           thought == ThinkBlock(m)
           text == TextBlock(m, s)
           m1 == [m EXCEPT !.think = @ \o delta]
           m2 == [m EXCEPT !.text = @ \o delta]
           a == AccOf(d)
<1>1. /\ "none" \in Names /\ "thinking" \in Names /\ "content" \in Names
      /\ kind \in {"structured", "text"} /\ delta \in Seq({"{", "}"})
  BY DEF ConstantsAssumption, Text
<1>2. /\ d \in Decoders /\ ~d.closed /\ d.finish = m.finish /\ a.state = "open" /\ a.usage = m.usage
      /\ Knows(d.tools, deltas, k)
      /\ Held(a.content, Spoken(thought) \cup Spoken(text) \cup calls)
  BY DEF Matches, BlocksSoFar
<1>3. /\ m.think \in Seq({"{", "}"}) /\ m.text \in Seq({"{", "}"})
      /\ m1.finish = m.finish /\ m1.usage = m.usage /\ m2.finish = m.finish /\ m2.usage = m.usage
      /\ m1.text = m.text /\ m2.think = m.think
      /\ m1.think = m.think \o delta /\ m2.text = m.text \o delta
  BY DEF Spellings, Text
<1>4. /\ \A x \in calls : x.key \notin {"thinking", "content"}
      /\ \A x \in Spoken(thought) : x.key = "thinking"
      /\ \A x \in Spoken(text) : x.key = "content"
  BY OtherKeys
<1>5. thought \in Blocks /\ text \in Blocks
  BY <1>1, SpellingParts DEF Blocks
<1>6. CASE delta = <<>>
  <2>1. m.think \o delta = m.think /\ m.text \o delta = m.text
    BY <1>3, <1>6, ConcatEmptySeq
  <2>2. m1 = m /\ m2 = m
    BY <2>1 DEF Spellings
  <2>3. /\ Content(d, "thinking", "thinking", delta) = d
        /\ Content(d, kind, "content", delta) = d
    BY <1>6 DEF Content
  <2> HIDE DEF m1, m2, kind
  <2>4. /\ Matches(Content(d, "thinking", "thinking", delta), deltas, k, m1, s)
        /\ Matches(Content(d, kind, "content", delta), deltas, k, m2, s)
    BY <2>2, <2>3
  <2> QED
    BY <2>4 DEF m1, m2, kind
<1>7. CASE delta # <<>>
  <2> DEFINE Ready(kd, key, R, b, more, n) ==
               /\ kd \in Kinds7 \ {"usage", "finished", "error"} /\ key \in Names
               /\ b \in Blocks /\ b.kind = kd /\ b.key = key /\ b.name = "none"
               /\ (\A x \in R : x.key # key) /\ Held(a.content, R \cup Spoken(b))
               /\ more = b.text \o delta /\ n.finish = m.finish /\ n.usage = m.usage
               /\ BlocksSoFar(deltas, k, n, s) = R \cup {[b EXCEPT !.text = more]}
  <2>1. ASSUME NEW kd, NEW key, NEW R, NEW b, NEW more, NEW n, Ready(kd, key, R, b, more, n)
        PROVE  Matches(Content(d, kd, key, delta), deltas, k, n, s)
    <3> DEFINE e == Event(kd, key, "none", delta, 0)
               f == Push(d, e)
    <3>1. e \in Events /\ e.kind = kd /\ e.key = key /\ e.name = "none" /\ e.delta = delta
      BY <1>1, <2>1, EventTyped DEF Event
    <3>2. Content(d, kd, key, delta) = f
      BY <1>7 DEF Content
    <3> HIDE DEF e
    <3>3. /\ f \in Decoders /\ f.tools = d.tools /\ f.finish = d.finish /\ f.closed = d.closed
          /\ a \in Accs /\ AccOf(f) = Apply(a, e)
      BY <1>2, <3>1, Pushed
    <3>4. Apply(a, e) = ApplyDelta(a, e)
      BY <1>2, <2>1, <3>1 DEF Apply
    <3> HIDE DEF f, a
    <3>5. /\ Held(ApplyDelta(a, e).content, R \cup {Extending(b, e)})
          /\ ApplyDelta(a, e).state = a.state /\ ApplyDelta(a, e).usage = a.usage
      <4>1. b.kind = e.kind /\ b.key = e.key /\ b.name = e.name /\ (\A x \in R : x.key # e.key)
        BY <2>1, <3>1
      <4>2. Held(a.content, R \cup Spoken(b)) /\ a \in Accs /\ e \in Events
            /\ b \in Blocks
        BY <2>1, <3>1, <3>3
      <4> QED
        BY <4>1, <4>2, SlotExtended, Zenon
    <3>6. Extending(b, e) = [b EXCEPT !.text = more]
      BY <2>1, <3>1 DEF Extending
    <3>7. /\ Held(AccOf(f).content, BlocksSoFar(deltas, k, n, s))
          /\ AccOf(f).state = "open" /\ AccOf(f).usage = n.usage
      BY <1>2, <2>1, <3>3, <3>4, <3>5, <3>6
    <3> QED
      BY <1>2, <2>1, <3>2, <3>3, <3>7 DEF Matches
  <2>2. m.think \o delta # <<>> /\ m.text \o delta # <<>>
    BY <1>1, <1>3, <1>7, LongerText
  <2>3. Matches(Content(d, "thinking", "thinking", delta), deltas, k, m1, s)
    <3> DEFINE R == Spoken(text) \cup calls
               more == m.think \o delta
               new == [thought EXCEPT !.text = more]
    <3>1. \A x \in R : x.key # "thinking"
      BY <1>4
    <3>2. R \cup Spoken(thought) = Spoken(thought) \cup Spoken(text) \cup calls
      OBVIOUS
    <3>3. BlocksSoFar(deltas, k, m1, s) = R \cup {new}
      <4>1. ThinkBlock(m1) = new /\ TextBlock(m1, s) = text
        <5> HIDE DEF m1, m2
        <5>1. ThinkBlock(m1) = new
          <6>1. new = [kind |-> "thinking", key |-> "thinking", name |-> "none", text |-> more]
            <7> HIDE DEF more
            <7> QED
              BY DEF ThinkBlock
          <6>2. m1.think = more
            BY <1>3
          <6> QED
            BY <6>1, <6>2, Zenon DEF ThinkBlock
        <5>2. TextBlock(m1, s) = text
          BY <1>3, Zenon DEF TextBlock
        <5> QED
          BY <5>1, <5>2
      <4>2. new.text = more
        BY DEF ThinkBlock
      <4>3. Spoken(new) = {new}
        BY <2>2, <4>2 DEF Spoken
      <4> HIDE DEF new, text, calls
      <4> QED
        BY <4>1, <4>3 DEF BlocksSoFar, calls
    <3>4. /\ thought.kind = "thinking" /\ thought.key = "thinking" /\ thought.name = "none"
          /\ "thinking" \in Kinds7 \ {"usage", "finished", "error"}
      BY DEF ThinkBlock, Kinds7
    <3>6. thought.text = m.think
      BY DEF ThinkBlock, TextBlock
    <3>5. Held(a.content, R \cup Spoken(thought))
      BY <1>2, <3>2
    <3>7. more = thought.text \o delta
      BY <3>6, Zenon
    <3> HIDE DEF R, thought, text, calls, a, m1, m2, kind, more
    <3>8. Ready("thinking", "thinking", R, thought, more, m1)
      BY <1>1, <1>3, <1>5, <3>1, <3>3, <3>4, <3>5, <3>7
    <3> HIDE DEF Ready
    <3> QED
      BY <2>1, <3>8
  <2>4. Matches(Content(d, kind, "content", delta), deltas, k, m2, s)
    <3> DEFINE R == Spoken(thought) \cup calls
               more == m.text \o delta
               new == [text EXCEPT !.text = more]
    <3>1. \A x \in R : x.key # "content"
      BY <1>4
    <3>2. R \cup Spoken(text) = Spoken(thought) \cup Spoken(text) \cup calls
      OBVIOUS
    <3>3. BlocksSoFar(deltas, k, m2, s) = R \cup {new}
      <4>1. TextBlock(m2, s) = new /\ ThinkBlock(m2) = thought
        <5> HIDE DEF m1, m2
        <5>1. ThinkBlock(m2) = thought
          BY <1>3, Zenon DEF ThinkBlock
        <5>2. TextBlock(m2, s) = new
          <6>1. new = [kind |-> kind, key |-> "content", name |-> "none", text |-> more]
            <7> HIDE DEF more
            <7> QED
              BY DEF TextBlock
          <6>2. m2.text = more
            BY <1>3
          <6> QED
            BY <6>1, <6>2, Zenon DEF TextBlock, kind
        <5> QED
          BY <5>1, <5>2
      <4>2. new.text = more
        BY DEF TextBlock
      <4>3. Spoken(new) = {new}
        BY <2>2, <4>2 DEF Spoken
      <4> HIDE DEF new, thought, calls
      <4> QED
        BY <4>1, <4>3 DEF BlocksSoFar, calls
    <3>4. /\ text.kind = kind /\ text.key = "content" /\ text.name = "none"
          /\ kind \in Kinds7 \ {"usage", "finished", "error"}
      BY DEF TextBlock, Kinds7
    <3>6. text.text = m.text
      BY DEF ThinkBlock, TextBlock
    <3>5. Held(a.content, R \cup Spoken(text))
      BY <1>2, <3>2
    <3>7. more = text.text \o delta
      BY <3>6, Zenon
    <3> HIDE DEF R, thought, text, calls, a, m1, m2, kind, more
    <3>8. Ready(kind, "content", R, text, more, m2)
      BY <1>1, <1>3, <1>5, <3>1, <3>3, <3>4, <3>5, <3>7
    <3> HIDE DEF Ready
    <3> QED
      BY <2>1, <3>8
  <2> QED
    BY <2>3, <2>4
<1> QED
  BY <1>6, <1>7

LEMMA EmptyText == <<>> \in Text
BY DEF Text

\* The same decoder but for what the accumulator is not told.
LEMMA SameTold ==
    ASSUME NEW d \in Decoders, NEW e \in Decoders, d.pending = e.pending
    PROVE  AccOf(d) = AccOf(e) /\ (Failed(d) => Failed(e))
BY DEF AccOf, Failed

LEMMA UsageMatches ==
    ASSUME ConstantsAssumption, NEW deltas, NEW k, NEW m \in Spellings, NEW s, NEW d,
           Matches(d, deltas, k, m, s), NEW c \in TokenType
    PROVE  IF c.usage = "bad" THEN Failed(Usage(d, c))
           ELSE Matches(Usage(d, c), deltas, k,
                        [m EXCEPT !.usage = IF c.usage = "ok" THEN @ + c.amount ELSE @], s)
<1> DEFINE u == IF c.usage = "ok" THEN m.usage + c.amount ELSE m.usage
           n == [m EXCEPT !.usage = u]
           a == AccOf(d)
           e == Event("usage", "none", "none", <<>>, c.amount)
           f == Push(d, e)
<1>1. /\ d \in Decoders /\ ~d.closed /\ d.finish = m.finish /\ a.state = "open" /\ a.usage = m.usage
      /\ Held(a.content, BlocksSoFar(deltas, k, m, s)) /\ Knows(d.tools, deltas, k)
  BY DEF Matches
<1>2. m.usage \in Nat /\ c.amount \in Nat /\ c.usage \in {"none", "ok", "bad"}
  BY DEF Spellings, TokenType
<1>3. n = [m EXCEPT !.usage = IF c.usage = "ok" THEN @ + c.amount ELSE @]
  OBVIOUS
<1> HIDE DEF u
<1>4. n.finish = m.finish /\ n.think = m.think /\ n.text = m.text /\ n.usage = u
  BY DEF Spellings
<1> HIDE DEF n
<1>5. BlocksSoFar(deltas, k, n, s) = BlocksSoFar(deltas, k, m, s)
  BY <1>4, Zenon DEF BlocksSoFar, ThinkBlock, TextBlock
<1>6. CASE c.usage = "none"
  <2>1. Usage(d, c) = d /\ u = m.usage
    BY <1>6 DEF Usage, u
  <2>2. Matches(d, deltas, k, n, s)
    BY <1>1, <1>4, <1>5, <2>1 DEF Matches
  <2> QED
    BY <1>3, <1>6, <2>1, <2>2
<1>7. CASE c.usage = "bad"
  <2>1. Usage(d, c) = Push(d, Failure)
    BY <1>7 DEF Usage
  <2>2. Failed(Push(d, Failure))
    BY <1>1, FailureTyped, PushFailed
  <2> QED
    BY <1>7, <2>1, <2>2
<1>8. CASE c.usage = "ok"
  <2>1. Usage(d, c) = f /\ u = m.usage + c.amount
    BY <1>8 DEF Usage, u
  <2>2. e \in Events /\ e.kind = "usage" /\ e.amount = c.amount
    <3>1. <<>> \in Text
      BY DEF Text
    <3>2. "none" \in Names
      BY DEF ConstantsAssumption
    <3> QED
      BY <1>2, <3>1, <3>2 DEF Event, Events
  <2> HIDE DEF e
  <2>3. /\ f \in Decoders /\ f.tools = d.tools /\ f.finish = d.finish /\ f.closed = d.closed
        /\ a \in Accs /\ AccOf(f) = Apply(a, e)
    BY <1>1, <2>2, Pushed
  <2> HIDE DEF a, f
  <2>4. Apply(a, e) = [a EXCEPT !.usage = @ + c.amount]
    BY <1>1, <2>2 DEF Apply
  <2>5. /\ Apply(a, e).state = "open" /\ Apply(a, e).usage = a.usage + c.amount
        /\ Apply(a, e).content = a.content
    BY <1>1, <2>3, <2>4 DEF Accs
  <2>6. Matches(f, deltas, k, n, s)
    BY <1>1, <1>4, <1>5, <2>1, <2>3, <2>5 DEF Matches
  <2> QED
    BY <1>3, <1>8, <2>1, <2>6
<1> QED
  BY <1>2, <1>6, <1>7, <1>8

LEMMA FinishMatches ==
    ASSUME ConstantsAssumption, NEW deltas, NEW k, NEW m \in Spellings, NEW s, NEW d,
           Matches(d, deltas, k, m, s), NEW c \in TokenType
    PROVE  IF c.finish = "unknown" THEN Failed(FinishReason(d, c))
           ELSE Matches(FinishReason(d, c), deltas, k,
                        [m EXCEPT !.finish = IF c.finish = "none" THEN @ ELSE c.finish], s)
<1> DEFINE r == IF c.finish = "none" THEN m.finish ELSE c.finish
           n == [m EXCEPT !.finish = r]
           e == FinishReason(d, c)
<1>1. /\ d \in Decoders /\ ~d.closed /\ d.finish = m.finish
      /\ AccOf(d).state = "open" /\ AccOf(d).usage = m.usage
      /\ Held(AccOf(d).content, BlocksSoFar(deltas, k, m, s)) /\ Knows(d.tools, deltas, k)
  BY DEF Matches
<1>2. n = [m EXCEPT !.finish = IF c.finish = "none" THEN @ ELSE c.finish] /\ c.finish \in Names
  BY DEF TokenType
<1> HIDE DEF r
<1>3. n.finish = r /\ n.think = m.think /\ n.text = m.text /\ n.usage = m.usage
  BY DEF Spellings
<1> HIDE DEF n
<1>4. BlocksSoFar(deltas, k, n, s) = BlocksSoFar(deltas, k, m, s)
  BY <1>3, Zenon DEF BlocksSoFar, ThinkBlock, TextBlock
<1>5. CASE c.finish = "unknown"
  <2>1. e = Fail(d)
    BY <1>1, <1>5 DEF FinishReason
  <2>2. Failed(Fail(d))
    BY <1>1, FailureTyped, PushFailed
  <2> QED
    BY <1>5, <2>1, <2>2
<1>6. CASE c.finish # "unknown"
  <2>1. e = IF c.finish = "none" THEN d ELSE [d EXCEPT !.finish = c.finish]
    BY <1>1, <1>6, Zenon DEF FinishReason
  <2> HIDE DEF e
  <2>2. /\ e \in Decoders /\ e.pending = d.pending /\ e.tools = d.tools
        /\ e.closed = d.closed /\ e.finish = r
    <3>1. CASE c.finish = "none"
      BY <1>1, <2>1, <3>1 DEF r
    <3>2. CASE c.finish # "none"
      BY <1>1, <1>2, <2>1, <3>2 DEF r, Decoders
    <3> QED
      BY <3>1, <3>2
  <2>3. AccOf(e) = AccOf(d)
    BY <1>1, <2>2, SameTold
  <2>4. Matches(e, deltas, k, n, s)
    BY <1>1, <1>3, <1>4, <2>2, <2>3 DEF Matches
  <2> QED
    BY <1>2, <1>6, <2>4 DEF e
<1> QED
  BY <1>5, <1>6

\* What has failed stays so, whatever is decoded next.
LEMMA StillFailed ==
    ASSUME ConstantsAssumption, NEW d, Failed(d), NEW c \in TokenType, NEW t \in DeltaType,
           NEW kind \in Kinds7, NEW key \in Names, NEW delta \in Text
    PROVE  /\ Failed(Usage(d, c)) /\ Failed(Content(d, kind, key, delta))
           /\ Failed(ToolDelta(d, t)) /\ Failed(FinishReason(d, c))
<1>1. d \in Decoders
  BY DEF Failed
<1>2. "none" \in Names
  BY DEF ConstantsAssumption
<1>3. c.amount \in Nat /\ c.finish \in Names /\ <<>> \in Text
  <2>1. <<>> \in Text
    BY EmptyText
  <2>2. c.amount \in Nat
    BY DEF TokenType
  <2>3. c.finish \in Names
    BY DEF TokenType
  <2> QED
    BY <2>1, <2>2, <2>3
<1>4. \A e \in Events : Failed(Push(d, e))
  BY <1>1, PushFailed
<1>5. Failed(Usage(d, c))
  <2> DEFINE e == Event("usage", "none", "none", <<>>, c.amount)
  <2>1. e \in Events /\ Failure \in Events
    BY <1>2, <1>3, EventTyped, FailureTyped DEF Kinds7
  <2>2. Usage(d, c) \in {d, Push(d, Failure), Push(d, e)}
    BY Zenon DEF Usage
  <2> HIDE DEF e
  <2> QED
    BY <1>4, <2>1, <2>2
<1>6. Failed(Content(d, kind, key, delta))
  <2> DEFINE e == Event(kind, key, "none", delta, 0)
  <2>1. e \in Events
    BY <1>2, EventTyped
  <2>2. Content(d, kind, key, delta) \in {d, Push(d, e)}
    BY Zenon DEF Content
  <2> HIDE DEF e
  <2> QED
    BY <1>4, <2>1, <2>2
<1>7. Failed(Fail(d))
  BY <1>1, FailureTyped, PushFailed
<1>8. Failed(ToolDelta(d, t))
  <2> DEFINE x == [d EXCEPT !.tools = ToolsAfter(d, t)]
             e == Announce(d, t)
  <2>1. e \in Events /\ ToolsAfter(d, t) \in SUBSET Calls
    BY <1>1, CallsTyped
  <2>2. ToolDelta(d, t) \in {d, x, Fail(d), Push(x, e)}
    BY ToolDeltaIs, Zenon
  <2>3. x \in Decoders /\ x.pending = d.pending
    BY <1>1, <2>1 DEF Decoders
  <2> HIDE DEF x, e
  <2>4. Failed(x)
    BY <1>1, <2>3, SameTold
  <2>5. Failed(Push(x, e))
    BY <2>1, <2>3, <2>4, PushFailed
  <2> QED
    BY <1>7, <2>2, <2>4, <2>5
<1>9. Failed(FinishReason(d, c))
  <2> DEFINE x == [d EXCEPT !.finish = c.finish]
  <2>1. FinishReason(d, c) \in {d, Fail(d), x}
    BY Zenon DEF FinishReason
  <2>2. x \in Decoders /\ x.pending = d.pending
    BY <1>1, <1>3 DEF Decoders
  <2> HIDE DEF x
  <2>3. Failed(x)
    BY <1>1, <2>2, SameTold
  <2> QED
    BY <1>7, <2>1, <2>3
<1> QED
  BY <1>5, <1>6, <1>8, <1>9

\* The calls after one more delta.
LEMMA CallsNext ==
    ASSUME NEW deltas \in Seq(DeltaType), NEW k \in Nat, k < Len(deltas)
    PROVE  LET i == deltas[k + 1].index IN
           /\ Indices(deltas, k + 1) = Indices(deltas, k) \cup {i}
           /\ \A j : j # i => CallSoFar(deltas, k + 1, j) = CallSoFar(deltas, k, j)
           /\ CallSoFar(deltas, k + 1, i)
                 = [kind |-> "tool", key |-> CallOf(deltas, i).key, name |-> CallOf(deltas, i).name,
                    text |-> Arguments(SubSeq(deltas, 1, k), i) \o deltas[k + 1].args]
           /\ CallsSoFar(deltas, k + 1)
                 = {CallSoFar(deltas, k, j) : j \in Indices(deltas, k) \ {i}}
                   \cup {CallSoFar(deltas, k + 1, i)}
<1> DEFINE i == deltas[k + 1].index
<1> HIDE DEF i
<1>1. Indices(deltas, k + 1) = Indices(deltas, k) \cup {i}
  <2>1. 1 .. k + 1 = (1 .. k) \cup {k + 1}
    OBVIOUS
  <2> QED
    BY <2>1 DEF Indices, i
<1>2. \A j : Arguments(SubSeq(deltas, 1, k + 1), j)
                = IF i = j THEN Arguments(SubSeq(deltas, 1, k), j) \o deltas[k + 1].args
                  ELSE Arguments(SubSeq(deltas, 1, k), j)
  <2>1. k <= Len(deltas)
    OBVIOUS
  <2> QED
    BY <2>1, ArgumentsNext DEF i
<1>3. \A j : j # i => CallSoFar(deltas, k + 1, j) = CallSoFar(deltas, k, j)
  BY <1>2, Zenon DEF CallSoFar
<1>4. CallSoFar(deltas, k + 1, i)
         = [kind |-> "tool", key |-> CallOf(deltas, i).key, name |-> CallOf(deltas, i).name,
            text |-> Arguments(SubSeq(deltas, 1, k), i) \o deltas[k + 1].args]
  BY <1>2, Zenon DEF CallSoFar
<1>5. CallsSoFar(deltas, k + 1)
         = {CallSoFar(deltas, k, j) : j \in Indices(deltas, k) \ {i}}
           \cup {CallSoFar(deltas, k + 1, i)}
  <2>1. CallsSoFar(deltas, k + 1)
           = {CallSoFar(deltas, k + 1, j) : j \in (Indices(deltas, k) \ {i}) \cup {i}}
    <3>1. Indices(deltas, k + 1) = (Indices(deltas, k) \ {i}) \cup {i}
      BY <1>1
    <3> QED
      BY <3>1 DEF CallsSoFar
  <2> QED
    BY <1>3, <2>1
<1> QED
  BY <1>1, <1>3, <1>4, <1>5 DEF i

\* Calls have keys of their own.
LEMMA KeysApart ==
    ASSUME NEW deltas \in Seq(DeltaType), NEW k \in Nat, k <= Len(deltas), CallsApart(deltas),
           NEW i \in Indices(deltas, k), CallOf(deltas, i).key # "none"
    PROVE  /\ CallOf(deltas, i).key \notin {"thinking", "content"}
           /\ \A j \in Indices(deltas, k) :
                 CallOf(deltas, i).key = CallOf(deltas, j).key => i = j
<1>1. \A j \in Indices(deltas, k) : \E t \in Range(deltas) : t.index = j
  <2>1. \A j \in 1 .. k : j \in DOMAIN deltas
    OBVIOUS
  <2> QED
    BY <2>1 DEF Indices, Range
<1> QED
  BY <1>1 DEF CallsApart

LEMMA ToolsTyped ==
    ASSUME ConstantsAssumption, NEW d \in Decoders, NEW tools \in SUBSET Calls
    PROVE  LET e == [d EXCEPT !.tools = tools] IN
           /\ e \in Decoders /\ e.tools = tools /\ e.pending = d.pending /\ e.finish = d.finish
           /\ e.closed = d.closed /\ AccOf(e) = AccOf(d)
BY DEF Decoders, AccOf

\* The first delta of a call.
LEMMA CallStarts ==
    ASSUME ConstantsAssumption, NEW deltas \in Seq(DeltaType), NEW k \in Nat, k < Len(deltas),
           CallsApart(deltas), NEW m \in Spellings, NEW s \in BOOLEAN, NEW d,
           Matches(d, deltas, k, m, s), deltas[k + 1].index \notin Indices(deltas, k)
    PROVE  \/ Matches(ToolDelta(d, deltas[k + 1]), deltas, k + 1, m, s)
           \/ Failed(ToolDelta(d, deltas[k + 1])) /\ Flawed(deltas)
<1> DEFINE t == deltas[k + 1]
           i == t.index
           a == AccOf(d)
           tools == ToolsAfter(d, t)
           call == CallAfter(d, t)
           e == Announce(d, t)
           x == [d EXCEPT !.tools = tools]
           f == Push(x, e)
           before == BlocksSoFar(deltas, k, m, s)
           new == CallSoFar(deltas, k + 1, i)
<1>0. k <= Len(deltas) /\ k + 1 <= Len(deltas) /\ k + 1 \in Nat /\ k + 1 \in DOMAIN deltas
  OBVIOUS
<1>n. /\ Indices(deltas, k + 1) = Indices(deltas, k) \cup {i}
      /\ new = [kind |-> "tool", key |-> CallOf(deltas, i).key, name |-> CallOf(deltas, i).name,
                text |-> Arguments(SubSeq(deltas, 1, k), i) \o t.args]
      /\ CallsSoFar(deltas, k + 1)
            = {CallSoFar(deltas, k, j) : j \in Indices(deltas, k) \ {i}} \cup {new}
  BY CallsNext
<1>1. /\ d \in Decoders /\ ~d.closed /\ d.finish = m.finish /\ a.state = "open" /\ a.usage = m.usage
      /\ Held(a.content, before) /\ Knows(d.tools, deltas, k)
  BY DEF Matches
<1>2. t \in DeltaType /\ t \in Range(deltas)
  BY <1>0, ElementOfSeq DEF Range
<1>3. CallOf(deltas, i).key = t.id /\ CallOf(deltas, i).name = t.name
  BY FirstOfCall
<1>4. Known(d, i) = [index |-> i, id |-> "none", name |-> "none", announced |-> FALSE]
  <2>1. ~\E p \in d.tools : p.index = i
    BY <1>1 DEF Knows
  <2> QED
    BY <2>1, Zenon DEF Known
<1>5. call = [index |-> i, id |-> t.id, name |-> t.name, announced |-> TRUE]
  <2>1. /\ (IF t.id = "none" THEN Known(d, i).id ELSE t.id) = t.id
        /\ (IF t.name = "none" THEN Known(d, i).name ELSE t.name) = t.name
    BY <1>4
  <2> QED
    BY <2>1, Zenon DEF CallAfter
<1>6. ToolDelta(d, t) = IF t.id = "none" \/ t.name = "none" THEN Fail(d) ELSE f
  <2>1. ~Known(d, i).announced
    BY <1>4
  <2>2. CallAfter(d, t).id = t.id /\ CallAfter(d, t).name = t.name
    BY <1>5
  <2> HIDE DEF tools, e, f, call
  <2>3. ToolDelta(d, t) =
           IF d.closed THEN d
           ELSE IF t.args = <<>> /\ Known(d, t.index).announced THEN x
           ELSE IF CallAfter(d, t).id = "none" \/ CallAfter(d, t).name = "none" THEN Fail(d)
           ELSE f
    BY ToolDeltaIs, Zenon DEF f, x, e, tools
  <2> QED
    BY <1>1, <2>1, <2>2, <2>3, Zenon
<1>7. CASE t.id = "none" \/ t.name = "none"
  <2>1. Failed(Fail(d))
    BY <1>1, FailureTyped, PushFailed
  <2>2. Flawed(deltas)
    BY <1>2, <1>3, <1>7 DEF Flawed
  <2> QED
    BY <1>6, <1>7, <2>1, <2>2
<1>8. CASE t.id # "none" /\ t.name # "none"
  <2>1. /\ tools \in SUBSET Calls /\ e \in Events
        /\ e = Event("tool", t.id, t.name, t.args, 0)
    BY <1>1, <1>2, <1>5, CallsTyped DEF Announce
  <2>2. /\ x \in Decoders /\ x.tools = tools /\ x.finish = d.finish /\ x.closed = d.closed
        /\ AccOf(x) = a
    <3> HIDE DEF tools
    <3> QED
      BY <1>1, <2>1, ToolsTyped
  <2>3. e.kind = "tool" /\ e.key = t.id /\ e.name = t.name /\ e.delta = t.args
    BY <2>1 DEF Event
  <2> HIDE DEF x, e
  <2>4. /\ f \in Decoders /\ f.tools = tools /\ f.finish = d.finish /\ f.closed = d.closed
        /\ a \in Accs /\ AccOf(f) = Apply(a, e)
    BY <2>1, <2>2, Pushed
  <2>5. Apply(a, e) = ApplyDelta(a, e)
    BY <1>1, <2>3 DEF Apply
  <2>6. \A b \in before : b.key # e.key
    <3>1. i \in Indices(deltas, k + 1) /\ Indices(deltas, k) \subseteq Indices(deltas, k + 1)
      BY <1>n
    <3>2. t.id \notin {"thinking", "content"}
          /\ \A j \in Indices(deltas, k + 1) : t.id = CallOf(deltas, j).key => i = j
      BY <1>0, <1>3, <1>8, <3>1, KeysApart
    <3>3. \A b \in CallsSoFar(deltas, k) : b.key # t.id
      BY <3>1, <3>2 DEF CallsSoFar, CallSoFar
    <3>4. /\ \A b \in Spoken(ThinkBlock(m)) : b.key = "thinking"
          /\ \A b \in Spoken(TextBlock(m, s)) : b.key = "content"
      BY <1>0, OtherKeys
    <3> QED
      BY <2>3, <3>2, <3>3, <3>4 DEF BlocksSoFar
  <2>7. /\ Held(ApplyDelta(a, e).content, before \cup {BlockOf(e)})
        /\ ApplyDelta(a, e).state = a.state /\ ApplyDelta(a, e).usage = a.usage
    <3> HIDE DEF before, a
    <3> QED
      BY <1>1, <2>1, <2>4, <2>6, BlockStarted
  <2>8. before \cup {BlockOf(e)} = BlocksSoFar(deltas, k + 1, m, s)
    <3>1. BlockOf(e) = new
      <4>1. Arguments(SubSeq(deltas, 1, k), i) = <<>>
        BY <1>0, ArgumentsNone
      <4>2. <<>> \o t.args = t.args
        <5>1. t.args \in Seq({"{", "}"})
          BY <1>2 DEF DeltaType, Text
        <5> QED
          BY <5>1, ConcatEmptySeq
      <4>3. new = [kind |-> "tool", key |-> t.id, name |-> t.name, text |-> t.args]
        BY <1>3, <1>n, <4>1, <4>2, Zenon
      <4> QED
        BY <2>3, <4>3 DEF BlockOf
    <3>2. CallsSoFar(deltas, k + 1)
             = {CallSoFar(deltas, k, j) : j \in Indices(deltas, k) \ {i}} \cup {new}
      BY <1>n
    <3>3. Indices(deltas, k) \ {i} = Indices(deltas, k)
      OBVIOUS
    <3>4. CallsSoFar(deltas, k + 1) = CallsSoFar(deltas, k) \cup {new}
      BY <3>2, <3>3 DEF CallsSoFar
    <3> HIDE DEF new
    <3> QED
      BY <3>1, <3>4 DEF BlocksSoFar
  <2>9. Knows(tools, deltas, k + 1)
    <3>1. tools = {p \in d.tools : p.index # i} \cup {call}
      BY DEF ToolsAfter
    <3>2. Indices(deltas, k + 1) = Indices(deltas, k) \cup {i}
      BY <1>n
    <3>3. call.index = i /\ call.id = t.id /\ call.name = t.name /\ call.announced
      BY <1>5
    <3> HIDE DEF tools, call, i
    <3>4. \A j \in Indices(deltas, k + 1) : \E p \in tools : p.index = j
      BY <1>1, <3>1, <3>2, <3>3 DEF Knows
    <3>5. ASSUME NEW p \in tools
          PROVE  /\ p.index \in Indices(deltas, k + 1) /\ p.announced
                 /\ p.id = CallOf(deltas, p.index).key /\ p.id # "none" /\ p.name # "none"
                 /\ CallOf(deltas, p.index).name # "none"
                 /\ p.name = CallOf(deltas, p.index).name \/ Flawed(deltas)
      <4>1. CASE p = call
        BY <1>3, <1>8, <3>2, <3>3, <4>1, Zenon
      <4>2. CASE p \in d.tools
        BY <1>1, <3>2, <4>2 DEF Knows
      <4> QED
        BY <3>1, <4>1, <4>2
    <3> QED
      BY <3>4, <3>5 DEF Knows
  <2>10. Matches(f, deltas, k + 1, m, s)
    <3> HIDE DEF f, a, before, tools
    <3> QED
      BY <1>1, <2>4, <2>5, <2>7, <2>8, <2>9 DEF Matches
  <2> QED
    BY <1>6, <1>8, <2>10
<1> QED
  BY <1>7, <1>8

\* A later delta of a call.
LEMMA CallContinues ==
    ASSUME ConstantsAssumption, NEW deltas \in Seq(DeltaType), NEW k \in Nat, k < Len(deltas),
           CallsApart(deltas), NEW m \in Spellings, NEW s \in BOOLEAN, NEW d,
           Matches(d, deltas, k, m, s), deltas[k + 1].index \in Indices(deltas, k)
    PROVE  \/ Matches(ToolDelta(d, deltas[k + 1]), deltas, k + 1, m, s)
           \/ Failed(ToolDelta(d, deltas[k + 1])) /\ Flawed(deltas)
<1> DEFINE t == deltas[k + 1]
           i == t.index
           a == AccOf(d)
           tools == ToolsAfter(d, t)
           call == CallAfter(d, t)
           e == Announce(d, t)
           x == [d EXCEPT !.tools = tools]
           f == Push(x, e)
           before == BlocksSoFar(deltas, k, m, s)
           old == CallSoFar(deltas, k, i)
           new == CallSoFar(deltas, k + 1, i)
           key == CallOf(deltas, i).key
           name == CallOf(deltas, i).name
           p == Known(d, i)
           others == {CallSoFar(deltas, k, j) : j \in Indices(deltas, k) \ {i}}
           spoken == Spoken(ThinkBlock(m)) \cup Spoken(TextBlock(m, s))
<1>0. k <= Len(deltas) /\ k + 1 <= Len(deltas) /\ k + 1 \in Nat /\ k + 1 \in DOMAIN deltas
  OBVIOUS
<1>n. /\ Indices(deltas, k + 1) = Indices(deltas, k) \cup {i}
      /\ new = [kind |-> "tool", key |-> key, name |-> name,
                text |-> Arguments(SubSeq(deltas, 1, k), i) \o t.args]
      /\ CallsSoFar(deltas, k + 1) = others \cup {new}
  BY CallsNext
<1>1. /\ d \in Decoders /\ ~d.closed /\ d.finish = m.finish /\ a.state = "open" /\ a.usage = m.usage
      /\ Held(a.content, before) /\ Knows(d.tools, deltas, k)
  BY DEF Matches
<1>2. t \in DeltaType /\ t \in Range(deltas)
  BY <1>0, ElementOfSeq DEF Range
<1>3. /\ p \in d.tools /\ p.index = i /\ p.announced /\ p.id = key /\ p.id # "none"
      /\ p.name # "none" /\ name # "none" /\ (p.name = name \/ Flawed(deltas))
  <2>1. \E q \in d.tools : q.index = i
    BY <1>1 DEF Knows
  <2>2. p \in d.tools /\ p.index = i
    BY <2>1 DEF Known
  <2> HIDE DEF p
  <2>3. /\ p.announced /\ p.id = CallOf(deltas, p.index).key /\ p.id # "none"
        /\ p.name # "none" /\ CallOf(deltas, p.index).name # "none"
        /\ (p.name = CallOf(deltas, p.index).name \/ Flawed(deltas))
    BY <1>1, <2>2 DEF Knows
  <2> HIDE DEF i
  <2> QED
    BY <2>2, <2>3
<1>4. /\ call.index = i /\ call.announced /\ call.id = key /\ call.name # "none"
      /\ call.name = name \/ Flawed(deltas)
  <2>1. t.id \in {"none", key}
    BY <1>2, <1>3 DEF CallsApart
  <2>2. t.name \in {"none", name} \/ Flawed(deltas)
    BY <1>2, Zenon DEF Flawed
  <2>3. /\ call.index = i /\ call.announced
        /\ call.id = (IF t.id = "none" THEN p.id ELSE t.id)
        /\ call.name = (IF t.name = "none" THEN p.name ELSE t.name)
    BY DEF CallAfter
  <2> HIDE DEF call, p, key, name, t
  <2> QED
    BY <1>3, <2>1, <2>2, <2>3
<1>5. ToolDelta(d, t) = IF t.args = <<>> THEN x ELSE f
  <2>1. /\ p.announced /\ CallAfter(d, t).id # "none" /\ CallAfter(d, t).name # "none"
    BY <1>3, <1>4
  <2> HIDE DEF tools, e, f, call
  <2>2. ToolDelta(d, t) =
           IF d.closed THEN d
           ELSE IF t.args = <<>> /\ Known(d, t.index).announced THEN x
           ELSE IF CallAfter(d, t).id = "none" \/ CallAfter(d, t).name = "none" THEN Fail(d)
           ELSE f
    BY ToolDeltaIs, Zenon DEF f, x, e, tools
  <2> QED
    BY <1>1, <2>1, <2>2, Zenon
<1>6. Knows(tools, deltas, k + 1)
  <2>1. tools = {q \in d.tools : q.index # i} \cup {call}
    BY DEF ToolsAfter
  <2>2. Indices(deltas, k + 1) = Indices(deltas, k) \cup {i}
    BY <1>n
  <2> HIDE DEF tools, call, i, p
  <2>3. \A j \in Indices(deltas, k + 1) : \E q \in tools : q.index = j
    BY <1>1, <1>4, <2>1, <2>2 DEF Knows
  <2>4. ASSUME NEW q \in tools
        PROVE  /\ q.index \in Indices(deltas, k + 1) /\ q.announced
               /\ q.id = CallOf(deltas, q.index).key /\ q.id # "none" /\ q.name # "none"
               /\ CallOf(deltas, q.index).name # "none"
               /\ q.name = CallOf(deltas, q.index).name \/ Flawed(deltas)
    <3>1. CASE q = call
      BY <1>3, <1>4, <2>2, <3>1, Zenon
    <3>2. CASE q \in d.tools
      BY <1>1, <2>2, <3>2 DEF Knows
    <3> QED
      BY <2>1, <3>1, <3>2
  <2> QED
    BY <2>3, <2>4 DEF Knows
<1>7. /\ tools \in SUBSET Calls /\ e \in Events
      /\ e.kind = "tool" /\ e.key = key /\ e.name = call.name /\ e.delta = t.args
  <2>1. tools \in SUBSET Calls /\ e \in Events
    BY <1>1, <1>2, CallsTyped
  <2>2. e.kind = "tool" /\ e.key = call.id /\ e.name = call.name /\ e.delta = t.args
    BY DEF Announce, Event
  <2> QED
    BY <1>4, <2>1, <2>2
<1>8. /\ x \in Decoders /\ x.tools = tools /\ x.finish = d.finish /\ x.closed = d.closed
      /\ AccOf(x) = a
  <2> HIDE DEF tools
  <2> QED
    BY <1>1, <1>7, ToolsTyped
<1>9. before = (spoken \cup others) \cup {old} /\ BlocksSoFar(deltas, k + 1, m, s) = (spoken \cup others) \cup {new}
  <2>1. CallsSoFar(deltas, k) = others \cup {old}
    BY DEF CallsSoFar
  <2> HIDE DEF others, old, new
  <2> QED
    BY <1>n, <2>1 DEF BlocksSoFar
<1>10. /\ old.kind = "tool" /\ old.key = key /\ old.name = name
       /\ old = [kind |-> "tool", key |-> key, name |-> name,
                 text |-> Arguments(SubSeq(deltas, 1, k), i)]
  BY DEF CallSoFar
<1>11. CASE t.args = <<>>
  <2>1. new = old
    <3>1. Arguments(SubSeq(deltas, 1, k), i) \in Seq({"{", "}"})
      BY <1>0, ArgumentsNext DEF Text
    <3>2. Arguments(SubSeq(deltas, 1, k), i) \o t.args = Arguments(SubSeq(deltas, 1, k), i)
      BY <1>11, <3>1, ConcatEmptySeq
    <3> QED
      BY <1>n, <1>10, <3>2, Zenon
  <2> HIDE DEF x, a, before, tools, old, new, others, spoken
  <2>2. Matches(x, deltas, k + 1, m, s)
    BY <1>1, <1>6, <1>8, <1>9, <2>1 DEF Matches
  <2> QED
    BY <1>5, <1>11, <2>2
<1>12. CASE t.args # <<>>
  <2> HIDE DEF x, e
  <2>1. /\ f \in Decoders /\ f.tools = tools /\ f.finish = d.finish /\ f.closed = d.closed
        /\ a \in Accs /\ AccOf(f) = Apply(a, e)
    BY <1>7, <1>8, Pushed
  <2>2. Apply(a, e) = ApplyDelta(a, e)
    BY <1>1, <1>7 DEF Apply
  <2>3. old \in before
    BY <1>9
  <2>4. IF old.kind = e.kind /\ old.name = e.name
        THEN /\ Held(ApplyDelta(a, e).content, (before \ {old}) \cup {Extending(old, e)})
             /\ ApplyDelta(a, e).state = a.state /\ ApplyDelta(a, e).usage = a.usage
        ELSE ApplyDelta(a, e).state = "error"
    <3>1. old.key = e.key
      BY <1>7, <1>10
    <3>2. a \in Accs /\ e \in Events /\ Held(a.content, before)
      BY <1>1, <1>7, <2>1
    <3> HIDE DEF before, a, old
    <3> QED
      BY <2>3, <3>1, <3>2, BlockExtended, Zenon
  <2> HIDE DEF f, a, before, tools, old, new, others, spoken, call, key, name
  <2>5. CASE call.name = name
    <3>1. (before \ {old}) \cup {Extending(old, e)} = BlocksSoFar(deltas, k + 1, m, s)
      <4>1. Extending(old, e) = new
        <5> DEFINE more == Arguments(SubSeq(deltas, 1, k), i) \o t.args
        <5>1. Extending(old, e) = [old EXCEPT !.text = more]
          BY <1>7, <1>10 DEF Extending
        <5> HIDE DEF more
        <5>2. [old EXCEPT !.text = more] = [kind |-> "tool", key |-> key, name |-> name, text |-> more]
          BY <1>10
        <5> QED
          BY <1>n, <5>1, <5>2, Zenon DEF more
      <4>2. old \notin spoken \cup others
        <5>1. i \in Indices(deltas, k)
          OBVIOUS
        <5>2. /\ key \notin {"thinking", "content"}
              /\ \A j \in Indices(deltas, k) : key = CallOf(deltas, j).key => i = j
          <6>1. CallOf(deltas, i).key # "none"
            BY <1>3 DEF key
          <6> QED
            BY <1>0, <5>1, <6>1, KeysApart DEF key
        <5>3. \A b \in others : b.key # key
          BY <5>2 DEF others, CallSoFar
        <5>4. \A b \in spoken : b.key \in {"thinking", "content"}
          BY <1>0, OtherKeys DEF spoken
        <5> QED
          BY <1>10, <5>2, <5>3, <5>4
      <4>3. before \ {old} = spoken \cup others
        BY <1>9, <4>2
      <4> QED
        BY <1>9, <4>1, <4>3
    <3>2. Matches(f, deltas, k + 1, m, s)
      BY <1>1, <1>6, <1>7, <1>8, <1>10, <2>1, <2>2, <2>4, <2>5, <3>1 DEF Matches
    <3> QED
      BY <1>5, <1>12, <3>2
  <2>6. CASE call.name # name
    <3>1. Failed(f)
      BY <1>7, <1>10, <2>1, <2>2, <2>4, <2>6 DEF Failed
    <3> QED
      BY <1>4, <1>5, <1>12, <2>6, <3>1
  <2> QED
    BY <2>5, <2>6
<1> QED
  BY <1>11, <1>12

LEMMA ToldNext ==
    ASSUME ConstantsAssumption, NEW d \in Decoders, NEW ts \in Seq(DeltaType), NEW j \in Nat,
           j <= Len(ts)
    PROVE  /\ Told(d, SubSeq(ts, 1, 0)) = d
           /\ Told(d, SubSeq(ts, 1, j)) \in Decoders
           /\ j < Len(ts) => /\ ts[j + 1] \in DeltaType
                             /\ Told(d, SubSeq(ts, 1, j + 1))
                                   = ToolDelta(Told(d, SubSeq(ts, 1, j)), ts[j + 1])
<1> DEFINE q == SubSeq(ts, 1, j)
<1>1. q \in Seq(DeltaType)
  OBVIOUS
<1> HIDE DEF q
<1>2. Told(d, q) \in Decoders
  <2>1. <<>> \in Seq(Events)
    OBVIOUS
  <2> QED
    BY <1>1, <2>1, ToldKeeps
<1>3. Told(d, SubSeq(ts, 1, 0)) = d
  <2>1. SubSeq(ts, 1, 0) = <<>> /\ <<>> \in Seq(DeltaType) /\ <<>> \in Seq({1}) /\ 1 \in {1}
    BY SubSeqEmpty
  <2>2. Told(d, <<>>) = Iterated(d, Telling, <<>>)
    BY <2>1, ToldIs
  <2>3. Iterated(d, Telling, <<>>) = d
    BY <2>1, IteratedAppend
  <2> QED
    BY <2>1, <2>2, <2>3
<1>4. ASSUME j < Len(ts)
      PROVE  /\ ts[j + 1] \in DeltaType
             /\ Told(d, SubSeq(ts, 1, j + 1)) = ToolDelta(Told(d, q), ts[j + 1])
  <2> DEFINE t == ts[j + 1]
             r == SubSeq(ts, 1, j + 1)
  <2>1. t \in DeltaType /\ r = Append(q, t)
    BY <1>4, OneMore DEF q
  <2> HIDE DEF t, r
  <2>2. r \in Seq(DeltaType)
    BY <1>1, <2>1, AppendProperties
  <2>3. Told(d, r) = Iterated(d, Telling, r) /\ Told(d, q) = Iterated(d, Telling, q)
    BY <1>1, <2>2, ToldIs
  <2>4. Iterated(d, Telling, Append(q, t)) = Telling[<<Iterated(d, Telling, q), t>>]
    BY <1>1, <2>1, IteratedAppend
  <2>5. Told(d, r) = ToolDelta(Told(d, q), t)
    BY <1>2, <2>1, <2>3, <2>4, TellingTyped
  <2> QED
    BY <2>1, <2>5 DEF t, r
<1> QED
  BY <1>2, <1>3, <1>4 DEF q

\* What telling the decoder the next deltas does.
ToldWell(d, deltas, k, m, s, ts) ==
    /\ Failed(d) => Failed(Told(d, ts))
    /\ Matches(d, deltas, k, m, s) =>
          \/ Matches(Told(d, ts), deltas, k + Len(ts), m, s)
          \/ Failed(Told(d, ts)) /\ Flawed(deltas)

\* The deltas of a chunk, one after the other.
LEMMA ToldMatches ==
    ASSUME ConstantsAssumption, NEW deltas \in Seq(DeltaType), NEW k \in Nat, CallsApart(deltas),
           NEW m \in Spellings, NEW s \in BOOLEAN, NEW d \in Decoders,
           NEW ts \in Seq(DeltaType), k + Len(ts) <= Len(deltas),
           \A j \in 1 .. Len(ts) : ts[j] = deltas[k + j]
    PROVE  ToldWell(d, deltas, k, m, s, ts)
<1> DEFINE D(j) == Told(d, SubSeq(ts, 1, j))
           Good(j) == /\ Failed(d) => Failed(D(j))
                      /\ Matches(d, deltas, k, m, s) =>
                            \/ Matches(D(j), deltas, k + j, m, s)
                            \/ Failed(D(j)) /\ Flawed(deltas)
           T == {j \in Nat : j <= Len(ts) => Good(j)}
<1>0. Len(ts) \in Nat /\ Len(deltas) \in Nat
  OBVIOUS
<1>1. 0 \in T
  <2>1. D(0) = d /\ k + 0 = k
    BY <1>0, ToldNext
  <2> QED
    BY <2>1
<1>2. ASSUME NEW j \in T PROVE j + 1 \in T
  <2> DEFINE t == ts[j + 1]
             e == D(j)
             f == D(j + 1)
  <2>1. ASSUME j + 1 <= Len(ts) PROVE Good(j + 1)
    <3>1. j \in Nat /\ j <= Len(ts) /\ j < Len(ts) /\ j + 1 \in 1 .. Len(ts)
      BY <1>0, <2>1
    <3>2. Good(j)
      BY <3>1
    <3>3. e \in Decoders /\ t \in DeltaType /\ f = ToolDelta(e, t)
      BY <3>1, ToldNext
    <3>4. t = deltas[(k + j) + 1] /\ k + (j + 1) = (k + j) + 1
      BY <3>1
    <3> DEFINE l == k + j
    <3>5. l \in Nat /\ l < Len(deltas)
      BY <1>0, <3>1
    <3>6. ASSUME Matches(e, deltas, l, m, s)
          PROVE  \/ Matches(ToolDelta(e, deltas[l + 1]), deltas, l + 1, m, s)
                 \/ Failed(ToolDelta(e, deltas[l + 1])) /\ Flawed(deltas)
      <4> HIDE DEF l, D, e
      <4>1. CASE deltas[l + 1].index \in Indices(deltas, l)
        BY <3>5, <3>6, <4>1, CallContinues
      <4>2. CASE deltas[l + 1].index \notin Indices(deltas, l)
        BY <3>5, <3>6, <4>2, CallStarts
      <4> QED
        BY <4>1, <4>2
    <3>7. Failed(e) => Failed(f)
      <4>1. ASSUME Failed(e) PROVE Failed(ToolDelta(e, t))
        <5>1. "text" \in Kinds7 /\ "none" \in Names /\ <<>> \in Text
          BY EmptyText DEF Kinds7, ConstantsAssumption
        <5>2. TokenType # {}
          <6>1. <<>> \in Seq(DeltaType) /\ 0 \in Nat
            OBVIOUS
          <6>2. [is |-> "data", what |-> "done", think |-> <<>>, text |-> <<>>, tools |-> <<>>,
                 usage |-> "none", amount |-> 0, finish |-> "none"] \in TokenType
            BY <5>1, <6>1 DEF TokenType
          <6> QED
            BY <6>2
        <5>3. PICK c \in TokenType : TRUE
          BY <5>2
        <5> HIDE DEF e, D
        <5> QED
          BY <3>3, <4>1, <5>1, <5>3, StillFailed
      <4> QED
        BY <3>3, <4>1
    <3> HIDE DEF D, t, e, f
    <3> QED
      BY <3>2, <3>3, <3>4, <3>6, <3>7 DEF e, f
  <2> QED
    BY <2>1
<1>3. T = Nat
  <2>1. T \subseteq Nat
    OBVIOUS
  <2> HIDE DEF T
  <2> QED
    BY <1>1, <1>2, <2>1, Induct
<1>4. Len(ts) \in T
  <2> HIDE DEF T
  <2> QED
    BY <1>0, <1>3
<1>5. Good(Len(ts))
  <2> HIDE DEF Good
  <2> QED
    BY <1>0, <1>4
<1>6. SubSeq(ts, 1, Len(ts)) = ts
  BY SubSeqFull
<1> QED
  BY <1>5, <1>6 DEF ToldWell

LEMMA MatchesSame ==
    ASSUME NEW d, NEW deltas, NEW k, NEW m, NEW n, NEW s, Matches(d, deltas, k, m, s),
           n.think = m.think, n.text = m.text, n.usage = m.usage, n.finish = m.finish
    PROVE  Matches(d, deltas, k, n, s)
<1>1. BlocksSoFar(deltas, k, n, s) = BlocksSoFar(deltas, k, m, s)
  BY Zenon DEF BlocksSoFar, ThinkBlock, TextBlock
<1> QED
  BY <1>1 DEF Matches

\* A chunk: what is told is the message with what the chunk adds to it, or an
\* error, and then the body does not decode or contradicts itself.
LEMMA ChunkMatches ==
    ASSUME ConstantsAssumption, NEW deltas \in Seq(DeltaType), NEW k \in Nat, CallsApart(deltas),
           NEW m \in Spellings, NEW s \in BOOLEAN, NEW d, Matches(d, deltas, k, m, s),
           NEW c \in TokenType, c.is = "data", k + Len(c.tools) <= Len(deltas),
           \A j \in 1 .. Len(c.tools) : c.tools[j] = deltas[k + j]
    PROVE  \/ Matches(Chunk(d, c, s), deltas, k + Len(c.tools), Spell(m, c), s)
              /\ c.usage # "bad" /\ c.finish # "unknown"
           \/ Failed(Chunk(d, c, s))
              /\ (Flawed(deltas) \/ c.usage = "bad" \/ c.finish = "unknown")
<1> DEFINE kind == IF s THEN "structured" ELSE "text"
           l == k + Len(c.tools)
           d1 == Usage(d, c)
           d2 == Content(d1, "thinking", "thinking", c.think)
           d3 == Content(d2, kind, "content", c.text)
           d4 == Told(d3, c.tools)
           d5 == FinishReason(d4, c)
           u == IF c.usage = "ok" THEN m.usage + c.amount ELSE m.usage
           r == IF c.finish = "none" THEN m.finish ELSE c.finish
           think == m.think \o c.think
           text == m.text \o c.text
           m1 == [m EXCEPT !.usage = u]
           m2 == [m1 EXCEPT !.think = think]
           m3 == [m2 EXCEPT !.text = text]
           m4 == [m3 EXCEPT !.finish = r]
           n == Spell(m, c)
           Bad == Flawed(deltas) \/ c.usage = "bad" \/ c.finish = "unknown"
<1>1. /\ c.think \in Text /\ c.text \in Text /\ c.tools \in Seq(DeltaType)
      /\ "thinking" \in Names /\ "content" \in Names
      /\ kind \in Kinds7 /\ "thinking" \in Kinds7
  <2>1. "thinking" \in Names /\ "content" \in Names
    BY DEF ConstantsAssumption
  <2>2. c.think \in Text /\ c.text \in Text /\ c.tools \in Seq(DeltaType)
    BY DEF TokenType
  <2>3. kind \in Kinds7 /\ "thinking" \in Kinds7
    BY DEF Kinds7
  <2> QED
    BY <2>1, <2>2, <2>3
<1>2. /\ u \in Nat /\ r \in Names /\ think \in Text /\ text \in Text
  <2>1. m.usage \in Nat /\ c.amount \in Nat
    BY DEF Spellings, TokenType
  <2>2. m.finish \in Names /\ c.finish \in Names
    BY DEF Spellings, TokenType
  <2>3. think \in Text /\ text \in Text
    <3>1. /\ c.think \in Seq({"{", "}"}) /\ c.text \in Seq({"{", "}"})
          /\ m.think \in Seq({"{", "}"}) /\ m.text \in Seq({"{", "}"})
      BY <1>1 DEF Text, Spellings
    <3> QED
      BY <3>1, ConcatProperties DEF Text
  <2>4. u \in Nat
    BY <2>1
  <2>5. r \in Names
    BY <2>2, Zenon
  <2> QED
    BY <2>3, <2>4, <2>5
<1>3. Chunk(d, c, s) = d5
  BY DEF Chunk, Told
<1>4. /\ n.usage = u /\ n.finish = r /\ n.think = think /\ n.text = text
  <2> HIDE DEF u, r, think, text
  <2>1. n = [think |-> think, text |-> text, tools |-> m.tools \o c.tools,
             usage |-> u, finish |-> r]
    BY Zenon DEF Spell, u, r, think, text
  <2> HIDE DEF n
  <2> QED
    BY <2>1
<1>5. d \in Decoders
  BY DEF Matches
<1>6. IF c.usage = "bad" THEN Failed(d1) ELSE Matches(d1, deltas, k, m1, s)
  <2>1. m1 = [m EXCEPT !.usage = IF c.usage = "ok" THEN @ + c.amount ELSE @]
    OBVIOUS
  <2> HIDE DEF m1, d1
  <2> QED
    BY <2>1, UsageMatches DEF d1
<1> HIDE DEF u, r, think, text
<1>7. /\ m1 \in Spellings /\ m2 \in Spellings /\ m3 \in Spellings
      /\ m4.usage = u /\ m4.finish = r /\ m4.think = think /\ m4.text = text
      /\ m1.think = m.think /\ m2.text = m.text /\ m3.finish = m.finish
  <2>1. /\ m1 \in Spellings /\ m1.usage = u /\ m1.finish = m.finish /\ m1.think = m.think
        /\ m1.text = m.text
    BY <1>2 DEF Spellings
  <2> HIDE DEF m1
  <2>2. /\ m2 \in Spellings /\ m2.usage = u /\ m2.finish = m.finish /\ m2.think = think
        /\ m2.text = m.text
    BY <1>2, <2>1 DEF Spellings
  <2> HIDE DEF m2
  <2>3. /\ m3 \in Spellings /\ m3.usage = u /\ m3.finish = m.finish /\ m3.think = think
        /\ m3.text = text
    BY <1>2, <2>2 DEF Spellings
  <2> HIDE DEF m3
  <2>4. m4.usage = u /\ m4.finish = r /\ m4.think = think /\ m4.text = text
    BY <1>2, <2>3 DEF Spellings
  <2> QED
    BY <2>1, <2>2, <2>3, <2>4
<1>8. PICK t \in DeltaType : TRUE
  <2>1. "none" \in Names /\ <<>> \in Text
    BY EmptyText DEF ConstantsAssumption
  <2>2. [index |-> 0, id |-> "none", name |-> "none", args |-> <<>>] \in DeltaType
    BY <2>1 DEF DeltaType
  <2> QED
    BY <2>2
<1>9. \A x : Failed(x) => /\ Failed(Content(x, "thinking", "thinking", c.think))
                          /\ Failed(Content(x, kind, "content", c.text))
                          /\ Failed(FinishReason(x, c))
  <2> HIDE DEF kind
  <2> QED
    BY <1>1, <1>8, StillFailed
<1>10. /\ Matches(d1, deltas, k, m1, s) => Matches(d2, deltas, k, m2, s)
       /\ Failed(d1) => Failed(d2)
  <2>1. ASSUME Matches(d1, deltas, k, m1, s) PROVE Matches(d2, deltas, k, m2, s)
    <3>1. m2 = [m1 EXCEPT !.think = @ \o c.think]
      BY <1>7 DEF think
    <3>2. k <= Len(deltas)
      <4>1. Len(c.tools) \in Nat /\ Len(deltas) \in Nat
        BY <1>1
      <4> QED
        BY <4>1
    <3>3. m1 \in Spellings
      BY <1>7
    <3>4. c.think \in Text
      BY <1>1
    <3> HIDE DEF m1, m2, d1, d2, kind, l
    <3>5. Matches(Content(d1, "thinking", "thinking", c.think), deltas, k,
                  [m1 EXCEPT !.think = @ \o c.think], s)
      BY <2>1, <3>2, <3>3, <3>4, ContentMatches
    <3> QED
      BY <3>1, <3>5 DEF d2
  <2>2. Failed(d1) => Failed(d2)
    BY <1>9
  <2> QED
    BY <2>1, <2>2
<1>11. /\ Matches(d2, deltas, k, m2, s) => Matches(d3, deltas, k, m3, s)
       /\ Failed(d2) => Failed(d3)
  <2>1. ASSUME Matches(d2, deltas, k, m2, s) PROVE Matches(d3, deltas, k, m3, s)
    <3>1. m3 = [m2 EXCEPT !.text = @ \o c.text]
      BY <1>7 DEF text
    <3>2. k <= Len(deltas)
      <4>1. Len(c.tools) \in Nat /\ Len(deltas) \in Nat
        BY <1>1
      <4> QED
        BY <4>1
    <3>3. m2 \in Spellings
      BY <1>7
    <3>4. c.text \in Text
      BY <1>1
    <3> HIDE DEF m1, m2, m3, d1, d2, d3, kind, l
    <3>5. Matches(Content(d2, IF s THEN "structured" ELSE "text", "content", c.text), deltas, k,
                  [m2 EXCEPT !.text = @ \o c.text], s)
      BY <2>1, <3>2, <3>3, <3>4, ContentMatches
    <3> QED
      BY <3>1, <3>5 DEF d3, kind
  <2>2. Failed(d2) => Failed(d3)
    BY <1>9
  <2> QED
    BY <2>1, <2>2
<1> HIDE DEF kind, d1, d2, d3
<1>12. /\ Matches(d3, deltas, k, m3, s) => \/ Matches(d4, deltas, l, m3, s)
                                           \/ Failed(d4) /\ Flawed(deltas)
       /\ Failed(d3) => Failed(d4)
  <2>1. Matches(d3, deltas, k, m3, s) \/ Failed(d3) => d3 \in Decoders
    BY DEF Matches, Failed
  <2> HIDE DEF m3
  <2>2. ASSUME d3 \in Decoders
        PROVE  /\ Failed(d3) => Failed(d4)
               /\ Matches(d3, deltas, k, m3, s) => \/ Matches(d4, deltas, l, m3, s)
                                                   \/ Failed(d4) /\ Flawed(deltas)
    <3> DEFINE ts == c.tools
    <3>1. /\ ts \in Seq(DeltaType) /\ k + Len(ts) <= Len(deltas)
          /\ \A j \in 1 .. Len(ts) : ts[j] = deltas[k + j]
      BY <1>1
    <3>2. m3 \in Spellings
      BY <1>7
    <3> HIDE DEF ts, d4, l
    <3>3. ToldWell(d3, deltas, k, m3, s, ts)
      BY <2>2, <3>1, <3>2, ToldMatches
    <3> QED
      BY <3>3 DEF ToldWell, d4, l, ts
  <2> QED
    BY <2>1, <2>2
<1> HIDE DEF d4
<1>13. /\ Matches(d4, deltas, l, m3, s) => IF c.finish = "unknown" THEN Failed(d5)
                                           ELSE Matches(d5, deltas, l, m4, s)
       /\ Failed(d4) => Failed(d5)
  <2>1. m4 = [m3 EXCEPT !.finish = IF c.finish = "none" THEN @ ELSE c.finish]
    BY <1>7 DEF r
  <2>2. m3 \in Spellings
    BY <1>7
  <2> HIDE DEF m3, m4, d5, l
  <2>3. ASSUME Matches(d4, deltas, l, m3, s)
        PROVE  IF c.finish = "unknown" THEN Failed(FinishReason(d4, c))
               ELSE Matches(FinishReason(d4, c), deltas, l,
                            [m3 EXCEPT !.finish = IF c.finish = "none" THEN @ ELSE c.finish], s)
    BY <2>2, <2>3, FinishMatches
  <2>4. Failed(d4) => Failed(FinishReason(d4, c))
    BY <1>9
  <2> QED
    BY <2>1, <2>3, <2>4 DEF d5
<1> HIDE DEF d5, n, l
<1>14. Matches(d5, deltas, l, m4, s) => Matches(d5, deltas, l, n, s)
  <2> HIDE DEF m4
  <2> QED
    BY <1>4, <1>7, MatchesSame
<1> HIDE DEF m1, m2, m3, m4
<1>15. \/ Matches(d5, deltas, l, n, s) /\ c.usage # "bad" /\ c.finish # "unknown"
       \/ Failed(d5) /\ (Flawed(deltas) \/ c.usage = "bad" \/ c.finish = "unknown")
  BY <1>6, <1>10, <1>11, <1>12, <1>13, <1>14, Zenon
<1> QED
  BY <1>3, <1>15 DEF l, n

\* The message of the first p tokens of a body.
MessageAt(w, p) == Spelled(SubSeq(w, 1, p))

\* The calls of a message after one more token begin with those before it.
LEMMA SpellTools ==
    ASSUME NEW m \in Spellings, NEW c \in TokenType
    PROVE  /\ Spell(m, c).tools = IF c.is = "data" THEN m.tools \o c.tools ELSE m.tools
           /\ c.is # "data" => Spell(m, c) = m
           /\ Len(m.tools) \in Nat /\ Len(Spell(m, c).tools) \in Nat
           /\ Len(m.tools) <= Len(Spell(m, c).tools)
           /\ \A j \in 1 .. Len(m.tools) : Spell(m, c).tools[j] = m.tools[j]
<1>1. Spell(m, c).tools = IF c.is = "data" THEN m.tools \o c.tools ELSE m.tools
  BY DEF Spell
<1>2. c.is # "data" => Spell(m, c) = m
  BY DEF Spell
<1>3. m.tools \in Seq(DeltaType) /\ c.tools \in Seq(DeltaType)
  BY DEF Spellings, TokenType
<1> DEFINE x == m.tools
           y == c.tools
           z == Spell(m, c).tools
<1>4. x \in Seq(DeltaType) /\ y \in Seq(DeltaType) /\ z = IF c.is = "data" THEN x \o y ELSE x
  BY <1>1, <1>3
<1> HIDE DEF x, y, z
<1>5. Len(x) \in Nat /\ Len(z) \in Nat /\ Len(x) <= Len(z) /\ \A j \in 1 .. Len(x) : z[j] = x[j]
  <2>1. CASE c.is = "data"
    <3>1. z = x \o y
      BY <1>4, <2>1
    <3> QED
      BY <1>4, <3>1
  <2>2. CASE c.is # "data"
    <3>1. z = x
      BY <1>4, <2>2
    <3> QED
      BY <1>4, <3>1
  <2> QED
    BY <2>1, <2>2
<1> QED
  BY <1>1, <1>2, <1>5 DEF x, z

LEMMA MessageGrows ==
    ASSUME ConstantsAssumption, NEW w \in Seq(TokenType), NEW p \in Nat, NEW q \in Nat,
           p <= q, q <= Len(w)
    PROVE  /\ MessageAt(w, p) \in Spellings /\ MessageAt(w, q) \in Spellings
           /\ Len(MessageAt(w, p).tools) \in Nat /\ Len(MessageAt(w, q).tools) \in Nat
           /\ Len(MessageAt(w, p).tools) <= Len(MessageAt(w, q).tools)
           /\ \A j \in 1 .. Len(MessageAt(w, p).tools) :
                 MessageAt(w, q).tools[j] = MessageAt(w, p).tools[j]
           /\ (\A i \in p + 1 .. q : w[i].is # "data") => MessageAt(w, q) = MessageAt(w, p)
<1> DEFINE M(r) == MessageAt(w, p + r)
           Good(r) ==
               /\ M(r) \in Spellings /\ Len(M(0).tools) <= Len(M(r).tools)
               /\ \A j \in 1 .. Len(M(0).tools) : M(r).tools[j] = M(0).tools[j]
               /\ (\A i \in p + 1 .. p + r : w[i].is # "data") => M(r) = M(0)
           T == {r \in Nat : p + r <= Len(w) => Good(r)}
<1>0. Len(w) \in Nat
  OBVIOUS
<1>1. M(0) \in Spellings /\ M(0) = MessageAt(w, p) /\ Len(M(0).tools) \in Nat
  <2>1. M(0) = MessageAt(w, p)
    OBVIOUS
  <2>2. MessageAt(w, p) \in Spellings
    BY <1>0, SpelledNext DEF MessageAt
  <2> QED
    BY <2>1, <2>2 DEF Spellings
<1>2. 0 \in T
  <2> HIDE DEF M
  <2> QED
    BY <1>1
<1>3. ASSUME NEW r \in T PROVE r + 1 \in T
  <2>1. ASSUME p + (r + 1) <= Len(w) PROVE Good(r + 1)
    <3> DEFINE c == w[(p + r) + 1]
    <3>1. r \in Nat /\ p + r \in Nat /\ p + r < Len(w) /\ p + (r + 1) = (p + r) + 1
          /\ p + r <= Len(w)
      BY <1>0, <2>1
    <3>2. Good(r)
      BY <3>1
    <3>3. c \in TokenType
      BY <1>0, <3>1
    <3>4. M(r + 1) = Spell(M(r), c)
      BY <3>1, SpelledNext DEF MessageAt
    <3>5. (\A i \in p + 1 .. p + (r + 1) : w[i].is # "data") =>
             /\ \A i \in p + 1 .. p + r : w[i].is # "data"
             /\ c.is # "data"
      BY <3>1
    <3> HIDE DEF M, c
    <3>6. M(r) \in Spellings
      BY <3>2
    <3>7. M(r + 1) \in Spellings
      BY <3>3, <3>4, <3>6, SpellTyped
    <3>8. /\ c.is # "data" => M(r + 1) = M(r)
          /\ Len(M(r).tools) \in Nat /\ Len(M(r + 1).tools) \in Nat
          /\ Len(M(r).tools) <= Len(M(r + 1).tools)
          /\ \A j \in 1 .. Len(M(r).tools) : M(r + 1).tools[j] = M(r).tools[j]
      BY <3>3, <3>4, <3>6, SpellTools
    <3>9. Len(M(0).tools) <= Len(M(r + 1).tools)
      BY <1>1, <3>2, <3>8
    <3>10. \A j \in 1 .. Len(M(0).tools) : M(r + 1).tools[j] = M(0).tools[j]
      <4> TAKE j \in 1 .. Len(M(0).tools)
      <4>1. j \in 1 .. Len(M(r).tools)
        BY <1>1, <3>2, <3>8
      <4> QED
        BY <3>2, <3>8, <4>1
    <3> QED
      BY <3>2, <3>5, <3>7, <3>8, <3>9, <3>10
  <2> QED
    BY <2>1
<1>4. T = Nat
  <2>1. T \subseteq Nat
    OBVIOUS
  <2> HIDE DEF T
  <2> QED
    BY <1>2, <1>3, <2>1, Induct
<1>5. q - p \in T
  <2>1. q - p \in Nat
    OBVIOUS
  <2> HIDE DEF T
  <2> QED
    BY <1>4, <2>1
<1>6. Good(q - p) /\ p + (q - p) = q
  <2> HIDE DEF Good
  <2> QED
    BY <1>0, <1>5
<1>7. M(q - p) = MessageAt(w, q)
  BY <1>6
<1> HIDE DEF M
<1>8. Len(M(q - p).tools) \in Nat
  BY <1>6 DEF Spellings
<1> QED
  BY <1>1, <1>6, <1>7, <1>8

\* What is said: all data up to there is chunks, and then it is not.
Chunks(w, p) == \A i \in 1 .. p : w[i].is = "data" => w[i].what = "chunk"

LEMMA SaidIs ==
    ASSUME NEW w \in Seq(TokenType)
    PROVE  LET l == Len(Said(w)) IN
           /\ l \in 0 .. Len(w) /\ Said(w) = SubSeq(w, 1, l) /\ Chunks(w, l)
           /\ l < Len(w) => w[l + 1].is = "data" /\ w[l + 1].what # "chunk"
<1> DEFINE ends == {i \in DataIn(w) : w[i].what # "chunk"}
<1>0. Len(w) \in Nat /\ DOMAIN w = 1 .. Len(w)
  OBVIOUS
<1>1. \A i : i \in ends <=> i \in 1 .. Len(w) /\ w[i].is = "data" /\ w[i].what # "chunk"
  BY <1>0 DEF DataIn
<1>2. Said(w) = IF ends = {} THEN w ELSE SubSeq(w, 1, Min(ends) - 1)
  BY DEF Said
<1>3. CASE ends = {}
  <2>1. Said(w) = w /\ SubSeq(w, 1, Len(w)) = w
    BY <1>2, <1>3, SubSeqFull
  <2>2. Chunks(w, Len(w))
    BY <1>1, <1>3 DEF Chunks
  <2> QED
    BY <1>0, <2>1, <2>2
<1>4. CASE ends # {}
  <2> DEFINE l == Min(ends) - 1
  <2> HIDE DEF ends
  <2>1. ends \subseteq Nat
    BY <1>0, <1>1
  <2>2. Min(ends) \in ends /\ \A j \in ends : Min(ends) <= j
    BY <1>4, <2>1, LeastOf
  <2>3. Min(ends) \in 1 .. Len(w) /\ w[Min(ends)].is = "data" /\ w[Min(ends)].what # "chunk"
    BY <1>1, <2>2
  <2> HIDE DEF l
  <2>4. l \in 0 .. Len(w) /\ l < Len(w) /\ l + 1 = Min(ends) /\ l \in Nat
    BY <1>0, <2>3 DEF l
  <2>5. Len(SubSeq(w, 1, l)) = l
    BY <1>0, <2>4
  <2>6. Said(w) = SubSeq(w, 1, l)
    BY <1>2, <1>4 DEF l
  <2>7. Chunks(w, l)
    <3> SUFFICES ASSUME NEW i \in 1 .. l, w[i].is = "data" PROVE w[i].what = "chunk"
      BY DEF Chunks
    <3>1. i \in 1 .. Len(w) /\ i < Min(ends)
      BY <1>0, <2>4
    <3>2. i \notin ends
      BY <1>0, <2>2, <2>3, <3>1
    <3> QED
      BY <1>1, <3>1, <3>2
  <2> QED
    BY <2>3, <2>4, <2>5, <2>6, <2>7
<1> QED
  BY <1>3, <1>4

\* Chunks reach no further than what is said, and it ends where they do.
LEMMA SaidFar ==
    ASSUME NEW w \in Seq(TokenType), NEW p \in 0 .. Len(w), Chunks(w, p)
    PROVE  /\ p <= Len(Said(w))
           /\ p = Len(w) => Len(Said(w)) = Len(w)
           /\ p < Len(w) /\ w[p + 1].is = "data" /\ w[p + 1].what # "chunk" => Len(Said(w)) = p
<1> DEFINE l == Len(Said(w))
<1>1. /\ l \in 0 .. Len(w) /\ Chunks(w, l) /\ Len(w) \in Nat
      /\ l < Len(w) => w[l + 1].is = "data" /\ w[l + 1].what # "chunk"
  BY SaidIs
<1> HIDE DEF l
<1>2. p <= l
  <2> SUFFICES ASSUME l < p PROVE FALSE
    BY <1>1
  <2>1. l < Len(w) /\ l + 1 \in 1 .. p
    BY <1>1
  <2> QED
    BY <1>1, <2>1 DEF Chunks
<1>3. ASSUME p < Len(w), w[p + 1].is = "data", w[p + 1].what # "chunk" PROVE l = p
  <2> SUFFICES ASSUME p < l PROVE FALSE
    BY <1>1, <1>2
  <2>1. p + 1 \in 1 .. l
    BY <1>1
  <2> QED
    BY <1>1, <1>3, <2>1 DEF Chunks
<1> QED
  BY <1>1, <1>2, <1>3 DEF l

-----------------------------------------------------------------------------
(* What the decoder has told, against what the body spells out.             *)

SaidCalls(w) == Spelled(Said(w)).tools

\* The body has no answer, or contradicts itself.
Wrong(w, s) == ~(Intact(w) /\ Decodes(w, s) /\ Consistent(w))

\* The accumulator holds the answer of the body.
Right(w, s, a) ==
    /\ Intact(w) /\ Decodes(w, s)
    /\ Range(a.content) = WholeBlocks(Spelled(Said(w)), s)
    /\ a.usage = Spelled(Said(w)).usage /\ a.reason = Spelled(Said(w)).finish

\* The first p tokens have been told, and nothing was wrong with them.
Calm(w, p) ==
    \A i \in 1 .. p : w[i].is = "data" =>
        w[i].what = "chunk" /\ w[i].finish # "unknown" /\ w[i].usage # "bad"
InStep(w, s, p, d) ==
    /\ p \in 0 .. Len(w) /\ Calm(w, p)
    /\ Matches(d, SaidCalls(w), Len(MessageAt(w, p).tools), MessageAt(w, p), s)

\* The answer is decided.
Answered(w, s, d) ==
    \/ Failed(d) /\ Wrong(w, s)
    \/ d \in Decoders /\ d.closed /\ AccOf(d).state = "finished" /\ Right(w, s, AccOf(d))

LEMMA SaidTyped ==
    ASSUME ConstantsAssumption, NEW w \in Seq(TokenType)
    PROVE  /\ Spelled(Said(w)) \in Spellings /\ SaidCalls(w) \in Seq(DeltaType)
           /\ Len(Said(w)) \in 0 .. Len(w) /\ Said(w) = SubSeq(w, 1, Len(Said(w)))
           /\ Spelled(Said(w)) = MessageAt(w, Len(Said(w)))
<1> DEFINE l == Len(Said(w))
<1>1. l \in 0 .. Len(w) /\ Said(w) = SubSeq(w, 1, l)
  BY SaidIs
<1> HIDE DEF l
<1>2. Spelled(Said(w)) = MessageAt(w, l)
  BY <1>1 DEF MessageAt
<1>3. l \in Nat /\ l <= Len(w)
  BY <1>1
<1>4. MessageAt(w, l) \in Spellings
  BY <1>3, SpelledNext DEF MessageAt
<1>5. SaidCalls(w) \in Seq(DeltaType)
  BY <1>2, <1>4 DEF SaidCalls, Spellings
<1> QED
  BY <1>1, <1>2, <1>4, <1>5 DEF l

LEMMA FlawedWrong ==
    ASSUME NEW w, NEW s, Flawed(SaidCalls(w))
    PROVE  Wrong(w, s)
<1> DEFINE D == SaidCalls(w)
<1>1. PICK t \in Range(D) :
         \/ CallOf(D, t.index).key = "none" \/ CallOf(D, t.index).name = "none"
         \/ t.name \notin {"none", CallOf(D, t.index).name}
  BY DEF Flawed
<1>2. CASE CallOf(D, t.index).key = "none" \/ CallOf(D, t.index).name = "none"
  <2>1. CallOf(D, t.index) \in WholeBlocks(Spelled(Said(w)), s)
    BY DEF WholeBlocks, SaidCalls
  <2>2. CallOf(D, t.index).kind = "tool"
    BY DEF CallOf
  <2>3. ~Decodes(w, s)
    BY <1>2, <2>1, <2>2 DEF Decodes
  <2> QED
    BY <2>3 DEF Wrong
<1>3. CASE t.name \notin {"none", CallOf(D, t.index).name}
  <2>1. ~Consistent(w)
    BY <1>3 DEF Consistent, SaidCalls
  <2> QED
    BY <2>1 DEF Wrong
<1> QED
  BY <1>1, <1>2, <1>3

LEMMA BadWrong ==
    ASSUME NEW w \in Seq(TokenType), NEW s, NEW p \in 0 .. Len(w), Chunks(w, p),
           NEW i \in 1 .. p, w[i].is = "data", w[i].finish = "unknown" \/ w[i].usage = "bad"
    PROVE  Wrong(w, s)
<1> DEFINE l == Len(Said(w))
<1>1. l \in 0 .. Len(w) /\ Said(w) = SubSeq(w, 1, l) /\ p <= l
  BY SaidIs, SaidFar
<1> HIDE DEF l
<1>2. i \in 1 .. l /\ Len(w) \in Nat
  BY <1>1
<1>3. i \in DOMAIN Said(w) /\ Said(w)[i] = w[i]
  <2>1. l \in Nat /\ l <= Len(w)
    BY <1>1
  <2>2. Len(SubSeq(w, 1, l)) = l /\ SubSeq(w, 1, l)[i] = w[i] /\ DOMAIN SubSeq(w, 1, l) = 1 .. l
    BY <1>2, <2>1
  <2> QED
    BY <1>1, <1>2, <2>2
<1>4. i \in DataIn(Said(w))
  BY <1>3 DEF DataIn
<1>5. ~Decodes(w, s)
  BY <1>3, <1>4 DEF Decodes
<1> QED
  BY <1>5 DEF Wrong

\* Tokens that are no data change nothing.
LEMMA SkipStep ==
    ASSUME ConstantsAssumption, NEW w \in Seq(TokenType), NEW s, NEW p, NEW d, InStep(w, s, p, d),
           NEW q \in 0 .. Len(w), p <= q, \A i \in p + 1 .. q : w[i].is # "data"
    PROVE  InStep(w, s, q, d)
<1>1. p \in Nat /\ q \in Nat /\ p <= q /\ q <= Len(w) /\ Len(w) \in Nat
  BY DEF InStep
<1>2. MessageAt(w, q) = MessageAt(w, p)
  BY <1>1, MessageGrows
<1>3. Calm(w, q)
  <2> SUFFICES ASSUME NEW i \in 1 .. q, w[i].is = "data"
               PROVE  w[i].what = "chunk" /\ w[i].finish # "unknown" /\ w[i].usage # "bad"
    BY DEF Calm
  <2>1. i \in 1 .. p
    BY <1>1
  <2> QED
    BY <2>1 DEF InStep, Calm
<1> QED
  BY <1>2, <1>3 DEF InStep

\* One more token, which is a chunk.
LEMMA ChunkStep ==
    ASSUME ConstantsAssumption, NEW w \in Seq(TokenType), CallsApart(SaidCalls(w)),
           NEW s \in BOOLEAN, NEW p, NEW d, InStep(w, s, p, d), p < Len(w),
           w[p + 1].is = "data", w[p + 1].what = "chunk"
    PROVE  \/ InStep(w, s, p + 1, Chunk(d, w[p + 1], s))
           \/ Failed(Chunk(d, w[p + 1], s)) /\ Wrong(w, s)
<1> DEFINE D == SaidCalls(w)
           c == w[p + 1]
           m == MessageAt(w, p)
           n == MessageAt(w, p + 1)
           k == Len(m.tools)
           l == Len(Said(w))
<1>0. p \in Nat /\ p + 1 \in Nat /\ p + 1 <= Len(w) /\ p <= Len(w) /\ Len(w) \in Nat /\ p <= p + 1
      /\ p + 1 \in 0 .. Len(w)
  BY DEF InStep
<1>1. c \in TokenType /\ m \in Spellings /\ n = Spell(m, c)
  <2>1. c \in TokenType
    BY <1>0
  <2> QED
    BY <1>0, <2>1, SpelledNext DEF MessageAt
<1>2. Chunks(w, p + 1)
  <2> SUFFICES ASSUME NEW i \in 1 .. p + 1, w[i].is = "data" PROVE w[i].what = "chunk"
    BY DEF Chunks
  <2>1. i = p + 1 \/ i \in 1 .. p
    BY <1>0
  <2> QED
    BY <2>1 DEF InStep, Calm
<1>3. /\ l \in 0 .. Len(w) /\ p + 1 <= l /\ D \in Seq(DeltaType)
      /\ D = MessageAt(w, l).tools
  BY <1>0, <1>2, SaidFar, SaidTyped DEF SaidCalls
<1> HIDE DEF l
<1>4. /\ k \in Nat /\ c.tools \in Seq(DeltaType) /\ n.tools = m.tools \o c.tools
      /\ m.tools \in Seq(DeltaType)
  <2>1. m.tools \in Seq(DeltaType) /\ c.tools \in Seq(DeltaType)
    BY <1>1 DEF Spellings, TokenType
  <2>2. Spell(m, c).tools = m.tools \o c.tools
    BY DEF Spell
  <2> HIDE DEF m, c, n
  <2> QED
    BY <1>1, <2>1, <2>2
<1>5. /\ Len(n.tools) <= Len(D) /\ \A j \in 1 .. Len(n.tools) : D[j] = n.tools[j]
  <2>1. l \in Nat /\ l <= Len(w)
    BY <1>0, <1>3
  <2> DEFINE v == p + 1
             z == MessageAt(w, l)
  <2>2. v \in Nat /\ v <= l
    BY <1>0, <1>3
  <2> HIDE DEF v, z
  <2>3. /\ Len(MessageAt(w, v).tools) <= Len(MessageAt(w, l).tools)
        /\ \A j \in 1 .. Len(MessageAt(w, v).tools) :
              MessageAt(w, l).tools[j] = MessageAt(w, v).tools[j]
    BY <2>1, <2>2, MessageGrows
  <2>4. n = MessageAt(w, v)
    BY DEF v
  <2> HIDE DEF D, n
  <2> QED
    BY <1>3, <2>3, <2>4
<1>6. k + Len(c.tools) <= Len(D) /\ \A j \in 1 .. Len(c.tools) : c.tools[j] = D[k + j]
  <2> DEFINE x == m.tools
             y == c.tools
  <2>1. n.tools = x \o y /\ x \in Seq(DeltaType) /\ y \in Seq(DeltaType) /\ k = Len(x)
    BY <1>4
  <2> HIDE DEF x, y, D, n, k
  <2>2. /\ Len(n.tools) = k + Len(y)
        /\ \A j \in 1 .. Len(y) : k + j \in 1 .. Len(n.tools) /\ n.tools[k + j] = y[j]
    BY <2>1
  <2> QED
    BY <1>5, <2>2 DEF y
<1>7. Matches(d, D, k, m, s)
  BY DEF InStep
<1> HIDE DEF D, k, m, n, c
<1>8. \/ Matches(Chunk(d, c, s), D, k + Len(c.tools), Spell(m, c), s)
         /\ c.usage # "bad" /\ c.finish # "unknown"
      \/ Failed(Chunk(d, c, s)) /\ (Flawed(D) \/ c.usage = "bad" \/ c.finish = "unknown")
  <2>1. CallsApart(D) /\ c.is = "data"
    BY DEF D, c
  <2>2. /\ c \in TokenType /\ m \in Spellings /\ D \in Seq(DeltaType) /\ k \in Nat
        /\ k + Len(c.tools) <= Len(D)
    BY <1>1, <1>3, <1>4, <1>6
  <2>3. \A j \in 1 .. Len(c.tools) : c.tools[j] = D[k + j]
    BY <1>6
  <2> QED
    BY <1>7, <2>1, <2>2, <2>3, ChunkMatches, Zenon
<1>9. CASE Matches(Chunk(d, c, s), D, k + Len(c.tools), Spell(m, c), s)
           /\ c.usage # "bad" /\ c.finish # "unknown"
  <2>1. k + Len(c.tools) = Len(n.tools)
    <3>1. k = Len(m.tools)
      BY DEF k
    <3> DEFINE x == m.tools
               y == c.tools
    <3>2. x \in Seq(DeltaType) /\ y \in Seq(DeltaType) /\ n.tools = x \o y /\ k = Len(x)
      BY <1>4, <3>1
    <3> HIDE DEF x, y
    <3>3. Len(n.tools) = k + Len(y)
      BY <3>2
    <3> QED
      BY <3>3 DEF y
  <2>2. Calm(w, p + 1)
    <3> SUFFICES ASSUME NEW i \in 1 .. p + 1, w[i].is = "data"
                 PROVE  w[i].what = "chunk" /\ w[i].finish # "unknown" /\ w[i].usage # "bad"
      BY DEF Calm
    <3>1. i = p + 1 \/ i \in 1 .. p
      BY <1>0
    <3> QED
      BY <1>9, <3>1 DEF InStep, Calm, c
  <2>3. InStep(w, s, p + 1, Chunk(d, c, s))
    BY <1>0, <1>1, <1>9, <2>1, <2>2 DEF InStep, D, n
  <2> QED
    BY <2>3 DEF c
<1>10. CASE Failed(Chunk(d, c, s)) /\ (Flawed(D) \/ c.usage = "bad" \/ c.finish = "unknown")
  <2>1. Wrong(w, s)
    <3>1. CASE Flawed(D)
      BY <3>1, FlawedWrong DEF D
    <3>2. CASE c.usage = "bad" \/ c.finish = "unknown"
      <4>1. p + 1 \in 1 .. p + 1
        BY <1>0
      <4> QED
        BY <1>0, <1>2, <3>2, <4>1, BadWrong DEF c
    <3> QED
      BY <1>10, <3>1, <3>2
  <2> QED
    BY <1>10, <2>1 DEF c
<1> QED
  BY <1>8, <1>9, <1>10

\* When all deltas are told, the blocks are those of the message.
LEMMA AllBlocks ==
    ASSUME NEW m \in Spellings, NEW s
    PROVE  BlocksSoFar(m.tools, Len(m.tools), m, s) = WholeBlocks(m, s)
<1> DEFINE D == m.tools
           k == Len(D)
<1>1. D \in Seq(DeltaType)
  BY DEF Spellings
<1>2. {b \in {ThinkBlock(m), TextBlock(m, s)} : b.text # <<>>}
         = Spoken(ThinkBlock(m)) \cup Spoken(TextBlock(m, s))
  <2> DEFINE x == ThinkBlock(m)
             y == TextBlock(m, s)
  <2> HIDE DEF x, y
  <2>1. {b \in {x, y} : b.text # <<>>} = {b \in {x} : b.text # <<>>} \cup {b \in {y} : b.text # <<>>}
    OBVIOUS
  <2> QED
    BY <2>1 DEF Spoken, x, y
<1>3. WholeBlocks(m, s) = {b \in {ThinkBlock(m), TextBlock(m, s)} : b.text # <<>>}
                          \cup {CallOf(D, t.index) : t \in Range(D)}
  BY DEF WholeBlocks, ThinkBlock, TextBlock
<1> HIDE DEF D
<1>4. CallsSoFar(D, k) = {CallOf(D, t.index) : t \in Range(D)}
  <2>1. k \in Nat /\ DOMAIN D = 1 .. k /\ Range(D) = {D[j] : j \in 1 .. k}
    BY <1>1 DEF Range
  <2>2. Indices(D, k) = {t.index : t \in Range(D)}
    BY <2>1 DEF Indices
  <2>3. SubSeq(D, 1, k) = D
    BY <1>1, SubSeqFull
  <2>4. \A i : CallSoFar(D, k, i) = CallOf(D, i)
    BY <2>3 DEF CallSoFar, CallOf
  <2> HIDE DEF k
  <2> QED
    BY <2>2, <2>4 DEF CallsSoFar
<1> QED
  BY <1>2, <1>3, <1>4 DEF BlocksSoFar, D

\* [DONE]: the reason was told and the blocks are whole, or there is no answer.
LEMMA DoneStep ==
    ASSUME ConstantsAssumption, NEW w \in Seq(TokenType), NEW s \in BOOLEAN, NEW p, NEW d,
           InStep(w, s, p, d), p < Len(w), w[p + 1].is = "data", w[p + 1].what = "done"
    PROVE  IF d.finish = "none" THEN Wrong(w, s)
           ELSE Answered(w, s, [Push(d, Event("finished", "none", d.finish, <<>>, 0))
                                   EXCEPT !.closed = TRUE])
<1> DEFINE m == MessageAt(w, p)
           D == SaidCalls(w)
           k == Len(m.tools)
           l == Len(Said(w))
           fin == Event("finished", "none", d.finish, <<>>, 0)
           e == Push(d, fin)
           f == [e EXCEPT !.closed = TRUE]
           a == AccOf(d)
<1>0. p \in Nat /\ p + 1 \in Nat /\ p + 1 <= Len(w) /\ p <= Len(w) /\ Len(w) \in Nat
      /\ p \in 0 .. Len(w)
  BY DEF InStep
<1>1. Chunks(w, p)
  BY DEF InStep, Calm, Chunks
<1>2. l = p
  BY <1>0, <1>1, SaidFar
<1>3. m \in Spellings /\ m = Spelled(Said(w)) /\ D = m.tools
  BY <1>0, <1>2, SaidTyped, SpelledNext DEF MessageAt, SaidCalls
<1>4. Intact(w)
  BY <1>0, <1>2 DEF Intact
<1>5. \A i \in DataIn(Said(w)) : Said(w)[i].finish # "unknown" /\ Said(w)[i].usage # "bad"
  <2> TAKE i \in DataIn(Said(w))
  <2>1. Said(w) = SubSeq(w, 1, p)
    BY <1>2, SaidTyped
  <2>2. DOMAIN SubSeq(w, 1, p) = 1 .. p /\ \A j \in 1 .. p : SubSeq(w, 1, p)[j] = w[j]
    BY <1>0
  <2>3. i \in 1 .. p /\ w[i].is = "data" /\ Said(w)[i] = w[i]
    BY <2>1, <2>2 DEF DataIn
  <2> QED
    BY <2>3 DEF InStep, Calm
<1>6. Matches(d, D, k, m, s)
  BY DEF InStep
<1>7. /\ d \in Decoders /\ ~d.closed /\ d.finish = m.finish /\ a.state = "open"
      /\ a.usage = m.usage /\ Held(a.content, BlocksSoFar(D, k, m, s)) /\ Knows(d.tools, D, k)
  BY <1>6 DEF Matches
<1> HIDE DEF D, m, l
<1>8. Range(a.content) = WholeBlocks(m, s)
  BY <1>3, <1>7, AllBlocks DEF Held
<1>9. \A b \in WholeBlocks(m, s) : b.kind = "tool" => b.key # "none" /\ b.name # "none"
  <2> SUFFICES ASSUME NEW b \in WholeBlocks(m, s), b.kind = "tool"
               PROVE  b.key # "none" /\ b.name # "none"
    OBVIOUS
  <2>1. b \in BlocksSoFar(D, k, m, s)
    BY <1>3, AllBlocks
  <2>2. b \notin Spoken(ThinkBlock(m)) /\ b \notin Spoken(TextBlock(m, s))
    BY DEF Spoken, ThinkBlock, TextBlock
  <2>3. b \in CallsSoFar(D, k)
    BY <2>1, <2>2 DEF BlocksSoFar
  <2>4. PICK i \in Indices(D, k) : b = CallSoFar(D, k, i)
    BY <2>3 DEF CallsSoFar
  <2>5. b.key = CallOf(D, i).key /\ b.name = CallOf(D, i).name
    BY <2>4 DEF CallSoFar
  <2>6. PICK q \in d.tools : q.index = i
    BY <1>7 DEF Knows
  <2> QED
    BY <1>7, <2>5, <2>6 DEF Knows
<1>10. CASE d.finish = "none"
  <2>1. ~Decodes(w, s)
    BY <1>3, <1>7, <1>10 DEF Decodes
  <2> QED
    BY <1>10, <2>1 DEF Wrong
<1>11. CASE d.finish # "none"
  <2>1. fin \in Events /\ fin.kind = "finished" /\ fin.name = d.finish
    <3>1. "none" \in Names /\ d.finish \in Names /\ <<>> \in Text
      BY <1>7, EmptyText DEF ConstantsAssumption, Decoders
    <3>2. fin \in Events
      BY <3>1, EventTyped DEF Kinds7
    <3> QED
      BY <3>2 DEF Event
  <2> HIDE DEF fin, a
  <2>2. e \in Decoders /\ a \in Accs /\ AccOf(e) = Apply(a, fin)
    BY <1>7, <2>1, Pushed DEF a
  <2> HIDE DEF e
  <2>3. f \in Decoders /\ f.closed /\ f.pending = e.pending /\ AccOf(f) = Apply(a, fin)
    <3>1. f \in Decoders /\ f.closed /\ f.pending = e.pending
      BY <2>2 DEF Decoders
    <3> QED
      BY <2>2, <3>1 DEF AccOf
  <2>4. Apply(a, fin) = IF CompleteBlocks(a.content)
                        THEN [a EXCEPT !.state = "finished", !.reason = d.finish]
                        ELSE Reject(a)
    BY <1>7, <2>1 DEF Apply
  <2> HIDE DEF f
  <2>5. CASE CompleteBlocks(a.content)
    <3>1. Decodes(w, s)
      <4>1. \A b \in WholeBlocks(m, s) : b.kind \in {"tool", "structured"} => IsJson(b.text)
        BY <1>8, <2>5 DEF CompleteBlocks
      <4>2. m.finish # "none"
        BY <1>7, <1>11
      <4> QED
        BY <1>3, <1>5, <1>9, <4>1, <4>2 DEF Decodes
    <3>2. /\ AccOf(f).state = "finished" /\ AccOf(f).reason = d.finish
          /\ AccOf(f).usage = a.usage /\ AccOf(f).content = a.content
      BY <2>2, <2>3, <2>4, <2>5 DEF Accs
    <3>3. Right(w, s, AccOf(f))
      BY <1>3, <1>4, <1>7, <1>8, <3>1, <3>2 DEF Right
    <3>4. Answered(w, s, f)
      BY <2>3, <3>2, <3>3 DEF Answered
    <3> QED
      BY <1>11, <3>4 DEF f, e, fin
  <2>6. CASE ~CompleteBlocks(a.content)
    <3>1. AccOf(f).state = "error"
      BY <2>2, <2>3, <2>4, <2>6 DEF Reject, Accs
    <3>2. ~Decodes(w, s)
      BY <1>3, <1>8, <2>6 DEF CompleteBlocks, Decodes
    <3>3. Answered(w, s, f)
      BY <2>3, <3>1, <3>2 DEF Answered, Failed, Wrong
    <3> QED
      BY <1>11, <3>3 DEF f, e, fin
  <2> QED
    BY <2>5, <2>6
<1> QED
  BY <1>10, <1>11

LEMMA FailAnswers ==
    ASSUME ConstantsAssumption, NEW w, NEW s, NEW d \in Decoders, Wrong(w, s)
    PROVE  Answered(w, s, Fail(d))
<1>1. Failed(Fail(d))
  BY FailureTyped, PushFailed
<1> QED
  BY <1>1 DEF Answered

\* One more frame: what it says is told, or the answer is decided.
LEMMA FrameStep ==
    ASSUME ConstantsAssumption, NEW w \in Seq(TokenType), CallsApart(SaidCalls(w)),
           NEW s \in BOOLEAN, NEW p, NEW d, InStep(w, s, p, d), NEW q \in 0 .. Len(w), p <= q,
           SubSeq(w, p + 1, q) \in Range(FramesOf[w])
    PROVE  \/ InStep(w, s, q, ProcessFrame(d, SubSeq(w, p + 1, q), s))
           \/ Answered(w, s, ProcessFrame(d, SubSeq(w, p + 1, q), s))
<1> DEFINE frame == SubSeq(w, p + 1, q)
           data == DataIn(frame)
           first == Min(data)
           i == p + first
           c == w[i]
           what == DataOf(frame)
           e == ProcessFrame(d, frame, s)
           fin == Event("finished", "none", d.finish, <<>>, 0)
           f == [Push(d, fin) EXCEPT !.closed = TRUE]
<1>0. p \in Nat /\ q \in Nat /\ p <= q /\ q <= Len(w) /\ Len(w) \in Nat
  BY DEF InStep
<1>1. /\ Len(frame) = q - p /\ DOMAIN frame = 1 .. q - p
      /\ \A x \in 1 .. q - p : frame[x] = w[p + x]
  BY <1>0
<1>2. \A x : x \in data <=> x \in 1 .. q - p /\ w[p + x].is = "data"
  BY <1>1 DEF DataIn
<1>3. d \in Decoders
  BY DEF InStep, Matches
<1>4. e = CASE what = "none"  -> d
            [] what = "chunk" -> Chunk(d, frame[first], s)
            [] what = "done" /\ d.finish # "none" -> f
            [] OTHER -> Fail(d)
  BY DEF ProcessFrame
<1>5. what = IF data = {} THEN "none"
             ELSE IF data # {first} THEN "garbage"
             ELSE IF frame[first].what = "done" /\ Last(frame).is = "CR" THEN "garbage"
             ELSE frame[first].what
  BY DEF DataOf
<1>6. frame \in Range(FramesOf[w])
  OBVIOUS
<1> HIDE DEF frame, data, what, e, f
<1>7. CASE data = {}
  <2>1. \A x \in p + 1 .. q : w[x].is # "data"
    <3> TAKE x \in p + 1 .. q
    <3>1. x - p \in 1 .. q - p /\ p + (x - p) = x
      BY <1>0
    <3>2. x - p \notin data
      BY <1>7
    <3> QED
      BY <1>2, <3>1, <3>2
  <2>2. InStep(w, s, q, d)
    BY <1>0, <2>1, SkipStep
  <2>3. e = d
    BY <1>4, <1>5, <1>7
  <2> QED
    BY <2>2, <2>3 DEF e, frame
<1>8. CASE data # {} /\ what = "garbage"
  <2>1. e = Fail(d)
    BY <1>4, <1>8
  <2>2. \E g : g \in Range(FramesOf[w]) /\ DataOf(g) = "garbage"
    BY <1>6, <1>8 DEF what
  <2>3. Wrong(w, s) \/ \A g \in Range(FramesOf[w]) : DataOf(g) # "garbage"
    BY DEF Wrong, Consistent
  <2>4. Wrong(w, s)
    BY <2>2, <2>3
  <2>5. Answered(w, s, e)
    BY <1>3, <2>1, <2>4, FailAnswers
  <2> QED
    BY <2>5 DEF e, frame
<1>9. CASE data # {} /\ what # "garbage"
  <2>1. first \in data /\ data = {first} /\ what = frame[first].what
    <3>1. data \subseteq Nat
      BY <1>0, <1>2
    <3>2. first \in data
      BY <1>9, <3>1, LeastOf
    <3> QED
      BY <1>5, <1>9, <3>2
  <2> HIDE DEF first
  <2>2. /\ first \in 1 .. q - p /\ c.is = "data" /\ frame[first] = c /\ i \in Nat
        /\ i - 1 \in 0 .. Len(w) /\ p <= i - 1 /\ i <= q /\ (i - 1) + 1 = i /\ i - 1 < Len(w)
        /\ i \in 1 .. Len(w)
    BY <1>0, <1>1, <1>2, <2>1
  <2>3. \A x \in p + 1 .. q : x # i => w[x].is # "data"
    <3> SUFFICES ASSUME NEW x \in p + 1 .. q, x # i PROVE w[x].is # "data"
      OBVIOUS
    <3>1. x - p \in 1 .. q - p /\ p + (x - p) = x /\ x - p # first
      BY <1>0, <2>2
    <3>2. x - p \notin data
      BY <2>1, <3>1
    <3> QED
      BY <1>2, <3>1, <3>2
  <2> DEFINE o == i - 1
  <2>4. InStep(w, s, o, d)
    <3>1. \A x \in p + 1 .. o : w[x].is # "data"
      <4> TAKE x \in p + 1 .. o
      <4>1. x \in p + 1 .. q /\ x # i
        BY <1>0, <2>2
      <4> QED
        BY <2>3, <4>1
    <3>2. o \in 0 .. Len(w) /\ p <= o
      BY <2>2
    <3> HIDE DEF o
    <3> QED
      BY <3>1, <3>2, SkipStep
  <2>5. o + 1 = i /\ o < Len(w) /\ o \in 0 .. Len(w) /\ Chunks(w, o)
    <3>1. Chunks(w, o)
      BY <2>4 DEF InStep, Calm, Chunks
    <3> QED
      BY <2>2, <3>1
  <2> HIDE DEF i, o
  <2>6. w[o + 1].is = "data" /\ w[o + 1] = c /\ c \in TokenType
    BY <2>2, <2>5
  <2> HIDE DEF c
  <2>7. CASE c.what = "chunk"
    <3>1. e = Chunk(d, c, s)
      BY <1>4, <2>1, <2>2, <2>7
    <3>2. \/ InStep(w, s, o + 1, Chunk(d, w[o + 1], s))
          \/ Failed(Chunk(d, w[o + 1], s)) /\ Wrong(w, s)
      BY <2>4, <2>5, <2>6, <2>7, ChunkStep
    <3>3. ASSUME InStep(w, s, i, e) PROVE InStep(w, s, q, e)
      <4>1. \A x \in i + 1 .. q : w[x].is # "data"
        <5> TAKE x \in i + 1 .. q
        <5>1. x \in p + 1 .. q /\ x # i
          BY <1>0, <2>2 DEF o
        <5> QED
          BY <2>3, <5>1
      <4> QED
        BY <2>2, <3>3, <4>1, SkipStep
    <3>4. InStep(w, s, q, e) \/ Answered(w, s, e)
      BY <2>5, <2>6, <3>1, <3>2, <3>3 DEF Answered
    <3> QED
      BY <3>4 DEF e, frame
  <2>8. CASE c.what = "done"
    <3>1. e = IF d.finish # "none" THEN f ELSE Fail(d)
      BY <1>4, <2>1, <2>2, <2>8
    <3>2. IF d.finish = "none" THEN Wrong(w, s) ELSE Answered(w, s, f)
      BY <2>4, <2>5, <2>6, <2>8, DoneStep DEF f
    <3>3. Answered(w, s, e)
      BY <1>3, <3>1, <3>2, FailAnswers
    <3> QED
      BY <3>3 DEF e, frame
  <2>9. CASE c.what \in {"error", "garbage"}
    <3>1. e = Fail(d)
      BY <1>4, <2>1, <2>2, <2>9
    <3>2. Len(Said(w)) = o
      BY <2>5, <2>6, <2>9, SaidFar
    <3>3. ~Intact(w)
      BY <2>6, <2>9, <3>2 DEF Intact
    <3>4. Wrong(w, s)
      BY <3>3 DEF Wrong
    <3>5. Answered(w, s, e)
      BY <1>3, <3>1, <3>4, FailAnswers
    <3> QED
      BY <3>5 DEF e, frame
  <2> QED
    BY <2>6, <2>7, <2>8, <2>9 DEF TokenType
<1> QED
  BY <1>7, <1>8, <1>9

LEMMA PartOfRest ==
    ASSUME NEW S, NEW w \in Seq(S), NEW p \in 0 .. Len(w), NEW m \in 0 .. Len(w) - p,
           NEW k \in 1 .. (Len(w) - p) + 1
    PROVE  /\ SubSeq(SubSeq(w, p + 1, Len(w)), 1, m) = SubSeq(w, p + 1, p + m)
           /\ SubSeq(SubSeq(w, p + 1, Len(w)), k, Len(SubSeq(w, p + 1, Len(w))))
                 = SubSeq(w, ((p + k) - 1) + 1, Len(w))
<1> DEFINE b == SubSeq(w, p + 1, Len(w))
           x == SubSeq(b, 1, m)
           y == SubSeq(w, p + 1, p + m)
           u == SubSeq(b, k, Len(b))
           v == SubSeq(w, ((p + k) - 1) + 1, Len(w))
<1>0. Len(w) \in Nat /\ p \in Nat /\ m \in Nat /\ k \in Nat /\ p <= Len(w)
  OBVIOUS
<1>1. b \in Seq(S) /\ Len(b) = Len(w) - p /\ \A i \in 1 .. Len(b) : b[i] = w[p + i]
  <2>1. b \in Seq(S) /\ Len(b) = Len(w) - p
    BY <1>0
  <2>2. \A i \in 1 .. Len(w) - p : b[i] = w[p + i]
    BY <1>0
  <2> HIDE DEF b
  <2> QED
    BY <2>1, <2>2
<1>2. /\ y \in Seq(S) /\ Len(y) = m /\ \A i \in 1 .. m : y[i] = w[p + i]
      /\ v \in Seq(S) /\ Len(v) = ((Len(w) - p) - k) + 1
      /\ \A i \in 1 .. ((Len(w) - p) - k) + 1 : v[i] = w[p + (k + i - 1)]
  BY <1>0
<1> HIDE DEF b
<1>3. /\ x \in Seq(S) /\ Len(x) = m /\ \A i \in 1 .. m : x[i] = b[i] /\ i \in 1 .. Len(b)
  BY <1>0, <1>1
<1>4. /\ u \in Seq(S) /\ Len(u) = ((Len(w) - p) - k) + 1
      /\ \A i \in 1 .. ((Len(w) - p) - k) + 1 : u[i] = b[k + i - 1] /\ k + i - 1 \in 1 .. Len(b)
  BY <1>0, <1>1
<1> HIDE DEF x, y, u, v
<1>5. x = y
  <2>1. \A i \in 1 .. m : x[i] = y[i]
    BY <1>1, <1>2, <1>3
  <2> QED
    BY <1>2, <1>3, <2>1, SeqEqual
<1>6. u = v
  <2>1. \A i \in 1 .. Len(u) : u[i] = v[i]
    BY <1>1, <1>2, <1>4
  <2> QED
    BY <1>2, <1>4, <2>1, SeqEqual
<1> QED
  BY <1>5, <1>6 DEF b, x, y, u, v

\* The first j frames of a body end before its position p.
Position(w, j, p) ==
    /\ p \in 0 .. Len(w)
    /\ FramesOf[SubSeq(w, p + 1, Len(w))] = SubSeq(FramesOf[w], j + 1, Len(FramesOf[w]))

\* The next frame begins there, and what separates it from the one after it
\* is no data.
Separated(w, j, p) ==
    \E q \in 0 .. Len(w), r \in 0 .. Len(w) :
        /\ p <= q /\ q <= r /\ FramesOf[w][j + 1] = SubSeq(w, p + 1, q)
        /\ Position(w, j + 1, r) /\ \A i \in q + 1 .. r : w[i].is # "data"

LEMMA NextFrame ==
    ASSUME ConstantsAssumption, NEW w \in Seq(Tokens), NEW j \in Nat, j < Len(FramesOf[w]) - 1,
           NEW p, Position(w, j, p)
    PROVE  Separated(w, j, p)
<1> DEFINE F == FramesOf[w]
           b == SubSeq(w, p + 1, Len(w))
           f == Frame(b)
           x == AfterFrame(b)
           G == FramesOf[x]
           y == SubSeq(F, (j + 1) + 1, Len(F))
<1>0. p \in Nat /\ p <= Len(w) /\ Len(w) \in Nat /\ p \in 0 .. Len(w)
  BY DEF Position
<1>1. b \in Seq(Tokens) /\ Len(b) = Len(w) - p /\ \A i \in 1 .. Len(b) : b[i] = w[p + i]
  BY <1>0
<1>2. F \in Seq(Seq(TokenType)) /\ Len(F) - 1 \in Nat /\ Len(F) \in Nat /\ j < Len(F) - 1
  BY FramesOfWire
<1>3. FramesOf[b] = SubSeq(F, j + 1, Len(F)) /\ FramesOf[b] = FramedBy(FramesOf, b)
  BY <1>1, FramesOfIs DEF Position
<1> HIDE DEF b, F
<1>4. Found(b) # {}
  <2> SUFFICES ASSUME Found(b) = {} PROVE FALSE
    OBVIOUS
  <2>1. FramesOf[b] = <<b>>
    BY <1>3 DEF FramedBy
  <2> DEFINE n == Len(F)
             z == SubSeq(F, j + 1, n)
  <2>x. Len(z) = n - j
    BY <1>2
  <2>y. z = <<b>>
    BY <1>3, <2>1
  <2>2. n \in Nat /\ j < n - 1 /\ Len(z) = n - j /\ z = <<b>>
    BY <1>2, <2>x, <2>y
  <2> HIDE DEF z, n
  <2>3. Len(<<b>>) = 1
    OBVIOUS
  <2>4. n - j = 1
    BY <2>2, <2>3
  <2> QED
    BY <2>2, <2>4
<1>5. FramesOf[b] = <<f>> \o G
  BY <1>3, <1>4 DEF FramedBy
<1>6. f \in Seq(Tokens) /\ x \in Seq(Tokens) /\ f \in Seq(TokenType)
  BY <1>1, <1>4, FrameTyped
<1>7. PICK k \in 1 .. Len(b) + 1, m \in 0 .. Len(b) :
         /\ k = FirstDelimiter(b)[1] + Len(FirstDelimiter(b)[2])
         /\ m = FirstDelimiter(b)[1] - 1
         /\ x = SubSeq(b, k, Len(b)) /\ f = SubSeq(b, 1, m)
  BY <1>1, <1>4, FrameSplit
<1>8. G \in Seq(Seq(TokenType)) /\ Len(G) - 1 \in Nat
  BY <1>6, FramesOfWire
<1> HIDE DEF f, x, G
<1>9. f = F[j + 1] /\ G = y
  <2> DEFINE z == <<f>> \o G
  <2>1. z = <<F[j + 1]>> \o y
    <3>1. j + 1 \in 1 .. Len(F) /\ Len(F) \in j + 1 .. Len(F)
      BY <1>2
    <3>2. SubSeq(F, j + 1, Len(F)) = << F[j + 1] >> \o SubSeq(F, (j + 1) + 1, Len(F))
      BY <1>2, <3>1, SubSeqRecursiveFirst
    <3> QED
      BY <1>3, <1>5, <3>2
  <2>2. y \in Seq(Seq(TokenType)) /\ F[j + 1] \in Seq(TokenType)
    BY <1>2
  <2> HIDE DEF y
  <2>3. z[1] = f /\ Tail(z) = G
    BY <1>6, <1>8, SMTT(30)
  <2>4. (<<F[j + 1]>> \o y)[1] = F[j + 1] /\ Tail(<<F[j + 1]>> \o y) = y
    BY <2>2, SMTT(30)
  <2> QED
    BY <2>1, <2>3, <2>4
<1> DEFINE q == p + m
           r == (p + k) - 1
<1>k. /\ k \in Nat /\ m \in Nat /\ 1 <= k /\ k <= (Len(w) - p) + 1 /\ m <= Len(w) - p
  <2> DEFINE n == Len(b)
  <2>1. n = Len(w) - p
    BY <1>1
  <2>2. k \in 1 .. n + 1 /\ m \in 0 .. n
    OBVIOUS
  <2> HIDE DEF n
  <2> QED
    BY <1>0, <2>1, <2>2
<1>10. q \in 0 .. Len(w) /\ r \in 0 .. Len(w) /\ p <= q /\ m \in 0 .. Len(w) - p
       /\ k \in 1 .. (Len(w) - p) + 1
  BY <1>0, <1>k
<1>11. f = SubSeq(w, p + 1, q) /\ x = SubSeq(w, r + 1, Len(w))
  <2>1. SubSeq(b, 1, m) = SubSeq(w, p + 1, p + m)
        /\ SubSeq(b, k, Len(b)) = SubSeq(w, ((p + k) - 1) + 1, Len(w))
    BY <1>0, <1>10, PartOfRest, Zenon DEF b
  <2> QED
    BY <1>7, <2>1
<1>12. q <= r /\ \A i \in q + 1 .. r : w[i].is # "data"
  <2> DEFINE g == FirstDelimiter(b)
             o == g[1]
  <2>1. g \in Found(b)
    BY <1>1, <1>4, FirstFound
  <2>2. /\ o \in 1 .. Len(b)
        /\ \/ g[2] = Long4 /\ LongAt(b, o)
           \/ g[2] = Short2 /\ ShortAt(b, o)
    BY <1>1, <2>1, FoundIs
  <2>3. m = o - 1 /\ k = o + Len(g[2])
    BY <1>7
  <2> HIDE DEF g, o
  <2>4. o \in Nat /\ o >= 1 /\ Len(b) \in Nat
    BY <1>0, <1>1, <2>2
  <2>5. CASE g[2] = Long4 /\ LongAt(b, o)
    <3>1. k = o + 4
      BY <2>3, <2>5 DEF Long4
    <3>2. /\ b[o].is = "CR" /\ b[o + 1].is = "LF" /\ b[o + 2].is = "CR" /\ b[o + 3].is = "LF"
          /\ o + 3 <= Len(b)
      BY <2>5 DEF LongAt
    <3>3. /\ w[p + o].is = "CR" /\ w[p + (o + 1)].is = "LF" /\ w[p + (o + 2)].is = "CR"
          /\ w[p + (o + 3)].is = "LF"
      <4>1. /\ o \in 1 .. Len(b) /\ o + 1 \in 1 .. Len(b) /\ o + 2 \in 1 .. Len(b)
            /\ o + 3 \in 1 .. Len(b)
        <5> DEFINE n == Len(b)
        <5>1. o + 3 <= n /\ o \in Nat /\ o >= 1 /\ n \in Nat
          BY <2>4, <3>2
        <5> HIDE DEF n
        <5>2. /\ o \in 1 .. n /\ o + 1 \in 1 .. n /\ o + 2 \in 1 .. n /\ o + 3 \in 1 .. n
          BY <5>1
        <5> QED
          BY <5>2 DEF n
      <4> QED
        BY <1>1, <3>2, <4>1
    <3>4. \A i \in q + 1 .. r :
             i = p + o \/ i = p + (o + 1) \/ i = p + (o + 2) \/ i = p + (o + 3)
      BY <1>0, <1>k, <2>3, <2>4, <3>1
    <3>5. \A i \in q + 1 .. r : w[i].is # "data"
      BY <3>3, <3>4
    <3>6. q <= r
      BY <1>0, <1>k, <2>3, <2>4, <3>1
    <3> QED
      BY <3>5, <3>6
  <2>6. CASE g[2] = Short2 /\ ShortAt(b, o)
    <3>1. k = o + 2
      BY <2>3, <2>6 DEF Short2
    <3>2. b[o].is = "LF" /\ b[o + 1].is = "LF" /\ o + 1 <= Len(b)
      BY <2>6 DEF ShortAt
    <3>3. w[p + o].is = "LF" /\ w[p + (o + 1)].is = "LF"
      <4>1. o \in 1 .. Len(b) /\ o + 1 \in 1 .. Len(b)
        BY <2>4, <3>2
      <4> QED
        BY <1>1, <3>2, <4>1
    <3>4. \A i \in q + 1 .. r : i = p + o \/ i = p + (o + 1)
      BY <1>0, <1>k, <2>3, <2>4, <3>1
    <3>5. \A i \in q + 1 .. r : w[i].is # "data"
      BY <3>3, <3>4
    <3>6. q <= r
      BY <1>0, <1>k, <2>3, <2>4, <3>1
    <3> QED
      BY <3>5, <3>6
  <2> QED
    BY <2>2, <2>5, <2>6
<1>13. Position(w, j + 1, r)
  BY <1>9, <1>10, <1>11 DEF Position, F, G
<1> QED
  BY <1>9, <1>10, <1>11, <1>12, <1>13 DEF F, Separated

\* The last frame is what remains.
LEMMA LastFrame ==
    ASSUME ConstantsAssumption, NEW w \in Seq(Tokens), NEW j \in Nat, j = Len(FramesOf[w]) - 1,
           NEW p, Position(w, j, p)
    PROVE  FramesOf[w][j + 1] = SubSeq(w, p + 1, Len(w))
<1> DEFINE F == FramesOf[w]
           b == SubSeq(w, p + 1, Len(w))
           y == SubSeq(F, j + 1, Len(F))
<1>0. p \in Nat /\ p <= Len(w) /\ Len(w) \in Nat
  BY DEF Position
<1>1. b \in Seq(Tokens)
  BY <1>0
<1>2. F \in Seq(Seq(TokenType)) /\ Len(F) - 1 \in Nat /\ Len(F) \in Nat
  BY FramesOfWire
<1>3. FramesOf[b] = y /\ FramesOf[b] = FramedBy(FramesOf, b)
  BY <1>1, FramesOfIs DEF Position
<1> HIDE DEF b, F
<1>4. Len(y) = 1 /\ y[1] = F[j + 1]
  BY <1>2 DEF F
<1>5. CASE Found(b) = {}
  <2>1. y = <<b>>
    BY <1>3, <1>5 DEF FramedBy
  <2>2. <<b>>[1] = b
    OBVIOUS
  <2> HIDE DEF y
  <2>3. F[j + 1] = b
    BY <1>4, <2>1, <2>2
  <2> QED
    BY <2>3 DEF b, F
<1>6. CASE Found(b) # {}
  <2>1. Frame(b) \in Seq(TokenType) /\ AfterFrame(b) \in Seq(Tokens)
    BY <1>1, <1>6, FrameTyped
  <2> DEFINE G == FramesOf[AfterFrame(b)]
             f == Frame(b)
  <2>2. G \in Seq(Seq(TokenType)) /\ Len(G) - 1 \in Nat /\ Len(G) \in Nat
    BY <2>1, FramesOfWire
  <2>3. y = <<f>> \o G
    BY <1>3, <1>6 DEF FramedBy
  <2> HIDE DEF G, f, y
  <2>4. Len(<<f>> \o G) = 1 + Len(G)
    BY <2>2
  <2>5. 1 = 1 + Len(G)
    BY <1>4, <2>3, <2>4
  <2> QED
    BY <2>2, <2>5
<1> QED
  BY <1>5, <1>6

\* After the first j frames the answer is decided, or all they say is told.
Follows(w, s, j) ==
    \/ Answered(w, s, After(FramesOf[w], j, s))
    \/ \E p : Position(w, j, p) /\ InStep(w, s, p, After(FramesOf[w], j, s))

LEMMA NothingTold ==
    ASSUME ConstantsAssumption, NEW deltas, NEW s
    PROVE  Matches(NewDecoder, deltas, 0, Silent, s)
<1> DEFINE a == AccOf(NewDecoder)
<1>1. NewDecoder \in Decoders
  BY NewTyped
<1>2. /\ NewDecoder.pending = <<>> /\ ~NewDecoder.closed /\ NewDecoder.finish = "none"
      /\ NewDecoder.tools = {}
  BY DEF NewDecoder
<1>3. a = NewAccumulator
  <2>1. <<>> \in Seq(Events)
    OBVIOUS
  <2>2. SubSeq(<<>>, 1, 0) = <<>>
    BY SubSeqEmpty
  <2>3. Accumulated(SubSeq(<<>>, 1, 0)) = NewAccumulator
    BY <2>1, AccumulatedFirst
  <2> QED
    BY <1>2, <2>2, <2>3 DEF AccOf
<1>4. a.content = <<>> /\ a.usage = 0 /\ a.state = "open"
  BY <1>3 DEF NewAccumulator
<1>5. Silent.think = <<>> /\ Silent.text = <<>> /\ Silent.usage = 0 /\ Silent.finish = "none"
  BY DEF Silent
<1>6. Indices(deltas, 0) = {}
  BY DEF Indices
<1>7. BlocksSoFar(deltas, 0, Silent, s) = {}
  <2>1. CallsSoFar(deltas, 0) = {}
    BY <1>6 DEF CallsSoFar
  <2>2. Spoken(ThinkBlock(Silent)) = {} /\ Spoken(TextBlock(Silent, s)) = {}
    BY <1>5 DEF Spoken, ThinkBlock, TextBlock
  <2> QED
    BY <2>1, <2>2 DEF BlocksSoFar
<1>8. Held(<<>>, {})
  BY DEF Held, Range
<1>9. Knows({}, deltas, 0)
  BY <1>6 DEF Knows
<1> QED
  BY <1>1, <1>2, <1>4, <1>5, <1>7, <1>8, <1>9 DEF Matches

LEMMA FollowsFirst ==
    ASSUME ConstantsAssumption, NEW w \in Seq(Tokens), NEW s \in BOOLEAN
    PROVE  Follows(w, s, 0)
<1> DEFINE F == FramesOf[w]
<1>1. w \in Seq(TokenType) /\ F \in Seq(Seq(TokenType)) /\ Len(w) \in Nat
  BY FramesOfWire
<1>2. SubSeq(w, 0 + 1, Len(w)) = w /\ SubSeq(F, 0 + 1, Len(F)) = F
  BY <1>1, SubSeqFull
<1>3. Position(w, 0, 0)
  <2>1. 0 \in 0 .. Len(w)
    BY <1>1
  <2>2. FramesOf[SubSeq(w, 0 + 1, Len(w))] = SubSeq(F, 0 + 1, Len(F))
    BY <1>2, Zenon
  <2> QED
    BY <2>1, <2>2, Zenon DEF Position
<1>4. After(F, 0, s) = NewDecoder
  <2>1. SubSeq(F, 1, 0) = <<>>
    BY SubSeqEmpty
  <2>2. <<>> \in Seq(Seq(TokenType)) /\ <<>> \in Seq(TokenType)
    OBVIOUS
  <2>3. Decoded(<<>>, s) = NewDecoder
    BY <2>2, DecodedAppend
  <2> QED
    BY <2>1, <2>3 DEF After
<1>5. MessageAt(w, 0) = Silent
  BY <1>1, SpelledNext DEF MessageAt
<1>6. Len(Silent.tools) = 0
  BY DEF Silent
<1>7. InStep(w, s, 0, NewDecoder)
  <2>1. Calm(w, 0) /\ 0 \in 0 .. Len(w)
    BY <1>1 DEF Calm
  <2> QED
    BY <1>5, <1>6, <2>1, NothingTold DEF InStep
<1> QED
  BY <1>3, <1>4, <1>7 DEF Follows

LEMMA AnsweredStays ==
    ASSUME ConstantsAssumption, NEW w, NEW s \in BOOLEAN, NEW d, Answered(w, s, d),
           NEW frame \in Seq(TokenType)
    PROVE  Answered(w, s, Taken(d, frame, s)) /\ d \in Decoders
<1>1. d \in Decoders
  BY DEF Answered, Failed
<1>2. CASE d.closed
  BY <1>1, <1>2 DEF Taken
<1>3. CASE ~d.closed
  <2> DEFINE e == ProcessFrame(d, frame, s)
  <2>1. Failed(d) /\ Wrong(w, s) /\ Taken(d, frame, s) = e
    BY <1>3 DEF Answered, Taken
  <2>2. <<>> \in Seq(Events)
    OBVIOUS
  <2>3. e \in Decoders /\ Initial(d.pending, e.pending)
    BY <1>1, <2>2, FrameKeeps, FrameGrows
  <2> HIDE DEF e
  <2>4. AccOf(e).state = "error"
    <3>1. d.pending \in Seq(Events) /\ e.pending \in Seq(Events)
      BY <1>1, <2>3 DEF Decoders
    <3> QED
      BY <2>1, <2>3, <3>1, FailedOn DEF Failed, AccOf
  <2> QED
    BY <1>1, <2>1, <2>3, <2>4 DEF Answered, Failed
<1> QED
  BY <1>2, <1>3

LEMMA FollowsNext ==
    ASSUME ConstantsAssumption, NEW w \in Seq(Tokens), CallsApart(SaidCalls(w)),
           NEW s \in BOOLEAN, NEW j \in Nat, j < Len(FramesOf[w]) - 1, Follows(w, s, j)
    PROVE  Follows(w, s, j + 1)
<1> DEFINE F == FramesOf[w]
           d == After(F, j, s)
           frame == F[j + 1]
           e == Taken(d, frame, s)
<1>1. /\ w \in Seq(TokenType) /\ F \in Seq(Seq(TokenType)) /\ Len(w) \in Nat
      /\ Len(F) \in Nat /\ j < Len(F) /\ j + 1 \in DOMAIN F
  BY FramesOfWire
<1>2. d \in Decoders /\ After(F, j + 1, s) = e /\ frame \in Seq(TokenType)
  BY <1>1, AfterNext
<1>3. frame \in Range(F)
  BY <1>1 DEF Range
<1>4. Answered(w, s, d) \/ \E p : Position(w, j, p) /\ InStep(w, s, p, d)
  BY DEF Follows
<1> HIDE DEF F, d, frame, e
<1>5. CASE Answered(w, s, d)
  <2>1. Answered(w, s, e)
    BY <1>2, <1>5, AnsweredStays DEF e
  <2> QED
    BY <1>2, <2>1 DEF Follows, F
<1>6. ASSUME NEW p, Position(w, j, p), InStep(w, s, p, d) PROVE Follows(w, s, j + 1)
  <2>0. Separated(w, j, p)
    BY <1>6, NextFrame
  <2>1. PICK q \in 0 .. Len(w), r \in 0 .. Len(w) :
           /\ p <= q /\ q <= r /\ FramesOf[w][j + 1] = SubSeq(w, p + 1, q)
           /\ Position(w, j + 1, r) /\ \A i \in q + 1 .. r : w[i].is # "data"
    BY <2>0 DEF Separated
  <2>2. e = ProcessFrame(d, SubSeq(w, p + 1, q), s)
    <3>1. ~d.closed
      BY <1>6 DEF InStep, Matches
    <3> QED
      BY <2>1, <3>1 DEF e, Taken, frame, F
  <2>3. SubSeq(w, p + 1, q) \in Range(FramesOf[w])
    BY <1>3, <2>1 DEF frame, F
  <2>4. InStep(w, s, q, e) \/ Answered(w, s, e)
    BY <1>1, <1>6, <2>1, <2>2, <2>3, FrameStep
  <2>5. InStep(w, s, q, e) => InStep(w, s, r, e)
    BY <1>1, <2>1, SkipStep
  <2> QED
    BY <1>2, <2>1, <2>4, <2>5 DEF Follows, F
<1> QED
  BY <1>4, <1>5, <1>6

LEMMA FollowsAll ==
    ASSUME ConstantsAssumption, NEW w \in Seq(Tokens), CallsApart(SaidCalls(w)),
           NEW s \in BOOLEAN
    PROVE  Follows(w, s, Len(FramesOf[w]) - 1) /\ Len(FramesOf[w]) - 1 \in Nat
<1> DEFINE n == Len(FramesOf[w]) - 1
           T == {j \in Nat : j <= n => Follows(w, s, j)}
<1>1. n \in Nat
  BY FramesOfWire
<1>2. 0 \in T
  BY FollowsFirst
<1>3. ASSUME NEW j \in T PROVE j + 1 \in T
  <2> SUFFICES ASSUME j + 1 <= n PROVE Follows(w, s, j + 1)
    OBVIOUS
  <2>1. j \in Nat /\ j < n /\ j <= n
    BY <1>1
  <2>2. Follows(w, s, j)
    BY <2>1
  <2> QED
    BY <2>1, <2>2, FollowsNext
<1>4. T = Nat
  <2>1. T \subseteq Nat
    OBVIOUS
  <2> HIDE DEF T
  <2> QED
    BY <1>2, <1>3, <2>1, Induct
<1>5. n \in T
  <2> HIDE DEF T
  <2> QED
    BY <1>1, <1>4
<1> QED
  BY <1>1, <1>5

\* What the accumulator makes of the whole body is its answer, or an error,
\* and then the body has none or contradicts itself.
LEMMA WholeAnswer ==
    ASSUME ConstantsAssumption, NEW w \in Seq(Tokens), CallsApart(SaidCalls(w)),
           NEW s \in BOOLEAN
    PROVE  \/ Accumulated(WholeEvents(w, s)).state = "error" /\ Wrong(w, s)
           \/ /\ Accumulated(WholeEvents(w, s)).state = "finished"
              /\ Right(w, s, Accumulated(WholeEvents(w, s)))
<1> DEFINE F == FramesOf[w]
           n == Len(F) - 1
           d == After(F, n, s)
           last == F[n + 1]
           e == ProcessEnd(d, last, s)
           W == WholeEvents(w, s)
<1>1. /\ w \in Seq(TokenType) /\ F \in Seq(Seq(TokenType)) /\ Len(w) \in Nat
      /\ n \in Nat /\ n < Len(F) /\ n + 1 \in DOMAIN F /\ n \in 0 .. Len(F) - 1
  BY FramesOfWire
<1>2. /\ d \in Decoders
      /\ d.closed => W = d.pending
      /\ ~d.closed => W = e.pending
  BY <1>1, WholeIs
<1>3. last \in Seq(TokenType) /\ last \in Range(F)
  BY <1>1, ElementOfSeq DEF Range
<1>4. Answered(w, s, d) \/ \E p : Position(w, n, p) /\ InStep(w, s, p, d)
  BY FollowsAll DEF Follows
<1>5. e = LET x == IF last = <<>> THEN d ELSE ProcessFrame(d, last, s)
          IN  IF x.closed THEN x ELSE Fail(x)
  BY DEF ProcessEnd
<1>6. n + 1 \in Nat /\ n = Len(F) - 1
  BY <1>1
<1> HIDE DEF F, n, d, last, e, W
<1>7. ASSUME NEW x, Answered(w, s, x), W = x.pending
      PROVE  \/ Accumulated(W).state = "error" /\ Wrong(w, s)
             \/ Accumulated(W).state = "finished" /\ Right(w, s, Accumulated(W))
  BY <1>7 DEF Answered, Failed, AccOf
<1>8. CASE d.closed
  <2>1. Answered(w, s, d)
    BY <1>4, <1>8 DEF InStep, Matches
  <2> QED
    BY <1>2, <1>7, <1>8, <2>1 DEF W
<1>9. CASE ~d.closed
  <2> DEFINE x == IF last = <<>> THEN d ELSE ProcessFrame(d, last, s)
  <2>1. x \in Decoders /\ (Answered(w, s, x) => Answered(w, s, IF x.closed THEN x ELSE Fail(x)))
    <3>1. x \in Decoders
      <4>1. <<>> \in Seq(Events)
        OBVIOUS
      <4> QED
        BY <1>2, <1>3, <4>1, FrameKeeps
    <3> HIDE DEF x
    <3>2. ASSUME Answered(w, s, x), ~x.closed PROVE Answered(w, s, Fail(x))
      <4>1. Wrong(w, s)
        BY <3>2 DEF Answered
      <4> QED
        BY <3>1, <4>1, FailAnswers
    <3> QED
      BY <3>1, <3>2
  <2>2. e = IF x.closed THEN x ELSE Fail(x)
    BY <1>5
  <2>3. ASSUME Answered(w, s, d) PROVE Answered(w, s, e)
    <3>1. Answered(w, s, Taken(d, last, s))
      BY <1>3, <2>3, AnsweredStays
    <3>2. Answered(w, s, x)
      BY <1>9, <2>3, <3>1 DEF Taken
    <3> HIDE DEF x
    <3> QED
      BY <2>1, <2>2, <3>2
  <2>4. ASSUME NEW p, Position(w, n, p), InStep(w, s, p, d) PROVE Answered(w, s, e)
    <3> DEFINE l == Len(w)
    <3>1. last = SubSeq(w, p + 1, l)
      BY <1>1, <1>6, <2>4, LastFrame DEF last, F
    <3>2. p \in Nat /\ p <= l /\ l \in Nat /\ l \in 0 .. Len(w) /\ p \in 0 .. Len(w)
      BY <1>1, <2>4 DEF InStep
    <3>3. SubSeq(w, p + 1, l) \in Range(FramesOf[w])
      BY <1>3, <3>1 DEF F
    <3>4. InStep(w, s, l, x) \/ Answered(w, s, x)
      <4>1. CASE last = <<>>
        <5>1. Len(SubSeq(w, p + 1, l)) = l - p
          BY <1>1, <3>2
        <5>2. l - p = 0
          <6>1. Len(<<>>) = 0
            OBVIOUS
          <6>2. Len(last) = l - p
            BY <3>1, <5>1
          <6> QED
            BY <4>1, <6>1, <6>2
        <5>3. p = l
          BY <3>2, <5>2
        <5> QED
          BY <2>4, <4>1, <5>3
      <4>2. CASE last # <<>>
        <5>1. x = ProcessFrame(d, SubSeq(w, p + 1, l), s)
          BY <3>1, <4>2
        <5> HIDE DEF x, l
        <5> QED
          BY <1>1, <2>4, <3>2, <3>3, <5>1, FrameStep
      <4> QED
        BY <4>1, <4>2
    <3> HIDE DEF x
    <3>5. ASSUME InStep(w, s, l, x) PROVE Wrong(w, s) /\ ~x.closed
      <4>1. Chunks(w, l)
        BY <3>5 DEF InStep, Calm, Chunks
      <4>2. Len(Said(w)) = Len(w)
        BY <1>1, <3>2, <4>1, SaidFar
      <4>3. ~Intact(w)
        BY <1>1, <4>2 DEF Intact
      <4> QED
        BY <3>5, <4>3 DEF Wrong, InStep, Matches
    <3>6. ASSUME InStep(w, s, l, x) PROVE Answered(w, s, e)
      <4>1. e = Fail(x)
        BY <2>2, <3>5, <3>6
      <4>2. Wrong(w, s)
        BY <3>5, <3>6
      <4>3. Answered(w, s, Fail(x))
        BY <2>1, <4>2, FailAnswers
      <4> QED
        BY <4>1, <4>3
    <3> QED
      BY <2>1, <2>2, <3>4, <3>6
  <2>5. Answered(w, s, e)
    BY <1>4, <2>1, <2>2, <2>3, <2>4
  <2> QED
    BY <1>2, <1>7, <1>9, <2>5 DEF W
<1> QED
  BY <1>8, <1>9 DEF W

\* A stream that ended by itself has a response when the accumulator finished.
Decided ==
    mode = "stream" /\ wire # <<>> =>
        /\ outcome = "response" => acc.state = "finished"
        /\ outcome = "error" => acc.state # "finished"

LEMMA DecidedStep ==
    ASSUME SendInv, Undecided, Decided, [Next]_vars
    PROVE  Decided'
<1>1. CASE Prepare
  <2>1. pc \in Preparing
    BY <1>1 DEF Prepare, Preparation, Select, Augment, ApplyBudget, OffloadFails, AugmentFails,
       BudgetFails, HookFails, EncodeFails, Preparing
  <2>2. wire' = <<>>
    BY <1>1, <2>1 DEF Prepare, reading, SendInv, Untouched
  <2> QED
    BY <2>2 DEF Decided
<1>2. CASE Call
  <2>1. pc \in Preparing
    BY <1>2 DEF Call, Encode, Preparing
  <2>2. wire' = <<>>
    BY <1>2, <2>1 DEF Call, reading, SendInv, Untouched
  <2> QED
    BY <2>2 DEF Decided
<1>3. CASE StatusError \/ TransportError \/ Wake
  <2>1. pc \in {"requesting", "waiting"} /\ UNCHANGED reading
    BY <1>3 DEF StatusError, TransportError, Wake, RetryOrFail
  <2>2. wire' = <<>>
    BY <2>1 DEF reading, SendInv, Untouched
  <2> QED
    BY <2>2 DEF Decided
<1>4. CASE Succeeds
  BY <1>4 DEF Succeeds, Undecided, Decided
<1>5. CASE Generated
  BY <1>5 DEF Generated, Decided, setting
<1>6. CASE Deliver
  BY <1>6 DEF Deliver, Streaming, Ends, Undecided, Decided
<1>7. CASE TakeFrame \/ ReceiveChunk \/ EndOfBody
  BY <1>7 DEF TakeFrame, ReceiveChunk, EndOfBody, NeedsMore, Drained, Streaming, Undecided, Decided
<1>8. CASE StreamOver
  BY <1>8 DEF StreamOver, Drained, Streaming, Ends, reading, Decided
<1>9. CASE BodyFails \/ Interrupt
  BY <1>9 DEF BodyFails, Interrupt, Ends, Decided
<1>10. CASE UNCHANGED vars
  BY <1>10 DEF vars, setting, reading, Decided
<1> QED
  BY <1>1, <1>2, <1>3, <1>4, <1>5, <1>6, <1>7, <1>8, <1>9, <1>10 DEF Next, Send, Read

\* A stream returns a response exactly when the body spells one out, and that
\* one: every block whole, the usage of all chunks, the last reason, and
\* [DONE] before the end.  It ends in an error only when the body has no
\* answer, or when its frames or calls contradict themselves.
THEOREM AnswersComplete == Spec => []CompleteAnswer
<1>1. Init => Decided
  BY DEF Init, Decided
<1>2. CallInv /\ Decided /\ [Next]_vars => Decided'
  BY DecidedStep DEF CallInv
<1>3. CallInv /\ Decided => CompleteAnswer
  <2> SUFFICES ASSUME CallInv, Decided PROVE CompleteAnswer
    OBVIOUS
  <2>1. ASSUME mode = "stream", wire # <<>>, Coherent(wire), outcome \in {"response", "error"}
        PROVE  \/ acc.state = "error" /\ Wrong(wire, schema)
               \/ acc.state = "finished" /\ Right(wire, schema, acc)
    <3> DEFINE W == WholeEvents(wire, schema)
    <3>1. StreamTyped /\ schema \in BOOLEAN /\ wire \in Seq(Tokens)
      BY WireTyped, ConstantsAssumption DEF CallInv, StreamTyped
    <3>2. CallsApart(SaidCalls(wire))
      BY <2>1 DEF Coherent, CallsApart, SaidCalls
    <3>3. W \in Seq(Events)
      BY <3>1, EventsTyped, ConstantsAssumption
    <3>4. SeenFirst(Len(W))
      BY <2>1 DEF CallInv, StreamInv
    <3>5. acc = Accumulated(W)
      <4>1. SubSeq(W, 1, Len(W)) = W
        BY <3>3, SubSeqFull
      <4> QED
        BY <3>4, <4>1 DEF SeenFirst, FirstEvents
    <3> QED
      BY <3>1, <3>2, <3>5, WholeAnswer, ConstantsAssumption
  <2>2. ASSUME mode = "stream", wire # <<>>, Coherent(wire), outcome = "response"
        PROVE  Right(wire, schema, acc)
    BY <2>1, <2>2 DEF Decided
  <2>3. ASSUME mode = "stream", wire # <<>>, Coherent(wire), outcome = "error"
        PROVE  Wrong(wire, schema)
    BY <2>1, <2>3 DEF Decided
  <2> QED
    BY <2>2, <2>3 DEF CompleteAnswer, Right, Wrong
<1> QED
  BY <1>1, <1>2, <1>3, CallKept, PTL DEF Spec

=============================================================================
