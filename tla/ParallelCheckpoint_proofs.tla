----------------------- MODULE ParallelCheckpoint_proofs -----------------------
(* Theorems about ParallelCheckpoint, for any processes, callers, branches  *)
(* and concurrency limits: its bookkeeping is an invariant, the agent of a  *)
(* branch is called at most once and for a claimed branch only, a returned  *)
(* outcome stays, and the uncertain branches stay within a limit.           *)
EXTENDS ParallelCheckpoint, FiniteSetTheorems, WellFoundedInduction, TLAPS

(* Branch states and checkpoints.                                           *)

State == {Ready, InFlight} \cup Outcome

LEMMA StateKinds ==
    /\ Ready \in State /\ InFlight \in State
    /\ Ready # InFlight
    /\ Ready.kind = "ready" /\ InFlight.kind = "in_flight"
    /\ \A o \in Outcome : /\ o.kind \in {"completed", "failed", "verified"}
                          /\ o # Ready /\ o # InFlight
                          /\ o \in State
BY DEF State, Ready, InFlight, Outcome

LEMMA MovesFields ==
    ASSUME NEW from \in State, NEW to \in State, Moves(from, to)
    PROVE  /\ to # Ready
           /\ from = Ready => to = InFlight
           /\ from # Ready => to \in Outcome
           /\ from = InFlight \/ from = Ready \/ from.kind = "failed"
BY StateKinds DEF Moves

LEMMA CheckpointFields ==
    ASSUME NEW cp \in Checkpoint
    PROVE  /\ \A b \in Branches : cp[b] \in State
           /\ \A b \in Branches, s \in State :
                 /\ [cp EXCEPT ![b] = s] \in Checkpoint
                 /\ [cp EXCEPT ![b] = s][b] = s
                 /\ \A d \in Branches \ {b} : [cp EXCEPT ![b] = s][d] = cp[d]
BY DEF Checkpoint, State

LEMMA NewFields ==
    /\ NewCheckpoint \in Checkpoint
    /\ \A b \in Branches : NewCheckpoint[b] = Ready
    /\ Active(NewCheckpoint) = {}
    /\ NoRecord \in Record
    /\ NoRecord.revision = 0
    /\ NoRecord.checkpoint = NewCheckpoint
BY StateKinds DEF NewCheckpoint, Checkpoint, Active, NoRecord, Record

LEMMA RecordFields ==
    ASSUME NEW r \in Record
    PROVE  /\ r.revision \in Nat
           /\ r.checkpoint \in Checkpoint
           /\ r = [revision |-> r.revision, checkpoint |-> r.checkpoint]
BY DEF Record

\* The queued branches have a first one, and that one is claimed.
LEMMA ClaimedFields ==
    ASSUME NEW cp \in Checkpoint, Queued(cp) # {}
    PROVE  \E b \in Branches :
              /\ cp[b] = Ready
              /\ Claimed(cp) = [cp EXCEPT ![b] = InFlight]
              /\ Claimed(cp) \in Checkpoint
              /\ Claimed(cp)[b] = InFlight
              /\ \A d \in Branches \ {b} : Claimed(cp)[d] = cp[d]
              /\ Active(Claimed(cp)) = Active(cp) \cup {b}
<1> DEFINE First(b) == \A d \in Queued(cp) : b <= d
           b == CHOOSE x \in Queued(cp) : First(x)
<1>1. \E x \in Queued(cp) : First(x)
  <2>1. Queued(cp) \subseteq Nat
    BY FanOutAssumption DEF Queued, Branches
  <2>2. PICK x \in Queued(cp) : \A d \in Queued(cp) : ~(<<d, x>> \in OpToRel(<, Nat))
    BY <2>1, NatLessThanWellFounded, WFMin
  <2>3. \A d \in Queued(cp) : ~(d < x)
    BY <2>1, <2>2 DEF OpToRel
  <2>4. \A d \in Queued(cp) : x <= d
    BY <2>1, <2>3
  <2> QED
    BY <2>4
<1>2. b \in Queued(cp)
  BY <1>1
<1>3. b \in Branches /\ cp[b] = Ready
  BY <1>2 DEF Queued
<1>4. Claimed(cp) = [cp EXCEPT ![b] = InFlight]
  BY DEF Claimed
<1> HIDE DEF b
<1>5. /\ Claimed(cp) \in Checkpoint
      /\ Claimed(cp)[b] = InFlight
      /\ \A d \in Branches \ {b} : Claimed(cp)[d] = cp[d]
  BY <1>3, <1>4 DEF Checkpoint
<1>6. Active(Claimed(cp)) = Active(cp) \cup {b}
  BY <1>3, <1>5 DEF Active
<1> QED
  BY <1>3, <1>4, <1>5, <1>6

LEMMA PendingValues ==
    ASSUME NEW c
    PROVE  /\ pc[c] = "create" => Pending(c) = NewCheckpoint
           /\ pc[c] = "claim" => Pending(c) = Claimed(Current(c))
           /\ pc[c] \in {"record", "settle"} => Pending(c) = Current(c)
BY DEF Pending

-----------------------------------------------------------------------------
(* The invariant, taken apart: what concerns one caller, the saves of       *)
(* dropped futures, and the rest.                                           *)

CallerInv(c) ==
    /\ record[c].revision <= store.revision
    /\ Saving(c) /\ record[c].revision = store.revision => Legal(Pending(c))
    /\ RecordHeld(c)
    /\ WaitingHeld(c)

OrphanInv ==
    \A w \in orphans :
        /\ w.base <= store.revision
        /\ w.base = store.revision => Legal(w.checkpoint)

FirstRevision == store.revision = 0 => store = NoRecord

LEMMA Parts ==
    LedgerInv <=> /\ TypeOK
                  /\ FirstRevision
                  /\ \A c \in Callers : CallerInv(c)
                  /\ OrphanInv
                  /\ WaitingApart
                  /\ RunsBooked
BY DEF LedgerInv, FirstRevision, CallerInv, OrphanInv, RevisionsKnown, SavesLegal

LEMMA PartsNext ==
    LedgerInv' <=> /\ TypeOK'
                   /\ FirstRevision'
                   /\ \A c \in Callers : CallerInv(c)'
                   /\ OrphanInv'
                   /\ WaitingApart'
                   /\ RunsBooked'
BY DEF LedgerInv, FirstRevision, CallerInv, OrphanInv, RevisionsKnown, SavesLegal

LEMMA InvInit == Init => LedgerInv
<1> SUFFICES ASSUME Init PROVE LedgerInv
  OBVIOUS
<1>1. TypeOK
  BY NewFields, FanOutAssumption DEF Init, TypeOK, PCs
<1>2. \A c \in Callers : pc[c] = "idle" /\ record[c] = NoRecord /\ started[c] = {}
  BY DEF Init
<1>3. \A c \in Callers : Waiting(c) = {}
  BY <1>2 DEF Waiting
<1>4. \A c \in Callers : CallerInv(c)
  BY <1>2, <1>3, NewFields DEF Init, CallerInv, Saving, RecordHeld, WaitingHeld
<1>5. WaitingApart
  BY <1>3 DEF WaitingApart
<1>6. FirstRevision /\ OrphanInv /\ RunsBooked
  BY NewFields DEF Init, FirstRevision, OrphanInv, RunsBooked
<1> QED
  BY <1>1, <1>4, <1>5, <1>6, Parts

\* The types of what a caller works on.
LEMMA CallerTypes ==
    ASSUME LedgerInv, NEW c \in Callers
    PROVE  /\ Owner[c] \in Pipelines
           /\ record[c] \in Record
           /\ record[c].revision \in Nat
           /\ Current(c) \in Checkpoint
           /\ record[c] = [revision |-> record[c].revision, checkpoint |-> Current(c)]
           /\ started[c] \subseteq Branches
           /\ store \in Record
           /\ store.revision \in Nat
           /\ store.checkpoint \in Checkpoint
           /\ store = [revision |-> store.revision, checkpoint |-> store.checkpoint]
           /\ CallerInv(c)
<1>1. /\ record[c] \in Record /\ store \in Record /\ Owner[c] \in Pipelines
      /\ started[c] \subseteq Branches
  BY Parts, FanOutAssumption DEF TypeOK
<1> QED
  BY <1>1, Parts, RecordFields DEF Current

\* A legal checkpoint never makes a branch ready again.
LEMMA LegalFields ==
    ASSUME TypeOK, FirstRevision, NEW cp \in Checkpoint, Legal(cp)
    PROVE  /\ \A b \in Branches :
                 /\ store.checkpoint[b] # Ready => cp[b] # Ready
                 /\ \/ cp[b] = store.checkpoint[b]
                    \/ Moves(store.checkpoint[b], cp[b])
           /\ store.revision = 0 => store.checkpoint = NewCheckpoint /\ cp = NewCheckpoint
<1>1. store.checkpoint \in Checkpoint
  BY RecordFields DEF TypeOK
<1>2. CASE store.revision = 0
  BY <1>2, NewFields DEF Legal, FirstRevision
<1>3. CASE store.revision # 0
  <2>1. PICK b \in Branches :
           /\ Moves(store.checkpoint[b], cp[b])
           /\ \A d \in Branches \ {b} : cp[d] = store.checkpoint[d]
    BY <1>3 DEF Legal
  <2>2. cp[b] # Ready
    BY <1>1, <2>1, CheckpointFields, MovesFields
  <2> QED
    BY <1>3, <2>1, <2>2
<1> QED
  BY <1>2, <1>3

\* All that a step can do to the store.
StoreMoves ==
    /\ store' \in Record
    /\ store'.revision = store.revision + 1
    /\ Legal(store'.checkpoint)

LEMMA CommitMoves ==
    ASSUME NEW e \in Nat, NEW cp \in Checkpoint, Commits(e, cp), Legal(cp)
    PROVE  StoreMoves /\ store'.checkpoint = cp /\ store.revision = e
BY DEF Commits, StoreMoves, Record

LEMMA PendingType ==
    ASSUME LedgerInv, NEW c \in Callers, Saving(c)
    PROVE  Pending(c) \in Checkpoint
<1>1. Current(c) \in Checkpoint /\ (pc[c] = "claim" => Queued(Current(c)) # {})
  BY CallerTypes DEF CallerInv, RecordHeld
<1>2. pc[c] = "claim" => Claimed(Current(c)) \in Checkpoint
  BY <1>1, ClaimedFields
<1> QED
  BY <1>1, <1>2, PendingValues, NewFields DEF Saving

LEMMA SaveMoves ==
    ASSUME LedgerInv, NEW c \in Callers, Saving(c), SaveSucceeds(c)
    PROVE  /\ StoreMoves
           /\ store'.checkpoint = Pending(c)
           /\ store.revision = record[c].revision
           /\ Legal(Pending(c))
<1>1. Pending(c) \in Checkpoint /\ record[c].revision \in Nat /\ CallerInv(c)
  BY PendingType, CallerTypes
<1>2. store.revision = record[c].revision
  BY DEF SaveSucceeds, Commits
<1>3. Legal(Pending(c))
  BY <1>1, <1>2 DEF CallerInv
<1> QED
  BY <1>1, <1>2, <1>3, CommitMoves DEF SaveSucceeds

LEMMA OrphanMoves ==
    ASSUME LedgerInv, NEW w \in orphans, OrphanCommits(w)
    PROVE  StoreMoves /\ store'.checkpoint = w.checkpoint
<1>1. w.base \in Nat /\ w.checkpoint \in Checkpoint
  BY Parts DEF TypeOK
<1>2. w.base = store.revision /\ Legal(w.checkpoint)
  BY Parts DEF OrphanCommits, Commits, OrphanInv
<1> QED
  BY <1>1, <1>2, CommitMoves DEF OrphanCommits

LEMMA StoreKeeps ==
    ASSUME LedgerInv, StoreMoves
    PROVE  /\ store.checkpoint \in Checkpoint /\ store'.checkpoint \in Checkpoint
           /\ store.revision \in Nat /\ store'.revision \in Nat
           /\ store'.revision # 0
           /\ \A b \in Branches :
                 /\ store.checkpoint[b] # Ready => store'.checkpoint[b] # Ready
                 /\ \/ store'.checkpoint[b] = store.checkpoint[b]
                    \/ Moves(store.checkpoint[b], store'.checkpoint[b])
<1>1. TypeOK /\ FirstRevision /\ store.revision \in Nat /\ store.checkpoint \in Checkpoint
  BY Parts, RecordFields DEF TypeOK
<1>2. store'.checkpoint \in Checkpoint /\ store'.revision \in Nat /\ store'.revision # 0
  BY <1>1, RecordFields DEF StoreMoves
<1> QED
  BY <1>1, <1>2, LegalFields DEF StoreMoves

-----------------------------------------------------------------------------
(* What a step leaves of the callers that it does not move.                 *)

\* An idle caller knows nothing.
LEMMA IdleCaller ==
    ASSUME NEW c \in Callers, pc'[c] = "idle", record'[c] = NoRecord,
           started'[c] = {}, store' \in Record
    PROVE  CallerInv(c)' /\ Waiting(c)' = {}
<1>1. record'[c].revision = 0 /\ store'.revision \in Nat
  BY NewFields, RecordFields
<1>2. Waiting(c)' = {}
  BY DEF Waiting
<1> QED
  BY <1>1, <1>2 DEF CallerInv, Saving, RecordHeld, WaitingHeld

Stays(c) ==
    /\ pc'[c] = pc[c] /\ record'[c] = record[c] /\ started'[c] = started[c]

LEMMA StaysSame ==
    ASSUME NEW c \in Callers, Stays(c)
    PROVE  /\ Current(c)' = Current(c)
           /\ Pending(c)' = Pending(c)
           /\ Saving(c)' <=> Saving(c)
           /\ Waiting(c)' = Waiting(c)
<1>1. Current(c)' = Current(c)
  BY DEF Stays, Current
<1>2. Pending(c)' = Pending(c)
  BY <1>1 DEF Stays, Pending
<1> QED
  BY <1>1, <1>2 DEF Stays, Saving, Waiting

\* Neither its place nor the store moves.
LEMMA QuietCaller ==
    ASSUME LedgerInv, NEW c \in Callers, Stays(c), store' = store,
           \A b \in Waiting(c) : runs'[b] = runs[b]
    PROVE  CallerInv(c)'
<1>1. CallerInv(c)
  BY Parts
<1>2. /\ Legal(Pending(c))' <=> Legal(Pending(c))
      /\ RecordHeld(c)' <=> RecordHeld(c)
  BY StaysSame DEF Stays, Legal, RecordHeld
<1>3. WaitingHeld(c)'
  BY <1>1, StaysSame DEF CallerInv, WaitingHeld
<1> QED
  BY <1>1, <1>2, <1>3, StaysSame DEF CallerInv, Stays

LEMMA WaitingType ==
    ASSUME LedgerInv, NEW c \in Callers
    PROVE  Waiting(c) \subseteq Branches
BY DEF Waiting, Active

\* What the waiting branches need survives every save.
LEMMA WaitingKept ==
    ASSUME LedgerInv, NEW c \in Callers, store' = store \/ StoreMoves,
           runs' = runs, Waiting(c)' \subseteq Waiting(c)
    PROVE  WaitingHeld(c)'
<1>1. \A b \in Waiting(c) : b \in Branches /\ store.checkpoint[b] # Ready /\ runs[b] = 0
  BY Parts, WaitingType DEF CallerInv, WaitingHeld
<1>2. \A b \in Waiting(c) : store'.checkpoint[b] # Ready
  BY <1>1, StoreKeeps
<1> QED
  BY <1>1, <1>2 DEF WaitingHeld

\* Another save succeeds: its own one will fail, and what it knows still holds.
LEMMA OvertakenCaller ==
    ASSUME LedgerInv, NEW c \in Callers, Stays(c), StoreMoves, runs' = runs
    PROVE  CallerInv(c)'
<1>1. /\ CallerInv(c) /\ record[c].revision \in Nat /\ store.revision \in Nat
      /\ record[c].revision <= store.revision
  BY CallerTypes DEF CallerInv
<1>2. record'[c].revision = record[c].revision /\ store'.revision = store.revision + 1
  BY DEF StoreMoves, Stays
<1>3. /\ record'[c].revision <= store'.revision
      /\ record'[c].revision # store'.revision
  BY <1>1, <1>2
<1>4. RecordHeld(c)'
  BY <1>1, <1>3, StaysSame DEF CallerInv, RecordHeld, Stays
<1>5. WaitingHeld(c)'
  BY StaysSame, WaitingKept
<1> QED
  BY <1>3, <1>4, <1>5 DEF CallerInv

LEMMA RestKept ==
    ASSUME LedgerInv, store' = store \/ StoreMoves, runs' = runs,
           \A w \in orphans' :
              \/ w \in orphans
              \/ /\ store' = store /\ w.base <= store.revision
                 /\ w.base = store.revision => Legal(w.checkpoint)
    PROVE  FirstRevision' /\ OrphanInv' /\ RunsBooked'
<1>1. TypeOK /\ FirstRevision /\ OrphanInv /\ RunsBooked
  BY Parts
<1>2. CASE store' = store
  <2>1. FirstRevision' /\ RunsBooked'
    BY <1>1, <1>2 DEF FirstRevision, RunsBooked
  <2>2. \A w \in orphans' : Legal(w.checkpoint)' <=> Legal(w.checkpoint)
    BY <1>2 DEF Legal
  <2>3. OrphanInv'
    BY <1>1, <1>2, <2>2 DEF OrphanInv
  <2> QED
    BY <2>1, <2>3
<1>3. CASE StoreMoves
  <2>1. /\ store' # store /\ store.revision \in Nat
        /\ store'.revision = store.revision + 1 /\ store'.revision # 0
    BY <1>3, StoreKeeps DEF StoreMoves
  <2>2. \A w \in orphans' : w.base \in Nat /\ w.base <= store.revision
    BY <1>1, <2>1 DEF OrphanInv, TypeOK
  <2>3. \A w \in orphans' : w.base <= store'.revision /\ w.base # store'.revision
    BY <2>1, <2>2
  <2>4. OrphanInv'
    BY <2>3 DEF OrphanInv
  <2>5. RunsBooked'
    BY <1>1, <1>3, StoreKeeps DEF RunsBooked
  <2> QED
    BY <2>1, <2>4, <2>5 DEF FirstRevision
<1> QED
  BY <1>2, <1>3

\* A step that moves the callers in S, none of which claims a branch.
LEMMA Frame ==
    ASSUME LedgerInv, TypeOK', store' = store \/ StoreMoves, runs' = runs,
           \A w \in orphans' :
              \/ w \in orphans
              \/ /\ store' = store /\ w.base <= store.revision
                 /\ w.base = store.revision => Legal(w.checkpoint),
           NEW S \in SUBSET Callers,
           \A c \in S : CallerInv(c)' /\ Waiting(c)' \subseteq Waiting(c),
           \A c \in Callers \ S : Stays(c)
    PROVE  LedgerInv'
<1>1. \A c \in Callers : CallerInv(c)'
  BY QuietCaller, OvertakenCaller
<1>2. \A c \in Callers : Waiting(c)' \subseteq Waiting(c)
  BY StaysSame
<1>3. WaitingApart'
  BY <1>2, Parts DEF WaitingApart
<1> QED
  BY <1>1, <1>3, RestKept, PartsNext

-----------------------------------------------------------------------------
(* The callers that return.                                                 *)

LEMMA ReleaseStep ==
    ASSUME LedgerInv, NEW c \in Callers, Release(c),
           store' = store \/ StoreMoves, called' = called, runs' = runs,
           announced' \subseteq [branch : Branches, outcome : Outcome],
           orphans' \subseteq [pipeline : Pipelines, base : Nat, checkpoint : Checkpoint],
           \A w \in orphans' :
              \/ w \in orphans
              \/ /\ store' = store /\ w.base <= store.revision
                 /\ w.base = store.revision => Legal(w.checkpoint)
    PROVE  LedgerInv'
<1>1. TypeOK /\ store' \in Record
  BY Parts DEF TypeOK, StoreMoves
<1>2. /\ pc' = [pc EXCEPT ![c] = "idle"]
      /\ record' = [record EXCEPT ![c] = NoRecord]
      /\ started' = [started EXCEPT ![c] = {}]
      /\ guard' = [p \in Pipelines |-> IF guard[p] = c THEN NoCaller ELSE guard[p]]
  BY DEF Release, Goto
<1>3. /\ pc \in [Callers -> PCs] /\ record \in [Callers -> Record]
      /\ started \in [Callers -> SUBSET Branches]
      /\ guard \in [Pipelines -> Callers \cup {NoCaller}]
      /\ "idle" \in PCs /\ NoRecord \in Record
  BY <1>1, NewFields DEF TypeOK, PCs
<1>4. /\ pc' \in [Callers -> PCs] /\ pc'[c] = "idle"
      /\ record' \in [Callers -> Record] /\ record'[c] = NoRecord
      /\ started' \in [Callers -> SUBSET Branches] /\ started'[c] = {}
      /\ guard' \in [Pipelines -> Callers \cup {NoCaller}]
      /\ \A d \in Callers \ {c} : Stays(d)
  BY <1>2, <1>3 DEF Stays
<1>5. TypeOK'
  BY <1>1, <1>4 DEF TypeOK
<1>6. CallerInv(c)' /\ Waiting(c)' = {}
  BY <1>1, <1>4, IdleCaller
<1>7. /\ {c} \in SUBSET Callers
      /\ \A d \in {c} : CallerInv(d)' /\ Waiting(d)' \subseteq Waiting(d)
      /\ \A d \in Callers \ {c} : Stays(d)
  BY <1>4, <1>6
<1> QED
  BY <1>5, <1>7, Frame

LEMMA HistoryTypes ==
    LedgerInv =>
        /\ orphans \subseteq [pipeline : Pipelines, base : Nat, checkpoint : Checkpoint]
        /\ announced \subseteq [branch : Branches, outcome : Outcome]
BY Parts DEF TypeOK

LEMMA AnnounceType ==
    ASSUME LedgerInv, NEW cp \in Checkpoint, Announce(cp)
    PROVE  announced' \subseteq [branch : Branches, outcome : Outcome]
BY HistoryTypes DEF Announce, Settled

\* The save of a dropped future is as legal as its caller was.
LEMMA DropStep ==
    ASSUME LedgerInv, NEW c \in Callers, Drop(c)
    PROVE  LedgerInv'
<1> DEFINE w == [pipeline |-> Owner[c], base |-> record[c].revision,
                 checkpoint |-> Pending(c)]
<1>1. /\ Release(c) /\ store' = store /\ called' = called
      /\ runs' = runs /\ announced' = announced
      /\ orphans' = orphans \/ (Saving(c) /\ orphans' = orphans \cup {w})
  BY DEF Drop
<1>2. CASE orphans' = orphans
  BY <1>1, <1>2, ReleaseStep, HistoryTypes
<1>3. CASE Saving(c) /\ orphans' = orphans \cup {w}
  <2>1. /\ Owner[c] \in Pipelines /\ record[c].revision \in Nat
        /\ record[c].revision <= store.revision
        /\ record[c].revision = store.revision => Legal(Pending(c))
    BY <1>3, CallerTypes DEF CallerInv
  <2>2. Pending(c) \in Checkpoint
    BY <1>3, PendingType
  <2>3. /\ w.base = record[c].revision /\ w.checkpoint = Pending(c)
        /\ w \in [pipeline : Pipelines, base : Nat, checkpoint : Checkpoint]
    BY <2>1, <2>2
  <2> HIDE DEF w
  <2>4. /\ orphans' \subseteq [pipeline : Pipelines, base : Nat, checkpoint : Checkpoint]
        /\ announced' \subseteq [branch : Branches, outcome : Outcome]
    BY <1>1, <1>3, <2>3, HistoryTypes
  <2>5. \A v \in orphans' :
           \/ v \in orphans
           \/ /\ store' = store /\ v.base <= store.revision
              /\ v.base = store.revision => Legal(v.checkpoint)
    BY <1>1, <1>3, <2>1, <2>3
  <2> QED
    BY <1>1, <2>4, <2>5, ReleaseStep
<1> QED
  BY <1>1, <1>2, <1>3

\* The save of an outcome: what is committed is the caller's checkpoint.
LEMMA OutcomeSaved ==
    ASSUME LedgerInv, NEW c \in Callers, pc[c] \in {"record", "settle"},
           SaveSucceeds(c)
    PROVE  StoreMoves /\ store'.checkpoint = Current(c)
BY SaveMoves, PendingValues DEF Saving

LEMMA ReturningSteps ==
    ASSUME LedgerInv, NEW c \in Callers,
           \/ Refuse(c) \/ Settle(c) \/ SaveFails(c) \/ Interrupted(c)
           \/ (Commit(c) /\ Release(c))
    PROVE  LedgerInv'
<1>1. CASE Refuse(c) \/ Interrupted(c)
  <2>1. /\ announced' = announced \/ Announce(store.checkpoint)
        /\ UNCHANGED <<store, orphans, called, runs>> /\ Release(c)
    BY <1>1 DEF Refuse, Interrupted
  <2>2. announced' \subseteq [branch : Branches, outcome : Outcome]
    BY <2>1, AnnounceType, HistoryTypes, CallerTypes
  <2> QED
    BY <2>1, <2>2, ReleaseStep, HistoryTypes
<1>2. CASE Settle(c) \/ (Commit(c) /\ Release(c))
  <2>1. StoreMoves
    BY <1>2, OutcomeSaved DEF Settle, Commit
  <2>2. announced' \subseteq [branch : Branches, outcome : Outcome]
    BY <1>2, AnnounceType, CallerTypes DEF Settle, Commit
  <2> QED
    BY <1>2, <2>1, <2>2, ReleaseStep, HistoryTypes DEF Settle, Commit
<1>3. CASE SaveFails(c)
  <2>1. store' = store \/ StoreMoves
    BY <1>3, SaveMoves DEF SaveFails
  <2> QED
    BY <1>3, <2>1, ReleaseStep, HistoryTypes DEF SaveFails
<1> QED
  BY <1>1, <1>2, <1>3

-----------------------------------------------------------------------------
(* The callers that go on.                                                  *)

\* What the invariant says of a caller's record.
Knows(c) ==
    /\ record[c].revision <= store.revision
    /\ Saving(c) /\ record[c].revision = store.revision => Legal(Pending(c))
    /\ RecordHeld(c)

LEMMA Placed ==
    ASSUME TypeOK, NEW c \in Callers, NEW r \in Record, NEW where \in PCs,
           NEW s \in SUBSET Branches,
           pc' = [pc EXCEPT ![c] = where], record' = [record EXCEPT ![c] = r],
           started' = [started EXCEPT ![c] = s]
    PROVE  /\ pc' \in [Callers -> PCs] /\ record' \in [Callers -> Record]
           /\ started' \in [Callers -> SUBSET Branches]
           /\ pc'[c] = where /\ record'[c] = r /\ started'[c] = s
           /\ Current(c)' = r.checkpoint
           /\ \A d \in Callers \ {c} : Stays(d)
BY DEF TypeOK, Current, Stays

LEMMA WorkStep ==
    ASSUME LedgerInv, NEW c \in Callers, NEW r \in Record, NEW where \in PCs,
           NEW s \in SUBSET Branches,
           pc' = [pc EXCEPT ![c] = where], record' = [record EXCEPT ![c] = r],
           started' = [started EXCEPT ![c] = s],
           guard' \in [Pipelines -> Callers \cup {NoCaller}],
           called' \in Nat, runs' = runs, orphans' = orphans,
           announced' \subseteq [branch : Branches, outcome : Outcome],
           store' = store \/ StoreMoves,
           Knows(c)', Waiting(c)' \subseteq Waiting(c)
    PROVE  LedgerInv'
<1>1. TypeOK /\ store' \in Record
  BY Parts DEF TypeOK, StoreMoves
<1>2. /\ pc' \in [Callers -> PCs] /\ record' \in [Callers -> Record]
      /\ started' \in [Callers -> SUBSET Branches]
      /\ \A d \in Callers \ {c} : Stays(d)
  BY <1>1, Placed
<1>3. TypeOK'
  BY <1>1, <1>2 DEF TypeOK
<1>4. CallerInv(c)'
  BY WaitingKept DEF CallerInv, Knows
<1>5. /\ {c} \in SUBSET Callers
      /\ \A d \in {c} : CallerInv(d)' /\ Waiting(d)' \subseteq Waiting(d)
      /\ \A d \in Callers \ {c} : Stays(d)
  BY <1>2, <1>4
<1> QED
  BY <1>3, <1>5, Frame

LEMMA GuardType ==
    ASSUME LedgerInv, NEW c \in Callers
    PROVE  /\ guard \in [Pipelines -> Callers \cup {NoCaller}]
           /\ [guard EXCEPT ![Owner[c]] = c] \in [Pipelines -> Callers \cup {NoCaller}]
BY Parts, CallerTypes DEF TypeOK

LEMMA BeginStep ==
    ASSUME LedgerInv, NEW c \in Callers, Begin(c)
    PROVE  LedgerInv'
<1>1. /\ pc[c] = "idle" /\ record[c] = NoRecord /\ TypeOK
      /\ store.revision \in Nat
      /\ record \in [Callers -> Record] /\ started \in [Callers -> SUBSET Branches]
      /\ called' \in Nat
      /\ store' = store /\ orphans' = orphans /\ started' = started
      /\ runs' = runs /\ announced' = announced
      /\ guard' \in [Pipelines -> Callers \cup {NoCaller}]
  BY Parts, CallerTypes, GuardType DEF Begin, TypeOK, CallerInv, RecordHeld
<1>2. started[c] = {}
  BY <1>1, CallerTypes DEF CallerInv, RecordHeld
<1>3. ASSUME NEW where \in {"create", "load", "inspect"}, NEW r \in Record,
             Goto(c, where), record' = [record EXCEPT ![c] = r],
             where = "create" => r = NoRecord, r.revision <= store.revision
      PROVE  LedgerInv'
  <2> DEFINE s == {}
  <2>1. /\ where \in PCs /\ s \in SUBSET Branches /\ s = {}
        /\ pc' = [pc EXCEPT ![c] = where] /\ started' = [started EXCEPT ![c] = s]
    BY <1>1, <1>2, <1>3 DEF PCs, Goto
  <2> HIDE DEF s
  <2>2. pc'[c] = where /\ record'[c] = r /\ started'[c] = {}
    BY <1>1, <1>3, <2>1, Placed
  <2>3. Waiting(c)' = {}
    BY <2>2 DEF Waiting
  <2>4. Saving(c)' => Pending(c)' = NewCheckpoint /\ r.revision = 0 /\ where = "create"
    BY <1>3, <2>2, NewFields DEF Saving, Pending
  <2>5. RecordHeld(c)'
    BY <1>3, <2>2 DEF RecordHeld
  <2>6. Knows(c)'
    BY <1>1, <1>3, <2>2, <2>4, <2>5 DEF Knows, Legal
  <2> QED
    BY <1>1, <1>3, <2>1, <2>3, <2>6, WorkStep, HistoryTypes
<1>4. CASE (Goto(c, "create") \/ Goto(c, "load")) /\ UNCHANGED record
  <2> DEFINE r == NoRecord
  <2>1. /\ record' = [record EXCEPT ![c] = r]
        /\ r \in Record /\ r = NoRecord /\ r.revision <= store.revision
    BY <1>1, <1>4, NewFields
  <2> HIDE DEF r
  <2> QED
    BY <1>3, <1>4, <2>1
<1>5. ASSUME NEW e \in 1 .. store.revision, Goto(c, "inspect"),
             record' = [record EXCEPT ![c].revision = e]
      PROVE  LedgerInv'
  <2> DEFINE r == [record[c] EXCEPT !.revision = e]
  <2>1. /\ r \in Record /\ r.revision <= store.revision
        /\ record' = [record EXCEPT ![c] = r]
    BY <1>1, <1>5, NewFields DEF Record
  <2> HIDE DEF r
  <2> QED
    BY <1>3, <1>5, <2>1
<1> QED
  BY <1>4, <1>5 DEF Begin

\* The loop goes on with the record that is now stored.
LEMMA Continued ==
    ASSUME LedgerInv, NEW c \in Callers, Continue(c, store'),
           store' = store \/ StoreMoves, store'.revision # 0,
           started' = started, started[c] \subseteq Active(store'.checkpoint)
    PROVE  /\ store' \in Record
           /\ guard' \in [Pipelines -> Callers \cup {NoCaller}]
           /\ record' = [record EXCEPT ![c] = store']
           /\ started' = [started EXCEPT ![c] = started[c]]
           /\ started[c] \in SUBSET Branches
           /\ \E where \in {"claim", "select"} :
                 where \in PCs /\ pc' = [pc EXCEPT ![c] = where]
           /\ Current(c)' = store'.checkpoint
           /\ \A d \in Callers \ {c} : Stays(d)
           /\ Knows(c)'
           /\ Waiting(c)' = Active(store'.checkpoint) \ started[c]
<1> DEFINE r == store'
<1>1. TypeOK /\ r \in Record /\ r.revision \in Nat /\ r.checkpoint \in Checkpoint
  BY Parts, RecordFields DEF TypeOK, StoreMoves
<1>2. PICK where \in {"claim", "select"} :
         /\ pc' = [pc EXCEPT ![c] = where]
         /\ where = "claim" => Queued(r.checkpoint) # {}
  BY DEF Continue, Goto
<1>3. /\ guard' \in [Pipelines -> Callers \cup {NoCaller}]
      /\ record' = [record EXCEPT ![c] = r]
      /\ started \in [Callers -> SUBSET Branches]
      /\ where \in PCs
  BY <1>1, <1>2, GuardType DEF Continue, TypeOK, PCs
<1>4. /\ started' = [started EXCEPT ![c] = started[c]]
      /\ started[c] \in SUBSET Branches
  BY <1>3
<1> HIDE DEF r
<1>5. /\ pc'[c] = where /\ record'[c] = r /\ started'[c] = started[c]
      /\ Current(c)' = r.checkpoint
      /\ \A d \in Callers \ {c} : Stays(d)
  BY <1>1, <1>2, <1>3, <1>4, Placed, ZenonT(30)
<1>6. Waiting(c)' = Active(r.checkpoint) \ started[c]
  BY <1>5 DEF Waiting, Active
<1>7. RecordHeld(c)'
  BY <1>2, <1>5 DEF RecordHeld, Active, r
<1>8. Saving(c)' => Legal(Pending(c))'
  <2> SUFFICES ASSUME Saving(c)' PROVE Legal(Pending(c))'
    OBVIOUS
  <2>1. where = "claim"
    BY <1>2, <1>5 DEF Saving
  <2>2. Pending(c)' = Claimed(r.checkpoint)
    BY <1>5, <2>1 DEF Pending
  <2>3. PICK b \in Branches :
           /\ r.checkpoint[b] = Ready
           /\ Claimed(r.checkpoint)[b] = InFlight
           /\ \A d \in Branches \ {b} : Claimed(r.checkpoint)[d] = r.checkpoint[d]
    BY <1>1, <1>2, <2>1, ClaimedFields
  <2> QED
    BY <2>2, <2>3 DEF Legal, Moves, r
<1>9. Knows(c)'
  BY <1>1, <1>5, <1>7, <1>8 DEF Knows, r
<1> QED
  BY <1>1, <1>2, <1>3, <1>4, <1>5, <1>6, <1>9 DEF r

\* The loop goes on and no branch has been claimed.
LEMMA ContinueStep ==
    ASSUME LedgerInv, NEW c \in Callers, Continue(c, store'),
           store' = store \/ StoreMoves, store'.revision # 0,
           started' = started, started[c] \subseteq Active(store'.checkpoint),
           Active(store'.checkpoint) \ started[c] \subseteq Waiting(c),
           called' = called, runs' = runs, orphans' = orphans,
           announced' \subseteq [branch : Branches, outcome : Outcome]
    PROVE  LedgerInv'
<1>1. called' \in Nat
  BY Parts DEF TypeOK
<1>2. PICK where \in {"claim", "select"} :
         where \in PCs /\ pc' = [pc EXCEPT ![c] = where]
  BY Continued
<1> DEFINE r == store'
           s == started[c]
<1>3. /\ r \in Record /\ record' = [record EXCEPT ![c] = r]
      /\ s \in SUBSET Branches /\ started' = [started EXCEPT ![c] = s]
      /\ guard' \in [Pipelines -> Callers \cup {NoCaller}]
      /\ Knows(c)' /\ Waiting(c)' \subseteq Waiting(c)
  BY Continued
<1> HIDE DEF r, s
<1> QED
  BY <1>1, <1>2, <1>3, WorkStep

LEMMA CreateStep ==
    ASSUME LedgerInv, NEW c \in Callers, Create(c)
    PROVE  LedgerInv'
<1>1. /\ pc[c] = "create" /\ Saving(c) /\ SaveSucceeds(c)
      /\ Continue(c, store') /\ orphans' = orphans /\ started' = started
      /\ called' = called /\ runs' = runs /\ announced' = announced
  BY DEF Create, Saving
<1>2. StoreMoves /\ store'.checkpoint = NewCheckpoint /\ store'.revision # 0
  BY <1>1, SaveMoves, PendingValues, StoreKeeps
<1>3. started[c] = {} /\ Active(store'.checkpoint) = {}
  BY <1>1, <1>2, CallerTypes, NewFields DEF CallerInv, RecordHeld
<1> QED
  BY <1>1, <1>2, <1>3, ContinueStep, HistoryTypes

\* Nothing is active in a resumable checkpoint.
LEMMA ResumeStep ==
    ASSUME LedgerInv, NEW c \in Callers, Resume(c)
    PROVE  LedgerInv'
<1>1. /\ pc[c] = "load" /\ store.revision # 0 /\ Active(store.checkpoint) = {}
      /\ Continue(c, store') /\ Announce(store.checkpoint)
      /\ store' = store /\ orphans' = orphans /\ started' = started
      /\ called' = called /\ runs' = runs
  BY DEF Resume, Resumable
<1>2. started[c] = {} /\ Active(store'.checkpoint) = {}
  BY <1>1, CallerTypes DEF CallerInv, RecordHeld
<1>3. announced' \subseteq [branch : Branches, outcome : Outcome]
  BY <1>1, AnnounceType, CallerTypes
<1> QED
  BY <1>1, <1>2, <1>3, ContinueStep

LEMMA CommitStep ==
    ASSUME LedgerInv, NEW c \in Callers, Commit(c)
    PROVE  LedgerInv'
<1>1. CASE Release(c)
  BY <1>1, ReturningSteps
<1>2. CASE Continue(c, store') /\ started' = started
  <2>1. /\ pc[c] = "record" /\ orphans' = orphans /\ called' = called /\ runs' = runs
        /\ Announce(Current(c)) /\ SaveSucceeds(c)
    BY DEF Commit
  <2>2. StoreMoves /\ store'.checkpoint = Current(c) /\ store'.revision # 0
    BY <2>1, OutcomeSaved, StoreKeeps
  <2>3. /\ started[c] \subseteq Active(Current(c))
        /\ Waiting(c) = Active(Current(c)) \ started[c]
    BY <2>1, CallerTypes DEF CallerInv, RecordHeld, Waiting
  <2>4. announced' \subseteq [branch : Branches, outcome : Outcome]
    BY <2>1, AnnounceType, CallerTypes
  <2> QED
    BY <1>2, <2>1, <2>2, <2>3, <2>4, ContinueStep
<1> QED
  BY <1>1, <1>2 DEF Commit

\* reconcile_checkpointed has loaded the record that it is about to settle.
LEMMA InspectStep ==
    ASSUME LedgerInv, NEW c \in Callers, Inspect(c)
    PROVE  LedgerInv'
<1> DEFINE old == store.checkpoint
           to == [kind |-> "verified", by |-> c]
<1>1. PICK b \in Branches :
         /\ Reconcilable(old[b])
         /\ record' = [record EXCEPT ![c].checkpoint = [old EXCEPT ![b] = to]]
  BY DEF Inspect
<1> DEFINE new == [old EXCEPT ![b] = to]
           r == [record[c] EXCEPT !.checkpoint = new]
           s == {}
           where == "settle"
<1>2. /\ pc[c] = "inspect" /\ store.revision = record[c].revision
      /\ guard' = guard /\ store' = store /\ orphans' = orphans /\ called' = called
      /\ runs' = runs /\ started' = started /\ Announce(store.checkpoint)
      /\ Goto(c, where)
  BY DEF Inspect
<1>3. /\ TypeOK /\ record[c] \in Record /\ record \in [Callers -> Record]
      /\ store.revision \in Nat /\ called' \in Nat /\ old \in Checkpoint
      /\ guard' \in [Pipelines -> Callers \cup {NoCaller}]
      /\ to \in Outcome /\ to \in State /\ to.kind = "verified"
      /\ started \in [Callers -> SUBSET Branches] /\ started[c] = {}
  BY <1>2, Parts, CallerTypes, GuardType, StateKinds
     DEF TypeOK, Outcome, CallerInv, RecordHeld
<1>4. store.revision # 0
  <2>1. Ready # InFlight /\ Ready.kind # "failed"
    BY StateKinds
  <2> QED
    BY <1>1, <2>1, Parts, NewFields DEF FirstRevision, Reconcilable
<1>5. /\ new \in Checkpoint /\ new[b] = to
      /\ \A d \in Branches \ {b} : new[d] = old[d]
  BY <1>3, CheckpointFields
<1>6. Moves(old[b], new[b])
  BY <1>1, <1>3, <1>5 DEF Moves, Reconcilable
<1>7. /\ r \in Record /\ r.revision = store.revision /\ r.checkpoint = new
      /\ record' = [record EXCEPT ![c] = r]
  BY <1>1, <1>2, <1>3, <1>5 DEF Record
<1>8. /\ where \in PCs /\ s \in SUBSET Branches /\ where = "settle" /\ s = {}
      /\ pc' = [pc EXCEPT ![c] = where] /\ started' = [started EXCEPT ![c] = s]
  BY <1>2, <1>3 DEF PCs, Goto
<1> HIDE DEF r, new, to, where, s
<1>9. pc'[c] = "settle" /\ record'[c] = r /\ started'[c] = {} /\ Current(c)' = new
  BY <1>3, <1>7, <1>8, Placed
<1>10. Pending(c)' = new /\ Waiting(c)' = {}
  BY <1>9 DEF Pending, Waiting
<1>11. Legal(Pending(c))'
  BY <1>2, <1>4, <1>5, <1>6, <1>10 DEF Legal
<1>12. RecordHeld(c)'
  BY <1>9 DEF RecordHeld
<1>13. Knows(c)'
  BY <1>2, <1>3, <1>7, <1>9, <1>11, <1>12 DEF Knows
<1>14. announced' \subseteq [branch : Branches, outcome : Outcome]
  BY <1>2, AnnounceType, CallerTypes
<1> QED
  BY <1>2, <1>3, <1>7, <1>8, <1>10, <1>13, <1>14, WorkStep, HistoryTypes

\* The outcome of a branch replaces InFlight in the caller's record.
LEMMA BranchEndsStep ==
    ASSUME LedgerInv, NEW c \in Callers, NEW b \in Branches, BranchEnds(c, b)
    PROVE  LedgerInv'
<1> DEFINE old == Current(c)
<1>1. PICK kind \in {"completed", "failed"} :
         record' = [record EXCEPT ![c].checkpoint[b] = [kind |-> kind, by |-> c]]
  BY DEF BranchEnds
<1> DEFINE to == [kind |-> kind, by |-> c]
           new == [old EXCEPT ![b] = to]
           r == [record[c] EXCEPT !.checkpoint = new]
           s == started[c] \ {b}
           where == "record"
<1>2. /\ pc[c] = "select" /\ b \in started[c]
      /\ guard' = guard /\ store' = store /\ orphans' = orphans /\ called' = called
      /\ runs' = runs /\ announced' = announced
      /\ started' = [started EXCEPT ![c] = s]
      /\ Goto(c, where)
  BY DEF BranchEnds
<1>3. /\ TypeOK /\ record[c] \in Record /\ record \in [Callers -> Record]
      /\ store.revision \in Nat /\ called' \in Nat /\ old \in Checkpoint
      /\ record[c].revision \in Nat
      /\ guard' \in [Pipelines -> Callers \cup {NoCaller}]
      /\ to \in Outcome /\ to \in State
      /\ started[c] \subseteq Branches
  BY <1>2, Parts, CallerTypes, GuardType, StateKinds DEF TypeOK, Outcome
<1>4. /\ record[c].revision # 0 /\ record[c].revision <= store.revision
      /\ record[c].revision = store.revision => old = store.checkpoint
      /\ started[c] \subseteq Active(old)
  BY <1>2, CallerTypes DEF CallerInv, RecordHeld
<1>5. /\ new \in Checkpoint /\ new[b] = to
      /\ \A d \in Branches \ {b} : new[d] = old[d]
  BY <1>3, CheckpointFields
<1>6. old[b] = InFlight
  BY <1>2, <1>4 DEF Active
<1>7. Active(new) = Active(old) \ {b}
  BY <1>3, <1>5, <1>6, StateKinds DEF Active
<1>8. /\ r \in Record /\ r.revision = record[c].revision /\ r.checkpoint = new
      /\ record' = [record EXCEPT ![c] = r]
  BY <1>1, <1>3, <1>5 DEF Record, Current
<1>9. /\ where \in PCs /\ s \in SUBSET Branches /\ where = "record"
      /\ pc' = [pc EXCEPT ![c] = where]
  BY <1>2, <1>3 DEF PCs, Goto
<1>10. s = started[c] \ {b}
  OBVIOUS
<1> HIDE DEF r, new, to, where, s
<1>11. pc'[c] = "record" /\ record'[c] = r /\ started'[c] = s /\ Current(c)' = new
  BY <1>2, <1>3, <1>8, <1>9, Placed
<1>12. Pending(c)' = new /\ Waiting(c)' = Active(new) \ s
  BY <1>11 DEF Pending, Waiting, Active
<1>13. Waiting(c)' \subseteq Waiting(c)
  BY <1>2, <1>7, <1>10, <1>12 DEF Waiting
<1>14. r.revision = store.revision => Legal(Pending(c))'
  <2> SUFFICES ASSUME r.revision = store.revision PROVE Legal(Pending(c))'
    OBVIOUS
  <2>1. old = store.checkpoint /\ store'.revision # 0
    BY <1>2, <1>4, <1>8
  <2>2. Moves(store.checkpoint[b], new[b])
    BY <1>3, <1>5, <1>6, <2>1 DEF Moves
  <2> QED
    BY <1>2, <1>5, <1>12, <2>1, <2>2 DEF Legal
<1>15. RecordHeld(c)'
  BY <1>4, <1>7, <1>8, <1>10, <1>11 DEF RecordHeld, Active
<1>16. Knows(c)'
  BY <1>2, <1>4, <1>8, <1>11, <1>14, <1>15 DEF Knows
<1> QED
  BY <1>2, <1>3, <1>8, <1>9, <1>13, <1>16, WorkStep, HistoryTypes

-----------------------------------------------------------------------------
(* The two steps to an agent.                                               *)

\* The claimed branch was ready: nobody has run it, and nobody waits for it.
LEMMA ClaimStep ==
    ASSUME LedgerInv, NEW c \in Callers, Claim(c)
    PROVE  LedgerInv'
<1> DEFINE old == store.checkpoint
           new == store'.checkpoint
<1>1. /\ pc[c] = "claim" /\ Saving(c) /\ SaveSucceeds(c) /\ Continue(c, store')
      /\ orphans' = orphans /\ started' = started
      /\ called' = called /\ runs' = runs /\ announced' = announced
  BY DEF Claim, Saving
<1>2. /\ StoreMoves /\ new = Claimed(Current(c)) /\ store.revision = record[c].revision
      /\ store'.revision # 0
  BY <1>1, SaveMoves, PendingValues, StoreKeeps
<1>3. /\ Current(c) = old /\ Queued(old) # {} /\ started[c] \subseteq Active(old)
      /\ old \in Checkpoint
      /\ Waiting(c) = Active(old) \ started[c]
  BY <1>1, <1>2, CallerTypes DEF CallerInv, RecordHeld, Waiting
<1>4. PICK b \in Branches : /\ old[b] = Ready
                            /\ new[b] = InFlight
                            /\ Active(new) = Active(old) \cup {b}
  BY <1>2, <1>3, ClaimedFields
<1>5. started[c] \subseteq Active(new) /\ b \notin started[c]
  BY <1>3, <1>4, StateKinds DEF Active
<1>6. /\ store' \in Record
      /\ guard' \in [Pipelines -> Callers \cup {NoCaller}]
      /\ pc' \in [Callers -> PCs] /\ record' \in [Callers -> Record]
      /\ \A d \in Callers \ {c} : Stays(d)
      /\ Knows(c)'
      /\ Waiting(c)' = Active(new) \ started[c]
  <2>1. PICK where \in {"claim", "select"} :
           where \in PCs /\ pc' = [pc EXCEPT ![c] = where]
    BY <1>1, <1>2, <1>5, Continued
  <2>2. /\ pc \in [Callers -> PCs] /\ record \in [Callers -> Record]
        /\ store' \in Record /\ record' = [record EXCEPT ![c] = store']
    BY <1>1, <1>2, <1>5, Continued, Parts DEF TypeOK
  <2>3. pc' \in [Callers -> PCs] /\ record' \in [Callers -> Record]
    BY <2>1, <2>2
  <2> QED
    BY <1>1, <1>2, <1>5, <2>2, <2>3, Continued
<1>7. TypeOK'
  BY <1>1, <1>6, Parts DEF TypeOK
<1>8. Waiting(c)' = Waiting(c) \cup {b}
  BY <1>3, <1>4, <1>5, <1>6
<1>9. WaitingHeld(c)'
  <2>1. \A d \in Waiting(c) : d \in Branches /\ old[d] # Ready /\ runs[d] = 0
    BY CallerTypes, WaitingType DEF CallerInv, WaitingHeld
  <2>2. \A d \in Waiting(c) : new[d] # Ready
    BY <1>2, <2>1, StoreKeeps
  <2>3. runs[b] = 0
    BY <1>4, Parts DEF RunsBooked
  <2>4. new[b] # Ready
    BY <1>4, StateKinds
  <2> QED
    BY <1>1, <1>8, <2>1, <2>2, <2>3, <2>4 DEF WaitingHeld
<1>10. \A d \in Callers : CallerInv(d)'
  <2>1. CallerInv(c)'
    BY <1>6, <1>9 DEF CallerInv, Knows
  <2> QED
    BY <1>1, <1>2, <1>6, <2>1, OvertakenCaller
<1>11. \A d \in Callers \ {c} : Waiting(d)' = Waiting(d) /\ b \notin Waiting(d)
  BY <1>4, <1>6, StaysSame, Parts DEF CallerInv, WaitingHeld
<1>12. WaitingApart'
  BY <1>8, <1>11, Parts DEF WaitingApart
<1> QED
  BY <1>1, <1>2, <1>7, <1>10, <1>12, RestKept, PartsNext

\* The agent is called for a branch that nobody else waits for.
LEMMA DispatchStep ==
    ASSUME LedgerInv, NEW c \in Callers, NEW b \in Branches, Dispatch(c, b)
    PROVE  LedgerInv'
<1> DEFINE s == started[c] \cup {b}
<1>1. /\ pc[c] = "select" /\ b \in Waiting(c)
      /\ runs' = [runs EXCEPT ![b] = runs[b] + 1]
      /\ started' = [started EXCEPT ![c] = s]
      /\ store' = store /\ orphans' = orphans /\ guard' = guard /\ pc' = pc
      /\ record' = record /\ called' = called /\ announced' = announced
  BY DEF Dispatch, Waiting
<1>2. /\ TypeOK /\ CallerInv(c) /\ started[c] \subseteq Branches
      /\ runs \in [Branches -> Nat] /\ started \in [Callers -> SUBSET Branches]
  BY Parts, CallerTypes DEF TypeOK
<1>3. /\ store.checkpoint[b] # Ready /\ runs[b] = 0
      /\ b \in Active(Current(c)) /\ started[c] \subseteq Active(Current(c))
  BY <1>1, <1>2 DEF CallerInv, WaitingHeld, RecordHeld, Waiting
<1>4. /\ runs' \in [Branches -> Nat] /\ runs'[b] = 1
      /\ \A d \in Branches \ {b} : runs'[d] = runs[d]
      /\ started' \in [Callers -> SUBSET Branches] /\ started'[c] = s
      /\ \A d \in Callers \ {c} : Stays(d)
  BY <1>1, <1>2, <1>3 DEF Stays
<1>5. TypeOK'
  BY <1>1, <1>2, <1>4 DEF TypeOK
<1>6. Current(c)' = Current(c) /\ ~Saving(c)'
  BY <1>1 DEF Current, Saving
<1>7. Waiting(c)' = Waiting(c) \ {b}
  <2>1. /\ Waiting(c) = Active(Current(c)) \ started[c]
        /\ Waiting(c)' = Active(Current(c)) \ s
    BY <1>1, <1>4, <1>6 DEF Waiting, Active
  <2> QED
    BY <2>1
<1>8. CallerInv(c)'
  <2>1. WaitingHeld(c)'
    BY <1>1, <1>2, <1>4, <1>7, WaitingType DEF CallerInv, WaitingHeld
  <2>2. RecordHeld(c)'
    BY <1>1, <1>2, <1>3, <1>4, <1>6 DEF CallerInv, RecordHeld, Active
  <2> QED
    BY <1>1, <1>2, <1>6, <2>1, <2>2 DEF CallerInv
<1>9. ASSUME NEW d \in Callers \ {c}
      PROVE  CallerInv(d)' /\ Waiting(d)' = Waiting(d)
  <2>1. b \notin Waiting(d) /\ Waiting(d) \subseteq Branches
    BY <1>1, Parts, WaitingType DEF WaitingApart
  <2>2. \A x \in Waiting(d) : runs'[x] = runs[x]
    BY <1>4, <2>1
  <2> QED
    BY <1>1, <1>4, <2>2, QuietCaller, StaysSame
<1>10. WaitingApart'
  <2>1. \A d \in Callers : Waiting(d)' \subseteq Waiting(d)
    BY <1>7, <1>9
  <2> QED
    BY <2>1, Parts DEF WaitingApart
<1>11. RunsBooked'
  BY <1>1, <1>3, <1>4, Parts DEF RunsBooked
<1>12. FirstRevision' /\ OrphanInv'
  <2>1. \A w \in orphans : Legal(w.checkpoint)' <=> Legal(w.checkpoint)
    BY <1>1 DEF Legal
  <2> QED
    BY <1>1, <2>1, Parts DEF FirstRevision, OrphanInv
<1> QED
  BY <1>5, <1>8, <1>9, <1>10, <1>11, <1>12, PartsNext

-----------------------------------------------------------------------------
(* The environment, and the step as a whole.                                *)

\* Nobody moves, the store may.
LEMMA StandStill ==
    ASSUME LedgerInv, store' = store \/ StoreMoves, orphans' \subseteq orphans,
           UNCHANGED local, called' \in Nat, runs' = runs, announced' = announced
    PROVE  LedgerInv'
<1>1. pc' = pc /\ record' = record /\ guard' = guard /\ started' = started
  BY DEF local
<1>2. TypeOK /\ store' \in Record
  BY Parts DEF TypeOK, StoreMoves
<1>3. TypeOK'
  BY <1>1, <1>2 DEF TypeOK
<1> DEFINE S == {}
<1>4. /\ S \in SUBSET Callers
      /\ \A c \in S : CallerInv(c)' /\ Waiting(c)' \subseteq Waiting(c)
      /\ \A c \in Callers \ S : Stays(c)
  BY <1>1 DEF Stays
<1> HIDE DEF S
<1> QED
  BY <1>3, <1>4, Frame

LEMMA CrashStep ==
    ASSUME LedgerInv, NEW p \in Pipelines, Crash(p)
    PROVE  LedgerInv'
<1>1. /\ store' = store /\ orphans' \subseteq orphans /\ called' = called
      /\ runs' = runs /\ announced' = announced
      /\ pc' = [c \in Callers |-> IF Owner[c] = p THEN "idle" ELSE pc[c]]
      /\ record' = [c \in Callers |-> IF Owner[c] = p THEN NoRecord ELSE record[c]]
      /\ started' = [c \in Callers |-> IF Owner[c] = p THEN {} ELSE started[c]]
      /\ guard' = [guard EXCEPT ![p] = NoCaller]
  BY DEF Crash
<1>2. /\ TypeOK /\ store \in Record /\ "idle" \in PCs /\ NoRecord \in Record
      /\ pc \in [Callers -> PCs] /\ record \in [Callers -> Record]
      /\ started \in [Callers -> SUBSET Branches]
      /\ guard \in [Pipelines -> Callers \cup {NoCaller}]
  BY Parts, NewFields DEF TypeOK, PCs
<1>3. /\ pc' \in [Callers -> PCs] /\ record' \in [Callers -> Record]
      /\ started' \in [Callers -> SUBSET Branches]
      /\ guard' \in [Pipelines -> Callers \cup {NoCaller}]
  BY <1>1, <1>2
<1>4. TypeOK'
  BY <1>1, <1>2, <1>3 DEF TypeOK
<1> DEFINE S == {c \in Callers : Owner[c] = p}
<1>5. \A c \in S : CallerInv(c)' /\ Waiting(c)' \subseteq Waiting(c)
  BY <1>1, <1>2, IdleCaller
<1>6. S \in SUBSET Callers /\ \A c \in Callers \ S : Stays(c)
  BY <1>1 DEF Stays
<1> HIDE DEF S
<1> QED
  BY <1>1, <1>4, <1>5, <1>6, Frame

LEMMA InvStep == LedgerInv /\ [Next]_vars => LedgerInv'
<1> SUFFICES ASSUME LedgerInv, [Next]_vars PROVE LedgerInv'
  OBVIOUS
<1>1. called \in Nat
  BY Parts DEF TypeOK
<1>2. ASSUME NEW c \in Callers,
             \/ Begin(c) \/ Create(c) \/ Resume(c) \/ Inspect(c) \/ Refuse(c)
             \/ Settle(c) \/ Claim(c) \/ Commit(c) \/ SaveFails(c)
             \/ Interrupted(c) \/ Drop(c)
      PROVE  LedgerInv'
  BY <1>2, BeginStep, CreateStep, ResumeStep, InspectStep, ClaimStep, CommitStep,
     ReturningSteps, DropStep
<1>3. ASSUME NEW c \in Callers, NEW b \in Branches, Dispatch(c, b) \/ BranchEnds(c, b)
      PROVE  LedgerInv'
  BY <1>3, DispatchStep, BranchEndsStep
<1>4. ASSUME NEW c \in Callers, Busy(c)
      PROVE  LedgerInv'
  <2>1. /\ store' = store /\ orphans' = orphans /\ UNCHANGED local
        /\ called' = called + 1 /\ runs' = runs /\ announced' = announced
    BY <1>4 DEF Busy
  <2> QED
    BY <1>1, <2>1, StandStill
<1>5. ASSUME NEW w \in orphans, OrphanCommits(w) \/ OrphanLost(w)
      PROVE  LedgerInv'
  <2>1. store' = store \/ StoreMoves
    BY <1>5, OrphanMoves DEF OrphanLost
  <2>2. /\ orphans' \subseteq orphans /\ UNCHANGED local
        /\ called' = called /\ runs' = runs /\ announced' = announced
    BY <1>5 DEF OrphanCommits, OrphanLost
  <2> QED
    BY <1>1, <2>1, <2>2, StandStill
<1>6. CASE UNCHANGED vars
  <2>1. /\ store' = store /\ orphans' = orphans /\ UNCHANGED local
        /\ called' = called /\ runs' = runs /\ announced' = announced
    BY <1>6 DEF vars, local
  <2> QED
    BY <1>1, <2>1, StandStill
<1> QED
  BY <1>2, <1>3, <1>4, <1>5, <1>6, CrashStep DEF Next

-----------------------------------------------------------------------------
(* Theorems.                                                                *)

\* The bookkeeping of run_checkpointed, resume_checkpointed and
\* reconcile_checkpointed is an invariant: whatever fails, is dropped, crashes
\* or arrives late, a checkpoint whose compare-and-swap can still succeed is a
\* legal successor of the stored one, and no two callers wait to poll the same
\* branch.
THEOREM Bookkeeping == Spec => []LedgerInv
BY InvInit, InvStep, PTL DEF Spec

\* Every state that the parallel pipelines reach is well typed.
THEOREM TypeCorrect == Spec => []TypeOK
<1>1. LedgerInv => TypeOK
  BY Parts
<1> QED
  BY <1>1, Bookkeeping, PTL

\* Where a step takes the record that it commits from.
LEMMA StoreStep ==
    ASSUME LedgerInv, [Next]_vars
    PROVE  \/ store' = store
           \/ /\ StoreMoves
              /\ \/ \E c \in Callers : Saving(c) /\ store'.checkpoint = Pending(c)
                 \/ \E w \in orphans : store'.checkpoint = w.checkpoint
<1>1. ASSUME NEW c \in Callers,
             Create(c) \/ Settle(c) \/ Claim(c) \/ Commit(c) \/ SaveFails(c)
      PROVE  \/ store' = store
             \/ StoreMoves /\ Saving(c) /\ store'.checkpoint = Pending(c)
  BY <1>1, SaveMoves DEF Create, Settle, Claim, Commit, SaveFails, Saving
<1>2. ASSUME NEW c \in Callers,
             \/ Begin(c) \/ Busy(c) \/ Resume(c) \/ Inspect(c) \/ Refuse(c)
             \/ Interrupted(c) \/ Drop(c)
             \/ \E b \in Branches : Dispatch(c, b) \/ BranchEnds(c, b)
      PROVE  store' = store
  BY <1>2 DEF Begin, Busy, Resume, Inspect, Refuse, Interrupted, Drop, Dispatch,
              BranchEnds
<1>3. ASSUME NEW w \in orphans, OrphanCommits(w)
      PROVE  StoreMoves /\ store'.checkpoint = w.checkpoint
  BY <1>3, OrphanMoves
<1>4. ASSUME NEW w \in orphans, OrphanLost(w)
      PROVE  store' = store
  BY <1>4 DEF OrphanLost
<1>5. ASSUME NEW p \in Pipelines, Crash(p)
      PROVE  store' = store
  BY <1>5 DEF Crash
<1>6. UNCHANGED vars => store' = store
  BY DEF vars
<1> QED
  BY <1>1, <1>2, <1>3, <1>4, <1>5, <1>6 DEF Next

\* Only Dispatch calls an agent, and only what is stored is announced.
LEMMA HistoryStep ==
    ASSUME LedgerInv, [Next]_vars
    PROVE  /\ \/ runs' = runs
              \/ \E c \in Callers, b \in Branches : Dispatch(c, b)
           /\ announced' = announced \/ Announce(store'.checkpoint)
<1>1. ASSUME NEW c \in Callers,
             \/ Begin(c) \/ Busy(c) \/ Create(c)
             \/ Claim(c) \/ SaveFails(c) \/ Interrupted(c) \/ Drop(c)
             \/ \E b \in Branches : BranchEnds(c, b)
      PROVE  runs' = runs /\ announced' = announced
  BY <1>1 DEF Begin, Busy, Create, Claim, SaveFails, Interrupted, Drop, BranchEnds
<1>2. ASSUME NEW c \in Callers, NEW b \in Branches, Dispatch(c, b)
      PROVE  announced' = announced
  BY <1>2 DEF Dispatch
<1>3. ASSUME NEW c \in Callers, Resume(c) \/ Inspect(c) \/ Refuse(c)
      PROVE  /\ runs' = runs
             /\ announced' = announced \/ Announce(store'.checkpoint)
  BY <1>3 DEF Resume, Inspect, Refuse
<1>4. ASSUME NEW c \in Callers, Settle(c) \/ Commit(c)
      PROVE  runs' = runs /\ Announce(store'.checkpoint)
  <2>1. /\ pc[c] \in {"record", "settle"} /\ SaveSucceeds(c)
        /\ runs' = runs /\ Announce(Current(c))
    BY <1>4 DEF Settle, Commit
  <2> QED
    BY <2>1, OutcomeSaved
<1>5. ASSUME NEW w \in orphans, OrphanCommits(w) \/ OrphanLost(w)
      PROVE  runs' = runs /\ announced' = announced
  BY <1>5 DEF OrphanCommits, OrphanLost
<1>6. ASSUME NEW p \in Pipelines, Crash(p)
      PROVE  runs' = runs /\ announced' = announced
  BY <1>6 DEF Crash
<1>7. UNCHANGED vars => runs' = runs /\ announced' = announced
  BY DEF vars
<1> QED
  BY <1>1, <1>2, <1>3, <1>4, <1>5, <1>6, <1>7 DEF Next

\* An outcome that run_checkpointed, resume_checkpointed or
\* reconcile_checkpointed reported stays stored, except that reconciliation may
\* replace a failure by a verified reply.
THEOREM AnnouncedStays == Spec => []AnnouncedIsDurable
<1>1. Init => AnnouncedIsDurable
  BY DEF Init, AnnouncedIsDurable
<1>2. LedgerInv /\ AnnouncedIsDurable /\ [Next]_vars => AnnouncedIsDurable'
  <2> SUFFICES ASSUME LedgerInv, AnnouncedIsDurable, [Next]_vars
               PROVE  AnnouncedIsDurable'
    OBVIOUS
  <2> DEFINE old == store.checkpoint
             new == store'.checkpoint
             Kept(o, s) == s = o \/ (o.kind = "failed" /\ s.kind = "verified")
  <2>1. \A a \in announced :
           a.branch \in Branches /\ a.outcome \in Outcome /\ Kept(a.outcome, old[a.branch])
    BY HistoryTypes DEF AnnouncedIsDurable
  <2>2. \A a \in announced : Kept(a.outcome, new[a.branch])
    <3>1. CASE store' = store
      BY <2>1, <3>1
    <3>2. CASE StoreMoves
      <4> SUFFICES ASSUME NEW a \in announced,
                          new[a.branch] # old[a.branch]
                   PROVE  Kept(a.outcome, new[a.branch])
        BY <2>1
      <4> DEFINE from == old[a.branch]
                 to == new[a.branch]
      <4>1. from # Ready /\ from # InFlight
        BY <2>1, StateKinds
      <4>2. Moves(from, to)
        BY <2>1, <3>2, StoreKeeps
      <4>3. from.kind = "failed" /\ to.kind = "verified"
        BY <4>1, <4>2 DEF Moves
      <4> QED
        BY <2>1, <4>3
    <3> QED
      BY <3>1, <3>2, StoreStep
  <2>3. CASE announced' = announced
    BY <2>2, <2>3 DEF AnnouncedIsDurable
  <2>4. CASE Announce(new)
    <3>1. \A a \in announced' : a \in announced \/ new[a.branch] = a.outcome
      BY <2>4 DEF Announce
    <3> QED
      BY <2>2, <3>1 DEF AnnouncedIsDurable
  <2> QED
    BY <2>3, <2>4, HistoryStep
<1> QED
  BY <1>1, <1>2, Bookkeeping, PTL DEF Spec

-----------------------------------------------------------------------------
(* The refinement.                                                          *)

LEMMA PhaseValues ==
    ASSUME NEW cp \in Checkpoint
    PROVE  /\ Phase(cp) = [b \in Branches |-> Phase(cp)[b]]
           /\ \A b \in Branches :
                 /\ cp[b] = Ready => Phase(cp)[b] = "open"
                 /\ cp[b] = InFlight => Phase(cp)[b] = "claimed"
                 /\ cp[b] # Ready /\ cp[b] # InFlight => Phase(cp)[b] = "settled"
BY StateKinds DEF Phase

\* A legal commit is a stutter, a claim or a settlement of the ledger.
LEMMA PhaseStep ==
    ASSUME LedgerInv, NEW cp \in Checkpoint, Legal(cp)
    PROVE  LET old == Phase(store.checkpoint)
           IN  \/ Phase(cp) = old
               \/ \E b \in Branches :
                     /\ old[b] = "open"
                     /\ Phase(cp) = [old EXCEPT ![b] = "claimed"]
               \/ \E b \in Branches :
                     /\ old[b] = "claimed"
                     /\ Phase(cp) = [old EXCEPT ![b] = "settled"]
<1> DEFINE old == store.checkpoint
<1>1. TypeOK /\ FirstRevision /\ old \in Checkpoint
  BY Parts, RecordFields DEF TypeOK
<1>2. CASE store.revision = 0
  <2>1. cp = old
    BY <1>1, <1>2, LegalFields
  <2> QED
    BY <2>1
<1>3. CASE store.revision # 0
  <2>1. PICK b \in Branches :
           /\ Moves(old[b], cp[b])
           /\ \A d \in Branches \ {b} : cp[d] = old[d]
    BY <1>3 DEF Legal
  <2>2. old[b] \in State /\ cp[b] \in State
    BY <1>1, CheckpointFields
  <2>3. \A d \in Branches \ {b} : Phase(cp)[d] = Phase(old)[d]
    BY <2>1 DEF Phase
  <2>4. CASE old[b] = Ready
    <3>1. cp[b] = InFlight
      BY <2>1, <2>2, <2>4, StateKinds DEF Moves
    <3>2. /\ Phase(old)[b] = "open"
          /\ \A d \in Branches : Phase(cp)[d] = IF d = b THEN "claimed" ELSE Phase(old)[d]
      BY <1>1, <2>3, <2>4, <3>1, PhaseValues
    <3>3. Phase(cp) = [Phase(old) EXCEPT ![b] = "claimed"]
      BY <1>1, <3>2, PhaseValues
    <3> QED
      BY <3>2, <3>3
  <2>5. CASE old[b] = InFlight
    <3>1. cp[b] # InFlight /\ cp[b] # Ready
      BY <2>1, <2>2, <2>5, StateKinds DEF Moves
    <3>2. /\ Phase(old)[b] = "claimed"
          /\ \A d \in Branches : Phase(cp)[d] = IF d = b THEN "settled" ELSE Phase(old)[d]
      BY <1>1, <2>3, <2>5, <3>1, PhaseValues
    <3>3. Phase(cp) = [Phase(old) EXCEPT ![b] = "settled"]
      BY <1>1, <3>2, PhaseValues
    <3> QED
      BY <3>2, <3>3
  <2>6. CASE old[b] # Ready /\ old[b] # InFlight
    <3>1. cp[b] # InFlight /\ cp[b] # Ready
      BY <2>1, <2>2, <2>6, StateKinds DEF Moves
    <3>2. \A d \in Branches : Phase(cp)[d] = Phase(old)[d]
      BY <1>1, <2>3, <2>6, <3>1, PhaseValues
    <3>3. Phase(cp) = Phase(old)
      BY <1>1, <3>2, PhaseValues
    <3> QED
      BY <3>3
  <2> QED
    BY <2>4, <2>5, <2>6
<1> QED
  BY <1>2, <1>3

\* ParallelCheckpoint implements DispatchLedger: the agent of a branch is
\* called at most once, and for a branch that is durably in flight.
THEOREM ImplementsLedger == Spec => DispatchedOnce
<1>1. Init => Ledger!Init
  <2> SUFFICES ASSUME Init PROVE Ledger!Init
    OBVIOUS
  <2>1. store.checkpoint = NewCheckpoint /\ runs = [b \in Branches |-> 0]
    BY NewFields DEF Init
  <2>2. \A b \in Branches : Phase(store.checkpoint)[b] = "open"
    BY <2>1, NewFields, PhaseValues
  <2>3. Phase(store.checkpoint) = [b \in Branches |-> "open"]
    BY <2>1, <2>2, NewFields, PhaseValues
  <2> QED
    BY <2>1, <2>3 DEF Ledger!Init
<1>2. LedgerInv /\ [Next]_vars => [Ledger!Next]_Ledger!vars
  <2> SUFFICES ASSUME LedgerInv, [Next]_vars
               PROVE  [Ledger!Next]_Ledger!vars
    OBVIOUS
  <2>1. CASE runs' = runs
    <3>1. CASE store' = store
      BY <2>1, <3>1 DEF Ledger!vars
    <3>2. CASE StoreMoves
      <4>1. store'.checkpoint \in Checkpoint /\ Legal(store'.checkpoint)
        BY <3>2, StoreKeeps DEF StoreMoves
      <4>2. \/ Phase(store'.checkpoint) = Phase(store.checkpoint)
            \/ \E b \in Branches : Ledger!Claim(b)
            \/ \E b \in Branches : Ledger!Settle(b)
        BY <2>1, <4>1, PhaseStep DEF Ledger!Claim, Ledger!Settle
      <4> QED
        BY <2>1, <4>2 DEF Ledger!Next, Ledger!vars
    <3> QED
      BY <3>1, <3>2, StoreStep
  <2>2. ASSUME NEW c \in Callers, NEW b \in Branches, Dispatch(c, b)
        PROVE  Ledger!Next
    <3>1. /\ b \in Waiting(c)
          /\ store' = store
          /\ runs' = [runs EXCEPT ![b] = runs[b] + 1]
      BY <2>2 DEF Dispatch, Waiting
    <3>2. runs[b] = 0 /\ store.checkpoint[b] # Ready /\ store.checkpoint \in Checkpoint
      BY <3>1, CallerTypes DEF CallerInv, WaitingHeld
    <3>3. Phase(store.checkpoint)[b] \in {"claimed", "settled"}
      BY <3>2, PhaseValues
    <3>4. Ledger!Dispatch(b)
      BY <3>1, <3>2, <3>3 DEF Ledger!Dispatch
    <3> QED
      BY <3>4 DEF Ledger!Next
  <2> QED
    BY <2>1, <2>2, HistoryStep
<1> QED
  BY <1>1, <1>2, Bookkeeping, PTL DEF Spec, DispatchedOnce, Ledger!Spec

-----------------------------------------------------------------------------
(* The uncertain branches.                                                  *)

LEMMA ActiveFinite ==
    ASSUME NEW cp
    PROVE  IsFiniteSet(Active(cp)) /\ Cardinality(Active(cp)) \in Nat
<1>1. IsFiniteSet(Branches)
  BY FS_Interval, FanOutAssumption DEF Branches
<1>2. Active(cp) \in SUBSET Branches
  BY DEF Active
<1> QED
  BY <1>1, <1>2, FS_Subset, FS_CardinalityType

\* What has no more active branches is within the same limit.
LEMMA LimitShrinks ==
    ASSUME NEW a, NEW b, Active(a) \subseteq Active(b), WithinLimit(b)
    PROVE  WithinLimit(a)
<1>1. PICK p \in Pipelines : Cardinality(Active(b)) <= Limit[p]
  BY DEF WithinLimit
<1>2. Cardinality(Active(a)) <= Cardinality(Active(b))
  BY ActiveFinite, FS_Subset
<1>3. Limit[p] \in Nat /\ Cardinality(Active(a)) \in Nat /\ Cardinality(Active(b)) \in Nat
  BY FanOutAssumption, ActiveFinite
<1>4. Cardinality(Active(a)) <= Limit[p]
  BY <1>1, <1>2, <1>3
<1> QED
  BY <1>4 DEF WithinLimit

LEMMA LimitNew == WithinLimit(NewCheckpoint)
<1>1. PICK p \in Pipelines : Limit[p] \in Nat
  BY FanOutAssumption
<1>2. Cardinality(Active(NewCheckpoint)) = 0
  BY NewFields, FS_EmptySet
<1> QED
  BY <1>1, <1>2 DEF WithinLimit

\* A caller whose limit has room may claim one more branch.
LEMMA LimitClaimed ==
    ASSUME LedgerInv, LimitInv, NEW c \in Callers, pc[c] = "claim"
    PROVE  WithinLimit(Claimed(Current(c)))
<1> DEFINE cp == Current(c)
           p == Owner[c]
<1>1. cp \in Checkpoint /\ Queued(cp) # {} /\ p \in Pipelines
  BY CallerTypes DEF CallerInv, RecordHeld
<1>2. PICK b \in Branches : Active(Claimed(cp)) = Active(cp) \cup {b}
  BY <1>1, ClaimedFields
<1>3. Cardinality(Active(cp)) < Limit[p]
  BY DEF LimitInv, HasRoom
<1>4. Cardinality(Active(Claimed(cp))) <= Cardinality(Active(cp)) + 1
  <2>1. IsFiniteSet(Active(cp)) /\ Cardinality(Active(cp)) \in Nat
    BY ActiveFinite
  <2>2. Cardinality(Active(cp) \cup {b}) =
           IF b \in Active(cp) THEN Cardinality(Active(cp))
                              ELSE Cardinality(Active(cp)) + 1
    BY <2>1, FS_AddElement, Zenon
  <2> QED
    BY <1>2, <2>1, <2>2
<1>5. /\ Limit[p] \in Nat /\ Cardinality(Active(cp)) \in Nat
      /\ Cardinality(Active(Claimed(cp))) \in Nat
  BY <1>1, FanOutAssumption, ActiveFinite
<1>6. Cardinality(Active(Claimed(cp))) <= Limit[p]
  BY <1>3, <1>4, <1>5
<1> QED
  BY <1>1, <1>6 DEF WithinLimit

LEMMA LimitPending ==
    ASSUME LedgerInv, LimitInv, NEW c \in Callers, Saving(c)
    PROVE  WithinLimit(Pending(c))
<1>1. WithinLimit(Current(c))
  BY DEF LimitInv
<1> QED
  BY <1>1, LimitNew, LimitClaimed, PendingValues DEF Saving

\* What a caller works on in the next state is what it works on now, with
\* less of it active, or what is now stored, or nothing.
Narrows(c) ==
    /\ \/ Active(Current(c)') \subseteq Active(Current(c))
       \/ Active(Current(c)') \subseteq Active(store'.checkpoint)
       \/ Current(c)' = NewCheckpoint
    /\ pc'[c] = "claim" =>
          \/ pc[c] = "claim" /\ Current(c)' = Current(c)
          \/ HasRoom(c, Current(c)')

LEMMA NarrowsIdle ==
    ASSUME TypeOK, NEW c \in Callers, Release(c)
    PROVE  Narrows(c) /\ \A d \in Callers \ {c} : Narrows(d)
<1>1. pc' = [pc EXCEPT ![c] = "idle"] /\ record' = [record EXCEPT ![c] = NoRecord]
  BY DEF Release, Goto
<1>2. pc \in [Callers -> PCs] /\ record \in [Callers -> Record]
  BY DEF TypeOK
<1>3. /\ pc'[c] = "idle" /\ record'[c] = NoRecord
      /\ \A d \in Callers \ {c} : pc'[d] = pc[d] /\ record'[d] = record[d]
  BY <1>1, <1>2
<1> QED
  BY <1>3, NewFields DEF Narrows, Current

LEMMA NarrowsContinue ==
    ASSUME TypeOK, NEW c \in Callers, Continue(c, store')
    PROVE  Narrows(c) /\ \A d \in Callers \ {c} : Narrows(d)
<1>1. PICK where \in {"claim", "select"} :
         /\ pc' = [pc EXCEPT ![c] = where] /\ record' = [record EXCEPT ![c] = store']
         /\ where = "claim" => HasRoom(c, store'.checkpoint)
  BY DEF Continue, Goto
<1>2. pc \in [Callers -> PCs] /\ record \in [Callers -> Record]
  BY DEF TypeOK
<1>3. /\ pc'[c] = where /\ record'[c] = store'
      /\ \A d \in Callers \ {c} : pc'[d] = pc[d] /\ record'[d] = record[d]
  BY <1>1, <1>2
<1> QED
  BY <1>1, <1>3 DEF Narrows, Current

LEMMA NarrowsWork ==
    ASSUME LedgerInv, NEW c \in Callers,
           \/ Begin(c) \/ Inspect(c)
           \/ \E b \in Branches : Dispatch(c, b) \/ BranchEnds(c, b)
    PROVE  Narrows(c) /\ \A d \in Callers \ {c} : Narrows(d)
<1>1. /\ pc \in [Callers -> PCs] /\ record \in [Callers -> Record]
      /\ record[c] \in Record
      /\ Current(c) \in Checkpoint /\ store.checkpoint \in Checkpoint
  BY Parts, CallerTypes DEF TypeOK
<1>2. /\ \A d \in Callers \ {c} : pc'[d] = pc[d] /\ record'[d] = record[d]
      /\ pc'[c] # "claim"
  BY <1>1 DEF Begin, Inspect, Dispatch, BranchEnds, Goto
<1>3. CASE Begin(c) \/ \E b \in Branches : Dispatch(c, b)
  <2>1. record'[c].checkpoint = record[c].checkpoint
    BY <1>1, <1>3 DEF Begin, Dispatch, Record
  <2> QED
    BY <1>2, <2>1 DEF Narrows, Current
<1>4. CASE Inspect(c)
  <2>1. PICK b \in Branches :
           record' = [record EXCEPT ![c].checkpoint =
              [store.checkpoint EXCEPT ![b] = [kind |-> "verified", by |-> c]]]
    BY <1>4 DEF Inspect
  <2>2. Current(c)' = [store.checkpoint EXCEPT ![b] = [kind |-> "verified", by |-> c]]
    BY <1>1, <2>1 DEF Current, Record
  <2>3. store' = store
    BY <1>4 DEF Inspect
  <2>4. Active(Current(c)') \subseteq Active(store'.checkpoint)
    BY <1>1, <2>2, <2>3, StateKinds DEF Active, Checkpoint, InFlight
  <2> QED
    BY <1>2, <2>4 DEF Narrows, Current
<1>5. ASSUME NEW b \in Branches, BranchEnds(c, b)
      PROVE  Active(Current(c)') \subseteq Active(Current(c))
  <2>1. PICK kind \in {"completed", "failed"} :
           record' = [record EXCEPT ![c].checkpoint[b] = [kind |-> kind, by |-> c]]
    BY <1>5 DEF BranchEnds
  <2>2. Current(c)' = [Current(c) EXCEPT ![b] = [kind |-> kind, by |-> c]]
    BY <1>1, <2>1 DEF Current, Record
  <2> QED
    BY <1>1, <2>2 DEF Active, Checkpoint, InFlight
<1> QED
  BY <1>2, <1>3, <1>4, <1>5 DEF Narrows, Current

LEMMA NarrowsStep ==
    ASSUME LedgerInv, [Next]_vars
    PROVE  \A c \in Callers : Narrows(c)
<1>1. TypeOK
  BY Parts
<1>2. ASSUME NEW c \in Callers,
             \/ Refuse(c) \/ Settle(c) \/ SaveFails(c) \/ Interrupted(c) \/ Drop(c)
             \/ Create(c) \/ Resume(c) \/ Claim(c) \/ Commit(c)
      PROVE  Release(c) \/ Continue(c, store')
  BY <1>2 DEF Refuse, Settle, SaveFails, Interrupted, Drop, Create, Resume, Claim,
              Commit
<1>3. ASSUME UNCHANGED local
      PROVE  \A d \in Callers : Narrows(d)
  BY <1>3 DEF local, Narrows, Current
<1>4. ASSUME NEW c \in Callers, Busy(c)
      PROVE  UNCHANGED local
  BY <1>4 DEF Busy
<1>5. ASSUME NEW w \in orphans, OrphanCommits(w) \/ OrphanLost(w)
      PROVE  UNCHANGED local
  BY <1>5 DEF OrphanCommits, OrphanLost
<1>6. ASSUME NEW p \in Pipelines, Crash(p)
      PROVE  \A d \in Callers : Narrows(d)
  <2>1. ASSUME NEW d \in Callers
        PROVE  \/ pc'[d] = "idle" /\ record'[d] = NoRecord
               \/ pc'[d] = pc[d] /\ record'[d] = record[d]
    BY <1>6 DEF Crash
  <2> QED
    BY <2>1, NewFields DEF Narrows, Current
<1>7. UNCHANGED vars => UNCHANGED local
  BY DEF vars, local
<1> QED
  BY <1>1, <1>2, <1>3, <1>4, <1>5, <1>6, <1>7,
     NarrowsIdle, NarrowsContinue, NarrowsWork DEF Next

\* A dropped save is the save of a caller.
LEMMA OrphanStep ==
    ASSUME [Next]_vars
    PROVE  \A w \in orphans' :
              \/ w \in orphans
              \/ \E c \in Callers : Saving(c) /\ w.checkpoint = Pending(c)
<1>1. ASSUME NEW c \in Callers, Drop(c)
      PROVE  \/ orphans' = orphans
             \/ /\ Saving(c)
                /\ orphans' = orphans \cup
                      {[pipeline |-> Owner[c], base |-> record[c].revision,
                        checkpoint |-> Pending(c)]}
  BY <1>1 DEF Drop
<1>2. ASSUME NEW c \in Callers,
             \/ Begin(c) \/ Busy(c) \/ Create(c) \/ Resume(c) \/ Inspect(c)
             \/ Refuse(c) \/ Settle(c) \/ Claim(c) \/ Commit(c) \/ SaveFails(c)
             \/ Interrupted(c)
             \/ \E b \in Branches : Dispatch(c, b) \/ BranchEnds(c, b)
      PROVE  orphans' = orphans
  BY <1>2 DEF Begin, Busy, Create, Resume, Inspect, Refuse, Settle, Claim, Commit,
              SaveFails, Interrupted, Dispatch, BranchEnds
<1>3. ASSUME \/ \E w \in orphans : OrphanCommits(w) \/ OrphanLost(w)
             \/ \E p \in Pipelines : Crash(p)
             \/ UNCHANGED vars
      PROVE  orphans' \subseteq orphans
  BY <1>3 DEF OrphanCommits, OrphanLost, Crash, vars
<1> QED
  BY <1>1, <1>2, <1>3 DEF Next

\* However often a run is interrupted, crashed, reconciled and resumed, no
\* more branches are InFlight in its record than the concurrency limit of one
\* of the pipelines.
THEOREM UncertainHolds == Spec => []UncertainBounded
<1>1. Init => LimitInv
  <2> SUFFICES ASSUME Init PROVE LimitInv
    OBVIOUS
  <2>1. /\ store.checkpoint = NewCheckpoint /\ orphans = {}
        /\ \A c \in Callers : Current(c) = NewCheckpoint /\ pc[c] = "idle"
    BY NewFields DEF Init, Current
  <2> QED
    BY <2>1, LimitNew DEF LimitInv
<1>2. LedgerInv /\ LimitInv /\ [Next]_vars => LimitInv'
  <2> SUFFICES ASSUME LedgerInv, LimitInv, [Next]_vars PROVE LimitInv'
    OBVIOUS
  <2>1. WithinLimit(store'.checkpoint)
    <3>1. \A w \in orphans : WithinLimit(w.checkpoint)
      BY DEF LimitInv
    <3> QED
      BY <3>1, StoreStep, LimitPending DEF LimitInv
  <2>2. \A w \in orphans' : WithinLimit(w.checkpoint)
    BY OrphanStep, LimitPending DEF LimitInv
  <2>3. ASSUME NEW c \in Callers
        PROVE  /\ WithinLimit(Current(c)')
               /\ pc'[c] = "claim" => HasRoom(c, Current(c)')
    <3>1. Narrows(c)
      BY NarrowsStep
    <3>2. WithinLimit(Current(c)) /\ (pc[c] = "claim" => HasRoom(c, Current(c)))
      BY DEF LimitInv
    <3>3. WithinLimit(Current(c)')
      BY <2>1, <3>1, <3>2, LimitShrinks, LimitNew DEF Narrows
    <3> QED
      BY <3>1, <3>2, <3>3 DEF Narrows
  <2>4. /\ WithinLimit(store.checkpoint)' <=> WithinLimit(store'.checkpoint)
        /\ \A c \in Callers :
              /\ WithinLimit(Current(c))' <=> WithinLimit(Current(c)')
              /\ HasRoom(c, Current(c))' <=> HasRoom(c, Current(c)')
    BY DEF WithinLimit, HasRoom, Active
  <2>5. \A w \in orphans' : WithinLimit(w.checkpoint)'
    BY <2>2 DEF WithinLimit, Active
  <2> QED
    BY <2>1, <2>3, <2>4, <2>5 DEF LimitInv
<1>3. LimitInv => UncertainBounded
  BY DEF LimitInv, UncertainBounded
<1> QED
  BY <1>1, <1>2, <1>3, Bookkeeping, PTL DEF Spec
=============================================================================
