------------------------ MODULE RoutedCheckpoint_proofs ------------------------
(* Theorems about RoutedCheckpoint, for any processes, callers, routes and  *)
(* bindings: its bookkeeping is an invariant, an agent is called for the    *)
(* recorded route only and at most once, and a returned outcome stays.      *)
EXTENDS RoutedCheckpoint, TLAPS

(* Checkpoints and their statuses.                                          *)

Status == {Ready, InFlight} \cup Outcome
Stored == Checkpoint \cup {NoCheckpoint}

LEMMA StatusKinds ==
    /\ Ready \in Status /\ InFlight \in Status
    /\ Ready # InFlight
    /\ Ready.kind = "ready" /\ InFlight.kind = "in_flight"
    /\ \A o \in Outcome : /\ o.kind \in {"completed", "failed", "verified"}
                          /\ o # Ready /\ o # InFlight
                          /\ o \in Status
BY DEF Status, Ready, InFlight, Outcome

LEMMA StoredFields ==
    ASSUME NEW cp \in Stored, NEW s \in Status
    PROVE  /\ cp.status \in Status
           /\ With(cp, s).route = cp.route
           /\ With(cp, s).agent = cp.agent
           /\ With(cp, s).status = s
           /\ With(cp, s) \in Stored \/ cp = NoCheckpoint
           /\ cp \in Checkpoint => With(cp, s) \in Checkpoint
           /\ cp = With(cp, cp.status)
BY StatusKinds DEF Stored, Checkpoint, NoCheckpoint, With, Status

LEMMA WithTwice ==
    ASSUME NEW cp \in Stored, NEW s \in Status, NEW t \in Status
    PROVE  With(With(cp, s), t) = With(cp, t)
BY DEF Stored, Checkpoint, NoCheckpoint, With

LEMMA StatusType ==
    ASSUME NEW cp \in Stored
    PROVE  cp.status \in Status /\ cp = With(cp, cp.status)
BY StatusKinds, StoredFields

LEMMA RecordFields ==
    ASSUME NEW r \in Record
    PROVE  /\ r.revision \in Nat
           /\ r.checkpoint \in Stored
           /\ r = [revision |-> r.revision, checkpoint |-> r.checkpoint]
BY DEF Record, Stored

LEMMA NoRecordFields ==
    /\ NoRecord \in Record
    /\ NoRecord.revision = 0
    /\ NoRecord.checkpoint = NoCheckpoint
    /\ NoCheckpoint \in Stored
    /\ NoCheckpoint.status = Ready
    /\ NoCheckpoint.agent = NoAgent
BY DEF NoRecord, Record, NoCheckpoint, Stored

LEMMA MovesFields ==
    ASSUME NEW from \in Status, NEW to \in Status, Moves(from, to)
    PROVE  /\ to # Ready
           /\ from = Ready => to = InFlight
           /\ from # Ready => to \in Outcome
           /\ from = InFlight \/ from = Ready \/ from.kind = "failed"
BY StatusKinds DEF Moves

-----------------------------------------------------------------------------
(* The invariant, taken apart: what concerns one caller, the saves of       *)
(* dropped futures, and the rest.                                           *)

CallerInv(c) ==
    /\ pc[c] # "idle" => guard[Owner[c]] = c
    /\ record[c].revision <= store.revision
    /\ Saving(c) /\ record[c].revision = store.revision => Legal(Pending(c))
    /\ RecordHeld(c)
    /\ pc[c] = "dispatch" =>
          store.checkpoint.status # Ready /\ runs[Current(c).route] = 0

OrphanInv ==
    \A w \in orphans :
        /\ w.base <= store.revision
        /\ w.base = store.revision => Legal(w.checkpoint)

DispatchAlone ==
    \A c, d \in Callers : pc[c] = "dispatch" /\ pc[d] = "dispatch" => c = d

FirstRevision ==
    IF store.revision = 0 THEN store = NoRecord ELSE store.checkpoint \in Checkpoint

LEMMA Parts ==
    LedgerInv <=> /\ TypeOK
                  /\ FirstRevision
                  /\ \A c \in Callers : CallerInv(c)
                  /\ OrphanInv
                  /\ DispatchAlone
                  /\ RunsBooked
                  /\ BoundTarget
BY DEF LedgerInv, FirstRevision, CallerInv, OrphanInv, DispatchAlone,
       LockHeld, RevisionsKnown, SavesLegal, DispatchHeld

LEMMA PartsNext ==
    LedgerInv' <=> /\ TypeOK'
                   /\ FirstRevision'
                   /\ \A c \in Callers : CallerInv(c)'
                   /\ OrphanInv'
                   /\ DispatchAlone'
                   /\ RunsBooked'
                   /\ BoundTarget'
BY DEF LedgerInv, FirstRevision, CallerInv, OrphanInv, DispatchAlone,
       LockHeld, RevisionsKnown, SavesLegal, DispatchHeld

LEMMA InvInit == Init => LedgerInv
<1> SUFFICES ASSUME Init PROVE LedgerInv
  OBVIOUS
<1>1. TypeOK
  BY NoRecordFields, RoutingAssumption DEF Init, TypeOK, PCs
<1>2. \A c \in Callers : pc[c] = "idle" /\ record[c] = NoRecord
  BY DEF Init
<1>3. \A c \in Callers : CallerInv(c)
  BY <1>2, NoRecordFields DEF Init, CallerInv, Saving, RecordHeld
<1>4. FirstRevision /\ OrphanInv /\ DispatchAlone /\ RunsBooked /\ BoundTarget
  BY <1>2, NoRecordFields
     DEF Init, FirstRevision, OrphanInv, DispatchAlone, RunsBooked, BoundTarget
<1> QED
  BY <1>1, <1>3, <1>4, Parts

\* The types of what a caller works on, and of what it is about to save.
LEMMA CallerTypes ==
    ASSUME LedgerInv, NEW c \in Callers
    PROVE  /\ Owner[c] \in Pipelines
           /\ record[c] \in Record
           /\ record[c].revision \in Nat
           /\ Current(c) \in Stored
           /\ record[c] = [revision |-> record[c].revision, checkpoint |-> Current(c)]
           /\ store \in Record
           /\ store.revision \in Nat
           /\ store.checkpoint \in Stored
           /\ store = [revision |-> store.revision, checkpoint |-> store.checkpoint]
           /\ CallerInv(c)
<1>1. record[c] \in Record /\ store \in Record /\ Owner[c] \in Pipelines
  BY Parts, RoutingAssumption DEF TypeOK
<1> QED
  BY <1>1, Parts, RecordFields DEF Current

\* A legal checkpoint keeps the selection and never returns to Ready.
LEMMA LegalFields ==
    ASSUME TypeOK, FirstRevision, NEW cp \in Stored, Legal(cp)
    PROVE  /\ cp \in Checkpoint
           /\ store.revision # 0 =>
                 /\ store.checkpoint \in Checkpoint
                 /\ cp = With(store.checkpoint, cp.status)
                 /\ cp.route = store.checkpoint.route
                 /\ cp.agent = store.checkpoint.agent
                 /\ Moves(store.checkpoint.status, cp.status)
                 /\ cp.status # Ready
           /\ store.revision = 0 => store.checkpoint = NoCheckpoint /\ cp.status = Ready
           /\ store.checkpoint.status # Ready => store.revision # 0 /\ cp.status # Ready
<1> DEFINE old == store.checkpoint
<1>1. old \in Stored /\ old.status \in Status /\ cp.status \in Status
  BY RecordFields, StoredFields, StatusKinds DEF TypeOK
<1>2. CASE store.revision = 0
  <2>1. store.checkpoint = NoCheckpoint
    BY <1>2, NoRecordFields DEF FirstRevision
  <2> QED
    BY <1>2, <2>1, NoRecordFields DEF Legal
<1>3. CASE store.revision # 0
  <2>1. /\ old \in Checkpoint
        /\ Moves(old.status, cp.status)
        /\ cp = With(old, cp.status)
    BY <1>3 DEF Legal, FirstRevision
  <2> QED
    BY <1>1, <1>3, <2>1, StoredFields, MovesFields
<1> QED
  BY <1>2, <1>3

\* All that a step can do to the store.
StoreMoves ==
    /\ store' \in Record
    /\ store'.revision = store.revision + 1
    /\ Legal(store'.checkpoint)

LEMMA CommitMoves ==
    ASSUME NEW e \in Nat, NEW cp \in Stored, Commits(e, cp), Legal(cp)
    PROVE  StoreMoves /\ store'.checkpoint = cp /\ store.revision = e
BY DEF Commits, StoreMoves, Record, Stored

\* The checkpoint that a caller is about to save.
LEMMA PendingTypes ==
    ASSUME LedgerInv, NEW c \in Callers, Saving(c)
    PROVE  Pending(c) \in Checkpoint /\ Pending(c) \in Stored
<1>1. Current(c) \in Stored /\ CallerInv(c) /\ record[c].revision \in Nat
  BY CallerTypes
<1>2. ASSUME pc[c] # "create" PROVE Current(c) \in Checkpoint
  <2>1. /\ record[c].revision # 0
        /\ Current(c) = With(store.checkpoint, Current(c).status)
    BY <1>1, <1>2 DEF CallerInv, RecordHeld, Saving
  <2>2. store.checkpoint \in Checkpoint
    BY <1>1, <2>1, Parts, CallerTypes DEF CallerInv, FirstRevision
  <2>3. store.checkpoint \in Stored /\ Current(c).status \in Status
    BY <1>1, <2>2, StatusType DEF Stored
  <2> QED
    BY <2>1, <2>2, <2>3, StoredFields
<1>3. Current(c) \in Checkpoint => With(Current(c), InFlight) \in Checkpoint
  BY <1>1, StoredFields, StatusKinds
<1>4. CASE pc[c] = "create"
  BY <1>1, <1>4 DEF Pending, CallerInv, RecordHeld, Stored
<1>5. CASE pc[c] # "create"
  BY <1>2, <1>3, <1>5 DEF Pending, Stored
<1> QED
  BY <1>4, <1>5

LEMMA SaveMoves ==
    ASSUME LedgerInv, NEW c \in Callers, Saving(c), SaveSucceeds(c)
    PROVE  /\ StoreMoves
           /\ store'.checkpoint = Pending(c)
           /\ store.revision = record[c].revision
           /\ Legal(Pending(c))
<1>1. Pending(c) \in Stored /\ record[c].revision \in Nat /\ CallerInv(c)
  BY PendingTypes, CallerTypes
<1>2. store.revision = record[c].revision
  BY DEF SaveSucceeds, Commits
<1>3. Legal(Pending(c))
  BY <1>1, <1>2 DEF CallerInv
<1> QED
  BY <1>1, <1>2, <1>3, CommitMoves DEF SaveSucceeds

LEMMA OrphanMoves ==
    ASSUME LedgerInv, NEW w \in orphans, OrphanCommits(w)
    PROVE  StoreMoves
<1>1. w.base \in Nat /\ w.checkpoint \in Stored
  BY Parts DEF TypeOK, Stored
<1>2. w.base = store.revision /\ Legal(w.checkpoint)
  BY Parts DEF OrphanCommits, Commits, OrphanInv
<1> QED
  BY <1>1, <1>2, CommitMoves DEF OrphanCommits

LEMMA StoreKeeps ==
    ASSUME LedgerInv, StoreMoves
    PROVE  /\ store'.checkpoint \in Checkpoint
           /\ FirstRevision'
           /\ store.revision # 0 =>
                 /\ store'.checkpoint = With(store.checkpoint, store'.checkpoint.status)
                 /\ store'.checkpoint.route = store.checkpoint.route
                 /\ store'.checkpoint.agent = store.checkpoint.agent
                 /\ Moves(store.checkpoint.status, store'.checkpoint.status)
           /\ store.checkpoint.status # Ready =>
                 store.revision # 0 /\ store'.checkpoint.status # Ready
           /\ store.revision \in Nat /\ store'.revision \in Nat
           /\ store'.revision # 0
<1>1. TypeOK /\ FirstRevision /\ store.revision \in Nat
  BY Parts, RecordFields DEF TypeOK
<1>2. store'.checkpoint \in Stored /\ store'.revision \in Nat /\ store'.revision # 0
  BY <1>1, RecordFields DEF StoreMoves
<1> QED
  BY <1>1, <1>2, LegalFields DEF StoreMoves, FirstRevision

-----------------------------------------------------------------------------
(* What a step leaves of the callers that it does not move.                 *)

\* An idle caller knows nothing.
LEMMA IdleCaller ==
    ASSUME NEW c \in Callers, pc'[c] = "idle", record'[c] = NoRecord, store' \in Record
    PROVE  CallerInv(c)'
<1>1. record'[c].revision = 0 /\ store'.revision \in Nat
  BY NoRecordFields, RecordFields
<1> QED
  BY <1>1 DEF CallerInv, Saving, RecordHeld

Stays(c) ==
    /\ pc'[c] = pc[c] /\ record'[c] = record[c]
    /\ guard[Owner[c]] = c => guard'[Owner[c]] = c

\* Neither its place nor the store moves.
LEMMA QuietCaller ==
    ASSUME LedgerInv, NEW c \in Callers, Stays(c), store' = store,
           pc[c] = "dispatch" => runs'[Current(c).route] = runs[Current(c).route]
    PROVE  CallerInv(c)'
<1>1. CallerInv(c)
  BY Parts
<1>2. /\ Current(c)' = Current(c)
      /\ Pending(c)' = Pending(c)
      /\ Saving(c)' <=> Saving(c)
      /\ Legal(Pending(c))' <=> Legal(Pending(c))
      /\ RecordHeld(c)' <=> RecordHeld(c)
  BY DEF Stays, Current, Pending, Saving, Legal, RecordHeld
<1> QED
  BY <1>1, <1>2 DEF CallerInv, Stays

\* Another save succeeds: its own one will fail, and what it knows still holds.
LEMMA OvertakenCaller ==
    ASSUME LedgerInv, NEW c \in Callers, Stays(c), StoreMoves, runs' = runs
    PROVE  CallerInv(c)'
<1>1. /\ CallerInv(c)
      /\ Current(c) \in Stored /\ Current(c).status \in Status
      /\ store.checkpoint \in Stored
  BY CallerTypes, StatusType
<1>2. Current(c)' = Current(c)
  BY DEF Current, Stays
<1>3. /\ record[c].revision \in Nat /\ store.revision \in Nat
      /\ record[c].revision <= store.revision
  BY <1>1, CallerTypes DEF CallerInv
<1>4. record'[c].revision = record[c].revision /\ store'.revision = store.revision + 1
  BY DEF StoreMoves, Stays
<1>5. /\ record'[c].revision <= store'.revision
      /\ record'[c].revision # store'.revision
  BY <1>3, <1>4
<1>6. RecordHeld(c)'
  <2>1. RecordHeld(c)
    BY <1>1 DEF CallerInv
  <2>2. ASSUME record[c].revision # 0, Current(c) = With(store.checkpoint, Current(c).status)
        PROVE  Current(c) = With(store'.checkpoint, Current(c).status)
    <3>1. store.revision # 0
      BY <1>3, <2>2
    <3>2. /\ store'.checkpoint = With(store.checkpoint, store'.checkpoint.status)
          /\ store'.checkpoint.status \in Status
      BY <3>1, StoreKeeps, StatusType DEF Stored
    <3> QED
      BY <1>1, <2>2, <3>2, WithTwice
  <2> QED
    BY <1>2, <1>5, <2>1, <2>2 DEF RecordHeld, Stays
<1>7. pc'[c] = "dispatch" =>
         store'.checkpoint.status # Ready /\ runs'[Current(c)'.route] = 0
  BY <1>1, <1>2, StoreKeeps DEF CallerInv, Stays
<1>8. pc'[c] # "idle" => guard'[Owner[c]] = c
  BY <1>1 DEF CallerInv, Stays
<1> QED
  BY <1>5, <1>6, <1>7, <1>8 DEF CallerInv

LEMMA RestKept ==
    ASSUME LedgerInv, store' = store \/ StoreMoves, runs' = runs, targets' = targets,
           \A w \in orphans' :
              \/ w \in orphans
              \/ /\ store' = store /\ w.base <= store.revision
                 /\ w.base = store.revision => Legal(w.checkpoint)
    PROVE  FirstRevision' /\ OrphanInv' /\ RunsBooked' /\ BoundTarget'
<1>1. TypeOK /\ FirstRevision /\ OrphanInv /\ RunsBooked /\ BoundTarget
  BY Parts
<1>2. CASE store' = store
  <2>1. FirstRevision' /\ RunsBooked' /\ BoundTarget'
    BY <1>1, <1>2 DEF FirstRevision, RunsBooked, BoundTarget
  <2>2. \A w \in orphans' : Legal(w.checkpoint)' <=> Legal(w.checkpoint)
    BY <1>2 DEF Legal
  <2>3. OrphanInv'
    BY <1>1, <1>2, <2>2 DEF OrphanInv
  <2> QED
    BY <2>1, <2>3
<1>3. CASE StoreMoves
  <2>1. store' # store /\ store.revision \in Nat /\ store'.revision = store.revision + 1
    BY <1>3, StoreKeeps DEF StoreMoves
  <2>2. \A w \in orphans' : w.base \in Nat /\ w.base <= store.revision
    BY <1>1, <2>1 DEF OrphanInv, TypeOK
  <2>3. \A w \in orphans' : w.base <= store'.revision /\ w.base # store'.revision
    BY <2>1, <2>2
  <2>4. OrphanInv'
    BY <2>3 DEF OrphanInv
  <2>5. RunsBooked'
    BY <1>1, <1>3, StoreKeeps DEF RunsBooked
  <2>6. store.revision = 0 => targets = {}
    BY <1>1, NoRecordFields, RoutingAssumption DEF FirstRevision, BoundTarget, TypeOK
  <2>7. BoundTarget'
    BY <1>1, <1>3, <2>6, StoreKeeps DEF BoundTarget
  <2> QED
    BY <1>3, <2>4, <2>5, <2>7, StoreKeeps
<1> QED
  BY <1>2, <1>3

\* A step that moves the callers in S, none of them to its agent call.
LEMMA Frame ==
    ASSUME LedgerInv, TypeOK', store' = store \/ StoreMoves,
           runs' = runs, targets' = targets,
           \A w \in orphans' :
              \/ w \in orphans
              \/ /\ store' = store /\ w.base <= store.revision
                 /\ w.base = store.revision => Legal(w.checkpoint),
           NEW S \in SUBSET Callers,
           \A c \in S : CallerInv(c)' /\ pc'[c] # "dispatch",
           \A c \in Callers \ S : Stays(c)
    PROVE  LedgerInv'
<1>1. \A c \in Callers : CallerInv(c)'
  BY QuietCaller, OvertakenCaller
<1>2. DispatchAlone'
  BY Parts DEF DispatchAlone, Stays
<1> QED
  BY <1>1, <1>2, RestKept, PartsNext

-----------------------------------------------------------------------------
(* The callers that return.                                                 *)

LEMMA ReleaseStep ==
    ASSUME LedgerInv, NEW c \in Callers, Release(c),
           store' = store \/ StoreMoves, called' = called,
           runs' = runs, targets' = targets, announced' \subseteq Outcome,
           orphans' \subseteq [pipeline : Pipelines, base : Nat, checkpoint : Checkpoint],
           \A w \in orphans' :
              \/ w \in orphans
              \/ /\ store' = store /\ w.base <= store.revision
                 /\ w.base = store.revision => Legal(w.checkpoint)
    PROVE  LedgerInv'
<1>1. TypeOK /\ store' \in Record
  BY Parts DEF TypeOK, StoreMoves
<1>2. /\ pc' = [pc EXCEPT ![c] = "idle"]
      /\ record' = [record EXCEPT ![c] = NoRecord]
      /\ guard' = [p \in Pipelines |-> IF guard[p] = c THEN NoCaller ELSE guard[p]]
  BY <1>1 DEF Release, Goto, TypeOK
<1>3. /\ pc \in [Callers -> PCs] /\ record \in [Callers -> Record]
      /\ guard \in [Pipelines -> Callers \cup {NoCaller}]
      /\ "idle" \in PCs /\ NoRecord \in Record
      /\ \A d \in Callers : Owner[d] \in Pipelines
  BY <1>1, NoRecordFields, RoutingAssumption DEF TypeOK, PCs
<1>4. /\ pc' \in [Callers -> PCs] /\ pc'[c] = "idle"
      /\ record' \in [Callers -> Record] /\ record'[c] = NoRecord
      /\ guard' \in [Pipelines -> Callers \cup {NoCaller}]
      /\ \A d \in Callers \ {c} : Stays(d)
  BY <1>2, <1>3 DEF Stays
<1>5. TypeOK'
  BY <1>1, <1>4 DEF TypeOK
<1>6. CallerInv(c)' /\ pc'[c] # "dispatch"
  BY <1>1, <1>4, IdleCaller
<1>7. /\ {c} \in SUBSET Callers
      /\ \A d \in {c} : CallerInv(d)' /\ pc'[d] # "dispatch"
      /\ \A d \in Callers \ {c} : Stays(d)
  BY <1>4, <1>6
<1> QED
  BY <1>5, <1>7, Frame

LEMMA OrphanTypes ==
    LedgerInv =>
        /\ orphans \subseteq [pipeline : Pipelines, base : Nat, checkpoint : Checkpoint]
        /\ announced \subseteq Outcome
BY Parts DEF TypeOK

\* What is announced is the outcome of a run or of a reconciliation.
LEMMA AnnounceType ==
    ASSUME LedgerInv, NEW c \in Callers, pc[c] \in {"record", "settle"},
           SaveSucceeds(c)
    PROVE  /\ StoreMoves
           /\ store'.checkpoint = Current(c)
           /\ store.revision # 0
           /\ Current(c).status \in Outcome
<1>1. Saving(c) /\ Pending(c) = Current(c)
  BY DEF Saving, Pending
<1>2. /\ StoreMoves /\ store'.checkpoint = Current(c)
      /\ store.revision = record[c].revision /\ Legal(Current(c))
  BY <1>1, SaveMoves
<1>3. record[c].revision # 0 /\ Current(c).status \in Outcome
  BY CallerTypes DEF CallerInv, RecordHeld
<1> QED
  BY <1>2, <1>3

\* The save of a dropped future is as legal as its caller was.
LEMMA DropStep ==
    ASSUME LedgerInv, NEW c \in Callers, Drop(c)
    PROVE  LedgerInv'
<1> DEFINE w == [pipeline |-> Owner[c], base |-> record[c].revision,
                 checkpoint |-> Pending(c)]
<1>1. /\ Release(c) /\ store' = store /\ called' = called
      /\ runs' = runs /\ targets' = targets /\ announced' = announced
      /\ orphans' = orphans \/ (Saving(c) /\ orphans' = orphans \cup {w})
  BY DEF Drop, ghosts
<1>2. CASE orphans' = orphans
  BY <1>1, <1>2, ReleaseStep, OrphanTypes
<1>3. CASE Saving(c) /\ orphans' = orphans \cup {w}
  <2>1. /\ Owner[c] \in Pipelines /\ record[c].revision \in Nat
        /\ record[c].revision <= store.revision
        /\ record[c].revision = store.revision => Legal(Pending(c))
    BY <1>3, CallerTypes DEF CallerInv
  <2>2. Pending(c) \in Checkpoint
    BY <1>3, PendingTypes
  <2>3. /\ w.base = record[c].revision /\ w.checkpoint = Pending(c)
        /\ w \in [pipeline : Pipelines, base : Nat, checkpoint : Checkpoint]
    BY <2>1, <2>2
  <2> HIDE DEF w
  <2>4. /\ orphans' \subseteq [pipeline : Pipelines, base : Nat, checkpoint : Checkpoint]
        /\ announced' \subseteq Outcome
    BY <1>1, <1>3, <2>3, OrphanTypes
  <2>5. \A v \in orphans' :
           \/ v \in orphans
           \/ /\ store' = store /\ v.base <= store.revision
              /\ v.base = store.revision => Legal(v.checkpoint)
    BY <1>1, <1>3, <2>1, <2>3
  <2> QED
    BY <1>1, <2>4, <2>5, ReleaseStep
<1> QED
  BY <1>1, <1>2, <1>3

LEMMA ReturningSteps ==
    ASSUME LedgerInv, NEW c \in Callers,
           PlainEnds(c) \/ Refuse(c) \/ Commit(c) \/ SaveFails(c) \/ Interrupted(c)
    PROVE  LedgerInv'
<1>1. CASE PlainEnds(c) \/ Refuse(c) \/ Interrupted(c)
  BY <1>1, ReleaseStep, OrphanTypes DEF PlainEnds, Refuse, Interrupted, ghosts
<1>2. CASE Commit(c)
  <2>1. StoreMoves /\ announced' \subseteq Outcome
    BY <1>2, AnnounceType, OrphanTypes DEF Commit
  <2> QED
    BY <1>2, <2>1, ReleaseStep, OrphanTypes DEF Commit
<1>3. CASE SaveFails(c)
  <2>1. store' = store \/ StoreMoves
    BY <1>3, SaveMoves DEF SaveFails
  <2> QED
    BY <1>3, <2>1, ReleaseStep, OrphanTypes DEF SaveFails, ghosts
<1> QED
  BY <1>1, <1>2, <1>3

-----------------------------------------------------------------------------
(* The callers that go on.                                                  *)

\* What the invariant says of a caller's record.
Knows(c) ==
    /\ Saving(c) /\ record[c].revision = store.revision => Legal(Pending(c))
    /\ RecordHeld(c)

LEMMA Placed ==
    ASSUME TypeOK, NEW c \in Callers, NEW r \in Record, NEW where \in PCs,
           Goto(c, where), record' = [record EXCEPT ![c] = r]
    PROVE  /\ pc'[c] = where /\ record'[c] = r /\ Current(c)' = r.checkpoint
           /\ \A d \in Callers \ {c} : pc'[d] = pc[d] /\ record'[d] = record[d]
BY DEF TypeOK, Goto, Current

LEMMA WorkStep ==
    ASSUME LedgerInv, NEW c \in Callers, NEW r \in Record, NEW where \in PCs,
           where # "dispatch",
           Goto(c, where), record' = [record EXCEPT ![c] = r],
           store' = store \/ StoreMoves, orphans' = orphans,
           \/ guard' = guard /\ pc[c] # "idle"
           \/ guard[Owner[c]] = NoCaller /\ guard' = [guard EXCEPT ![Owner[c]] = c],
           called' \in Nat, runs' = runs, targets' = targets,
           announced' = announced,
           r.revision <= store'.revision, Knows(c)'
    PROVE  LedgerInv'
<1>1. /\ TypeOK /\ store' \in Record
      /\ pc \in [Callers -> PCs] /\ record \in [Callers -> Record]
      /\ guard \in [Pipelines -> Callers \cup {NoCaller}]
      /\ Owner[c] \in Pipelines
      /\ CallerInv(c)
  BY Parts, CallerTypes DEF TypeOK, StoreMoves
<1>2. /\ pc' \in [Callers -> PCs] /\ pc'[c] = where
      /\ record' \in [Callers -> Record] /\ record'[c] = r
      /\ \A d \in Callers \ {c} : pc'[d] = pc[d] /\ record'[d] = record[d]
  BY <1>1 DEF Goto
<1>3. /\ guard' \in [Pipelines -> Callers \cup {NoCaller}]
      /\ guard'[Owner[c]] = c
      /\ \A d \in Callers \ {c} : guard[Owner[d]] = d => guard'[Owner[d]] = d
  BY <1>1, RoutingAssumption DEF CallerInv
<1>4. TypeOK'
  BY <1>1, <1>2, <1>3 DEF TypeOK
<1>5. CallerInv(c)'
  BY <1>2, <1>3 DEF CallerInv, Knows
<1>6. /\ {c} \in SUBSET Callers
      /\ \A d \in {c} : CallerInv(d)' /\ pc'[d] # "dispatch"
      /\ \A d \in Callers \ {c} : Stays(d)
  BY <1>2, <1>3, <1>5 DEF Stays
<1> QED
  BY <1>4, <1>6, Frame

LEMMA BeginStep ==
    ASSUME LedgerInv, NEW c \in Callers, Begin(c)
    PROVE  LedgerInv'
<1>1. /\ record[c] = NoRecord
      /\ called' \in Nat
      /\ guard[Owner[c]] = NoCaller /\ guard' = [guard EXCEPT ![Owner[c]] = c]
      /\ store' = store /\ orphans' = orphans
      /\ runs' = runs /\ targets' = targets /\ announced' = announced
      /\ record \in [Callers -> Record] /\ TypeOK
      /\ store.revision \in Nat
  BY Parts, CallerTypes DEF Begin, ghosts, TypeOK, CallerInv, RecordHeld
<1>2. ASSUME NEW r \in Record, NEW where \in PCs, where # "dispatch",
             Goto(c, where), record' = [record EXCEPT ![c] = r],
             r.revision <= store.revision, Knows(c)'
      PROVE  LedgerInv'
  BY <1>1, <1>2, WorkStep
<1>3. ASSUME NEW q \in Registered(Owner[c]), Goto(c, "create"),
             record' = [record EXCEPT ![c].checkpoint = NewCheckpoint(Owner[c], q)]
      PROVE  LedgerInv'
  <2> DEFINE new == NewCheckpoint(Owner[c], q)
             r == [record[c] EXCEPT !.checkpoint = new]
  <2>1. /\ new \in Checkpoint /\ new.status = Ready
        /\ Compatible(Owner[c], new)
    BY CallerTypes, RoutingAssumption, StatusKinds
       DEF NewCheckpoint, Registered, Checkpoint, Status, Compatible
  <2>2. /\ r \in Record /\ r.revision = 0 /\ r.checkpoint = new
        /\ record' = [record EXCEPT ![c] = r]
    BY <1>1, <1>3, <2>1, NoRecordFields DEF Record
  <2> HIDE DEF new, r
  <2>3. pc'[c] = "create" /\ record'[c] = r /\ Current(c)' = new
    <3>1. Goto(c, "create") /\ "create" \in PCs
      BY <1>3 DEF PCs, Durable
    <3> QED
      BY <1>1, <2>2, <3>1, Placed
  <2>4. Pending(c)' = new
    BY <2>3 DEF Pending
  <2>5. store'.revision = 0 => Legal(new)'
    BY <2>1 DEF Legal
  <2>6. RecordHeld(c)'
    BY <2>1, <2>2, <2>3 DEF RecordHeld
  <2>7. Knows(c)'
    BY <2>2, <2>3, <2>4, <2>5, <2>6 DEF Knows
  <2>8. r.revision <= store.revision /\ "create" \in PCs
    BY <1>1, <2>2 DEF PCs, Durable
  <2> QED
    BY <1>2, <1>3, <2>2, <2>7, <2>8
<1>4. ASSUME NEW r \in Record, NEW where \in {"load", "inspect"},
             Goto(c, where), record' = [record EXCEPT ![c] = r],
             where = "load" => r = NoRecord, r.revision <= store.revision
      PROVE  LedgerInv'
  <2>1. pc'[c] = where /\ record'[c] = r
    BY <1>1, <1>4, Placed DEF PCs, Durable
  <2>2. Knows(c)'
    BY <1>4, <2>1 DEF Knows, Saving, RecordHeld
  <2>3. where \in PCs /\ where # "dispatch"
    BY DEF PCs, Durable
  <2> QED
    BY <1>2, <1>4, <2>2, <2>3
<1>5. CASE Goto(c, "load") /\ UNCHANGED record
  <2> DEFINE r == NoRecord
  <2>1. /\ record' = [record EXCEPT ![c] = r]
        /\ r \in Record /\ r = NoRecord /\ r.revision <= store.revision
    BY <1>1, <1>5, NoRecordFields
  <2> HIDE DEF r
  <2> QED
    BY <1>4, <1>5, <2>1
<1>6. ASSUME NEW e \in 1 .. store.revision, Goto(c, "inspect"),
             record' = [record EXCEPT ![c].revision = e]
      PROVE  LedgerInv'
  <2> DEFINE r == [record[c] EXCEPT !.revision = e]
  <2>1. /\ r \in Record /\ r.revision <= store.revision
        /\ record' = [record EXCEPT ![c] = r]
    BY <1>1, <1>6, NoRecordFields DEF Record
  <2> HIDE DEF r
  <2> QED
    BY <1>4, <1>6, <2>1
<1> QED
  BY <1>3, <1>5, <1>6 DEF Begin

LEMMA PlainSteps ==
    ASSUME LedgerInv, NEW c \in Callers, BeginPlain(c) \/ Chosen(c)
    PROVE  LedgerInv'
<1>1. PICK where \in {"choose", "serve"} : Goto(c, where)
  BY DEF BeginPlain, Chosen
<1>2. /\ record[c] = NoRecord /\ record' = record
      /\ called' \in Nat
      /\ \/ guard' = guard /\ pc[c] # "idle"
         \/ guard[Owner[c]] = NoCaller /\ guard' = [guard EXCEPT ![Owner[c]] = c]
      /\ store' = store /\ orphans' = orphans
      /\ runs' = runs /\ targets' = targets /\ announced' = announced
      /\ record \in [Callers -> Record] /\ TypeOK
      /\ store.revision \in Nat
  BY Parts, CallerTypes DEF BeginPlain, Chosen, ghosts, TypeOK, CallerInv, RecordHeld
<1> DEFINE r == NoRecord
<1>3. /\ record' = [record EXCEPT ![c] = r] /\ where \in PCs
      /\ where # "dispatch"
      /\ r = NoRecord /\ r \in Record /\ r.revision <= store'.revision
  BY <1>1, <1>2, NoRecordFields DEF PCs, Durable
<1> HIDE DEF r
<1>4. pc'[c] = where /\ record'[c] = r
  <2>1. Goto(c, where) /\ TypeOK /\ where \in PCs
    BY <1>1, <1>2, <1>3
  <2> QED
    BY <1>3, <2>1, Placed, ZenonT(30)
<1>5. Knows(c)'
  BY <1>3, <1>4 DEF Knows, Saving, RecordHeld
<1> QED
  BY <1>1, <1>2, <1>3, <1>5, WorkStep

\* run_checkpointed and resume_checkpointed hand a ready record on.
LEMMA ToClaim ==
    ASSUME LedgerInv, NEW c \in Callers, Goto(c, "claim"),
           pc[c] # "idle", guard' = guard,
           record' = [record EXCEPT ![c] = store'],
           store' = store \/ StoreMoves,
           store'.revision # 0, store'.checkpoint.status = Ready,
           Compatible(Owner[c], store'.checkpoint),
           orphans' = orphans, called' = called, runs' = runs,
           targets' = targets, announced' = announced
    PROVE  LedgerInv'
<1> DEFINE r == store'
<1>1. /\ r \in Record /\ r.revision \in Nat /\ r.checkpoint \in Stored
      /\ "claim" \in PCs /\ called' \in Nat /\ TypeOK
  BY Parts, RecordFields DEF StoreMoves, TypeOK, PCs, Durable
<1>2. pc'[c] = "claim" /\ record'[c] = r /\ Current(c)' = r.checkpoint
  BY <1>1, Placed
<1>3. /\ With(r.checkpoint, InFlight).status = InFlight
      /\ r.checkpoint = With(r.checkpoint, r.checkpoint.status)
  BY <1>1, StoredFields, StatusKinds, StatusType
<1>4. Pending(c)' = With(r.checkpoint, InFlight)
  BY <1>2 DEF Pending
<1>5. Legal(Pending(c))'
  BY <1>3, <1>4 DEF Legal, Moves
<1>6. RecordHeld(c)'
  BY <1>2, <1>3 DEF RecordHeld
<1>7. Knows(c)' /\ r.revision <= store'.revision
  BY <1>1, <1>5, <1>6 DEF Knows
<1>8. r = store' /\ record' = [record EXCEPT ![c] = r]
  OBVIOUS
<1> HIDE DEF r
<1> QED
  BY <1>1, <1>7, <1>8, WorkStep

LEMMA CreateResumeSteps ==
    ASSUME LedgerInv, NEW c \in Callers, Create(c) \/ Resume(c)
    PROVE  LedgerInv'
<1>1. CASE Create(c)
  <2>1. /\ StoreMoves /\ store'.checkpoint = Current(c)
        /\ Legal(Current(c)) /\ store.revision = 0
    BY <1>1, SaveMoves, CallerTypes
       DEF Create, Saving, Pending, CallerInv, RecordHeld
  <2>2. Current(c).status = Ready /\ store'.revision # 0
    BY <2>1, StoreKeeps DEF Legal
  <2>3. Compatible(Owner[c], Current(c))
    BY <1>1, CallerTypes DEF Create, CallerInv, RecordHeld
  <2> QED
    BY <1>1, <2>1, <2>2, <2>3, ToClaim DEF Create, ghosts
<1>2. CASE Resume(c)
  BY <1>2, ToClaim DEF Resume, ghosts
<1> QED
  BY <1>1, <1>2

\* reconcile_checkpointed has loaded the record that it is about to settle.
LEMMA InspectStep ==
    ASSUME LedgerInv, NEW c \in Callers, Inspect(c)
    PROVE  LedgerInv'
<1> DEFINE old == store.checkpoint
           to == [kind |-> "verified", by |-> c]
           new == With(old, to)
           r == [record[c] EXCEPT !.checkpoint = new]
<1>1. /\ pc[c] = "inspect" /\ store.revision = record[c].revision
      /\ old.status = InFlight \/ old.status.kind = "failed"
      /\ guard' = guard /\ store' = store /\ orphans' = orphans /\ called' = called
      /\ runs' = runs /\ targets' = targets /\ announced' = announced
      /\ Goto(c, "settle")
  BY DEF Inspect, ghosts
<1>2. /\ TypeOK /\ record[c] \in Record /\ record \in [Callers -> Record]
      /\ store.revision \in Nat /\ called \in Nat /\ old \in Stored
      /\ to \in Outcome /\ to \in Status /\ to.kind = "verified"
  BY Parts, CallerTypes, StatusKinds DEF TypeOK, Outcome
<1>3. store.revision # 0
  <2>1. NoCheckpoint.status # InFlight /\ NoCheckpoint.status.kind # "failed"
    BY NoRecordFields, StatusKinds
  <2> QED
    BY <1>1, <2>1, Parts, NoRecordFields DEF FirstRevision
<1>4. old \in Checkpoint /\ new \in Checkpoint /\ new.status = to
  BY <1>2, <1>3, Parts, StoredFields DEF FirstRevision
<1>5. /\ r \in Record /\ r.revision = store.revision /\ r.checkpoint = new
      /\ record' = [record EXCEPT ![c] = r]
  BY <1>1, <1>2, <1>4 DEF Inspect, Record
<1>6. new = With(old, new.status)
  BY <1>4
<1>7. Moves(old.status, new.status)
  BY <1>1, <1>2, <1>4 DEF Moves
<1> HIDE DEF r, new, to
<1>8. pc'[c] = "settle" /\ record'[c] = r /\ Current(c)' = new
  BY <1>1, <1>2, <1>5, Placed DEF PCs, Durable
<1>9. Pending(c)' = new
  BY <1>8 DEF Pending
<1>10. Legal(Pending(c))'
  BY <1>1, <1>3, <1>6, <1>7, <1>9 DEF Legal
<1>11. RecordHeld(c)'
  BY <1>1, <1>2, <1>3, <1>4, <1>5, <1>6, <1>8 DEF RecordHeld
<1>12. Knows(c)'
  BY <1>10, <1>11 DEF Knows
<1>13. r.revision <= store'.revision /\ "settle" \in PCs /\ called' \in Nat
  BY <1>1, <1>2, <1>5 DEF PCs, Durable
<1> QED
  BY <1>1, <1>5, <1>8, <1>12, <1>13, WorkStep

\* The outcome of the agent replaces InFlight in the caller's record.
LEMMA AgentEndsStep ==
    ASSUME LedgerInv, NEW c \in Callers, AgentEnds(c)
    PROVE  LedgerInv'
<1>1. PICK kind \in {"completed", "failed"} :
         record' = [record EXCEPT ![c].checkpoint.status = [kind |-> kind, by |-> c]]
  BY DEF AgentEnds
<1> DEFINE old == store.checkpoint
           to == [kind |-> kind, by |-> c]
           new == With(Current(c), to)
           r == [record[c] EXCEPT !.checkpoint = new]
<1>2. /\ pc[c] = "running" /\ Goto(c, "record")
      /\ guard' = guard /\ store' = store /\ orphans' = orphans /\ called' = called
      /\ runs' = runs /\ targets' = targets /\ announced' = announced
  BY DEF AgentEnds, ghosts
<1>3. /\ TypeOK /\ record[c] \in Record /\ record \in [Callers -> Record]
      /\ record[c].revision \in Nat /\ Current(c) \in Stored
      /\ store.revision \in Nat /\ called \in Nat /\ old \in Stored
      /\ CallerInv(c)
      /\ to \in Outcome /\ to \in Status
  BY Parts, CallerTypes, StatusKinds DEF TypeOK, Outcome
<1>4. /\ record[c].revision # 0 /\ record[c].revision <= store.revision
      /\ Current(c) = With(old, InFlight) /\ Current(c).status = InFlight
      /\ Compatible(Owner[c], Current(c))
  BY <1>2, <1>3 DEF CallerInv, RecordHeld
<1>5. store.revision # 0
  BY <1>3, <1>4
<1>6. /\ old \in Checkpoint /\ new \in Checkpoint /\ new.status = to
      /\ new = With(old, new.status)
      /\ new.route = Current(c).route /\ new.agent = Current(c).agent
  <2>1. old \in Checkpoint /\ InFlight \in Status
    BY <1>5, Parts, StatusKinds DEF FirstRevision
  <2>2. Current(c) \in Checkpoint
    BY <1>3, <1>4, <2>1, StoredFields
  <2>3. new = With(old, to)
    BY <1>3, <1>4, <2>1, WithTwice
  <2> QED
    BY <1>3, <2>1, <2>2, <2>3, StoredFields
<1>7. /\ r \in Record /\ r.revision = record[c].revision /\ r.checkpoint = new
      /\ record' = [record EXCEPT ![c] = r]
  BY <1>1, <1>3, <1>6 DEF Record, Current, With
<1>8. Compatible(Owner[c], new)
  BY <1>4, <1>6 DEF Compatible
<1> HIDE DEF r, new, to
<1>9. pc'[c] = "record" /\ record'[c] = r /\ Current(c)' = new
  BY <1>2, <1>3, <1>7, Placed DEF PCs, Durable
<1>10. Pending(c)' = new
  BY <1>9 DEF Pending
<1>11. r.revision = store.revision => old.status = InFlight
  BY <1>2, <1>3, <1>4, <1>7 DEF CallerInv, RecordHeld
<1>12. r.revision = store'.revision => Legal(Pending(c))'
  BY <1>2, <1>3, <1>5, <1>6, <1>10, <1>11 DEF Legal, Moves
<1>13. RecordHeld(c)'
  BY <1>2, <1>3, <1>4, <1>6, <1>7, <1>8, <1>9 DEF RecordHeld
<1>14. Knows(c)'
  BY <1>9, <1>12, <1>13 DEF Knows
<1>15. r.revision <= store'.revision /\ "record" \in PCs /\ called' \in Nat
  BY <1>2, <1>3, <1>4, <1>7 DEF PCs, Durable
<1> QED
  BY <1>2, <1>7, <1>14, <1>15, WorkStep

-----------------------------------------------------------------------------
(* The two steps to the agent.                                              *)

\* The committed selection was ready: nobody has run it or holds it, and the
\* agent that this process registers for its route is the recorded one.
LEMMA ClaimStep ==
    ASSUME LedgerInv, NEW c \in Callers, Claim(c)
    PROVE  LedgerInv'
<1> DEFINE old == store.checkpoint
           new == store'.checkpoint
<1>1. /\ pc[c] = "claim" /\ Goto(c, "dispatch")
      /\ guard' = guard /\ orphans' = orphans /\ called' = called
      /\ runs' = runs /\ targets' = targets /\ announced' = announced
      /\ record' = [record EXCEPT ![c] = store']
  BY DEF Claim, ghosts
<1>2. /\ TypeOK /\ CallerInv(c) /\ record[c].revision \in Nat
      /\ Current(c) \in Stored /\ old \in Stored /\ old.status \in Status
      /\ store.revision \in Nat
  BY Parts, CallerTypes, StatusType
<1>3. /\ StoreMoves /\ new = With(Current(c), InFlight)
      /\ store.revision = record[c].revision
      /\ Legal(new)
  BY <1>1, SaveMoves DEF Claim, Saving, Pending
<1>4. /\ record[c].revision # 0 /\ Compatible(Owner[c], Current(c))
  BY <1>1, <1>2 DEF CallerInv, RecordHeld
<1>5. /\ new \in Checkpoint /\ new \in Stored /\ new.status = InFlight
      /\ new.route = Current(c).route /\ new.agent = Current(c).agent
      /\ new = With(new, new.status)
      /\ store'.revision \in Nat /\ store'.revision # 0 /\ store' \in Record
  BY <1>2, <1>3, StoredFields, StatusKinds, StoreKeeps DEF StoreMoves, Stored
<1>6. old.status = Ready
  <2>1. Moves(old.status, InFlight)
    BY <1>3, <1>4, <1>5 DEF Legal
  <2> QED
    BY <1>2, <2>1, StatusKinds DEF Moves
<1>7. /\ "dispatch" \in PCs /\ pc \in [Callers -> PCs] /\ record \in [Callers -> Record]
      /\ pc' = [pc EXCEPT ![c] = "dispatch"]
  BY <1>1, <1>2 DEF TypeOK, PCs, Durable, Goto
<1>8. /\ pc' \in [Callers -> PCs] /\ record' \in [Callers -> Record]
      /\ pc'[c] = "dispatch" /\ record'[c] = store'
      /\ \A d \in Callers \ {c} : Stays(d)
  BY <1>1, <1>5, <1>7 DEF Stays
<1>9. TypeOK'
  BY <1>1, <1>2, <1>5, <1>8 DEF TypeOK
<1>10. \A q \in Routes : runs[q] = 0
  BY <1>2, <1>6, Parts DEF RunsBooked, TypeOK
<1>11. Current(c)' = new
  BY <1>8 DEF Current
<1>12. CallerInv(c)'
  <2>1. ~Saving(c)'
    BY <1>8 DEF Saving
  <2>2. Compatible(Owner[c], new)
    BY <1>4, <1>5 DEF Compatible
  <2>3. RecordHeld(c)'
    BY <1>5, <1>8, <1>11, <2>2 DEF RecordHeld
  <2>4. new.route \in Routes /\ new.status # Ready
    BY <1>5, StatusKinds DEF Checkpoint
  <2>5. record'[c].revision <= store'.revision
    BY <1>5, <1>8
  <2>6. guard'[Owner[c]] = c
    BY <1>1, <1>2 DEF CallerInv
  <2> QED
    BY <1>1, <1>10, <1>11, <2>1, <2>3, <2>4, <2>5, <2>6 DEF CallerInv
<1>13. \A d \in Callers \ {c} : pc[d] # "dispatch"
  BY <1>6, Parts DEF CallerInv
<1>14. \A d \in Callers : CallerInv(d)'
  BY <1>1, <1>3, <1>8, <1>12, OvertakenCaller
<1>15. DispatchAlone'
  BY <1>8, <1>13 DEF DispatchAlone, Stays
<1> QED
  BY <1>1, <1>3, <1>9, <1>14, <1>15, RestKept, PartsNext

\* The agent is called for a route that nobody has run.
LEMMA DispatchStep ==
    ASSUME LedgerInv, NEW c \in Callers, Dispatch(c)
    PROVE  LedgerInv'
<1> DEFINE q == Current(c).route
           t == [route |-> q, agent |-> Bind[Owner[c]][q]]
<1>1. /\ pc[c] = "dispatch" /\ pc' = [pc EXCEPT ![c] = "running"]
      /\ runs' = [runs EXCEPT ![q] = runs[q] + 1]
      /\ targets' = targets \cup {t}
      /\ store' = store /\ orphans' = orphans /\ guard' = guard
      /\ record' = record /\ called' = called /\ announced' = announced
  BY DEF Dispatch, Goto
<1>2. /\ TypeOK /\ CallerInv(c) /\ Current(c) \in Stored
      /\ store.checkpoint \in Stored /\ record[c].revision \in Nat
      /\ store.revision \in Nat /\ FirstRevision
  BY Parts, CallerTypes
<1>3. /\ runs[q] = 0 /\ store.checkpoint.status # Ready
      /\ record[c].revision # 0 /\ record[c].revision <= store.revision
      /\ Current(c) = With(store.checkpoint, Current(c).status)
      /\ Compatible(Owner[c], Current(c))
  BY <1>1, <1>2 DEF CallerInv, RecordHeld
<1>4. /\ store.checkpoint \in Checkpoint
      /\ q = store.checkpoint.route /\ Current(c).agent = store.checkpoint.agent
  <2>1. store.revision # 0
    BY <1>2, <1>3
  <2>2. Current(c).status \in Status
    BY <1>2, StatusType
  <2> QED
    BY <1>2, <1>3, <2>1, <2>2, StoredFields DEF FirstRevision
<1>5. /\ q \in Routes /\ t.route = q /\ t.agent = store.checkpoint.agent
      /\ t \in [route : Routes, agent : Agents]
  BY <1>3, <1>4 DEF Compatible, Checkpoint
<1> HIDE DEF q, t
<1>6. /\ pc \in [Callers -> PCs] /\ "running" \in PCs
      /\ runs \in [Routes -> Nat] /\ targets \subseteq [route : Routes, agent : Agents]
  BY <1>2 DEF TypeOK, PCs, Durable
<1>7. /\ pc' \in [Callers -> PCs] /\ pc'[c] = "running"
      /\ runs' \in [Routes -> Nat] /\ runs'[q] = 1
      /\ targets' \subseteq [route : Routes, agent : Agents]
      /\ \A d \in Callers \ {c} : Stays(d) /\ pc[d] # "dispatch"
  BY <1>1, <1>3, <1>5, <1>6, Parts DEF Stays, DispatchAlone
<1>8. TypeOK'
  BY <1>1, <1>2, <1>7 DEF TypeOK
<1>9. CallerInv(c)'
  <2>1. Current(c)' = Current(c) /\ ~Saving(c)'
    BY <1>1, <1>7 DEF Current, Saving
  <2> QED
    BY <1>1, <1>2, <1>7, <2>1 DEF CallerInv, RecordHeld
<1>10. \A d \in Callers \ {c} : CallerInv(d)'
  BY <1>1, <1>7, QuietCaller
<1>11. DispatchAlone'
  BY <1>7 DEF DispatchAlone, Stays
<1>12. RunsBooked'
  <2>1. \A u \in Routes \ {q} : runs'[u] = runs[u]
    BY <1>1, <1>6
  <2> QED
    BY <1>1, <1>3, <1>4, <1>7, <2>1, Parts DEF RunsBooked, q
<1>13. BoundTarget'
  BY <1>1, <1>4, <1>5, Parts DEF BoundTarget, q
<1>14. FirstRevision' /\ OrphanInv'
  <2>1. \A w \in orphans : Legal(w.checkpoint)' <=> Legal(w.checkpoint)
    BY <1>1 DEF Legal
  <2> QED
    BY <1>1, <2>1, Parts DEF FirstRevision, OrphanInv
<1> QED
  BY <1>8, <1>9, <1>10, <1>11, <1>12, <1>13, <1>14, PartsNext

-----------------------------------------------------------------------------
(* The environment, and the step as a whole.                                *)

\* Nobody moves, the store may.
LEMMA StandStill ==
    ASSUME LedgerInv, store' = store \/ StoreMoves, orphans' \subseteq orphans,
           UNCHANGED local, called' \in Nat, UNCHANGED ghosts
    PROVE  LedgerInv'
<1>1. /\ pc' = pc /\ record' = record /\ guard' = guard
      /\ runs' = runs /\ targets' = targets /\ announced' = announced
  BY DEF local, ghosts
<1>2. TypeOK /\ store' \in Record
  BY Parts DEF TypeOK, StoreMoves
<1>3. TypeOK'
  BY <1>1, <1>2 DEF TypeOK
<1>4. \A c \in Callers : CallerInv(c)'
  BY <1>1, QuietCaller, OvertakenCaller DEF Stays
<1>5. DispatchAlone'
  BY <1>1, Parts DEF DispatchAlone
<1> QED
  BY <1>1, <1>3, <1>4, <1>5, RestKept, PartsNext

LEMMA CrashStep ==
    ASSUME LedgerInv, NEW p \in Pipelines, Crash(p)
    PROVE  LedgerInv'
<1>1. /\ store' = store /\ orphans' \subseteq orphans /\ called' = called
      /\ runs' = runs /\ targets' = targets /\ announced' = announced
      /\ pc' = [c \in Callers |-> IF Owner[c] = p THEN "idle" ELSE pc[c]]
      /\ record' = [c \in Callers |-> IF Owner[c] = p THEN NoRecord ELSE record[c]]
      /\ guard' = [guard EXCEPT ![p] = NoCaller]
  BY DEF Crash, ghosts
<1>2. /\ TypeOK /\ store \in Record /\ "idle" \in PCs /\ NoRecord \in Record
      /\ pc \in [Callers -> PCs] /\ record \in [Callers -> Record]
      /\ guard \in [Pipelines -> Callers \cup {NoCaller}]
  BY Parts, NoRecordFields DEF TypeOK, PCs
<1>3. /\ pc' \in [Callers -> PCs] /\ record' \in [Callers -> Record]
      /\ guard' \in [Pipelines -> Callers \cup {NoCaller}]
  BY <1>1, <1>2
<1>4. TypeOK'
  BY <1>1, <1>2, <1>3 DEF TypeOK
<1>5. ASSUME NEW c \in Callers, Owner[c] = p
      PROVE  CallerInv(c)' /\ pc'[c] = "idle"
  BY <1>1, <1>2, <1>5, IdleCaller
<1>6. ASSUME NEW c \in Callers, Owner[c] # p
      PROVE  CallerInv(c)' /\ pc'[c] = pc[c]
  <2>1. Stays(c)
    BY <1>1, <1>2, <1>6, RoutingAssumption DEF Stays
  <2> QED
    BY <1>1, <2>1, QuietCaller DEF Stays
<1>7. DispatchAlone'
  BY <1>5, <1>6, Parts DEF DispatchAlone
<1> QED
  BY <1>1, <1>4, <1>5, <1>6, <1>7, RestKept, PartsNext

LEMMA InvStep == LedgerInv /\ [Next]_vars => LedgerInv'
<1> SUFFICES ASSUME LedgerInv, [Next]_vars PROVE LedgerInv'
  OBVIOUS
<1>1. called \in Nat
  BY Parts DEF TypeOK
<1>2. ASSUME NEW c \in Callers,
             \/ Begin(c) \/ BeginPlain(c) \/ Chosen(c) \/ PlainEnds(c)
             \/ Create(c) \/ Resume(c) \/ Inspect(c) \/ Refuse(c)
             \/ Claim(c) \/ Dispatch(c) \/ AgentEnds(c) \/ Commit(c)
             \/ SaveFails(c) \/ Interrupted(c) \/ Drop(c)
      PROVE  LedgerInv'
  BY <1>2, BeginStep, PlainSteps, CreateResumeSteps, InspectStep, ClaimStep,
     DispatchStep, AgentEndsStep, ReturningSteps, DropStep
<1>3. ASSUME NEW c \in Callers, Busy(c)
      PROVE  LedgerInv'
  <2>1. /\ store' = store /\ orphans' = orphans /\ UNCHANGED local
        /\ called' = called + 1 /\ UNCHANGED ghosts
    BY <1>3 DEF Busy
  <2> QED
    BY <1>1, <2>1, StandStill
<1>4. ASSUME NEW w \in orphans, OrphanCommits(w) \/ OrphanLost(w)
      PROVE  LedgerInv'
  <2>1. store' = store \/ StoreMoves
    BY <1>4, OrphanMoves DEF OrphanLost
  <2>2. /\ orphans' \subseteq orphans /\ UNCHANGED local
        /\ called' = called /\ UNCHANGED ghosts
    BY <1>4 DEF OrphanCommits, OrphanLost
  <2> QED
    BY <1>1, <2>1, <2>2, StandStill
<1>5. CASE UNCHANGED vars
  <2>1. /\ store' = store /\ orphans' = orphans /\ UNCHANGED local
        /\ called' = called /\ UNCHANGED ghosts
    BY <1>5 DEF vars, local, ghosts
  <2> QED
    BY <1>1, <2>1, StandStill
<1> QED
  BY <1>2, <1>3, <1>4, <1>5, CrashStep DEF Next

-----------------------------------------------------------------------------
(* Theorems.                                                                *)

\* The bookkeeping of run_checkpointed, resume_checkpointed and
\* reconcile_checkpointed is an invariant: whatever fails, is dropped, crashes
\* or arrives late, a checkpoint whose compare-and-swap can still succeed is a
\* legal successor of the stored one, and one caller at most is between its
\* claim and its agent.
THEOREM Bookkeeping == Spec => []LedgerInv
BY InvInit, InvStep, PTL DEF Spec

\* Every state that the routed pipelines reach is well typed.
THEOREM TypeCorrect == Spec => []TypeOK
<1>1. LedgerInv => TypeOK
  BY Parts
<1> QED
  BY <1>1, Bookkeeping, PTL

\* The agent that execute_checkpointed calls is the one that the checkpoint
\* names, whatever routes the process that claims or resumes it registers.
THEOREM BoundTargetHolds == Spec => []BoundTarget
<1>1. LedgerInv => BoundTarget
  BY Parts
<1> QED
  BY <1>1, Bookkeeping, PTL

\* All that a step can do to the store.
LEMMA StoreStep ==
    ASSUME LedgerInv, [Next]_vars
    PROVE  store' = store \/ StoreMoves
<1>1. ASSUME NEW c \in Callers,
             Create(c) \/ Claim(c) \/ Commit(c) \/ SaveFails(c)
      PROVE  store' = store \/ StoreMoves
  BY <1>1, SaveMoves DEF Create, Claim, Commit, SaveFails, Saving
<1>2. ASSUME NEW c \in Callers,
             \/ Begin(c) \/ BeginPlain(c) \/ Busy(c) \/ Chosen(c) \/ PlainEnds(c)
             \/ Resume(c) \/ Inspect(c) \/ Refuse(c) \/ Dispatch(c)
             \/ AgentEnds(c) \/ Interrupted(c) \/ Drop(c)
      PROVE  store' = store
  BY <1>2 DEF Begin, BeginPlain, Busy, Chosen, PlainEnds, Resume, Inspect, Refuse,
              Dispatch, AgentEnds, Interrupted, Drop
<1>3. ASSUME NEW w \in orphans, OrphanCommits(w) \/ OrphanLost(w)
      PROVE  store' = store \/ StoreMoves
  BY <1>3, OrphanMoves DEF OrphanLost
<1>4. ASSUME NEW p \in Pipelines, Crash(p)
      PROVE  store' = store
  BY <1>4 DEF Crash
<1>5. UNCHANGED vars => store' = store
  BY DEF vars
<1> QED
  BY <1>1, <1>2, <1>3, <1>4, <1>5 DEF Next

\* Only Dispatch calls an agent, and only a commit announces an outcome.
LEMMA HistoryStep ==
    ASSUME [Next]_vars
    PROVE  /\ runs' = runs \/ \E c \in Callers : Dispatch(c)
           /\ announced' = announced \/ \E c \in Callers : Commit(c)
<1>1. ASSUME NEW c \in Callers,
             \/ Begin(c) \/ BeginPlain(c) \/ Busy(c) \/ Chosen(c) \/ PlainEnds(c)
             \/ Create(c) \/ Resume(c) \/ Inspect(c) \/ Refuse(c) \/ Claim(c)
             \/ AgentEnds(c) \/ SaveFails(c) \/ Interrupted(c) \/ Drop(c)
      PROVE  UNCHANGED ghosts
  BY <1>1 DEF Begin, BeginPlain, Busy, Chosen, PlainEnds, Create, Resume, Inspect,
              Refuse, Claim, AgentEnds, SaveFails, Interrupted, Drop
<1>2. ASSUME NEW c \in Callers, Dispatch(c)
      PROVE  announced' = announced
  BY <1>2 DEF Dispatch
<1>3. ASSUME NEW c \in Callers, Commit(c)
      PROVE  runs' = runs
  BY <1>3 DEF Commit
<1>4. ASSUME NEW w \in orphans, OrphanCommits(w) \/ OrphanLost(w)
      PROVE  UNCHANGED ghosts
  BY <1>4 DEF OrphanCommits, OrphanLost
<1>5. ASSUME NEW p \in Pipelines, Crash(p)
      PROVE  UNCHANGED ghosts
  BY <1>5 DEF Crash
<1>6. UNCHANGED vars => UNCHANGED ghosts
  BY DEF vars, ghosts
<1>7. UNCHANGED ghosts => runs' = runs /\ announced' = announced
  BY DEF ghosts
<1> QED
  BY <1>1, <1>2, <1>3, <1>4, <1>5, <1>6, <1>7 DEF Next

\* What run_checkpointed, resume_checkpointed or reconcile_checkpointed
\* returned is stored and stays, except that reconciliation may replace a
\* failure by a verified reply.
THEOREM AnnouncedStays == Spec => []AnnouncedIsDurable
<1>1. Init => AnnouncedIsDurable
  BY DEF Init, AnnouncedIsDurable
<1>2. LedgerInv /\ AnnouncedIsDurable /\ [Next]_vars => AnnouncedIsDurable'
  <2> SUFFICES ASSUME LedgerInv, AnnouncedIsDurable, [Next]_vars
               PROVE  AnnouncedIsDurable'
    OBVIOUS
  <2> DEFINE old == store.checkpoint.status
             new == store'.checkpoint.status
             Kept(o, s) == s = o \/ (o.kind = "failed" /\ s.kind = "verified")
  <2>1. \A o \in announced : o \in Outcome /\ Kept(o, old)
    BY OrphanTypes DEF AnnouncedIsDurable
  <2>2. \A o \in announced : Kept(o, new)
    <3>1. CASE store' = store
      BY <2>1, <3>1
    <3>2. CASE StoreMoves
      <4> SUFFICES ASSUME NEW o \in announced PROVE Kept(o, new)
        OBVIOUS
      <4>1. old # Ready /\ old # InFlight
        BY <2>1, StatusKinds
      <4>2. Moves(old, new)
        BY <3>2, <4>1, StoreKeeps
      <4>3. old.kind = "failed" /\ new.kind = "verified"
        BY <4>1, <4>2 DEF Moves
      <4> QED
        BY <2>1, <4>3
    <3> QED
      BY <3>1, <3>2, StoreStep
  <2>3. CASE announced' = announced
    BY <2>2, <2>3 DEF AnnouncedIsDurable
  <2>4. ASSUME NEW c \in Callers, Commit(c)
        PROVE  AnnouncedIsDurable'
    <3>1. new = Current(c).status /\ announced' = announced \cup {Current(c).status}
      BY <2>4, AnnounceType DEF Commit
    <3> QED
      BY <2>2, <3>1 DEF AnnouncedIsDurable
  <2> QED
    BY <2>3, <2>4, HistoryStep
<1> QED
  BY <1>1, <1>2, Bookkeeping, PTL DEF Spec

-----------------------------------------------------------------------------
(* The refinement.                                                          *)

LEMMA PhaseValues ==
    ASSUME NEW cp
    PROVE  /\ Phase(cp) = [r \in Routes |-> Phase(cp)[r]]
           /\ \A r \in Routes :
                 /\ r # cp.route \/ cp.status = Ready => Phase(cp)[r] = "open"
                 /\ r = cp.route /\ cp.status = InFlight => Phase(cp)[r] = "claimed"
                 /\ r = cp.route /\ cp.status # Ready /\ cp.status # InFlight =>
                       Phase(cp)[r] = "settled"
<1>1. Phase(cp) = [r \in Routes |-> Phase(cp)[r]]
  BY DEF Phase
<1>2. ASSUME NEW r \in Routes, r # cp.route \/ cp.status = Ready
      PROVE  Phase(cp)[r] = "open"
  BY <1>2, StatusKinds DEF Phase
<1>3. ASSUME NEW r \in Routes, r = cp.route, cp.status # Ready
      PROVE  Phase(cp)[r] = IF cp.status = InFlight THEN "claimed" ELSE "settled"
  BY <1>3 DEF Phase
<1> QED
  BY <1>1, <1>2, <1>3, StatusKinds

\* A legal commit is a stutter, a claim or a settlement of the ledger.
LEMMA PhaseStep ==
    ASSUME LedgerInv, NEW cp \in Checkpoint, Legal(cp)
    PROVE  LET old == Phase(store.checkpoint)
           IN  \/ Phase(cp) = old
               \/ \E r \in Routes :
                     /\ old[r] = "open"
                     /\ Phase(cp) = [old EXCEPT ![r] = "claimed"]
               \/ \E r \in Routes :
                     /\ old[r] = "claimed"
                     /\ Phase(cp) = [old EXCEPT ![r] = "settled"]
<1> DEFINE old == store.checkpoint
           q == old.route
<1>1. /\ TypeOK /\ FirstRevision /\ cp \in Stored /\ old \in Stored
      /\ old.status \in Status /\ cp.status \in Status
  BY Parts, RecordFields, StatusType DEF TypeOK, Stored
<1>2. CASE store.revision = 0
  <2>1. old.status = Ready /\ cp.status = Ready
    BY <1>1, <1>2, LegalFields, NoRecordFields
  <2>2. Phase(cp) = Phase(old)
    BY <2>1 DEF Phase
  <2> QED
    BY <2>2
<1>3. CASE store.revision # 0
  <2>1. /\ q \in Routes /\ cp.route = q
        /\ Moves(old.status, cp.status)
    BY <1>1, <1>3, LegalFields DEF Checkpoint
  <2>2. CASE old.status = Ready
    <3>1. cp.status = InFlight /\ InFlight # Ready
      BY <1>1, <2>1, <2>2, StatusKinds DEF Moves
    <3>2. /\ Phase(old)[q] = "open"
          /\ \A r \in Routes :
                Phase(cp)[r] = IF r = q THEN "claimed" ELSE Phase(old)[r]
      BY <2>1, <2>2, <3>1, PhaseValues
    <3>3. Phase(cp) = [Phase(old) EXCEPT ![q] = "claimed"]
      BY <3>2, PhaseValues
    <3> QED
      BY <2>1, <3>2, <3>3
  <2>3. CASE old.status = InFlight
    <3>1. cp.status # InFlight /\ cp.status # Ready /\ InFlight # Ready
      BY <1>1, <2>1, <2>3, StatusKinds DEF Moves
    <3>2. /\ Phase(old)[q] = "claimed"
          /\ \A r \in Routes :
                Phase(cp)[r] = IF r = q THEN "settled" ELSE Phase(old)[r]
      BY <2>1, <2>3, <3>1, PhaseValues
    <3>3. Phase(cp) = [Phase(old) EXCEPT ![q] = "settled"]
      BY <3>2, PhaseValues
    <3> QED
      BY <2>1, <3>2, <3>3
  <2>4. CASE old.status # Ready /\ old.status # InFlight
    <3>1. cp.status # InFlight /\ cp.status # Ready
      BY <1>1, <2>1, <2>4, StatusKinds DEF Moves
    <3>2. Phase(cp) = Phase(old)
      BY <2>1, <2>4, <3>1 DEF Phase
    <3> QED
      BY <3>2
  <2> QED
    BY <2>2, <2>3, <2>4
<1> QED
  BY <1>2, <1>3

\* RoutedCheckpoint implements DispatchLedger: the agent of the recorded route
\* only is called, at most once, and for a selection durably in flight.
THEOREM ImplementsLedger == Spec => DispatchedOnce
<1>1. Init => Ledger!Init
  <2> SUFFICES ASSUME Init PROVE Ledger!Init
    OBVIOUS
  <2>1. store.checkpoint.status = Ready /\ runs = [r \in Routes |-> 0]
    BY NoRecordFields DEF Init
  <2>2. \A r \in Routes : Phase(store.checkpoint)[r] = "open"
    BY <2>1, PhaseValues
  <2>3. Phase(store.checkpoint) = [r \in Routes |-> "open"]
    BY <2>2, PhaseValues
  <2> QED
    BY <2>1, <2>3 DEF Ledger!Init
<1>2. LedgerInv /\ [Next]_vars => [Ledger!Next]_Ledger!vars
  <2> SUFFICES ASSUME LedgerInv, [Next]_vars
               PROVE  [Ledger!Next]_Ledger!vars
    OBVIOUS
  <2>1. CASE runs' = runs
    <3>1. CASE store' = store
      BY <2>1, <3>1 DEF Ledger!vars
    <3>2. CASE StoreMoves
      <4>1. store'.checkpoint \in Checkpoint /\ Legal(store'.checkpoint)
        BY <3>2, StoreKeeps DEF StoreMoves
      <4>2. \/ Phase(store'.checkpoint) = Phase(store.checkpoint)
            \/ \E r \in Routes : Ledger!Claim(r)
            \/ \E r \in Routes : Ledger!Settle(r)
        BY <2>1, <4>1, PhaseStep DEF Ledger!Claim, Ledger!Settle
      <4> QED
        BY <2>1, <4>2 DEF Ledger!Next, Ledger!vars
    <3> QED
      BY <3>1, <3>2, StoreStep
  <2>2. ASSUME NEW c \in Callers, Dispatch(c)
        PROVE  Ledger!Next
    <3> DEFINE q == Current(c).route
    <3>1. /\ pc[c] = "dispatch"
          /\ store' = store
          /\ runs' = [runs EXCEPT ![q] = runs[q] + 1]
      BY <2>2 DEF Dispatch
    <3>2. /\ runs[q] = 0 /\ store.checkpoint.status # Ready
          /\ Current(c) = With(store.checkpoint, Current(c).status)
          /\ Compatible(Owner[c], Current(c))
      BY <3>1, CallerTypes DEF CallerInv, RecordHeld
    <3>3. q \in Routes /\ q = store.checkpoint.route
      <4>1. /\ store.checkpoint \in Stored /\ Current(c).status \in Status
        BY CallerTypes, StatusType
      <4> QED
        BY <3>2, <4>1, StoredFields DEF Compatible, Registered
    <3>4. Phase(store.checkpoint)[q] \in {"claimed", "settled"}
      BY <3>2, <3>3, PhaseValues
    <3>5. Ledger!Dispatch(q)
      BY <3>1, <3>2, <3>4 DEF Ledger!Dispatch
    <3> QED
      BY <3>3, <3>5 DEF Ledger!Next
  <2> QED
    BY <2>1, <2>2, HistoryStep
<1> QED
  BY <1>1, <1>2, Bookkeeping, PTL DEF Spec, DispatchedOnce, Ledger!Spec
=============================================================================
