--------------------- MODULE SequentialCheckpoint_proofs ---------------------
(* Theorems about SequentialCheckpoint, for any processes, callers and      *)
(* stages: it keeps its types and its bookkeeping, and it implements        *)
(* DispatchLedger.                                                          *)
EXTENDS SequentialCheckpoint, TLAPS

(* Checkpoints.                                                             *)

LEMMA CheckpointFields ==
    ASSUME NEW cp \in Checkpoint
    PROVE  /\ cp.completed \in Seq(Nat)
           /\ Len(cp.completed) \in Nat
           /\ cp.next_input \in Nat
           /\ cp.status \in {"ready", "in_flight", "finished"}
           /\ cp = [completed |-> cp.completed, next_input |-> cp.next_input,
                    status |-> cp.status]
           /\ Len(cp.completed) <= Stages
           /\ cp.status = "finished" <=> Len(cp.completed) = Stages
           /\ cp.status # "finished" =>
                 /\ Stage(cp) \in Steps
                 /\ cp.next_input = Input(cp.completed, Stage(cp))
BY SequenceAssumption DEF Checkpoint, WellFormed, Stage, Steps

LEMMA NewFields ==
    /\ NewCheckpoint \in Checkpoint
    /\ NewCheckpoint.completed = <<>>
    /\ NewCheckpoint.status = "ready"
    /\ NoRecord \in Record
    /\ NoRecord.revision = 0
    /\ NoRecord.checkpoint = NewCheckpoint
BY SequenceAssumption
   DEF NewCheckpoint, Checkpoint, WellFormed, Input, NoRecord, Record

LEMMA InFlightFields ==
    ASSUME NEW cp \in Checkpoint, cp.status = "ready"
    PROVE  /\ InFlight(cp) \in Checkpoint
           /\ InFlight(cp).completed = cp.completed
           /\ InFlight(cp).next_input = cp.next_input
           /\ InFlight(cp).status = "in_flight"
BY CheckpointFields DEF InFlight, Checkpoint, WellFormed

LEMMA CompletedFields ==
    ASSUME NEW cp \in Checkpoint, cp.status = "in_flight", NEW x \in Nat
    PROVE  /\ Completed(cp, x) \in Checkpoint
           /\ Completed(cp, x).completed = Append(cp.completed, x)
           /\ Len(Completed(cp, x).completed) = Stage(cp)
           /\ Completed(cp, x).status # "in_flight"
           /\ Completed(cp, x).completed # <<>>
           /\ Completed(cp, x).completed[Stage(cp)] = x
<1> DEFINE n == Len(cp.completed)
           new == Completed(cp, x)
           h == Append(cp.completed, x)
<1>1. /\ cp.completed \in Seq(Nat)
      /\ n \in Nat
      /\ n < Stages
      /\ cp.next_input = Input(cp.completed, n + 1)
      /\ cp.next_input \in Nat
  BY CheckpointFields, SequenceAssumption DEF Stage, Steps
<1>2. /\ h \in Seq(Nat)
      /\ Len(h) = n + 1
      /\ h[n + 1] = x
      /\ \A i \in 1 .. n : h[i] = cp.completed[i]
  BY <1>1
<1>3. /\ new.completed = h
      /\ new.next_input = IF n + 1 = Stages THEN cp.next_input ELSE x
      /\ new.status = IF n + 1 = Stages THEN "finished" ELSE "ready"
      /\ new \in [completed : Seq(Nat), next_input : Nat,
                  status : {"ready", "in_flight", "finished"}]
  BY <1>1, <1>2 DEF Completed, Stage
<1>4. CASE n + 1 = Stages
  <2>1. Input(h, n + 1) = Input(cp.completed, n + 1)
    BY <1>1, <1>2 DEF Input
  <2>2. WellFormed(new)
    BY <2>1, <1>1, <1>2, <1>3, <1>4 DEF WellFormed
  <2> QED
    BY <2>2, <1>1, <1>2, <1>3, <1>4, SMTT(30) DEF Checkpoint, Stage
<1>5. CASE n + 1 # Stages
  <2>1. Input(h, n + 2) = x
    BY <1>1, <1>2 DEF Input
  <2>2. WellFormed(new)
    BY <2>1, <1>1, <1>2, <1>3, <1>5, SequenceAssumption DEF WellFormed
  <2> QED
    BY <2>2, <1>1, <1>2, <1>3 DEF Checkpoint, Stage
<1> QED
  BY <1>4, <1>5

-----------------------------------------------------------------------------
(* A legal commit takes nothing back: the replies stay, so do the taken     *)
(* stages, and at most the active stage changes its phase.                  *)

LEMMA LegalFields ==
    ASSUME TypeOK, store.revision = 0 => store = NoRecord,
           NEW cp \in Checkpoint, Legal(cp)
    PROVE  LET old == store.checkpoint
           IN  /\ \/ cp = old
                  \/ old.status = "ready" /\ cp = InFlight(old)
                  \/ old.status = "in_flight" /\ \E x \in Nat : cp = Completed(old, x)
               /\ Len(old.completed) <= Len(cp.completed)
               /\ \A i \in 1 .. Len(old.completed) :
                     cp.completed[i] = old.completed[i]
               /\ \A s \in Steps : Taken(old, s) => Taken(cp, s)
<1> DEFINE old == store.checkpoint
           n == Len(old.completed)
<1>1. old \in Checkpoint
  BY DEF TypeOK, Record
<1>2. /\ old.completed \in Seq(Nat)
      /\ n \in Nat
  BY <1>1, CheckpointFields
<1>3. CASE store.revision = 0 /\ cp = NewCheckpoint
  BY <1>2, <1>3, NewFields
<1>4. CASE old.status = "ready" /\ cp = InFlight(old)
  BY <1>1, <1>2, <1>4, InFlightFields DEF Taken
<1>5. CASE /\ old.status = "in_flight"
           /\ cp.completed # <<>>
           /\ cp = Completed(old, cp.completed[Len(cp.completed)])
  <2> DEFINE x == cp.completed[Len(cp.completed)]
  <2>1. x \in Nat
    BY <1>5, CheckpointFields
  <2>2. cp.completed = Append(old.completed, x) /\ Len(cp.completed) = n + 1
    BY <1>1, <1>5, <2>1, CompletedFields DEF Stage
  <2>3. \A i \in 1 .. n : cp.completed[i] = old.completed[i]
    BY <1>2, <2>1, <2>2
  <2>4. \A s \in Steps : Taken(old, s) => Taken(cp, s)
    BY <1>2, <2>2 DEF Taken, Stage, Steps
  <2> QED
    BY <1>2, <1>5, <2>1, <2>2, <2>3, <2>4, SMTT(30)
<1> QED
  BY <1>3, <1>4, <1>5 DEF Legal

-----------------------------------------------------------------------------
(* Type correctness.  WellFormed is part of the type of a checkpoint, so    *)
(* the types hold only together with the bookkeeping.                       *)

LEMMA InvInit == Init => LedgerInv
<1> SUFFICES ASSUME Init PROVE LedgerInv
  OBVIOUS
<1>1. TypeOK
  BY NewFields, SequenceAssumption DEF Init, TypeOK, PCs
<1>2. \A s \in Steps : runs[s] = 0
  BY DEF Init
<1>3. \A c \in Callers : pc[c] = "idle" /\ record[c].revision = 0
  BY NewFields DEF Init
<1> QED
  BY <1>1, <1>2, <1>3, NewFields
     DEF Init, LedgerInv, Booked, RevisionsKnown, SavesLegal, Saving, RecordHeld,
         StageHeld, StagesApart, RunsBooked

\* What a caller works on, and what it is about to save.
LEMMA CallerTypes ==
    ASSUME LedgerInv, NEW c \in Callers
    PROVE  /\ Owner[c] \in Pipelines
           /\ record[c] \in Record
           /\ record[c].revision \in Nat
           /\ Current(c) \in Checkpoint
           /\ Saving(c) => Pending(c) \in Checkpoint
           /\ store \in Record
           /\ store.revision \in Nat
           /\ store.checkpoint \in Checkpoint
           /\ record[c] = [revision |-> record[c].revision,
                           checkpoint |-> Current(c)]
           /\ store = [revision |-> store.revision,
                       checkpoint |-> store.checkpoint]
<1>1. /\ Owner[c] \in Pipelines
      /\ record[c] \in Record
      /\ store \in Record
  BY SequenceAssumption DEF LedgerInv, TypeOK
<1>2. /\ record[c].revision \in Nat
      /\ Current(c) \in Checkpoint
      /\ store.revision \in Nat
      /\ store.checkpoint \in Checkpoint
      /\ record[c] = [revision |-> record[c].revision, checkpoint |-> Current(c)]
      /\ store = [revision |-> store.revision, checkpoint |-> store.checkpoint]
  BY <1>1 DEF Record, Current
<1>3. Saving(c) => Pending(c) \in Checkpoint
  <2>1. CASE pc[c] = "create"
    BY <2>1, NewFields DEF Pending
  <2>2. CASE pc[c] = "claim"
    <3>1. Current(c).status = "ready"
      BY <2>2 DEF LedgerInv, Booked, RecordHeld
    <3> QED
      BY <2>2, <3>1, <1>2, InFlightFields DEF Pending
  <2>3. CASE pc[c] \notin {"create", "claim"}
    BY <2>3, <1>2 DEF Pending
  <2> QED
    BY <2>1, <2>2, <2>3
<1> QED
  BY <1>1, <1>2, <1>3

\* The registers of a caller that returns, and those of one that moves on.
LEMMA ReleaseType ==
    ASSUME TypeOK, NEW c \in Callers, Release(c)
    PROVE  /\ pc' \in [Callers -> PCs]
           /\ guard' \in [Pipelines -> Callers \cup {NoCaller}]
           /\ record' \in [Callers -> Record]
           /\ pc' = [pc EXCEPT ![c] = "idle"]
           /\ record' = [record EXCEPT ![c] = NoRecord]
BY NewFields DEF TypeOK, Release, Goto, PCs

\* A commit of a checkpoint that is legal when its revision is current.
LEMMA CommitsType ==
    ASSUME LedgerInv, NEW e \in Nat, NEW cp \in Checkpoint, Commits(e, cp)
    PROVE  /\ store.revision = e
           /\ store' \in Record
           /\ store'.revision = store.revision + 1
           /\ store'.checkpoint = cp
BY DEF Commits, Record

\* The three ways in which a caller of execute_checkpointed saves.
LEMMA SaveLegal ==
    ASSUME LedgerInv, NEW c \in Callers, Saving(c), SaveSucceeds(c)
    PROVE  /\ Pending(c) \in Checkpoint
           /\ Legal(Pending(c))
           /\ store.revision = record[c].revision
           /\ store' \in Record
           /\ store'.revision = store.revision + 1
           /\ store'.checkpoint = Pending(c)
<1>1. Pending(c) \in Checkpoint /\ record[c].revision \in Nat
  BY CallerTypes
<1>2. /\ store.revision = record[c].revision
      /\ store' \in Record
      /\ store'.revision = store.revision + 1
      /\ store'.checkpoint = Pending(c)
  BY <1>1, CommitsType DEF SaveSucceeds
<1> QED
  BY <1>1, <1>2 DEF LedgerInv, Booked, SavesLegal

LEMMA OrphanLegal ==
    ASSUME LedgerInv, NEW w \in orphans, OrphanCommits(w)
    PROVE  /\ w.checkpoint \in Checkpoint
           /\ Legal(w.checkpoint)
           /\ store' \in Record
           /\ store'.revision = store.revision + 1
           /\ store'.checkpoint = w.checkpoint
<1>1. w.checkpoint \in Checkpoint /\ w.base \in Nat
  BY DEF LedgerInv, TypeOK
<1>2. /\ store.revision = w.base
      /\ store' \in Record
      /\ store'.revision = store.revision + 1
      /\ store'.checkpoint = w.checkpoint
  BY <1>1, CommitsType DEF OrphanCommits
<1> QED
  BY <1>1, <1>2 DEF LedgerInv, Booked, SavesLegal

\* All that a step can do to the store.
StoreMoves ==
    /\ store'.checkpoint \in Checkpoint
    /\ Legal(store'.checkpoint)
    /\ store' \in Record
    /\ store'.revision = store.revision + 1

-----------------------------------------------------------------------------
(* The bookkeeping of one caller, and what a step of another leaves of it.  *)

CallerInv(c) ==
    /\ record[c].revision <= store.revision
    /\ Saving(c) /\ record[c].revision = store.revision => Legal(Pending(c))
    /\ RecordHeld(c)
    /\ StageHeld(c)

OrphanInv ==
    \A w \in orphans :
        /\ w.base <= store.revision
        /\ w.base = store.revision => Legal(w.checkpoint)

FirstRevision == store.revision = 0 => store = NoRecord

LEMMA Parts ==
    Booked <=> /\ FirstRevision
               /\ \A c \in Callers : CallerInv(c)
               /\ OrphanInv
               /\ StagesApart
               /\ RunsBooked
BY DEF Booked, FirstRevision, CallerInv, OrphanInv, RevisionsKnown, SavesLegal

\* A caller that is idle knows nothing.
LEMMA IdleCaller ==
    ASSUME NEW c \in Callers, pc'[c] = "idle", record'[c] = NoRecord,
           store' \in Record
    PROVE  CallerInv(c)'
<1>1. record'[c].revision = 0 /\ store'.revision \in Nat
  BY NewFields DEF Record
<1> QED
  BY <1>1 DEF CallerInv, Saving, RecordHeld, StageHeld

\* A caller that does not move, while the store stays.
LEMMA QuietCaller ==
    ASSUME LedgerInv, store' = store,
           NEW c \in Callers, pc'[c] = pc[c], record'[c] = record[c],
           pc[c] = "dispatch" =>
              runs'[Stage(Current(c))] = runs[Stage(Current(c))]
    PROVE  CallerInv(c)'
<1>1. CallerInv(c)
  BY Parts DEF LedgerInv
<1>2. /\ Current(c)' = Current(c)
      /\ Pending(c)' = Pending(c)
      /\ Saving(c)' <=> Saving(c)
      /\ Legal(Pending(c))' <=> Legal(Pending(c))
  BY DEF Current, Pending, Saving, Legal
<1> QED
  BY <1>1, <1>2 DEF CallerInv, RecordHeld, StageHeld

\* Whatever the input of a taken stage was, it stays.
LEMMA InputStays ==
    ASSUME LedgerInv, StoreMoves, NEW s \in Steps, Taken(store.checkpoint, s)
    PROVE  /\ Taken(store'.checkpoint, s)
           /\ Input(store'.checkpoint.completed, s) = Input(store.checkpoint.completed, s)
<1> DEFINE old == store.checkpoint
           new == store'.checkpoint
<1>1. /\ \A i \in 1 .. Len(old.completed) : new.completed[i] = old.completed[i]
      /\ Taken(new, s)
  BY Parts, LegalFields DEF StoreMoves, LedgerInv, FirstRevision
<1>2. Len(old.completed) \in Nat
  BY CheckpointFields DEF LedgerInv, TypeOK, Record
<1>3. s = 1 \/ s - 1 \in 1 .. Len(old.completed)
  BY <1>2 DEF Taken, Stage, Steps
<1> QED
  BY <1>1, <1>3 DEF Input

\* A caller that does not move, while another one commits.
LEMMA OvertakenCaller ==
    ASSUME LedgerInv, StoreMoves, runs' = runs,
           NEW c \in Callers, pc'[c] = pc[c], record'[c] = record[c]
    PROVE  CallerInv(c)'
<1>1. CallerInv(c)
  BY Parts DEF LedgerInv
<1>2. Current(c)' = Current(c)
  BY DEF Current
<1>3. /\ record'[c].revision < store'.revision
      /\ record'[c].revision \in Nat
      /\ store'.revision \in Nat
      /\ record'[c].revision # store'.revision
  <2>1. /\ record[c].revision \in Nat
        /\ store.revision \in Nat
        /\ record[c].revision <= store.revision
    BY <1>1, CallerTypes DEF CallerInv
  <2>2. store'.revision = store.revision + 1
    BY DEF StoreMoves
  <2> QED
    BY <2>1, <2>2
<1>4. RecordHeld(c)'
  BY <1>1, <1>2, <1>3 DEF CallerInv, RecordHeld
<1>5. StageHeld(c)'
  <2> SUFFICES ASSUME pc[c] = "dispatch"
               PROVE  /\ Taken(store'.checkpoint, Stage(Current(c)))
                      /\ runs[Stage(Current(c))] = 0
                      /\ Current(c).next_input =
                            Input(store'.checkpoint.completed, Stage(Current(c)))
    BY <1>2 DEF StageHeld
  <2>1. Stage(Current(c)) \in Steps
    BY <1>1, CallerTypes, CheckpointFields DEF CallerInv, RecordHeld
  <2> QED
    BY <1>1, <2>1, InputStays DEF CallerInv, StageHeld
<1> QED
  BY <1>3, <1>4, <1>5 DEF CallerInv

\* What stays for the rest of the system when one caller moves.
LEMMA Frame ==
    ASSUME LedgerInv, store' = store \/ StoreMoves, orphans' \subseteq orphans,
           runs' = runs
    PROVE  /\ FirstRevision'
           /\ OrphanInv'
           /\ RunsBooked'
           /\ \A c \in Callers :
                 pc'[c] = pc[c] /\ record'[c] = record[c] => CallerInv(c)'
<1>0. /\ FirstRevision /\ OrphanInv /\ RunsBooked
      /\ store.revision \in Nat
      /\ runs \in [Steps -> Nat]
  BY Parts DEF LedgerInv, TypeOK, Record
<1>1. CASE store' = store
  <2>1. FirstRevision' /\ RunsBooked'
    BY <1>0, <1>1 DEF FirstRevision, RunsBooked
  <2>2. \A w \in orphans : Legal(w.checkpoint)' <=> Legal(w.checkpoint)
    BY <1>1 DEF Legal
  <2>3. OrphanInv'
    BY <1>0, <1>1, <2>2 DEF OrphanInv
  <2> QED
    BY <1>1, <2>1, <2>3, QuietCaller
<1>2. CASE StoreMoves
  <2>1. FirstRevision'
    BY <1>0, <1>2 DEF FirstRevision, StoreMoves
  <2>2. RunsBooked'
    BY <1>0, <1>2, InputStays DEF RunsBooked
  <2>3. \A w \in orphans' : w.base \in Nat /\ w.base <= store.revision
    BY <1>0 DEF OrphanInv, LedgerInv, TypeOK
  <2>4. OrphanInv'
    BY <1>0, <1>2, <2>3 DEF OrphanInv, StoreMoves
  <2> QED
    BY <1>2, <2>1, <2>2, <2>4, OvertakenCaller
<1> QED
  BY <1>1, <1>2

LEMMA StillApart ==
    ASSUME LedgerInv,
           \A c \in Callers : pc'[c] = "dispatch" =>
              pc[c] = "dispatch" /\ record'[c] = record[c]
    PROVE  StagesApart'
BY Parts DEF LedgerInv, StagesApart, Current

-----------------------------------------------------------------------------
(* One step per action.                                                     *)

\* Everybody else stands still.
OnlyMoves(c) ==
    \A d \in Callers \ {c} : pc'[d] = pc[d] /\ record'[d] = record[d]

LEMMA OneMoves ==
    ASSUME LedgerInv, NEW c \in Callers, OnlyMoves(c),
           store' = store \/ StoreMoves, orphans' \subseteq orphans, runs' = runs,
           CallerInv(c)', StagesApart'
    PROVE  Booked'
<1>1. \A d \in Callers : CallerInv(d)'
  BY Frame DEF OnlyMoves
<1>2. Booked' <=> /\ FirstRevision'
                  /\ \A d \in Callers : CallerInv(d)'
                  /\ OrphanInv'
                  /\ StagesApart'
                  /\ RunsBooked'
  BY DEF Booked, FirstRevision, CallerInv, OrphanInv, RevisionsKnown, SavesLegal
<1> QED
  BY <1>1, <1>2, Frame

\* A caller that returns.
LEMMA ReleaseStep ==
    ASSUME LedgerInv, NEW c \in Callers, Release(c),
           store' = store \/ StoreMoves, orphans' \subseteq orphans, runs' = runs
    PROVE  Booked'
<1>1. /\ pc' = [pc EXCEPT ![c] = "idle"]
      /\ record' = [record EXCEPT ![c] = NoRecord]
      /\ pc \in [Callers -> PCs]
      /\ record \in [Callers -> Record]
  BY ReleaseType DEF LedgerInv, TypeOK
<1>2. OnlyMoves(c) /\ pc'[c] = "idle" /\ record'[c] = NoRecord
  BY <1>1 DEF OnlyMoves
<1>3. store' \in Record
  BY DEF StoreMoves, LedgerInv, TypeOK
<1>4. CallerInv(c)'
  BY <1>2, <1>3, IdleCaller
<1>5. StagesApart'
  BY <1>2, StillApart DEF OnlyMoves
<1> QED
  BY <1>2, <1>4, <1>5, OneMoves

LEMMA BeginStep ==
    ASSUME LedgerInv, NEW c \in Callers, Begin(c)
    PROVE  LedgerInv'
<1>1. /\ TypeOK
      /\ CallerInv(c)
      /\ record[c] = NoRecord
      /\ pc \in [Callers -> PCs]
      /\ record \in [Callers -> Record]
      /\ store.revision \in Nat
      /\ store' = store /\ orphans' = orphans /\ runs' = runs
  BY Parts, CallerTypes DEF LedgerInv, Begin, CallerInv, RecordHeld, TypeOK, ghosts
<1>2. ASSUME pc' \in [Callers -> PCs], record' \in [Callers -> Record]
      PROVE  TypeOK'
  <2>1. guard' = [guard EXCEPT ![Owner[c]] = c] /\ called' = called + 1
    BY DEF Begin
  <2>2. guard \in [Pipelines -> Callers \cup {NoCaller}] /\ called \in Nat
    BY <1>1 DEF TypeOK
  <2>3. guard' \in [Pipelines -> Callers \cup {NoCaller}] /\ called' \in Nat
    <3>1. guard' \in [Pipelines -> Callers \cup {NoCaller}]
      BY <2>1, <2>2
    <3> QED
      BY <3>1, <2>1, <2>2
  <2>4. /\ nextId' = nextId /\ runs' = runs /\ inputs' = inputs
        /\ announced' = announced
    BY DEF Begin, ghosts
  <2> QED
    BY <1>1, <1>2, <2>3, <2>4 DEF TypeOK
<1>3. CASE Goto(c, "create") /\ UNCHANGED record
  <2>1. /\ pc'[c] = "create" /\ record'[c] = NoRecord /\ OnlyMoves(c)
        /\ pc' \in [Callers -> PCs]
    BY <1>1, <1>3 DEF Goto, OnlyMoves, PCs
  <2>2. TypeOK'
    BY <1>1, <1>3, <1>2, <2>1
  <2>3. Pending(c)' = NewCheckpoint
    BY <2>1 DEF Pending
  <2>4. CallerInv(c)'
    BY <1>1, <2>1, <2>3, NewFields
       DEF CallerInv, Saving, RecordHeld, StageHeld, Legal
  <2>5. StagesApart'
    BY <2>1, StillApart DEF OnlyMoves
  <2> QED
    BY <1>1, <2>1, <2>2, <2>4, <2>5, OneMoves DEF LedgerInv
<1>4. CASE Goto(c, "load") /\ UNCHANGED record
  <2>1. /\ pc'[c] = "load" /\ record'[c] = NoRecord /\ OnlyMoves(c)
        /\ pc' \in [Callers -> PCs]
    BY <1>1, <1>4 DEF Goto, OnlyMoves, PCs
  <2>2. TypeOK'
    BY <1>1, <1>4, <1>2, <2>1
  <2>3. CallerInv(c)'
    BY <1>1, <2>1, NewFields DEF CallerInv, Saving, RecordHeld, StageHeld
  <2>4. StagesApart'
    BY <2>1, StillApart DEF OnlyMoves
  <2> QED
    BY <1>1, <2>1, <2>2, <2>3, <2>4, OneMoves DEF LedgerInv
<1>5. ASSUME Goto(c, "inspect"), NEW e \in 1 .. store.revision,
             record' = [record EXCEPT ![c].revision = e]
      PROVE  LedgerInv'
  <2>1. /\ pc'[c] = "inspect" /\ OnlyMoves(c)
        /\ pc' \in [Callers -> PCs]
        /\ record'[c] = [record[c] EXCEPT !.revision = e]
    BY <1>1, <1>5 DEF Goto, OnlyMoves, PCs
  <2>2. e \in Nat /\ e <= store.revision
    BY <1>1
  <2>3. record'[c] \in Record /\ record'[c].revision = e
    BY <1>1, <2>1, <2>2 DEF Record
  <2>4. record' \in [Callers -> Record]
    BY <1>1, <1>5, <2>1, <2>3
  <2>5. TypeOK'
    BY <1>2, <2>1, <2>4
  <2>6. CallerInv(c)'
    BY <1>1, <2>1, <2>2, <2>3 DEF CallerInv, Saving, RecordHeld, StageHeld
  <2>7. StagesApart'
    BY <2>1, StillApart DEF OnlyMoves
  <2> QED
    BY <1>1, <2>1, <2>5, <2>6, <2>7, OneMoves DEF LedgerInv
<1> QED
  BY <1>3, <1>4, <1>5 DEF Begin

\* What the actions of a caller that neither begins nor returns have in common.
LEMMA WorkStep ==
    ASSUME LedgerInv, NEW c \in Callers, NEW r \in Record, NEW where \in PCs,
           Goto(c, where), record' = [record EXCEPT ![c] = r],
           store' = store \/ StoreMoves, orphans' = orphans,
           guard' = guard, called' = called, nextId' \in Nat \ {0},
           runs' = runs, inputs' = inputs, announced' \subseteq [stage : Steps, reply : Nat],
           where # "dispatch",
           r.revision <= store'.revision,
           Current(c)' = r.checkpoint /\ Saving(c)' /\ r.revision = store'.revision
              => Legal(Pending(c))',
           Current(c)' = r.checkpoint => RecordHeld(c)'
    PROVE  LedgerInv'
<1>1. /\ TypeOK
      /\ pc \in [Callers -> PCs]
      /\ record \in [Callers -> Record]
  BY DEF LedgerInv, TypeOK
<1>2. /\ pc' \in [Callers -> PCs]
      /\ pc'[c] = where
      /\ record' \in [Callers -> Record]
      /\ record'[c] = r
      /\ OnlyMoves(c)
  BY <1>1 DEF Goto, OnlyMoves
<1>3. store' \in Record
  BY <1>1 DEF StoreMoves, TypeOK
<1>4. TypeOK'
  BY <1>1, <1>2, <1>3 DEF TypeOK
<1>5. CallerInv(c)'
  BY <1>2 DEF CallerInv, StageHeld, Current
<1>6. StagesApart'
  BY <1>2, StillApart DEF OnlyMoves
<1> QED
  BY <1>2, <1>4, <1>5, <1>6, OneMoves DEF LedgerInv

\* run_checkpointed and resume_checkpointed hand a ready record to the loop.
LEMMA ToClaim ==
    ASSUME LedgerInv, NEW c \in Callers, Goto(c, "claim"),
           record' = [record EXCEPT ![c] = store'],
           store' = store \/ StoreMoves, store'.checkpoint.status = "ready",
           orphans' = orphans, guard' = guard, called' = called, nextId' = nextId,
           runs' = runs, inputs' = inputs, announced' \subseteq [stage : Steps, reply : Nat]
    PROVE  LedgerInv'
<1>1. store' \in Record /\ store'.revision \in Nat /\ "claim" \in PCs
  BY CallerTypes DEF StoreMoves, Record, PCs
<1>2. pc'[c] = "claim" /\ nextId \in Nat \ {0}
  <2>1. pc \in [Callers -> PCs] /\ nextId \in Nat \ {0}
    BY DEF LedgerInv, TypeOK
  <2> QED
    BY <2>1 DEF Goto
<1>3. ASSUME Current(c)' = store'.checkpoint
      PROVE  Legal(Pending(c))' /\ RecordHeld(c)'
  BY <1>2, <1>3 DEF Legal, Pending, RecordHeld
<1>4. store'.revision <= store'.revision /\ nextId' \in Nat \ {0}
  BY <1>1, <1>2
<1> DEFINE r == store'
<1>5. /\ Current(c)' = r.checkpoint /\ Saving(c)' /\ r.revision = store'.revision
         => Legal(Pending(c))'
      /\ Current(c)' = r.checkpoint => RecordHeld(c)'
  BY <1>3
<1> QED
  BY <1>1, <1>4, <1>5, WorkStep, Zenon

LEMMA CreateStep ==
    ASSUME LedgerInv, NEW c \in Callers, Create(c)
    PROVE  LedgerInv'
<1>1. Saving(c) /\ SaveSucceeds(c) /\ Pending(c) = NewCheckpoint
  BY DEF Create, Saving, Pending
<1>2. StoreMoves /\ store'.checkpoint.status = "ready"
  BY <1>1, SaveLegal, NewFields DEF StoreMoves
<1>3. announced \subseteq [stage : Steps, reply : Nat]
  BY DEF LedgerInv, TypeOK
<1> QED
  BY <1>2, <1>3, ToClaim DEF Create, ghosts

LEMMA ResumeStep ==
    ASSUME LedgerInv, NEW c \in Callers, Resume(c)
    PROVE  LedgerInv'
<1>1. announced \subseteq [stage : Steps, reply : Nat]
  BY DEF LedgerInv, TypeOK
<1> QED
  BY <1>1, ToClaim DEF Resume, ghosts

\* A caller that returns keeps the types, too.
LEMMA ReleaseInv ==
    ASSUME LedgerInv, NEW c \in Callers, Release(c),
           store' = store \/ StoreMoves, orphans' \subseteq orphans,
           called' = called, nextId' = nextId, runs' = runs, inputs' = inputs,
           announced' \subseteq [stage : Steps, reply : Nat]
    PROVE  LedgerInv'
<1>1. TypeOK
  BY DEF LedgerInv
<1>2. /\ pc' \in [Callers -> PCs]
      /\ guard' \in [Pipelines -> Callers \cup {NoCaller}]
      /\ record' \in [Callers -> Record]
  BY <1>1, ReleaseType
<1>3. store' \in Record
  BY <1>1 DEF StoreMoves, TypeOK
<1>4. TypeOK'
  BY <1>1, <1>2, <1>3 DEF TypeOK
<1> QED
  BY <1>4, ReleaseStep DEF LedgerInv

LEMMA AnnounceType ==
    ASSUME LedgerInv, NEW c \in Callers, pc[c] \in {"settle", "record"},
           Announce(Current(c))
    PROVE  announced' \subseteq [stage : Steps, reply : Nat]
<1> DEFINE cp == Current(c)
<1>1. cp \in Checkpoint /\ cp.completed # <<>>
  BY Parts, CallerTypes DEF LedgerInv, CallerInv, RecordHeld
<1>2. Len(cp.completed) \in Steps /\ cp.completed[Len(cp.completed)] \in Nat
  BY <1>1, CheckpointFields DEF Steps
<1> QED
  BY <1>2 DEF Announce, LedgerInv, TypeOK

LEMMA ReturningSteps ==
    ASSUME LedgerInv, NEW c \in Callers,
           Refuse(c) \/ Settle(c) \/ StageFails(c) \/ SaveFails(c)
    PROVE  LedgerInv'
<1>1. announced \subseteq [stage : Steps, reply : Nat]
  BY DEF LedgerInv, TypeOK
<1>2. CASE Refuse(c) \/ StageFails(c)
  BY <1>1, <1>2, ReleaseInv DEF Refuse, StageFails, ghosts
<1>3. CASE Settle(c)
  <2>1. Saving(c) /\ SaveSucceeds(c)
    BY <1>3 DEF Settle, Saving
  <2>2. StoreMoves
    BY <2>1, SaveLegal DEF StoreMoves
  <2>3. announced' \subseteq [stage : Steps, reply : Nat]
    BY <1>3, AnnounceType DEF Settle
  <2> QED
    BY <1>3, <2>2, <2>3, ReleaseInv DEF Settle
<1>4. CASE SaveFails(c)
  <2>1. store' = store \/ StoreMoves
    BY <1>4, SaveLegal DEF SaveFails, StoreMoves
  <2> QED
    BY <1>1, <1>4, <2>1, ReleaseInv DEF SaveFails, ghosts
<1> QED
  BY <1>2, <1>3, <1>4

LEMMA InspectStep ==
    ASSUME LedgerInv, NEW c \in Callers, Inspect(c)
    PROVE  LedgerInv'
<1> DEFINE new == Completed(store.checkpoint, nextId)
           r == [record[c] EXCEPT !.checkpoint = new]
<1>1. /\ store.revision = record[c].revision
      /\ store.checkpoint \in Checkpoint
      /\ store.checkpoint.status = "in_flight"
      /\ record[c] \in Record
      /\ record[c].revision \in Nat
      /\ nextId \in Nat \ {0}
      /\ pc \in [Callers -> PCs]
      /\ announced \subseteq [stage : Steps, reply : Nat]
  BY CallerTypes DEF Inspect, LedgerInv, TypeOK
<1>2. /\ new \in Checkpoint
      /\ new.status # "in_flight"
      /\ new.completed # <<>>
      /\ new = Completed(store.checkpoint, new.completed[Len(new.completed)])
  <2>1. nextId \in Nat
    BY <1>1
  <2> QED
    BY <1>1, <2>1, CompletedFields
<1>3. /\ r \in Record
      /\ r.revision = store.revision
      /\ r.checkpoint = new
      /\ record' = [record EXCEPT ![c] = r]
  BY <1>1, <1>2 DEF Inspect, Record
<1>4. pc'[c] = "settle" /\ Goto(c, "settle") /\ "settle" \in PCs
  BY <1>1 DEF Inspect, Goto, PCs
<1>5. /\ store' = store /\ orphans' = orphans /\ guard' = guard
      /\ called' = called /\ runs' = runs /\ inputs' = inputs
      /\ announced' = announced /\ nextId' = nextId + 1
  BY DEF Inspect, ghosts
<1>6. ASSUME Current(c)' = r.checkpoint
      PROVE  Legal(Pending(c))' /\ RecordHeld(c)'
  <2>1. Pending(c)' = new
    BY <1>3, <1>4, <1>6 DEF Pending
  <2> QED
    BY <1>1, <1>2, <1>3, <1>4, <1>5, <1>6, <2>1 DEF Legal, RecordHeld
<1>7. r.revision <= store'.revision /\ nextId' \in Nat \ {0}
  BY <1>1, <1>3, <1>5
<1>8. /\ Current(c)' = r.checkpoint /\ Saving(c)' /\ r.revision = store'.revision
         => Legal(Pending(c))'
      /\ Current(c)' = r.checkpoint => RecordHeld(c)'
  BY <1>6
<1>9. announced' \subseteq [stage : Steps, reply : Nat]
  BY <1>1, <1>5
<1> HIDE DEF r
<1> QED
  BY <1>3, <1>4, <1>5, <1>7, <1>8, <1>9, WorkStep, Zenon

LEMMA StageRepliesStep ==
    ASSUME LedgerInv, NEW c \in Callers, StageReplies(c)
    PROVE  LedgerInv'
<1> DEFINE new == Completed(Current(c), nextId)
           r == [record[c] EXCEPT !.checkpoint = new]
<1>1. /\ pc[c] = "running"
      /\ CallerInv(c)
      /\ Current(c) \in Checkpoint
      /\ record[c] \in Record
      /\ record[c].revision \in Nat
      /\ nextId \in Nat \ {0}
      /\ pc \in [Callers -> PCs]
      /\ announced \subseteq [stage : Steps, reply : Nat]
  BY Parts, CallerTypes DEF StageReplies, LedgerInv, TypeOK
<1>2. /\ Current(c).status = "in_flight"
      /\ record[c].revision = store.revision => Current(c) = store.checkpoint
      /\ record[c].revision <= store.revision
  BY <1>1 DEF CallerInv, RecordHeld
<1>3. /\ new \in Checkpoint
      /\ new.status # "in_flight"
      /\ new.completed # <<>>
      /\ new = Completed(Current(c), new.completed[Len(new.completed)])
  <2>1. nextId \in Nat
    BY <1>1
  <2> QED
    BY <1>1, <1>2, <2>1, CompletedFields
<1>4. /\ r \in Record
      /\ r.revision = record[c].revision
      /\ r.checkpoint = new
      /\ record' = [record EXCEPT ![c] = r]
  BY <1>1, <1>3 DEF StageReplies, Record, Current
<1>5. pc'[c] = "record" /\ Goto(c, "record") /\ "record" \in PCs
  BY <1>1 DEF StageReplies, Goto, PCs
<1>6. /\ store' = store /\ orphans' = orphans /\ guard' = guard
      /\ called' = called /\ runs' = runs /\ inputs' = inputs
      /\ announced' = announced /\ nextId' = nextId + 1
  BY DEF StageReplies, ghosts
<1>7. ASSUME Current(c)' = r.checkpoint
      PROVE  RecordHeld(c)' /\ (r.revision = store'.revision => Legal(Pending(c))')
  <2>1. Pending(c)' = new
    BY <1>4, <1>5, <1>7 DEF Pending
  <2> QED
    BY <1>2, <1>3, <1>4, <1>5, <1>6, <1>7, <2>1 DEF Legal, RecordHeld
<1>8. r.revision <= store'.revision /\ nextId' \in Nat \ {0}
  BY <1>1, <1>2, <1>4, <1>6
<1>9. /\ Current(c)' = r.checkpoint /\ Saving(c)' /\ r.revision = store'.revision
         => Legal(Pending(c))'
      /\ Current(c)' = r.checkpoint => RecordHeld(c)'
      /\ announced' \subseteq [stage : Steps, reply : Nat]
  BY <1>1, <1>6, <1>7
<1> HIDE DEF r
<1> QED
  BY <1>4, <1>5, <1>6, <1>8, <1>9, WorkStep, Zenon

LEMMA CommitStep ==
    ASSUME LedgerInv, NEW c \in Callers, Commit(c)
    PROVE  LedgerInv'
<1>1. /\ pc[c] = "record"
      /\ Saving(c)
      /\ SaveSucceeds(c)
      /\ Pending(c) = Current(c)
  BY DEF Commit, Saving, Pending
<1>2. StoreMoves /\ store'.checkpoint = Current(c)
  BY <1>1, SaveLegal DEF StoreMoves
<1>3. announced' \subseteq [stage : Steps, reply : Nat]
  BY <1>1, AnnounceType DEF Commit
<1>4. CASE Current(c).status = "finished"
  BY <1>2, <1>3, <1>4, ReleaseInv DEF Commit
<1>5. CASE Current(c).status # "finished"
  <2>1. Current(c).status = "ready"
    BY <1>1, <1>5, Parts, CallerTypes, CheckpointFields
       DEF LedgerInv, CallerInv, RecordHeld
  <2> QED
    BY <1>2, <1>3, <1>5, <2>1, ToClaim DEF Commit
<1> QED
  BY <1>4, <1>5

\* The committed stage was open: nobody has run it, nobody else holds it.
LEMMA ClaimStep ==
    ASSUME LedgerInv, NEW c \in Callers, Claim(c)
    PROVE  LedgerInv'
<1> DEFINE old == store.checkpoint
           new == store'.checkpoint
<1>1. /\ pc[c] = "claim"
      /\ Saving(c)
      /\ SaveSucceeds(c)
      /\ Pending(c) = InFlight(Current(c))
      /\ CallerInv(c)
      /\ Current(c) \in Checkpoint
      /\ old \in Checkpoint
  BY Parts, CallerTypes DEF Claim, Saving, Pending, LedgerInv
<1>2. StoreMoves /\ new = InFlight(Current(c)) /\ Legal(new)
  BY <1>1, SaveLegal DEF StoreMoves
<1>3. new.status = "in_flight" /\ new \in Checkpoint
  BY <1>1, <1>2, InFlightFields DEF CallerInv, RecordHeld
<1>4. old.status = "ready" /\ new = InFlight(old)
  <2>1. new # NewCheckpoint
    BY <1>3, NewFields
  <2>2. ASSUME old.status = "in_flight", new.completed # <<>>,
               new = Completed(old, new.completed[Len(new.completed)])
        PROVE  FALSE
    <3>1. new.completed[Len(new.completed)] \in Nat
      BY <1>3, <2>2, CheckpointFields
    <3> QED
      BY <1>1, <1>3, <2>2, <3>1, CompletedFields
  <2> QED
    BY <1>2, <2>1, <2>2 DEF Legal
<1>5. /\ Stage(new) = Stage(old)
      /\ Stage(new) \in Steps
      /\ new.next_input = Input(new.completed, Stage(new))
      /\ ~Taken(old, Stage(old))
      /\ Taken(new, Stage(new))
  BY <1>1, <1>3, <1>4, InFlightFields, CheckpointFields DEF Taken, Stage
<1>6. /\ pc'[c] = "dispatch"
      /\ record'[c] = store'
      /\ OnlyMoves(c)
      /\ pc' \in [Callers -> PCs]
      /\ record' \in [Callers -> Record]
  <2>1. /\ pc \in [Callers -> PCs]
        /\ record \in [Callers -> Record]
        /\ "dispatch" \in PCs
        /\ store' \in Record
    BY <1>2 DEF LedgerInv, TypeOK, PCs, StoreMoves
  <2>2. pc' = [pc EXCEPT ![c] = "dispatch"] /\ record' = [record EXCEPT ![c] = store']
    BY DEF Claim, Goto
  <2> QED
    BY <2>1, <2>2 DEF OnlyMoves
<1>7. TypeOK'
  BY <1>2, <1>6 DEF Claim, StoreMoves, LedgerInv, TypeOK, ghosts
<1>8. runs' = runs /\ runs[Stage(new)] = 0
  BY <1>5, Parts DEF Claim, ghosts, LedgerInv, RunsBooked
<1>9. CallerInv(c)'
  <2>1. Current(c)' = new
    BY <1>6 DEF Current
  <2>2. store'.revision \in Nat
    BY <1>2 DEF StoreMoves, Record
  <2> QED
    BY <1>3, <1>5, <1>6, <1>8, <2>1, <2>2
       DEF CallerInv, Saving, RecordHeld, StageHeld
<1>10. StagesApart'
  <2> SUFFICES ASSUME NEW d \in Callers, NEW e \in Callers,
                      pc'[d] = "dispatch", pc'[e] = "dispatch", d # e
               PROVE  Stage(Current(d))' # Stage(Current(e))'
    BY DEF StagesApart
  <2>1. \A f \in Callers \ {c} : /\ pc'[f] = pc[f]
                                 /\ Current(f)' = Current(f)
                                 /\ Stage(Current(f))' = Stage(Current(f))
    BY <1>6 DEF OnlyMoves, Current, Stage
  <2>2. Stage(Current(c))' = Stage(old)
    BY <1>5, <1>6 DEF Current, Stage
  <2>3. \A f \in Callers \ {c} : pc'[f] = "dispatch" => Stage(Current(f)) # Stage(old)
    BY <1>5, <2>1, Parts DEF LedgerInv, CallerInv, StageHeld
  <2>4. CASE d # c /\ e # c
    BY <2>1, <2>4, Parts DEF LedgerInv, StagesApart
  <2>5. CASE d = c \/ e = c
    BY <2>1, <2>2, <2>3, <2>5
  <2> QED
    BY <2>4, <2>5
<1> QED
  BY <1>2, <1>6, <1>7, <1>8, <1>9, <1>10, OneMoves DEF Claim, LedgerInv

\* The agent is called for a stage that nobody else holds.
LEMMA DispatchStep ==
    ASSUME LedgerInv, NEW c \in Callers, Dispatch(c)
    PROVE  LedgerInv'
<1> DEFINE s == Stage(Current(c))
<1>1. /\ pc[c] = "dispatch"
      /\ CallerInv(c)
      /\ Current(c) \in Checkpoint
      /\ TypeOK
      /\ store' = store /\ orphans' = orphans /\ record' = record
  BY Parts, CallerTypes DEF Dispatch, LedgerInv
<1>2. /\ s \in Steps
      /\ Current(c).next_input \in Nat
      /\ runs[s] = 0
      /\ Taken(store.checkpoint, s)
  BY <1>1, CheckpointFields DEF CallerInv, RecordHeld, StageHeld
<1>3. /\ runs' = [runs EXCEPT ![s] = runs[s] + 1]
      /\ inputs' = inputs \cup {[stage |-> s, input |-> Current(c).next_input]}
      /\ pc' = [pc EXCEPT ![c] = "running"]
  BY DEF Dispatch, Goto
<1>4. /\ runs \in [Steps -> Nat] /\ inputs \subseteq [stage : Steps, input : Nat]
      /\ pc \in [Callers -> PCs] /\ "running" \in PCs
  BY <1>1 DEF TypeOK, PCs
<1>5. /\ runs' \in [Steps -> Nat]
      /\ inputs' \subseteq [stage : Steps, input : Nat]
      /\ pc' \in [Callers -> PCs]
      /\ pc'[c] = "running"
      /\ OnlyMoves(c)
  BY <1>1, <1>2, <1>3, <1>4 DEF OnlyMoves
<1>6. TypeOK'
  BY <1>1, <1>5 DEF Dispatch, TypeOK
<1>7. CallerInv(c)'
  BY <1>1, <1>5 DEF CallerInv, Saving, RecordHeld, StageHeld, Current
<1>8. ASSUME NEW d \in Callers \ {c}
      PROVE  CallerInv(d)'
  <2>1. pc[d] = "dispatch" => Stage(Current(d)) \in Steps /\ Stage(Current(d)) # s
    BY <1>1, Parts, CallerTypes, CheckpointFields
       DEF LedgerInv, StagesApart, CallerInv, RecordHeld
  <2>2. pc[d] = "dispatch" => runs'[Stage(Current(d))] = runs[Stage(Current(d))]
    BY <1>3, <1>4, <2>1
  <2> QED
    BY <1>1, <1>5, <2>2, QuietCaller DEF OnlyMoves
<1>9. StagesApart'
  BY <1>1, <1>5, StillApart DEF OnlyMoves
<1>10. RunsBooked'
  BY <1>1, <1>2, <1>3, <1>4, Parts DEF LedgerInv, RunsBooked
<1>11. FirstRevision' /\ OrphanInv'
  <2>1. FirstRevision /\ OrphanInv
    BY Parts DEF LedgerInv
  <2>2. \A w \in orphans : Legal(w.checkpoint)' <=> Legal(w.checkpoint)
    BY <1>1 DEF Legal
  <2> QED
    BY <1>1, <2>1, <2>2 DEF FirstRevision, OrphanInv
<1>12. \A d \in Callers : CallerInv(d)'
  BY <1>7, <1>8
<1> QED
  BY <1>6, <1>9, <1>10, <1>11, <1>12
     DEF LedgerInv, Booked, FirstRevision, CallerInv, OrphanInv, RevisionsKnown, SavesLegal

\* The save of a dropped future is as legal as its caller was.
LEMMA DropStep ==
    ASSUME LedgerInv, NEW c \in Callers, Drop(c)
    PROVE  LedgerInv'
<1>1. /\ TypeOK /\ OrphanInv /\ FirstRevision /\ RunsBooked /\ StagesApart
      /\ CallerInv(c)
      /\ Release(c)
      /\ store' = store /\ nextId' = nextId /\ called' = called
      /\ runs' = runs /\ inputs' = inputs /\ announced' = announced
  BY Parts DEF LedgerInv, Drop, ghosts
<1> DEFINE w == [pipeline |-> Owner[c], base |-> record[c].revision,
                 checkpoint |-> Pending(c)]
<1>2. orphans' = orphans \/ (Saving(c) /\ orphans' = orphans \cup {w})
  BY DEF Drop
<1>3. CASE orphans' = orphans
  BY <1>1, <1>3, ReleaseInv DEF TypeOK
<1>4. CASE Saving(c) /\ orphans' = orphans \cup {w}
  <2>1. /\ Owner[c] \in Pipelines
        /\ record[c].revision \in Nat
        /\ Pending(c) \in Checkpoint
    BY <1>4, CallerTypes
  <2>2. /\ w.base = record[c].revision
        /\ w.checkpoint = Pending(c)
        /\ w \in [pipeline : Pipelines, base : Nat, checkpoint : Checkpoint]
    BY <2>1
  <2>3. w.base <= store.revision /\ (w.base = store.revision => Legal(w.checkpoint))
    BY <1>1, <1>4, <2>2 DEF CallerInv
  <2>4. OrphanInv'
    <3>1. \A v \in orphans' : Legal(v.checkpoint)' <=> Legal(v.checkpoint)
      BY <1>1 DEF Legal
    <3>2. \A v \in orphans' : v \in orphans \/ v = w
      BY <1>4
    <3> HIDE DEF w
    <3> QED
      BY <1>1, <2>3, <3>1, <3>2 DEF OrphanInv
  <2>5. orphans' \subseteq [pipeline : Pipelines, base : Nat, checkpoint : Checkpoint]
    BY <1>1, <1>4, <2>2 DEF TypeOK
  <2>6. /\ pc' \in [Callers -> PCs]
        /\ guard' \in [Pipelines -> Callers \cup {NoCaller}]
        /\ record' \in [Callers -> Record]
        /\ pc' = [pc EXCEPT ![c] = "idle"]
        /\ record' = [record EXCEPT ![c] = NoRecord]
    BY <1>1, ReleaseType
  <2>7. TypeOK'
    BY <1>1, <2>5, <2>6 DEF TypeOK
  <2>8. /\ OnlyMoves(c) /\ pc'[c] = "idle" /\ record'[c] = NoRecord
        /\ store' \in Record
    BY <1>1, <2>6 DEF OnlyMoves, TypeOK
  <2>9. \A d \in Callers : CallerInv(d)'
    BY <1>1, <2>8, IdleCaller, QuietCaller DEF OnlyMoves
  <2>10. StagesApart'
    BY <2>8, StillApart DEF OnlyMoves
  <2>11. FirstRevision' /\ RunsBooked'
    BY <1>1 DEF FirstRevision, RunsBooked
  <2> QED
    BY <2>4, <2>7, <2>9, <2>10, <2>11
       DEF LedgerInv, Booked, FirstRevision, CallerInv, OrphanInv, RevisionsKnown, SavesLegal
<1> QED
  BY <1>2, <1>3, <1>4

\* Nobody moves, the store may.
LEMMA StandStill ==
    ASSUME LedgerInv, store' = store \/ StoreMoves, orphans' \subseteq orphans,
           pc' = pc, record' = record, guard' = guard, called' \in Nat,
           nextId' = nextId, runs' = runs, inputs' = inputs,
           announced' = announced
    PROVE  LedgerInv'
<1>1. TypeOK /\ store' \in Record
  BY DEF LedgerInv, TypeOK, StoreMoves
<1>2. TypeOK'
  BY <1>1 DEF TypeOK
<1>3. StagesApart'
  BY StillApart
<1>4. \A c \in Callers : CallerInv(c)'
  BY Frame
<1> QED
  BY <1>2, <1>3, <1>4, Frame
     DEF LedgerInv, Booked, FirstRevision, CallerInv, OrphanInv, RevisionsKnown, SavesLegal

LEMMA EnvironmentSteps ==
    ASSUME LedgerInv,
           \/ \E c \in Callers : Busy(c)
           \/ \E w \in orphans : OrphanCommits(w) \/ OrphanLost(w)
           \/ \E p \in Pipelines : Crash(p)
           \/ UNCHANGED vars
    PROVE  LedgerInv'
<1>1. called \in Nat
  BY DEF LedgerInv, TypeOK
<1>2. ASSUME NEW c \in Callers, Busy(c)
      PROVE  LedgerInv'
  BY <1>1, <1>2, StandStill DEF Busy, local, ghosts
<1>3. ASSUME NEW w \in orphans, OrphanCommits(w)
      PROVE  LedgerInv'
  <2>1. StoreMoves
    BY <1>3, OrphanLegal DEF StoreMoves
  <2> QED
    BY <1>1, <1>3, <2>1, StandStill DEF OrphanCommits, local, ghosts
<1>4. ASSUME NEW w \in orphans, OrphanLost(w)
      PROVE  LedgerInv'
  BY <1>1, <1>4, StandStill DEF OrphanLost, local, ghosts
<1>5. ASSUME NEW p \in Pipelines, Crash(p)
      PROVE  LedgerInv'
  <2>1. /\ TypeOK
        /\ store' = store /\ orphans' \subseteq orphans /\ runs' = runs
        /\ \A c \in Callers :
              \/ pc'[c] = "idle" /\ record'[c] = NoRecord
              \/ pc'[c] = pc[c] /\ record'[c] = record[c]
    BY <1>5 DEF Crash, LedgerInv, ghosts
  <2>2. /\ pc' \in [Callers -> PCs]
        /\ record' \in [Callers -> Record]
        /\ guard' \in [Pipelines -> Callers \cup {NoCaller}]
    BY <1>5, <2>1, NewFields DEF Crash, TypeOK, PCs
  <2>3. TypeOK'
    BY <1>5, <2>1, <2>2 DEF Crash, TypeOK, ghosts
  <2>4. \A c \in Callers : CallerInv(c)'
    BY <2>1, <2>3, Frame, IdleCaller DEF TypeOK
  <2>5. StagesApart'
    BY <2>1, StillApart
  <2> QED
    BY <2>1, <2>3, <2>4, <2>5, Frame
       DEF LedgerInv, Booked, FirstRevision, CallerInv, OrphanInv, RevisionsKnown, SavesLegal
<1>6. CASE UNCHANGED vars
  BY <1>1, <1>6, StandStill DEF vars
<1> QED
  BY <1>2, <1>3, <1>4, <1>5, <1>6

LEMMA InvStep == LedgerInv /\ [Next]_vars => LedgerInv'
<1> SUFFICES ASSUME LedgerInv, [Next]_vars PROVE LedgerInv'
  OBVIOUS
<1>1. ASSUME NEW c \in Callers,
             \/ Begin(c) \/ Create(c) \/ Resume(c) \/ Inspect(c)
             \/ Refuse(c) \/ Settle(c)
             \/ Claim(c) \/ Dispatch(c) \/ StageFails(c) \/ StageReplies(c)
             \/ Commit(c) \/ SaveFails(c) \/ Drop(c)
      PROVE  LedgerInv'
  BY <1>1, BeginStep, CreateStep, ResumeStep, InspectStep, ReturningSteps,
     ClaimStep, DispatchStep, StageRepliesStep, CommitStep, DropStep
<1> QED
  BY <1>1, EnvironmentSteps DEF Next

-----------------------------------------------------------------------------
(* Theorems.                                                                *)

\* The bookkeeping is an invariant: whatever fails, is dropped or arrives
\* late, a checkpoint whose compare-and-swap can still succeed is a legal
\* successor of the stored one, and no two callers hold the same stage.
THEOREM Bookkeeping == Spec => []LedgerInv
BY InvInit, InvStep, PTL DEF Spec

\* Every state is well typed; the type of a checkpoint includes what
\* validate_checkpoint demands of one.
THEOREM TypeCorrect == Spec => []TypeOK
<1>1. LedgerInv => TypeOK
  BY DEF LedgerInv
<1> QED
  BY <1>1, Bookkeeping, PTL

\* All that a step can do to the store.
LEMMA StoreStep ==
    ASSUME LedgerInv, [Next]_vars
    PROVE  store' = store \/ StoreMoves
<1>1. ASSUME NEW c \in Callers, Saving(c), SaveSucceeds(c)
      PROVE  StoreMoves
  BY <1>1, SaveLegal DEF StoreMoves
<1>2. ASSUME NEW c \in Callers,
             Create(c) \/ Settle(c) \/ Claim(c) \/ Commit(c) \/ SaveFails(c)
      PROVE  store' = store \/ StoreMoves
  BY <1>1, <1>2 DEF Create, Settle, Claim, Commit, SaveFails, Saving
<1>3. ASSUME NEW w \in orphans, OrphanCommits(w)
      PROVE  StoreMoves
  BY <1>3, OrphanLegal DEF StoreMoves
<1> QED
  BY <1>2, <1>3
     DEF Next, Begin, Busy, Resume, Inspect, Refuse, Dispatch, StageFails,
         StageReplies, Drop, OrphanLost, Crash, vars

\* Only Dispatch calls an agent, and only a commit announces a boundary.
LEMMA HistoryStep ==
    ASSUME LedgerInv, [Next]_vars
    PROVE  /\ \/ runs' = runs /\ inputs' = inputs
              \/ \E c \in Callers : Dispatch(c)
           /\ \/ announced' = announced
              \/ \E c \in Callers : /\ pc[c] \in {"settle", "record"}
                                    /\ SaveSucceeds(c)
                                    /\ Announce(Current(c))
<1>1. ASSUME NEW c \in Callers,
             \/ Begin(c) \/ Busy(c) \/ Create(c) \/ Resume(c) \/ Inspect(c)
             \/ Refuse(c) \/ Claim(c) \/ StageFails(c) \/ StageReplies(c)
             \/ SaveFails(c) \/ Drop(c)
      PROVE  UNCHANGED ghosts
  BY <1>1
     DEF Begin, Busy, Create, Resume, Inspect, Refuse, Claim, StageFails,
         StageReplies, SaveFails, Drop
<1>2. ASSUME NEW w \in orphans, OrphanCommits(w) \/ OrphanLost(w)
      PROVE  UNCHANGED ghosts
  BY <1>2 DEF OrphanCommits, OrphanLost
<1>3. ASSUME NEW p \in Pipelines, Crash(p)
      PROVE  UNCHANGED ghosts
  BY <1>3 DEF Crash
<1>4. ASSUME NEW c \in Callers, Settle(c) \/ Commit(c)
      PROVE  /\ runs' = runs /\ inputs' = inputs
             /\ pc[c] \in {"settle", "record"}
             /\ SaveSucceeds(c)
             /\ Announce(Current(c))
  BY <1>4 DEF Settle, Commit
<1>5. ASSUME NEW c \in Callers, Dispatch(c)
      PROVE  announced' = announced
  BY <1>5 DEF Dispatch
<1>6. UNCHANGED vars => UNCHANGED ghosts
  BY DEF vars, ghosts
<1>7. UNCHANGED ghosts =>
         runs' = runs /\ inputs' = inputs /\ announced' = announced
  BY DEF ghosts
<1> QED
  BY <1>1, <1>2, <1>3, <1>4, <1>5, <1>6, <1>7 DEF Next

\* Every agent was called with the recorded reply of its predecessor: the
\* input of a taken stage does not change any more.
THEOREM ChainHolds == Spec => []ChainIntact
<1> DEFINE Chain == \A d \in inputs :
                       /\ Taken(store.checkpoint, d.stage)
                       /\ d.input = Input(store.checkpoint.completed, d.stage)
<1>1. Init => Chain
  BY DEF Init
<1>2. LedgerInv /\ Chain /\ [Next]_vars => Chain'
  <2> SUFFICES ASSUME LedgerInv, Chain, [Next]_vars PROVE Chain'
    OBVIOUS
  <2>1. CASE inputs' = inputs
    <3>1. \A d \in inputs : d.stage \in Steps
      BY DEF LedgerInv, TypeOK
    <3>2. CASE store' = store
      BY <2>1, <3>2
    <3>3. CASE StoreMoves
      BY <2>1, <3>1, <3>3, InputStays
    <3> QED
      BY <3>2, <3>3, StoreStep
  <2>2. ASSUME NEW c \in Callers, Dispatch(c)
        PROVE  Chain'
    <3> DEFINE e == [stage |-> Stage(Current(c)), input |-> Current(c).next_input]
    <3>1. store' = store /\ inputs' = inputs \cup {e} /\ pc[c] = "dispatch"
      BY <2>2 DEF Dispatch
    <3>2. /\ Taken(store.checkpoint, e.stage)
          /\ e.input = Input(store.checkpoint.completed, e.stage)
      BY <3>1, Parts DEF LedgerInv, CallerInv, StageHeld
    <3> QED
      BY <3>1, <3>2
  <2> QED
    BY <2>1, <2>2, HistoryStep
<1>3. LedgerInv /\ Chain => ChainIntact
  <2> SUFFICES ASSUME LedgerInv, Chain, NEW d \in inputs
               PROVE  d.stage <= Stage(store.checkpoint)
    BY DEF ChainIntact
  <2>1. Len(store.checkpoint.completed) \in Nat /\ d.stage \in Nat
    BY CheckpointFields DEF LedgerInv, TypeOK, Record, Steps
  <2> QED
    BY <2>1 DEF Taken, Stage
<1> QED
  BY <1>1, <1>2, <1>3, Bookkeeping, PTL DEF Spec

\* What a caller was told stays recorded.
THEOREM AnnouncedStays == Spec => []AnnouncedIsDurable
<1>1. Init => AnnouncedIsDurable
  BY DEF Init, AnnouncedIsDurable
<1>2. LedgerInv /\ AnnouncedIsDurable /\ [Next]_vars => AnnouncedIsDurable'
  <2> SUFFICES ASSUME LedgerInv, AnnouncedIsDurable, [Next]_vars
               PROVE  AnnouncedIsDurable'
    OBVIOUS
  <2> DEFINE old == store.checkpoint.completed
             new == store'.checkpoint.completed
  <2>1. /\ Len(old) \in Nat /\ Len(new) \in Nat
        /\ Len(old) <= Len(new)
        /\ \A i \in 1 .. Len(old) : new[i] = old[i]
    <3>1. store.checkpoint \in Checkpoint /\ FirstRevision /\ TypeOK
      BY Parts DEF LedgerInv, TypeOK, Record
    <3>2. CASE store' = store
      BY <3>1, <3>2, CheckpointFields
    <3>3. CASE StoreMoves
      BY <3>1, <3>3, CheckpointFields, LegalFields DEF StoreMoves, FirstRevision
    <3> QED
      BY <3>2, <3>3, StoreStep
  <2>2. \A b \in announced : b.stage \in 1 .. Len(old) /\ old[b.stage] = b.reply
    BY <2>1 DEF AnnouncedIsDurable, LedgerInv, TypeOK, Steps
  <2>3. \A b \in announced : b.stage <= Len(new) /\ new[b.stage] = b.reply
    BY <2>1, <2>2, SMTT(30)
  <2>4. CASE announced' = announced
    BY <2>3, <2>4 DEF AnnouncedIsDurable
  <2>5. ASSUME NEW c \in Callers, pc[c] \in {"settle", "record"},
               SaveSucceeds(c), Announce(Current(c))
        PROVE  AnnouncedIsDurable'
    <3>1. store'.checkpoint = Current(c)
      BY <2>5, SaveLegal DEF Saving, Pending
    <3>2. announced' = announced \cup {[stage |-> Len(new), reply |-> new[Len(new)]]}
      BY <2>5, <3>1 DEF Announce
    <3> QED
      BY <2>1, <2>3, <3>2 DEF AnnouncedIsDurable
  <2> QED
    BY <2>4, <2>5, HistoryStep
<1> QED
  BY <1>1, <1>2, Bookkeeping, PTL DEF Spec

-----------------------------------------------------------------------------
(* The refinement.                                                          *)

\* A legal commit is a stutter, a claim or a settlement of the ledger.
LEMMA PhaseStep ==
    ASSUME LedgerInv, NEW cp \in Checkpoint, Legal(cp)
    PROVE  LET old == Phase(store.checkpoint)
           IN  \/ Phase(cp) = old
               \/ \E s \in Steps :
                     /\ old[s] = "open"
                     /\ \A t \in 1 .. (s - 1) : old[t] = "settled"
                     /\ Phase(cp) = [old EXCEPT ![s] = "claimed"]
               \/ \E s \in Steps :
                     /\ old[s] = "claimed"
                     /\ Phase(cp) = [old EXCEPT ![s] = "settled"]
<1> DEFINE old == store.checkpoint
           s == Stage(old)
           n == Len(old.completed)
<1>1. /\ old \in Checkpoint
      /\ n \in Nat
      /\ s = n + 1
      /\ TypeOK /\ FirstRevision
  <2>1. TypeOK /\ FirstRevision /\ old \in Checkpoint
    BY Parts DEF LedgerInv, TypeOK, Record
  <2> QED
    BY <2>1, CheckpointFields DEF Stage
<1>2. CASE cp = old
  BY <1>2
<1>3. CASE old.status = "ready" /\ cp = InFlight(old)
  <2>1. /\ s \in Steps
        /\ Len(cp.completed) = n
        /\ cp.status = "in_flight"
    BY <1>1, <1>3, CheckpointFields, InFlightFields
  <2>2. /\ Phase(old)[s] = "open"
        /\ \A t \in 1 .. (s - 1) : Phase(old)[t] = "settled"
    <3>1. \A t \in 1 .. (s - 1) : t \in Steps /\ t <= n
      BY <1>1, <2>1, SequenceAssumption DEF Steps
    <3>2. ~(s <= n)
      BY <1>1
    <3> QED
      BY <1>3, <2>1, <3>1, <3>2 DEF Phase
  <2>3. \A t \in Steps : Phase(cp)[t] = IF t = s THEN "claimed" ELSE Phase(old)[t]
    BY <1>1, <1>3, <2>1 DEF Phase, Stage
  <2>4. Phase(cp) = [Phase(old) EXCEPT ![s] = "claimed"]
    BY <2>3 DEF Phase
  <2> QED
    BY <2>1, <2>2, <2>4
<1>4. ASSUME old.status = "in_flight", NEW x \in Nat, cp = Completed(old, x)
      PROVE  /\ s \in Steps
             /\ Phase(old)[s] = "claimed"
             /\ Phase(cp) = [Phase(old) EXCEPT ![s] = "settled"]
  <2>1. /\ s \in Steps
        /\ Len(cp.completed) = n + 1
        /\ cp.status # "in_flight"
    BY <1>1, <1>4, CheckpointFields, CompletedFields
  <2>2. Phase(old)[s] = "claimed"
    BY <1>1, <1>4, <2>1 DEF Phase, Stage
  <2>3. \A t \in Steps : Phase(cp)[t] = IF t = s THEN "settled" ELSE Phase(old)[t]
    <3>1. \A t \in Steps : t <= n + 1 <=> t <= n \/ t = s
      BY <1>1, SequenceAssumption DEF Steps
    <3>2. \A t \in Steps : t = s => ~(t <= n)
      BY <1>1
    <3>3. \A t \in Steps :
             Phase(cp)[t] = IF t <= n + 1 THEN "settled" ELSE "open"
      BY <2>1 DEF Phase
    <3>4. \A t \in Steps :
             Phase(old)[t] = IF t <= n THEN "settled"
                             ELSE IF t = s THEN "claimed" ELSE "open"
      BY <1>4, <3>2 DEF Phase
    <3> QED
      BY <3>1, <3>2, <3>3, <3>4
  <2>4. Phase(cp) = [Phase(old) EXCEPT ![s] = "settled"]
    BY <2>3 DEF Phase
  <2> QED
    BY <2>1, <2>2, <2>4
<1> QED
  BY <1>1, <1>2, <1>3, <1>4, LegalFields DEF FirstRevision

\* SequentialCheckpoint implements DispatchLedger: every agent is called at
\* most once, for a stage durably claimed, after the earlier ones are settled.
THEOREM ImplementsLedger == Spec => DispatchedOnce
<1>1. Init => Ledger!Init
  <2> SUFFICES ASSUME Init PROVE Ledger!Init
    OBVIOUS
  <2>1. /\ store.checkpoint.completed = <<>>
        /\ store.checkpoint.status = "ready"
        /\ runs = [s \in Steps |-> 0]
    BY NewFields DEF Init
  <2>2. \A s \in Steps : ~(s <= Len(<<>>))
    BY DEF Steps
  <2>3. Phase(store.checkpoint) = [s \in Steps |-> "open"]
    BY <2>1, <2>2 DEF Phase
  <2> QED
    BY <2>1, <2>3 DEF Ledger!Init
<1>2. LedgerInv /\ [Next]_vars => [Ledger!Next]_Ledger!vars
  <2> SUFFICES ASSUME LedgerInv, [Next]_vars
               PROVE  [Ledger!Next]_Ledger!vars
    OBVIOUS
  <2>1. CASE runs' = runs
    <3>1. CASE store' = store
      BY <2>1, <3>1 DEF Ledger!vars
    <3>2. CASE StoreMoves
      <4>1. \/ Phase(store'.checkpoint) = Phase(store.checkpoint)
            \/ \E s \in Steps : Ledger!Claim(s)
            \/ \E s \in Steps : Ledger!Settle(s)
        BY <2>1, <3>2, PhaseStep DEF StoreMoves, Ledger!Claim, Ledger!Settle
      <4> QED
        BY <2>1, <4>1 DEF Ledger!Next, Ledger!vars
    <3> QED
      BY <3>1, <3>2, StoreStep
  <2>2. ASSUME NEW c \in Callers, Dispatch(c)
        PROVE  Ledger!Next
    <3> DEFINE s == Stage(Current(c))
    <3>1. /\ pc[c] = "dispatch"
          /\ store' = store
          /\ runs' = [runs EXCEPT ![s] = runs[s] + 1]
          /\ Current(c).status = "in_flight"
          /\ Current(c) \in Checkpoint
          /\ Taken(store.checkpoint, s)
          /\ runs[s] = 0
      BY <2>2, Parts, CallerTypes
         DEF Dispatch, LedgerInv, CallerInv, RecordHeld, StageHeld
    <3>2. s \in Steps
      BY <3>1, CheckpointFields
    <3>3. Phase(store.checkpoint)[s] \in {"claimed", "settled"}
      BY <3>1, <3>2 DEF Phase, Taken
    <3>4. Ledger!Dispatch(s)
      BY <3>1, <3>3 DEF Ledger!Dispatch
    <3> QED
      BY <3>2, <3>4 DEF Ledger!Next
  <2> QED
    BY <2>1, <2>2, HistoryStep
<1> QED
  BY <1>1, <1>2, Bookkeeping, PTL DEF Spec, DispatchedOnce, Ledger!Spec
=============================================================================
