------------------------ MODULE AgentSession_proofs ------------------------
(* Theorems about AgentSession, for any instances, callers, calls and steps: *)
(* types and checkpoints first, then who may invoke a confirmed call, what   *)
(* happens to the stored history, and restarts.                              *)
EXTENDS AgentSession, TLAPS

(* Well-typed building blocks: what the operators on states return.         *)

LEMMA RememberType ==
    ASSUME NEW s \in AgentState, NEW k \in MsgKinds, NEW i \in Nat
    PROVE  /\ Remember(s, k, i) \in AgentState
           /\ Remember(s, k, i).calls = s.calls
           /\ Remember(s, k, i).exec = s.exec
<1>1. [kind |-> k, id |-> i] \in Msg
  BY DEF Msg
<1>2. s.hist \in Seq(Msg)
  BY DEF AgentState
<1>3. Append(s.hist, [kind |-> k, id |-> i]) \in Seq(Msg)
  BY <1>1, <1>2
<1> QED
  BY <1>3 DEF Remember, AgentState

LEMMA FinishType ==
    ASSUME NEW h \in Seq(Msg), NEW r \in Nat
    PROVE  FinishCheckpointCalls(h, r) \in Seq(Msg)
<1>1. [kind |-> "finished", id |-> r] \in Msg
  BY DEF Msg, MsgKinds
<1>2. \A i \in DOMAIN h : h[i] \in Msg
  OBVIOUS
<1> QED
  BY <1>1, <1>2 DEF FinishCheckpointCalls

LEMMA ResultsType ==
    ASSUME NEW s \in AgentState, NEW r \in Nat
    PROVE  /\ WithResults(s, r) \in AgentState
           /\ WithResults(s, r).calls = s.calls
           /\ WithResults(s, r).exec = s.exec
<1> DEFINE t == [s EXCEPT !.hist = FinishCheckpointCalls(@, r)]
<1>1. t \in AgentState /\ t.calls = s.calls /\ t.exec = s.exec
  BY FinishType DEF AgentState
<1>2. "results" \in MsgKinds
  BY DEF MsgKinds
<1> QED
  BY <1>1, <1>2, RememberType DEF WithResults

LEMMA FencedType ==
    ASSUME NEW s \in AgentState, NEW e \in PendingToolExecution
    PROVE  /\ Fenced(s, e) \in AgentState
           /\ Fenced(s, e).calls = NoCalls
           /\ Fenced(s, e).exec = e
BY DEF Fenced, AgentState, NoCalls, PendingToolCalls

LEMMA ConstantTypes ==
    /\ NoCalls \in PendingToolCalls
    /\ NoExecution \in PendingToolExecution
    /\ EmptyState \in AgentState
    /\ EmptyState.calls = NoCalls
    /\ EmptyState.exec = NoExecution
BY DEF NoCalls, PendingToolCalls, NoExecution, PendingToolExecution, EmptyState,
       AgentState

LEMMA ClearedType ==
    ASSUME NEW s \in AgentState
    PROVE  /\ Cleared(s) \in AgentState
           /\ Cleared(s).calls = NoCalls
           /\ Cleared(s).exec = NoExecution
BY ConstantTypes DEF Cleared, AgentState

-----------------------------------------------------------------------------
(* Type correctness.                                                        *)

LEMMA TypeInit == Init => TypeOK
BY ConstantTypes, SessionAssumption
   DEF Init, Quiet, TypeOK, AgentState, PCs, AllKinds

LEMMA ReturnType ==
    ASSUME TypeOK, NEW o \in Ops, Return(o)
    PROVE  /\ lock' \in [Agents -> Ops \cup {NoOp}]
           /\ pc' \in [Ops -> PCs]
           /\ job' \in [Ops -> [kind : AllKinds, mode : {"call", "stream"}]]
           /\ base' \in [Ops -> Nat]
           /\ step' \in [Ops -> Nat]
           /\ plan' \in [Ops -> PendingToolExecution]
           /\ todo' \in [Ops -> SUBSET Calls]
           /\ cancelled' \in [Ops -> BOOLEAN]
           /\ asked' \in [Ops -> BOOLEAN]
BY ConstantTypes DEF Return, TypeOK, Goto, PCs

LEMMA MovesType ==
    ASSUME TypeOK, NEW o \in Ops, NEW where \in PCs, Moves(o, where)
    PROVE  /\ lock' \in [Agents -> Ops \cup {NoOp}]
           /\ pc' \in [Ops -> PCs]
           /\ job' \in [Ops -> [kind : AllKinds, mode : {"call", "stream"}]]
           /\ base' \in [Ops -> Nat]
           /\ step' \in [Ops -> Nat]
           /\ plan' \in [Ops -> PendingToolExecution]
           /\ todo' \in [Ops -> SUBSET Calls]
           /\ cancelled' \in [Ops -> BOOLEAN]
           /\ asked' \in [Ops -> BOOLEAN]
BY DEF Moves, TypeOK, Goto

LEMMA CommitsType ==
    ASSUME TypeOK, NEW e \in Nat, NEW s \in AgentState, Commits(e, s)
    PROVE  /\ store' \in [rev : Nat, state : AgentState]
           /\ fenced' \subseteq PendingToolExecution
<1>1. s.exec \in PendingToolExecution
  BY DEF AgentState
<1> QED
  BY <1>1 DEF Commits, TypeOK

LEMMA StateType ==
    ASSUME TypeOK, NEW o \in Ops
    PROVE  /\ State(o) \in AgentState
           /\ State(o).hist \in Seq(Msg)
           /\ State(o).calls \in PendingToolCalls
           /\ State(o).exec \in PendingToolExecution
           /\ Owner[o] \in Agents
BY SessionAssumption DEF TypeOK, State, AgentState

LEMMA SetStateType ==
    ASSUME TypeOK, NEW o \in Ops, NEW s \in AgentState, SetState(o, s)
    PROVE  view' \in [Agents -> AgentState]
BY StateType DEF TypeOK, SetState

\* One step per action; the building blocks above type what each one assigns.
LEMMA TypeStart ==
    ASSUME TypeOK, NEW o \in Ops, Call(o) \/ Start(o) \/ Drop(o)
    PROVE  TypeOK'
<1>1. CASE Call(o)
  BY <1>1, SessionAssumption
     DEF Call, TypeOK, Goto, PCs, data, ghosts
<1>2. CASE Begin(o)
  <2> DEFINE s == IF store.rev > 0 THEN store.state ELSE State(o)
  <2>1. s \in AgentState
    BY StateType DEF TypeOK
  <2>2. view' \in [Agents -> AgentState]
    BY <1>2, <2>1, SetStateType DEF Begin
  <2> QED
    BY <1>2, <2>2 DEF Begin, TypeOK, Goto, PCs, ghosts
<1>3. CASE BeginFails(o)
  BY <1>3, ReturnType DEF BeginFails, TypeOK, data
<1>4. CASE Drop(o)
  <2>1. orphans' \subseteq [agent : Agents, base : Nat, state : AgentState]
    <3>1. PendingSave(o) \in [agent : Agents, base : Nat, state : AgentState]
      BY StateType DEF TypeOK, PendingSave
    <3>2. orphans' \subseteq orphans \cup {PendingSave(o)}
      BY <1>4 DEF Drop
    <3> QED
      BY <3>1, <3>2 DEF TypeOK
  <2> QED
    BY <1>4, <2>1, ReturnType DEF Drop, TypeOK
<1> QED
  BY <1>1, <1>2, <1>3, <1>4 DEF Start

LEMMA TypeEntry ==
    ASSUME TypeOK, NEW o \in Ops, Entry(o)
    PROVE  TypeOK'
<1>1. CASE Snapshot(o)
  BY <1>1, ReturnType DEF Snapshot, TypeOK, data
<1>2. CASE Observe(o)
  <2>1. Remember(State(o), "note", nextId) \in AgentState
    BY StateType, RememberType DEF TypeOK, MsgKinds
  <2>2. view' \in [Agents -> AgentState]
    BY <1>2, <2>1, SetStateType DEF Observe
  <2> QED
    BY <1>2, <2>2, MovesType DEF Observe, TypeOK, PCs, Fresh
<1>3. CASE AcceptReply(o)
  <2>1. Remember(State(o), "user", nextId) \in AgentState
    BY StateType, RememberType DEF TypeOK, MsgKinds
  <2>2. view' \in [Agents -> AgentState]
    BY <1>3, <2>1, SetStateType DEF AcceptReply
  <2> QED
    BY <1>3, <2>2, MovesType DEF AcceptReply, TypeOK, PCs, Fresh
<1>4. CASE Refuse(o)
  BY <1>4, MovesType DEF Refuse, TypeOK, PCs, data
<1> QED
  BY <1>1, <1>2, <1>3, <1>4 DEF Entry

LEMMA TypeReasoning ==
    ASSUME TypeOK, NEW o \in Ops, Reasoning(o)
    PROVE  TypeOK'
<1>1. CASE ModelFails(o)
  BY <1>1, MovesType DEF ModelFails, TypeOK, PCs, data
<1>2. CASE ModelAnswers(o)
  <2>1. Remember(State(o), "answer", nextId) \in AgentState
    BY StateType, RememberType DEF TypeOK, MsgKinds
  <2>2. view' \in [Agents -> AgentState]
    BY <1>2, <2>1, SetStateType DEF ModelAnswers
  <2> QED
    BY <1>2, <2>2, MovesType DEF ModelAnswers, Responds, TypeOK, PCs, Fresh
<1>3. CASE ModelExhausted(o)
  <2>1. Remember(State(o), "pending", nextId) \in AgentState
    BY StateType, RememberType DEF TypeOK, MsgKinds
  <2>2. view' \in [Agents -> AgentState]
    BY <1>3, <2>1, SetStateType DEF ModelExhausted
  <2> QED
    BY <1>3, <2>2, MovesType DEF ModelExhausted, Responds, TypeOK, PCs, Fresh
<1>4. CASE PauseForConfirmation(o)
  <2> DEFINE s == Remember(State(o), "asking", nextId)
             c == [reply |-> nextId, step |-> step[o] + 1]
  <2>1. s \in AgentState
    BY StateType, RememberType DEF TypeOK, MsgKinds
  <2>2. c \in PendingToolCalls
    BY DEF TypeOK, PendingToolCalls
  <2>3. [s EXCEPT !.calls = c] \in AgentState
    BY <2>1, <2>2 DEF AgentState
  <2>4. view' \in [Agents -> AgentState]
    BY <1>4, <2>3, SetStateType DEF PauseForConfirmation
  <2> QED
    BY <1>4, <2>4, MovesType DEF PauseForConfirmation, Responds, TypeOK, PCs, Fresh
<1>5. CASE CallTools(o)
  <2>1. Remember(State(o), "pending", nextId) \in AgentState
    BY StateType, RememberType DEF TypeOK, MsgKinds
  <2>2. view' \in [Agents -> AgentState]
    BY <1>5, <2>1, SetStateType DEF CallTools
  <2>3. [NoExecution EXCEPT !.reply = nextId] \in PendingToolExecution
    BY DEF TypeOK, NoExecution, PendingToolExecution
  <2>4. plan' \in [Ops -> PendingToolExecution]
    BY <1>5, <2>3 DEF CallTools, TypeOK
  <2> QED
    BY <1>5, <2>2, <2>4 DEF CallTools, Responds, TypeOK, PCs, Fresh, Goto, ghosts
<1>6. ASSUME RecordObservation(o) PROVE view' \in [Agents -> AgentState]
  <2>1. plan[o].reply \in Nat
    BY DEF TypeOK, PendingToolExecution
  <2>2. Remember(State(o), "results", plan[o].reply) \in AgentState
    BY <2>1, StateType, RememberType DEF MsgKinds
  <2> QED
    BY <1>6, <2>2, SetStateType DEF RecordObservation
<1>7. CASE ToolsReturn(o)
  BY <1>6, <1>7 DEF ToolsReturn, TypeOK, Goto, PCs, ghosts
<1>8. CASE ToolsInterrupted(o)
  BY <1>6, <1>8, MovesType DEF ToolsInterrupted, TypeOK, PCs
<1>9. CASE ToolsUnrecorded(o)
  BY <1>9, MovesType DEF ToolsUnrecorded, TypeOK, PCs, data
<1> QED
  BY <1>1, <1>2, <1>3, <1>4, <1>5, <1>7, <1>8, <1>9 DEF Reasoning

LEMMA TypeRecovery ==
    ASSUME TypeOK, NEW o \in Ops, Recovery(o)
    PROVE  TypeOK'
<1> USE DEF PCs
<1>a. /\ plan[o] \in PendingToolExecution
      /\ plan[o].reply \in Nat
      /\ plan[o].step \in Nat
      /\ plan[o].approved \in SUBSET Calls
      /\ base[o] \in Nat
      /\ base[o] + 1 \in Nat
  BY DEF TypeOK, PendingToolExecution
<1>b. /\ WithResults(State(o), plan[o].reply) \in AgentState
      /\ Cleared(WithResults(State(o), plan[o].reply)) \in AgentState
  BY <1>a, StateType, ResultsType, ClearedType
<1>c. ASSUME NEW A \in SUBSET Calls, NewPlan(o, A)
      PROVE  /\ plan' \in [Ops -> PendingToolExecution]
             /\ plan'[o] \in PendingToolExecution
             /\ nextId' \in Nat \ {0}
             /\ cancelled' \in [Ops -> BOOLEAN]
  <2>1. State(o).calls.reply \in Nat /\ State(o).calls.step \in Nat
    BY StateType DEF PendingToolCalls
  <2>2. [id |-> IF A = {} THEN 0 ELSE nextId, reply |-> State(o).calls.reply,
         step |-> State(o).calls.step, approved |-> A] \in PendingToolExecution
    BY <2>1 DEF TypeOK, PendingToolExecution
  <2> QED
    BY <1>c, <2>2 DEF NewPlan, TypeOK
<1>1. CASE RefuseRecovery(o)
  BY <1>1, MovesType, ReturnType DEF RefuseRecovery, TypeOK, data
<1>2. CASE ResumeCall(o)
  <2>1. PICK A \in SUBSET Calls :
          /\ NewPlan(o, A)
          /\ IF A = {}
             THEN Goto(o, "record") /\ UNCHANGED view
             ELSE Goto(o, "persist") /\ SetState(o, Fenced(State(o), plan'[o]))
    BY <1>2 DEF ResumeCall
  <2>2. Fenced(State(o), plan'[o]) \in AgentState
    BY <2>1, <1>c, StateType, FencedType
  <2>3. view' \in [Agents -> AgentState]
    BY <2>1, <2>2, SetStateType DEF TypeOK
  <2>4. pc' \in [Ops -> PCs]
    BY <2>1 DEF TypeOK, Goto
  <2> QED
    BY <1>2, <2>1, <1>c, <2>3, <2>4 DEF ResumeCall, TypeOK, ghosts
<1>3. CASE ResumeStream(o)
  BY <1>3, <1>c DEF ResumeStream, TypeOK, Goto, data, ghosts
<1>4. CASE PlanRecovery(o)
  BY <1>4, StateType DEF PlanRecovery, TypeOK, Goto, data, ghosts
<1>5. CASE Setup(o)
  <2>1. Fenced(State(o), plan[o]) \in AgentState
    BY <1>a, StateType, FencedType
  <2>2. view' \in [Agents -> AgentState]
    BY <1>5, <2>1, SetStateType DEF Setup, TypeOK
  <2> QED
    BY <1>5, <2>2, MovesType DEF Setup, TypeOK
<1>6. CASE SetupFails(o)
  BY <1>6, MovesType DEF SetupFails, TypeOK, data
<1>7. CASE Persist(o)
  BY <1>7, <1>a, CommitsType, StateType DEF Persist, SaveSucceeds, TypeOK, Goto
<1>8. CASE PersistFails(o)
  <2>1. /\ store' \in [rev : Nat, state : AgentState]
        /\ fenced' \subseteq PendingToolExecution
    BY <1>8, <1>a, CommitsType, StateType
       DEF PersistFails, SaveFails, SaveSucceeds, TypeOK
  <2> QED
    BY <1>8, <2>1, MovesType DEF PersistFails, TypeOK
<1>9. ASSUME NEW c \in Calls, Invoke(o, c) PROVE TypeOK'
  BY <1>9, <1>a DEF Invoke, TypeOK, data
<1>10. CASE ToolsSettle(o)
  BY <1>10, MovesType DEF ToolsSettle, TypeOK, data
<1>11. CASE ToolsInDoubt(o)
  BY <1>11, MovesType DEF ToolsInDoubt, TypeOK, data
<1>12. CASE RecordResults(o)
  <2>1. view' \in [Agents -> AgentState]
    BY <1>12, <1>b, SetStateType DEF RecordResults
  <2> QED
    BY <1>12, <2>1, MovesType DEF RecordResults, TypeOK
<1>13. CASE RecordFails(o)
  <2>1. [State(o) EXCEPT !.hist = FinishCheckpointCalls(@, plan[o].reply)]
           \in AgentState
    BY <1>a, StateType, FinishType DEF AgentState
  <2>2. view' \in [Agents -> AgentState]
    BY <1>13, <2>1, SetStateType DEF RecordFails
  <2> QED
    BY <1>13, <2>2, MovesType DEF RecordFails, TypeOK
<1>14. CASE ReplaceFails(o)
  BY <1>14, MovesType DEF ReplaceFails, TypeOK, data
<1>15. CASE RecordAndClear(o)
  <2>1. view' \in [Agents -> AgentState]
    BY <1>15, <1>b, SetStateType DEF RecordAndClear
  <2> QED
    BY <1>15, <2>1, MovesType DEF RecordAndClear, TypeOK
<1>16. CASE Commit(o)
  BY <1>16, <1>a, CommitsType, StateType DEF Commit, SaveSucceeds, TypeOK, Goto
<1>17. CASE Continue(o)
  <2>1. view' \in [Agents -> AgentState]
    BY <1>17, StateType, ClearedType, SetStateType DEF Continue
  <2>2. cancelled' \in [Ops -> BOOLEAN]
    BY <1>17 DEF Continue, TypeOK
  <2> QED
    BY <1>17, <2>1, <2>2, <1>a DEF Continue, TypeOK, Goto, ghosts
<1>18. CASE HooksFail(o)
  BY <1>18, MovesType DEF HooksFail, TypeOK, data
<1> QED
  BY <1>1, <1>2, <1>3, <1>4, <1>5, <1>6, <1>7, <1>8, <1>9, <1>10, <1>11, <1>12,
     <1>13, <1>14, <1>15, <1>16, <1>17, <1>18 DEF Recovery

LEMMA TypeEnding ==
    ASSUME TypeOK, NEW o \in Ops, Ending(o)
    PROVE  TypeOK'
<1>1. /\ store' \in [rev : Nat, state : AgentState]
      /\ fenced' \subseteq PendingToolExecution
  <2>1. base[o] \in Nat
    BY DEF TypeOK
  <2> QED
    BY <2>1, CommitsType, StateType
       DEF Ending, Finish, FinishFails, SaveFails, SaveSucceeds, TypeOK
<1>2. CASE Finish(o)
  <2>1. MsgsOf(State(o).hist) \subseteq Msg
    BY StateType DEF MsgsOf
  <2> QED
    BY <1>1, <1>2, <2>1, ReturnType DEF Finish, TypeOK
<1>3. CASE FinishFails(o)
  BY <1>1, <1>3, ReturnType DEF FinishFails, TypeOK
<1> QED
  BY <1>2, <1>3 DEF Ending

LEMMA TypeEnvironment ==
    ASSUME TypeOK, Environment
    PROVE  TypeOK'
<1>1. ASSUME NEW a \in Agents, Interrupt(a) PROVE TypeOK'
  BY <1>1 DEF Interrupt, TypeOK, data
<1>2. ASSUME NEW a \in Agents, Crash(a) PROVE TypeOK'
  BY <1>2, ConstantTypes DEF Crash, TypeOK, PCs
<1>3. ASSUME NEW w \in orphans, OrphanCommits(w) PROVE TypeOK'
  <2>1. w.base \in Nat /\ w.state \in AgentState
    BY DEF TypeOK
  <2> QED
    BY <1>3, <2>1, CommitsType DEF OrphanCommits, TypeOK, control
<1>4. ASSUME NEW w \in orphans, OrphanLost(w) PROVE TypeOK'
  BY <1>4 DEF OrphanLost, TypeOK, control, ghosts
<1> QED
  BY <1>1, <1>2, <1>3, <1>4 DEF Environment

LEMMA TypeStep == TypeOK /\ [Next]_vars => TypeOK'
<1> SUFFICES ASSUME TypeOK, [Next]_vars PROVE TypeOK'
  OBVIOUS
<1>1. CASE UNCHANGED vars
  BY <1>1 DEF vars, TypeOK
<1> QED
  BY <1>1, TypeStart, TypeEntry, TypeReasoning, TypeRecovery, TypeEnding,
     TypeEnvironment DEF Next, Progress

\* Every variable of the session keeps its type, for any number of instances,
\* callers, calls and steps.
THEOREM TypeCorrect == Spec => []TypeOK
BY TypeInit, TypeStep, PTL DEF Spec

-----------------------------------------------------------------------------
(* One execution per reply.  FenceInv is inductive; every step is an instance *)
(* of one of three kinds: it works on the state of one instance, it ends one  *)
(* operation, or it commits a state to the store.                             *)

LEMMA FenceInit == Init => FenceInv
BY ConstantTypes, SessionAssumption
   DEF Init, Quiet, FenceInv, LockHeld, Running, StatesWellFormed, WellFormed,
       RevisionsKnown, CommitsHarmless, Committable, FencedOnce, PlansHeld,
       PlanHeld, FencedFirst, Unfenced, NoCalls, NoExecution

\* Ids are only ever handed out, so what is well formed stays so.
LEMMA WellFormedStable ==
    ASSUME TypeOK, TypeOK', nextId <= nextId', NEW t \in AgentState,
           WellFormed(t)
    PROVE  WellFormed(t)'
<1>1. t.calls.reply \in Nat /\ t.exec.reply \in Nat
  BY DEF AgentState, PendingToolCalls, PendingToolExecution
<1>2. nextId \in Nat /\ nextId' \in Nat
  BY DEF TypeOK
<1>3. t.calls.reply < nextId /\ t.exec.reply < nextId
  BY DEF WellFormed
<1> QED
  BY <1>1, <1>2, <1>3 DEF WellFormed

\* A running operation replaces the state of its instance by s.
LEMMA LocalStep ==
    ASSUME TypeOK, TypeOK', FenceInv, NEW o \in Ops, NEW s \in AgentState,
           Running(o), Running(o)',
           store' = store, fenced' = fenced, invoked' = invoked,
           orphans' = orphans, lock' = lock, base' = base, nextId <= nextId',
           \A p \in Ops \ {o} : pc'[p] = pc[p] /\ plan'[p] = plan[p],
           view' = [view EXCEPT ![Owner[o]] = s],
           s.calls.reply = 0 \/ s.exec.reply = 0,
           s.calls.reply < nextId', s.exec.reply < nextId',
           base[o] = store.rev => Committable(s),
           PlanHeld(o)'
    PROVE  FenceInv'
<1>1. /\ Owner[o] \in Agents
      /\ State(o)' = s
      /\ \A p \in Ops \ {o} : Running(p) => Owner[p] # Owner[o]
      /\ \A p \in Ops : Owner[p] # Owner[o] => State(p)' = State(p)
  BY SessionAssumption DEF State, TypeOK, FenceInv, LockHeld
<1>2. LockHeld'
  BY DEF FenceInv, LockHeld, Running
<1>3. \A t \in AgentState : WellFormed(t) => WellFormed(t)'
  BY WellFormedStable
<1>4. StatesWellFormed'
  <2>1. WellFormed(s)'
    BY DEF WellFormed
  <2> QED
    BY <1>1, <1>3, <2>1 DEF FenceInv, StatesWellFormed, TypeOK
<1>5. RevisionsKnown'
  BY DEF FenceInv, RevisionsKnown
<1>6. \A t : Committable(t)' <=> Committable(t)
  BY DEF Committable, Unfenced
<1>7. CommitsHarmless'
  BY <1>1, <1>6 DEF FenceInv, CommitsHarmless, Running
<1>8. FencedOnce'
  BY DEF FenceInv, FencedOnce, TypeOK, PendingToolExecution
<1>9. PlansHeld'
  <2>1. ASSUME NEW p \in Ops \ {o}, Running(p) PROVE PlanHeld(p)'
    BY <1>1, <2>1 DEF FenceInv, PlansHeld, PlanHeld, Running
  <2>2. ASSUME NEW p \in Ops \ {o}, ~Running(p) PROVE PlanHeld(p)'
    BY <2>2 DEF PlanHeld, Running
  <2> QED
    BY <2>1, <2>2 DEF PlansHeld
<1>10. FencedFirst'
  BY DEF FenceInv, FencedFirst
<1> QED
  BY <1>2, <1>4, <1>5, <1>7, <1>8, <1>9, <1>10 DEF FenceInv

\* The other operations keep what they know of their plans.
LEMMA OthersHeld ==
    ASSUME FenceInv, NEW p \in Ops, pc'[p] = pc[p], plan'[p] = plan[p],
           view' = view, fenced \subseteq fenced'
    PROVE  PlanHeld(p)'
BY DEF FenceInv, PlansHeld, PlanHeld, State

LEMMA ReturnedHeld ==
    ASSUME TypeOK, NEW o \in Ops, Return(o)
    PROVE  /\ pc'[o] = "idle"
           /\ PlanHeld(o)'
           /\ \A p \in Ops \ {o} : pc'[p] = pc[p] /\ plan'[p] = plan[p]
           /\ \A p \in Ops \ {o} : base'[p] = base[p]
           /\ base'[o] = 0
BY DEF TypeOK, Return, Goto, PlanHeld

LEMMA ReturnLock ==
    ASSUME TypeOK, FenceInv, NEW o \in Ops, Return(o)
    PROVE  LockHeld'
<1>1. \A a \in Agents : lock[a] # o => lock'[a] = lock[a]
  BY DEF Return
<1>2. \A p \in Ops : Running(p)' => p # o /\ Running(p)
  BY ReturnedHeld DEF Running
<1> QED
  BY <1>1, <1>2, SessionAssumption DEF FenceInv, LockHeld

\* An operation ends without a commit; dropping it may leave its save behind.
LEMMA ReturnStep ==
    ASSUME TypeOK, TypeOK', FenceInv, NEW o \in Ops, Return(o),
           store' = store, fenced' = fenced, invoked' = invoked, view' = view,
           nextId' = nextId,
           \/ orphans' \subseteq orphans
           \/ Running(o) /\ orphans' \subseteq orphans \cup {PendingSave(o)}
    PROVE  FenceInv'
<1>0. ASSUME NEW w \in orphans'
      PROVE  \/ w \in orphans
             \/ Running(o) /\ w.base = base[o] /\ w.state = State(o)
  <2>1. PendingSave(o).base = base[o] /\ PendingSave(o).state = State(o)
    BY DEF PendingSave
  <2>2. w \in orphans \/ (Running(o) /\ w = PendingSave(o))
    BY <1>0
  <2> QED
    BY <2>1, <2>2
<1>1. \A p \in Ops : Running(p)' => p # o /\ Running(p)
  BY ReturnedHeld DEF Running
<1>2. Owner[o] \in Agents
  BY SessionAssumption
<1>3. LockHeld'
  BY ReturnLock
<1>4. StatesWellFormed'
  BY <1>0, <1>2 DEF FenceInv, StatesWellFormed, WellFormed, State
<1>5. RevisionsKnown'
  <2>1. store.rev \in Nat /\ base[o] <= store.rev
    BY DEF TypeOK, FenceInv, RevisionsKnown
  <2>2. \A p \in Ops : base'[p] <= store.rev
    BY <2>1, ReturnedHeld DEF FenceInv, RevisionsKnown
  <2>3. \A w \in orphans' : w.base <= store.rev
    BY <1>0, <2>1 DEF FenceInv, RevisionsKnown
  <2> QED
    BY <2>2, <2>3 DEF RevisionsKnown
<1>6. CommitsHarmless'
  <2>1. \A t : Committable(t)' <=> Committable(t)
    BY DEF Committable, Unfenced
  <2>2. \A p \in Ops : State(p)' = State(p)
    BY DEF State
  <2> QED
    BY <1>0, <1>1, <2>1, <2>2, ReturnedHeld DEF FenceInv, CommitsHarmless
<1>7. FencedOnce'
  BY DEF FenceInv, FencedOnce
<1>8. PlansHeld'
  BY ReturnedHeld, OthersHeld DEF PlansHeld
<1>9. FencedFirst'
  BY DEF FenceInv, FencedFirst
<1> QED
  BY <1>3, <1>4, <1>5, <1>6, <1>7, <1>8, <1>9 DEF FenceInv

\* A compare-and-swap succeeds: whoever still expects the old revision has
\* lost, and only the committer may expect the new one.
LEMMA CommitStep ==
    ASSUME TypeOK, TypeOK', FenceInv, NEW e \in Nat, NEW s \in AgentState,
           Commits(e, s), WellFormed(s), Committable(s),
           view' = view, nextId' = nextId, invoked' = invoked,
           orphans' \subseteq orphans, LockHeld', PlansHeld',
           \A p \in Ops : \/ base'[p] = base[p]
                          \/ base'[p] = 0
                          \/ base'[p] = e + 1 /\ State(p) = s
    PROVE  FenceInv'
<1>1. /\ e = store.rev
      /\ store'.rev = e + 1
      /\ store'.state = s
      /\ fenced' = fenced \cup (IF s.exec.reply = 0 THEN {} ELSE {s.exec})
      /\ \A p \in Ops : base[p] \in Nat /\ base[p] <= e /\ State(p)' = State(p)
      /\ \A w \in orphans : w.base \in Nat /\ w.base <= e
  BY DEF Commits, TypeOK, FenceInv, RevisionsKnown, State
<1>2. StatesWellFormed'
  BY <1>1 DEF FenceInv, StatesWellFormed, WellFormed
<1>3. RevisionsKnown'
  BY <1>1 DEF RevisionsKnown
<1>4. Committable(s)'
  BY <1>1 DEF Committable, Unfenced, WellFormed
<1>5. CommitsHarmless'
  <2>1. \A p \in Ops : base'[p] = store'.rev => State(p)' = s
    BY <1>1
  <2>2. \A w \in orphans' : w.base # store'.rev
    BY <1>1
  <2> QED
    BY <1>1, <1>4, <2>1, <2>2 DEF CommitsHarmless
<1>6. FencedOnce'
  BY <1>1 DEF FenceInv, FencedOnce, Committable, Unfenced, WellFormed
<1>7. FencedFirst'
  BY <1>1 DEF FenceInv, FencedFirst
<1> QED
  BY <1>2, <1>3, <1>5, <1>6, <1>7 DEF FenceInv

\* What a running operation saves is well formed and harmless.
LEMMA SavedHarmless ==
    ASSUME TypeOK, FenceInv, NEW o \in Ops, Running(o), SaveSucceeds(o)
    PROVE  /\ base[o] \in Nat
           /\ State(o) \in AgentState
           /\ WellFormed(State(o))
           /\ Committable(State(o))
           /\ Commits(base[o], State(o))
           /\ fenced \subseteq fenced'
           /\ State(o).exec.reply # 0 => State(o).exec \in fenced'
<1>1. WellFormed(State(o))
  BY StateType DEF State, FenceInv, StatesWellFormed
<1> QED
  BY <1>1, StateType DEF SaveSucceeds, Commits, FenceInv, CommitsHarmless, TypeOK

\* What a running operation may rely on.
LEMMA RunningKnows ==
    ASSUME TypeOK, FenceInv, NEW o \in Ops, Running(o)
    PROVE  /\ WellFormed(State(o))
           /\ base[o] = store.rev => Committable(State(o))
           /\ PlanHeld(o)
BY StateType DEF FenceInv, StatesWellFormed, CommitsHarmless, PlansHeld, State

\* A running operation that leaves the checkpoints of its instance alone.
LEMMA SameCheckpoints ==
    ASSUME TypeOK, TypeOK', FenceInv, NEW o \in Ops, NEW s \in AgentState,
           Running(o), Running(o)',
           store' = store, fenced' = fenced, invoked' = invoked,
           orphans' = orphans, lock' = lock, base' = base, nextId <= nextId',
           \A p \in Ops \ {o} : pc'[p] = pc[p] /\ plan'[p] = plan[p],
           SetState(o, s), s.calls = State(o).calls, s.exec = State(o).exec,
           PlanHeld(o)'
    PROVE  FenceInv'
<1>1. WellFormed(s)'
  BY RunningKnows, WellFormedStable, StateType DEF WellFormed
<1>2. base[o] = store.rev => Committable(s)
  BY RunningKnows DEF Committable
<1> QED
  BY <1>1, <1>2, LocalStep DEF WellFormed, SetState

\* A running operation that leaves the state of its instance alone.
LEMMA SameState ==
    ASSUME TypeOK, TypeOK', FenceInv, NEW o \in Ops,
           Running(o), Running(o)', view' = view,
           store' = store, fenced' = fenced, invoked' = invoked,
           orphans' = orphans, lock' = lock, base' = base, nextId <= nextId',
           \A p \in Ops \ {o} : pc'[p] = pc[p] /\ plan'[p] = plan[p],
           PlanHeld(o)'
    PROVE  FenceInv'
<1>1. SetState(o, State(o))
  BY StateType DEF SetState, State, TypeOK
<1> QED
  BY <1>1, StateType, SameCheckpoints

\* Moving on to save, or to record or announce results, needs no plan.
LEMMA FreePlaces ==
    ASSUME TypeOK, NEW o \in Ops,
           NEW where \in {"finish", "record", "commit", "hooks"}, Goto(o, where)
    PROVE  /\ PlanHeld(o)'
           /\ Running(o)'
           /\ \A p \in Ops \ {o} : pc'[p] = pc[p]
BY DEF TypeOK, Goto, PlanHeld, Running

LEMMA NextIdGrows ==
    ASSUME TypeOK
    PROVE  /\ nextId \in Nat /\ nextId <= nextId /\ nextId <= nextId + 1
           /\ nextId < nextId + 1 /\ nextId # 0
BY DEF TypeOK

LEMMA PlainReturn ==
    ASSUME TypeOK, TypeOK', FenceInv, NEW o \in Ops, Return(o),
           store' = store, fenced' = fenced, invoked' = invoked, view' = view,
           nextId' = nextId, orphans' = orphans
    PROVE  FenceInv'
BY ReturnStep

LEMMA FenceStart ==
    ASSUME TypeOK, TypeOK', FenceInv, NEW o \in Ops,
           Call(o) \/ Start(o) \/ Drop(o)
    PROVE  FenceInv'
<1>1. CASE Call(o)
  <2>1. /\ \A p \in Ops : Running(p)' <=> Running(p)
        /\ \A p \in Ops : PlanHeld(p)'
    BY <1>1 DEF Call, Goto, Running, TypeOK, FenceInv, PlansHeld, PlanHeld, State,
                data, ghosts
  <2> QED
    BY <1>1, <2>1 DEF Call, FenceInv, LockHeld, StatesWellFormed, WellFormed,
       RevisionsKnown, CommitsHarmless, Committable, Unfenced, FencedOnce,
       PlansHeld, FencedFirst, State, data, ghosts
<1>2. CASE Begin(o)
  <2> DEFINE s == IF store.rev > 0 THEN store.state ELSE State(o)
  <2>1. /\ Owner[o] \in Agents
        /\ s \in AgentState
        /\ State(o)' = s
        /\ \A p \in Ops : Running(p) => Owner[p] # Owner[o]
        /\ \A p \in Ops : Owner[p] # Owner[o] => State(p)' = State(p)
    BY <1>2, StateType, SessionAssumption
       DEF Begin, SetState, State, TypeOK, FenceInv, LockHeld
  <2>2. /\ \A p \in Ops : Running(p)' <=> Running(p) \/ p = o
        /\ \A p \in Ops \ {o} : pc'[p] = pc[p] /\ base'[p] = base[p]
        /\ pc'[o] = "start" /\ base'[o] = store.rev
    BY <1>2 DEF Begin, Goto, Running, TypeOK
  <2>3. WellFormed(s)
    BY StateType DEF FenceInv, StatesWellFormed, State
  <2>4. Committable(s)
    <3>1. CASE store.rev > 0
      BY <3>1 DEF FenceInv, CommitsHarmless
    <3>2. CASE ~(store.rev > 0)
      BY <3>2 DEF TypeOK, FenceInv, FencedOnce, Committable, Unfenced
    <3> QED
      BY <3>1, <3>2
  <2>5. LockHeld'
    BY <1>2, <2>1, <2>2, SessionAssumption DEF Begin, FenceInv, LockHeld, TypeOK
  <2>6. StatesWellFormed'
    BY <1>2, <2>1, <2>3
       DEF Begin, SetState, FenceInv, StatesWellFormed, WellFormed, TypeOK
  <2>7. RevisionsKnown'
    BY <1>2, <2>2 DEF Begin, FenceInv, RevisionsKnown, TypeOK
  <2>8. CommitsHarmless'
    <3>1. \A t : Committable(t)' <=> Committable(t)
      BY <1>2 DEF Begin, Committable, Unfenced, ghosts
    <3> QED
      BY <1>2, <2>1, <2>2, <2>4, <3>1 DEF Begin, FenceInv, CommitsHarmless
  <2>9. FencedOnce' /\ FencedFirst'
    BY <1>2 DEF Begin, FenceInv, FencedOnce, FencedFirst, ghosts
  <2>10. PlansHeld'
    <3>1. PlanHeld(o)'
      BY <2>2 DEF PlanHeld
    <3>2. ASSUME NEW p \in Ops \ {o}, Running(p) PROVE PlanHeld(p)'
      BY <1>2, <2>1, <2>2, <3>2 DEF Begin, FenceInv, PlansHeld, PlanHeld, ghosts
    <3>3. ASSUME NEW p \in Ops \ {o}, ~Running(p) PROVE PlanHeld(p)'
      BY <2>2, <3>3 DEF PlanHeld, Running
    <3> QED
      BY <3>1, <3>2, <3>3 DEF PlansHeld
  <2> QED
    BY <2>5, <2>6, <2>7, <2>8, <2>9, <2>10 DEF FenceInv
<1>3. CASE BeginFails(o)
  BY <1>3, PlainReturn DEF BeginFails, data
<1>4. CASE Drop(o)
  <2>1. \/ orphans' \subseteq orphans
        \/ Running(o) /\ orphans' \subseteq orphans \cup {PendingSave(o)}
    BY <1>4 DEF Drop, Running
  <2> QED
    BY <1>4, <2>1, ReturnStep DEF Drop
<1> QED
  BY <1>1, <1>2, <1>3, <1>4 DEF Start

LEMMA FenceEntry ==
    ASSUME TypeOK, TypeOK', FenceInv, NEW o \in Ops, Entry(o)
    PROVE  FenceInv'
<1>1. Running(o)
  BY DEF Entry, Snapshot, Observe, AcceptReply, Refuse, At, Running
<1>2. CASE Snapshot(o)
  BY <1>2, PlainReturn DEF Snapshot, data
<1>3. CASE Observe(o)
  <2> DEFINE s == Remember(State(o), "note", nextId)
  <2>1. s \in AgentState /\ s.calls = State(o).calls /\ s.exec = State(o).exec
    BY StateType, RememberType DEF TypeOK, MsgKinds
  <2> QED
    BY <1>1, <1>3, <2>1, SameCheckpoints, FreePlaces, NextIdGrows
       DEF Observe, Moves, Fresh
<1>4. CASE AcceptReply(o)
  <2> DEFINE s == Remember(State(o), "user", nextId)
  <2>1. s \in AgentState /\ s.calls = State(o).calls /\ s.exec = State(o).exec
    BY StateType, RememberType DEF TypeOK, MsgKinds
  <2>2. State(o)' = s
    BY <1>4, StateType DEF AcceptReply, SetState, State, TypeOK
  <2>3. Running(o)' /\ PlanHeld(o)' /\ \A p \in Ops \ {o} : pc'[p] = pc[p]
    BY <1>4, <2>1, <2>2
       DEF AcceptReply, Moves, Goto, Running, PlanHeld, TypeOK
  <2> QED
    BY <1>1, <1>4, <2>1, <2>3, SameCheckpoints, NextIdGrows
       DEF AcceptReply, Moves, Fresh
<1>5. CASE Refuse(o)
  BY <1>1, <1>5, SameState, FreePlaces, NextIdGrows DEF Refuse, Moves, data
<1> QED
  BY <1>2, <1>3, <1>4, <1>5 DEF Entry

LEMMA FenceReasoning ==
    ASSUME TypeOK, TypeOK', FenceInv, NEW o \in Ops, Reasoning(o)
    PROVE  FenceInv'
<1>0. /\ Running(o)
      /\ pc[o] \in {"model", "tools"}
      /\ State(o).calls.reply = 0
      /\ State(o).exec.reply = 0
  <2>1. pc[o] \in {"model", "tools"}
    BY DEF Reasoning, ModelFails, ModelAnswers, ModelExhausted, CallTools, Responds,
           PauseForConfirmation, ToolsReturn, ToolsInterrupted, ToolsUnrecorded
  <2> QED
    BY <2>1 DEF FenceInv, PlansHeld, PlanHeld, Running
<1>1. CASE ModelFails(o)
  BY <1>0, <1>1, SameState, FreePlaces, NextIdGrows DEF ModelFails, Moves, data
<1>2. CASE ModelAnswers(o)
  <2> DEFINE s == Remember(State(o), "answer", nextId)
  <2>1. s \in AgentState /\ s.calls = State(o).calls /\ s.exec = State(o).exec
    BY StateType, RememberType DEF TypeOK, MsgKinds
  <2> QED
    BY <1>0, <1>2, <2>1, SameCheckpoints, FreePlaces, NextIdGrows
       DEF ModelAnswers, Responds, Moves, Fresh
<1>3. CASE ModelExhausted(o)
  <2> DEFINE s == Remember(State(o), "pending", nextId)
  <2>1. s \in AgentState /\ s.calls = State(o).calls /\ s.exec = State(o).exec
    BY StateType, RememberType DEF TypeOK, MsgKinds
  <2> QED
    BY <1>0, <1>3, <2>1, SameCheckpoints, FreePlaces, NextIdGrows
       DEF ModelExhausted, Responds, Moves, Fresh
<1>4. CASE PauseForConfirmation(o)
  <2> DEFINE r == Remember(State(o), "asking", nextId)
             c == [reply |-> nextId, step |-> step[o] + 1]
             s == [r EXCEPT !.calls = c]
  <2>1. r \in AgentState /\ r.exec = State(o).exec
    BY StateType, RememberType DEF TypeOK, MsgKinds
  <2>2. c \in PendingToolCalls /\ c.reply = nextId
    BY DEF TypeOK, PendingToolCalls
  <2>3. s \in AgentState /\ s.calls = c /\ s.exec = State(o).exec
    BY <2>1, <2>2 DEF AgentState
  <2>4. Unfenced(nextId)
    BY DEF FenceInv, FencedOnce, Unfenced, TypeOK, PendingToolExecution
  <2>5. Committable(s)
    BY <1>0, <2>2, <2>3, <2>4 DEF Committable
  <2>6. /\ nextId' = nextId + 1
        /\ s.calls.reply < nextId'
        /\ s.exec.reply < nextId'
        /\ s.exec.reply = 0
    BY <1>0, <1>4, <2>2, <2>3, NextIdGrows
       DEF PauseForConfirmation, Responds, Fresh
  <2>7. SetState(o, s)
    BY <1>4 DEF PauseForConfirmation
  <2>8. /\ PlanHeld(o)' /\ Running(o)'
        /\ \A p \in Ops \ {o} : pc'[p] = pc[p]
    BY <1>4, FreePlaces DEF PauseForConfirmation, Moves
  <2> QED
    BY <1>0, <1>4, <2>3, <2>5, <2>6, <2>7, <2>8, LocalStep, NextIdGrows
       DEF PauseForConfirmation, Moves, SetState
<1>5. CASE CallTools(o)
  <2> DEFINE s == Remember(State(o), "pending", nextId)
  <2>1. s \in AgentState /\ s.calls = State(o).calls /\ s.exec = State(o).exec
    BY StateType, RememberType DEF TypeOK, MsgKinds
  <2>2. State(o)' = s
    BY <1>5, StateType DEF CallTools, SetState, State, TypeOK
  <2>3. /\ Running(o)' /\ PlanHeld(o)'
        /\ \A p \in Ops \ {o} : pc'[p] = pc[p] /\ plan'[p] = plan[p]
    BY <1>0, <1>5, <2>1, <2>2 DEF CallTools, Goto, Running, PlanHeld, TypeOK
  <2> QED
    BY <1>0, <1>5, <2>1, <2>3, SameCheckpoints, NextIdGrows
       DEF CallTools, Responds, Fresh, ghosts
<1>6. ASSUME RecordObservation(o)
      PROVE  LET s == Remember(State(o), "results", plan[o].reply)
             IN  /\ s \in AgentState
                 /\ s.calls = State(o).calls
                 /\ s.exec = State(o).exec
                 /\ SetState(o, s)
                 /\ State(o)' = s
  <2>1. plan[o].reply \in Nat
    BY DEF TypeOK, PendingToolExecution
  <2> DEFINE s == Remember(State(o), "results", plan[o].reply)
  <2>2. s \in AgentState /\ s.calls = State(o).calls /\ s.exec = State(o).exec
    BY <2>1, StateType, RememberType DEF MsgKinds
  <2>3. SetState(o, s)
    BY <1>6 DEF RecordObservation
  <2>4. State(o)' = s
    BY <2>3, StateType DEF SetState, State, TypeOK
  <2> QED
    BY <2>2, <2>3, <2>4
<1>7. CASE ToolsReturn(o)
  <2> DEFINE s == Remember(State(o), "results", plan[o].reply)
  <2>1. /\ s \in AgentState /\ s.calls = State(o).calls /\ s.exec = State(o).exec
        /\ SetState(o, s) /\ State(o)' = s
    BY <1>6, <1>7 DEF ToolsReturn
  <2>2. /\ Running(o)' /\ PlanHeld(o)'
        /\ \A p \in Ops \ {o} : pc'[p] = pc[p]
    BY <1>0, <1>7, <2>1 DEF ToolsReturn, Goto, Running, PlanHeld, TypeOK
  <2> QED
    BY <1>0, <1>7, <2>1, <2>2, SameCheckpoints, NextIdGrows
       DEF ToolsReturn, ghosts
<1>8. CASE ToolsInterrupted(o)
  <2> DEFINE s == Remember(State(o), "results", plan[o].reply)
  <2>1. /\ s \in AgentState /\ s.calls = State(o).calls /\ s.exec = State(o).exec
        /\ SetState(o, s)
    BY <1>6, <1>8 DEF ToolsInterrupted
  <2> QED
    BY <1>0, <1>8, <2>1, FreePlaces, SameCheckpoints, NextIdGrows
       DEF ToolsInterrupted, Moves
<1>9. CASE ToolsUnrecorded(o)
  BY <1>0, <1>9, SameState, FreePlaces, NextIdGrows DEF ToolsUnrecorded, Moves, data
<1> QED
  BY <1>1, <1>2, <1>3, <1>4, <1>5, <1>7, <1>8, <1>9 DEF Reasoning

\* Planning: the execution a resume creates is for a reply no execution has.
LEMMA FencePlanning ==
    ASSUME TypeOK, TypeOK', FenceInv, NEW o \in Ops,
           RefuseRecovery(o) \/ ResumeCall(o) \/ ResumeStream(o) \/ PlanRecovery(o)
    PROVE  FenceInv'
<1>0. Running(o)
  BY DEF RefuseRecovery, ResumeCall, ResumeStream, PlanRecovery, At, Running
<1>1. CASE RefuseRecovery(o)
  <2>1. CASE job[o].mode = "call"
    BY <1>0, <1>1, <2>1, SameState, FreePlaces, NextIdGrows
       DEF RefuseRecovery, Moves, data
  <2>2. CASE job[o].mode # "call"
    BY <1>1, <2>2, PlainReturn DEF RefuseRecovery, data
  <2> QED
    BY <2>1, <2>2
<1>2. ASSUME NEW A \in SUBSET Calls, NewPlan(o, A), CanResume(State(o))
      PROVE  /\ plan'[o].reply = State(o).calls.reply
             /\ plan'[o].reply # 0
             /\ State(o).exec.reply = 0
             /\ \A p \in Ops \ {o} : plan'[p] = plan[p]
             /\ nextId <= nextId'
             /\ plan'[o] \in PendingToolExecution
  BY <1>2, NextIdGrows DEF NewPlan, CanResume, TypeOK
<1>3. CASE ResumeCall(o)
  <2>1. PICK A \in SUBSET Calls :
          /\ NewPlan(o, A)
          /\ IF A = {}
             THEN Goto(o, "record") /\ UNCHANGED view
             ELSE Goto(o, "persist") /\ SetState(o, Fenced(State(o), plan'[o]))
    BY <1>3 DEF ResumeCall
  <2>2. /\ plan'[o].reply = State(o).calls.reply
        /\ plan'[o].reply # 0
        /\ State(o).exec.reply = 0
        /\ \A p \in Ops \ {o} : plan'[p] = plan[p]
        /\ nextId <= nextId'
        /\ plan'[o] \in PendingToolExecution
    BY <1>2, <1>3, <2>1 DEF ResumeCall
  <2>3. CASE A = {}
    BY <1>0, <1>3, <2>1, <2>2, <2>3, SameState, FreePlaces
       DEF ResumeCall, ghosts
  <2>4. CASE A # {}
    <3> DEFINE s == Fenced(State(o), plan'[o])
    <3>1. s \in AgentState /\ s.calls = NoCalls /\ s.exec = plan'[o]
      BY <2>2, StateType, FencedType
    <3>2. SetState(o, s) /\ Goto(o, "persist")
      BY <2>1, <2>4
    <3>3. State(o)' = s
      BY <3>2, StateType DEF SetState, State, TypeOK
    <3> HIDE DEF s
    <3>4. /\ Running(o)' /\ PlanHeld(o)'
          /\ \A p \in Ops \ {o} : pc'[p] = pc[p]
      BY <2>2, <3>1, <3>2, <3>3 DEF Goto, Running, PlanHeld, TypeOK
    <3>5. s.calls.reply = 0 /\ s.exec.reply = State(o).calls.reply
      <4>1. NoCalls.reply = 0
        BY DEF NoCalls
      <4>2. plan'[o].reply = State(o).calls.reply
        BY <2>2
      <4>3. s.calls = NoCalls /\ s.exec = plan'[o]
        BY <3>1
      <4> QED
        BY <4>1, <4>2, <4>3
    <3>6. State(o).calls.reply < nextId' /\ 0 < nextId'
      <4>1. State(o).calls.reply \in Nat
        BY StateType DEF PendingToolCalls
      <4>2. State(o).calls.reply < nextId
        BY <1>0, RunningKnows DEF WellFormed
      <4>3. nextId \in Nat /\ nextId' \in Nat
        BY DEF TypeOK
      <4> QED
        BY <2>2, <4>1, <4>2, <4>3
    <3>7. base[o] = store.rev => Committable(s)
      BY <1>0, <2>2, <3>5, RunningKnows DEF Committable
    <3> QED
      BY <1>0, <1>3, <2>2, <3>1, <3>2, <3>4, <3>5, <3>6, <3>7, LocalStep
         DEF ResumeCall, SetState, ghosts
  <2> QED
    BY <2>3, <2>4
<1>4. CASE ResumeStream(o)
  <2>1. PICK A \in SUBSET Calls : NewPlan(o, A)
    BY <1>4 DEF ResumeStream
  <2>2. /\ plan'[o].reply = State(o).calls.reply
        /\ plan'[o].reply # 0
        /\ State(o).exec.reply = 0
        /\ \A p \in Ops \ {o} : plan'[p] = plan[p]
        /\ nextId <= nextId'
    BY <1>2, <1>4, <2>1 DEF ResumeStream
  <2>3. State(o)' = State(o)
    BY <1>4 DEF ResumeStream, State, data
  <2>4. /\ Running(o)' /\ PlanHeld(o)'
        /\ \A p \in Ops \ {o} : pc'[p] = pc[p]
    BY <1>4, <2>2, <2>3 DEF ResumeStream, Goto, Running, PlanHeld, TypeOK
  <2> QED
    BY <1>0, <1>4, <2>2, <2>4, SameState DEF ResumeStream, data, ghosts
<1>5. CASE PlanRecovery(o)
  <2>1. State(o)' = State(o)
    BY <1>5 DEF PlanRecovery, State, data
  <2>2. /\ Running(o)' /\ PlanHeld(o)'
        /\ \A p \in Ops \ {o} : pc'[p] = pc[p] /\ plan'[p] = plan[p]
    BY <1>5, <2>1 DEF PlanRecovery, CanRecover, Goto, Running, PlanHeld, TypeOK
  <2> QED
    BY <1>0, <1>5, <2>2, SameState, NextIdGrows DEF PlanRecovery, data, ghosts
<1> QED
  BY <1>1, <1>3, <1>4, <1>5

\* Executing: the checkpoint is saved before a call is invoked.
LEMMA FenceExecuting ==
    ASSUME TypeOK, TypeOK', FenceInv, NEW o \in Ops,
           \/ Setup(o) \/ SetupFails(o) \/ Persist(o) \/ PersistFails(o)
           \/ \E c \in Calls : Invoke(o, c)
           \/ ToolsSettle(o) \/ ToolsInDoubt(o)
    PROVE  FenceInv'
<1>0. Running(o)
  BY DEF Setup, SetupFails, Persist, PersistFails, Invoke, ToolsSettle,
         ToolsInDoubt, Running
<1>1. CASE Setup(o)
  <2>1. CASE job[o].kind = "resolve" \/ plan[o].approved = {}
    BY <1>0, <1>1, <2>1, SameState, FreePlaces, NextIdGrows DEF Setup, Moves
  <2>2. CASE ~(job[o].kind = "resolve" \/ plan[o].approved = {})
    <3> DEFINE s == Fenced(State(o), plan[o])
    <3>1. s \in AgentState /\ s.calls = NoCalls /\ s.exec = plan[o]
      BY StateType, FencedType DEF TypeOK
    <3>2. SetState(o, s) /\ Goto(o, "persist") /\ plan' = plan
      BY <1>1, <2>2 DEF Setup, Moves
    <3>3. State(o)' = s
      BY <3>2, StateType DEF SetState, State, TypeOK
    <3> HIDE DEF s
    <3>4. /\ plan[o].reply # 0
          /\ \/ State(o).exec = plan[o]
             \/ State(o).exec.reply = 0 /\ State(o).calls.reply = plan[o].reply
      BY <1>0, <1>1, RunningKnows DEF Setup, PlanHeld
    <3>5. /\ Running(o)' /\ PlanHeld(o)'
          /\ \A p \in Ops \ {o} : pc'[p] = pc[p] /\ plan'[p] = plan[p]
      BY <3>1, <3>2, <3>3, <3>4 DEF Goto, Running, PlanHeld, TypeOK
    <3>6. /\ s.calls.reply = 0
          /\ s.exec.reply = plan[o].reply
      BY <3>1 DEF NoCalls
    <3>7. s.exec.reply < nextId' /\ s.calls.reply < nextId' /\ nextId <= nextId'
      BY <1>0, <1>1, <3>4, <3>6, RunningKnows, NextIdGrows DEF WellFormed, Setup
    <3>8. base[o] = store.rev => Committable(s)
      BY <1>0, <3>1, <3>4, <3>6, RunningKnows DEF Committable
    <3> QED
      BY <1>0, <1>1, <2>2, <3>1, <3>2, <3>5, <3>6, <3>7, <3>8, LocalStep
         DEF Setup, Moves, SetState
  <2> QED
    BY <2>1, <2>2
<1>2. CASE SetupFails(o)
  BY <1>0, <1>2, SameState, FreePlaces, NextIdGrows DEF SetupFails, Moves, data
<1>3. CASE Persist(o)
  <2>1. /\ base[o] \in Nat /\ State(o) \in AgentState /\ WellFormed(State(o))
        /\ Committable(State(o)) /\ Commits(base[o], State(o))
        /\ fenced \subseteq fenced'
        /\ State(o).exec.reply # 0 => State(o).exec \in fenced'
    BY <1>0, <1>3, SavedHarmless DEF Persist
  <2>2. plan[o].reply # 0 /\ State(o).exec = plan[o]
    BY <1>0, <1>3, RunningKnows DEF Persist, PlanHeld
  <2>3. /\ pc'[o] = "invoke" /\ plan'[o] = plan[o]
        /\ \A p \in Ops \ {o} : pc'[p] = pc[p] /\ plan'[p] = plan[p]
    BY <1>3 DEF Persist, Goto, TypeOK
  <2>4. PlanHeld(o)'
    BY <2>1, <2>2, <2>3 DEF PlanHeld
  <2>5. PlansHeld'
    BY <1>3, <2>1, <2>3, <2>4, OthersHeld DEF PlansHeld, Persist
  <2>6. LockHeld'
    BY <1>0, <1>3, <2>3 DEF Persist, FenceInv, LockHeld, Running
  <2>7. \A p \in Ops : \/ base'[p] = base[p]
                       \/ base'[p] = base[o] + 1 /\ State(p) = State(o)
    BY <1>3 DEF Persist, TypeOK
  <2> QED
    BY <1>3, <2>1, <2>5, <2>6, <2>7, CommitStep DEF Persist
<1>4. CASE PersistFails(o)
  <2>1. /\ PlanHeld(o)' /\ Running(o)'
        /\ \A p \in Ops \ {o} : pc'[p] = pc[p] /\ plan'[p] = plan[p]
    BY <1>4, FreePlaces DEF PersistFails, Moves
  <2>2. CASE UNCHANGED <<store, fenced>>
    BY <1>0, <1>4, <2>1, <2>2, SameState, NextIdGrows DEF PersistFails, Moves
  <2>3. CASE SaveSucceeds(o)
    <3>1. /\ base[o] \in Nat /\ State(o) \in AgentState /\ WellFormed(State(o))
          /\ Committable(State(o)) /\ Commits(base[o], State(o))
          /\ fenced \subseteq fenced'
      BY <1>0, <2>3, SavedHarmless
    <3>2. PlansHeld'
      BY <1>4, <2>1, <3>1, OthersHeld DEF PlansHeld, PersistFails
    <3>3. LockHeld'
      BY <1>0, <1>4, <2>1 DEF PersistFails, Moves, FenceInv, LockHeld, Running
    <3> QED
      BY <1>4, <3>1, <3>2, <3>3, CommitStep DEF PersistFails, Moves
  <2> QED
    BY <1>4, <2>2, <2>3 DEF PersistFails, SaveFails
<1>5. ASSUME NEW c \in Calls, Invoke(o, c) PROVE FenceInv'
  <2>1. plan[o] \in fenced
    BY <1>0, <1>5, RunningKnows DEF Invoke, PlanHeld
  <2>2. FencedFirst'
    BY <1>5, <2>1 DEF Invoke, FenceInv, FencedFirst
  <2> QED
    BY <1>5, <2>2 DEF Invoke, data, FenceInv, LockHeld, Running,
       StatesWellFormed, WellFormed, RevisionsKnown, CommitsHarmless,
       Committable, Unfenced, FencedOnce, PlansHeld, PlanHeld, State
<1>6. CASE ToolsSettle(o)
  BY <1>0, <1>6, SameState, FreePlaces, NextIdGrows DEF ToolsSettle, Moves, data
<1>7. CASE ToolsInDoubt(o)
  BY <1>0, <1>7, SameState, FreePlaces, NextIdGrows DEF ToolsInDoubt, Moves, data
<1> QED
  BY <1>1, <1>2, <1>3, <1>4, <1>5, <1>6, <1>7

\* Recording: results enter the history, the checkpoints are cleared.
LEMMA FenceRecording ==
    ASSUME TypeOK, TypeOK', FenceInv, NEW o \in Ops,
           \/ RecordResults(o) \/ RecordFails(o) \/ ReplaceFails(o)
           \/ RecordAndClear(o) \/ Commit(o) \/ Continue(o) \/ HooksFail(o)
    PROVE  FenceInv'
<1>0. Running(o) /\ plan[o].reply \in Nat /\ State(o) \in AgentState
  BY StateType
     DEF RecordResults, RecordFails, ReplaceFails, RecordAndClear, Commit, Continue,
         HooksFail, Running, TypeOK, PendingToolExecution
<1>1. CASE RecordResults(o)
  <2> DEFINE s == WithResults(State(o), plan[o].reply)
  <2>1. s \in AgentState /\ s.calls = State(o).calls /\ s.exec = State(o).exec
    BY <1>0, ResultsType
  <2> QED
    BY <1>0, <1>1, <2>1, SameCheckpoints, FreePlaces, NextIdGrows
       DEF RecordResults, Moves
<1>2. CASE RecordFails(o)
  <2> DEFINE s == [State(o) EXCEPT
                      !.hist = FinishCheckpointCalls(@, plan[o].reply)]
  <2>1. s \in AgentState /\ s.calls = State(o).calls /\ s.exec = State(o).exec
    BY <1>0, FinishType DEF AgentState
  <2> QED
    BY <1>0, <1>2, <2>1, SameCheckpoints, FreePlaces, NextIdGrows
       DEF RecordFails, Moves
<1>3. CASE ReplaceFails(o)
  BY <1>0, <1>3, SameState, FreePlaces, NextIdGrows DEF ReplaceFails, Moves, data
<1>4. ASSUME NEW r \in AgentState
      PROVE  /\ Cleared(r) \in AgentState
             /\ Cleared(r).calls.reply = 0
             /\ Cleared(r).exec.reply = 0
             /\ Committable(Cleared(r))
  BY ClearedType DEF NoCalls, NoExecution, Committable
<1>5. CASE RecordAndClear(o)
  <2> DEFINE r == WithResults(State(o), plan[o].reply)
             s == Cleared(r)
  <2>1. r \in AgentState
    BY <1>0, ResultsType
  <2> HIDE DEF r
  <2>2. /\ s \in AgentState /\ s.calls.reply = 0 /\ s.exec.reply = 0
        /\ Committable(s)
    BY <1>4, <2>1
  <2>3. SetState(o, s)
    BY <1>5 DEF RecordAndClear, r
  <2>4. 0 < nextId' /\ nextId <= nextId'
    BY <1>5 DEF RecordAndClear, TypeOK
  <2>5. /\ PlanHeld(o)' /\ Running(o)'
        /\ \A p \in Ops \ {o} : pc'[p] = pc[p] /\ plan'[p] = plan[p]
    BY <1>5, FreePlaces DEF RecordAndClear, Moves
  <2> QED
    BY <1>0, <1>5, <2>2, <2>3, <2>4, <2>5, LocalStep
       DEF RecordAndClear, Moves, SetState
<1>6. CASE Commit(o)
  <2>1. /\ base[o] \in Nat /\ State(o) \in AgentState /\ WellFormed(State(o))
        /\ Committable(State(o)) /\ Commits(base[o], State(o))
        /\ fenced \subseteq fenced'
    BY <1>0, <1>6, SavedHarmless DEF Commit
  <2>2. /\ PlanHeld(o)' /\ Running(o)'
        /\ \A p \in Ops \ {o} : pc'[p] = pc[p] /\ plan'[p] = plan[p]
    BY <1>6, FreePlaces DEF Commit
  <2>3. PlansHeld'
    BY <1>6, <2>1, <2>2, OthersHeld DEF PlansHeld, Commit
  <2>4. LockHeld'
    BY <1>0, <1>6, <2>2 DEF Commit, FenceInv, LockHeld, Running
  <2>5. \A p \in Ops : \/ base'[p] = base[p]
                       \/ base'[p] = base[o] + 1 /\ State(p) = State(o)
    BY <1>6 DEF Commit, TypeOK
  <2> QED
    BY <1>6, <2>1, <2>3, <2>4, <2>5, CommitStep DEF Commit
<1>7. CASE Continue(o)
  <2> DEFINE s == Cleared(State(o))
  <2>1. /\ s \in AgentState /\ s.calls.reply = 0 /\ s.exec.reply = 0
        /\ Committable(s)
    BY <1>0, <1>4
  <2>2. SetState(o, s)
    BY <1>7 DEF Continue
  <2>3. State(o)' = s
    BY <1>0, <2>2 DEF SetState, State, TypeOK
  <2> HIDE DEF s
  <2>4. 0 < nextId' /\ nextId <= nextId'
    BY <1>7 DEF Continue, TypeOK
  <2>5. /\ PlanHeld(o)' /\ Running(o)'
        /\ \A p \in Ops \ {o} : pc'[p] = pc[p] /\ plan'[p] = plan[p]
    BY <1>7, <2>1, <2>3 DEF Continue, Goto, PlanHeld, Running, TypeOK
  <2> QED
    BY <1>0, <1>7, <2>1, <2>2, <2>4, <2>5, LocalStep
       DEF Continue, SetState, ghosts
<1>8. CASE HooksFail(o)
  BY <1>0, <1>8, SameState, FreePlaces, NextIdGrows DEF HooksFail, Moves, data
<1> QED
  BY <1>1, <1>2, <1>3, <1>5, <1>6, <1>7, <1>8

LEMMA FenceEnding ==
    ASSUME TypeOK, TypeOK', FenceInv, NEW o \in Ops, Ending(o)
    PROVE  FenceInv'
<1>0. Running(o) /\ Return(o)
  BY DEF Ending, Finish, FinishFails, Running
<1>1. ASSUME SaveSucceeds(o), UNCHANGED <<orphans, view, nextId, invoked>>
      PROVE  FenceInv'
  <2>1. /\ base[o] \in Nat /\ State(o) \in AgentState /\ WellFormed(State(o))
        /\ Committable(State(o)) /\ Commits(base[o], State(o))
        /\ fenced \subseteq fenced'
    BY <1>0, <1>1, SavedHarmless
  <2>2. PlansHeld'
    BY <1>0, <1>1, <2>1, ReturnedHeld, OthersHeld DEF PlansHeld
  <2>3. LockHeld'
    BY <1>0, ReturnLock
  <2>4. \A p \in Ops : base'[p] = base[p] \/ base'[p] = 0
    BY <1>0, ReturnedHeld
  <2> QED
    BY <1>1, <2>1, <2>2, <2>3, <2>4, CommitStep
<1>2. CASE Finish(o)
  BY <1>1, <1>2 DEF Finish
<1>3. CASE FinishFails(o)
  <2>1. CASE UNCHANGED <<store, fenced>>
    BY <1>0, <1>3, <2>1, PlainReturn DEF FinishFails
  <2>2. CASE SaveSucceeds(o)
    BY <1>1, <1>3, <2>2 DEF FinishFails
  <2> QED
    BY <1>3, <2>1, <2>2 DEF FinishFails, SaveFails
<1> QED
  BY <1>2, <1>3 DEF Ending

LEMMA FenceEnvironment ==
    ASSUME TypeOK, TypeOK', FenceInv, Environment
    PROVE  FenceInv'
<1>1. ASSUME NEW a \in Agents, Interrupt(a) PROVE FenceInv'
  BY <1>1 DEF Interrupt, data, FenceInv, LockHeld, Running, StatesWellFormed,
     WellFormed, RevisionsKnown, CommitsHarmless, Committable, Unfenced,
     FencedOnce, PlansHeld, PlanHeld, State, FencedFirst
<1>2. ASSUME NEW a \in Agents, Crash(a) PROVE FenceInv'
  <2>1. /\ \A p \in Ops : Owner[p] = a => ~Running(p)' /\ base'[p] = 0
        /\ \A p \in Ops : Owner[p] # a =>
              /\ pc'[p] = pc[p] /\ plan'[p] = plan[p] /\ base'[p] = base[p]
              /\ State(p)' = State(p)
              /\ lock'[Owner[p]] = lock[Owner[p]]
    BY <1>2, SessionAssumption DEF Crash, Running, State, TypeOK
  <2>2. LockHeld'
    BY <2>1 DEF FenceInv, LockHeld, Running
  <2>3. StatesWellFormed'
    <3>1. WellFormed(EmptyState)'
      BY ConstantTypes DEF WellFormed, NoCalls, NoExecution, TypeOK
    <3>2. \A b \in Agents : view'[b] = view[b] \/ view'[b] = EmptyState
      BY <1>2 DEF Crash, TypeOK
    <3> QED
      BY <1>2, <3>1, <3>2 DEF Crash, FenceInv, StatesWellFormed, WellFormed
  <2>4. RevisionsKnown'
    BY <1>2, <2>1 DEF Crash, FenceInv, RevisionsKnown, TypeOK
  <2>5. CommitsHarmless'
    <3>1. \A t : Committable(t)' <=> Committable(t)
      BY <1>2 DEF Crash, Committable, Unfenced
    <3>2. \A p \in Ops : Running(p)' => Running(p) /\ Owner[p] # a
      BY <2>1 DEF Running
    <3> QED
      BY <1>2, <2>1, <3>1, <3>2 DEF Crash, FenceInv, CommitsHarmless
  <2>6. FencedOnce' /\ FencedFirst'
    BY <1>2 DEF Crash, FenceInv, FencedOnce, FencedFirst
  <2>7. PlansHeld'
    <3>1. ASSUME NEW p \in Ops, Owner[p] = a PROVE PlanHeld(p)'
      BY <2>1, <3>1 DEF PlanHeld, Running
    <3>2. ASSUME NEW p \in Ops, Owner[p] # a PROVE PlanHeld(p)'
      BY <1>2, <2>1, <3>2 DEF Crash, FenceInv, PlansHeld, PlanHeld
    <3> QED
      BY <3>1, <3>2 DEF PlansHeld
  <2> QED
    BY <2>2, <2>3, <2>4, <2>5, <2>6, <2>7 DEF FenceInv
<1>3. ASSUME NEW w \in orphans, OrphanCommits(w) PROVE FenceInv'
  <2>1. /\ w.base \in Nat /\ w.state \in AgentState
        /\ Commits(w.base, w.state)
        /\ w.base = store.rev
        /\ fenced \subseteq fenced'
    BY <1>3 DEF OrphanCommits, Commits, TypeOK
  <2>2. WellFormed(w.state) /\ Committable(w.state)
    BY <2>1 DEF FenceInv, StatesWellFormed, CommitsHarmless
  <2>3. PlansHeld'
    BY <1>3, <2>1, OthersHeld DEF OrphanCommits, control, PlansHeld
  <2>4. LockHeld'
    BY <1>3 DEF OrphanCommits, control, FenceInv, LockHeld, Running
  <2> QED
    BY <1>3, <2>1, <2>2, <2>3, <2>4, CommitStep DEF OrphanCommits, control
<1>4. ASSUME NEW w \in orphans, OrphanLost(w) PROVE FenceInv'
  BY <1>4 DEF OrphanLost, control, ghosts, FenceInv, LockHeld, Running,
     StatesWellFormed, WellFormed, RevisionsKnown, CommitsHarmless, Committable,
     Unfenced, FencedOnce, PlansHeld, PlanHeld, State, FencedFirst
<1> QED
  BY <1>1, <1>2, <1>3, <1>4 DEF Environment

LEMMA FenceStep == TypeOK /\ TypeOK' /\ FenceInv /\ [Next]_vars => FenceInv'
<1> SUFFICES ASSUME TypeOK, TypeOK', FenceInv, [Next]_vars PROVE FenceInv'
  OBVIOUS
<1>1. ASSUME NEW o \in Ops, Call(o) \/ Start(o) \/ Drop(o) PROVE FenceInv'
  BY <1>1, FenceStart
<1>2. ASSUME NEW o \in Ops, Progress(o) PROVE FenceInv'
  BY <1>2, FenceEntry, FenceReasoning, FencePlanning, FenceExecuting,
     FenceRecording, FenceEnding DEF Progress, Recovery
<1>3. CASE Environment
  BY <1>3, FenceEnvironment
<1>4. CASE UNCHANGED vars
  BY <1>4 DEF vars, FenceInv, LockHeld, Running, StatesWellFormed, WellFormed,
     RevisionsKnown, CommitsHarmless, Committable, Unfenced, FencedOnce,
     PlansHeld, PlanHeld, State, FencedFirst
<1> QED
  BY <1>1, <1>2, <1>3, <1>4 DEF Next

\* The inductive invariant: no compare-and-swap that could still succeed gives
\* a reply a second execution checkpoint.
THEOREM Fencing == Spec => []FenceInv
<1>1. Init /\ TypeOK => FenceInv
  BY FenceInit
<1>2. TypeOK /\ TypeOK' /\ FenceInv /\ [Next]_vars => FenceInv'
  BY FenceStep
<1> QED
  BY <1>1, <1>2, TypeCorrect, PTL DEF Spec

\* Whatever callers, instances, crashes, dropped futures and late saves there
\* are, every invocation for the confirmed calls of one reply carries the same
\* execution checkpoint, hence the same idempotency key.
THEOREM OneKey == Spec => []OneKeyPerCall
<1>1. FenceInv => OneKeyPerCall
  BY DEF FenceInv, FencedOnce, FencedFirst, OneKeyPerCall
<1> QED
  BY <1>1, Fencing, PTL

\* No confirmed tool runs before its execution checkpoint is durable.
THEOREM DurableFirst == Spec => []FencedFirst
<1>1. FenceInv => FencedFirst
  BY DEF FenceInv
<1> QED
  BY <1>1, Fencing, PTL

-----------------------------------------------------------------------------

(* One owner per claim: a revision has one committer.                       *)

\* Nothing is invoked, and nobody begins to.
NoneInvoked ==
    /\ invoked' = invoked
    /\ store'.rev >= store.rev
    /\ \A p \in Ops : pc'[p] = "invoke" =>
          pc[p] = "invoke" /\ base'[p] = base[p] /\ todo'[p] = todo[p]

LEMMA ClaimKept ==
    ASSUME TypeOK, TypeOK', ClaimInv, NoneInvoked
    PROVE  ClaimInv'
<1>1. /\ store.rev \in Nat /\ store'.rev \in Nat /\ store'.rev >= store.rev
      /\ invoked' = invoked
      /\ \A i \in invoked : i.claim \in Nat
  BY DEF TypeOK, NoneInvoked
<1>2. \A i \in invoked' : i.claim <= store'.rev
  BY <1>1 DEF ClaimInv
<1>3. \A o \in Ops : pc'[o] = "invoke" =>
         /\ \A i \in invoked' : i.claim = base'[o] => i.call \notin todo'[o]
         /\ \A p \in Ops : pc'[p] = "invoke" /\ base'[p] = base'[o] => p = o
  BY DEF ClaimInv, NoneInvoked
<1> QED
  BY <1>2, <1>3 DEF ClaimInv

\* The store changes only by a commit, which advances the revision.
LEMMA CommitAdvances ==
    ASSUME TypeOK, NEW e, NEW s, Commits(e, s)
    PROVE  store.rev = e /\ store'.rev = store.rev + 1 /\ store'.rev >= store.rev
BY DEF TypeOK, Commits

LEMMA SaveAdvances ==
    ASSUME TypeOK, NEW o \in Ops, SaveFails(o)
    PROVE  store'.rev >= store.rev
BY CommitAdvances DEF TypeOK, SaveFails, SaveSucceeds

LEMMA OthersStay ==
    ASSUME TypeOK, NEW o \in Ops, invoked' = invoked, store'.rev >= store.rev,
           \/ Return(o)
           \/ \E where \in PCs \ {"invoke"} : Goto(o, where),
           \/ Return(o)
           \/ \A p \in Ops \ {o} : base'[p] = base[p] /\ todo'[p] = todo[p]
    PROVE  NoneInvoked
<1>1. /\ pc'[o] # "invoke"
      /\ \A p \in Ops \ {o} : pc'[p] = pc[p] /\ base'[p] = base[p] /\ todo'[p] = todo[p]
  BY DEF Return, Goto, TypeOK
<1> QED
  BY <1>1 DEF NoneInvoked

LEMMA StartNoneInvoked ==
    ASSUME TypeOK, NEW o \in Ops, Call(o) \/ Start(o) \/ Drop(o) \/ Entry(o)
    PROVE  NoneInvoked
<1>1. store.rev >= store.rev
  BY DEF TypeOK
<1>2. CASE Call(o)
  BY <1>1, <1>2, OthersStay DEF Call, data, ghosts, PCs
<1>3. CASE Begin(o)
  BY <1>1, <1>3, OthersStay DEF Begin, ghosts, PCs, TypeOK
<1>4. CASE BeginFails(o) \/ Drop(o) \/ Snapshot(o)
  BY <1>1, <1>4, OthersStay DEF BeginFails, Drop, Snapshot, data
<1>5. CASE Observe(o) \/ AcceptReply(o) \/ Refuse(o)
  BY <1>1, <1>5, OthersStay DEF Observe, AcceptReply, Refuse, Moves, PCs, data
<1> QED
  BY <1>2, <1>3, <1>4, <1>5 DEF Start, Entry

LEMMA ReasoningNoneInvoked ==
    ASSUME TypeOK, NEW o \in Ops, Reasoning(o)
    PROVE  NoneInvoked
<1>1. store.rev >= store.rev
  BY DEF TypeOK
<1>2. CASE ModelFails(o) \/ ModelAnswers(o) \/ ModelExhausted(o) \/ PauseForConfirmation(o)
  BY <1>1, <1>2, OthersStay DEF ModelFails, ModelAnswers, ModelExhausted,
     PauseForConfirmation, Moves, PCs, data
<1>3. CASE CallTools(o) \/ ToolsReturn(o)
  BY <1>1, <1>3, OthersStay DEF CallTools, ToolsReturn, PCs, ghosts
<1>4. CASE ToolsInterrupted(o) \/ ToolsUnrecorded(o)
  BY <1>1, <1>4, OthersStay DEF ToolsInterrupted, ToolsUnrecorded, Moves, PCs, data
<1> QED
  BY <1>2, <1>3, <1>4 DEF Reasoning

LEMMA RecoveryNoneInvoked ==
    ASSUME TypeOK, NEW o \in Ops, Recovery(o), ~Persist(o), \A c \in Calls : ~Invoke(o, c)
    PROVE  NoneInvoked
<1>1. store.rev >= store.rev
  BY DEF TypeOK
<1>2. CASE RefuseRecovery(o)
  BY <1>1, <1>2, OthersStay DEF RefuseRecovery, Moves, PCs, data
<1>3. CASE ResumeCall(o) \/ ResumeStream(o) \/ PlanRecovery(o)
  BY <1>1, <1>3, OthersStay DEF ResumeCall, ResumeStream, PlanRecovery, PCs, data, ghosts
<1>4. CASE Setup(o) \/ SetupFails(o)
  BY <1>1, <1>4, OthersStay DEF Setup, SetupFails, Moves, PCs, data
<1>5. CASE PersistFails(o)
  BY <1>5, SaveAdvances, OthersStay DEF PersistFails, Moves, PCs
<1>6. CASE ToolsSettle(o) \/ ToolsInDoubt(o) \/ RecordResults(o) \/ RecordFails(o)
           \/ ReplaceFails(o) \/ RecordAndClear(o) \/ HooksFail(o)
  BY <1>1, <1>6, OthersStay DEF ToolsSettle, ToolsInDoubt, RecordResults, RecordFails,
     ReplaceFails, RecordAndClear, HooksFail, Moves, PCs, data
<1>7. CASE Commit(o)
  <2>1. store'.rev >= store.rev
    BY <1>7, CommitAdvances DEF Commit, SaveSucceeds
  <2> QED
    BY <1>7, <2>1, OthersStay DEF Commit, PCs, TypeOK
<1>8. CASE Continue(o)
  BY <1>1, <1>8, OthersStay DEF Continue, PCs, ghosts
<1> QED
  BY <1>2, <1>3, <1>4, <1>5, <1>6, <1>7, <1>8 DEF Recovery

LEMMA EndingNoneInvoked ==
    ASSUME TypeOK, NEW o \in Ops, Ending(o)
    PROVE  NoneInvoked
<1>1. store'.rev >= store.rev
  BY CommitAdvances, SaveAdvances DEF Ending, Finish, FinishFails, SaveSucceeds
<1> QED
  BY <1>1, OthersStay DEF Ending, Finish, FinishFails

LEMMA EnvironmentNoneInvoked ==
    ASSUME TypeOK, Environment
    PROVE  NoneInvoked
<1>1. store.rev >= store.rev
  BY DEF TypeOK
<1>2. ASSUME NEW a \in Agents, Interrupt(a) \/ Crash(a) PROVE NoneInvoked
  BY <1>1, <1>2 DEF Interrupt, Crash, data, NoneInvoked
<1>3. ASSUME NEW w \in orphans, OrphanCommits(w) \/ OrphanLost(w) PROVE NoneInvoked
  BY <1>1, <1>3, CommitAdvances DEF OrphanCommits, OrphanLost, control, ghosts, NoneInvoked
<1> QED
  BY <1>2, <1>3 DEF Environment

\* Persist claims the revision it creates: no other operation expects it, and
\* nothing was invoked under it.
LEMMA ClaimPersist ==
    ASSUME TypeOK, TypeOK', FenceInv, ClaimInv, NEW o \in Ops, Persist(o)
    PROVE  ClaimInv'
<1> DEFINE r == store.rev + 1
<1>1. /\ store.rev = base[o] /\ store.rev \in Nat /\ r \in Nat
      /\ store'.rev = r /\ base'[o] = r /\ invoked' = invoked
      /\ \A p \in Ops \ {o} : pc'[p] = pc[p] /\ base'[p] = base[p] /\ todo'[p] = todo[p]
  BY DEF Persist, SaveSucceeds, Commits, Goto, TypeOK
<1>2. \A i \in invoked : i.claim \in Nat /\ i.claim <= store.rev
  BY DEF TypeOK, ClaimInv
<1>3. \A p \in Ops : base[p] \in Nat /\ base[p] <= store.rev
  BY DEF TypeOK, FenceInv, RevisionsKnown
<1>4. \A i \in invoked : i.claim <= r /\ i.claim # r
  BY <1>1, <1>2
<1>5. \A p \in Ops \ {o} : base'[p] # r
  BY <1>1, <1>3
<1> HIDE DEF r
<1>6. \A p \in Ops : pc'[p] = "invoke" =>
         /\ \A i \in invoked' : i.claim = base'[p] => i.call \notin todo'[p]
         /\ \A q \in Ops : pc'[q] = "invoke" /\ base'[q] = base'[p] => q = p
  BY <1>1, <1>4, <1>5 DEF ClaimInv
<1> QED
  BY <1>1, <1>4, <1>6 DEF ClaimInv

\* Invoke takes the call from what is left to do under the claim.
LEMMA ClaimInvoke ==
    ASSUME TypeOK, TypeOK', FenceInv, ClaimInv, NEW o \in Ops, NEW c \in Calls, Invoke(o, c)
    PROVE  /\ ClaimInv'
           /\ ~\E i \in invoked : i.claim = base[o] /\ i.call = c
<1> DEFINE i == [exec |-> plan[o], call |-> c, claim |-> base[o]]
<1>1. /\ pc[o] = "invoke" /\ pc' = pc /\ base' = base /\ store' = store
      /\ c \in todo[o] /\ todo'[o] = todo[o] \ {c}
      /\ \A p \in Ops \ {o} : todo'[p] = todo[p]
      /\ invoked' = invoked \cup {i}
  BY DEF Invoke, data, TypeOK
<1>2. i.claim = base[o] /\ i.call = c /\ base[o] <= store.rev
  BY DEF FenceInv, RevisionsKnown
<1> HIDE DEF i
<1>3. \A p \in Ops : pc'[p] = "invoke" /\ base[p] = base[o] => p = o
  BY <1>1 DEF ClaimInv
<1>4. \A p \in Ops : pc'[p] = "invoke" =>
         \A j \in invoked' : j.claim = base'[p] => j.call \notin todo'[p]
  BY <1>1, <1>2, <1>3 DEF ClaimInv
<1>5. \A j \in invoked : ~(j.claim = base[o] /\ j.call = c)
  BY <1>1 DEF ClaimInv
<1> QED
  BY <1>1, <1>2, <1>4, <1>5 DEF ClaimInv

LEMMA ClaimStep == TypeOK /\ TypeOK' /\ FenceInv /\ ClaimInv /\ [Next]_vars => ClaimInv'
<1> SUFFICES ASSUME TypeOK, TypeOK', FenceInv, ClaimInv, [Next]_vars PROVE ClaimInv'
  OBVIOUS
<1>1. ASSUME NEW o \in Ops, Call(o) \/ Start(o) \/ Progress(o) \/ Drop(o) PROVE ClaimInv'
  <2>1. CASE Persist(o)
    BY <2>1, ClaimPersist
  <2>2. CASE \E c \in Calls : Invoke(o, c)
    BY <2>2, ClaimInvoke
  <2>3. CASE ~Persist(o) /\ \A c \in Calls : ~Invoke(o, c)
    <3>1. NoneInvoked
      BY <1>1, <2>3, StartNoneInvoked, ReasoningNoneInvoked, RecoveryNoneInvoked,
         EndingNoneInvoked DEF Progress
    <3> QED
      BY <3>1, ClaimKept
  <2> QED
    BY <2>1, <2>2, <2>3
<1>2. CASE Environment
  BY <1>2, EnvironmentNoneInvoked, ClaimKept
<1>3. CASE UNCHANGED vars
  BY <1>3, ClaimKept DEF vars, NoneInvoked, TypeOK
<1> QED
  BY <1>1, <1>2, <1>3 DEF Next

\* begin_store_operation and persist_state_operation: the revision an operation
\* has committed before it runs confirmed tools licenses that operation alone,
\* across instances, clones, crashes and late saves.
THEOREM OneOwner == Spec => OncePerClaim
<1>1. Init => ClaimInv
  BY DEF Init, Quiet, ClaimInv
<1>2. ASSUME TypeOK, TypeOK', FenceInv, ClaimInv
      PROVE  \A o \in Ops, c \in Calls : Invoke(o, c) =>
                ~\E i \in invoked : i.claim = base[o] /\ i.call = c
  BY <1>2, ClaimInvoke
<1> QED
  BY <1>1, <1>2, ClaimStep, TypeCorrect, Fencing, PTL DEF Spec, OncePerClaim

-----------------------------------------------------------------------------
(* Histories: what appending and finishing do to them.                      *)

LEMMA AppendMsgs ==
    ASSUME NEW h \in Seq(Msg), NEW m \in Msg
    PROVE  LET g == Append(h, m)
           IN  /\ Len(g) = Len(h) + 1 /\ Len(h) \in Nat
               /\ DOMAIN h = 1 .. Len(h) /\ DOMAIN g = DOMAIN h \cup {Len(h) + 1}
               /\ \A j \in DOMAIN h : g[j] = h[j]
               /\ g[Len(h) + 1] = m
               /\ MsgsOf(g) = MsgsOf(h) \cup {m}
<1> DEFINE g == Append(h, m)
<1>1. /\ Len(g) = Len(h) + 1 /\ Len(h) \in Nat
      /\ DOMAIN h = 1 .. Len(h) /\ DOMAIN g = 1 .. Len(h) + 1
      /\ g[Len(h) + 1] = m
      /\ \A j \in 1 .. Len(h) : g[j] = h[j]
  OBVIOUS
<1>2. DOMAIN g = DOMAIN h \cup {Len(h) + 1}
  BY <1>1
<1> HIDE DEF g
<1>3. MsgsOf(g) = MsgsOf(h) \cup {m}
  BY <1>1, <1>2 DEF MsgsOf
<1> QED
  BY <1>1, <1>2, <1>3 DEF g

\* The message that Remember adds.
LEMMA RememberMsg ==
    ASSUME NEW s \in AgentState, NEW k \in MsgKinds, NEW i \in Nat
    PROVE  \E m \in Msg : /\ m.kind = k /\ m.id = i /\ m = [kind |-> k, id |-> i]
                          /\ Remember(s, k, i).hist = Append(s.hist, m)
<1>1. [kind |-> k, id |-> i] \in Msg
  BY DEF Msg
<1>2. Remember(s, k, i).hist = Append(s.hist, [kind |-> k, id |-> i])
  BY DEF Remember, AgentState
<1> QED
  BY <1>1, <1>2

LEMMA RememberFacts ==
    ASSUME NEW s \in AgentState, NEW k \in MsgKinds, NEW i \in Nat
    PROVE  /\ Remember(s, k, i) \in AgentState
           /\ Len(Remember(s, k, i).hist) = Len(s.hist) + 1
           /\ \A j \in DOMAIN s.hist : Remember(s, k, i).hist[j] = s.hist[j]
           /\ Remember(s, k, i).hist[Len(s.hist) + 1] = [kind |-> k, id |-> i]
           /\ MsgsOf(Remember(s, k, i).hist) = MsgsOf(s.hist) \cup {[kind |-> k, id |-> i]}
           /\ DOMAIN s.hist = 1 .. Len(s.hist) /\ Len(s.hist) \in Nat
<1>1. PICK m \in Msg : /\ m = [kind |-> k, id |-> i]
                       /\ Remember(s, k, i).hist = Append(s.hist, m)
  BY RememberMsg
<1>2. s.hist \in Seq(Msg)
  BY DEF AgentState
<1> DEFINE g == Remember(s, k, i).hist
<1>3. g = Append(s.hist, m)
  BY <1>1
<1> HIDE DEF g
<1>4. /\ Len(g) = Len(s.hist) + 1 /\ \A j \in DOMAIN s.hist : g[j] = s.hist[j]
      /\ g[Len(s.hist) + 1] = m /\ MsgsOf(g) = MsgsOf(s.hist) \cup {m}
      /\ DOMAIN s.hist = 1 .. Len(s.hist) /\ Len(s.hist) \in Nat
  BY <1>2, <1>3, AppendMsgs
<1>5. Remember(s, k, i) \in AgentState
  BY RememberType
<1>6. m = [kind |-> k, id |-> i]
  BY <1>1
<1> QED
  BY <1>4, <1>5, <1>6, Zenon DEF g

LEMMA FinishFacts ==
    ASSUME NEW h \in Seq(Msg), NEW r \in Nat
    PROVE  /\ FinishCheckpointCalls(h, r) \in Seq(Msg)
           /\ Len(FinishCheckpointCalls(h, r)) = Len(h)
           /\ DOMAIN FinishCheckpointCalls(h, r) = DOMAIN h
           /\ \A j \in DOMAIN h : FinishCheckpointCalls(h, r)[j] =
                 IF h[j] = [kind |-> "asking", id |-> r]
                 THEN [kind |-> "finished", id |-> r] ELSE h[j]
<1>1. FinishCheckpointCalls(h, r) \in Seq(Msg)
  BY FinishType
<1>2. /\ DOMAIN FinishCheckpointCalls(h, r) = DOMAIN h
      /\ \A j \in DOMAIN h : FinishCheckpointCalls(h, r)[j] =
            IF h[j] = [kind |-> "asking", id |-> r]
            THEN [kind |-> "finished", id |-> r] ELSE h[j]
  BY DEF FinishCheckpointCalls
<1>3. Len(FinishCheckpointCalls(h, r)) = Len(h)
  BY <1>1, <1>2
<1> QED
  BY <1>1, <1>2, <1>3

\* Finishing the calls of r changes them alone, and leaves none of them asking.
LEMMA FinishMsgs ==
    ASSUME NEW h \in Seq(Msg), NEW r \in Nat
    PROVE  LET g == FinishCheckpointCalls(h, r)
           IN  /\ ~CheckpointMessage(g, r)
               /\ \A m \in MsgsOf(g) : \/ m \in MsgsOf(h)
                                       \/ m = [kind |-> "finished", id |-> r]
               /\ \A m \in MsgsOf(h) : m # [kind |-> "asking", id |-> r] => m \in MsgsOf(g)
               /\ CheckpointMessage(h, r) => [kind |-> "finished", id |-> r] \in MsgsOf(g)
<1> DEFINE ask == [kind |-> "asking", id |-> r]
           done == [kind |-> "finished", id |-> r]
           g == FinishCheckpointCalls(h, r)
<1>1. /\ DOMAIN g = DOMAIN h
      /\ \A j \in DOMAIN h : g[j] = IF h[j] = ask THEN done ELSE h[j]
  BY FinishFacts
<1>2. ask # done
  OBVIOUS
<1> HIDE DEF ask, done, g
<1>3. ask \notin MsgsOf(g)
  BY <1>1, <1>2 DEF MsgsOf
<1>4. \A m \in MsgsOf(g) : m \in MsgsOf(h) \/ m = done
  BY <1>1 DEF MsgsOf
<1>5. \A m \in MsgsOf(h) : m # ask => m \in MsgsOf(g)
  BY <1>1 DEF MsgsOf
<1>6. ask \in MsgsOf(h) => done \in MsgsOf(g)
  BY <1>1 DEF MsgsOf
<1> QED
  BY <1>3, <1>4, <1>5, <1>6 DEF CheckpointMessage, ask, done, g

LEMMA ExtendsReflexive ==
    ASSUME NEW h \in Seq(Msg)
    PROVE  Extends(h, h)
BY DEF Extends

LEMMA ExtendsTransitive ==
    ASSUME NEW f \in Seq(Msg), NEW g \in Seq(Msg), NEW h \in Seq(Msg),
           Extends(f, g), Extends(g, h)
    PROVE  Extends(f, h)
<1>1. /\ Len(f) \in Nat /\ Len(g) \in Nat /\ Len(h) \in Nat
      /\ Len(f) <= Len(g) /\ Len(g) <= Len(h)
      /\ DOMAIN f = 1 .. Len(f) /\ DOMAIN g = 1 .. Len(g)
  BY DEF Extends
<1>2. Len(f) <= Len(h) /\ DOMAIN f \subseteq DOMAIN g
  BY <1>1
<1>3. ASSUME NEW i \in DOMAIN f
      PROVE  \/ h[i] = f[i]
             \/ f[i].kind = "asking" /\ h[i] = [kind |-> "finished", id |-> f[i].id]
  <2>1. i \in DOMAIN g
    BY <1>2
  <2>2. CASE g[i] = f[i]
    BY <2>1, <2>2 DEF Extends
  <2>3. CASE f[i].kind = "asking" /\ g[i] = [kind |-> "finished", id |-> f[i].id]
    <3>1. g[i].kind # "asking"
      BY <2>3
    <3>2. h[i] = g[i]
      BY <2>1, <3>1 DEF Extends
    <3> QED
      BY <2>3, <3>2
  <2> QED
    BY <2>2, <2>3 DEF Extends
<1> QED
  BY <1>1, <1>2, <1>3 DEF Extends

\* A message stays, unless it asked and is finished now.
LEMMA ExtendsKeeps ==
    ASSUME NEW g \in Seq(Msg), NEW h \in Seq(Msg), Extends(g, h), NEW m \in MsgsOf(g)
    PROVE  \/ m \in MsgsOf(h)
           \/ m.kind = "asking" /\ [kind |-> "finished", id |-> m.id] \in MsgsOf(h)
<1>1. PICK i \in DOMAIN g : m = g[i]
  BY DEF MsgsOf
<1>2. i \in DOMAIN h
  BY DEF Extends
<1> QED
  BY <1>1, <1>2 DEF Extends, MsgsOf

LEMMA ExtendsResults ==
    ASSUME NEW s \in AgentState, NEW t \in AgentState, Extends(t.hist, s.hist), NEW r,
           HasResults(t, r)
    PROVE  HasResults(s, r)
<1>1. s.hist \in Seq(Msg) /\ t.hist \in Seq(Msg)
  BY DEF AgentState
<1> QED
  BY <1>1, ExtendsKeeps DEF HasResults

LEMMA FollowsReflexive ==
    ASSUME NEW s \in AgentState
    PROVE  Follows(s, s)
BY ExtendsReflexive DEF Follows, AgentState

LEMMA FollowsTransitive ==
    ASSUME NEW s \in AgentState, NEW t \in AgentState, NEW u \in AgentState,
           Follows(s, t), Follows(t, u)
    PROVE  Follows(s, u)
<1>1. Extends(u.hist, s.hist)
  BY ExtendsTransitive DEF Follows, AgentState
<1>2. ASSUME u.exec.reply # 0 PROVE s.exec = u.exec \/ HasResults(s, u.exec.reply)
  <2>1. CASE t.exec = u.exec
    BY <1>2, <2>1 DEF Follows
  <2>2. CASE HasResults(t, u.exec.reply)
    BY <2>2, ExtendsResults DEF Follows
  <2> QED
    BY <1>2, <2>1, <2>2 DEF Follows
<1> QED
  BY <1>1, <1>2 DEF Follows

\* Appending a message follows; so does everything when nothing was stored.
LEMMA FollowsRemember ==
    ASSUME NEW s \in AgentState, NEW k \in MsgKinds, NEW i \in Nat
    PROVE  /\ Extends(s.hist, Remember(s, k, i).hist)
           /\ Follows(Remember(s, k, i), s)
<1>1. /\ Len(Remember(s, k, i).hist) = Len(s.hist) + 1 /\ Len(s.hist) \in Nat
      /\ \A j \in DOMAIN s.hist : Remember(s, k, i).hist[j] = s.hist[j]
  BY RememberFacts, ZenonT(30)
<1>2. Extends(s.hist, Remember(s, k, i).hist)
  BY <1>1 DEF Extends
<1> QED
  BY <1>2, RememberType DEF Follows

LEMMA FollowsEmpty ==
    ASSUME NEW s \in AgentState
    PROVE  Follows(s, EmptyState)
<1>1. EmptyState.hist = <<>> /\ EmptyState.exec.reply = 0
  BY DEF EmptyState, NoExecution
<1>2. Len(<<>>) = 0 /\ DOMAIN <<>> = {} /\ Len(s.hist) \in Nat
  BY DEF AgentState
<1> QED
  BY <1>1, <1>2 DEF Follows, Extends

\* Finishing the calls of r, and recording their results.
LEMMA ExtendsFinish ==
    ASSUME NEW h \in Seq(Msg), NEW r \in Nat
    PROVE  Extends(h, FinishCheckpointCalls(h, r))
<1> DEFINE g == FinishCheckpointCalls(h, r)
<1>1. /\ Len(g) = Len(h) /\ Len(h) \in Nat
      /\ \A j \in DOMAIN h : g[j] = IF h[j] = [kind |-> "asking", id |-> r]
                                    THEN [kind |-> "finished", id |-> r] ELSE h[j]
  BY FinishFacts
<1> HIDE DEF g
<1>2. Len(g) >= Len(h)
  BY <1>1
<1>3. \A j \in DOMAIN h :
         \/ g[j] = h[j]
         \/ h[j].kind = "asking" /\ g[j] = [kind |-> "finished", id |-> h[j].id]
  BY <1>1
<1> QED
  BY <1>2, <1>3 DEF Extends, g

LEMMA FinishedFacts ==
    ASSUME NEW s \in AgentState, NEW r \in Nat
    PROVE  LET f == [s EXCEPT !.hist = FinishCheckpointCalls(@, r)]
           IN  /\ f \in AgentState /\ f.calls = s.calls /\ f.exec = s.exec
               /\ f.hist = FinishCheckpointCalls(s.hist, r)
               /\ Follows(f, s)
<1> DEFINE f == [s EXCEPT !.hist = FinishCheckpointCalls(@, r)]
<1>1. s.hist \in Seq(Msg)
  BY DEF AgentState
<1>2. /\ f \in AgentState /\ f.calls = s.calls /\ f.exec = s.exec
      /\ f.hist = FinishCheckpointCalls(s.hist, r)
  BY <1>1, FinishType DEF AgentState
<1>3. Extends(s.hist, FinishCheckpointCalls(s.hist, r))
  BY <1>1, ExtendsFinish
<1> QED
  BY <1>2, <1>3 DEF Follows

LEMMA ResultsFacts ==
    ASSUME NEW s \in AgentState, NEW r \in Nat
    PROVE  LET n == WithResults(s, r)
           IN  /\ n \in AgentState /\ n.calls = s.calls /\ n.exec = s.exec
               /\ Follows(n, s) /\ HasResults(n, r)
<1> DEFINE f == [s EXCEPT !.hist = FinishCheckpointCalls(@, r)]
           n == Remember(f, "results", r)
<1>1. f \in AgentState /\ f.exec = s.exec /\ Follows(f, s)
  BY FinishedFacts
<1>2. "results" \in MsgKinds
  BY DEF MsgKinds
<1> HIDE DEF f
<1>3. n \in AgentState /\ Follows(n, f) /\ HasResults(n, r)
  BY <1>1, <1>2, RememberFacts, FollowsRemember DEF HasResults
<1>4. Follows(n, s)
  BY <1>1, <1>3, FollowsTransitive
<1>5. WithResults(s, r) = n
  BY DEF WithResults, f
<1> QED
  BY <1>3, <1>4, <1>5, ResultsType

\* Once the results of r are there, the checkpoint of r may be cleared.
LEMMA FollowsCleared ==
    ASSUME NEW s \in AgentState, s.exec.reply # 0 => HasResults(s, s.exec.reply)
    PROVE  Follows(Cleared(s), s) /\ Cleared(s) \in AgentState /\ Cleared(s).hist = s.hist
<1>1. Cleared(s).hist = s.hist
  BY DEF Cleared, AgentState
<1>2. Extends(s.hist, s.hist)
  BY ExtendsReflexive DEF AgentState
<1> QED
  BY <1>1, <1>2, ClearedType DEF Follows, HasResults

LEMMA FollowsFenced ==
    ASSUME NEW s \in AgentState, NEW e \in PendingToolExecution,
           s.exec.reply = 0 \/ s.exec = e
    PROVE  Follows(Fenced(s, e), s) /\ Fenced(s, e) \in AgentState /\ Fenced(s, e).hist = s.hist
<1>1. Fenced(s, e).hist = s.hist
  BY DEF Fenced, AgentState
<1>2. Extends(s.hist, s.hist)
  BY ExtendsReflexive DEF AgentState
<1> QED
  BY <1>1, <1>2, FencedType DEF Follows

-----------------------------------------------------------------------------
(* Orderly histories.                                                       *)

LEMMA MsgsTyped ==
    ASSUME NEW s \in AgentState
    PROVE  MsgsOf(s.hist) \subseteq Msg /\ \A x \in MsgsOf(s.hist) : x.id \in Nat
<1>1. s.hist \in Seq(Msg)
  BY DEF AgentState
<1>2. MsgsOf(s.hist) \subseteq Msg
  BY <1>1 DEF MsgsOf
<1> QED
  BY <1>2 DEF Msg

LEMMA OrderlyStable ==
    ASSUME NEW s \in AgentState, NEW t, t.hist = s.hist, NEW m \in Nat, NEW n \in Nat,
           m <= n, Orderly(s, m)
    PROVE  Orderly(t, n)
<1>1. \A x \in MsgsOf(s.hist) : x.id \in Nat
  BY MsgsTyped
<1>2. \A x \in MsgsOf(s.hist) : x.id < n
  BY <1>1 DEF Orderly
<1> QED
  BY <1>2 DEF Orderly, HasResults

LEMMA OrderlyEmpty == ASSUME NEW n PROVE Orderly(EmptyState, n)
<1>1. EmptyState.hist = <<>> /\ DOMAIN <<>> = {}
  BY DEF EmptyState
<1> QED
  BY <1>1 DEF Orderly, MsgsOf

LEMMA OrderlyRemember ==
    ASSUME NEW s \in AgentState, NEW k \in MsgKinds, NEW i \in Nat,
           NEW m \in Nat, NEW n \in Nat, m <= n, i < n, Orderly(s, m), ~HasResults(s, i),
           k = "results" => ~CheckpointMessage(s.hist, i)
    PROVE  Orderly(Remember(s, k, i), n)
<1> DEFINE x == [kind |-> k, id |-> i]
           r == Remember(s, k, i)
<1>1. /\ Len(r.hist) = Len(s.hist) + 1 /\ Len(s.hist) \in Nat
      /\ r.hist \in Seq(Msg)
      /\ \A j \in DOMAIN s.hist : r.hist[j] = s.hist[j]
      /\ r.hist[Len(s.hist) + 1] = x
      /\ MsgsOf(r.hist) = MsgsOf(s.hist) \cup {x}
      /\ DOMAIN s.hist = 1 .. Len(s.hist)
  BY RememberFacts DEF AgentState
<1>2. DOMAIN r.hist = DOMAIN s.hist \cup {Len(s.hist) + 1}
  BY <1>1
<1>3. x.id = i /\ x.kind = k
  OBVIOUS
<1>4. Orderly(s, n)
  BY OrderlyStable
<1>5. \A q : HasResults(r, q) <=> HasResults(s, q) \/ (k = "results" /\ q = i)
  BY <1>1 DEF HasResults
<1> HIDE DEF r
<1>6. \A y \in MsgsOf(r.hist) : y.id < n /\ (y.kind = "asking" => ~HasResults(r, y.id))
  <2>1. ASSUME NEW y \in MsgsOf(s.hist)
        PROVE  y.id < n /\ (y.kind = "asking" => ~HasResults(r, y.id))
    <3>1. y.id < n /\ (y.kind = "asking" => ~HasResults(s, y.id))
      BY <1>4 DEF Orderly
    <3>2. ASSUME y.kind = "asking", k = "results", y.id = i PROVE FALSE
      <4>1. y \in Msg
        BY DEF MsgsOf, AgentState
      <4>2. y = [kind |-> "asking", id |-> i]
        BY <3>2, <4>1 DEF Msg
      <4> QED
        BY <3>2, <4>2 DEF CheckpointMessage
    <3> QED
      BY <1>5, <3>1, <3>2
  <2>2. x.id < n /\ (x.kind = "asking" => ~HasResults(r, x.id))
    BY <1>3, <1>5
  <2> QED
    BY <1>1, <2>1, <2>2
<1>7. ASSUME NEW a \in DOMAIN r.hist, NEW b \in DOMAIN r.hist,
             r.hist[a].kind = "results", r.hist[a] = r.hist[b]
      PROVE  a = b
  <2>1. \A c \in DOMAIN s.hist : s.hist[c] = x => k # "results"
    BY <1>3 DEF HasResults, MsgsOf
  <2>2. CASE a \in DOMAIN s.hist /\ b \in DOMAIN s.hist
    BY <1>1, <1>4, <1>7, <2>2 DEF Orderly
  <2>3. CASE a \in DOMAIN s.hist /\ b = Len(s.hist) + 1
    BY <1>1, <1>3, <1>7, <2>1, <2>3
  <2>4. CASE b \in DOMAIN s.hist /\ a = Len(s.hist) + 1
    BY <1>1, <1>3, <1>7, <2>1, <2>4
  <2> QED
    BY <1>2, <2>2, <2>3, <2>4
<1> QED
  BY <1>6, <1>7 DEF Orderly, r

LEMMA OrderlyFinish ==
    ASSUME NEW s \in AgentState, NEW r \in Nat, NEW n \in Nat, Orderly(s, n),
           CheckpointMessage(s.hist, r)
    PROVE  LET f == [s EXCEPT !.hist = FinishCheckpointCalls(@, r)]
           IN  /\ Orderly(f, n) /\ ~HasResults(f, r)
               /\ ~CheckpointMessage(f.hist, r) /\ r < n
<1> DEFINE f == [s EXCEPT !.hist = FinishCheckpointCalls(@, r)]
           ask == [kind |-> "asking", id |-> r]
           done == [kind |-> "finished", id |-> r]
<1>1. s.hist \in Seq(Msg) /\ f.hist = FinishCheckpointCalls(s.hist, r)
  BY FinishedFacts DEF AgentState
<1>2. /\ ~CheckpointMessage(f.hist, r)
      /\ \A m \in MsgsOf(f.hist) : m \in MsgsOf(s.hist) \/ m = done
  BY <1>1, FinishMsgs
<1>3. /\ DOMAIN f.hist = DOMAIN s.hist
      /\ \A j \in DOMAIN s.hist : f.hist[j] = IF s.hist[j] = ask THEN done ELSE s.hist[j]
  BY <1>1, FinishFacts
<1>4. ask \in MsgsOf(s.hist) /\ ask.kind = "asking" /\ ask.id = r
  BY DEF CheckpointMessage
<1>5. ~HasResults(s, r) /\ r < n
  BY <1>4 DEF Orderly
<1>6. \A q : HasResults(f, q) => HasResults(s, q)
  BY <1>2 DEF HasResults
<1>7. done.kind = "finished" /\ done.id = r
  OBVIOUS
<1> HIDE DEF f, ask, done
<1>8. \A m \in MsgsOf(f.hist) : m.id < n /\ (m.kind = "asking" => ~HasResults(f, m.id))
  BY <1>2, <1>5, <1>6, <1>7 DEF Orderly
<1>9. \A i, j \in DOMAIN f.hist : f.hist[i].kind = "results" /\ f.hist[i] = f.hist[j] => i = j
  <2>1. \A i \in DOMAIN s.hist : f.hist[i].kind = "results" => f.hist[i] = s.hist[i]
    BY <1>3, <1>7
  <2> QED
    BY <1>3, <2>1 DEF Orderly
<1> QED
  BY <1>2, <1>5, <1>6, <1>8, <1>9 DEF Orderly, f

LEMMA OrderlyResults ==
    ASSUME NEW s \in AgentState, NEW r \in Nat, NEW n \in Nat, Orderly(s, n),
           CheckpointMessage(s.hist, r)
    PROVE  Orderly(WithResults(s, r), n)
<1> DEFINE f == [s EXCEPT !.hist = FinishCheckpointCalls(@, r)]
<1>1. /\ Orderly(f, n) /\ ~HasResults(f, r) /\ ~CheckpointMessage(f.hist, r) /\ r < n
      /\ f \in AgentState
  BY OrderlyFinish, FinishedFacts
<1>2. "results" \in MsgKinds /\ n <= n
  BY DEF MsgKinds
<1>3. WithResults(s, r) = Remember(f, "results", r)
  BY DEF WithResults
<1> HIDE DEF f
<1> QED
  BY <1>1, <1>2, <1>3, OrderlyRemember

-----------------------------------------------------------------------------
(* HistoryInv is inductive.                                                 *)

LEMMA HistoryInit == Init => HistoryInv
<1> SUFFICES ASSUME Init PROVE HistoryInv
  OBVIOUS
<1>1. /\ store.rev = 0 /\ store.state = EmptyState /\ orphans = {} /\ fenced = {}
      /\ acked = {} /\ \A a \in Agents : view[a] = EmptyState
      /\ \A o \in Ops : pc[o] = "idle"
  BY DEF Init, Quiet
<1> QED
  BY <1>1, OrderlyEmpty DEF HistoryInv, Running, CallsHeld, AckedIsDurable

\* What a running operation may rely on.
LEMMA HistoryKnows ==
    ASSUME TypeOK, FenceInv, HistoryInv, NEW o \in Ops
    PROVE  /\ State(o) \in AgentState /\ store.state \in AgentState
           /\ State(o).hist \in Seq(Msg) /\ nextId \in Nat
           /\ Orderly(State(o), nextId)
           /\ Running(o) /\ base[o] = store.rev => Follows(State(o), store.state)
           /\ CallsHeld(o)
           /\ plan[o] \in PendingToolExecution /\ plan[o].reply \in Nat
           /\ Owner[o] \in Agents
BY StateType DEF TypeOK, HistoryInv, State, PendingToolExecution

LEMMA CallsStay ==
    ASSUME TypeOK, TypeOK', HistoryInv, NEW o \in Ops, nextId <= nextId',
           pc'[o] = pc[o], plan'[o] = plan[o], Running(o) => State(o)' = State(o)
    PROVE  CallsHeld(o)'
<1>1. plan[o].reply \in Nat /\ nextId \in Nat /\ nextId' \in Nat
  BY DEF TypeOK, PendingToolExecution
<1>2. plan[o].reply < nextId => plan[o].reply < nextId'
  BY <1>1
<1>3. CASE Running(o)
  BY <1>2, <1>3 DEF HistoryInv, CallsHeld
<1>4. CASE ~Running(o)
  BY <1>4 DEF CallsHeld, Running
<1> QED
  BY <1>3, <1>4

\* A running operation replaces the state of its instance by s.
LEMMA HistoryLocal ==
    ASSUME TypeOK, TypeOK', FenceInv, HistoryInv, NEW o \in Ops, NEW s \in AgentState,
           Running(o), store' = store, fenced' = fenced, acked' = acked,
           orphans' = orphans, base' = base, nextId <= nextId',
           \A p \in Ops \ {o} : pc'[p] = pc[p] /\ plan'[p] = plan[p],
           SetState(o, s), Orderly(s, nextId'), Follows(s, State(o)), CallsHeld(o)'
    PROVE  HistoryInv'
<1>1. /\ Owner[o] \in Agents /\ view' = [view EXCEPT ![Owner[o]] = s]
      /\ State(o)' = s
      /\ \A p \in Ops \ {o} : Running(p) => State(p)' = State(p)
  BY SessionAssumption DEF SetState, State, TypeOK, FenceInv, LockHeld
<1>2. nextId \in Nat /\ nextId' \in Nat
  BY DEF TypeOK
<1>3. \A t \in AgentState : Orderly(t, nextId) => Orderly(t, nextId')
  BY <1>2, OrderlyStable
<1>4. Orderly(store'.state, nextId')
  BY <1>3 DEF TypeOK, HistoryInv
<1>5. \A a \in Agents : Orderly(view'[a], nextId')
  BY <1>1, <1>3 DEF TypeOK, HistoryInv
<1>6. \A w \in orphans' : /\ Orderly(w.state, nextId')
                          /\ w.base = store'.rev => Follows(w.state, store'.state)
  BY <1>3 DEF TypeOK, HistoryInv
<1>7. ASSUME NEW p \in Ops, Running(p)', base'[p] = store'.rev
      PROVE  Follows(State(p)', store'.state)
  <2>1. CASE p = o
    <3>1. Follows(State(o), store.state)
      BY <1>7, <2>1 DEF HistoryInv
    <3> QED
      BY <1>1, <2>1, <3>1, HistoryKnows, FollowsTransitive
  <2>2. CASE p # o
    <3>1. Running(p)
      BY <1>7, <2>2 DEF Running
    <3> QED
      BY <1>1, <1>7, <2>2, <3>1 DEF HistoryInv
  <2> QED
    BY <2>1, <2>2
<1>8. \A p \in Ops : CallsHeld(p)'
  BY <1>1, CallsStay
<1>9. AckedIsDurable' /\ (store'.rev = 0 => store'.state = EmptyState)
      /\ \A e \in fenced' : store'.state.exec = e \/ HasResults(store'.state, e.reply)
  BY DEF HistoryInv, AckedIsDurable, StoredMsgs, Stored
<1> QED
  BY <1>4, <1>5, <1>6, <1>7, <1>8, <1>9 DEF HistoryInv

\* A running operation leaves the state of its instance alone.
LEMMA HistorySame ==
    ASSUME TypeOK, TypeOK', FenceInv, HistoryInv, NEW o \in Ops,
           Running(o), view' = view, store' = store, fenced' = fenced, acked' = acked,
           orphans' = orphans, base' = base, nextId <= nextId',
           \A p \in Ops \ {o} : pc'[p] = pc[p] /\ plan'[p] = plan[p], CallsHeld(o)'
    PROVE  HistoryInv'
<1>1. SetState(o, State(o))
  BY StateType DEF SetState, State, TypeOK
<1>2. nextId' \in Nat
  BY DEF TypeOK
<1>3. Orderly(State(o), nextId')
  BY <1>2, HistoryKnows, OrderlyStable
<1> QED
  BY <1>1, <1>3, HistoryKnows, FollowsReflexive, HistoryLocal

\* An operation ends without a commit; dropping it may leave its save behind.
LEMMA HistoryReturn ==
    ASSUME TypeOK, TypeOK', FenceInv, HistoryInv, NEW o \in Ops, Return(o),
           store' = store, fenced' = fenced, acked' = acked, view' = view,
           nextId' = nextId,
           \/ orphans' \subseteq orphans
           \/ Running(o) /\ orphans' \subseteq orphans \cup {PendingSave(o)}
    PROVE  HistoryInv'
<1>1. /\ \A p \in Ops : Running(p)' => p # o /\ Running(p)
      /\ \A p \in Ops : State(p)' = State(p)
      /\ \A p \in Ops \ {o} : base'[p] = base[p]
  BY ReturnedHeld DEF Running, State
<1>2. ASSUME NEW w \in orphans'
      PROVE  /\ Orderly(w.state, nextId)
             /\ w.base = store.rev => Follows(w.state, store.state)
  <2>1. CASE w \in orphans
    BY <2>1 DEF HistoryInv
  <2>2. CASE Running(o) /\ w = PendingSave(o)
    <3>1. w.base = base[o] /\ w.state = State(o)
      BY <2>2 DEF PendingSave
    <3> QED
      BY <2>2, <3>1, HistoryKnows
  <2> QED
    BY <1>2, <2>1, <2>2
<1>3. \A p \in Ops : CallsHeld(p)'
  <2>1. CallsHeld(o)'
    BY ReturnedHeld DEF CallsHeld
  <2>2. nextId <= nextId'
    BY DEF TypeOK
  <2> QED
    BY <1>1, <2>1, <2>2, CallsStay, ReturnedHeld
<1>4. \A p \in Ops : Running(p)' /\ base'[p] = store'.rev => Follows(State(p)', store'.state)
  BY <1>1 DEF HistoryInv
<1>5. /\ AckedIsDurable' /\ (store'.rev = 0 => store'.state = EmptyState)
      /\ \A e \in fenced' : store'.state.exec = e \/ HasResults(store'.state, e.reply)
      /\ Orderly(store'.state, nextId') /\ \A a \in Agents : Orderly(view'[a], nextId')
  BY DEF HistoryInv, AckedIsDurable, StoredMsgs, Stored
<1> QED
  BY <1>2, <1>3, <1>4, <1>5 DEF HistoryInv

\* What a commit makes of the stored session.
LEMMA CommitKeeps ==
    ASSUME TypeOK, NEW s \in AgentState, Follows(s, store.state), NEW m \in StoredMsgs
    PROVE  \/ m \in MsgsOf(s.hist)
           \/ m.kind = "asking" /\ [kind |-> "finished", id |-> m.id] \in MsgsOf(s.hist)
<1>1. store.state.hist \in Seq(Msg) /\ s.hist \in Seq(Msg)
  BY DEF TypeOK, AgentState
<1> QED
  BY <1>1, ExtendsKeeps DEF Follows, StoredMsgs, Stored

LEMMA HistoryCommit ==
    ASSUME TypeOK, TypeOK', FenceInv, HistoryInv, NEW e \in Nat, NEW s \in AgentState,
           Commits(e, s), Orderly(s, nextId), Follows(s, store.state),
           view' = view, nextId' = nextId, orphans' \subseteq orphans,
           acked' \subseteq acked \cup MsgsOf(s.hist),
           \A p \in Ops : \/ base'[p] = base[p]
                          \/ base'[p] = 0
                          \/ base'[p] = e + 1 /\ State(p) = s,
           \A p \in Ops : CallsHeld(p)'
    PROVE  HistoryInv'
<1>1. /\ e = store.rev /\ store'.rev = e + 1 /\ store'.state = s
      /\ fenced' = fenced \cup (IF s.exec.reply = 0 THEN {} ELSE {s.exec})
      /\ \A p \in Ops : base[p] \in Nat /\ base[p] <= e /\ State(p)' = State(p)
      /\ \A w \in orphans : w.base \in Nat /\ w.base <= e
  BY DEF Commits, TypeOK, FenceInv, RevisionsKnown, State
<1>2. /\ store'.rev # 0 /\ \A w \in orphans' : w.base # store'.rev
      /\ \A p \in Ops : base'[p] = store'.rev => State(p)' = s
  BY <1>1
<1>3. \A p \in Ops : base'[p] = store'.rev => Follows(State(p)', store'.state)
  BY <1>1, <1>2, FollowsReflexive
<1>4. ASSUME NEW f \in fenced' PROVE s.exec = f \/ HasResults(s, f.reply)
  <2>1. CASE f \in fenced
    <3>1. f.reply # 0 /\ store.state \in AgentState
      BY <2>1 DEF FenceInv, FencedOnce, TypeOK
    <3>2. CASE store.state.exec = f
      BY <3>1, <3>2 DEF Follows
    <3>3. CASE HasResults(store.state, f.reply)
      BY <3>1, <3>3, ExtendsResults DEF Follows
    <3> QED
      BY <2>1, <3>2, <3>3 DEF HistoryInv
  <2>2. CASE f \notin fenced
    BY <1>1, <1>4, <2>2
  <2> QED
    BY <2>1, <2>2
<1>5. AckedIsDurable'
  <2>1. StoredMsgs' = MsgsOf(s.hist)
    BY <1>1 DEF StoredMsgs, Stored
  <2>2. ASSUME NEW m \in acked
        PROVE  \/ m \in MsgsOf(s.hist)
               \/ m.kind = "asking" /\ [kind |-> "finished", id |-> m.id] \in MsgsOf(s.hist)
    <3>1. CASE m \in StoredMsgs
      BY <3>1, CommitKeeps
    <3>2. CASE m.kind = "asking" /\ [kind |-> "finished", id |-> m.id] \in StoredMsgs
      <4> DEFINE f == [kind |-> "finished", id |-> m.id]
      <4>1. f \in StoredMsgs /\ f.kind # "asking"
        BY <3>2
      <4> HIDE DEF f
      <4>2. f \in MsgsOf(s.hist)
        BY <4>1, CommitKeeps
      <4> QED
        BY <3>2, <4>2 DEF f
    <3> QED
      BY <3>1, <3>2 DEF HistoryInv, AckedIsDurable
  <2> QED
    BY <2>1, <2>2 DEF AckedIsDurable
<1>6. /\ Orderly(store'.state, nextId') /\ \A a \in Agents : Orderly(view'[a], nextId')
      /\ \A w \in orphans' : Orderly(w.state, nextId')
  BY <1>1 DEF HistoryInv
<1> QED
  BY <1>1, <1>2, <1>3, <1>4, <1>5, <1>6 DEF HistoryInv

\* An operation commits the state of its instance.
LEMMA HistorySave ==
    ASSUME TypeOK, TypeOK', FenceInv, HistoryInv, NEW o \in Ops, Running(o),
           SaveSucceeds(o), view' = view, nextId' = nextId, orphans' \subseteq orphans,
           acked' \subseteq acked \cup MsgsOf(State(o).hist),
           \A p \in Ops \ {o} : pc'[p] = pc[p] /\ plan'[p] = plan[p] /\ base'[p] = base[p],
           base'[o] \in {base[o], 0, base[o] + 1}, CallsHeld(o)'
    PROVE  HistoryInv'
<1>1. /\ Commits(base[o], State(o)) /\ base[o] = store.rev /\ base[o] \in Nat
      /\ \A p \in Ops : State(p)' = State(p)
  BY DEF SaveSucceeds, Commits, TypeOK, State
<1>2. nextId <= nextId'
  BY DEF TypeOK
<1>3. \A p \in Ops : CallsHeld(p)'
  BY <1>1, <1>2, CallsStay
<1>4. \A p \in Ops : \/ base'[p] = base[p]
                     \/ base'[p] = 0
                     \/ base'[p] = base[o] + 1 /\ State(p) = State(o)
  OBVIOUS
<1> QED
  BY <1>1, <1>3, <1>4, HistoryKnows, HistoryCommit

\* In most places an operation needs to know nothing about its calls.
LEMMA FreeCalls ==
    ASSUME TypeOK, NEW o \in Ops, NEW where \in {"start", "model", "finish", "waiting"},
           Goto(o, where)
    PROVE  CallsHeld(o)' /\ \A p \in Ops \ {o} : pc'[p] = pc[p]
BY DEF TypeOK, Goto, CallsHeld

LEMMA HistoryStart ==
    ASSUME TypeOK, TypeOK', FenceInv, HistoryInv, NEW o \in Ops,
           Call(o) \/ Start(o) \/ Drop(o)
    PROVE  HistoryInv'
<1>0. nextId \in Nat /\ nextId <= nextId
  BY DEF TypeOK
<1>1. CASE Call(o)
  <2>1. /\ UNCHANGED <<store, orphans, view, lock, base, plan, nextId, fenced, acked>>
        /\ \A p \in Ops : Running(p)' <=> Running(p)
        /\ \A p \in Ops : State(p)' = State(p)
    BY <1>1 DEF Call, Goto, Running, TypeOK, State, data, ghosts
  <2>2. CallsHeld(o)' /\ \A p \in Ops \ {o} : pc'[p] = pc[p]
    BY <1>1, FreeCalls DEF Call
  <2>3. \A p \in Ops : CallsHeld(p)'
    BY <1>0, <2>1, <2>2, CallsStay
  <2> QED
    BY <2>1, <2>3 DEF HistoryInv, AckedIsDurable, StoredMsgs, Stored
<1>2. CASE Begin(o)
  <2> DEFINE s == IF store.rev > 0 THEN store.state ELSE State(o)
  <2>1. /\ Owner[o] \in Agents /\ s \in AgentState /\ State(o)' = s
        /\ view' = [view EXCEPT ![Owner[o]] = s]
        /\ \A p \in Ops : Running(p) => State(p)' = State(p)
    BY <1>2, StateType, SessionAssumption
       DEF Begin, SetState, State, TypeOK, FenceInv, LockHeld
  <2>2. /\ UNCHANGED <<store, orphans, plan, nextId, fenced, acked>>
        /\ \A p \in Ops \ {o} : pc'[p] = pc[p] /\ base'[p] = base[p]
        /\ CallsHeld(o)'
    BY <1>2, FreeCalls DEF Begin, ghosts, TypeOK
  <2>3. Follows(s, store.state)
    <3>1. store.state \in AgentState /\ store.rev \in Nat
      BY DEF TypeOK
    <3>2. CASE store.rev > 0
      BY <3>1, <3>2, FollowsReflexive
    <3>3. CASE store.rev = 0
      BY <2>1, <3>1, <3>3, FollowsEmpty DEF HistoryInv
    <3> QED
      BY <3>1, <3>2, <3>3
  <2>4. Orderly(s, nextId)
    BY HistoryKnows DEF HistoryInv
  <2> HIDE DEF s
  <2>5. \A p \in Ops : CallsHeld(p)'
    BY <1>0, <2>1, <2>2, CallsStay
  <2>6. \A p \in Ops : Running(p)' /\ base'[p] = store'.rev => Follows(State(p)', store'.state)
    <3>1. \A p \in Ops \ {o} : Running(p)' => Running(p)
      BY <2>2 DEF Running
    <3> QED
      BY <2>1, <2>2, <2>3, <3>1 DEF HistoryInv
  <2>7. \A a \in Agents : Orderly(view'[a], nextId')
    BY <2>1, <2>2, <2>4 DEF HistoryInv, TypeOK
  <2> QED
    BY <2>2, <2>5, <2>6, <2>7 DEF HistoryInv, AckedIsDurable, StoredMsgs, Stored
<1>3. CASE BeginFails(o)
  BY <1>3, HistoryReturn DEF BeginFails, data
<1>4. CASE Drop(o)
  <2>1. \/ orphans' \subseteq orphans
        \/ Running(o) /\ orphans' \subseteq orphans \cup {PendingSave(o)}
    BY <1>4 DEF Drop, Running
  <2> QED
    BY <1>4, <2>1, HistoryReturn DEF Drop
<1> QED
  BY <1>1, <1>2, <1>3, <1>4 DEF Start

\* A message with a fresh id, which nothing has answered.
LEMMA FreshMessage ==
    ASSUME TypeOK, TypeOK', FenceInv, HistoryInv, NEW o \in Ops, Fresh,
           NEW k \in MsgKinds \ {"results"}
    PROVE  /\ Remember(State(o), k, nextId) \in AgentState
           /\ Remember(State(o), k, nextId).exec = State(o).exec
           /\ Orderly(Remember(State(o), k, nextId), nextId')
           /\ Follows(Remember(State(o), k, nextId), State(o))
           /\ nextId \in Nat /\ nextId < nextId' /\ nextId <= nextId'
           /\ ~HasResults(Remember(State(o), k, nextId), nextId)
           /\ k # "asking" => ~CheckpointMessage(Remember(State(o), k, nextId).hist, nextId)
<1>1. /\ nextId \in Nat /\ nextId' \in Nat /\ nextId' = nextId + 1
      /\ nextId < nextId' /\ nextId <= nextId'
  BY DEF TypeOK, Fresh
<1>2. State(o) \in AgentState /\ Orderly(State(o), nextId)
  BY HistoryKnows
<1>3. ~HasResults(State(o), nextId)
  <2>1. ASSUME HasResults(State(o), nextId) PROVE FALSE
    <3>1. [kind |-> "results", id |-> nextId].id < nextId
      BY <1>2, <2>1 DEF Orderly, HasResults
    <3> QED
      BY <1>1, <3>1
  <2> QED
    BY <2>1
<1>4. Orderly(Remember(State(o), k, nextId), nextId')
  BY <1>1, <1>2, <1>3, OrderlyRemember
<1> DEFINE r == Remember(State(o), k, nextId)
<1>a. k \in MsgKinds /\ State(o).hist \in Seq(Msg)
  BY HistoryKnows
<1>b. PICK x \in Msg : x.kind = k /\ r.hist = Append(State(o).hist, x)
  BY <1>1, <1>2, <1>a, RememberMsg, SMTT(30)
<1>c. MsgsOf(r.hist) = MsgsOf(State(o).hist) \cup {x}
  BY <1>a, <1>b, AppendMsgs
<1> HIDE DEF r
<1>5. ~HasResults(r, nextId)
  BY <1>3, <1>b, <1>c DEF HasResults
<1>6. ~CheckpointMessage(State(o).hist, nextId)
  <2>1. ASSUME CheckpointMessage(State(o).hist, nextId) PROVE FALSE
    <3>1. [kind |-> "asking", id |-> nextId].id < nextId
      BY <1>2, <2>1 DEF Orderly, CheckpointMessage
    <3> QED
      BY <1>1, <3>1
  <2> QED
    BY <2>1
<1>7. k # "asking" => ~CheckpointMessage(r.hist, nextId)
  BY <1>6, <1>b, <1>c DEF CheckpointMessage
<1> QED
  BY <1>1, <1>2, <1>4, <1>5, <1>7, RememberType, FollowsRemember DEF r

LEMMA HistoryEntry ==
    ASSUME TypeOK, TypeOK', FenceInv, HistoryInv, NEW o \in Ops, Entry(o)
    PROVE  HistoryInv'
<1>0. /\ Running(o) /\ nextId \in Nat /\ nextId <= nextId
      /\ {"note", "user"} \subseteq MsgKinds \ {"results"}
  BY DEF Entry, Snapshot, Observe, AcceptReply, Refuse, At, Running, TypeOK, MsgKinds
<1>1. CASE Snapshot(o)
  BY <1>1, HistoryReturn DEF Snapshot, data
<1>2. CASE Observe(o)
  BY <1>0, <1>2, FreshMessage, FreeCalls, HistoryLocal DEF Observe, Moves
<1>3. CASE AcceptReply(o)
  BY <1>0, <1>3, FreshMessage, FreeCalls, HistoryLocal DEF AcceptReply, Moves
<1>4. CASE Refuse(o)
  BY <1>0, <1>4, FreeCalls, HistorySame DEF Refuse, Moves, data
<1> QED
  BY <1>1, <1>2, <1>3, <1>4 DEF Entry

LEMMA HistoryReasoning ==
    ASSUME TypeOK, TypeOK', FenceInv, HistoryInv, NEW o \in Ops, Reasoning(o)
    PROVE  HistoryInv'
<1>0. /\ Running(o) /\ nextId \in Nat /\ nextId <= nextId
      /\ {"answer", "pending", "asking"} \subseteq MsgKinds \ {"results"}
  BY DEF Reasoning, ModelFails, ModelAnswers, ModelExhausted, CallTools, Responds,
         PauseForConfirmation, ToolsReturn, ToolsInterrupted, ToolsUnrecorded,
         Running, TypeOK, MsgKinds
<1>1. CASE ModelFails(o)
  BY <1>0, <1>1, FreeCalls, HistorySame DEF ModelFails, Moves, data
<1>2. CASE ModelAnswers(o)
  BY <1>0, <1>2, FreshMessage, FreeCalls, HistoryLocal DEF ModelAnswers, Responds, Moves
<1>3. CASE ModelExhausted(o)
  BY <1>0, <1>3, FreshMessage, FreeCalls, HistoryLocal DEF ModelExhausted, Responds, Moves
<1>4. CASE PauseForConfirmation(o)
  <2> DEFINE r == Remember(State(o), "asking", nextId)
             c == [reply |-> nextId, step |-> step[o] + 1]
             s == [r EXCEPT !.calls = c]
  <2>1. /\ r \in AgentState /\ Orderly(r, nextId') /\ Follows(r, State(o))
        /\ nextId \in Nat /\ nextId <= nextId'
    BY <1>0, <1>4, FreshMessage DEF PauseForConfirmation, Responds
  <2>2. c \in PendingToolCalls
    BY DEF TypeOK, PendingToolCalls
  <2> HIDE DEF r, c
  <2>3. s \in AgentState /\ s.hist = r.hist /\ s.exec = r.exec
    BY <2>1, <2>2 DEF AgentState
  <2>4. SetState(o, s)
    BY <1>4 DEF PauseForConfirmation, r, c
  <2> HIDE DEF s
  <2>5. Orderly(s, nextId') /\ Follows(s, State(o))
    BY <2>1, <2>3 DEF Orderly, Follows, HasResults
  <2> QED
    BY <1>0, <1>4, <2>1, <2>3, <2>4, <2>5, FreeCalls, HistoryLocal
       DEF PauseForConfirmation, Moves
<1>5. CASE CallTools(o)
  <2> DEFINE s == Remember(State(o), "pending", nextId)
  <2>1. /\ s \in AgentState /\ Orderly(s, nextId') /\ Follows(s, State(o))
        /\ nextId \in Nat /\ nextId < nextId' /\ nextId <= nextId'
        /\ ~HasResults(s, nextId) /\ ~CheckpointMessage(s.hist, nextId)
    BY <1>0, <1>5, FreshMessage DEF CallTools, Responds
  <2>2. SetState(o, s) /\ State(o)' = s
    BY <1>5, StateType DEF CallTools, SetState, State, TypeOK
  <2> HIDE DEF s
  <2>3. /\ pc'[o] = "tools" /\ plan'[o].reply = nextId
        /\ \A p \in Ops \ {o} : pc'[p] = pc[p] /\ plan'[p] = plan[p]
    BY <1>5 DEF CallTools, Goto, TypeOK, NoExecution
  <2>4. CallsHeld(o)'
    BY <2>1, <2>2, <2>3 DEF CallsHeld
  <2> QED
    BY <1>0, <1>5, <2>1, <2>2, <2>3, <2>4, HistoryLocal DEF CallTools, ghosts
<1>6. ASSUME pc[o] = "tools", nextId' = nextId
      PROVE  LET s == Remember(State(o), "results", plan[o].reply)
             IN  s \in AgentState /\ Orderly(s, nextId') /\ Follows(s, State(o))
  <2> DEFINE r == plan[o].reply
  <2>1. /\ r \in Nat /\ ~HasResults(State(o), r) /\ r < nextId
        /\ ~CheckpointMessage(State(o).hist, r)
        /\ State(o) \in AgentState /\ Orderly(State(o), nextId)
    BY <1>6, HistoryKnows DEF CallsHeld
  <2>2. "results" \in MsgKinds
    BY DEF MsgKinds
  <2> QED
    BY <1>0, <1>6, <2>1, <2>2, OrderlyRemember, RememberType, FollowsRemember
<1>7. CASE ToolsReturn(o)
  BY <1>0, <1>6, <1>7, FreeCalls, HistoryLocal DEF ToolsReturn, RecordObservation, ghosts
<1>8. CASE ToolsInterrupted(o)
  BY <1>0, <1>6, <1>8, FreeCalls, HistoryLocal DEF ToolsInterrupted, RecordObservation, Moves
<1>9. CASE ToolsUnrecorded(o)
  BY <1>0, <1>9, FreeCalls, HistorySame DEF ToolsUnrecorded, Moves, data
<1> QED
  BY <1>1, <1>2, <1>3, <1>4, <1>5, <1>7, <1>8, <1>9 DEF Reasoning

\* Planning: the calls of the plan are the ones that wait in the history.
LEMMA HistoryPlanning ==
    ASSUME TypeOK, TypeOK', FenceInv, HistoryInv, NEW o \in Ops,
           RefuseRecovery(o) \/ ResumeCall(o) \/ ResumeStream(o) \/ PlanRecovery(o)
    PROVE  HistoryInv'
<1>0. /\ Running(o) /\ nextId \in Nat /\ nextId' \in Nat
      /\ State(o) \in AgentState /\ Orderly(State(o), nextId)
  BY HistoryKnows
     DEF RefuseRecovery, ResumeCall, ResumeStream, PlanRecovery, At, Running, TypeOK
<1>1. CASE RefuseRecovery(o)
  <2>1. CASE job[o].mode = "call"
    BY <1>0, <1>1, <2>1, FreeCalls, HistorySame DEF RefuseRecovery, Moves, data
  <2>2. CASE job[o].mode # "call"
    BY <1>1, <2>2, HistoryReturn DEF RefuseRecovery, data
  <2> QED
    BY <2>1, <2>2
<1>2. ASSUME NEW A \in SUBSET Calls, NewPlan(o, A), CanResume(State(o))
      PROVE  /\ plan'[o].reply = State(o).calls.reply
             /\ plan'[o] \in PendingToolExecution
             /\ CheckpointMessage(State(o).hist, plan'[o].reply)
             /\ State(o).exec.reply = 0
             /\ \A p \in Ops \ {o} : plan'[p] = plan[p]
             /\ nextId <= nextId'
  BY <1>0, <1>2 DEF NewPlan, CanResume, TypeOK
<1>3. CASE ResumeCall(o)
  <2>1. PICK A \in SUBSET Calls :
          /\ NewPlan(o, A)
          /\ IF A = {}
             THEN Goto(o, "record") /\ UNCHANGED view
             ELSE Goto(o, "persist") /\ SetState(o, Fenced(State(o), plan'[o]))
    BY <1>3 DEF ResumeCall
  <2>2. /\ plan'[o] \in PendingToolExecution
        /\ CheckpointMessage(State(o).hist, plan'[o].reply)
        /\ State(o).exec.reply = 0
        /\ \A p \in Ops \ {o} : plan'[p] = plan[p]
        /\ nextId <= nextId'
    BY <1>2, <1>3, <2>1 DEF ResumeCall
  <2>3. CASE A = {}
    <3>1. /\ State(o)' = State(o) /\ pc'[o] = "record"
          /\ \A p \in Ops \ {o} : pc'[p] = pc[p]
      BY <2>1, <2>3 DEF Goto, TypeOK, State
    <3>2. CallsHeld(o)'
      BY <2>2, <3>1 DEF CallsHeld
    <3> QED
      BY <1>0, <1>3, <2>1, <2>2, <2>3, <3>1, <3>2, HistorySame DEF ResumeCall, ghosts
  <2>4. CASE A # {}
    <3> DEFINE s == Fenced(State(o), plan'[o])
    <3>1. /\ s \in AgentState /\ s.exec = plan'[o] /\ s.hist = State(o).hist
          /\ Follows(s, State(o))
      BY <1>0, <2>2, FencedType, FollowsFenced
    <3>2. SetState(o, s) /\ State(o)' = s
      BY <2>1, <2>4, StateType DEF SetState, State, TypeOK
    <3> HIDE DEF s
    <3>3. Orderly(s, nextId')
      BY <1>0, <2>2, <3>1, OrderlyStable
    <3>4. /\ pc'[o] = "persist" /\ \A p \in Ops \ {o} : pc'[p] = pc[p]
      BY <2>1, <2>4 DEF Goto, TypeOK
    <3>5. CallsHeld(o)'
      BY <2>2, <3>1, <3>2, <3>4 DEF CallsHeld
    <3> QED
      BY <1>0, <1>3, <2>2, <3>1, <3>2, <3>3, <3>4, <3>5, HistoryLocal DEF ResumeCall, ghosts
  <2> QED
    BY <2>3, <2>4
<1>4. CASE ResumeStream(o)
  <2>1. PICK A \in SUBSET Calls : NewPlan(o, A)
    BY <1>4 DEF ResumeStream
  <2>2. /\ CheckpointMessage(State(o).hist, plan'[o].reply)
        /\ State(o).exec.reply = 0
        /\ \A p \in Ops \ {o} : plan'[p] = plan[p]
        /\ nextId <= nextId'
    BY <1>2, <1>4, <2>1 DEF ResumeStream
  <2>3. /\ State(o)' = State(o) /\ pc'[o] = "setup"
        /\ \A p \in Ops \ {o} : pc'[p] = pc[p]
    BY <1>4 DEF ResumeStream, Goto, TypeOK, State, data
  <2>4. CallsHeld(o)'
    BY <2>2, <2>3 DEF CallsHeld
  <2> QED
    BY <1>0, <1>4, <2>2, <2>3, <2>4, HistorySame DEF ResumeStream, data, ghosts
<1>5. CASE PlanRecovery(o)
  <2>1. /\ CheckpointMessage(State(o).hist, State(o).exec.reply)
        /\ plan'[o] = State(o).exec /\ pc'[o] \in {"record", "setup"}
        /\ \A p \in Ops \ {o} : pc'[p] = pc[p] /\ plan'[p] = plan[p]
        /\ State(o)' = State(o)
    BY <1>5 DEF PlanRecovery, CanRecover, Goto, TypeOK, State, data
  <2>2. CallsHeld(o)'
    BY <2>1 DEF CallsHeld
  <2>3. nextId <= nextId' /\ nextId' = nextId
    BY <1>0, <1>5 DEF PlanRecovery
  <2> QED
    BY <1>0, <1>5, <2>1, <2>2, <2>3, HistorySame DEF PlanRecovery, data, ghosts
<1> QED
  BY <1>1, <1>3, <1>4, <1>5

\* Executing: the checkpoint is saved before a call is invoked.
LEMMA HistoryExecuting ==
    ASSUME TypeOK, TypeOK', FenceInv, HistoryInv, NEW o \in Ops,
           \/ Setup(o) \/ SetupFails(o) \/ Persist(o) \/ PersistFails(o)
           \/ \E c \in Calls : Invoke(o, c)
           \/ ToolsSettle(o) \/ ToolsInDoubt(o)
    PROVE  HistoryInv'
<1>a. Running(o)
  BY DEF Setup, SetupFails, Persist, PersistFails, Invoke, ToolsSettle,
         ToolsInDoubt, Running
<1>b. nextId \in Nat /\ nextId <= nextId
  BY DEF TypeOK
<1>0. /\ Running(o) /\ nextId \in Nat /\ nextId <= nextId
      /\ State(o) \in AgentState /\ Orderly(State(o), nextId)
      /\ plan[o] \in PendingToolExecution
      /\ CallsHeld(o) /\ PlanHeld(o)
  BY <1>a, <1>b, HistoryKnows DEF FenceInv, PlansHeld
\* The operation moves on with the same state and the same plan.
<1>1. ASSUME State(o)' = State(o), plan' = plan,
             pc[o] \in {"setup", "persist", "invoke"},
             pc'[o] \in {"persist", "invoke", "record"}
      PROVE  CallsHeld(o)'
  BY <1>0, <1>1 DEF CallsHeld
<1>2. CASE Setup(o)
  <2>1. CASE job[o].kind = "resolve" \/ plan[o].approved = {}
    <3>1. /\ State(o)' = State(o) /\ plan' = plan /\ pc[o] = "setup" /\ pc'[o] = "record"
          /\ \A p \in Ops \ {o} : pc'[p] = pc[p]
      BY <1>2, <2>1 DEF Setup, Moves, Goto, TypeOK, State
    <3> QED
      BY <1>0, <1>1, <1>2, <2>1, <3>1, HistorySame DEF Setup, Moves
  <2>2. CASE ~(job[o].kind = "resolve" \/ plan[o].approved = {})
    <3> DEFINE s == Fenced(State(o), plan[o])
    <3>1. pc[o] = "setup" /\ (State(o).exec = plan[o] \/ State(o).exec.reply = 0)
      BY <1>0, <1>2 DEF Setup, PlanHeld
    <3>2. /\ s \in AgentState /\ s.exec = plan[o] /\ s.hist = State(o).hist
          /\ Follows(s, State(o))
      BY <1>0, <3>1, FencedType, FollowsFenced
    <3>3. SetState(o, s) /\ State(o)' = s
      BY <1>2, <2>2, StateType DEF Setup, SetState, State, TypeOK
    <3> HIDE DEF s
    <3>4. Orderly(s, nextId') /\ nextId' = nextId
      BY <1>0, <1>2, <3>2, OrderlyStable DEF Setup
    <3>5. /\ pc'[o] = "persist" /\ plan' = plan /\ \A p \in Ops \ {o} : pc'[p] = pc[p]
      BY <1>2, <2>2 DEF Setup, Moves, Goto, TypeOK
    <3>6. CallsHeld(o)'
      BY <1>0, <3>1, <3>2, <3>3, <3>5 DEF CallsHeld
    <3> QED
      BY <1>0, <1>2, <2>2, <3>2, <3>3, <3>4, <3>5, <3>6, HistoryLocal DEF Setup, Moves
  <2> QED
    BY <2>1, <2>2
<1>3. CASE SetupFails(o)
  BY <1>0, <1>3, FreeCalls, HistorySame DEF SetupFails, Moves, data
<1>4. CASE Persist(o)
  <2>1. /\ State(o)' = State(o) /\ plan' = plan /\ pc[o] = "persist" /\ pc'[o] = "invoke"
        /\ \A p \in Ops \ {o} : pc'[p] = pc[p] /\ base'[p] = base[p]
        /\ base'[o] = base[o] + 1
    BY <1>4 DEF Persist, Goto, TypeOK, State
  <2> QED
    BY <1>0, <1>1, <1>4, <2>1, HistorySave DEF Persist
<1>5. CASE PersistFails(o)
  <2>1. CASE UNCHANGED <<store, fenced>>
    BY <1>0, <1>5, <2>1, FreeCalls, HistorySame DEF PersistFails, Moves
  <2>2. CASE SaveSucceeds(o)
    BY <1>0, <1>5, <2>2, FreeCalls, HistorySave DEF PersistFails, Moves
  <2> QED
    BY <1>5, <2>1, <2>2 DEF PersistFails, SaveFails
<1>6. ASSUME NEW c \in Calls, Invoke(o, c) PROVE HistoryInv'
  <2>1. /\ State(o)' = State(o) /\ pc' = pc /\ plan' = plan /\ pc[o] = "invoke"
    BY <1>6 DEF Invoke, State, data
  <2> QED
    BY <1>0, <1>1, <1>6, <2>1, HistorySame DEF Invoke, data
<1>7. CASE ToolsSettle(o)
  <2>1. /\ State(o)' = State(o) /\ plan' = plan /\ pc[o] = "invoke" /\ pc'[o] = "record"
        /\ \A p \in Ops \ {o} : pc'[p] = pc[p]
    BY <1>7 DEF ToolsSettle, Moves, Goto, TypeOK, State, data
  <2> QED
    BY <1>0, <1>1, <1>7, <2>1, HistorySame DEF ToolsSettle, Moves, data
<1>8. CASE ToolsInDoubt(o)
  BY <1>0, <1>8, FreeCalls, HistorySame DEF ToolsInDoubt, Moves, data
<1> QED
  BY <1>2, <1>3, <1>4, <1>5, <1>6, <1>7, <1>8

\* Recording: results enter the history before their checkpoint is cleared.
LEMMA HistoryRecording ==
    ASSUME TypeOK, TypeOK', FenceInv, HistoryInv, NEW o \in Ops,
           \/ RecordResults(o) \/ RecordFails(o) \/ ReplaceFails(o)
           \/ RecordAndClear(o) \/ Commit(o) \/ Continue(o) \/ HooksFail(o)
    PROVE  HistoryInv'
<1> DEFINE r == plan[o].reply
<1>a. Running(o)
  BY DEF RecordResults, RecordFails, ReplaceFails, RecordAndClear, Commit, Continue,
         HooksFail, Running
<1>b. nextId \in Nat /\ nextId <= nextId
  BY DEF TypeOK
<1>0. /\ Running(o) /\ nextId \in Nat /\ nextId <= nextId /\ r \in Nat
      /\ State(o) \in AgentState /\ Orderly(State(o), nextId)
      /\ CallsHeld(o)
  BY <1>a, <1>b, HistoryKnows
<1>1. ASSUME pc[o] = "record"
      PROVE  /\ CheckpointMessage(State(o).hist, r) /\ State(o).exec.reply \in {0, r}
             /\ Orderly(WithResults(State(o), r), nextId)
  BY <1>0, <1>1, OrderlyResults DEF CallsHeld
<1>2. CASE RecordResults(o)
  <2> DEFINE s == WithResults(State(o), r)
  <2>1. /\ s \in AgentState /\ s.exec = State(o).exec /\ Follows(s, State(o))
        /\ HasResults(s, r) /\ Orderly(s, nextId) /\ State(o).exec.reply \in {0, r}
    BY <1>0, <1>1, <1>2, ResultsFacts DEF RecordResults
  <2>2. SetState(o, s) /\ State(o)' = s
    BY <1>2, StateType DEF RecordResults, SetState, State, TypeOK
  <2> HIDE DEF s
  <2>3. /\ pc'[o] = "hooks" /\ plan' = plan /\ \A p \in Ops \ {o} : pc'[p] = pc[p]
    BY <1>2 DEF RecordResults, Moves, Goto, TypeOK
  <2>4. CallsHeld(o)'
    BY <2>1, <2>2, <2>3 DEF CallsHeld
  <2> QED
    BY <1>0, <1>2, <2>1, <2>2, <2>3, <2>4, HistoryLocal DEF RecordResults, Moves
<1>3. CASE RecordFails(o)
  <2> DEFINE s == [State(o) EXCEPT !.hist = FinishCheckpointCalls(@, r)]
  <2>1. /\ s \in AgentState /\ Follows(s, State(o)) /\ Orderly(s, nextId)
    BY <1>0, <1>1, <1>3, FinishedFacts, OrderlyFinish DEF RecordFails
  <2>2. SetState(o, s)
    BY <1>3 DEF RecordFails
  <2> HIDE DEF s
  <2> QED
    BY <1>0, <1>3, <2>1, <2>2, FreeCalls, HistoryLocal DEF RecordFails, Moves
<1>4. CASE ReplaceFails(o)
  BY <1>0, <1>4, FreeCalls, HistorySame DEF ReplaceFails, Moves, data
<1>5. CASE RecordAndClear(o)
  <2> DEFINE t == WithResults(State(o), r)
             s == Cleared(t)
  <2>1. /\ t \in AgentState /\ t.exec = State(o).exec /\ Follows(t, State(o))
        /\ HasResults(t, r) /\ Orderly(t, nextId) /\ State(o).exec.reply \in {0, r}
    BY <1>0, <1>1, <1>5, ResultsFacts DEF RecordAndClear
  <2>2. SetState(o, s) /\ State(o)' = s
    BY <1>5, StateType DEF RecordAndClear, SetState, State, TypeOK
  <2> HIDE DEF t
  <2>3. /\ s \in AgentState /\ Follows(s, t) /\ s.hist = t.hist /\ s.exec.reply = 0
    BY <2>1, FollowsCleared, ClearedType DEF NoExecution
  <2> HIDE DEF s
  <2>4. /\ Follows(s, State(o)) /\ Orderly(s, nextId) /\ HasResults(s, r)
    BY <1>0, <2>1, <2>3, FollowsTransitive, OrderlyStable DEF HasResults
  <2>5. /\ pc'[o] = "commit" /\ plan' = plan /\ \A p \in Ops \ {o} : pc'[p] = pc[p]
    BY <1>5 DEF RecordAndClear, Moves, Goto, TypeOK
  <2>6. CallsHeld(o)'
    BY <2>2, <2>3, <2>4, <2>5 DEF CallsHeld
  <2> QED
    BY <1>0, <1>5, <2>2, <2>3, <2>4, <2>5, <2>6, HistoryLocal DEF RecordAndClear, Moves
<1>6. CASE Commit(o)
  <2>1. /\ State(o)' = State(o) /\ plan' = plan /\ pc[o] = "commit" /\ pc'[o] = "hooks"
        /\ \A p \in Ops \ {o} : pc'[p] = pc[p] /\ base'[p] = base[p]
        /\ base'[o] = base[o] + 1
    BY <1>6 DEF Commit, Goto, TypeOK, State
  <2>2. CallsHeld(o)'
    BY <1>0, <2>1 DEF CallsHeld
  <2> QED
    BY <1>0, <1>6, <2>1, <2>2, HistorySave DEF Commit
<1>7. CASE Continue(o)
  <2> DEFINE s == Cleared(State(o))
  <2>1. HasResults(State(o), r) /\ State(o).exec.reply \in {0, r}
    BY <1>0, <1>7 DEF Continue, CallsHeld
  <2>2. s \in AgentState /\ Follows(s, State(o)) /\ s.hist = State(o).hist
    BY <1>0, <2>1, FollowsCleared
  <2>3. SetState(o, s)
    BY <1>7 DEF Continue
  <2> HIDE DEF s
  <2>4. Orderly(s, nextId)
    BY <1>0, <2>2, OrderlyStable
  <2> QED
    BY <1>0, <1>7, <2>2, <2>3, <2>4, FreeCalls, HistoryLocal DEF Continue, ghosts
<1>8. CASE HooksFail(o)
  BY <1>0, <1>8, FreeCalls, HistorySame DEF HooksFail, Moves, data
<1> QED
  BY <1>2, <1>3, <1>4, <1>5, <1>6, <1>7, <1>8

LEMMA HistoryEnding ==
    ASSUME TypeOK, TypeOK', FenceInv, HistoryInv, NEW o \in Ops, Ending(o)
    PROVE  HistoryInv'
<1>0. /\ Running(o) /\ Return(o) /\ CallsHeld(o)'
      /\ base'[o] = 0
      /\ \A p \in Ops \ {o} : pc'[p] = pc[p] /\ plan'[p] = plan[p] /\ base'[p] = base[p]
  BY ReturnedHeld DEF Ending, Finish, FinishFails, Running, CallsHeld
<1>1. CASE Finish(o)
  BY <1>0, <1>1, HistorySave DEF Finish
<1>2. CASE FinishFails(o)
  <2>1. CASE UNCHANGED <<store, fenced>>
    BY <1>0, <1>2, <2>1, HistoryReturn DEF FinishFails
  <2>2. CASE SaveSucceeds(o)
    BY <1>0, <1>2, <2>2, HistorySave DEF FinishFails
  <2> QED
    BY <1>2, <2>1, <2>2 DEF FinishFails, SaveFails
<1> QED
  BY <1>1, <1>2 DEF Ending

LEMMA HistoryEnvironment ==
    ASSUME TypeOK, TypeOK', FenceInv, HistoryInv, Environment
    PROVE  HistoryInv'
<1>0. nextId \in Nat /\ nextId <= nextId
  BY DEF TypeOK
<1>1. ASSUME NEW a \in Agents, Interrupt(a) PROVE HistoryInv'
  BY <1>1 DEF Interrupt, data, HistoryInv, CallsHeld, State, Running, AckedIsDurable,
     StoredMsgs, Stored
<1>2. ASSUME NEW a \in Agents, Crash(a) PROVE HistoryInv'
  <2>1. /\ UNCHANGED <<store, nextId, fenced, acked>> /\ orphans' \subseteq orphans
        /\ \A p \in Ops : Owner[p] = a => ~Running(p)' /\ CallsHeld(p)'
        /\ \A p \in Ops : Owner[p] # a =>
              /\ pc'[p] = pc[p] /\ plan'[p] = plan[p] /\ base'[p] = base[p]
              /\ State(p)' = State(p)
    BY <1>2, SessionAssumption DEF Crash, Running, State, TypeOK, CallsHeld
  <2>2. \A p \in Ops : CallsHeld(p)'
    BY <1>0, <2>1, CallsStay
  <2>3. \A p \in Ops : Running(p)' => Running(p) /\ Owner[p] # a
    BY <2>1 DEF Running
  <2>4. \A b \in Agents : view'[b] = view[b] \/ view'[b] = EmptyState
    BY <1>2 DEF Crash, TypeOK
  <2>5. \A b \in Agents : Orderly(view'[b], nextId')
    BY <2>1, <2>4, OrderlyEmpty DEF HistoryInv
  <2> QED
    BY <2>1, <2>2, <2>3, <2>5 DEF HistoryInv, AckedIsDurable, StoredMsgs, Stored
<1>3. ASSUME NEW w \in orphans, OrphanCommits(w) PROVE HistoryInv'
  <2>1. /\ w.base \in Nat /\ w.state \in AgentState
        /\ Commits(w.base, w.state) /\ w.base = store.rev
        /\ Orderly(w.state, nextId) /\ Follows(w.state, store.state)
    BY <1>3 DEF OrphanCommits, Commits, TypeOK, HistoryInv
  <2>2. /\ UNCHANGED <<view, pc, plan, base, nextId, acked>> /\ orphans' \subseteq orphans
        /\ \A p \in Ops : State(p)' = State(p)
    BY <1>3 DEF OrphanCommits, control, State
  <2>3. \A p \in Ops : CallsHeld(p)'
    BY <1>0, <2>2, CallsStay
  <2> QED
    BY <2>1, <2>2, <2>3, HistoryCommit
<1>4. ASSUME NEW w \in orphans, OrphanLost(w) PROVE HistoryInv'
  BY <1>4 DEF OrphanLost, control, ghosts, HistoryInv, CallsHeld, State, Running,
     AckedIsDurable, StoredMsgs, Stored
<1> QED
  BY <1>1, <1>2, <1>3, <1>4 DEF Environment

LEMMA HistoryStep == TypeOK /\ TypeOK' /\ FenceInv /\ HistoryInv /\ [Next]_vars => HistoryInv'
<1> SUFFICES ASSUME TypeOK, TypeOK', FenceInv, HistoryInv, [Next]_vars PROVE HistoryInv'
  OBVIOUS
<1>1. ASSUME NEW o \in Ops, Call(o) \/ Start(o) \/ Drop(o) PROVE HistoryInv'
  BY <1>1, HistoryStart
<1>2. ASSUME NEW o \in Ops, Progress(o) PROVE HistoryInv'
  BY <1>2, HistoryEntry, HistoryReasoning, HistoryPlanning, HistoryExecuting,
     HistoryRecording, HistoryEnding DEF Progress, Recovery
<1>3. CASE Environment
  BY <1>3, HistoryEnvironment
<1>4. CASE UNCHANGED vars
  BY <1>4 DEF vars, HistoryInv, CallsHeld, State, Running, AckedIsDurable, StoredMsgs, Stored
<1> QED
  BY <1>1, <1>2, <1>3, <1>4 DEF Next

\* HistoryInv holds in every reachable state.
LEMMA Invariance == Spec => []HistoryInv
BY HistoryInit, HistoryStep, TypeCorrect, Fencing, PTL DEF Spec

-----------------------------------------------------------------------------
(* What follows from it.                                                    *)

\* finish_state_operation, commit_recovery_results and validate_state: what was
\* invoked is still pending in the stored session, or has its results there.
THEOREM EffectsKept == Spec => []EffectsAccounted
<1>1. FenceInv /\ HistoryInv => EffectsAccounted
  BY DEF FenceInv, FencedFirst, HistoryInv, EffectsAccounted, HasResults, Stored, StoredMsgs
<1> QED
  BY <1>1, Fencing, Invariance, PTL

\* record_tool_results and commit_recovery_results: no call is answered twice
\* in the stored history, whoever recovers it and however often.
THEOREM AnsweredOnceHolds == Spec => []AnsweredOnce
<1>1. HistoryInv => AnsweredOnce
  BY DEF HistoryInv, Orderly, AnsweredOnce, Stored
<1> QED
  BY <1>1, Invariance, PTL

\* finish_state_operation: a message that an operation reported as saved is in
\* every later stored history, at most with its calls finished.
THEOREM AckedStays == Spec => []AckedIsDurable
<1>1. HistoryInv => AckedIsDurable
  BY DEF HistoryInv
<1> QED
  BY <1>1, Invariance, PTL

\* A step that changes the store commits a state that follows the stored one.
LEMMA StoreStep ==
    ASSUME TypeOK, FenceInv, HistoryInv, [Next]_vars, store' # store
    PROVE  \E s \in AgentState : Commits(store.rev, s) /\ Follows(s, store.state)
<1>1. ASSUME NEW o \in Ops, Running(o), SaveSucceeds(o)
      PROVE  \E s \in AgentState : Commits(store.rev, s) /\ Follows(s, store.state)
  <2>1. Commits(base[o], State(o)) /\ base[o] = store.rev
    BY <1>1 DEF SaveSucceeds, Commits
  <2> QED
    BY <1>1, <2>1, HistoryKnows
<1>2. ASSUME NEW o \in Ops, Persist(o) \/ Commit(o) \/ Finish(o)
      PROVE  Running(o) /\ SaveSucceeds(o)
  BY <1>2 DEF Persist, Commit, Finish, Running
<1>3. ASSUME NEW o \in Ops, PersistFails(o) \/ FinishFails(o)
      PROVE  Running(o) /\ SaveSucceeds(o)
  BY <1>3 DEF PersistFails, FinishFails, SaveFails, Running
<1>4. ASSUME NEW w \in orphans, OrphanCommits(w)
      PROVE  \E s \in AgentState : Commits(store.rev, s) /\ Follows(s, store.state)
  <2>1. /\ w.state \in AgentState /\ w.base = store.rev /\ Commits(store.rev, w.state)
        /\ Follows(w.state, store.state)
    BY <1>4 DEF OrphanCommits, Commits, TypeOK, HistoryInv
  <2> QED
    BY <2>1
<1>5. ASSUME NEW o \in Ops, Call(o) \/ Start(o) \/ Drop(o) \/ Entry(o)
      PROVE  FALSE
  BY <1>5 DEF Call, Start, Begin, BeginFails, Drop, Entry, Snapshot, Observe,
     AcceptReply, Refuse, data
<1>6. ASSUME NEW o \in Ops, Reasoning(o)
      PROVE  FALSE
  BY <1>6 DEF Reasoning, ModelFails, ModelAnswers, ModelExhausted,
     PauseForConfirmation, CallTools, ToolsReturn, ToolsInterrupted,
     ToolsUnrecorded, data
<1>7. ASSUME NEW o \in Ops,
             \/ RefuseRecovery(o) \/ ResumeCall(o) \/ ResumeStream(o) \/ PlanRecovery(o)
             \/ Setup(o) \/ SetupFails(o) \/ \E c \in Calls : Invoke(o, c)
             \/ ToolsSettle(o) \/ ToolsInDoubt(o)
             \/ RecordResults(o) \/ RecordFails(o) \/ ReplaceFails(o)
             \/ RecordAndClear(o) \/ Continue(o) \/ HooksFail(o)
      PROVE  FALSE
  BY <1>7 DEF RefuseRecovery, ResumeCall, ResumeStream, PlanRecovery, Setup,
     SetupFails, Invoke, ToolsSettle, ToolsInDoubt, RecordResults, RecordFails,
     ReplaceFails, RecordAndClear, Continue, HooksFail, data
<1>8. CASE Environment
  <2>1. ASSUME NEW a \in Agents, Interrupt(a) \/ Crash(a) PROVE FALSE
    BY <2>1 DEF Interrupt, Crash, data
  <2>2. ASSUME NEW w \in orphans, OrphanLost(w) PROVE FALSE
    BY <2>2 DEF OrphanLost
  <2> QED
    BY <1>4, <1>8, <2>1, <2>2 DEF Environment
<1>9. ~UNCHANGED vars
  BY DEF vars
<1> QED
  BY <1>1, <1>2, <1>3, <1>5, <1>6, <1>7, <1>8, <1>9 DEF Next, Progress, Recovery, Ending

\* What HistoryGrows asks of one message is what Extends says of it.
LEMMA FinishesItself ==
    ASSUME NEW m \in Msg, m.kind = "asking"
    PROVE  [kind |-> "finished", id |-> m.id] \in MsgsOf(FinishCheckpointCalls(<<m>>, m.id))
<1> DEFINE h == <<m>>
<1>1. /\ h \in Seq(Msg) /\ DOMAIN h = 1 .. 1 /\ h[1] = m /\ m.id \in Nat
      /\ m = [kind |-> "asking", id |-> m.id]
  BY DEF Msg
<1> HIDE DEF h
<1> DEFINE g == FinishCheckpointCalls(h, m.id)
<1>2. DOMAIN g = DOMAIN h /\ g[1] = [kind |-> "finished", id |-> m.id]
  BY <1>1, FinishFacts DEF FinishCheckpointCalls
<1> HIDE DEF g
<1>3. g[1] \in MsgsOf(g)
  BY <1>1, <1>2 DEF MsgsOf
<1> QED
  BY <1>2, <1>3 DEF g, h

\* SqliteStateStore::save and the loads before it: across instances, failed,
\* late and repeated saves, no committed message is ever lost or rewritten, except
\* that awaited calls get finished.
THEOREM NoLostUpdate == Spec => HistoryGrows
<1>1. ASSUME TypeOK, FenceInv, HistoryInv, [Next]_vars, store' # store
      PROVE  /\ store'.rev = store.rev + 1
             /\ Len(store'.state.hist) >= Len(store.state.hist)
             /\ \A i \in DOMAIN store.state.hist :
                   \/ store'.state.hist[i] = store.state.hist[i]
                   \/ store'.state.hist[i] \in MsgsOf(
                         FinishCheckpointCalls(<<store.state.hist[i]>>, store.state.hist[i].id))
  <2>1. PICK s \in AgentState : Commits(store.rev, s) /\ Follows(s, store.state)
    BY <1>1, StoreStep
  <2>2. store'.rev = store.rev + 1 /\ store'.state = s /\ Extends(store.state.hist, s.hist)
    BY <2>1 DEF Commits, Follows
  <2>3. \A i \in DOMAIN store.state.hist : store.state.hist[i] \in Msg
    BY <1>1 DEF TypeOK, AgentState
  <2> QED
    BY <2>2, <2>3, FinishesItself DEF Extends
<1>2. TypeOK /\ FenceInv /\ HistoryInv /\ [Next]_vars =>
        [LET old == store.state.hist
             new == store'.state.hist
         IN  store' # store =>
               /\ store'.rev = store.rev + 1
               /\ Len(new) >= Len(old)
               /\ \A i \in DOMAIN old :
                     new[i] = old[i] \/ new[i] \in MsgsOf(
                        FinishCheckpointCalls(<<old[i]>>, old[i].id))]_vars
  BY <1>1
<1> QED
  BY <1>2, TypeCorrect, Fencing, Invariance, PTL DEF Spec, HistoryGrows

-----------------------------------------------------------------------------
(* Sessions that can be loaded again.  The two theorems are about agents     *)
(* whose hooks and memory do not fail: when one does, the code saves a       *)
(* session that validate_state rejects.                                     *)

Dependable == {"hook", "memory"} \cap Disruptions = {}

\* The calls that a history asks for.
LEMMA AskingIds ==
    ASSUME NEW s \in AgentState, NEW r
    PROVE  r \in {m.id : m \in {x \in MsgsOf(s.hist) : x.kind = "asking"}}
             <=> CheckpointMessage(s.hist, r)
<1> DEFINE ask == [kind |-> "asking", id |-> r]
<1>1. ask.kind = "asking" /\ ask.id = r
  OBVIOUS
<1>2. ASSUME NEW m \in MsgsOf(s.hist), m.kind = "asking", m.id = r
      PROVE  m = ask
  <2>1. m \in Msg
    BY MsgsTyped
  <2> QED
    BY <1>2, <2>1 DEF Msg
<1> HIDE DEF ask
<1>3. r \in {m.id : m \in {x \in MsgsOf(s.hist) : x.kind = "asking"}}
        <=> \E m \in MsgsOf(s.hist) : m.kind = "asking" /\ m.id = r
  OBVIOUS
<1>4. (\E m \in MsgsOf(s.hist) : m.kind = "asking" /\ m.id = r) <=> ask \in MsgsOf(s.hist)
  BY <1>1, <1>2
<1> QED
  BY <1>3, <1>4 DEF CheckpointMessage, ask

LEMMA WholeAsks ==
    ASSUME NEW s \in AgentState
    PROVE  Whole(s) <=>
             /\ \A r : CheckpointMessage(s.hist, r) <=> r \in Awaited(s)
             /\ \A m \in MsgsOf(s.hist) : m.kind = "finished" => HasResults(s, m.id)
             /\ s.calls.reply # 0 => s.calls.step < MaxSteps
             /\ s.exec.reply # 0 => s.exec.step < MaxSteps /\ s.exec.approved # {}
<1> DEFINE A == {m.id : m \in {x \in MsgsOf(s.hist) : x.kind = "asking"}}
<1>1. \A r : r \in A <=> CheckpointMessage(s.hist, r)
  BY AskingIds
<1> HIDE DEF A
<1>2. A = Awaited(s) <=> \A r : CheckpointMessage(s.hist, r) <=> r \in Awaited(s)
  BY <1>1
<1> QED
  BY <1>2 DEF Whole, A

LEMMA WholeEmpty == Whole(EmptyState)
<1>1. /\ EmptyState \in AgentState /\ MsgsOf(EmptyState.hist) = {}
      /\ EmptyState.calls.reply = 0 /\ EmptyState.exec.reply = 0
  BY ConstantTypes DEF EmptyState, NoCalls, NoExecution, MsgsOf
<1> QED
  BY <1>1, WholeAsks DEF CheckpointMessage, Awaited

\* Nothing is awaited: clearing the checkpoints changes nothing.
LEMMA WholeCleared ==
    ASSUME NEW s \in AgentState, Whole(s), Awaited(s) = {}
    PROVE  Whole(Cleared(s))
<1>1. Cleared(s) \in AgentState /\ Cleared(s).hist = s.hist
  BY ClearedType DEF Cleared, AgentState
<1>2. Cleared(s).calls.reply = 0 /\ Cleared(s).exec.reply = 0
  BY ClearedType DEF NoCalls, NoExecution
<1> QED
  BY <1>1, <1>2, WholeAsks DEF Awaited, HasResults

\* The execution checkpoint that replaces the confirmation checkpoint awaits
\* the same calls.
LEMMA WholeFenced ==
    ASSUME NEW s \in AgentState, NEW e \in PendingToolExecution, Whole(s),
           Awaited(s) = {e.reply}, e.step < MaxSteps, e.approved # {}
    PROVE  Whole(Fenced(s, e))
<1>1. /\ Fenced(s, e) \in AgentState /\ Fenced(s, e).hist = s.hist
      /\ Fenced(s, e).calls.reply = 0 /\ Fenced(s, e).exec = e
  BY FencedType DEF Fenced, AgentState, NoCalls
<1>2. Awaited(Fenced(s, e)) = Awaited(s)
  BY <1>1 DEF Awaited
<1> QED
  BY <1>1, <1>2, WholeAsks DEF HasResults

\* A message without calls, or whose calls need no confirmation.
LEMMA WholeRemember ==
    ASSUME NEW s \in AgentState, NEW k \in MsgKinds \ {"asking", "finished"},
           NEW i \in Nat, Whole(s)
    PROVE  Whole(Remember(s, k, i))
<1> DEFINE n == Remember(s, k, i)
<1>1. n \in AgentState /\ n.calls = s.calls /\ n.exec = s.exec
  BY RememberType
<1>2. PICK m \in Msg : m.kind = k /\ m.id = i /\ n.hist = Append(s.hist, m)
  BY RememberMsg
<1> HIDE DEF n
<1>a. MsgsOf(n.hist) = MsgsOf(s.hist) \cup {m}
  BY <1>2, AppendMsgs DEF AgentState
<1>3. \A r : CheckpointMessage(n.hist, r) <=> CheckpointMessage(s.hist, r)
  BY <1>2, <1>a DEF CheckpointMessage
<1>4. \A r : HasResults(s, r) => HasResults(n, r)
  BY <1>2, <1>a DEF HasResults
<1>5. Awaited(n) = Awaited(s)
  BY <1>1 DEF Awaited
<1>6. \A x \in MsgsOf(n.hist) : x.kind = "finished" => HasResults(n, x.id)
  BY <1>2, <1>4, <1>a, WholeAsks
<1> QED
  BY <1>1, <1>3, <1>5, <1>6, WholeAsks DEF n

\* A fresh set of calls that waits for confirmation.
LEMMA WholePaused ==
    ASSUME NEW s \in AgentState, NEW i \in Nat \ {0}, NEW k \in Nat, Whole(s),
           s.calls.reply = 0, s.exec.reply = 0, k < MaxSteps
    PROVE  Whole([Remember(s, "asking", i) EXCEPT !.calls = [reply |-> i, step |-> k]])
<1> DEFINE c == [reply |-> i, step |-> k]
           q == Remember(s, "asking", i)
           n == [q EXCEPT !.calls = c]
<1>1. /\ "asking" \in MsgKinds /\ c \in PendingToolCalls /\ c.reply = i /\ c.step = k
  BY DEF MsgKinds, PendingToolCalls
<1>2. q \in AgentState /\ q.exec = s.exec
  BY <1>1, RememberType
<1>3. PICK m \in Msg : m.kind = "asking" /\ m.id = i /\ q.hist = Append(s.hist, m)
                       /\ m = [kind |-> "asking", id |-> i]
  BY <1>1, RememberMsg
<1> HIDE DEF q, c
<1>4. n \in AgentState /\ n.exec = s.exec /\ n.calls = c /\ n.hist = q.hist
  BY <1>1, <1>2 DEF AgentState
<1> HIDE DEF n
<1>5. MsgsOf(n.hist) = MsgsOf(s.hist) \cup {m}
  BY <1>3, <1>4, AppendMsgs DEF AgentState
<1>6. Awaited(n) = {i} /\ Awaited(s) = {}
  BY <1>1, <1>4 DEF Awaited
<1>7. \A r : CheckpointMessage(n.hist, r) <=> r = i
  <2>1. \A r : ~CheckpointMessage(s.hist, r)
    BY <1>6, WholeAsks
  <2>2. CheckpointMessage(n.hist, i)
    BY <1>3, <1>5 DEF CheckpointMessage
  <2>3. ASSUME NEW r, CheckpointMessage(n.hist, r) PROVE r = i
    <3> DEFINE ask == [kind |-> "asking", id |-> r]
    <3>1. ask.id = r
      OBVIOUS
    <3>2. ask \in MsgsOf(n.hist) /\ ask \notin MsgsOf(s.hist)
      BY <2>1, <2>3 DEF CheckpointMessage
    <3> HIDE DEF ask
    <3>3. ask = m
      BY <1>5, <3>2
    <3> QED
      BY <1>3, <3>1, <3>3
  <2> QED
    BY <2>2, <2>3
<1>8. \A r : HasResults(s, r) => HasResults(n, r)
  BY <1>5 DEF HasResults
<1>9. \A x \in MsgsOf(n.hist) : x.kind = "finished" => HasResults(n, x.id)
  BY <1>3, <1>5, <1>8, WholeAsks
<1> QED
  BY <1>1, <1>4, <1>6, <1>7, <1>9, WholeAsks DEF n, q, c

\* The results of the awaited calls: nothing is asked for any more.
LEMMA WholeResults ==
    ASSUME NEW s \in AgentState, NEW r \in Nat, Whole(s), Awaited(s) = {r}
    PROVE  Whole(Cleared(WithResults(s, r)))
<1> DEFINE g == FinishCheckpointCalls(s.hist, r)
           f == [s EXCEPT !.hist = g]
           n == WithResults(s, r)
           c == Cleared(n)
<1>1. s.hist \in Seq(Msg) /\ "results" \in MsgKinds
  BY DEF AgentState, MsgKinds
<1>2. f \in AgentState /\ f.hist = g
  BY <1>1, FinishType DEF AgentState
<1>3. n = Remember(f, "results", r)
  BY DEF WithResults
<1>4. /\ ~CheckpointMessage(g, r)
      /\ \A m \in MsgsOf(g) : m \in MsgsOf(s.hist) \/ m = [kind |-> "finished", id |-> r]
      /\ \A m \in MsgsOf(s.hist) : m # [kind |-> "asking", id |-> r] => m \in MsgsOf(g)
  BY <1>1, FinishMsgs
<1> HIDE DEF f, g
<1>5. PICK m \in Msg : m.kind = "results" /\ m.id = r /\ n.hist = Append(f.hist, m)
                       /\ m = [kind |-> "results", id |-> r]
  BY <1>1, <1>2, <1>3, RememberMsg
<1>6. n \in AgentState
  BY ResultsType
<1> HIDE DEF n
<1>7. MsgsOf(n.hist) = MsgsOf(g) \cup {m}
  BY <1>2, <1>5, AppendMsgs DEF AgentState
<1>8. c \in AgentState /\ c.hist = n.hist /\ c.calls.reply = 0 /\ c.exec.reply = 0
  BY <1>6, ClearedType DEF Cleared, AgentState, NoCalls, NoExecution
<1> HIDE DEF c
<1>9. Awaited(c) = {}
  BY <1>8 DEF Awaited
<1>10. ASSUME NEW x, CheckpointMessage(c.hist, x) PROVE FALSE
  <2> DEFINE ask == [kind |-> "asking", id |-> x]
  <2>1. ask.kind = "asking" /\ ask.id = x /\ ask # [kind |-> "finished", id |-> r]
    OBVIOUS
  <2>2. ask \in MsgsOf(c.hist)
    BY <1>10 DEF CheckpointMessage
  <2> HIDE DEF ask
  <2>3. ask \in MsgsOf(g)
    BY <1>5, <1>7, <1>8, <2>1, <2>2
  <2>4. ask \in MsgsOf(s.hist)
    BY <1>4, <2>1, <2>3
  <2>5. x = r
    BY <2>4, WholeAsks DEF CheckpointMessage, ask
  <2> QED
    BY <1>4, <2>3, <2>5 DEF CheckpointMessage, ask
<1>11. ASSUME NEW x \in MsgsOf(c.hist), x.kind = "finished" PROVE HasResults(c, x.id)
  <2>1. x \in MsgsOf(g)
    BY <1>5, <1>7, <1>8, <1>11
  <2>2. CASE x \in MsgsOf(s.hist)
    <3> DEFINE res == [kind |-> "results", id |-> x.id]
    <3>1. res # [kind |-> "asking", id |-> r]
      OBVIOUS
    <3>2. res \in MsgsOf(s.hist)
      BY <1>11, <2>2, WholeAsks DEF HasResults
    <3> HIDE DEF res
    <3>3. res \in MsgsOf(c.hist)
      BY <1>4, <1>7, <1>8, <3>1, <3>2
    <3> QED
      BY <3>3 DEF HasResults, res
  <2>3. CASE x = [kind |-> "finished", id |-> r]
    <3>1. x.id = r
      BY <2>3
    <3>2. m \in MsgsOf(c.hist)
      BY <1>7, <1>8
    <3> QED
      BY <1>5, <3>1, <3>2 DEF HasResults
  <2> QED
    BY <1>4, <2>1, <2>2, <2>3
<1> QED
  BY <1>8, <1>9, <1>10, <1>11, WholeAsks DEF c, n

\* What waits for exactly one set of calls, once a message asks for it.
LEMMA AwaitedOne ==
    ASSUME NEW s \in AgentState, Whole(s), WellFormed(s), NEW r \in Nat,
           CheckpointMessage(s.hist, r)
    PROVE  Awaited(s) = {r} /\ r # 0
<1>1. r \in Awaited(s)
  BY WholeAsks
<1> QED
  BY <1>1 DEF Awaited, WellFormed

-----------------------------------------------------------------------------
(* WholeInv is inductive while neither hooks nor memory fail.               *)

LEMMA LocksStay ==
    ASSUME TypeOK, LocksUsed, lock' = lock, \A p \in Ops : Running(p) => Running(p)'
    PROVE  LocksUsed'
<1>1. ASSUME NEW a \in Agents, lock[a] # NoOp
      PROVE  Owner[lock[a]] = a /\ pc'[lock[a]] \notin {"idle", "waiting"}
  BY <1>1 DEF LocksUsed, TypeOK, Running
<1> QED
  BY <1>1 DEF LocksUsed, Running

LEMMA LocksReturn ==
    ASSUME TypeOK, LocksUsed, NEW o \in Ops, Return(o)
    PROVE  LocksUsed'
<1>1. \A p \in Ops \ {o} : pc'[p] = pc[p]
  BY ReturnedHeld
<1>2. \A a \in Agents : \/ lock'[a] = lock[a] /\ lock[a] # o
                        \/ lock'[a] = NoOp /\ lock[a] = o
  BY DEF Return, TypeOK
<1>3. \A a \in Agents : lock[a] \in Ops \cup {NoOp}
  BY DEF TypeOK
<1>4. ASSUME NEW a \in Agents, lock'[a] # NoOp
      PROVE  Owner[lock'[a]] = a /\ pc'[lock'[a]] \notin {"idle", "waiting"}
  <2>1. lock'[a] = lock[a] /\ lock[a] \in Ops \ {o}
    BY <1>2, <1>3, <1>4
  <2>2. Owner[lock[a]] = a /\ Running(lock[a])
    BY <1>4, <2>1 DEF LocksUsed
  <2> QED
    BY <1>1, <2>1, <2>2 DEF Running
<1> QED
  BY <1>4 DEF LocksUsed, Running

LEMMA WholeLocal ==
    ASSUME TypeOK, FenceInv, WholeInv, NEW o \in Ops, NEW s \in AgentState,
           Running(o), Running(o)', lock' = lock, store' = store, orphans' = orphans,
           base' = base, \A p \in Ops \ {o} : pc'[p] = pc[p] /\ plan'[p] = plan[p],
           SetState(o, s), base[o] = store.rev => WholeAt(o)'
    PROVE  WholeInv'
<1>1. /\ Owner[o] \in Agents /\ lock[Owner[o]] = o /\ o # NoOp
      /\ view' = [view EXCEPT ![Owner[o]] = s]
      /\ \A p \in Ops \ {o} : Running(p) => State(p)' = State(p)
  BY SessionAssumption DEF SetState, State, TypeOK, FenceInv, LockHeld
<1>2. LocksUsed'
  <2>1. \A p \in Ops : Running(p) => Running(p)'
    BY DEF Running
  <2> QED
    BY <2>1, LocksStay DEF WholeInv
<1>3. ASSUME NEW p \in Ops, p # o, Running(p)', base'[p] = store'.rev
      PROVE  WholeAt(p)'
  <2>1. Running(p) /\ WholeAt(p) /\ State(p)' = State(p) /\ pc'[p] = pc[p] /\ plan'[p] = plan[p]
    BY <1>1, <1>3 DEF Running, WholeInv
  <2> QED
    BY <2>1 DEF WholeAt
<1>4. store'.rev = 0 => \A a \in Agents : lock'[a] = NoOp => Whole(view'[a])
  <2>1. \A a \in Agents : lock[a] = NoOp => view'[a] = view[a]
    BY <1>1 DEF TypeOK
  <2> QED
    BY <2>1 DEF WholeInv
<1>5. \A p \in Ops : Running(p)' /\ base'[p] = store'.rev => WholeAt(p)'
  BY <1>3
<1>6. /\ "drop" \in Disruptions => store'.rev > 0
      /\ Whole(store'.state)
      /\ \A w \in orphans' : w.base = store'.rev => Whole(w.state)
  BY DEF WholeInv
<1> QED
  BY <1>2, <1>4, <1>5, <1>6 DEF WholeInv

\* A running operation leaves the state of its instance alone.
LEMMA WholeSame ==
    ASSUME TypeOK, FenceInv, WholeInv, NEW o \in Ops, Running(o), Running(o)',
           lock' = lock, store' = store, orphans' = orphans, base' = base, view' = view,
           \A p \in Ops \ {o} : pc'[p] = pc[p] /\ plan'[p] = plan[p],
           base[o] = store.rev => WholeAt(o)'
    PROVE  WholeInv'
<1>1. SetState(o, State(o)) /\ State(o) \in AgentState
  BY StateType DEF SetState, State, TypeOK
<1> QED
  BY <1>1, WholeLocal

\* An operation ends without a commit; dropping it may leave its save behind.
LEMMA WholeReturn ==
    ASSUME TypeOK, FenceInv, WholeInv, NEW o \in Ops, Return(o),
           store' = store, view' = view, store.rev = 0 => pc[o] # "hooks",
           \/ orphans' = orphans
           \/ Running(o) /\ pc[o] # "hooks" /\ orphans' = orphans \cup {PendingSave(o)}
    PROVE  WholeInv'
<1>1. /\ \A p \in Ops : Running(p)' => p # o /\ Running(p)
      /\ \A p \in Ops \ {o} : Running(p) => Running(p)'
      /\ \A p \in Ops : State(p)' = State(p)
      /\ \A p \in Ops \ {o} : base'[p] = base[p] /\ pc'[p] = pc[p] /\ plan'[p] = plan[p]
  BY ReturnedHeld DEF Running, State
<1>2. \A a \in Agents : \/ lock'[a] = lock[a] /\ lock[a] # o
                        \/ lock'[a] = NoOp /\ lock[a] = o
  BY DEF Return, TypeOK
<1>3. o # NoOp /\ \A a \in Agents : lock[a] \in Ops \cup {NoOp}
  BY SessionAssumption DEF TypeOK
<1>4. LocksUsed'
  BY LocksReturn DEF WholeInv
<1>5. ASSUME NEW p \in Ops, Running(p)', base'[p] = store'.rev
      PROVE  WholeAt(p)'
  <2>1. Running(p) /\ WholeAt(p) /\ State(p)' = State(p) /\ pc'[p] = pc[p] /\ plan'[p] = plan[p]
    BY <1>1, <1>5 DEF WholeInv
  <2> QED
    BY <2>1 DEF WholeAt
<1>6. ASSUME NEW a \in Agents, store.rev = 0, lock'[a] = NoOp PROVE Whole(view'[a])
  <2>1. CASE lock[a] = NoOp
    BY <1>6, <2>1 DEF WholeInv
  <2>2. CASE lock[a] = o
    <3>1. Owner[o] = a /\ Running(o)
      BY <1>3, <2>2 DEF WholeInv, LocksUsed
    <3>2. base[o] = store.rev
      BY <1>6 DEF FenceInv, RevisionsKnown, TypeOK
    <3>3. WholeAt(o) /\ pc[o] # "hooks"
      BY <1>6, <3>1, <3>2 DEF WholeInv
    <3> QED
      BY <3>1, <3>3 DEF WholeAt, State
  <2> QED
    BY <1>2, <1>6, <2>1, <2>2
<1>7. ASSUME NEW w \in orphans', w.base = store.rev PROVE Whole(w.state)
  <2>1. CASE w \in orphans
    BY <1>7, <2>1 DEF WholeInv
  <2>2. CASE w = PendingSave(o) /\ Running(o) /\ pc[o] # "hooks"
    <3>1. w.base = base[o] /\ w.state = State(o)
      BY <2>2 DEF PendingSave
    <3> QED
      BY <1>7, <2>2, <3>1 DEF WholeInv, WholeAt
  <2> QED
    BY <1>7, <2>1, <2>2
<1>8. ("drop" \in Disruptions => store'.rev > 0) /\ Whole(store'.state)
  BY DEF WholeInv
<1> QED
  BY <1>4, <1>5, <1>6, <1>7, <1>8 DEF WholeInv

\* A state is committed.
LEMMA WholeCommit ==
    ASSUME TypeOK, FenceInv, WholeInv, NEW e \in Nat, NEW s \in AgentState,
           Commits(e, s), Whole(s), orphans' \subseteq orphans,
           \A p \in Ops : \/ base'[p] = base[p] \/ base'[p] = 0
                          \/ base'[p] = e + 1 /\ WholeAt(p)',
           LocksUsed'
    PROVE  WholeInv'
<1>1. /\ e = store.rev /\ store'.rev = e + 1 /\ store'.state = s /\ e + 1 > 0
      /\ \A p \in Ops : base[p] \in Nat /\ base[p] <= e
      /\ \A w \in orphans : w.base \in Nat /\ w.base <= e
  BY DEF Commits, TypeOK, FenceInv, RevisionsKnown
<1>2. /\ store'.rev # 0 /\ \A w \in orphans' : w.base # store'.rev
      /\ \A p \in Ops : base'[p] = store'.rev => WholeAt(p)'
  BY <1>1
<1> QED
  BY <1>1, <1>2 DEF WholeInv

\* An operation commits the state of its instance and goes on.
LEMMA WholeSave ==
    ASSUME TypeOK, FenceInv, WholeInv, NEW o \in Ops, Running(o), Running(o)',
           pc[o] # "hooks", SaveSucceeds(o), orphans' = orphans, lock' = lock,
           \A p \in Ops \ {o} : pc'[p] = pc[p] /\ base'[p] = base[p],
           base'[o] = base[o] \/ (base'[o] = base[o] + 1 /\ WholeAt(o)')
    PROVE  WholeInv'
<1>1. /\ base[o] \in Nat /\ Commits(base[o], State(o)) /\ base[o] = store.rev
      /\ State(o) \in AgentState
  BY StateType DEF SaveSucceeds, Commits, TypeOK
<1>2. Whole(State(o))
  BY <1>1 DEF WholeInv, WholeAt
<1>3. LocksUsed'
  <2>1. \A p \in Ops : Running(p) => Running(p)'
    BY DEF Running
  <2> QED
    BY <2>1, LocksStay DEF WholeInv
<1>4. \A p \in Ops : \/ base'[p] = base[p] \/ base'[p] = 0
                     \/ base'[p] = base[o] + 1 /\ WholeAt(p)'
  OBVIOUS
<1>5. orphans' \subseteq orphans
  OBVIOUS
<1> QED
  BY <1>1, <1>2, <1>3, <1>4, <1>5, WholeCommit

\* In most places a running operation needs a state that is whole, no more.
LEMMA WholeGoes ==
    ASSUME TypeOK, FenceInv, WholeInv, NEW o \in Ops, NEW s \in AgentState,
           Running(o), pc[o] # "hooks", lock' = lock, store' = store,
           orphans' = orphans, base' = base,
           NEW where \in {"model", "tools", "finish", "record", "persist"}, Goto(o, where),
           \A p \in Ops \ {o} : plan'[p] = plan[p], SetState(o, s),
           base[o] = store.rev /\ Whole(State(o)) => Whole(s)
    PROVE  WholeInv'
<1>1. /\ pc'[o] = where /\ Running(o)' /\ \A p \in Ops \ {o} : pc'[p] = pc[p]
      /\ State(o)' = s
  BY StateType DEF Goto, TypeOK, Running, SetState, State
<1>2. base[o] = store.rev => WholeAt(o)'
  BY <1>1 DEF WholeInv, WholeAt
<1> QED
  BY <1>1, <1>2, WholeLocal

LEMMA WholeGoesOn ==
    ASSUME TypeOK, FenceInv, WholeInv, NEW o \in Ops, Running(o), pc[o] # "hooks",
           lock' = lock, store' = store, orphans' = orphans, base' = base, view' = view,
           NEW where \in {"model", "tools", "finish", "record", "persist"}, Goto(o, where),
           \A p \in Ops \ {o} : plan'[p] = plan[p]
    PROVE  WholeInv'
<1>1. SetState(o, State(o)) /\ State(o) \in AgentState
  BY StateType DEF SetState, State, TypeOK
<1> QED
  BY <1>1, WholeGoes

LEMMA WholeStart ==
    ASSUME TypeOK, FenceInv, WholeInv, NEW o \in Ops, Call(o) \/ Start(o) \/ Drop(o)
    PROVE  WholeInv'
<1>1. CASE Call(o)
  <2>1. /\ UNCHANGED <<store, orphans, view, lock, base, plan>> /\ ~Running(o)'
        /\ \A p \in Ops \ {o} : pc'[p] = pc[p]
        /\ \A p \in Ops : Running(p)' <=> Running(p)
        /\ \A p \in Ops : State(p)' = State(p)
    BY <1>1 DEF Call, Goto, Running, TypeOK, State, data
  <2>2. \A p \in Ops : Running(p)' /\ base'[p] = store'.rev => WholeAt(p)'
    BY <2>1 DEF WholeInv, WholeAt
  <2>3. LocksUsed'
    BY <2>1, LocksStay DEF WholeInv
  <2> QED
    BY <2>1, <2>2, <2>3 DEF WholeInv
<1>2. CASE Begin(o)
  <2> DEFINE s == IF store.rev > 0 THEN store.state ELSE State(o)
  <2>1. /\ Owner[o] \in Agents /\ lock[Owner[o]] = NoOp /\ o # NoOp
        /\ lock' = [lock EXCEPT ![Owner[o]] = o] /\ State(o)' = s
        /\ view' = [view EXCEPT ![Owner[o]] = s]
        /\ \A p \in Ops : Running(p) => State(p)' = State(p) /\ p # o
    BY <1>2, StateType, SessionAssumption
       DEF Begin, SetState, State, TypeOK, FenceInv, LockHeld, Running
  <2>2. /\ UNCHANGED <<store, orphans, plan>> /\ Running(o)' /\ pc'[o] = "start"
        /\ \A p \in Ops \ {o} : pc'[p] = pc[p] /\ base'[p] = base[p]
        /\ \A p \in Ops \ {o} : Running(p)' <=> Running(p)
    BY <1>2 DEF Begin, Goto, TypeOK, Running
  <2>3. Whole(s)
    BY <2>1 DEF WholeInv, TypeOK, State
  <2> HIDE DEF s
  <2>4. WholeAt(o)'
    BY <2>1, <2>2, <2>3 DEF WholeAt
  <2>5. ASSUME NEW p \in Ops, p # o, Running(p)', base'[p] = store'.rev
        PROVE  WholeAt(p)'
    <3>1. Running(p) /\ WholeAt(p) /\ State(p)' = State(p) /\ pc'[p] = pc[p] /\ plan'[p] = plan[p]
      BY <2>1, <2>2, <2>5 DEF WholeInv
    <3> QED
      BY <3>1 DEF WholeAt
  <2>6. LocksUsed'
    <3>1. ASSUME NEW a \in Agents, lock'[a] # NoOp
          PROVE  Owner[lock'[a]] = a /\ pc'[lock'[a]] \notin {"idle", "waiting"}
      <4>1. CASE a = Owner[o]
        BY <2>1, <2>2, <4>1 DEF TypeOK
      <4>2. CASE a # Owner[o]
        <5>1. lock'[a] = lock[a] /\ lock[a] \in Ops
          BY <2>1, <3>1, <4>2 DEF TypeOK
        <5>2. Owner[lock[a]] = a /\ Running(lock[a])
          BY <3>1, <5>1 DEF WholeInv, LocksUsed
        <5> QED
          BY <2>1, <2>2, <5>1, <5>2 DEF Running
      <4> QED
        BY <4>1, <4>2
    <3> QED
      BY <3>1 DEF LocksUsed, Running
  <2>7. \A a \in Agents : lock'[a] = NoOp => lock[a] = NoOp /\ view'[a] = view[a]
    BY <2>1 DEF TypeOK
  <2> QED
    BY <2>2, <2>4, <2>5, <2>6, <2>7 DEF WholeInv
<1>3. CASE BeginFails(o)
  BY <1>3, WholeReturn DEF BeginFails, data
<1>4. CASE Drop(o)
  <2>1. store.rev # 0
    BY <1>4 DEF Drop, WholeInv, TypeOK
  <2>2. \/ orphans' = orphans
        \/ Running(o) /\ pc[o] # "hooks" /\ orphans' = orphans \cup {PendingSave(o)}
    BY <1>4 DEF Drop, Running
  <2> QED
    BY <1>4, <2>1, <2>2, WholeReturn DEF Drop
<1> QED
  BY <1>1, <1>2, <1>3, <1>4 DEF Start

LEMMA WholeEntry ==
    ASSUME TypeOK, FenceInv, WholeInv, NEW o \in Ops, Entry(o)
    PROVE  WholeInv'
<1>0. /\ State(o) \in AgentState /\ nextId \in Nat
      /\ "note" \in MsgKinds \ {"asking", "finished"}
      /\ "user" \in MsgKinds \ {"asking", "finished"}
  BY StateType DEF TypeOK, MsgKinds
<1>1. CASE Snapshot(o)
  BY <1>1, WholeReturn DEF Snapshot, At, data
<1>2. CASE Observe(o)
  <2> DEFINE s == Remember(State(o), "note", nextId)
  <2>1. s \in AgentState /\ (Whole(State(o)) => Whole(s))
    BY <1>0, RememberType, WholeRemember
  <2>2. SetState(o, s)
    BY <1>2 DEF Observe
  <2> HIDE DEF s
  <2> QED
    BY <1>2, <2>1, <2>2, WholeGoes DEF Observe, At, Running, Moves
<1>3. CASE AcceptReply(o)
  <2> DEFINE s == Remember(State(o), "user", nextId)
  <2>1. s \in AgentState /\ (Whole(State(o)) => Whole(s))
    BY <1>0, RememberType, WholeRemember
  <2>2. SetState(o, s)
    BY <1>3 DEF AcceptReply
  <2> HIDE DEF s
  <2> QED
    BY <1>3, <2>1, <2>2, WholeGoes DEF AcceptReply, At, Running, Moves
<1>4. CASE Refuse(o)
  BY <1>4, WholeGoesOn DEF Refuse, At, Running, Moves, data
<1> QED
  BY <1>1, <1>2, <1>3, <1>4 DEF Entry

LEMMA WholeReasoning ==
    ASSUME TypeOK, FenceInv, WholeInv, NEW o \in Ops, Reasoning(o)
    PROVE  WholeInv'
<1>a. Running(o) /\ pc[o] # "hooks"
  BY DEF Reasoning, ModelFails, ModelAnswers, ModelExhausted, PauseForConfirmation,
     CallTools, ToolsReturn, ToolsInterrupted, ToolsUnrecorded, Responds, Running
<1>0. /\ Running(o) /\ pc[o] # "hooks" /\ State(o) \in AgentState /\ nextId \in Nat \ {0}
      /\ nextId \in Nat /\ plan[o].reply \in Nat /\ step[o] \in Nat
      /\ "answer" \in MsgKinds \ {"asking", "finished"}
      /\ "pending" \in MsgKinds \ {"asking", "finished"}
      /\ "results" \in MsgKinds \ {"asking", "finished"}
  BY <1>a, StateType DEF TypeOK, MsgKinds, PendingToolExecution
<1>1. CASE ModelFails(o)
  BY <1>0, <1>1, WholeGoesOn DEF ModelFails, Moves, data
<1>2. CASE ModelAnswers(o)
  <2> DEFINE s == Remember(State(o), "answer", nextId)
  <2>1. s \in AgentState /\ (Whole(State(o)) => Whole(s))
    BY <1>0, RememberType, WholeRemember
  <2>2. SetState(o, s)
    BY <1>2 DEF ModelAnswers
  <2> HIDE DEF s
  <2> QED
    BY <1>0, <1>2, <2>1, <2>2, WholeGoes DEF ModelAnswers, Moves
<1>3. CASE ModelExhausted(o)
  <2> DEFINE s == Remember(State(o), "pending", nextId)
  <2>1. s \in AgentState /\ (Whole(State(o)) => Whole(s))
    BY <1>0, RememberType, WholeRemember
  <2>2. SetState(o, s)
    BY <1>3 DEF ModelExhausted
  <2> HIDE DEF s
  <2> QED
    BY <1>0, <1>3, <2>1, <2>2, WholeGoes DEF ModelExhausted, Moves
<1>4. CASE PauseForConfirmation(o)
  <2> DEFINE k == step[o] + 1
             s == [Remember(State(o), "asking", nextId)
                     EXCEPT !.calls = [reply |-> nextId, step |-> k]]
  <2>1. k \in Nat /\ k < MaxSteps
    BY <1>0, <1>4 DEF PauseForConfirmation
  <2>2. State(o).calls.reply = 0 /\ State(o).exec.reply = 0
    BY <1>0, <1>4, RunningKnows DEF PauseForConfirmation, Responds, PlanHeld
  <2>3. SetState(o, s)
    BY <1>4 DEF PauseForConfirmation
  <2>4. s \in AgentState
    <3>1. "asking" \in MsgKinds
      BY DEF MsgKinds
    <3>2. Remember(State(o), "asking", nextId) \in AgentState
      BY <1>0, <3>1, RememberType
    <3>3. [reply |-> nextId, step |-> k] \in PendingToolCalls
      BY <1>0, <2>1 DEF PendingToolCalls
    <3> QED
      BY <3>2, <3>3 DEF AgentState
  <2> HIDE DEF k
  <2>5. Whole(State(o)) => Whole(s)
    BY <1>0, <2>1, <2>2, WholePaused
  <2> HIDE DEF s
  <2> QED
    BY <1>0, <1>4, <2>3, <2>4, <2>5, WholeGoes DEF PauseForConfirmation, Moves
<1>5. CASE CallTools(o)
  <2> DEFINE s == Remember(State(o), "pending", nextId)
  <2>1. s \in AgentState /\ (Whole(State(o)) => Whole(s))
    BY <1>0, RememberType, WholeRemember
  <2>2. SetState(o, s)
    BY <1>5 DEF CallTools
  <2>3. \A p \in Ops \ {o} : plan'[p] = plan[p]
    BY <1>5 DEF CallTools, TypeOK
  <2> HIDE DEF s
  <2> QED
    BY <1>0, <1>5, <2>1, <2>2, <2>3, WholeGoes DEF CallTools
<1>6. CASE ToolsReturn(o) \/ ToolsInterrupted(o)
  <2> DEFINE s == Remember(State(o), "results", plan[o].reply)
  <2>1. s \in AgentState /\ (Whole(State(o)) => Whole(s))
    BY <1>0, RememberType, WholeRemember
  <2>2. SetState(o, s)
    BY <1>6 DEF ToolsReturn, ToolsInterrupted, RecordObservation
  <2> HIDE DEF s
  <2> QED
    BY <1>0, <1>6, <2>1, <2>2, WholeGoes DEF ToolsReturn, ToolsInterrupted, Moves
<1>7. CASE ToolsUnrecorded(o)
  BY <1>0, <1>7, WholeGoesOn DEF ToolsUnrecorded, Moves, data
<1> QED
  BY <1>1, <1>2, <1>3, <1>4, <1>5, <1>6, <1>7 DEF Reasoning

LEMMA WholePlanning ==
    ASSUME TypeOK, FenceInv, WholeInv, NEW o \in Ops,
           RefuseRecovery(o) \/ ResumeCall(o) \/ ResumeStream(o) \/ PlanRecovery(o)
    PROVE  WholeInv'
<1>a. Running(o) /\ pc[o] = "start"
  BY DEF RefuseRecovery, ResumeCall, ResumeStream, PlanRecovery, At, Running
<1>0. /\ Running(o) /\ pc[o] # "hooks" /\ State(o) \in AgentState /\ nextId \in Nat
      /\ WellFormed(State(o)) /\ State(o).calls.reply \in Nat /\ State(o).calls.step \in Nat
      /\ State(o).exec.reply \in Nat
  BY <1>a, StateType, RunningKnows DEF TypeOK, PendingToolCalls, PendingToolExecution
<1>1. base[o] = store.rev => Whole(State(o))
  BY <1>0 DEF WholeInv, WholeAt
<1>2. CASE RefuseRecovery(o)
  <2>1. CASE Moves(o, "finish")
    BY <1>0, <1>2, <2>1, WholeGoesOn DEF RefuseRecovery, Moves, data
  <2>2. CASE Return(o)
    BY <1>0, <1>2, <2>2, WholeReturn DEF RefuseRecovery, data
  <2> QED
    BY <1>2, <2>1, <2>2 DEF RefuseRecovery
<1>3. CASE ResumeCall(o)
  <2>1. PICK approved \in SUBSET Calls :
          /\ NewPlan(o, approved)
          /\ IF approved = {}
             THEN Goto(o, "record") /\ UNCHANGED view
             ELSE Goto(o, "persist") /\ SetState(o, Fenced(State(o), plan'[o]))
    BY <1>3 DEF ResumeCall
  <2> DEFINE e == [id |-> IF approved = {} THEN 0 ELSE nextId,
                   reply |-> State(o).calls.reply, step |-> State(o).calls.step,
                   approved |-> approved]
  <2>2. /\ e \in PendingToolExecution /\ plan'[o] = e
        /\ e.reply = State(o).calls.reply /\ e.step = State(o).calls.step
        /\ e.approved = approved /\ \A p \in Ops \ {o} : plan'[p] = plan[p]
    BY <1>0, <2>1 DEF NewPlan, PendingToolExecution, TypeOK
  <2> HIDE DEF e
  <2>3. CASE approved = {}
    BY <1>0, <1>3, <2>1, <2>2, <2>3, WholeGoesOn DEF ResumeCall
  <2>4. CASE approved # {}
    <3> DEFINE s == Fenced(State(o), e)
    <3>1. s \in AgentState
      BY <1>0, <2>2, FencedType
    <3>2. ASSUME Whole(State(o)) PROVE Whole(s)
      <4>1. /\ State(o).calls.reply # 0
            /\ CheckpointMessage(State(o).hist, State(o).calls.reply)
        BY <1>3 DEF ResumeCall, CanResume
      <4>2. Awaited(State(o)) = {e.reply}
        BY <1>0, <2>2, <3>2, <4>1, AwaitedOne
      <4>3. e.step < MaxSteps
        BY <1>0, <2>2, <3>2, <4>1 DEF Whole
      <4> QED
        BY <1>0, <2>2, <2>4, <3>2, <4>2, <4>3, WholeFenced
    <3>3. SetState(o, s)
      BY <2>1, <2>2, <2>4
    <3> HIDE DEF s
    <3> QED
      BY <1>0, <1>3, <2>1, <2>2, <2>4, <3>1, <3>2, <3>3, WholeGoes DEF ResumeCall
  <2> QED
    BY <2>3, <2>4
<1>4. CASE ResumeStream(o)
  <2>1. /\ plan'[o].step = State(o).calls.step /\ \A p \in Ops \ {o} : plan'[p] = plan[p]
    BY <1>4 DEF ResumeStream, NewPlan, TypeOK
  <2>2. /\ UNCHANGED <<store, orphans, view, lock, base>> /\ State(o)' = State(o)
        /\ pc'[o] = "setup" /\ Running(o)' /\ \A p \in Ops \ {o} : pc'[p] = pc[p]
    BY <1>4 DEF ResumeStream, Goto, TypeOK, Running, State, data
  <2>3. base[o] = store.rev => WholeAt(o)'
    BY <1>1, <2>1, <2>2 DEF WholeAt
  <2> QED
    BY <1>0, <2>1, <2>2, <2>3, WholeSame
<1>5. CASE PlanRecovery(o)
  <2>1. /\ plan'[o] = State(o).exec /\ \A p \in Ops \ {o} : plan'[p] = plan[p]
        /\ UNCHANGED <<store, orphans, view, lock, base>> /\ State(o)' = State(o)
    BY <1>5 DEF PlanRecovery, TypeOK, State, data
  <2>2. CASE Goto(o, "record")
    BY <1>0, <2>1, <2>2, WholeGoesOn
  <2>3. CASE Goto(o, "setup")
    <3>1. pc'[o] = "setup" /\ Running(o)' /\ \A p \in Ops \ {o} : pc'[p] = pc[p]
      BY <2>3 DEF Goto, TypeOK, Running
    <3>2. base[o] = store.rev => WholeAt(o)'
      BY <1>1, <2>1, <3>1 DEF WholeAt
    <3> QED
      BY <1>0, <2>1, <3>1, <3>2, WholeSame
  <2> QED
    BY <1>5, <2>2, <2>3 DEF PlanRecovery
<1> QED
  BY <1>2, <1>3, <1>4, <1>5

LEMMA WholeExecuting ==
    ASSUME TypeOK, FenceInv, HistoryInv, WholeInv, NEW o \in Ops,
           \/ Setup(o) \/ SetupFails(o) \/ Persist(o) \/ PersistFails(o)
           \/ \E c \in Calls : Invoke(o, c)
           \/ ToolsSettle(o) \/ ToolsInDoubt(o)
    PROVE  WholeInv'
<1>a. Running(o) /\ pc[o] # "hooks"
  BY DEF Setup, SetupFails, Persist, PersistFails, Invoke, ToolsSettle,
         ToolsInDoubt, Running
<1>0. /\ Running(o) /\ pc[o] # "hooks" /\ State(o) \in AgentState
      /\ plan[o] \in PendingToolExecution /\ plan[o].reply \in Nat
      /\ WellFormed(State(o)) /\ CallsHeld(o) /\ PlanHeld(o)
  BY <1>a, HistoryKnows, RunningKnows
<1>1. base[o] = store.rev => WholeAt(o) /\ Whole(State(o))
  BY <1>0 DEF WholeInv, WholeAt
<1>2. CASE Setup(o)
  <2>1. CASE job[o].kind = "resolve" \/ plan[o].approved = {}
    BY <1>0, <1>2, <2>1, WholeGoesOn DEF Setup, Moves
  <2>2. CASE ~(job[o].kind = "resolve" \/ plan[o].approved = {})
    <3> DEFINE s == Fenced(State(o), plan[o])
    <3>1. /\ pc[o] = "setup" /\ plan[o].approved # {} /\ SetState(o, s)
          /\ Moves(o, "persist")
      BY <1>2, <2>2 DEF Setup
    <3>2. s \in AgentState
      BY <1>0, FencedType
    <3>3. ASSUME base[o] = store.rev PROVE Whole(s)
      <4>1. Whole(State(o)) /\ CheckpointMessage(State(o).hist, plan[o].reply)
        BY <1>0, <1>1, <3>1, <3>3 DEF CallsHeld
      <4>2. Awaited(State(o)) = {plan[o].reply}
        BY <1>0, <4>1, AwaitedOne
      <4>3. plan[o].step < MaxSteps
        <5>1. CASE State(o).exec = plan[o]
          BY <1>0, <3>1, <4>1, <5>1 DEF PlanHeld, Whole
        <5>2. CASE State(o).exec # plan[o]
          BY <1>0, <1>1, <3>1, <3>3, <4>1, <5>2 DEF PlanHeld, Whole, WholeAt
        <5> QED
          BY <5>1, <5>2
      <4> QED
        BY <1>0, <3>1, <4>1, <4>2, <4>3, WholeFenced
    <3> HIDE DEF s
    <3> QED
      BY <1>0, <1>2, <3>1, <3>2, <3>3, WholeGoes DEF Setup, Moves
  <2> QED
    BY <2>1, <2>2
<1>3. CASE SetupFails(o)
  BY <1>0, <1>3, WholeGoesOn DEF SetupFails, Moves, data
<1>4. CASE Persist(o)
  <2>1. /\ State(o)' = State(o) /\ pc'[o] = "invoke" /\ Running(o)'
        /\ \A p \in Ops \ {o} : pc'[p] = pc[p] /\ base'[p] = base[p]
        /\ base'[o] = base[o] + 1
    BY <1>4 DEF Persist, Goto, TypeOK, State, Running
  <2>2. base[o] = store.rev
    BY <1>4 DEF Persist, SaveSucceeds, Commits
  <2>3. WholeAt(o)'
    BY <1>1, <2>1, <2>2 DEF WholeAt
  <2> QED
    BY <1>0, <1>4, <2>1, <2>3, WholeSave DEF Persist
<1>5. CASE PersistFails(o)
  <2>1. CASE UNCHANGED <<store, fenced>>
    BY <1>0, <1>5, <2>1, WholeGoesOn DEF PersistFails, Moves
  <2>2. CASE SaveSucceeds(o)
    <3>1. Running(o)' /\ \A p \in Ops \ {o} : pc'[p] = pc[p]
      BY <1>5 DEF PersistFails, Moves, Goto, TypeOK, Running
    <3> QED
      BY <1>0, <1>5, <2>2, <3>1, WholeSave DEF PersistFails, Moves
  <2> QED
    BY <1>5, <2>1, <2>2 DEF PersistFails, SaveFails
<1>6. ASSUME NEW c \in Calls, Invoke(o, c) PROVE WholeInv'
  <2>1. /\ UNCHANGED <<store, orphans, view, lock, base, plan, pc>> /\ State(o)' = State(o)
        /\ Running(o)'
    BY <1>0, <1>6 DEF Invoke, State, data, Running
  <2>2. base[o] = store.rev => WholeAt(o)'
    BY <1>1, <2>1 DEF WholeAt
  <2> QED
    BY <1>0, <2>1, <2>2, WholeSame
<1>7. CASE ToolsSettle(o)
  BY <1>0, <1>7, WholeGoesOn DEF ToolsSettle, Moves, data
<1>8. CASE ToolsInDoubt(o)
  BY <1>0, <1>8, WholeGoesOn DEF ToolsInDoubt, Moves, data
<1> QED
  BY <1>2, <1>3, <1>4, <1>5, <1>6, <1>7, <1>8

LEMMA WholeRecording ==
    ASSUME TypeOK, FenceInv, HistoryInv, WholeInv, Dependable, NEW o \in Ops,
           \/ RecordResults(o) \/ RecordFails(o) \/ ReplaceFails(o)
           \/ RecordAndClear(o) \/ Commit(o) \/ Continue(o) \/ HooksFail(o)
    PROVE  WholeInv'
<1> DEFINE r == plan[o].reply
           w == WithResults(State(o), r)
<1>a. Running(o)
  BY DEF RecordResults, RecordFails, ReplaceFails, RecordAndClear, Commit, Continue,
         HooksFail, Running
<1>0. /\ Running(o) /\ State(o) \in AgentState /\ r \in Nat
      /\ WellFormed(State(o)) /\ CallsHeld(o)
  BY <1>a, HistoryKnows, RunningKnows
<1>1. base[o] = store.rev => WholeAt(o)
  BY <1>0 DEF WholeInv
<1>2. ASSUME pc[o] = "record", base[o] = store.rev PROVE Whole(Cleared(w))
  <2>1. Whole(State(o)) /\ CheckpointMessage(State(o).hist, r)
    BY <1>0, <1>1, <1>2 DEF CallsHeld, WholeAt
  <2>2. Awaited(State(o)) = {r}
    BY <1>0, <2>1, AwaitedOne
  <2> QED
    BY <1>0, <2>1, <2>2, WholeResults
<1>3. w \in AgentState /\ Cleared(w) \in AgentState /\ Awaited(Cleared(w)) = {}
  <2>1. w \in AgentState
    BY <1>0, ResultsType
  <2> HIDE DEF w
  <2> QED
    BY <2>1, ClearedType DEF Awaited, NoCalls, NoExecution
<1>4. CASE RecordResults(o)
  <2>1. pc[o] = "record" /\ SetState(o, w) /\ Moves(o, "hooks")
    BY <1>4 DEF RecordResults
  <2> HIDE DEF w
  <2>2. /\ pc'[o] = "hooks" /\ Running(o)' /\ \A p \in Ops \ {o} : pc'[p] = pc[p]
        /\ State(o)' = w
    BY <2>1, StateType DEF Moves, Goto, TypeOK, Running, SetState, State
  <2>3. base[o] = store.rev => WholeAt(o)'
    BY <1>2, <2>1, <2>2 DEF WholeAt
  <2> QED
    BY <1>0, <1>3, <1>4, <2>1, <2>2, <2>3, WholeLocal DEF RecordResults, Moves
<1>5. CASE RecordAndClear(o)
  <2> DEFINE s == Cleared(w)
  <2>1. pc[o] = "record" /\ SetState(o, s) /\ Moves(o, "commit")
    BY <1>5 DEF RecordAndClear
  <2>2. (base[o] = store.rev => Whole(s)) /\ s \in AgentState /\ Awaited(s) = {}
    BY <1>2, <1>3, <2>1
  <2> HIDE DEF s
  <2>3. /\ pc'[o] = "commit" /\ Running(o)' /\ \A p \in Ops \ {o} : pc'[p] = pc[p]
        /\ State(o)' = s
    BY <2>1, StateType DEF Moves, Goto, TypeOK, Running, SetState, State
  <2>4. Awaited(State(o))' = {}
    BY <2>2, <2>3 DEF Awaited
  <2>5. base[o] = store.rev => WholeAt(o)'
    BY <2>2, <2>3, <2>4 DEF WholeAt
  <2> QED
    BY <1>0, <1>5, <2>1, <2>2, <2>3, <2>5, WholeLocal DEF RecordAndClear, Moves
<1>6. CASE Commit(o)
  <2>1. /\ State(o)' = State(o) /\ pc[o] = "commit" /\ pc'[o] = "hooks" /\ Running(o)'
        /\ \A p \in Ops \ {o} : pc'[p] = pc[p] /\ base'[p] = base[p]
        /\ base'[o] = base[o] + 1
    BY <1>6 DEF Commit, Goto, TypeOK, State, Running
  <2>2. base[o] = store.rev
    BY <1>6 DEF Commit, SaveSucceeds, Commits
  <2>3. Whole(Cleared(State(o)))
    BY <1>0, <1>1, <2>1, <2>2, WholeCleared DEF WholeAt
  <2>4. WholeAt(o)'
    BY <2>1, <2>3 DEF WholeAt
  <2> QED
    BY <1>0, <1>6, <2>1, <2>4, WholeSave DEF Commit
<1>7. CASE Continue(o)
  <2> DEFINE s == Cleared(State(o))
  <2>1. pc[o] = "hooks" /\ SetState(o, s) /\ Goto(o, "model")
    BY <1>7 DEF Continue
  <2>2. s \in AgentState /\ (base[o] = store.rev => Whole(s))
    BY <1>0, <1>1, <2>1, ClearedType DEF WholeAt
  <2> HIDE DEF s
  <2>3. /\ pc'[o] = "model" /\ Running(o)' /\ \A p \in Ops \ {o} : pc'[p] = pc[p]
        /\ State(o)' = s
    BY <2>1, StateType DEF Goto, TypeOK, Running, SetState, State
  <2>4. base[o] = store.rev => WholeAt(o)'
    BY <2>2, <2>3 DEF WholeAt
  <2> QED
    BY <1>0, <1>7, <2>1, <2>2, <2>3, <2>4, WholeLocal DEF Continue
<1>8. CASE RecordFails(o) \/ ReplaceFails(o) \/ HooksFail(o)
  BY <1>8 DEF RecordFails, ReplaceFails, HooksFail, HookFails, Dependable
<1> QED
  BY <1>4, <1>5, <1>6, <1>7, <1>8

LEMMA WholeEnding ==
    ASSUME TypeOK, FenceInv, WholeInv, NEW o \in Ops, Ending(o)
    PROVE  WholeInv'
<1>0. /\ Running(o) /\ Return(o) /\ pc[o] # "hooks" /\ LocksUsed'
      /\ \A p \in Ops : base'[p] = base[p] \/ base'[p] = 0
      /\ UNCHANGED <<orphans, view>> /\ State(o) \in AgentState /\ base[o] \in Nat
  BY ReturnedHeld, LocksReturn, StateType
     DEF Ending, Finish, FinishFails, Running, WholeInv, TypeOK
<1>1. CASE SaveSucceeds(o)
  <2>1. Commits(base[o], State(o)) /\ base[o] = store.rev
    BY <1>1 DEF SaveSucceeds, Commits
  <2>2. Whole(State(o))
    BY <1>0, <2>1 DEF WholeInv, WholeAt
  <2> QED
    BY <1>0, <2>1, <2>2, WholeCommit
<1>2. CASE store' = store
  BY <1>0, <1>2, WholeReturn
<1> QED
  BY <1>1, <1>2 DEF Ending, Finish, FinishFails, SaveFails

LEMMA WholeEnvironment ==
    ASSUME TypeOK, FenceInv, WholeInv, Environment
    PROVE  WholeInv'
<1>1. ASSUME NEW a \in Agents, Interrupt(a) PROVE WholeInv'
  BY <1>1 DEF Interrupt, data, WholeInv, WholeAt, LocksUsed, Running, State
<1>2. ASSUME NEW a \in Agents, Crash(a) PROVE WholeInv'
  <2>1. /\ UNCHANGED store /\ orphans' \subseteq orphans
        /\ \A p \in Ops : Owner[p] = a => ~Running(p)'
        /\ \A p \in Ops : Owner[p] # a =>
              /\ pc'[p] = pc[p] /\ plan'[p] = plan[p] /\ base'[p] = base[p]
              /\ State(p)' = State(p) /\ (Running(p)' <=> Running(p))
    BY <1>2, SessionAssumption DEF Crash, Running, State, TypeOK
  <2>2. \A b \in Agents : \/ b # a /\ view'[b] = view[b] /\ lock'[b] = lock[b]
                          \/ b = a /\ view'[b] = EmptyState /\ lock'[b] = NoOp
    BY <1>2 DEF Crash, TypeOK
  <2>3. ASSUME NEW p \in Ops, Running(p)', base'[p] = store'.rev PROVE WholeAt(p)'
    <3>1. Running(p) /\ WholeAt(p) /\ State(p)' = State(p) /\ pc'[p] = pc[p] /\ plan'[p] = plan[p]
      BY <2>1, <2>3 DEF WholeInv
    <3> QED
      BY <3>1 DEF WholeAt
  <2>4. LocksUsed'
    <3>1. ASSUME NEW b \in Agents, lock'[b] # NoOp
          PROVE  Owner[lock'[b]] = b /\ pc'[lock'[b]] \notin {"idle", "waiting"}
      <4>1. b # a /\ lock'[b] = lock[b] /\ lock[b] \in Ops
        BY <2>2, <3>1 DEF TypeOK
      <4>2. Owner[lock[b]] = b /\ Running(lock[b])
        BY <3>1, <4>1 DEF WholeInv, LocksUsed
      <4> QED
        BY <2>1, <4>1, <4>2 DEF Running
    <3> QED
      BY <3>1 DEF LocksUsed, Running
  <2>5. store'.rev = 0 => \A b \in Agents : lock'[b] = NoOp => Whole(view'[b])
    BY <2>1, <2>2, WholeEmpty DEF WholeInv
  <2> QED
    BY <2>1, <2>3, <2>4, <2>5 DEF WholeInv
<1>3. ASSUME NEW w \in orphans, OrphanCommits(w) PROVE WholeInv'
  <2>1. /\ w.base \in Nat /\ w.state \in AgentState /\ Commits(w.base, w.state)
        /\ Whole(w.state) /\ orphans' \subseteq orphans
        /\ UNCHANGED <<lock, pc, base>>
    BY <1>3 DEF OrphanCommits, Commits, TypeOK, WholeInv, control
  <2>2. LocksUsed'
    BY <2>1, LocksStay DEF WholeInv, Running
  <2> QED
    BY <2>1, <2>2, WholeCommit
<1>4. ASSUME NEW w \in orphans, OrphanLost(w) PROVE WholeInv'
  BY <1>4 DEF OrphanLost, control, ghosts, WholeInv, WholeAt, LocksUsed, State, Running
<1> QED
  BY <1>1, <1>2, <1>3, <1>4 DEF Environment

LEMMA WholeStep ==
    Dependable /\ TypeOK /\ FenceInv /\ HistoryInv /\ WholeInv /\ [Next]_vars => WholeInv'
<1> SUFFICES ASSUME Dependable, TypeOK, FenceInv, HistoryInv, WholeInv, [Next]_vars
             PROVE  WholeInv'
  OBVIOUS
<1>1. ASSUME NEW o \in Ops, Call(o) \/ Start(o) \/ Drop(o) PROVE WholeInv'
  BY <1>1, WholeStart
<1>2. ASSUME NEW o \in Ops, Progress(o) PROVE WholeInv'
  BY <1>2, WholeEntry, WholeReasoning, WholePlanning, WholeExecuting, WholeRecording,
     WholeEnding DEF Progress, Recovery
<1>3. CASE Environment
  BY <1>3, WholeEnvironment
<1>4. CASE UNCHANGED vars
  BY <1>4 DEF vars, WholeInv, WholeAt, LocksUsed, State, Running
<1> QED
  BY <1>1, <1>2, <1>3, <1>4 DEF Next

-----------------------------------------------------------------------------
(* Sessions that start from a record, and sessions that load again.         *)

LEMMA RestartInits ==
    ASSUME TypeOK, Restart
    PROVE  FenceInv /\ ClaimInv /\ HistoryInv /\ WholeInv
<1>1. /\ orphans = {} /\ fenced = {} /\ invoked = {} /\ store.rev > 0 /\ store.rev \in Nat
      /\ nextId \in Nat \ {0} /\ WellFormed(store.state) /\ Orderly(store.state, nextId)
      /\ Whole(store.state) /\ acked \subseteq StoredMsgs
      /\ \A o \in Ops : pc[o] = "idle" /\ base[o] = 0
      /\ \A a \in Agents : view[a] = EmptyState /\ lock[a] = NoOp
  BY DEF Restart, Quiet, TypeOK
<1>2. WellFormed(EmptyState)
  BY <1>1, ConstantTypes DEF WellFormed, NoCalls, NoExecution
<1>3. FenceInv
  BY <1>1, <1>2 DEF FenceInv, LockHeld, Running, StatesWellFormed, RevisionsKnown,
     CommitsHarmless, Committable, Unfenced, FencedOnce, PlansHeld, PlanHeld, FencedFirst
<1>4. ClaimInv
  BY <1>1 DEF ClaimInv
<1>5. HistoryInv
  BY <1>1, OrderlyEmpty DEF HistoryInv, Running, CallsHeld, AckedIsDurable
<1>6. WholeInv
  BY <1>1, WholeEmpty DEF WholeInv, LocksUsed, Running
<1> QED
  BY <1>3, <1>4, <1>5, <1>6

\* begin_store_operation: agents that start over a stored record give every
\* guarantee that a session from nothing has, with all that may go wrong.
THEOREM RestartSafe ==
    RestartSpec => /\ [](/\ OneKeyPerCall /\ FencedFirst
                         /\ EffectsAccounted /\ AnsweredOnce /\ AckedIsDurable)
                   /\ OncePerClaim
<1>1. TypeOK /\ Restart => FenceInv /\ ClaimInv /\ HistoryInv
  BY RestartInits
<1>2. FenceInv /\ ClaimInv /\ HistoryInv =>
        /\ OneKeyPerCall /\ FencedFirst
        /\ EffectsAccounted /\ AnsweredOnce /\ AckedIsDurable
  BY DEF FenceInv, FencedOnce, FencedFirst, OneKeyPerCall, ClaimInv, HistoryInv,
     EffectsAccounted, HasResults, Orderly, AnsweredOnce, Stored, StoredMsgs
<1>3. ASSUME TypeOK, TypeOK', FenceInv, ClaimInv
      PROVE  \A o \in Ops, c \in Calls : Invoke(o, c) =>
                ~\E i \in invoked : i.claim = base[o] /\ i.call = c
  BY <1>3, ClaimInvoke
<1> QED
  BY <1>1, <1>2, <1>3, TypeStep, FenceStep, ClaimStep, HistoryStep, PTL
     DEF RestartSpec, OncePerClaim

\* A whole state is what validate_state accepts.
LEMMA WholeLoads ==
    ASSUME TypeOK, FenceInv, WholeInv
    PROVE  SessionLoadable /\ CheckpointMatchesHistory
<1>1. store.state \in AgentState /\ WellFormed(store.state) /\ Whole(store.state)
  BY DEF TypeOK, FenceInv, StatesWellFormed, WholeInv
<1>2. CheckpointMatchesHistory
  BY <1>1 DEF CheckpointMatchesHistory, Whole, HasResults, Stored, StoredMsgs
<1>3. ValidState(store.state)
  <2>1. \A r : r # 0 /\ r \in {store.state.calls.reply, store.state.exec.reply}
                 => CheckpointMessage(store.state.hist, r)
    BY <1>1, WholeAsks DEF Awaited
  <2> QED
    BY <1>1, <2>1 DEF ValidState, WellFormed, Whole
<1> QED
  BY <1>2, <1>3 DEF SessionLoadable, Stored

\* validate_state and finish_state_operation: while hooks and memory work and
\* no future is dropped, a session from nothing can always be loaded again, and
\* its checkpoints await exactly the calls that its history asks for.
THEOREM LoadsAgain ==
    ASSUME Dependable, "drop" \notin Disruptions
    PROVE  Spec => [](SessionLoadable /\ CheckpointMatchesHistory)
<1>1. Init => WholeInv
  BY WholeEmpty DEF Init, Quiet, WholeInv, LocksUsed, Running
<1>2. TypeOK /\ FenceInv /\ HistoryInv /\ WholeInv /\ [Next]_vars => WholeInv'
  BY WholeStep
<1>3. TypeOK /\ FenceInv /\ WholeInv => SessionLoadable /\ CheckpointMatchesHistory
  BY WholeLoads
<1> QED
  BY <1>1, <1>2, <1>3, TypeCorrect, Fencing, Invariance, PTL DEF Spec

\* Over a stored record the same holds with dropped futures and late saves as
\* well: every operation starts from what the store holds.
THEOREM LoadsAgainAfterRestart ==
    ASSUME Dependable
    PROVE  RestartSpec => [](SessionLoadable /\ CheckpointMatchesHistory)
<1>1. TypeOK /\ Restart => FenceInv /\ HistoryInv /\ WholeInv
  BY RestartInits
<1>2. TypeOK /\ FenceInv /\ HistoryInv /\ WholeInv /\ [Next]_vars => WholeInv'
  BY WholeStep
<1>3. TypeOK /\ FenceInv /\ WholeInv => SessionLoadable /\ CheckpointMatchesHistory
  BY WholeLoads
<1> QED
  BY <1>1, <1>2, <1>3, TypeStep, FenceStep, HistoryStep, PTL DEF RestartSpec
=============================================================================
