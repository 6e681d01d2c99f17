------------------------- MODULE IdempotentTool_proofs -------------------------
(* Theorems about IdempotentTool, for any scopes, capacities, keys, inputs  *)
(* and callers: a key is executed at most once, all terminal results of a   *)
(* key are one, and a local table stays within its capacity.                *)
EXTENDS IdempotentTool, FiniteSetTheorems, TLAPS

(* Rows and requests.                                                       *)

LEMMA RowFields ==
    /\ NoRow \in Row
    /\ NoRow.phase = "absent" /\ NoRow.input = None /\ NoRow.result = NoResult
    /\ NoResult \notin Result
    /\ \A row \in Row :
          /\ row.phase \in {"absent", "ready", "uncertain", "completed"}
          /\ row.input = None <=> row.phase = "absent"
          /\ row.result = NoResult <=> row.phase # "completed"
    /\ None \notin Inputs
BY IdempotencyAssumption DEF Row, NoRow, NoResult, Result

\* What the actions make of a row is a row.
LEMMA RowMade ==
    /\ \A i \in Inputs :
          [NoRow EXCEPT !.phase = "ready", !.input = i] \in Row
    /\ \A i \in Inputs, c \in Callers :
          [NoRow EXCEPT !.phase = "uncertain", !.input = i, !.owner = c] \in Row
    /\ \A row \in Row :
          row.phase = "ready" => [row EXCEPT !.phase = "uncertain"] \in Row
    /\ \A row \in Row, result \in Result :
          row.phase # "absent" =>
             [row EXCEPT !.phase = "completed", !.result = result] \in Row
<1>1. \A i \in Inputs : [NoRow EXCEPT !.phase = "ready", !.input = i] \in Row
  BY IdempotencyAssumption DEF Row, NoRow
<1>2. \A i \in Inputs, c \in Callers :
         [NoRow EXCEPT !.phase = "uncertain", !.input = i, !.owner = c] \in Row
  BY IdempotencyAssumption DEF Row, NoRow
<1>3. \A row \in Row :
         row.phase = "ready" => [row EXCEPT !.phase = "uncertain"] \in Row
  BY DEF Row
<1>4. \A row \in Row, result \in Result :
         row.phase # "absent" =>
            [row EXCEPT !.phase = "completed", !.result = result] \in Row
  BY RowFields, ZenonT(30) DEF Row
<1> QED
  BY <1>1, <1>2, <1>3, <1>4

LEMMA CallFields ==
    /\ \A r \in Call :
          /\ r.scope \in Scopes /\ r.key \in Keys /\ r.input \in Inputs
          /\ r.result \in Result \cup {NoResult}
          /\ \A result \in Result :
                /\ [r EXCEPT !.result = result] \in Call
                /\ [r EXCEPT !.result = result].scope = r.scope
                /\ [r EXCEPT !.result = result].key = r.key
                /\ [r EXCEPT !.result = result].input = r.input
                /\ [r EXCEPT !.result = result].result = result
    /\ \A S \in SUBSET Scopes :
          \A r \in Request(S) : r \in Call /\ r.scope \in S
    /\ \A c \in Callers : [kind |-> "done", by |-> c] \in Result
    /\ \A c \in Callers : [kind |-> "verified", by |-> c] \in Result
BY DEF Call, Request, Result

LEMMA CallerTypes ==
    ASSUME TypeOK, NEW c \in Callers, pc[c] # "idle"
    PROVE  /\ call[c] \in Call
           /\ call[c].scope \in Scopes /\ call[c].key \in Keys
           /\ call[c].input \in Inputs
           /\ RowOf(call[c]) \in Row
BY CallFields DEF TypeOK, RowOf

LEMMA RowSet ==
    ASSUME TypeOK, NEW r \in Call, NEW new \in Row, SetRow(r, new)
    PROVE  /\ rows' \in [Scopes -> [Keys -> Row]]
           /\ rows'[r.scope][r.key] = new
           /\ \A s \in Scopes, k \in Keys :
                 s # r.scope \/ k # r.key => rows'[s][k] = rows[s][k]
<1>1. r.scope \in Scopes /\ r.key \in Keys /\ rows \in [Scopes -> [Keys -> Row]]
  BY CallFields DEF TypeOK
<1> DEFINE sc == r.scope
           ke == r.key
<1>2. rows' = [rows EXCEPT ![sc][ke] = new]
  BY DEF SetRow
<1> HIDE DEF sc, ke
<1>3. sc \in Scopes /\ ke \in Keys
  BY <1>1 DEF sc, ke
<1>4. /\ rows' \in [Scopes -> [Keys -> Row]]
      /\ rows'[sc][ke] = new
      /\ \A s \in Scopes, k \in Keys : s # sc \/ k # ke => rows'[s][k] = rows[s][k]
  BY <1>1, <1>2, <1>3
<1> QED
  BY <1>4 DEF sc, ke

-----------------------------------------------------------------------------
(* How a row moves in one step.  Nobody takes its input away or undoes its   *)
(* progress, and who executes a local tool is alone with its record.         *)

RowMoves(old, new) ==
    /\ new \in Row
    /\ old.phase # "absent" => new.phase # "absent" /\ new.input = old.input
    /\ old.phase = "completed" => new.phase = "completed" /\ new.result = old.result
    /\ old.phase = "uncertain" => new.phase \in {"uncertain", "completed"}

RowKeeps(s, k) ==
    /\ RowMoves(rows[s][k], rows'[s][k])
    /\ s \in Stores => rows'[s][k].phase # "ready"
    /\ s \in Locals /\ rows[s][k].phase = "uncertain" =>
          \/ rows'[s][k] = rows[s][k]
          \/ ~\E d \in Callers : Executes(d, s, k)'

RowsKeep ==
    /\ rows' \in [Scopes -> [Keys -> Row]]
    /\ \A s \in Scopes, k \in Keys : RowKeeps(s, k)

LEMMA RowsStand ==
    ASSUME OnceInv, UNCHANGED rows
    PROVE  RowsKeep
BY DEF OnceInv, OneAnswer, TypeOK, RunsBooked, RowsKeep, RowKeeps, RowMoves

\* One row is set.
LEMMA RowsSet ==
    ASSUME OnceInv, NEW r \in Call, NEW new \in Row, SetRow(r, new),
           RowMoves(RowOf(r), new),
           r.scope \in Stores => new.phase # "ready",
           r.scope \in Locals /\ RowOf(r).phase = "uncertain" =>
              ~\E d \in Callers : Executes(d, r.scope, r.key)'
    PROVE  RowsKeep
<1>1. TypeOK
  BY DEF OnceInv, OneAnswer
<1>2. /\ rows'[r.scope][r.key] = new
      /\ \A s \in Scopes, k \in Keys :
            s # r.scope \/ k # r.key => rows'[s][k] = rows[s][k]
  BY <1>1, RowSet
<1> SUFFICES ASSUME NEW s \in Scopes, NEW k \in Keys PROVE RowKeeps(s, k)
  BY <1>1, RowSet DEF RowsKeep
<1>3. CASE s = r.scope /\ k = r.key
  BY <1>2, <1>3 DEF RowKeeps, RowOf
<1>4. CASE s # r.scope \/ k # r.key
  <2>1. rows'[s][k] = rows[s][k]
    BY <1>2, <1>4
  <2>2. rows[s][k] \in Row /\ (s \in Stores => rows[s][k].phase # "ready")
    BY <1>1 DEF TypeOK, OnceInv, RunsBooked
  <2> QED
    BY <2>1, <2>2 DEF RowKeeps, RowMoves
<1> QED
  BY <1>3, <1>4

\* The store takes a request.
LEMMA StoreTakes ==
    ASSUME OnceInv, NEW kind \in {"claim", "complete", "reconcile"},
           NEW c \in Callers, NEW r \in Call, r.scope \in Stores,
           kind # "claim" => r.result \in Result,
           Takes(kind, c, r)
    PROVE  /\ RowsKeep
           /\ rows'[r.scope][r.key].input = r.input
           /\ kind = "claim" => rows'[r.scope][r.key].phase = "uncertain"
           /\ kind # "claim" => /\ rows'[r.scope][r.key].phase = "completed"
                                /\ rows'[r.scope][r.key].result = r.result
           /\ kind = "claim" => RowOf(r) = NoRow
           /\ kind # "claim" => RowOf(r).phase # "absent"
<1>1. TypeOK /\ RowOf(r) \in Row /\ r.scope \notin Locals
  BY CallFields, IdempotencyAssumption DEF OnceInv, OneAnswer, TypeOK, RowOf
<1>2. r.input \in Inputs
  BY CallFields
<1>3. CASE kind = "claim"
  <2> DEFINE new == [NoRow EXCEPT !.phase = "uncertain", !.input = r.input, !.owner = c]
  <2>1. RowOf(r) = NoRow /\ SetRow(r, new)
    BY <1>3 DEF Takes, Accepts
  <2>2. new \in Row
    BY <1>2, RowMade
  <2>3. new.phase = "uncertain" /\ new.input = r.input
    BY DEF NoRow
  <2> HIDE DEF new
  <2>4. RowMoves(RowOf(r), new)
    BY <2>1, <2>2, RowFields DEF RowMoves
  <2>5. RowsKeep /\ rows'[r.scope][r.key] = new
    BY <1>1, <2>1, <2>2, <2>3, <2>4, RowsSet, RowSet
  <2> QED
    BY <1>3, <2>1, <2>3, <2>5
<1>4. CASE kind # "claim"
  <2> DEFINE new == [RowOf(r) EXCEPT !.phase = "completed", !.result = r.result]
  <2>1. Finishable(r) /\ SetRow(r, new)
    BY <1>4 DEF Takes, Accepts
  <2>2. RowOf(r).phase # "absent" /\ RowOf(r).input = r.input
    BY <2>1 DEF Finishable
  <2>3. new \in Row
    BY <1>1, <1>4, <2>2, RowMade
  <2>4. new.phase = "completed" /\ new.input = r.input /\ new.result = r.result
    BY <1>1, <2>2 DEF Row
  <2> HIDE DEF new
  <2>5. RowMoves(RowOf(r), new)
    BY <2>1, <2>2, <2>3, <2>4 DEF RowMoves, Finishable
  <2>6. RowsKeep /\ rows'[r.scope][r.key] = new
    BY <1>1, <2>1, <2>3, <2>4, <2>5, RowsSet, RowSet
  <2> QED
    BY <1>4, <2>2, <2>4, <2>6
<1> QED
  BY <1>3, <1>4

-----------------------------------------------------------------------------
(* The callers.  One of them acts, and the others stay where they are.      *)

Stays(d) == pc'[d] = pc[d] /\ call'[d] = call[d]

OthersStay(c) ==
    /\ pc' \in [Callers -> PCs]
    /\ call' \in [Callers -> Call \cup {None}]
    /\ pc'[c] # "idle" => call'[c] \in Call
    /\ \A d \in Callers \ {c} : Stays(d)

LEMMA Goes ==
    ASSUME TypeOK, NEW c \in Callers, NEW where \in PCs, Goto(c, where)
    PROVE  /\ pc' \in [Callers -> PCs] /\ pc'[c] = where
           /\ \A d \in Callers \ {c} : pc'[d] = pc[d]
BY DEF TypeOK, Goto

LEMMA Calls ==
    ASSUME TypeOK, NEW c \in Callers, NEW r \in Call \cup {None},
           call' = [call EXCEPT ![c] = r]
    PROVE  /\ call' \in [Callers -> Call \cup {None}] /\ call'[c] = r
           /\ \A d \in Callers \ {c} : call'[d] = call[d]
BY DEF TypeOK

LEMMA Returned ==
    ASSUME TypeOK, NEW c \in Callers,
           Fails(c) \/ \E result \in Result : Answers(c, result)
    PROVE  OthersStay(c) /\ pc'[c] = "idle"
<1>1. Goto(c, "idle") /\ call' = [call EXCEPT ![c] = None] /\ "idle" \in PCs
  BY DEF Fails, Answers, PCs
<1> QED
  BY <1>1, Goes, Calls DEF OthersStay, Stays

LEMMA Asked ==
    ASSUME TypeOK, NEW c \in Callers, NEW where \in PCs, NEW r \in Call,
           Ask(c, where, r)
    PROVE  /\ OthersStay(c) /\ pc'[c] = where /\ call'[c] = r
           /\ pc[c] = "idle" /\ called' \in Nat
<1>1. Goto(c, where) /\ call' = [call EXCEPT ![c] = r]
  BY DEF Ask
<1>2. pc[c] = "idle" /\ called' = called + 1 /\ called \in Nat
  BY DEF Ask, TypeOK
<1>3. called' \in Nat
  BY <1>2
<1>4. OthersStay(c) /\ pc'[c] = where /\ call'[c] = r
  BY <1>1, Goes, Calls DEF OthersStay, Stays
<1> QED
  BY <1>2, <1>3, <1>4

LEMMA Moved ==
    ASSUME TypeOK, NEW c \in Callers, NEW where \in PCs, Goto(c, where),
           call' = call, pc[c] # "idle"
    PROVE  OthersStay(c) /\ pc'[c] = where /\ call'[c] = call[c]
<1>1. call \in [Callers -> Call \cup {None}] /\ call[c] \in Call
  BY CallerTypes DEF TypeOK
<1> QED
  BY <1>1, Goes DEF OthersStay, Stays

\* A caller that stays keeps what it relies on.
LEMMA StaysHeld ==
    ASSUME OnceInv, RowsKeep, NEW c \in Callers, Stays(c),
           pc[c] = "run" =>
              runs'[<<call[c].scope, call[c].key>>] = runs[<<call[c].scope, call[c].key>>]
    PROVE  CallerInv(c)'
<1>1. TypeOK /\ CallerInv(c)
  BY DEF OnceInv, OneAnswer
<1>2. CASE pc[c] = "idle"
  BY <1>2 DEF Stays, CallerInv
<1>3. CASE pc[c] # "idle"
  <2> DEFINE s == call[c].scope
             k == call[c].key
  <2>1. call[c] \in Call /\ s \in Scopes /\ k \in Keys /\ call[c].input \in Inputs
        /\ rows[s][k] \in Row
    BY <1>1, <1>3, CallerTypes DEF RowOf
  <2>2. RowKeeps(s, k)
    BY <2>1 DEF RowsKeep
  <2>3. pc'[c] = pc[c] /\ call'[c] = call[c]
    BY DEF Stays
  <2>4. pc[c] \in {"wait", "run", "running"} => rows'[s][k].input = call[c].input
    <3> SUFFICES ASSUME pc[c] \in {"wait", "run", "running"}
                 PROVE  rows'[s][k].input = call[c].input
      OBVIOUS
    <3>1. rows[s][k].input = call[c].input
      BY <1>1 DEF CallerInv, RowOf
    <3>2. rows[s][k].phase # "absent"
      BY <2>1, <3>1, RowFields
    <3> QED
      BY <2>2, <3>1, <3>2 DEF RowKeeps, RowMoves
  <2>5. pc[c] \in {"run", "running"} =>
           /\ rows'[s][k].phase \in {"uncertain", "completed"}
           /\ s \in Locals => rows'[s][k].phase = "uncertain"
    <3> SUFFICES ASSUME pc[c] \in {"run", "running"}
                 PROVE  /\ rows'[s][k].phase \in {"uncertain", "completed"}
                        /\ s \in Locals => rows'[s][k].phase = "uncertain"
      OBVIOUS
    <3>1. /\ rows[s][k].phase \in {"uncertain", "completed"}
          /\ s \in Locals => rows[s][k].phase = "uncertain"
      BY <1>1 DEF CallerInv, RowOf
    <3>2. Executes(c, s, k)'
      BY <2>3 DEF Executes
    <3> QED
      BY <2>2, <3>1, <3>2 DEF RowKeeps, RowMoves
  <2>6. /\ pc[c] = "wait" => s \in Locals
        /\ pc[c] \in {"claim", "complete", "reconcile"} => s \in Stores
        /\ pc[c] \in {"complete", "reconcile"} => call[c].result \in Result
        /\ pc[c] = "run" => runs'[<<s, k>>] = 0
    BY <1>1 DEF CallerInv
  <2> QED
    BY <2>3, <2>4, <2>5, <2>6 DEF CallerInv, RowOf
<1> QED
  BY <1>2, <1>3

\* One caller acts.
LEMMA Frame ==
    ASSUME OnceInv, RowsKeep, NEW c \in Callers, OthersStay(c), CallerInv(c)',
           \A d \in Callers \ {c} : pc[d] = "run" =>
              runs'[<<call[d].scope, call[d].key>>] = runs[<<call[d].scope, call[d].key>>],
           pc'[c] \in {"run", "running"} =>
              \/ pc[c] \in {"run", "running"} /\ call'[c] = call[c]
              \/ \A d \in Callers : ~Executes(d, call'[c].scope, call'[c].key)
    PROVE  (\A d \in Callers : CallerInv(d)') /\ ExecutionsApart'
<1>1. \A d \in Callers \ {c} : Stays(d)
  BY DEF OthersStay
<1>2. ASSUME NEW d \in Callers PROVE CallerInv(d)'
  BY <1>1, StaysHeld
<1>3. ASSUME NEW d \in Callers \ {c}, NEW s, NEW k, Executes(d, s, k)'
      PROVE  Executes(d, s, k)
  BY <1>1, <1>3 DEF Stays, Executes
<1>4. ASSUME NEW s, NEW k, NEW d \in Callers \ {c}, Executes(c, s, k)', Executes(d, s, k)
      PROVE  Executes(c, s, k)
  BY <1>4 DEF Executes
<1>5. ExecutionsApart
  BY DEF OnceInv
<1> QED
  BY <1>2, <1>3, <1>4, <1>5 DEF ExecutionsApart

\* A caller that returns relies on nothing.
LEMMA FrameLeaves ==
    ASSUME OnceInv, RowsKeep, NEW c \in Callers, OthersStay(c), pc'[c] = "idle", runs' = runs
    PROVE  (\A d \in Callers : CallerInv(d)') /\ ExecutionsApart'
<1>1. CallerInv(c)'
  BY DEF CallerInv
<1> QED
  BY <1>1, Frame

\* Nobody acts but the store.
LEMMA FrameStays ==
    ASSUME OnceInv, RowsKeep, pc' = pc, call' = call, runs' = runs
    PROVE  (\A d \in Callers : CallerInv(d)') /\ ExecutionsApart'
<1>1. \A d \in Callers : CallerInv(d)'
  BY StaysHeld DEF Stays
<1>2. ExecutionsApart'
  BY DEF OnceInv, ExecutionsApart, Executes
<1> QED
  BY <1>1, <1>2

-----------------------------------------------------------------------------
(* The rest of the invariant.                                               *)

AnswersGood ==
    \A a \in answers :
        LET row == RowOf(a)
        IN  row.phase = "completed" /\ row.result = a.result /\ row.input = a.input

RoomGood ==
    \A s \in Locals : IsFiniteSet(Used(s)) /\ Cardinality(Used(s)) <= Capacity[s]

LEMMA Parts ==
    OnceInv <=> /\ TypeOK /\ AnswersGood /\ OrphanInv /\ RunsBooked /\ RoomGood
                /\ (\A c \in Callers : CallerInv(c)) /\ ExecutionsApart
BY DEF OnceInv, OneAnswer, AnswersGood, RoomGood

LEMMA PartsNext ==
    OnceInv' <=> /\ TypeOK' /\ AnswersGood' /\ OrphanInv' /\ RunsBooked' /\ RoomGood'
                 /\ (\A c \in Callers : CallerInv(c)') /\ ExecutionsApart'
BY DEF OnceInv, OneAnswer, AnswersGood, RoomGood

\* No new record in a local table.
NoNewRows == \A s \in Locals, k \in Keys : rows[s][k] = NoRow => rows'[s][k] = NoRow

LEMMA RoomStands ==
    ASSUME OnceInv, NoNewRows
    PROVE  RoomGood'
<1> SUFFICES ASSUME NEW s \in Locals
             PROVE  IsFiniteSet(Used(s)') /\ Cardinality(Used(s)') <= Capacity[s]
  BY DEF RoomGood
<1>1. IsFiniteSet(Used(s)) /\ Cardinality(Used(s)) <= Capacity[s]
  BY DEF OnceInv
<1>2. Used(s)' \in SUBSET Used(s)
  BY DEF Used, NoNewRows
<1> HIDE DEF Used
<1>3. /\ IsFiniteSet(Used(s)')
      /\ Cardinality(Used(s)') <= Cardinality(Used(s))
  BY <1>1, <1>2, FS_Subset
<1>4. Cardinality(Used(s)') \in Nat /\ Cardinality(Used(s)) \in Nat
  BY <1>1, <1>3, FS_CardinalityType
<1>5. Capacity[s] \in Nat
  BY IdempotencyAssumption
<1> QED
  BY <1>1, <1>3, <1>4, <1>5

LEMMA RoomTaken ==
    ASSUME OnceInv, NEW r \in Call, r.scope \in Locals, ~Full(r.scope),
           \A s \in Scopes, k \in Keys :
              s # r.scope \/ k # r.key => rows'[s][k] = rows[s][k]
    PROVE  RoomGood'
<1> SUFFICES ASSUME NEW s \in Locals
             PROVE  IsFiniteSet(Used(s)') /\ Cardinality(Used(s)') <= Capacity[s]
  BY DEF RoomGood
<1>1. /\ IsFiniteSet(Used(s)) /\ Cardinality(Used(s)) <= Capacity[s]
      /\ Capacity[s] \in Nat
  BY IdempotencyAssumption DEF OnceInv
<1>2. s \in Scopes
  BY DEF Scopes
<1>3. CASE s # r.scope
  <2>1. Used(s)' = Used(s)
    BY <1>2, <1>3 DEF Used
  <2> QED
    BY <1>1, <2>1
<1>4. CASE s = r.scope
  <2> DEFINE larger == Used(s) \cup {r.key}
  <2>1. Used(s)' \in SUBSET larger
    BY <1>2, <1>4 DEF Used
  <2>2. /\ IsFiniteSet(larger)
        /\ Cardinality(larger) =
              IF r.key \in Used(s) THEN Cardinality(Used(s)) ELSE Cardinality(Used(s)) + 1
    BY <1>1, FS_AddElement, Zenon
  <2>3. ~(Cardinality(Used(s)) >= Capacity[s])
    BY <1>4 DEF Full, Used
  <2> HIDE DEF larger
  <2>4. /\ IsFiniteSet(Used(s)')
        /\ Cardinality(Used(s)') <= Cardinality(larger)
    BY <2>1, <2>2, FS_Subset
  <2>5. /\ Cardinality(Used(s)) \in Nat /\ Cardinality(larger) \in Nat
        /\ Cardinality(Used(s)') \in Nat
    BY <1>1, <2>2, <2>4, FS_CardinalityType
  <2> QED
    BY <1>1, <2>2, <2>3, <2>4, <2>5
<1> QED
  BY <1>3, <1>4

LEMMA RunsStand ==
    ASSUME OnceInv, RowsKeep, runs' = runs
    PROVE  RunsBooked'
<1> SUFFICES ASSUME NEW s \in Scopes, NEW k \in Keys
             PROVE  /\ runs'[<<s, k>>] <= 1
                    /\ runs'[<<s, k>>] # 0 =>
                          rows'[s][k].phase \in {"uncertain", "completed"}
                    /\ s \in Stores => rows'[s][k].phase # "ready"
  BY DEF RunsBooked
<1>1. RowKeeps(s, k)
  BY DEF RowsKeep
<1>2. /\ runs[<<s, k>>] <= 1
      /\ runs[<<s, k>>] # 0 => rows[s][k].phase \in {"uncertain", "completed"}
  BY DEF OnceInv, RunsBooked
<1> QED
  BY <1>1, <1>2 DEF RowKeeps, RowMoves

\* The answers so far stay good, and one more is.
LEMMA AnswersStand ==
    ASSUME OnceInv, RowsKeep, NEW a \in answers
    PROVE  /\ rows'[a.scope][a.key].phase = "completed"
           /\ rows'[a.scope][a.key].result = a.result
           /\ rows'[a.scope][a.key].input = a.input
<1>1. a \in Call /\ a.scope \in Scopes /\ a.key \in Keys
  BY CallFields DEF OnceInv, OneAnswer, TypeOK
<1>2. RowKeeps(a.scope, a.key)
  BY <1>1 DEF RowsKeep
<1>3. /\ rows[a.scope][a.key].phase = "completed"
      /\ rows[a.scope][a.key].result = a.result
      /\ rows[a.scope][a.key].input = a.input
  BY DEF OnceInv, OneAnswer, RowOf
<1> QED
  BY <1>2, <1>3 DEF RowKeeps, RowMoves

LEMMA AnswersKept ==
    ASSUME OnceInv, RowsKeep, answers' = answers
    PROVE  AnswersGood' /\ answers' \subseteq Call
<1>1. answers \subseteq Call
  BY DEF OnceInv, OneAnswer, TypeOK
<1> QED
  BY <1>1, AnswersStand DEF AnswersGood, RowOf

LEMMA AnswersMore ==
    ASSUME OnceInv, RowsKeep, NEW c \in Callers, pc[c] # "idle", NEW result \in Result,
           Answers(c, result),
           rows'[call[c].scope][call[c].key].phase = "completed",
           rows'[call[c].scope][call[c].key].result = result,
           rows'[call[c].scope][call[c].key].input = call[c].input
    PROVE  AnswersGood' /\ answers' \subseteq Call
<1>1. answers \subseteq Call /\ call[c] \in Call
  BY CallerTypes DEF OnceInv, OneAnswer, TypeOK
<1> DEFINE a == [call[c] EXCEPT !.result = result]
<1>2. answers' = answers \cup {a}
  BY DEF Answers
<1>3. /\ a \in Call /\ a.scope = call[c].scope /\ a.key = call[c].key
      /\ a.input = call[c].input /\ a.result = result
  BY <1>1, CallFields
<1> HIDE DEF a
<1> QED
  BY <1>1, <1>2, <1>3, AnswersStand DEF AnswersGood, RowOf

\* An operation returns.
LEMMA LeavesHeld ==
    ASSUME OnceInv, RowsKeep, NoNewRows, NEW c \in Callers,
           OthersStay(c), pc'[c] = "idle",
           orphans' = orphans, called' = called, runs' = runs,
           AnswersGood' /\ answers' \subseteq Call
    PROVE  OnceInv'
<1>1. (\A d \in Callers : CallerInv(d)') /\ ExecutionsApart'
  BY FrameLeaves
<1>2. RunsBooked' /\ RoomGood'
  BY RunsStand, RoomStands
<1>3. OrphanInv'
  BY DEF OnceInv, OrphanInv
<1>4. TypeOK'
  <2>1. \A d \in Callers : pc'[d] # "idle" => call'[d] \in Call
    BY DEF OthersStay, Stays, OnceInv, OneAnswer, TypeOK
  <2> QED
    BY <2>1 DEF OthersStay, RowsKeep, OnceInv, OneAnswer, TypeOK
<1> QED
  BY <1>1, <1>2, <1>3, <1>4, PartsNext

\* A caller goes on, or begins.
LEMMA GoesHeld ==
    ASSUME OnceInv, RowsKeep, RoomGood', NEW c \in Callers,
           OthersStay(c), CallerInv(c)',
           pc'[c] \in {"run", "running"} =>
              \/ pc[c] \in {"run", "running"} /\ call'[c] = call[c]
              \/ \A d \in Callers : ~Executes(d, call'[c].scope, call'[c].key),
           orphans' = orphans, called' \in Nat, runs' = runs, answers' = answers
    PROVE  OnceInv'
<1>1. (\A d \in Callers : CallerInv(d)') /\ ExecutionsApart'
  BY Frame
<1>2. RunsBooked' /\ AnswersGood' /\ answers' \subseteq Call
  BY RunsStand, AnswersKept
<1>3. OrphanInv'
  BY DEF OnceInv, OrphanInv
<1>4. TypeOK'
  <2>1. \A d \in Callers : pc'[d] # "idle" => call'[d] \in Call
    BY DEF OthersStay, Stays, OnceInv, OneAnswer, TypeOK
  <2> QED
    BY <1>2, <2>1 DEF OthersStay, RowsKeep, OnceInv, OneAnswer, TypeOK
<1> QED
  BY <1>1, <1>2, <1>3, <1>4, PartsNext

\* Only the store and the callers' own records move.
LEMMA StandHeld ==
    ASSUME OnceInv, RowsKeep, NoNewRows, pc' = pc, call' = call, runs' = runs,
           answers' = answers, called' \in Nat, orphans' \subseteq orphans
    PROVE  OnceInv'
<1>1. (\A d \in Callers : CallerInv(d)') /\ ExecutionsApart'
  BY FrameStays
<1>2. RunsBooked' /\ RoomGood' /\ AnswersGood' /\ answers' \subseteq Call
  BY RunsStand, RoomStands, AnswersKept
<1>3. OrphanInv'
  BY DEF OnceInv, OrphanInv
<1>4. TypeOK'
  BY <1>2 DEF RowsKeep, OnceInv, OneAnswer, TypeOK
<1> QED
  BY <1>1, <1>2, <1>3, <1>4, PartsNext

-----------------------------------------------------------------------------
(* The actions of the local table.                                          *)

LEMMA HeldTypes == OnceInv => TypeOK /\ \A c \in Callers : CallerInv(c)
BY DEF OnceInv, OneAnswer

LEMMA NoStoreRow ==
    ASSUME NEW r \in Call, r.scope \in Stores,
           \A s \in Scopes, k \in Keys :
              s # r.scope \/ k # r.key => rows'[s][k] = rows[s][k]
    PROVE  NoNewRows
BY IdempotencyAssumption DEF NoNewRows, Scopes

LEMMA LookupStep ==
    ASSUME OnceInv, NEW c \in Callers, NEW r \in Request(Locals), Lookup(c, r)
    PROVE  OnceInv'
<1>1. TypeOK /\ r \in Call /\ r.scope \in Locals /\ r.input \in Inputs
  BY CallFields, HeldTypes DEF Scopes
<1>2. /\ OthersStay(c) /\ pc'[c] = "wait" /\ call'[c] = r
      /\ pc[c] = "idle" /\ called' \in Nat
      /\ orphans' = orphans /\ runs' = runs /\ answers' = answers
  BY <1>1, Asked DEF Lookup, PCs
<1>3. RowsKeep /\ RoomGood' /\ rows'[r.scope][r.key].input = r.input
  <2>1. CASE UNCHANGED rows /\ RowOf(r).input = r.input
    BY <2>1, RowsStand, RoomStands DEF NoNewRows, RowOf
  <2>2. CASE /\ RowOf(r) = NoRow /\ ~Full(r.scope)
             /\ SetRow(r, [NoRow EXCEPT !.phase = "ready", !.input = r.input])
    <3> DEFINE new == [NoRow EXCEPT !.phase = "ready", !.input = r.input]
    <3>1. new \in Row /\ new.phase = "ready" /\ new.input = r.input
      BY <1>1, RowMade DEF NoRow
    <3>2. SetRow(r, new)
      BY <2>2
    <3> HIDE DEF new
    <3>3. RowMoves(RowOf(r), new) /\ RowOf(r).phase = "absent"
      BY <2>2, <3>1, RowFields DEF RowMoves
    <3>4. r.scope \notin Stores
      BY <1>1, IdempotencyAssumption
    <3>5. RowsKeep
      BY <1>1, <3>1, <3>2, <3>3, <3>4, RowsSet
    <3>6. /\ rows'[r.scope][r.key] = new
          /\ \A s \in Scopes, k \in Keys :
                s # r.scope \/ k # r.key => rows'[s][k] = rows[s][k]
      BY <1>1, <3>1, <3>2, RowSet
    <3> QED
      BY <1>1, <2>2, <3>1, <3>5, <3>6, RoomTaken
  <2> QED
    BY <2>1, <2>2 DEF Lookup
<1>4. CallerInv(c)'
  BY <1>1, <1>2, <1>3 DEF CallerInv, RowOf
<1> QED
  BY <1>2, <1>3, <1>4, GoesHeld

LEMMA AcquireStep ==
    ASSUME OnceInv, NEW c \in Callers, Acquire(c)
    PROVE  OnceInv'
<1> DEFINE r == call[c]
           row == RowOf(r)
<1>1. /\ TypeOK /\ CallerInv(c) /\ pc[c] = "wait" /\ ~Locked(r)
      /\ orphans' = orphans /\ called' = called /\ runs' = runs
  BY HeldTypes DEF Acquire
<1>2. /\ r \in Call /\ r.scope \in Scopes /\ r.key \in Keys /\ row \in Row
      /\ r.scope \in Locals /\ row.input = r.input
  BY <1>1, CallerTypes DEF CallerInv
<1>3. CASE row.phase = "completed" /\ Answers(c, row.result) /\ UNCHANGED rows
  <2>1. row.result \in Result
    BY <1>2, <1>3 DEF Row
  <2>2. RowsKeep /\ NoNewRows
    BY <1>3, RowsStand DEF NoNewRows
  <2>3. rows'[r.scope][r.key] = row
    BY <1>3 DEF RowOf
  <2>4. AnswersGood' /\ answers' \subseteq Call
    BY <1>1, <1>2, <1>3, <2>1, <2>2, <2>3, AnswersMore
  <2>5. OthersStay(c) /\ pc'[c] = "idle"
    BY <1>1, <1>3, <2>1, Returned
  <2> QED
    BY <1>1, <2>2, <2>4, <2>5, LeavesHeld
<1>4. CASE row.phase = "uncertain" /\ Fails(c) /\ UNCHANGED rows
  <2>1. RowsKeep /\ NoNewRows
    BY <1>4, RowsStand DEF NoNewRows
  <2>2. OthersStay(c) /\ pc'[c] = "idle" /\ answers' = answers
    BY <1>1, <1>4, Returned DEF Fails
  <2>3. AnswersGood' /\ answers' \subseteq Call
    BY <2>1, <2>2, AnswersKept
  <2> QED
    BY <1>1, <2>1, <2>2, <2>3, LeavesHeld
<1>5. CASE /\ row.phase = "ready"
           /\ SetRow(r, [row EXCEPT !.phase = "uncertain"])
           /\ Goto(c, "run") /\ UNCHANGED <<call, answers>>
  <2> DEFINE new == [row EXCEPT !.phase = "uncertain"]
  <2>1. new \in Row /\ new.phase = "uncertain" /\ new.input = r.input
    <3>1. new \in Row
      BY <1>2, <1>5, RowMade
    <3> QED
      BY <1>2, <3>1 DEF Row
  <2>2. SetRow(r, new)
    BY <1>5
  <2> HIDE DEF new
  <2>3. /\ OthersStay(c) /\ pc'[c] = "run" /\ call'[c] = r
        /\ answers' = answers /\ called' \in Nat
    BY <1>1, <1>5, Moved DEF PCs, TypeOK
  <2>4. r.scope \notin Stores /\ RowOf(r).phase = "ready"
    BY <1>2, <1>5, IdempotencyAssumption
  <2>5. RowMoves(RowOf(r), new)
    BY <1>2, <2>1, <2>4 DEF RowMoves
  <2>6. RowsKeep
    BY <1>2, <2>1, <2>2, <2>4, <2>5, RowsSet
  <2>7. /\ rows'[r.scope][r.key] = new
        /\ \A s \in Scopes, k \in Keys :
              s # r.scope \/ k # r.key => rows'[s][k] = rows[s][k]
    BY <1>1, <1>2, <2>1, <2>2, RowSet
  <2>8. RoomGood'
    <3>1. rows[r.scope][r.key] # NoRow
      BY <2>4, RowFields DEF RowOf
    <3>2. NoNewRows
      BY <1>2, <2>7, <3>1 DEF NoNewRows, Scopes
    <3> QED
      BY <3>2, RoomStands
  <2>9. \A d \in Callers : ~Executes(d, r.scope, r.key)
    BY <1>1 DEF Locked, Executes
  <2>10. runs[<<r.scope, r.key>>] = 0
    BY <1>2, <2>4 DEF OnceInv, RunsBooked, RowOf
  <2>11. CallerInv(c)'
    BY <1>1, <1>2, <2>1, <2>3, <2>7, <2>10 DEF CallerInv, RowOf
  <2> QED
    BY <1>1, <2>3, <2>6, <2>8, <2>9, <2>11, GoesHeld
<1> QED
  BY <1>3, <1>4, <1>5 DEF Acquire

LEMMA RememberStep ==
    ASSUME OnceInv, NEW c \in Callers, Remember(c)
    PROVE  OnceInv'
<1>0. PICK r \in Call : r = call[c]
  BY HeldTypes, CallerTypes DEF Remember
<1> DEFINE result == [kind |-> "done", by |-> c]
           new == [RowOf(r) EXCEPT !.phase = "completed", !.result = result]
<1>1. /\ TypeOK /\ CallerInv(c) /\ pc[c] = "running" /\ r.scope \in Locals
      /\ SetRow(r, new) /\ Answers(c, result) /\ result \in Result
      /\ orphans' = orphans /\ called' = called /\ runs' = runs
  BY <1>0, HeldTypes, CallFields DEF Remember
<1>2. /\ r \in Call /\ r.scope \in Scopes /\ r.key \in Keys /\ RowOf(r) \in Row
      /\ RowOf(r).input = r.input /\ RowOf(r).phase = "uncertain"
  BY <1>0, <1>1, CallerTypes DEF CallerInv
<1>3. new \in Row
  BY <1>1, <1>2, RowMade
<1>4. new.phase = "completed" /\ new.input = r.input /\ new.result = result
  BY <1>2 DEF Row
<1> HIDE DEF new, result
<1>5. OthersStay(c) /\ pc'[c] = "idle"
  BY <1>1, Returned
<1>6. ~\E d \in Callers : Executes(d, r.scope, r.key)'
  <2>1. ASSUME NEW d \in Callers, Executes(d, r.scope, r.key)' PROVE d # c
    BY <1>5, <2>1 DEF Executes
  <2>2. ASSUME NEW d \in Callers \ {c}, Executes(d, r.scope, r.key)' PROVE FALSE
    <3>1. Executes(d, r.scope, r.key)
      BY <1>5, <2>2 DEF Executes, OthersStay, Stays
    <3>2. Executes(c, r.scope, r.key)
      BY <1>0, <1>1 DEF Executes
    <3> QED
      BY <1>2, <3>1, <3>2 DEF OnceInv, ExecutionsApart
  <2> QED
    BY <2>1, <2>2
<1>7. RowMoves(RowOf(r), new)
  BY <1>2, <1>3, <1>4 DEF RowMoves
<1>8. RowsKeep
  BY <1>1, <1>2, <1>3, <1>4, <1>6, <1>7, RowsSet
<1>9. /\ rows'[r.scope][r.key] = new
      /\ \A s \in Scopes, k \in Keys :
            s # r.scope \/ k # r.key => rows'[s][k] = rows[s][k]
  BY <1>1, <1>2, <1>3, RowSet
<1>10. NoNewRows
  <2>1. rows[r.scope][r.key] # NoRow
    BY <1>2, RowFields DEF RowOf
  <2> QED
    BY <1>2, <1>9, <2>1 DEF NoNewRows, Scopes
<1>11. AnswersGood' /\ answers' \subseteq Call
  BY <1>0, <1>1, <1>4, <1>8, <1>9, AnswersMore
<1> QED
  BY <1>1, <1>5, <1>8, <1>10, <1>11, LeavesHeld

-----------------------------------------------------------------------------
(* The actions of the durable wrapper, and those of both.                   *)

LEMMA TakesHeld ==
    ASSUME OnceInv, NEW kind \in {"claim", "complete", "reconcile"},
           NEW c \in Callers, NEW r \in Call, r.scope \in Stores,
           kind # "claim" => r.result \in Result,
           Takes(kind, c, r)
    PROVE  RowsKeep /\ NoNewRows
<1>1. RowsKeep
  BY StoreTakes
<1>2. \E new : SetRow(r, new)
  BY DEF Takes
<1>3. ASSUME NEW s \in Locals, NEW k \in Keys PROVE rows'[s][k] = rows[s][k]
  <2>1. s # r.scope /\ s \in Scopes
    BY IdempotencyAssumption DEF Scopes
  <2>2. rows \in [Scopes -> [Keys -> Row]]
    BY HeldTypes DEF TypeOK
  <2> QED
    BY <1>2, <2>1, <2>2 DEF SetRow
<1> QED
  BY <1>1, <1>3 DEF NoNewRows

LEMMA BeginStep ==
    ASSUME OnceInv, NEW c \in Callers, NEW r \in Request(Stores),
           BeginClaim(c, r) \/ BeginReconcile(c, r)
    PROVE  OnceInv'
<1>1. TypeOK /\ r \in Call /\ r.scope \in Stores
  BY CallFields, HeldTypes DEF Scopes
<1>2. \A v \in Result :
         /\ [r EXCEPT !.result = v] \in Call
         /\ [r EXCEPT !.result = v].scope = r.scope
         /\ [r EXCEPT !.result = v].result = v
  BY <1>1, CallFields
<1>3. PICK where \in {"claim", "reconcile"}, q \in Call :
         /\ Ask(c, where, q) /\ q.scope \in Stores
         /\ where = "reconcile" => q.result \in Result
  <2>1. CASE BeginClaim(c, r)
    BY <1>1, <2>1 DEF BeginClaim
  <2>2. CASE BeginReconcile(c, r)
    <3>1. PICK v \in Result : Ask(c, "reconcile", [r EXCEPT !.result = v])
      BY <2>2, CallFields DEF BeginReconcile
    <3> QED
      BY <1>1, <1>2, <3>1
  <2> QED
    BY <2>1, <2>2
<1>4. where \in PCs
  BY DEF PCs
<1>5. /\ OthersStay(c) /\ pc'[c] = where /\ call'[c] = q /\ called' \in Nat
  BY <1>1, <1>3, <1>4, Asked
<1>6. UNCHANGED <<rows, orphans, runs, answers>>
  BY DEF BeginClaim, BeginReconcile
<1>7. RowsKeep /\ RoomGood'
  BY <1>6, RowsStand, RoomStands DEF NoNewRows
<1>8. CallerInv(c)'
  BY <1>3, <1>5 DEF CallerInv
<1> QED
  BY <1>5, <1>6, <1>7, <1>8, GoesHeld

LEMMA ClaimStep ==
    ASSUME OnceInv, NEW c \in Callers, Claim(c)
    PROVE  OnceInv'
<1>1. /\ TypeOK /\ CallerInv(c) /\ pc[c] = "claim" /\ Takes("claim", c, call[c])
      /\ Goto(c, "run") /\ UNCHANGED <<orphans, call, called, runs, answers>>
  BY HeldTypes DEF Claim
<1>2. PICK r \in Call : r = call[c]
  BY <1>1, CallerTypes
<1>3. r.scope \in Stores /\ r.scope \in Scopes /\ r.key \in Keys /\ r.scope \notin Locals
  BY <1>1, <1>2, CallFields, IdempotencyAssumption DEF CallerInv
<1>4. /\ RowsKeep /\ NoNewRows /\ RowOf(r) = NoRow
      /\ rows'[r.scope][r.key].input = r.input
      /\ rows'[r.scope][r.key].phase = "uncertain"
  BY <1>1, <1>2, <1>3, StoreTakes, TakesHeld
<1>5. /\ OthersStay(c) /\ pc'[c] = "run" /\ call'[c] = r /\ called' \in Nat
  BY <1>1, <1>2, Moved DEF PCs, TypeOK
<1>6. runs[<<r.scope, r.key>>] = 0
  BY <1>3, <1>4, RowFields DEF OnceInv, RunsBooked, RowOf
<1>7. \A d \in Callers : ~Executes(d, r.scope, r.key)
  <2> SUFFICES ASSUME NEW d \in Callers, Executes(d, r.scope, r.key) PROVE FALSE
    OBVIOUS
  <2>1. RowOf(call[d]) = NoRow
    BY <1>4 DEF Executes, RowOf
  <2>2. RowOf(call[d]).phase \in {"uncertain", "completed"}
    BY HeldTypes DEF Executes, CallerInv
  <2> QED
    BY <2>1, <2>2, RowFields
<1>8. CallerInv(c)'
  BY <1>1, <1>3, <1>4, <1>5, <1>6 DEF CallerInv, RowOf
<1>9. RoomGood'
  BY <1>4, RoomStands
<1> QED
  BY <1>1, <1>4, <1>5, <1>7, <1>8, <1>9, GoesHeld

LEMMA ClaimKnownStep ==
    ASSUME OnceInv, NEW c \in Callers, ClaimKnown(c)
    PROVE  OnceInv'
<1> DEFINE row == RowOf(call[c])
<1>1. /\ TypeOK /\ pc[c] = "claim"
      /\ UNCHANGED <<rows, orphans, called, runs>>
      /\ \/ row.input = call[c].input /\ row.phase = "completed" /\ Answers(c, row.result)
         \/ Fails(c)
  BY HeldTypes DEF ClaimKnown
<1>2. call[c] \in Call /\ row \in Row
  BY <1>1, CallerTypes
<1>3. RowsKeep /\ NoNewRows
  BY <1>1, RowsStand DEF NoNewRows
<1>4. CASE row.input = call[c].input /\ row.phase = "completed" /\ Answers(c, row.result)
  <2>1. row.result \in Result
    BY <1>2, <1>4 DEF Row
  <2>2. rows'[call[c].scope][call[c].key] = row
    BY <1>1 DEF RowOf
  <2>3. AnswersGood' /\ answers' \subseteq Call
    BY <1>1, <1>3, <1>4, <2>1, <2>2, AnswersMore
  <2>4. OthersStay(c) /\ pc'[c] = "idle"
    BY <1>1, <1>4, <2>1, Returned
  <2> QED
    BY <1>1, <1>3, <2>3, <2>4, LeavesHeld
<1>5. CASE Fails(c)
  <2>1. OthersStay(c) /\ pc'[c] = "idle" /\ answers' = answers
    BY <1>1, <1>5, Returned DEF Fails
  <2> QED
    BY <1>1, <1>3, <2>1, AnswersKept, LeavesHeld
<1> QED
  BY <1>1, <1>4, <1>5

LEMMA HandInStep ==
    ASSUME OnceInv, NEW c \in Callers, HandIn(c)
    PROVE  OnceInv'
<1> DEFINE done == [kind |-> "done", by |-> c]
           q == [call[c] EXCEPT !.result = done]
<1>1. /\ TypeOK /\ pc[c] = "running" /\ call[c].scope \in Stores
      /\ call' = [call EXCEPT ![c].result = done]
      /\ Goto(c, "complete") /\ UNCHANGED <<rows, orphans, called, runs, answers>>
  BY HeldTypes DEF HandIn
<1>2. call[c] \in Call /\ done \in Result
  BY <1>1, CallerTypes, CallFields
<1>3. q \in Call /\ q.scope = call[c].scope /\ q.result = done
  BY <1>2, CallFields
<1>4. call' = [call EXCEPT ![c] = q]
  BY <1>1
<1> HIDE DEF done, q
<1>5. /\ OthersStay(c) /\ pc'[c] = "complete" /\ call'[c] = q
  <2>1. pc' \in [Callers -> PCs] /\ pc'[c] = "complete"
        /\ \A d \in Callers \ {c} : pc'[d] = pc[d]
    BY <1>1, Goes DEF PCs
  <2>2. call' \in [Callers -> Call \cup {None}] /\ call'[c] = q
        /\ \A d \in Callers \ {c} : call'[d] = call[d]
    BY <1>1, <1>3, <1>4, Calls
  <2> QED
    BY <1>3, <2>1, <2>2 DEF OthersStay, Stays
<1>6. RowsKeep /\ RoomGood'
  BY <1>1, RowsStand, RoomStands DEF NoNewRows
<1>7. CallerInv(c)'
  BY <1>1, <1>2, <1>3, <1>5 DEF CallerInv
<1>8. called' \in Nat
  BY <1>1 DEF TypeOK
<1> QED
  BY <1>1, <1>5, <1>6, <1>7, <1>8, GoesHeld

LEMMA FinishStep ==
    ASSUME OnceInv, NEW c \in Callers, Finish(c) \/ StoreFails(c)
    PROVE  OnceInv'
<1>1. /\ TypeOK /\ CallerInv(c) /\ pc[c] \in {"claim", "complete", "reconcile"}
      /\ UNCHANGED <<orphans, called, runs>>
      /\ \/ pc[c] # "claim" /\ Takes(pc[c], c, call[c]) /\ Answers(c, call[c].result)
         \/ (UNCHANGED rows \/ Takes(pc[c], c, call[c])) /\ Fails(c)
  BY HeldTypes DEF Finish, StoreFails
<1>2. /\ call[c] \in Call /\ call[c].scope \in Stores
      /\ pc[c] # "claim" => call[c].result \in Result
  BY <1>1, CallerTypes DEF CallerInv
<1>3. RowsKeep /\ NoNewRows
  <2>1. CASE UNCHANGED rows
    BY <2>1, RowsStand DEF NoNewRows
  <2>2. CASE Takes(pc[c], c, call[c])
    BY <1>1, <1>2, <2>2, TakesHeld
  <2> QED
    BY <1>1, <2>1, <2>2
<1>4. OthersStay(c) /\ pc'[c] = "idle"
  BY <1>1, <1>2, Returned
<1>5. AnswersGood' /\ answers' \subseteq Call
  <2>1. CASE Fails(c)
    BY <1>3, <2>1, AnswersKept DEF Fails
  <2>2. CASE pc[c] # "claim" /\ Takes(pc[c], c, call[c]) /\ Answers(c, call[c].result)
    <3>1. /\ rows'[call[c].scope][call[c].key].phase = "completed"
          /\ rows'[call[c].scope][call[c].key].result = call[c].result
          /\ rows'[call[c].scope][call[c].key].input = call[c].input
      BY <1>1, <1>2, <2>2, StoreTakes
    <3> QED
      BY <1>1, <1>2, <1>3, <2>2, <3>1, AnswersMore
  <2> QED
    BY <1>1, <2>1, <2>2
<1> QED
  BY <1>1, <1>3, <1>4, <1>5, LeavesHeld

LEMMA RunStep ==
    ASSUME OnceInv, NEW c \in Callers, Run(c)
    PROVE  OnceInv'
<1>1. /\ TypeOK /\ CallerInv(c) /\ pc[c] = "run"
      /\ runs' = [runs EXCEPT ![<<call[c].scope, call[c].key>>] = @ + 1]
      /\ Goto(c, "running") /\ UNCHANGED <<rows, orphans, call, called, answers>>
  BY HeldTypes DEF Run
<1>2. PICK r \in Call : r = call[c]
  BY <1>1, CallerTypes
<1>3. r.scope \in Scopes /\ r.key \in Keys
  BY CallFields
<1>4. /\ OthersStay(c) /\ pc'[c] = "running" /\ call'[c] = r
  BY <1>1, <1>2, Moved DEF PCs
<1>5. RowsKeep /\ NoNewRows
  BY <1>1, RowsStand DEF NoNewRows
<1>6. /\ runs[<<r.scope, r.key>>] = 0
      /\ rows[r.scope][r.key].phase \in {"uncertain", "completed"}
  BY <1>1, <1>2 DEF CallerInv, RowOf
<1>7. /\ runs' \in [Scopes \X Keys -> Nat]
      /\ runs'[<<r.scope, r.key>>] = 1
      /\ \A s \in Scopes, k \in Keys :
            s # r.scope \/ k # r.key => runs'[<<s, k>>] = runs[<<s, k>>]
  <2> DEFINE u == <<r.scope, r.key>>
  <2>1. runs \in [Scopes \X Keys -> Nat] /\ u \in Scopes \X Keys
    BY <1>1, <1>3 DEF TypeOK
  <2>2. runs' = [runs EXCEPT ![u] = @ + 1] /\ runs[u] = 0
    BY <1>1, <1>2, <1>6
  <2>3. \A s, k : (s # r.scope \/ k # r.key) => <<s, k>> # u
    OBVIOUS
  <2> HIDE DEF u
  <2>4. /\ runs' \in [Scopes \X Keys -> Nat] /\ runs'[u] = 1
        /\ \A v \in Scopes \X Keys : v # u => runs'[v] = runs[v]
    BY <2>1, <2>2
  <2> QED
    BY <2>3, <2>4 DEF u
<1>8. \A d \in Callers \ {c} : pc[d] = "run" =>
         runs'[<<call[d].scope, call[d].key>>] = runs[<<call[d].scope, call[d].key>>]
  <2> SUFFICES ASSUME NEW d \in Callers \ {c}, pc[d] = "run"
               PROVE  runs'[<<call[d].scope, call[d].key>>]
                         = runs[<<call[d].scope, call[d].key>>]
    OBVIOUS
  <2>1. call[d].scope \in Scopes /\ call[d].key \in Keys
    BY <1>1, CallerTypes
  <2>2. call[d].scope # r.scope \/ call[d].key # r.key
    BY <1>1, <1>2, <1>3 DEF OnceInv, ExecutionsApart, Executes
  <2> QED
    BY <1>7, <2>1, <2>2
<1>9. CallerInv(c)'
  BY <1>1, <1>2, <1>4 DEF CallerInv, RowOf
<1>10. (\A d \in Callers : CallerInv(d)') /\ ExecutionsApart'
  BY <1>1, <1>2, <1>4, <1>5, <1>8, <1>9, Frame
<1>11. RunsBooked'
  <2> SUFFICES ASSUME NEW s \in Scopes, NEW k \in Keys
               PROVE  /\ runs'[<<s, k>>] <= 1
                      /\ runs'[<<s, k>>] # 0 =>
                            rows[s][k].phase \in {"uncertain", "completed"}
                      /\ s \in Stores => rows[s][k].phase # "ready"
    BY <1>1 DEF RunsBooked
  <2>1. /\ runs[<<s, k>>] <= 1
        /\ runs[<<s, k>>] # 0 => rows[s][k].phase \in {"uncertain", "completed"}
        /\ s \in Stores => rows[s][k].phase # "ready"
    BY DEF OnceInv, RunsBooked
  <2>2. CASE s = r.scope /\ k = r.key
    <3>1. runs'[<<s, k>>] = 1 /\ rows[s][k].phase \in {"uncertain", "completed"}
      BY <1>6, <1>7, <2>2
    <3> QED
      BY <2>1, <3>1
  <2>3. CASE s # r.scope \/ k # r.key
    <3>1. runs'[<<s, k>>] = runs[<<s, k>>]
      BY <1>7, <2>3
    <3> QED
      BY <2>1, <3>1
  <2> QED
    BY <2>2, <2>3
<1>12. RoomGood' /\ AnswersGood' /\ answers' \subseteq Call
  BY <1>1, <1>5, RoomStands, AnswersKept
<1>13. OrphanInv'
  BY <1>1 DEF OnceInv, OrphanInv
<1>14. TypeOK'
  <2>1. \A d \in Callers : pc'[d] # "idle" => call'[d] \in Call
    BY <1>1, <1>4 DEF OthersStay, Stays, TypeOK
  <2> QED
    BY <1>1, <1>4, <1>5, <1>7, <2>1 DEF OthersStay, RowsKeep, TypeOK
<1> QED
  BY <1>10, <1>11, <1>12, <1>13, <1>14, PartsNext

LEMMA DropStep ==
    ASSUME OnceInv, NEW c \in Callers, Doubt(c) \/ Drop(c)
    PROVE  OnceInv'
<1> DEFINE w == [caller |-> c, kind |-> pc[c], call |-> call[c]]
<1>1. /\ TypeOK /\ CallerInv(c) /\ pc[c] # "idle" /\ Fails(c)
      /\ UNCHANGED <<rows, called, runs>> /\ answers' = answers
      /\ \/ orphans' = orphans
         \/ /\ pc[c] \in {"claim", "complete", "reconcile"}
            /\ orphans' = orphans \cup {w}
  BY HeldTypes DEF Doubt, Drop, Fails
<1>2. RowsKeep /\ NoNewRows
  BY <1>1, RowsStand DEF NoNewRows
<1>3. OthersStay(c) /\ pc'[c] = "idle"
  BY <1>1, Returned
<1>4. AnswersGood' /\ answers' \subseteq Call
  BY <1>1, <1>2, AnswersKept
<1>5. CASE orphans' = orphans
  BY <1>1, <1>2, <1>3, <1>4, <1>5, LeavesHeld
<1>6. CASE /\ pc[c] \in {"claim", "complete", "reconcile"}
           /\ orphans' = orphans \cup {w}
  <2>1. /\ call[c] \in Call /\ call[c].scope \in Stores
        /\ pc[c] # "claim" => call[c].result \in Result
    BY <1>1, <1>6, CallerTypes DEF CallerInv
  <2>2. OrphanInv'
    BY <1>6, <2>1 DEF OnceInv, OrphanInv
  <2>3. (\A d \in Callers : CallerInv(d)') /\ ExecutionsApart'
    BY <1>1, <1>2, <1>3, FrameLeaves
  <2>4. RunsBooked' /\ RoomGood'
    BY <1>1, <1>2, RunsStand, RoomStands
  <2>5. TypeOK'
    <3>1. \A d \in Callers : pc'[d] # "idle" => call'[d] \in Call
      BY <1>1, <1>3 DEF OthersStay, Stays, TypeOK
    <3>2. orphans' \subseteq [caller : Callers, kind : {"claim", "complete", "reconcile"},
                              call : Call]
      BY <1>1, <1>6, <2>1 DEF TypeOK
    <3> QED
      BY <1>1, <1>2, <1>3, <1>4, <3>1, <3>2 DEF OthersStay, RowsKeep, TypeOK
  <2> QED
    BY <1>4, <2>2, <2>3, <2>4, <2>5, PartsNext
<1> QED
  BY <1>1, <1>5, <1>6

LEMMA OrphanStep ==
    ASSUME OnceInv, NEW w \in orphans, OrphanCommits(w) \/ OrphanLost(w)
    PROVE  OnceInv'
<1>1. /\ UNCHANGED <<pc, call, called, runs, answers>> /\ orphans' \subseteq orphans
      /\ UNCHANGED rows \/ Takes(w.kind, w.caller, w.call)
  BY DEF OrphanCommits, OrphanLost
<1>2. RowsKeep /\ NoNewRows
  <2>1. CASE UNCHANGED rows
    BY <2>1, RowsStand DEF NoNewRows
  <2>2. CASE Takes(w.kind, w.caller, w.call)
    <3>1. /\ w.kind \in {"claim", "complete", "reconcile"}
          /\ w.caller \in Callers /\ w.call \in Call
      BY HeldTypes DEF TypeOK
    <3>2. w.call.scope \in Stores /\ (w.kind # "claim" => w.call.result \in Result)
      BY DEF OnceInv, OrphanInv
    <3> QED
      BY <2>2, <3>1, <3>2, TakesHeld
  <2> QED
    BY <1>1, <2>1, <2>2
<1>3. called' \in Nat
  BY <1>1, HeldTypes DEF TypeOK
<1> QED
  BY <1>1, <1>2, <1>3, StandHeld

-----------------------------------------------------------------------------
(* The invariant.                                                           *)

LEMMA InvInit == Init => OnceInv
<1> SUFFICES ASSUME Init PROVE OnceInv
  OBVIOUS
<1>1. TypeOK
  BY RowFields DEF Init, TypeOK, PCs
<1>2. AnswersGood /\ OrphanInv /\ RunsBooked
  BY RowFields DEF Init, AnswersGood, OrphanInv, RunsBooked
<1>3. \A c \in Callers : pc[c] = "idle"
  BY DEF Init
<1>4. (\A c \in Callers : CallerInv(c)) /\ ExecutionsApart
  BY <1>3 DEF CallerInv, ExecutionsApart, Executes
<1>5. RoomGood
  <2>1. \A s \in Locals : Used(s) = {}
    BY DEF Init, Used, Scopes
  <2>2. \A s \in Locals : Capacity[s] \in Nat
    BY IdempotencyAssumption
  <2> QED
    BY <2>1, <2>2, FS_EmptySet DEF RoomGood
<1> QED
  BY <1>1, <1>2, <1>4, <1>5, Parts

LEMMA InvStep == OnceInv /\ [Next]_vars => OnceInv'
<1> SUFFICES ASSUME OnceInv, [Next]_vars PROVE OnceInv'
  OBVIOUS
<1>1. ASSUME NEW c \in Callers, NEW r \in Request(Locals), Lookup(c, r) PROVE OnceInv'
  BY <1>1, LookupStep
<1>2. ASSUME NEW c \in Callers, NEW r \in Request(Locals), Refuse(c, r) PROVE OnceInv'
  <2>1. UNCHANGED <<rows, orphans, pc, call, runs, answers>> /\ called' = called + 1
    BY <1>2 DEF Refuse
  <2>2. called' \in Nat
    BY <2>1, HeldTypes DEF TypeOK
  <2>3. RowsKeep /\ NoNewRows
    BY <2>1, RowsStand DEF NoNewRows
  <2> QED
    BY <2>1, <2>2, <2>3, StandHeld
<1>3. ASSUME NEW c \in Callers, NEW r \in Request(Stores),
             BeginClaim(c, r) \/ BeginReconcile(c, r)
      PROVE  OnceInv'
  BY <1>3, BeginStep
<1>4. ASSUME NEW c \in Callers, Progress(c) \/ Drop(c) PROVE OnceInv'
  BY <1>4, AcquireStep, RememberStep, ClaimStep, ClaimKnownStep, HandInStep, FinishStep,
     RunStep, DropStep DEF Progress
<1>5. ASSUME NEW w \in orphans, OrphanCommits(w) \/ OrphanLost(w) PROVE OnceInv'
  BY <1>5, OrphanStep
<1>6. ASSUME UNCHANGED vars PROVE OnceInv'
  <2>1. UNCHANGED <<rows, orphans, pc, call, called, runs, answers>>
    BY <1>6 DEF vars
  <2>2. called' \in Nat
    BY <2>1, HeldTypes DEF TypeOK
  <2>3. RowsKeep /\ NoNewRows
    BY <2>1, RowsStand DEF NoNewRows
  <2> QED
    BY <2>1, <2>2, <2>3, StandHeld
<1> QED
  BY <1>1, <1>2, <1>3, <1>4, <1>5, <1>6 DEF Next

LEMMA Invariance == Spec => []OnceInv
BY InvInit, InvStep, PTL DEF Spec

\* Every value of the variables is of its type.
THEOREM TypeCorrect == Spec => []TypeOK
<1>1. OnceInv => TypeOK
  BY HeldTypes
<1> QED
  BY <1>1, Invariance, PTL

\* All terminal results that were returned for a key are the stored one and
\* belong to one input, whoever executes, completes, retries or reconciles it.
THEOREM OneAnswerHolds == Spec => []OneAnswer
<1>1. OnceInv => OneAnswer
  BY DEF OnceInv
<1> QED
  BY <1>1, Invariance, PTL

\* A local table stays within its capacity and remembers every key that was
\* executed.
THEOREM TableHolds == Spec => []TableBounded
<1>1. OnceInv => TableBounded
  <2> SUFFICES ASSUME OnceInv, NEW s \in Locals
               PROVE  /\ Cardinality({k \in Keys : rows[s][k] # NoRow}) <= Capacity[s]
                      /\ \A k \in Keys : runs[<<s, k>>] # 0 => rows[s][k] # NoRow
    BY DEF TableBounded
  <2>1. Cardinality({k \in Keys : rows[s][k] # NoRow}) <= Capacity[s]
    BY DEF OnceInv, Used
  <2>2. \A k \in Keys : runs[<<s, k>>] # 0 => rows[s][k] # NoRow
    BY RowFields DEF OnceInv, RunsBooked, Scopes
  <2> QED
    BY <2>1, <2>2
<1> QED
  BY <1>1, Invariance, PTL

-----------------------------------------------------------------------------
(* The refinement.                                                          *)

Units == Scopes \X Keys

LEMMA PhaseValues ==
    /\ Phase = [u \in Units |-> Phase[u]]
    /\ \A s \in Scopes, k \in Keys :
          /\ rows[s][k].phase \in {"absent", "ready"} => Phase[<<s, k>>] = "open"
          /\ rows[s][k].phase = "uncertain" => Phase[<<s, k>>] = "claimed"
          /\ rows[s][k].phase = "completed" => Phase[<<s, k>>] = "settled"
BY DEF Phase, Units

LEMMA PhaseValuesNext ==
    /\ Phase' = [u \in Units |-> Phase'[u]]
    /\ \A s \in Scopes, k \in Keys :
          /\ rows'[s][k].phase \in {"absent", "ready"} => Phase'[<<s, k>>] = "open"
          /\ rows'[s][k].phase = "uncertain" => Phase'[<<s, k>>] = "claimed"
          /\ rows'[s][k].phase = "completed" => Phase'[<<s, k>>] = "settled"
          /\ rows'[s][k] = rows[s][k] => Phase'[<<s, k>>] = Phase[<<s, k>>]
BY DEF Phase, Units

\* One record moves, by one stage at most.
LEMMA PhaseStep ==
    ASSUME TypeOK, NEW r \in Call, NEW new \in Row, SetRow(r, new), runs' = runs,
           \/ RowOf(r).phase \in {"absent", "ready"} /\ new.phase \in {"ready", "uncertain"}
           \/ RowOf(r).phase \in {"uncertain", "completed"} /\ new.phase = "completed"
    PROVE  [Ledger!Next]_Ledger!vars
<1> DEFINE u == <<r.scope, r.key>>
<1>1. /\ r.scope \in Scopes /\ r.key \in Keys /\ u \in Units
      /\ rows'[r.scope][r.key] = new
      /\ \A s \in Scopes, k \in Keys :
            s # r.scope \/ k # r.key => rows'[s][k] = rows[s][k]
  BY RowSet, CallFields DEF Units
<1>2. \A v \in Units : v # u => Phase'[v] = Phase[v]
  <2> SUFFICES ASSUME NEW s \in Scopes, NEW k \in Keys, <<s, k>> # u
               PROVE  Phase'[<<s, k>>] = Phase[<<s, k>>]
    BY DEF Units
  <2> QED
    BY <1>1, PhaseValuesNext
<1>3. Phase'[u] \in {"open", "claimed", "settled"}
  BY <1>1, PhaseValuesNext
<1>4. \/ Phase[u] = Phase'[u]
      \/ Phase[u] = "open" /\ Phase'[u] = "claimed"
      \/ Phase[u] = "claimed" /\ Phase'[u] = "settled"
  <2>1. CASE RowOf(r).phase \in {"absent", "ready"} /\ new.phase \in {"ready", "uncertain"}
    BY <1>1, <2>1, PhaseValues, PhaseValuesNext DEF RowOf
  <2>2. CASE RowOf(r).phase \in {"uncertain", "completed"} /\ new.phase = "completed"
    BY <1>1, <2>2, PhaseValues, PhaseValuesNext DEF RowOf
  <2> QED
    BY <2>1, <2>2
<1> HIDE DEF u
<1>5. Phase' = [Phase EXCEPT ![u] = Phase'[u]]
  BY <1>1, <1>2, PhaseValues, PhaseValuesNext
<1>6. CASE Phase[u] = Phase'[u]
  <2>1. Phase' = Phase
    BY <1>1, <1>2, <1>6, PhaseValues, PhaseValuesNext
  <2> QED
    BY <2>1 DEF Ledger!vars
<1>7. CASE Phase[u] = "open" /\ Phase'[u] = "claimed"
  <2>1. Ledger!Claim(u)
    BY <1>1, <1>5, <1>7 DEF Ledger!Claim, Units
  <2> QED
    BY <1>1, <2>1 DEF Ledger!Next, Units
<1>8. CASE Phase[u] = "claimed" /\ Phase'[u] = "settled"
  <2>1. Ledger!Settle(u)
    BY <1>1, <1>5, <1>8 DEF Ledger!Settle
  <2> QED
    BY <1>1, <2>1 DEF Ledger!Next, Units
<1> QED
  BY <1>4, <1>6, <1>7, <1>8

LEMMA PhaseTakes ==
    ASSUME OnceInv, NEW kind \in {"claim", "complete", "reconcile"},
           NEW c \in Callers, NEW r \in Call, r.scope \in Stores,
           kind # "claim" => r.result \in Result,
           Takes(kind, c, r), runs' = runs
    PROVE  [Ledger!Next]_Ledger!vars
<1>1. TypeOK /\ r.scope \in Scopes /\ r.key \in Keys
  BY HeldTypes, CallFields
<1>2. PICK new : SetRow(r, new)
  BY DEF Takes
<1>3. /\ RowOf(r) \in Row /\ RowOf(r).phase # "ready"
  BY <1>1 DEF TypeOK, OnceInv, RunsBooked, RowOf
<1>4. rows'[r.scope][r.key] = new
  BY <1>1, <1>2 DEF SetRow, TypeOK
<1>5. new \in Row
  BY <1>1, <1>4, StoreTakes DEF RowsKeep
<1>6. CASE kind = "claim"
  <2>1. RowOf(r).phase = "absent" /\ new.phase = "uncertain"
    BY <1>4, <1>6, StoreTakes, RowFields
  <2> QED
    BY <1>1, <1>2, <1>5, <2>1, PhaseStep
<1>7. CASE kind # "claim"
  <2>1. RowOf(r).phase \in {"uncertain", "completed"} /\ new.phase = "completed"
    BY <1>3, <1>4, <1>7, StoreTakes, RowFields
  <2> QED
    BY <1>1, <1>2, <1>5, <2>1, PhaseStep
<1> QED
  BY <1>6, <1>7

LEMMA LedgerStands ==
    ASSUME UNCHANGED <<rows, runs>>
    PROVE  [Ledger!Next]_Ledger!vars
BY DEF Ledger!vars, Phase

LEMMA LedgerStep ==
    ASSUME OnceInv, [Next]_vars
    PROVE  [Ledger!Next]_Ledger!vars
<1>1. ASSUME NEW c \in Callers, NEW r \in Request(Locals), Lookup(c, r)
      PROVE  [Ledger!Next]_Ledger!vars
  <2>1. r \in Call /\ r.input \in Inputs /\ TypeOK /\ runs' = runs
    BY <1>1, CallFields, HeldTypes DEF Scopes, Lookup
  <2>2. CASE UNCHANGED rows
    BY <2>1, <2>2, LedgerStands
  <2>3. CASE /\ RowOf(r) = NoRow
             /\ SetRow(r, [NoRow EXCEPT !.phase = "ready", !.input = r.input])
    <3>1. /\ [NoRow EXCEPT !.phase = "ready", !.input = r.input] \in Row
          /\ [NoRow EXCEPT !.phase = "ready", !.input = r.input].phase = "ready"
      BY <2>1, RowMade DEF NoRow
    <3> QED
      BY <2>1, <2>3, <3>1, PhaseStep, RowFields
  <2> QED
    BY <1>1, <2>2, <2>3 DEF Lookup
<1>2. ASSUME NEW c \in Callers, Acquire(c)
      PROVE  [Ledger!Next]_Ledger!vars
  <2>1. pc[c] = "wait" /\ TypeOK /\ call[c] \in Call /\ RowOf(call[c]) \in Row /\ runs' = runs
    BY <1>2, CallerTypes, HeldTypes DEF Acquire
  <2>2. CASE UNCHANGED rows
    BY <2>1, <2>2, LedgerStands
  <2>3. CASE /\ RowOf(call[c]).phase = "ready"
             /\ SetRow(call[c], [RowOf(call[c]) EXCEPT !.phase = "uncertain"])
    <3>1. /\ [RowOf(call[c]) EXCEPT !.phase = "uncertain"] \in Row
          /\ [RowOf(call[c]) EXCEPT !.phase = "uncertain"].phase = "uncertain"
      BY <2>1, <2>3, RowMade DEF Row
    <3> QED
      BY <2>1, <2>3, <3>1, PhaseStep
  <2> QED
    BY <1>2, <2>2, <2>3 DEF Acquire
<1>3. ASSUME NEW c \in Callers, Remember(c)
      PROVE  [Ledger!Next]_Ledger!vars
  <2> DEFINE new == [RowOf(call[c]) EXCEPT !.phase = "completed",
                                           !.result = [kind |-> "done", by |-> c]]
  <2>1. /\ pc[c] = "running" /\ TypeOK /\ call[c] \in Call /\ RowOf(call[c]) \in Row
        /\ runs' = runs /\ SetRow(call[c], new)
    BY <1>3, CallerTypes, HeldTypes DEF Remember
  <2>2. RowOf(call[c]).phase \in {"uncertain", "completed"}
    BY <2>1, HeldTypes DEF CallerInv
  <2>3. new \in Row
    BY <2>1, <2>2, RowMade, CallFields
  <2>4. new.phase = "completed"
    BY <2>1 DEF Row
  <2> QED
    BY <2>1, <2>2, <2>3, <2>4, PhaseStep
<1>4. ASSUME NEW c \in Callers, Claim(c) \/ Finish(c) \/ StoreFails(c)
      PROVE  [Ledger!Next]_Ledger!vars
  <2>1. /\ pc[c] \in {"claim", "complete", "reconcile"} /\ runs' = runs
        /\ UNCHANGED rows \/ Takes(pc[c], c, call[c])
    BY <1>4 DEF Claim, Finish, StoreFails
  <2>2. /\ call[c] \in Call /\ call[c].scope \in Stores
        /\ pc[c] # "claim" => call[c].result \in Result
    BY <2>1, CallerTypes, HeldTypes DEF CallerInv
  <2> QED
    BY <2>1, <2>2, LedgerStands, PhaseTakes
<1>5. ASSUME NEW c \in Callers, Run(c)
      PROVE  [Ledger!Next]_Ledger!vars
  <2> DEFINE u == <<call[c].scope, call[c].key>>
  <2>1. /\ TypeOK /\ CallerInv(c) /\ pc[c] = "run" /\ rows' = rows
        /\ runs' = [runs EXCEPT ![u] = @ + 1]
    BY <1>5, HeldTypes DEF Run
  <2>2. call[c].scope \in Scopes /\ call[c].key \in Keys
    BY <2>1, CallerTypes
  <2>3. runs[u] = 0 /\ u \in Units /\ runs \in [Units -> Nat]
    BY <2>1, <2>2 DEF CallerInv, Units, TypeOK
  <2>4. Phase[u] \in {"claimed", "settled"}
    BY <2>1, <2>2, PhaseValues DEF CallerInv, RowOf
  <2>5. Phase' = Phase
    BY <2>1 DEF Phase
  <2> HIDE DEF u
  <2>6. runs' = [runs EXCEPT ![u] = 1]
    BY <2>1, <2>3
  <2>7. Ledger!Dispatch(u)
    BY <2>3, <2>4, <2>5, <2>6 DEF Ledger!Dispatch
  <2> QED
    BY <2>3, <2>7 DEF Ledger!Next, Units
<1>6. ASSUME NEW w \in orphans, OrphanCommits(w)
      PROVE  [Ledger!Next]_Ledger!vars
  <2>1. /\ w.kind \in {"claim", "complete", "reconcile"}
        /\ w.caller \in Callers /\ w.call \in Call
    BY HeldTypes DEF TypeOK
  <2>2. w.call.scope \in Stores /\ (w.kind # "claim" => w.call.result \in Result)
    BY DEF OnceInv, OrphanInv
  <2> QED
    BY <1>6, <2>1, <2>2, PhaseTakes DEF OrphanCommits
<1>7. ASSUME \/ \E c \in Callers :
                   \/ \E r \in Request(Locals) : Refuse(c, r)
                   \/ \E r \in Request(Stores) : BeginClaim(c, r) \/ BeginReconcile(c, r)
                   \/ ClaimKnown(c) \/ HandIn(c) \/ Doubt(c) \/ Drop(c)
             \/ \E w \in orphans : OrphanLost(w)
             \/ UNCHANGED vars
      PROVE  [Ledger!Next]_Ledger!vars
  <2>1. UNCHANGED <<rows, runs>>
    BY <1>7 DEF Refuse, BeginClaim, BeginReconcile, ClaimKnown, HandIn, Doubt, Drop,
                OrphanLost, vars
  <2> QED
    BY <2>1, LedgerStands
<1> QED
  BY <1>1, <1>2, <1>3, <1>4, <1>5, <1>6, <1>7 DEF Next, Progress

\* IdempotentTool implements DispatchLedger: a key is executed at most once and
\* only after its record is uncertain, through drops, late requests and
\* reconciliations.
THEOREM ImplementsLedger == Spec => OncePerKey
<1>1. Init => Ledger!Init
  <2> SUFFICES ASSUME Init PROVE Ledger!Init
    OBVIOUS
  <2>1. \A s \in Scopes, k \in Keys : rows[s][k].phase = "absent"
    BY RowFields DEF Init
  <2>2. Phase = [u \in Units |-> "open"]
    BY <2>1 DEF Phase, Units
  <2>3. runs = [u \in Units |-> 0]
    BY DEF Init, Units
  <2> QED
    BY <2>2, <2>3 DEF Ledger!Init, Units
<1>2. OnceInv /\ [Next]_vars => [Ledger!Next]_Ledger!vars
  BY LedgerStep
<1> QED
  BY <1>1, <1>2, Invariance, PTL DEF Spec, OncePerKey, Ledger!Spec
=============================================================================
