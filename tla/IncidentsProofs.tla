--------------------------- MODULE IncidentsProofs ---------------------------
(***************************************************************************)
(* Proofs about Incidents for every set of findings and gaps and every     *)
(* number of handlers in flight.                                           *)
(*                                                                         *)
(* What a handler does with a row it read earlier is sound only because    *)
(* rows are never deleted and because of what it checked when it read:     *)
(* Prepared says so, stage by stage.  It makes the types inductive, and    *)
(* carries the reason of a closure from auto_resolve's SELECT to its       *)
(* UPDATE.  The last part is about one handler at a time.                  *)
(***************************************************************************)
EXTENDS Incidents, TLAPS

\* What a handler has read allows its next write.
Prepared(t) ==
  /\ task[t].stage = "upsert_read" => task[t].finding \in Finding
  /\ task[t].stage = "status_read" =>
       /\ task[t].finding \in Finding
       /\ Exists(task[t].finding)
       /\ task[t].read[task[t].finding] \in Json
       /\ task[t].status \in Status
  /\ task[t].stage \in {"closing", "closed"} =>
       \A f \in task[t].todo : /\ Exists(f)
                               /\ task[t].read[f] \in Json
                               /\ f \notin task[t].present
                               /\ CategoryOf[f] \in Heals(t)

AllPrepared == \A t \in Task : Prepared(t)

-----------------------------------------------------------------------------
\* What the helpers return.

LEMMA NullsDiffer == NoJson \notin Json /\ NoRow \notin Row
BY DEF NoJson, Json, NoRow, Row, Severity

LEMMA MergedType ==
  ASSUME NEW json \in Json \cup {NoJson}, NEW t \in Task, NEW severity \in Severity
  PROVE  Merged(json, t, severity) \in Json /\ Merged(json, t, severity).status = "open"
<1>1. CASE json = NoJson
  <2>1. 1 \in 1..MaxOccurrences
    BY IncidentsAssumption
  <2> QED BY <1>1, <2>1 DEF Merged, Json, Status
<1>2. CASE json \in Json
  <2> DEFINE worse == IF severity > json.severity THEN severity ELSE json.severity
             more == IF json.occurrences < MaxOccurrences
                     THEN json.occurrences + 1 ELSE json.occurrences
  <2>1. worse \in Severity
    BY <1>2 DEF Json
  <2>2. more \in 1..MaxOccurrences
    BY <1>2, IncidentsAssumption DEF Json
  <2>3. Merged(json, t, severity) =
          [json EXCEPT !.status = "open", !.severity = worse, !.occurrences = more]
    BY <1>2, NullsDiffer DEF Merged
  <2> HIDE DEF worse, more
  <2> QED BY <1>2, <2>1, <2>2, <2>3 DEF Json, Status
<1> QED BY <1>1, <1>2

LEMMA StoredType ==
  ASSUME NEW old \in Row \cup {NoRow}, NEW json \in Json
  PROVE  /\ Stored(old, json) \in Row
         /\ Stored(old, json).status = json.status
         /\ Stored(old, json).json = json
<1>1. (IF old = NoRow THEN json.id ELSE old.id) \in Task
  BY DEF Json, Row
<1> QED BY <1>1 DEF Stored, Row, Json

LEMMA MarkedType ==
  ASSUME NEW old \in Row, NEW json \in Json, NEW status \in Status
  PROVE  /\ Marked(old, json, status) \in Row
         /\ Marked(old, json, status).status = status
         /\ Marked(old, json, status).json.status = status
<1>1. [json EXCEPT !.status = status] \in Json /\ [json EXCEPT !.status = status].status = status
  BY DEF Json
<1> QED BY <1>1 DEF Marked, Row

LEMMA TaskType ==
  ASSUME TypeOK, NEW t \in Task
  PROVE  /\ task[t] \in TaskState
         /\ task[t].read \in [Finding -> Json \cup {NoJson}]
         /\ task[t].todo \subseteq Finding
         /\ task[t].present \subseteq Finding
BY DEF TypeOK, TaskState

LEMMA IdleType == Idle \in TaskState
BY DEF Idle, TaskState, Stage

LEMMA RowType ==
  ASSUME TypeOK, NEW f \in Finding
  PROVE  /\ row[f] \in Row \cup {NoRow}
         /\ row[f].json \in Json \cup {NoJson}
         /\ Exists(f) => row[f] \in Row /\ row[f].json \in Json
BY DEF TypeOK, Exists, Row, NoRow

-----------------------------------------------------------------------------
\* A step that moves one handler keeps the others prepared, since no row goes.

LEMMA OneMoves ==
  ASSUME TypeOK, AllPrepared, NEW t \in Task,
         task' = [task EXCEPT ![t] = task'[t]],
         \A f \in Finding : Exists(f) => Exists(f)',
         Prepared(t)'
  PROVE  AllPrepared'
<1>1. ASSUME NEW u \in Task, u # t PROVE Prepared(u)'
  <2>1. task'[u] = task[u]
    BY <1>1 DEF TypeOK
  <2>2. Heals(u)' = Heals(u)
    BY <2>1 DEF Heals
  <2>3. Prepared(u)
    BY DEF AllPrepared
  <2>4. task[u].todo \subseteq Finding
    BY TaskType
  <2> QED BY <2>1, <2>2, <2>3, <2>4 DEF Prepared
<1> QED BY <1>1 DEF AllPrepared

-----------------------------------------------------------------------------
\* Type correctness.

Typed == TypeOK /\ AllPrepared

LEMMA TypedInit == Init => Typed
<1> SUFFICES ASSUME Init PROVE Typed
  OBVIOUS
<1>1. disturbances \in 0..MaxDisturbances /\ 0 \in 0..MaxSeverity
  BY IncidentsAssumption DEF Init
<1>2. TypeOK
  BY <1>1, IdleType DEF Init, TypeOK
<1>3. AllPrepared
  BY DEF Init, AllPrepared, Prepared, Idle
<1> QED BY <1>2, <1>3 DEF Typed

\* The steps that write no row.
LEMMA QuietStep ==
  ASSUME Typed, NEW t \in Task, UNCHANGED <<row, worst>>,
         task' = [task EXCEPT ![t] = task'[t]], task'[t] \in TaskState,
         holds' \subseteq Finding, unaudited' \in BOOLEAN,
         disturbances' \in 0..MaxDisturbances,
         Prepared(t)'
  PROVE  Typed'
<1>1. TypeOK'
  BY DEF Typed, TypeOK
<1>2. \A f \in Finding : Exists(f) => Exists(f)'
  BY DEF Exists
<1>3. AllPrepared'
  BY <1>2, OneMoves DEF Typed
<1> QED BY <1>1, <1>3 DEF Typed

\* The steps that write one.
LEMMA WriteStep ==
  ASSUME Typed, NEW t \in Task, NEW f \in Finding, NEW r \in Row,
         row' = [row EXCEPT ![f] = r], worst' \in [Finding -> 0..MaxSeverity],
         task' = [task EXCEPT ![t] = task'[t]], task'[t] \in TaskState,
         UNCHANGED <<holds, unaudited, disturbances>>,
         Prepared(t)'
  PROVE  Typed'
<1>1. TypeOK'
  BY DEF Typed, TypeOK
<1>2. \A g \in Finding : Exists(g) => Exists(g)'
  BY NullsDiffer DEF Exists, Typed, TypeOK
<1>3. AllPrepared'
  BY <1>2, OneMoves DEF Typed
<1> QED BY <1>1, <1>3 DEF Typed

LEMMA IngestStep ==
  ASSUME Typed, NEW t \in Task, StartIngest(t) \/ StartSweep(t)
  PROVE  Typed'
<1>1. PICK sweep \in BOOLEAN, present \in SUBSET Finding, gaps \in SUBSET Surface :
        task' = [task EXCEPT ![t] = Started(sweep, present, gaps)]
  <2>1. CASE StartIngest(t)
    <3>1. PICK gaps \in GapSets : \E present \in SUBSET (holds \ Of("availability")) :
            task' = [task EXCEPT ![t] = Started(FALSE, present, gaps)]
      BY <2>1 DEF StartIngest
    <3>2. PICK present \in SUBSET (holds \ Of("availability")) :
            task' = [task EXCEPT ![t] = Started(FALSE, present, gaps)]
      BY <3>1
    <3>3. gaps \in SUBSET Surface /\ present \in SUBSET Finding
      BY IncidentsAssumption DEF Typed, TypeOK
    <3> QED BY <3>2, <3>3
  <2>2. CASE StartSweep(t)
    <3>1. holds \cap Of("availability") \in SUBSET Finding
      BY DEF Typed, TypeOK
    <3> QED BY <2>2, <3>1 DEF StartSweep
  <2> QED BY <2>1, <2>2
<1> DEFINE started == Started(sweep, present, gaps)
<1>2. started \in TaskState /\ started.stage = "upserting"
  BY DEF Started, Idle, TaskState, Stage
<1>3. task' = [task EXCEPT ![t] = task'[t]] /\ task'[t] = started
  BY <1>1 DEF Typed, TypeOK
<1>4. Prepared(t)'
  BY <1>2, <1>3 DEF Prepared
<1>5. UNCHANGED <<holds, row, worst, unaudited, disturbances>>
  BY DEF StartIngest, StartSweep
<1> HIDE DEF started
<1>6. holds' \subseteq Finding /\ unaudited' \in BOOLEAN /\ disturbances' \in 0..MaxDisturbances
  BY <1>5 DEF Typed, TypeOK
<1> QED BY <1>2, <1>3, <1>4, <1>5, <1>6, QuietStep

LEMMA UpsertReadStep ==
  ASSUME Typed, NEW t \in Task, UpsertRead(t)
  PROVE  Typed'
<1>1. PICK f \in task[t].todo :
        task' = [task EXCEPT ![t].stage = "upsert_read", ![t].todo = @ \ {f},
                             ![t].finding = f, ![t].read[f] = row[f].json]
  BY DEF UpsertRead
<1>2. f \in Finding
  BY TaskType DEF Typed
<1>3. row[f].json \in Json \cup {NoJson}
  BY <1>2, RowType DEF Typed
<1> DEFINE next == [task[t] EXCEPT !.stage = "upsert_read", !.todo = task[t].todo \ {f},
                                   !.finding = f,
                                   !.read = [task[t].read EXCEPT ![f] = row[f].json]]
<1>4. task' = [task EXCEPT ![t] = next]
  BY <1>1 DEF Typed, TypeOK, TaskState
<1>5. [task[t].read EXCEPT ![f] = row[f].json] \in [Finding -> Json \cup {NoJson}]
  BY <1>3, TaskType DEF Typed
<1>6. next \in TaskState /\ next.stage = "upsert_read" /\ next.finding = f
  BY <1>2, <1>5, TaskType DEF Typed, TaskState, Stage
<1>7. task' = [task EXCEPT ![t] = task'[t]] /\ task'[t] = next
  BY <1>4 DEF Typed, TypeOK
<1> HIDE DEF next
<1>8. Prepared(t)'
  BY <1>2, <1>6, <1>7 DEF Prepared
<1>9. /\ UNCHANGED <<row, worst>> /\ holds' \subseteq Finding /\ unaudited' \in BOOLEAN
      /\ disturbances' \in 0..MaxDisturbances
  BY DEF UpsertRead, Typed, TypeOK
<1> QED BY <1>6, <1>7, <1>8, <1>9, QuietStep

LEMMA UpsertWriteStep ==
  ASSUME Typed, NEW t \in Task, UpsertWrite(t)
  PROVE  Typed'
<1> DEFINE f == task[t].finding
           next == [task[t] EXCEPT !.stage = "upserting", !.finding = NoFinding,
                                   !.read = [task[t].read EXCEPT ![f] = NoJson]]
<1>1. f \in Finding /\ task[t].read[f] \in Json \cup {NoJson}
  BY TaskType DEF UpsertWrite, Typed, AllPrepared, Prepared
<1>2. PICK severity \in Severity :
        /\ row' = [row EXCEPT ![f] = Stored(@, Merged(task[t].read[f], t, severity))]
        /\ worst' = [worst EXCEPT ![f] = IF severity > @ THEN severity ELSE @]
  BY DEF UpsertWrite
<1>3. Stored(row[f], Merged(task[t].read[f], t, severity)) \in Row
  BY <1>1, MergedType, RowType, StoredType DEF Typed
<1>4. row' = [row EXCEPT ![f] = Stored(row[f], Merged(task[t].read[f], t, severity))]
  BY <1>1, <1>2 DEF Typed, TypeOK
<1>5. worst' \in [Finding -> 0..MaxSeverity]
  <2>1. worst \in [Finding -> 0..MaxSeverity] /\ severity \in 0..MaxSeverity
    BY IncidentsAssumption DEF Typed, TypeOK, Severity
  <2> QED BY <1>1, <1>2, <2>1
<1>6. task' = [task EXCEPT ![t] = next]
  <2>1. task' = [task EXCEPT ![t].stage = "upserting", ![t].finding = NoFinding,
                             ![t].read[f] = NoJson]
    BY DEF UpsertWrite
  <2> HIDE DEF f
  <2> QED BY <2>1, ZenonT(30) DEF Typed, TypeOK, TaskState
<1>7. [task[t].read EXCEPT ![f] = NoJson] \in [Finding -> Json \cup {NoJson}]
  BY TaskType DEF Typed
<1>8. next \in TaskState /\ next.stage = "upserting"
  BY <1>7, TaskType DEF Typed, TaskState, Stage
<1>9. task' = [task EXCEPT ![t] = task'[t]] /\ task'[t] = next
  BY <1>6 DEF Typed, TypeOK
<1>10. UNCHANGED <<holds, unaudited, disturbances>>
  BY DEF UpsertWrite
<1> HIDE DEF next, f
<1>11. Prepared(t)'
  BY <1>8, <1>9 DEF Prepared
<1> QED BY <1>1, <1>3, <1>4, <1>5, <1>8, <1>9, <1>10, <1>11, WriteStep

LEMMA UpsertsDoneStep ==
  ASSUME Typed, NEW t \in Task, UpsertsDone(t)
  PROVE  Typed'
<1>1. At(t, AfterUpserts(t)) \in TaskState /\ At(t, AfterUpserts(t)).stage \in {"idle", "resolving"}
  BY IdleType, TaskType DEF Typed, At, AfterUpserts, TaskState, Stage, Idle
<1>2. task' = [task EXCEPT ![t] = task'[t]] /\ task'[t] = At(t, AfterUpserts(t))
  BY DEF UpsertsDone, Typed, TypeOK
<1>3. Prepared(t)'
  BY <1>1, <1>2 DEF Prepared
<1>4. /\ UNCHANGED <<row, worst>> /\ holds' \subseteq Finding /\ unaudited' \in BOOLEAN
      /\ disturbances' \in 0..MaxDisturbances
  BY DEF UpsertsDone, Typed, TypeOK
<1> QED BY <1>1, <1>2, <1>3, <1>4, QuietStep

LEMMA ResolveSelectStep ==
  ASSUME Typed, NEW t \in Task, ResolveSelect(t)
  PROVE  Typed'
<1> DEFINE picked == [f \in Finding |-> IF f \in Unresolved(t) THEN row[f].json ELSE NoJson]
           next == IF Unresolved(t) = {} THEN Idle
                   ELSE [task[t] EXCEPT !.stage = "closing", !.todo = Unresolved(t),
                                        !.read = picked]
<1>1. /\ task' = [task EXCEPT ![t] = next]
      /\ UNCHANGED <<holds, row, unaudited, worst, disturbances>>
  BY DEF ResolveSelect, Typed, TypeOK
<1>2. Unresolved(t) \subseteq Finding
  BY DEF Unresolved
<1>3. picked \in [Finding -> Json \cup {NoJson}]
  BY RowType DEF Typed
<1>4. \A f \in Unresolved(t) : /\ Exists(f)
                               /\ picked[f] \in Json
                               /\ f \notin task[t].present
                               /\ CategoryOf[f] \in Heals(t)
  BY RowType DEF Typed, Unresolved
<1> HIDE DEF picked
<1>5. /\ next \in TaskState
      /\ next.stage = "idle" \/ /\ next.stage = "closing" /\ next.todo = Unresolved(t)
                                /\ next.read = picked /\ next.present = task[t].present
                                /\ next.sweep = task[t].sweep /\ next.gaps = task[t].gaps
  BY <1>2, <1>3, IdleType, TaskType DEF Typed, TaskState, Stage, Idle
<1>6. task' = [task EXCEPT ![t] = task'[t]] /\ task'[t] = next
  BY <1>1 DEF Typed, TypeOK
<1> HIDE DEF next
<1>7. Prepared(t)'
  <2>1. CASE next.stage = "idle"
    BY <1>6, <2>1 DEF Prepared
  <2>2. CASE next.stage = "closing"
    <3>1. Heals(t)' = Heals(t)
      BY <1>5, <1>6, <2>2 DEF Heals
    <3> QED BY <1>1, <1>4, <1>5, <1>6, <2>2, <3>1 DEF Prepared, Exists
  <2> QED BY <1>5, <2>1, <2>2
<1>8. holds' \subseteq Finding /\ unaudited' \in BOOLEAN /\ disturbances' \in 0..MaxDisturbances
  BY <1>1 DEF Typed, TypeOK
<1> QED BY <1>1, <1>5, <1>6, <1>7, <1>8, QuietStep

LEMMA ResolveWriteStep ==
  ASSUME Typed, NEW t \in Task, ResolveWrite(t)
  PROVE  Typed'
<1>1. PICK f \in task[t].todo :
        /\ row' = [row EXCEPT ![f] = Marked(@, task[t].read[f], "resolved")]
        /\ task' = [task EXCEPT ![t].stage = "closed", ![t].todo = @ \ {f},
                                ![t].read[f] = NoJson]
  BY DEF ResolveWrite
<1>2. f \in Finding /\ Prepared(t) /\ task[t].stage = "closing"
  BY TaskType DEF ResolveWrite, Typed, AllPrepared
<1>3. row[f] \in Row /\ task[t].read[f] \in Json
  BY <1>2, RowType DEF Typed, Prepared
<1>4. Marked(row[f], task[t].read[f], "resolved") \in Row
  BY <1>3, MarkedType DEF Status
<1>5. row' = [row EXCEPT ![f] = Marked(row[f], task[t].read[f], "resolved")]
  BY <1>1, <1>2 DEF Typed, TypeOK
<1> DEFINE next == [task[t] EXCEPT !.stage = "closed", !.todo = task[t].todo \ {f},
                                   !.read = [task[t].read EXCEPT ![f] = NoJson]]
<1>6. task' = [task EXCEPT ![t] = next]
  BY <1>1 DEF Typed, TypeOK, TaskState
<1>7. [task[t].read EXCEPT ![f] = NoJson] \in [Finding -> Json \cup {NoJson}]
  BY TaskType DEF Typed
<1>8. /\ next \in TaskState /\ next.stage = "closed" /\ next.todo = task[t].todo \ {f}
      /\ next.present = task[t].present /\ next.sweep = task[t].sweep
      /\ next.gaps = task[t].gaps
      /\ \A g \in Finding : g # f => next.read[g] = task[t].read[g]
  BY <1>7, TaskType DEF Typed, TaskState, Stage
<1>9. task' = [task EXCEPT ![t] = task'[t]] /\ task'[t] = next
  BY <1>6 DEF Typed, TypeOK
<1> HIDE DEF next
<1>10. \A g \in Finding : Exists(g) => Exists(g)'
  BY <1>4, <1>5, NullsDiffer DEF Exists, Typed, TypeOK
<1>11. Prepared(t)'
  <2>1. Heals(t)' = Heals(t)
    BY <1>8, <1>9 DEF Heals
  <2>2. task[t].todo \subseteq Finding
    BY TaskType DEF Typed
  <2> QED BY <1>2, <1>8, <1>9, <1>10, <2>1, <2>2 DEF Prepared
<1>12. worst' \in [Finding -> 0..MaxSeverity] /\ UNCHANGED <<holds, unaudited, disturbances>>
  BY DEF ResolveWrite, Typed, TypeOK
<1> QED BY <1>2, <1>4, <1>5, <1>8, <1>9, <1>11, <1>12, WriteStep

LEMMA ResolveAuditStep ==
  ASSUME Typed, NEW t \in Task, ResolveAudit(t)
  PROVE  Typed'
<1> DEFINE next == At(t, IF task[t].todo = {} THEN "idle" ELSE "closing")
<1>1. /\ task' = [task EXCEPT ![t] = next]
      /\ task[t].stage = "closed"
      /\ UNCHANGED <<holds, row, unaudited, worst, disturbances>>
  BY DEF ResolveAudit
<1>2. /\ next \in TaskState
      /\ next.stage = "idle" \/ next = [task[t] EXCEPT !.stage = "closing"]
  BY IdleType, TaskType DEF Typed, At, TaskState, Stage, Idle
<1>3. task' = [task EXCEPT ![t] = task'[t]] /\ task'[t] = next
  BY <1>1 DEF Typed, TypeOK
<1> HIDE DEF next
<1>4. Prepared(t)'
  <2>1. CASE next.stage = "idle"
    BY <1>3, <2>1 DEF Prepared
  <2>2. CASE next = [task[t] EXCEPT !.stage = "closing"]
    <3>1. /\ next.stage = "closing" /\ next.todo = task[t].todo /\ next.read = task[t].read
          /\ next.present = task[t].present /\ next.sweep = task[t].sweep
          /\ next.gaps = task[t].gaps
      BY <2>2, TaskType DEF Typed, TaskState
    <3>2. Heals(t)' = Heals(t)
      BY <1>3, <3>1 DEF Heals
    <3>3. Prepared(t)
      BY DEF Typed, AllPrepared
    <3> QED BY <1>1, <1>3, <3>1, <3>2, <3>3 DEF Prepared, Exists
  <2> QED BY <1>2, <2>1, <2>2
<1>5. holds' \subseteq Finding /\ unaudited' \in BOOLEAN /\ disturbances' \in 0..MaxDisturbances
  BY <1>1 DEF Typed, TypeOK
<1> QED BY <1>1, <1>2, <1>3, <1>4, <1>5, QuietStep

LEMMA StatusReadStep ==
  ASSUME Typed, NEW t \in Task, StatusRead(t)
  PROVE  Typed'
<1>1. PICK f \in Finding, status \in Status :
        /\ Exists(f)
        /\ task' = [task EXCEPT ![t] =
             [Idle EXCEPT !.stage = "status_read", !.finding = f, !.status = status,
                          !.read[f] = row[f].json]]
  BY DEF StatusRead
<1>2. row[f].json \in Json
  BY <1>1, RowType DEF Typed
<1> DEFINE next == [Idle EXCEPT !.stage = "status_read", !.finding = f, !.status = status,
                                !.read[f] = row[f].json]
<1>3. next \in TaskState
  BY <1>2, IdleType DEF TaskState, Stage
<1>4. next.stage = "status_read" /\ next.finding = f /\ next.status = status
  BY DEF Idle
<1>5. next.read[f] = row[f].json
  BY DEF Idle
<1>6. task' = [task EXCEPT ![t] = task'[t]] /\ task'[t] = next
  BY <1>1 DEF Typed, TypeOK
<1> HIDE DEF next
<1>7. /\ UNCHANGED <<row, worst>> /\ holds' \subseteq Finding /\ unaudited' \in BOOLEAN
      /\ disturbances' \in 0..MaxDisturbances
  BY IncidentsAssumption DEF StatusRead, Typed, TypeOK
<1>8. Prepared(t)'
  BY <1>1, <1>2, <1>4, <1>5, <1>6, <1>7 DEF Prepared, Exists
<1> QED BY <1>3, <1>6, <1>7, <1>8, QuietStep

LEMMA StatusWriteStep ==
  ASSUME Typed, NEW t \in Task, StatusWrite(t)
  PROVE  Typed'
<1> DEFINE f == task[t].finding
           next == [Idle EXCEPT !.stage = "status_written"]
<1>1. f \in Finding /\ Exists(f) /\ task[t].read[f] \in Json /\ task[t].status \in Status
  BY DEF StatusWrite, Typed, AllPrepared, Prepared
<1>2. row[f] \in Row
  BY <1>1, RowType DEF Typed
<1>3. Marked(row[f], task[t].read[f], task[t].status) \in Row
  BY <1>1, <1>2, MarkedType
<1>4. row' = [row EXCEPT ![f] = Marked(row[f], task[t].read[f], task[t].status)]
  BY DEF StatusWrite
<1>5. next \in TaskState /\ next.stage = "status_written"
  BY DEF Idle, TaskState, Stage
<1>6. task' = [task EXCEPT ![t] = task'[t]] /\ task'[t] = next
  BY DEF StatusWrite, Typed, TypeOK
<1>7. worst' \in [Finding -> 0..MaxSeverity] /\ UNCHANGED <<holds, unaudited, disturbances>>
  BY DEF StatusWrite, Typed, TypeOK
<1> HIDE DEF next, f
<1>8. Prepared(t)'
  BY <1>5, <1>6 DEF Prepared
<1> QED BY <1>1, <1>3, <1>4, <1>5, <1>6, <1>7, <1>8, WriteStep

LEMMA StopStep ==
  ASSUME Typed, NEW t \in Task, StatusAudit(t) \/ Cut(t)
  PROVE  Typed'
<1>1. task' = [task EXCEPT ![t] = task'[t]] /\ task'[t] = Idle
  BY DEF StatusAudit, Cut, Typed, TypeOK
<1>2. Prepared(t)'
  BY <1>1 DEF Prepared, Idle
<1>3. UNCHANGED <<row, worst>> /\ holds' \subseteq Finding
  BY DEF StatusAudit, Cut, Typed, TypeOK
<1>4. unaudited' \in BOOLEAN
  BY Zenon DEF StatusAudit, Cut, Typed, TypeOK
<1>5. disturbances' \in 0..MaxDisturbances
  <2>1. \/ disturbances' = disturbances
        \/ disturbances > 0 /\ disturbances' = disturbances - 1
    BY DEF StatusAudit, Cut
  <2> QED BY <2>1, IncidentsAssumption DEF Typed, TypeOK
<1> QED BY <1>1, <1>2, <1>3, <1>4, <1>5, IdleType, QuietStep

LEMMA TypedStep == Typed /\ [Next]_vars => Typed'
<1> SUFFICES ASSUME Typed, [Next]_vars PROVE Typed'
  OBVIOUS
<1>1. CASE WorldChanges
  <2>1. holds' \subseteq Finding /\ disturbances' \in 0..MaxDisturbances
    BY <1>1, IncidentsAssumption DEF WorldChanges, Typed, TypeOK
  <2> QED BY <1>1, <2>1
          DEF WorldChanges, Typed, TypeOK, AllPrepared, Prepared, Exists, Heals
<1>2. CASE UNCHANGED vars
  BY <1>2 DEF vars, Typed, TypeOK, AllPrepared, Prepared, Exists, Heals
<1>3. ASSUME NEW t \in Task, StartIngest(t) \/ StartSweep(t) PROVE Typed'
  BY <1>3, IngestStep
<1>4. ASSUME NEW t \in Task, StatusRead(t) PROVE Typed'
  BY <1>4, StatusReadStep
<1>5. ASSUME NEW t \in Task, Cut(t) PROVE Typed'
  BY <1>5, StopStep
<1>6. ASSUME NEW t \in Task, Proceed(t) PROVE Typed'
  BY <1>6, UpsertReadStep, UpsertWriteStep, UpsertsDoneStep, ResolveSelectStep,
     ResolveWriteStep, ResolveAuditStep, StatusWriteStep, StopStep DEF Proceed
<1> QED BY <1>1, <1>2, <1>3, <1>4, <1>5, <1>6 DEF Next

LEMMA TypedAlways == Spec => []Typed
<1> QED BY TypedInit, TypedStep, PTL DEF Spec

\* The state always has its type.
THEOREM TypeCorrect == Spec => []TypeOK
<1>1. Typed => TypeOK
  BY DEF Typed
<1> QED BY <1>1, TypedAlways, PTL

-----------------------------------------------------------------------------
\* What each write does to the row it touches.

LEMMA UpsertWriteRow ==
  ASSUME Typed, NEW t \in Task, UpsertWrite(t), NEW f \in Finding
  PROVE  \/ row'[f] = row[f]
         \/ row'[f].status = "open" /\ row'[f].json.status = "open"
<1> DEFINE g == task[t].finding
<1>1. g \in Finding /\ task[t].read[g] \in Json \cup {NoJson}
  BY TaskType DEF UpsertWrite, Typed, AllPrepared, Prepared
<1>2. PICK severity \in Severity :
        row' = [row EXCEPT ![g] = Stored(row[g], Merged(task[t].read[g], t, severity))]
  BY DEF UpsertWrite
<1>3. CASE f = g
  <2>1. row'[f] = Stored(row[f], Merged(task[t].read[f], t, severity))
    BY <1>2, <1>3 DEF Typed, TypeOK
  <2>2. /\ Merged(task[t].read[f], t, severity) \in Json
        /\ Merged(task[t].read[f], t, severity).status = "open"
    BY <1>1, <1>3, MergedType
  <2>3. row[f] \in Row \cup {NoRow}
    BY RowType DEF Typed
  <2> QED BY <2>1, <2>2, <2>3, StoredType
<1>4. CASE f # g
  BY <1>2, <1>4 DEF Typed, TypeOK
<1> QED BY <1>3, <1>4

LEMMA ResolveWriteRow ==
  ASSUME Typed, NEW t \in Task, ResolveWrite(t), NEW f \in Finding
  PROVE  \/ row'[f] = row[f]
         \/ /\ f \in task[t].todo
            /\ row'[f].status = "resolved" /\ row'[f].json.status = "resolved"
<1>1. PICK g \in task[t].todo : row' = [row EXCEPT ![g] = Marked(@, task[t].read[g], "resolved")]
  BY DEF ResolveWrite
<1>2. g \in Finding /\ Prepared(t) /\ task[t].stage = "closing"
  BY TaskType DEF ResolveWrite, Typed, AllPrepared
<1>3. CASE f = g
  <2>1. row'[f] = Marked(row[f], task[t].read[f], "resolved")
    BY <1>1, <1>3 DEF Typed, TypeOK
  <2>2. row[f] \in Row /\ task[t].read[f] \in Json
    BY <1>2, <1>3, RowType DEF Typed, Prepared
  <2> QED BY <1>3, <2>1, <2>2, MarkedType DEF Status
<1>4. CASE f # g
  BY <1>1, <1>4 DEF Typed, TypeOK
<1> QED BY <1>3, <1>4

LEMMA StatusWriteRow ==
  ASSUME Typed, NEW t \in Task, StatusWrite(t), NEW f \in Finding
  PROVE  \/ row'[f] = row[f]
         \/ /\ f = task[t].finding
            /\ row'[f].status = task[t].status /\ row'[f].json.status = task[t].status
<1> DEFINE g == task[t].finding
<1>1. g \in Finding /\ Exists(g) /\ task[t].read[g] \in Json /\ task[t].status \in Status
  BY DEF StatusWrite, Typed, AllPrepared, Prepared
<1>2. row' = [row EXCEPT ![g] = Marked(row[g], task[t].read[g], task[t].status)]
  BY DEF StatusWrite
<1>3. CASE f = g
  <2>1. row'[f] = Marked(row[f], task[t].read[f], task[t].status)
    BY <1>2, <1>3 DEF Typed, TypeOK
  <2> QED BY <1>1, <1>3, <2>1, RowType, MarkedType DEF Typed
<1>4. CASE f # g
  BY <1>2, <1>4 DEF Typed, TypeOK
<1> QED BY <1>3, <1>4

\* No other step writes a row.
LEMMA OnlyWrites ==
  ASSUME [Next]_vars
  PROVE  \/ row' = row
         \/ \E t \in Task : UpsertWrite(t) \/ ResolveWrite(t) \/ StatusWrite(t)
<1>1. ASSUME NEW t \in Task, ~UpsertWrite(t), ~ResolveWrite(t), ~StatusWrite(t),
             StartIngest(t) \/ StartSweep(t) \/ StatusRead(t) \/ Proceed(t) \/ Cut(t)
      PROVE  row' = row
  BY <1>1 DEF Proceed, StartIngest, StartSweep, StatusRead, UpsertRead, UpsertsDone,
              ResolveSelect, ResolveAudit, StatusAudit, Cut
<1>2. CASE WorldChanges \/ UNCHANGED vars
  BY <1>2 DEF WorldChanges, vars
<1> QED BY <1>1, <1>2 DEF Next

-----------------------------------------------------------------------------
\* The theorems.

\* The status column and the JSON never disagree, however handlers overlap and
\* wherever they are cut.
THEOREM StatusTheorem == Spec => []StatusAgrees
<1>1. Init => StatusAgrees
  BY DEF Init, StatusAgrees, Exists
<1>2. Typed /\ StatusAgrees /\ [Next]_vars => StatusAgrees'
  <2> SUFFICES ASSUME Typed, StatusAgrees, [Next]_vars, NEW f \in Finding, Exists(f)'
               PROVE  row'[f].status = row'[f].json.status
    BY DEF StatusAgrees
  <2>1. CASE row'[f] = row[f]
    BY <2>1 DEF StatusAgrees, Exists
  <2>2. CASE row'[f] # row[f]
    <3>1. PICK t \in Task : UpsertWrite(t) \/ ResolveWrite(t) \/ StatusWrite(t)
      BY <2>2, OnlyWrites
    <3> QED BY <2>2, <3>1, UpsertWriteRow, ResolveWriteRow, StatusWriteRow
  <2> QED BY <2>1, <2>2
<1> QED BY <1>1, <1>2, TypedAlways, PTL DEF Spec

\* A handler that is about to close a row was prepared to.
LEMMA ClosureStep == Typed /\ [Next]_vars =>
  \A f \in Finding :
    Exists(f) /\ row[f].status # "resolved" /\ row'[f].status = "resolved" =>
      \E t \in Task :
        LET step == task[t]
        IN  \/ /\ step.stage = "status_read" /\ step.finding = f
               /\ step.status = "resolved"
            \/ /\ step.stage = "closing" /\ f \in step.todo /\ f \notin step.present
               /\ \/ CategoryOf[f] = "exposure" /\ ~step.sweep /\ "listeners" \notin step.gaps
                  \/ /\ CategoryOf[f] = "hygiene" /\ ~step.sweep
                     /\ {"firewall", "security-updates"} \cap step.gaps = {}
                  \/ CategoryOf[f] = "availability" /\ step.sweep
<1> SUFFICES ASSUME Typed, [Next]_vars, NEW f \in Finding,
                    row[f].status # "resolved", row'[f].status = "resolved"
             PROVE  \E t \in Task :
                      \/ /\ task[t].stage = "status_read" /\ task[t].finding = f
                         /\ task[t].status = "resolved"
                      \/ /\ task[t].stage = "closing" /\ f \in task[t].todo
                         /\ f \notin task[t].present
                         /\ \/ /\ CategoryOf[f] = "exposure" /\ ~task[t].sweep
                               /\ "listeners" \notin task[t].gaps
                            \/ /\ CategoryOf[f] = "hygiene" /\ ~task[t].sweep
                               /\ {"firewall", "security-updates"} \cap task[t].gaps = {}
                            \/ CategoryOf[f] = "availability" /\ task[t].sweep
  OBVIOUS
<1>1. PICK t \in Task : UpsertWrite(t) \/ ResolveWrite(t) \/ StatusWrite(t)
  BY OnlyWrites
<1>2. CASE UpsertWrite(t)
  BY <1>2, UpsertWriteRow
<1>3. CASE StatusWrite(t)
  <2>1. f = task[t].finding /\ task[t].status = "resolved"
    BY <1>3, StatusWriteRow
  <2>2. task[t].stage = "status_read"
    BY <1>3 DEF StatusWrite
  <2> QED BY <2>1, <2>2
<1>4. CASE ResolveWrite(t)
  <2>1. f \in task[t].todo
    BY <1>4, ResolveWriteRow
  <2>2. task[t].stage = "closing"
    BY <1>4 DEF ResolveWrite
  <2>3. f \notin task[t].present /\ CategoryOf[f] \in Heals(t)
    BY <2>1, <2>2 DEF Typed, AllPrepared, Prepared
  <2>4. \/ CategoryOf[f] = "availability" /\ task[t].sweep
        \/ /\ CategoryOf[f] = "exposure" /\ ~task[t].sweep
           /\ "listeners" \notin task[t].gaps
        \/ /\ CategoryOf[f] = "hygiene" /\ ~task[t].sweep
           /\ {"firewall", "security-updates"} \cap task[t].gaps = {}
    BY <2>3 DEF Heals, SelfHealingCategories
  <2> QED BY <2>1, <2>2, <2>3, <2>4
<1> QED BY <1>1, <1>2, <1>3, <1>4

\* Nothing is closed but by an operator who asked for it or an evaluation that
\* inspected the surface and did not find the condition.
THEOREM ClosureTheorem == Spec => ClosedOnlyIfInspected
<1> QED BY TypedAlways, ClosureStep, PTL DEF Spec, ClosedOnlyIfInspected

-----------------------------------------------------------------------------
(***************************************************************************)
(* One handler at a time.                                                  *)
(*                                                                         *)
(* With overlapping handlers a row may change between a read and the write *)
(* that rests on it, and the copies of identifier and severity drift       *)
(* apart.  With one handler, wherever it is cut, what it read is still     *)
(* what the row says (Held), so its write moves the row as the atomic      *)
(* ledger does.                                                            *)
(***************************************************************************)
Serial == \A t, u \in Task : t = u

\* What the handler read is still in the row.
Held(t) ==
  /\ task[t].stage \in {"upsert_read", "status_read"} =>
       task[t].read[task[t].finding] = row[task[t].finding].json
  /\ task[t].stage \in {"closing", "closed"} =>
       \A f \in task[t].todo : task[t].read[f] = row[f].json

\* Both copies agree and show the worst severity; of a row that does not exist
\* all of it is empty.
Whole(f) ==
  /\ row[f].id = row[f].json.id
  /\ row[f].severity = row[f].json.severity
  /\ row[f].json.severity = worst[f]

Orderly == Typed /\ (\A t \in Task : Held(t)) /\ (\A f \in Finding : Whole(f))

\* The ledger's view of the rows, as Ledger is instantiated.
View == [f \in Finding |-> [status |-> IF Exists(f) THEN row[f].status ELSE "absent",
                            severity |-> row[f].severity,
                            occurrences |-> row[f].json.occurrences]]

\* The steps that write no row.
LEMMA ReadingStep ==
  ASSUME Serial, Orderly, NEW t \in Task,
         \/ StartIngest(t) \/ StartSweep(t) \/ StatusRead(t) \/ Cut(t)
         \/ UpsertRead(t) \/ UpsertsDone(t) \/ ResolveSelect(t) \/ ResolveAudit(t)
         \/ StatusAudit(t)
  PROVE  /\ UNCHANGED <<row, worst>>
         /\ Held(t)'
<1> USE DEF Orderly, Typed
<1>1. UNCHANGED <<row, worst>>
  BY DEF StartIngest, StartSweep, StatusRead, Cut, UpsertRead, UpsertsDone, ResolveSelect,
         ResolveAudit, StatusAudit
<1>2. CASE StartIngest(t) \/ StartSweep(t)
  <2>1. \A sweep, present, gaps : Started(sweep, present, gaps).stage = "upserting"
    BY DEF Started, Idle
  <2>2. \E sweep, present, gaps : task' = [task EXCEPT ![t] = Started(sweep, present, gaps)]
    BY <1>2 DEF StartIngest, StartSweep
  <2>3. task \in [Task -> TaskState]
    BY DEF TypeOK
  <2>4. task'[t].stage = "upserting"
    BY <2>1, <2>2, <2>3
  <2> QED BY <1>1, <2>4 DEF Held
<1>3. CASE StatusRead(t)
  <2>1. PICK f \in Finding, status \in Status :
          task' = [task EXCEPT ![t] =
            [Idle EXCEPT !.stage = "status_read", !.finding = f, !.status = status,
                         !.read[f] = row[f].json]]
    BY <1>3 DEF StatusRead
  <2>2. task'[t].stage = "status_read" /\ task'[t].finding = f /\ task'[t].read[f] = row[f].json
    BY <2>1 DEF Idle, TypeOK
  <2> QED BY <1>1, <2>2 DEF Held
<1>4. CASE Cut(t) \/ StatusAudit(t)
  <2>1. task'[t].stage = "idle"
    BY <1>4 DEF Cut, StatusAudit, Idle, TypeOK
  <2> QED BY <1>1, <2>1 DEF Held
<1>5. CASE UpsertRead(t)
  <2>1. PICK f \in task[t].todo :
          task' = [task EXCEPT ![t].stage = "upsert_read", ![t].todo = @ \ {f},
                               ![t].finding = f, ![t].read[f] = row[f].json]
    BY <1>5 DEF UpsertRead
  <2>2. f \in Finding
    BY TaskType
  <2>3. task'[t].stage = "upsert_read" /\ task'[t].finding = f /\ task'[t].read[f] = row[f].json
    BY <2>1, <2>2 DEF TypeOK, TaskState
  <2> QED BY <1>1, <2>3 DEF Held
<1>6. CASE UpsertsDone(t)
  <2>1. task'[t].stage \in {"idle", "resolving"}
    BY <1>6, TaskType DEF UpsertsDone, At, AfterUpserts, Idle, TypeOK, TaskState
  <2> QED BY <1>1, <2>1 DEF Held
<1>7. CASE ResolveSelect(t)
  <2> DEFINE picked == [f \in Finding |-> IF f \in Unresolved(t) THEN row[f].json ELSE NoJson]
  <2>1. Unresolved(t) \subseteq Finding
    BY DEF Unresolved
  <2>2. task'[t].stage = "idle" \/ /\ task'[t].stage = "closing"
                                   /\ task'[t].todo = Unresolved(t)
                                   /\ task'[t].read = picked
    <3> HIDE DEF picked
    <3>1. task' = [task EXCEPT ![t] = IF Unresolved(t) = {} THEN Idle
                                      ELSE [@ EXCEPT !.stage = "closing",
                                                     !.todo = Unresolved(t),
                                                     !.read = picked]]
      BY <1>7 DEF ResolveSelect, picked
    <3> QED BY <3>1 DEF Idle, TypeOK, TaskState
  <2> QED BY <1>1, <2>1, <2>2 DEF Held
<1>8. CASE ResolveAudit(t)
  <2>1. \/ task'[t].stage = "idle"
        \/ /\ task'[t].stage = "closing"
           /\ task'[t].todo = task[t].todo /\ task'[t].read = task[t].read
    BY <1>8 DEF ResolveAudit, At, Idle, TypeOK, TaskState
  <2> QED BY <1>1, <1>8, <2>1 DEF Held, ResolveAudit
<1> QED BY <1>1, <1>2, <1>3, <1>4, <1>5, <1>6, <1>7, <1>8

\* A row that is written becomes r; every other row, and its share of the view,
\* stays.
LEMMA RowWritten ==
  ASSUME Typed, NEW f \in Finding, NEW r \in Row, row' = [row EXCEPT ![f] = r]
  PROVE  /\ row'[f] = r
         /\ \A g \in Finding : g # f => row'[g] = row[g]
         /\ View' = [View EXCEPT ![f] = [status |-> r.status, severity |-> r.severity,
                                         occurrences |-> r.json.occurrences]]
<1>1. row'[f] = r /\ \A g \in Finding : g # f => row'[g] = row[g]
  BY DEF Typed, TypeOK
<1>2. r # NoRow
  BY NullsDiffer
<1> QED BY <1>1, <1>2 DEF View, Exists

\* What is in the view of a row.
LEMMA ViewOf ==
  ASSUME Typed, NEW f \in Finding
  PROVE  /\ row[f] = NoRow => View[f] = Ledger!Absent
         /\ Exists(f) => /\ View[f] \in Ledger!Entry
                         /\ View[f] = [status |-> row[f].status, severity |-> row[f].severity,
                                       occurrences |-> row[f].json.occurrences]
<1>1. CASE row[f] = NoRow
  BY <1>1 DEF View, Exists, NoRow, NoJson, Ledger!Absent
<1>2. CASE Exists(f)
  <2>1. row[f] \in Row /\ row[f].json \in Json
    BY <1>2, RowType DEF Typed
  <2>2. View[f] = [status |-> row[f].status, severity |-> row[f].severity,
                   occurrences |-> row[f].json.occurrences]
    BY <1>2 DEF View
  <2>3. /\ row[f].status \in Ledger!Status
        /\ row[f].severity \in 1..MaxSeverity
        /\ row[f].json.occurrences \in 1..MaxOccurrences
    BY <2>1 DEF Row, Json, Status, Severity, Ledger!Status
  <2> QED BY <1>2, <2>2, <2>3 DEF Ledger!Entry, Exists
<1> QED BY <1>1, <1>2 DEF Exists

\* A row that changes is one of the ledger's operations on it.
Observed(f, s) ==
  View' = [View EXCEPT ![f] =
    [status |-> "open",
     severity |-> IF s > View[f].severity THEN s ELSE View[f].severity,
     occurrences |-> IF View[f].occurrences < MaxOccurrences
                     THEN View[f].occurrences + 1 ELSE MaxOccurrences]]

LEMMA UpsertWriteSerial ==
  ASSUME Orderly, NEW t \in Task, UpsertWrite(t)
  PROVE  /\ \A f \in Finding : Whole(f)'
         /\ Held(t)'
         /\ \E f \in Finding, s \in Severity : Observed(f, s)
<1> DEFINE f == task[t].finding
<1>1. f \in Finding /\ task[t].read[f] = row[f].json /\ task[t].stage = "upsert_read"
  BY DEF UpsertWrite, Orderly, Held, Typed, AllPrepared, Prepared
<1>2. PICK s \in Severity :
        /\ row' = [row EXCEPT ![f] = Stored(@, Merged(task[t].read[f], t, s))]
        /\ worst' = [worst EXCEPT ![f] = IF s > @ THEN s ELSE @]
  BY DEF UpsertWrite
<1>3. task'[t].stage = "upserting"
  BY DEF UpsertWrite, Orderly, Typed, TypeOK, TaskState
<1> HIDE DEF f
<1> DEFINE merged == Merged(row[f].json, t, s)
           r == Stored(row[f], merged)
<1>4. row[f] \in Row \cup {NoRow} /\ merged \in Json /\ r \in Row /\ merged.status = "open"
  BY <1>1, RowType, MergedType, StoredType DEF Orderly, Typed
<1>5. row' = [row EXCEPT ![f] = r]
  BY <1>1, <1>2 DEF Orderly, Typed, TypeOK
<1>6. worst'[f] = (IF s > worst[f] THEN s ELSE worst[f])
      /\ \A g \in Finding : g # f => worst'[g] = worst[g]
  BY <1>1, <1>2 DEF Orderly, Typed, TypeOK
<1>7. /\ r.json = merged /\ r.status = "open" /\ r.severity = merged.severity
      /\ r.id = IF row[f] = NoRow THEN merged.id ELSE row[f].id
  BY <1>4 DEF Stored
<1>8. /\ r.id = merged.id
      /\ r.severity = (IF s > row[f].severity THEN s ELSE row[f].severity)
      /\ Exists(f) => merged.occurrences = (IF row[f].json.occurrences < MaxOccurrences
                                            THEN row[f].json.occurrences + 1 ELSE MaxOccurrences)
      /\ row[f] = NoRow => merged.occurrences = 1
  <2>1. CASE row[f] = NoRow
    <3>1. row[f].json = NoJson /\ row[f].severity = 0
      BY <2>1 DEF NoRow
    <3>2. merged.severity = s /\ merged.occurrences = 1
      BY <3>1 DEF Merged
    <3>3. s > 0
      BY DEF Severity
    <3> QED BY <1>7, <2>1, <3>1, <3>2, <3>3 DEF Exists
  <2>2. CASE Exists(f)
    <3>1. row[f].json \in Json /\ row[f].json # NoJson
      BY <1>1, <2>2, RowType, NullsDiffer DEF Orderly, Typed
    <3>2. /\ row[f].id = row[f].json.id
          /\ row[f].severity = row[f].json.severity
      BY <1>1 DEF Orderly, Whole
    <3>3. /\ merged.id = row[f].json.id
          /\ merged.severity = (IF s > row[f].json.severity THEN s ELSE row[f].json.severity)
          /\ merged.occurrences = (IF row[f].json.occurrences < MaxOccurrences
                                   THEN row[f].json.occurrences + 1 ELSE row[f].json.occurrences)
      BY <3>1 DEF Merged, Json
    <3>4. row[f].json.occurrences \in 1..MaxOccurrences /\ MaxOccurrences \in Nat
      BY <3>1, IncidentsAssumption DEF Json
    <3>5. ~(row[f].json.occurrences < MaxOccurrences) => row[f].json.occurrences = MaxOccurrences
      BY <3>4
    <3> QED BY <1>7, <2>2, <3>2, <3>3, <3>5 DEF Exists
  <2> QED BY <2>1, <2>2 DEF Exists
<1> HIDE DEF merged, r
<1>9. ASSUME NEW g \in Finding PROVE Whole(g)'
  <2>1. Whole(g) /\ Whole(f)
    BY <1>1 DEF Orderly
  <2>2. CASE g = f
    <3>1. row'[f] = r
      BY <1>1, <1>4, <1>5, RowWritten DEF Orderly
    <3>2. r.json.severity = worst'[f]
      BY <1>6, <1>7, <1>8, <2>1 DEF Whole
    <3> QED BY <1>7, <1>8, <2>2, <3>1, <3>2 DEF Whole
  <2>3. CASE g # f
    BY <1>1, <1>4, <1>5, <1>6, <2>1, <2>3, RowWritten DEF Orderly, Whole
  <2> QED BY <2>2, <2>3
<1>10. Observed(f, s)
  <2>1. View' = [View EXCEPT ![f] = [status |-> r.status, severity |-> r.severity,
                                     occurrences |-> r.json.occurrences]]
    BY <1>1, <1>4, <1>5, RowWritten DEF Orderly
  <2>2. View[f].severity = row[f].severity
    BY <1>1 DEF View
  <2>3. r.json.occurrences = (IF View[f].occurrences < MaxOccurrences
                              THEN View[f].occurrences + 1 ELSE MaxOccurrences)
    <3>1. CASE row[f] = NoRow
      <4>1. View[f].occurrences = 0
        BY <1>1, <3>1 DEF View, NoRow, NoJson
      <4> QED BY <1>7, <1>8, <3>1, <4>1, IncidentsAssumption
    <3>2. CASE Exists(f)
      <4>1. View[f].occurrences = row[f].json.occurrences
        BY <1>1 DEF View
      <4> QED BY <1>7, <1>8, <3>2, <4>1
    <3> QED BY <3>1, <3>2 DEF Exists
  <2> QED BY <1>7, <1>8, <2>1, <2>2, <2>3 DEF Observed
<1>11. Held(t)'
  BY <1>3 DEF Held
<1> QED BY <1>1, <1>9, <1>10, <1>11

\* A status that is written over what was read moves nothing but the status.
LEMMA MarkedWhole ==
  ASSUME Orderly, NEW f \in Finding, Exists(f), NEW status \in Status,
         row' = [row EXCEPT ![f] = Marked(row[f], row[f].json, status)],
         worst' = worst
  PROVE  /\ \A g \in Finding : Whole(g)'
         /\ \A g \in Finding : g # f => row'[g] = row[g]
         /\ View[f] \in Ledger!Entry
         /\ View' = [View EXCEPT ![f].status = status]
<1> DEFINE r == Marked(row[f], row[f].json, status)
<1>1. row[f] \in Row /\ row[f].json \in Json
  BY RowType DEF Orderly, Typed
<1>2. r \in Row
  BY <1>1, MarkedType
<1>3. /\ r.id = row[f].id /\ r.severity = row[f].severity /\ r.status = status
      /\ r.json.id = row[f].json.id /\ r.json.severity = row[f].json.severity
      /\ r.json.occurrences = row[f].json.occurrences
  BY <1>1 DEF Marked, Row, Json
<1> HIDE DEF r
<1>4. /\ row'[f] = r /\ \A g \in Finding : g # f => row'[g] = row[g]
      /\ View' = [View EXCEPT ![f] = [status |-> r.status, severity |-> r.severity,
                                      occurrences |-> r.json.occurrences]]
  BY <1>2, RowWritten DEF Orderly, r
<1>5. ASSUME NEW g \in Finding PROVE Whole(g)'
  <2>1. Whole(g)
    BY DEF Orderly
  <2> QED BY <1>3, <1>4, <2>1 DEF Whole
<1>6. /\ View[f] \in Ledger!Entry
      /\ View[f] = [status |-> row[f].status, severity |-> row[f].severity,
                    occurrences |-> row[f].json.occurrences]
  BY ViewOf DEF Orderly
<1>7. View' = [View EXCEPT ![f].status = status]
  <2> DEFINE entry == [status |-> status, severity |-> row[f].severity,
                       occurrences |-> row[f].json.occurrences]
  <2>1. [View[f] EXCEPT !.status = status] = entry
    BY <1>6
  <2>2. View' = [View EXCEPT ![f] = entry]
    BY <1>3, <1>4
  <2> HIDE DEF entry
  <2> QED BY <2>1, <2>2
<1> QED BY <1>4, <1>5, <1>6, <1>7

Closed(f) == /\ View[f] \in Ledger!Entry
             /\ View' = [View EXCEPT ![f].status = "resolved"]

Changed(f, status) == /\ View[f] \in Ledger!Entry
                      /\ View' = [View EXCEPT ![f].status = status]

LEMMA ResolveWriteSerial ==
  ASSUME Orderly, NEW t \in Task, ResolveWrite(t)
  PROVE  /\ worst' = worst /\ \A f \in Finding : Whole(f)'
         /\ Held(t)'
         /\ \E f \in SelfHealing : Closed(f)
<1>1. PICK f \in task[t].todo :
        /\ row' = [row EXCEPT ![f] = Marked(@, task[t].read[f], "resolved")]
        /\ task' = [task EXCEPT ![t].stage = "closed", ![t].todo = @ \ {f},
                                ![t].read[f] = NoJson]
  BY DEF ResolveWrite
<1>2. /\ f \in Finding /\ task[t].stage = "closing" /\ Exists(f)
      /\ task[t].read[f] = row[f].json /\ CategoryOf[f] \in Heals(t)
  BY TaskType DEF ResolveWrite, Orderly, Held, Typed, AllPrepared, Prepared
<1>3. row' = [row EXCEPT ![f] = Marked(row[f], row[f].json, "resolved")] /\ worst' = worst
  BY <1>1, <1>2 DEF ResolveWrite, Orderly, Typed, TypeOK
<1>4. /\ \A g \in Finding : Whole(g)'
      /\ \A g \in Finding : g # f => row'[g] = row[g]
      /\ Closed(f)
  BY <1>2, <1>3, MarkedWhole DEF Closed, Status
<1>5. f \in SelfHealing
  BY <1>2 DEF Heals, SelfHealingCategories, SelfHealing, Of
<1>6. Held(t)'
  <2>1. /\ task'[t].stage = "closed" /\ task'[t].todo = task[t].todo \ {f}
        /\ \A g \in Finding : g # f => task'[t].read[g] = task[t].read[g]
    BY <1>1 DEF Orderly, Typed, TypeOK, TaskState
  <2>2. task[t].todo \subseteq Finding
    BY TaskType DEF Orderly, Typed
  <2> QED BY <1>2, <1>4, <2>1, <2>2 DEF Orderly, Held
<1> QED BY <1>3, <1>4, <1>5, <1>6

LEMMA StatusWriteSerial ==
  ASSUME Orderly, NEW t \in Task, StatusWrite(t)
  PROVE  /\ worst' = worst /\ \A f \in Finding : Whole(f)'
         /\ Held(t)'
         /\ \E f \in Finding, status \in Status : Changed(f, status)
<1> DEFINE f == task[t].finding
<1>1. /\ f \in Finding /\ Exists(f) /\ task[t].status \in Status
      /\ task[t].read[f] = row[f].json
  BY DEF StatusWrite, Orderly, Held, Typed, AllPrepared, Prepared
<1>2. /\ row' = [row EXCEPT ![f] = Marked(row[f], row[f].json, task[t].status)]
      /\ worst' = worst
  BY <1>1 DEF StatusWrite
<1>3. task'[t].stage = "status_written"
  BY DEF StatusWrite, Idle, Orderly, Typed, TypeOK
<1> HIDE DEF f
<1>4. (\A g \in Finding : Whole(g)') /\ Changed(f, task[t].status)
  BY <1>1, <1>2, MarkedWhole DEF Changed
<1> QED BY <1>1, <1>2, <1>3, <1>4 DEF Held

\* With one handler, what holds after its step holds of all.
LEMMA OrderlyStep ==
  ASSUME Serial, Orderly, [Next]_vars
  PROVE  /\ Orderly'
         /\ \/ View' = View
            \/ \E f \in Finding, s \in Severity : Observed(f, s)
            \/ \E f \in SelfHealing : Closed(f)
            \/ \E f \in Finding, status \in Status : Changed(f, status)
<1>1. Typed'
  BY TypedStep DEF Orderly
<1>2. ASSUME row' = row PROVE View' = View
  BY <1>2 DEF View, Exists
<1>3. CASE WorldChanges \/ UNCHANGED vars
  <2>1. UNCHANGED <<row, worst, task>>
    BY <1>3 DEF WorldChanges, vars
  <2> QED BY <1>1, <1>2, <2>1 DEF Orderly, Held, Whole
<1>4. ASSUME NEW t \in Task,
             \/ StartIngest(t) \/ StartSweep(t) \/ StatusRead(t) \/ Cut(t)
             \/ UpsertRead(t) \/ UpsertsDone(t) \/ ResolveSelect(t) \/ ResolveAudit(t)
             \/ StatusAudit(t)
      PROVE  Orderly' /\ View' = View
  <2>1. UNCHANGED <<row, worst>> /\ Held(t)'
    BY <1>4, ReadingStep
  <2>2. \A u \in Task : Held(u)'
    BY <2>1 DEF Serial
  <2>3. \A f \in Finding : Whole(f)'
    BY <2>1 DEF Orderly, Whole
  <2> QED BY <1>1, <1>2, <2>1, <2>2, <2>3 DEF Orderly
<1>5. ASSUME NEW t \in Task, UpsertWrite(t)
      PROVE  Orderly' /\ \E f \in Finding, s \in Severity : Observed(f, s)
  <2>1. \A u \in Task : Held(u)'
    BY <1>5, UpsertWriteSerial DEF Serial
  <2> QED BY <1>1, <1>5, <2>1, UpsertWriteSerial DEF Orderly
<1>6. ASSUME NEW t \in Task, ResolveWrite(t)
      PROVE  Orderly' /\ \E f \in SelfHealing : Closed(f)
  <2>1. \A u \in Task : Held(u)'
    BY <1>6, ResolveWriteSerial DEF Serial
  <2> QED BY <1>1, <1>6, <2>1, ResolveWriteSerial DEF Orderly
<1>7. ASSUME NEW t \in Task, StatusWrite(t)
      PROVE  Orderly' /\ \E f \in Finding, status \in Status : Changed(f, status)
  <2>1. \A u \in Task : Held(u)'
    BY <1>7, StatusWriteSerial DEF Serial
  <2> QED BY <1>1, <1>7, <2>1, StatusWriteSerial DEF Orderly
<1> QED BY <1>3, <1>4, <1>5, <1>6, <1>7 DEF Next, Proceed

LEMMA OrderlyAlways == ASSUME Serial PROVE Spec => []Orderly
<1>1. Init => Orderly
  <2>1. Init => \A t \in Task : Held(t)
    BY DEF Init, Held, Idle
  <2>2. Init => \A f \in Finding : Whole(f)
    BY DEF Init, Whole, NoRow, NoJson
  <2> QED BY <2>1, <2>2, TypedInit DEF Orderly
<1>2. Orderly /\ [Next]_vars => Orderly'
  BY OrderlyStep
<1> QED BY <1>1, <1>2, PTL DEF Spec

\* With one handler at a time, however many findings and wherever it is cut, the
\* columns say what the JSON says (upsert_incident, storage.rs:437-497).
THEOREM ColumnsTheorem == ASSUME Serial PROVE Spec => []ColumnsMatchJson
<1>1. Orderly => ColumnsMatchJson
  BY DEF Orderly, Whole, ColumnsMatchJson
<1> QED BY <1>1, OrderlyAlways, PTL

\* With one handler at a time the worst severity ever reported is kept
\* (upsert_incident, storage.rs:434-436).
THEOREM SeverityTheorem == ASSUME Serial PROVE Spec => []WorstSeverityKept
<1>1. Orderly => WorstSeverityKept
  BY DEF Orderly, Whole, WorstSeverityKept
<1> QED BY <1>1, OrderlyAlways, PTL

\* With one handler at a time the statements of the store implement the ledger
\* in which every operation is one step.
THEOREM RefinementTheorem == ASSUME Serial PROVE Spec => RefinesLedger
<1>1. Init => Ledger!Init
  BY DEF Init, Exists, NoRow, NoJson, Ledger!Init, Ledger!Absent
<1>2. Orderly /\ [Next]_vars => [Ledger!Next]_View
  <2> SUFFICES ASSUME Orderly, [Next]_vars PROVE Ledger!Next \/ View' = View
    OBVIOUS
  <2>1. ASSUME NEW f \in Finding, NEW s \in Severity, Observed(f, s) PROVE Ledger!Observe(f, s)
    BY <2>1 DEF Observed, View, Ledger!Observe
  <2>2. ASSUME NEW f \in SelfHealing, Closed(f) PROVE Ledger!Close(f) /\ f \in Finding
    BY <2>2 DEF Closed, View, Ledger!Close, SelfHealing, Of
  <2>3. ASSUME NEW f \in Finding, NEW status \in Status, Changed(f, status)
        PROVE  Ledger!Change(f, status)
    BY <2>3 DEF Changed, View, Ledger!Change
  <2>4. Severity = 1..MaxSeverity /\ Status = Ledger!Status
    BY DEF Severity, Status, Ledger!Status
  <2>5. \/ View' = View
        \/ \E f \in Finding, s \in Severity : Ledger!Observe(f, s)
        \/ \E f \in Finding : Ledger!Close(f)
        \/ \E f \in Finding, status \in Status : Ledger!Change(f, status)
    BY <2>1, <2>2, <2>3, OrderlyStep
  <2> QED BY <2>4, <2>5 DEF Ledger!Next
<1> QED BY <1>1, <1>2, OrderlyAlways, PTL DEF Spec, RefinesLedger, Ledger!Spec, View

-----------------------------------------------------------------------------
(***************************************************************************)
(* Convergence, from what fairness and the bound give (WorldSettles,       *)
(* StaleRunsOut and EvaluationsComplete, which TLC finds true of           *)
(* FairSpec).                                                              *)
(*                                                                         *)
(* Once asset and operators have settled, handlers that are all current    *)
(* stay so: what one of them writes agrees with what is true (RowsFollow), *)
(* so that it takes nothing from what another has stored or has on its     *)
(* list.  The next evaluation of a finding that completes settles it.      *)
(***************************************************************************)

\* What a handler stores next is among what it found.
Listed(t) ==
  /\ task[t].stage \in {"upserting", "upsert_read"} => task[t].todo \subseteq task[t].present
  /\ task[t].stage = "upsert_read" => task[t].finding \in task[t].present

AllListed == \A t \in Task : Listed(t)
AllCurrent == \A t \in Task : Current(t)

\* A handler is where it was, or took a step of its own.
LEMMA OwnSteps ==
  ASSUME Typed, [Next]_vars, NEW t \in Task
  PROVE  \/ task'[t] = task[t]
         \/ StartIngest(t) \/ StartSweep(t) \/ StatusRead(t) \/ Proceed(t) \/ Cut(t)
<1>1. CASE WorldChanges \/ UNCHANGED vars
  BY <1>1 DEF WorldChanges, vars
<1>2. ASSUME NEW u \in Task, u # t,
             StartIngest(u) \/ StartSweep(u) \/ StatusRead(u) \/ Proceed(u) \/ Cut(u)
      PROVE  task'[t] = task[t]
  BY <1>2 DEF StartIngest, StartSweep, StatusRead, Proceed, UpsertRead, UpsertWrite, UpsertsDone,
              ResolveSelect, ResolveWrite, ResolveAudit, StatusWrite, StatusAudit, Cut, Typed, TypeOK
<1> QED BY <1>1, <1>2 DEF Next

\* Where a step of its own takes it.
LEMMA Begins ==
  ASSUME Typed, NEW t \in Task, StartIngest(t) \/ StartSweep(t)
  PROVE  /\ task'[t].stage = "upserting" /\ task'[t].todo = task'[t].present
         /\ task'[t].present \subseteq holds
         /\ \A f \in holds : CategoryOf[f] \in Heals(t)' => f \in task'[t].present
<1>1. CASE StartIngest(t)
  <2>1. PICK gaps \in GapSets : \E present \in SUBSET (holds \ Of("availability")) :
          /\ \A f \in holds : CategoryOf[f] \in SelfHealingCategories(gaps) => f \in present
          /\ task' = [task EXCEPT ![t] = Started(FALSE, present, gaps)]
    BY <1>1 DEF StartIngest
  <2>2. PICK present \in SUBSET (holds \ Of("availability")) :
          /\ \A f \in holds : CategoryOf[f] \in SelfHealingCategories(gaps) => f \in present
          /\ task' = [task EXCEPT ![t] = Started(FALSE, present, gaps)]
    BY <2>1
  <2>3. /\ task'[t].stage = "upserting" /\ task'[t].todo = present /\ task'[t].present = present
        /\ task'[t].sweep = FALSE /\ task'[t].gaps = gaps
    BY <2>2 DEF Started, Idle, Typed, TypeOK
  <2>4. Heals(t)' = SelfHealingCategories(gaps)
    BY <2>3 DEF Heals
  <2> QED BY <2>2, <2>3, <2>4
<1>2. CASE StartSweep(t)
  <2>1. task' = [task EXCEPT ![t] = Started(TRUE, holds \cap Of("availability"), {})]
    BY <1>2 DEF StartSweep
  <2>2. /\ task'[t].stage = "upserting" /\ task'[t].todo = holds \cap Of("availability")
        /\ task'[t].present = holds \cap Of("availability") /\ task'[t].sweep = TRUE
    BY <2>1 DEF Started, Idle, Typed, TypeOK
  <2>3. Heals(t)' = {"availability"}
    BY <2>2 DEF Heals
  <2> QED BY <2>2, <2>3 DEF Of, Typed, TypeOK
<1> QED BY <1>1, <1>2

\* A handler that goes on keeps what it found and what it may close.
LEMMA GoesOn ==
  ASSUME Typed, NEW t \in Task, Proceed(t), task[t].stage # "status_read"
  PROVE  \/ task'[t] = Idle
         \/ /\ UNCHANGED <<task[t].present, Heals(t)>>
            /\ \/ /\ UpsertRead(t) /\ task'[t].stage = "upsert_read"
                  /\ task'[t].todo = task[t].todo \ {task'[t].finding}
                  /\ task'[t].finding \in task[t].todo
               \/ UpsertWrite(t) /\ task'[t].stage = "upserting" /\ task'[t].todo = task[t].todo
               \/ UpsertsDone(t) /\ task'[t].stage = "resolving"
               \/ ResolveSelect(t) /\ task'[t].stage = "closing" /\ task'[t].todo = Unresolved(t)
               \/ ResolveWrite(t) /\ task'[t].stage = "closed"
               \/ ResolveAudit(t) /\ task'[t].stage = "closing" /\ task'[t].todo = task[t].todo
<1> USE TaskType DEF Typed, TaskState, TypeOK
<1>1. CASE UpsertRead(t)
  <2>1. PICK f \in task[t].todo :
          task' = [task EXCEPT ![t].stage = "upsert_read", ![t].todo = @ \ {f},
                               ![t].finding = f, ![t].read[f] = row[f].json]
    BY <1>1 DEF UpsertRead
  <2>2. /\ task'[t].stage = "upsert_read" /\ task'[t].todo = task[t].todo \ {f}
        /\ task'[t].finding = f /\ task'[t].present = task[t].present
        /\ task'[t].sweep = task[t].sweep /\ task'[t].gaps = task[t].gaps
    BY <2>1
  <2> QED BY <1>1, <2>2 DEF Heals
<1>2. CASE UpsertWrite(t)
  <2>1. task' = [task EXCEPT ![t].stage = "upserting", ![t].finding = NoFinding,
                             ![t].read[task[t].finding] = NoJson]
    BY <1>2 DEF UpsertWrite
  <2>2. /\ task'[t].stage = "upserting" /\ task'[t].todo = task[t].todo
        /\ task'[t].present = task[t].present
        /\ task'[t].sweep = task[t].sweep /\ task'[t].gaps = task[t].gaps
    BY <2>1
  <2> QED BY <1>2, <2>2 DEF Heals
<1>3. CASE UpsertsDone(t)
  BY <1>3 DEF UpsertsDone, At, AfterUpserts, Heals
<1>4. CASE ResolveSelect(t)
  <2>1. CASE Unresolved(t) = {}
    BY <1>4, <2>1 DEF ResolveSelect
  <2>2. CASE Unresolved(t) # {}
    <3> DEFINE picked == [f \in Finding |-> IF f \in Unresolved(t) THEN row[f].json ELSE NoJson]
    <3>1. task' = [task EXCEPT ![t] = [@ EXCEPT !.stage = "closing", !.todo = Unresolved(t),
                                                !.read = picked]]
      BY <1>4, <2>2 DEF ResolveSelect
    <3> HIDE DEF picked
    <3>2. /\ task'[t].stage = "closing" /\ task'[t].todo = Unresolved(t)
          /\ task'[t].present = task[t].present
          /\ task'[t].sweep = task[t].sweep /\ task'[t].gaps = task[t].gaps
      BY <3>1
    <3> QED BY <1>4, <3>2 DEF Heals
  <2> QED BY <2>1, <2>2
<1>5. CASE ResolveWrite(t)
  <2>1. PICK f \in task[t].todo :
          task' = [task EXCEPT ![t].stage = "closed", ![t].todo = @ \ {f}, ![t].read[f] = NoJson]
    BY <1>5 DEF ResolveWrite
  <2>2. /\ task'[t].stage = "closed" /\ task'[t].present = task[t].present
        /\ task'[t].sweep = task[t].sweep /\ task'[t].gaps = task[t].gaps
    BY <2>1
  <2> QED BY <1>5, <2>2 DEF Heals
<1>6. CASE ResolveAudit(t)
  BY <1>6 DEF ResolveAudit, At, Heals
<1>7. CASE StatusAudit(t)
  BY <1>7 DEF StatusAudit
<1> QED BY <1>1, <1>2, <1>3, <1>4, <1>5, <1>6, <1>7 DEF Proceed, StatusWrite

LEMMA ListedAlways == Spec => []AllListed
<1>1. Init => AllListed
  BY DEF Init, AllListed, Listed, Idle
<1>2. Typed /\ AllListed /\ [Next]_vars => AllListed'
  <2> SUFFICES ASSUME Typed, AllListed, [Next]_vars, NEW t \in Task PROVE Listed(t)'
    BY DEF AllListed
  <2>1. Listed(t)
    BY DEF AllListed
  <2>2. CASE task'[t] = task[t]
    BY <2>1, <2>2 DEF Listed
  <2>3. CASE StartIngest(t) \/ StartSweep(t)
    BY <2>3, Begins DEF Listed
  <2>4. CASE StatusRead(t)
    BY <2>4 DEF StatusRead, Listed, Idle, Typed, TypeOK
  <2>5. CASE task'[t] = Idle
    BY <2>5 DEF Listed, Idle
  <2>6. CASE Cut(t)
    BY <2>5, <2>6 DEF Cut, Typed, TypeOK
  <2>7. CASE Proceed(t) /\ task[t].stage # "status_read"
    <3>1. CASE UpsertRead(t)
      BY <2>1, <2>5, <2>7, <3>1, GoesOn DEF Listed, UpsertRead
    <3>2. CASE UpsertWrite(t)
      BY <2>1, <2>5, <2>7, <3>2, GoesOn DEF Listed, UpsertWrite
    <3> QED BY <2>5, <2>7, <3>1, <3>2, GoesOn DEF Listed
  <2>8. CASE Proceed(t) /\ task[t].stage = "status_read"
    <3>1. StatusWrite(t)
      BY <2>8 DEF Proceed, UpsertRead, UpsertWrite, UpsertsDone, ResolveSelect, ResolveWrite,
                  ResolveAudit, StatusAudit
    <3> QED BY <3>1 DEF StatusWrite, Listed, Idle, Typed, TypeOK
  <2> QED BY <2>2, <2>3, <2>4, <2>6, <2>7, <2>8, OwnSteps
<1> QED BY <1>1, <1>2, TypedAlways, PTL DEF Spec

\* upsert_incident leaves its row open.
LEMMA UpsertOpens ==
  ASSUME Typed, NEW t \in Task, UpsertWrite(t)
  PROVE  row'[task[t].finding].status = "open"
<1> DEFINE g == task[t].finding
<1>1. g \in Finding /\ task[t].read[g] \in Json \cup {NoJson}
  BY TaskType DEF UpsertWrite, Typed, AllPrepared, Prepared
<1>2. PICK severity \in Severity :
        row' = [row EXCEPT ![g] = Stored(row[g], Merged(task[t].read[g], t, severity))]
  BY DEF UpsertWrite
<1>3. row'[g] = Stored(row[g], Merged(task[t].read[g], t, severity))
  BY <1>1, <1>2 DEF Typed, TypeOK
<1>4. Merged(task[t].read[g], t, severity) \in Json /\ Merged(task[t].read[g], t, severity).status = "open"
  BY <1>1, MergedType
<1>5. row[g] \in Row \cup {NoRow}
  BY <1>1, RowType DEF Typed
<1> HIDE DEF g
<1> QED BY <1>3, <1>4, <1>5, StoredType DEF g

\* Of a row that auto_resolve updates, the list loses the row.
LEMMA ResolveWrites ==
  ASSUME Typed, NEW t \in Task, ResolveWrite(t), NEW f \in Finding
  PROVE  \/ row'[f].status = "resolved"
         \/ row'[f] = row[f] /\ (f \in task[t].todo => f \in task'[t].todo)
<1>1. PICK g \in task[t].todo :
        /\ row' = [row EXCEPT ![g] = Marked(@, task[t].read[g], "resolved")]
        /\ task' = [task EXCEPT ![t].stage = "closed", ![t].todo = @ \ {g}, ![t].read[g] = NoJson]
  BY DEF ResolveWrite
<1>2. g \in Finding /\ Prepared(t) /\ task[t].stage = "closing"
  BY TaskType DEF ResolveWrite, Typed, AllPrepared
<1>3. CASE f = g
  <2>1. row'[f] = Marked(row[f], task[t].read[f], "resolved")
    BY <1>1, <1>3 DEF Typed, TypeOK
  <2>2. row[f] \in Row /\ task[t].read[f] \in Json
    BY <1>2, <1>3, RowType DEF Typed, Prepared
  <2> QED BY <1>3, <2>1, <2>2, MarkedType DEF Status
<1>4. CASE f # g
  <2>1. row'[f] = row[f]
    BY <1>1, <1>4 DEF Typed, TypeOK
  <2>2. task'[t].todo = task[t].todo \ {g}
    BY <1>1, TaskType DEF Typed, TypeOK, TaskState
  <2> QED BY <1>4, <2>1, <2>2
<1> QED BY <1>3, <1>4

\* What current handlers write agrees with what is true.
LEMMA RowsFollow ==
  ASSUME Typed, AllListed, AllCurrent, [Next]_vars, NEW f \in Finding
  PROVE  \/ row'[f] = row[f]
         \/ f \in holds /\ row'[f].status = "open"
         \/ f \notin holds /\ row'[f].status = "resolved"
<1> SUFFICES ASSUME row'[f] # row[f]
             PROVE  \/ f \in holds /\ row'[f].status = "open"
                    \/ f \notin holds /\ row'[f].status = "resolved"
  OBVIOUS
<1>1. PICK t \in Task : UpsertWrite(t) \/ ResolveWrite(t) \/ StatusWrite(t)
  BY OnlyWrites
<1>2. Current(t) /\ Listed(t) /\ Prepared(t)
  BY DEF AllCurrent, AllListed, Typed, AllPrepared
<1>3. CASE UpsertWrite(t)
  <2>1. f = task[t].finding
    BY <1>3 DEF UpsertWrite, Typed, TypeOK
  <2>2. f \in holds
    BY <1>2, <1>3, <2>1 DEF UpsertWrite, Listed, Current
  <2> QED BY <1>3, <2>1, <2>2, UpsertOpens
<1>4. CASE ResolveWrite(t)
  <2>1. f \in task[t].todo /\ row'[f].status = "resolved" /\ task[t].stage = "closing"
    BY <1>4, ResolveWriteRow DEF ResolveWrite
  <2>2. f \notin task[t].present /\ CategoryOf[f] \in Heals(t)
    BY <1>2, <2>1 DEF Prepared
  <2> QED BY <1>2, <2>1, <2>2 DEF Current
<1>5. ~StatusWrite(t)
  BY <1>2 DEF StatusWrite, Current
<1> QED BY <1>1, <1>3, <1>4, <1>5

\* A row that is open and true stays open; one that a handler may close and does
\* not find is on its list or was before.
LEMMA OpenStays ==
  ASSUME Typed, AllListed, AllCurrent, [Next]_vars,
         NEW f \in Finding, f \in holds, row[f].status = "open"
  PROVE  row'[f].status = "open"
BY RowsFollow

LEMMA UnresolvedShrinks ==
  ASSUME Typed, AllListed, AllCurrent, [Next]_vars, NEW t \in Task,
         UNCHANGED <<task[t].present, Heals(t)>>,
         task[t].stage \in {"resolving", "closing", "closed"}
  PROVE  /\ Unresolved(t)' \subseteq Unresolved(t)
         /\ \A f \in Unresolved(t)' : row'[f] = row[f]
<1> SUFFICES ASSUME NEW f \in Finding, Exists(f)', row'[f].status # "resolved",
                    f \notin task[t].present, CategoryOf[f] \in Heals(t)
             PROVE  f \in Unresolved(t) /\ row'[f] = row[f]
  BY DEF Unresolved
<1>1. f \notin holds
  BY DEF AllCurrent, Current
<1>2. row'[f] = row[f]
  BY <1>1, RowsFollow
<1> QED BY <1>2 DEF Unresolved, Exists

\* Current handlers stay current.
LEMMA CurrentStays ==
  Typed /\ AllListed /\ AllCurrent /\ [Next]_vars /\ [Quiet]_vars => AllCurrent'
<1> SUFFICES ASSUME Typed, AllListed, AllCurrent, [Next]_vars, [Quiet]_vars, NEW t \in Task
             PROVE  Current(t)'
  BY DEF AllCurrent
<1>1. Current(t) /\ Listed(t) /\ holds' = holds /\ holds \subseteq Finding
  BY DEF AllCurrent, AllListed, Quiet, vars, Typed, TypeOK
<1>2. CASE task'[t] = Idle
  BY <1>2 DEF Current, Idle
<1>3. CASE StartIngest(t) \/ StartSweep(t)
  BY <1>1, <1>3, Begins DEF Current
<1>4. CASE StatusRead(t)
  <2>1. disturbances \in Nat /\ disturbances' = disturbances - 1
    BY <1>4 DEF StatusRead, Typed, TypeOK
  <2>2. ~Quiet
    BY <1>4 DEF Quiet
  <2> QED BY <2>1, <2>2 DEF vars
<1>5. CASE Cut(t)
  BY <1>2, <1>5 DEF Cut, Typed, TypeOK
<1>6. CASE task'[t] = task[t]
  <2>1. UNCHANGED <<task[t].present, Heals(t)>>
    BY <1>6 DEF Heals
  <2>2. CASE task[t].stage \in {"upserting", "upsert_read"}
    BY <1>1, <1>6, <2>1, <2>2, OpenStays DEF Current
  <2>3. CASE task[t].stage \in {"resolving", "closing", "closed"}
    BY <1>1, <1>6, <2>1, <2>3, UnresolvedShrinks DEF Current
  <2>4. CASE task[t].stage \notin {"upserting", "upsert_read", "resolving", "closing", "closed"}
    BY <1>1, <1>6, <2>4 DEF Current
  <2> QED BY <2>2, <2>3, <2>4
<1>7. CASE Proceed(t) /\ task'[t] # Idle
  <2>1. UNCHANGED <<task[t].present, Heals(t)>>
    BY <1>1, <1>7, GoesOn DEF Current
  <2>2. CASE UpsertRead(t)
    <3>1. /\ task[t].stage = "upserting" /\ task'[t].stage = "upsert_read"
          /\ task'[t].todo = task[t].todo \ {task'[t].finding}
      BY <1>1, <1>7, <2>2, GoesOn DEF Current, UpsertRead, UpsertWrite, UpsertsDone,
         ResolveSelect, ResolveWrite, ResolveAudit
    <3>2. row' = row
      BY <2>2 DEF UpsertRead
    <3> QED BY <1>1, <2>1, <3>1, <3>2 DEF Current
  <2>3. CASE UpsertWrite(t)
    <3>1. /\ task[t].stage = "upsert_read" /\ task'[t].stage = "upserting"
          /\ task'[t].todo = task[t].todo
      BY <1>1, <1>7, <2>3, GoesOn DEF Current, UpsertRead, UpsertWrite, UpsertsDone,
         ResolveSelect, ResolveWrite, ResolveAudit
    <3>2. ASSUME NEW f \in task[t].present \ task[t].todo PROVE row'[f].status = "open"
      <4>1. f \in Finding /\ f \in holds
        BY <1>1, <3>1 DEF Current
      <4>2. CASE f = task[t].finding
        BY <2>3, <4>2, UpsertOpens
      <4>3. CASE f # task[t].finding
        BY <1>1, <3>1, <4>1, <4>3, OpenStays DEF Current
      <4> QED BY <4>2, <4>3
    <3> QED BY <1>1, <2>1, <3>1, <3>2 DEF Current
  <2>4. CASE UpsertsDone(t)
    <3>1. task[t].stage = "upserting" /\ task'[t].stage = "resolving"
      BY <1>1, <1>7, <2>4, GoesOn DEF Current, UpsertRead, UpsertWrite, UpsertsDone,
         ResolveSelect, ResolveWrite, ResolveAudit
    <3> QED BY <1>1, <2>1, <3>1 DEF Current
  <2>5. CASE ResolveSelect(t)
    <3>1. /\ task[t].stage = "resolving" /\ task'[t].stage = "closing"
          /\ task'[t].todo = Unresolved(t)
      BY <1>1, <1>7, <2>5, GoesOn DEF Current, UpsertRead, UpsertWrite, UpsertsDone,
         ResolveSelect, ResolveWrite, ResolveAudit
    <3>2. Unresolved(t)' \subseteq Unresolved(t)
      BY <2>1, <3>1, UnresolvedShrinks
    <3> QED BY <1>1, <2>1, <3>1, <3>2 DEF Current
  <2>6. CASE ResolveWrite(t)
    <3>1. task[t].stage = "closing" /\ task'[t].stage = "closed"
      BY <1>1, <1>7, <2>6, GoesOn DEF Current, UpsertRead, UpsertWrite, UpsertsDone,
         ResolveSelect, ResolveWrite, ResolveAudit
    <3>2. ASSUME NEW f \in Unresolved(t)' PROVE f \in task'[t].todo
      <4>1. f \in Finding /\ row'[f].status # "resolved"
        BY DEF Unresolved
      <4>2. f \in Unresolved(t)
        BY <2>1, <3>1, UnresolvedShrinks
      <4>3. f \in task[t].todo
        BY <1>1, <3>1, <4>2 DEF Current
      <4> QED BY <2>6, <4>1, <4>3, ResolveWrites
    <3> QED BY <1>1, <2>1, <3>1, <3>2 DEF Current
  <2>7. CASE ResolveAudit(t)
    <3>1. /\ task[t].stage = "closed" /\ task'[t].stage = "closing"
          /\ task'[t].todo = task[t].todo
      BY <1>1, <1>7, <2>7, GoesOn DEF Current, UpsertRead, UpsertWrite, UpsertsDone,
         ResolveSelect, ResolveWrite, ResolveAudit
    <3>2. Unresolved(t)' \subseteq Unresolved(t)
      BY <2>1, <3>1, UnresolvedShrinks
    <3> QED BY <1>1, <2>1, <3>1, <3>2 DEF Current
  <2> QED BY <1>1, <1>7, <2>2, <2>3, <2>4, <2>5, <2>6, <2>7, GoesOn DEF Current
<1> QED BY <1>2, <1>3, <1>4, <1>5, <1>6, <1>7, OwnSteps

\* A current evaluation that completes has settled its finding.
LEMMA CompletedSettles ==
  ASSUME Typed, AllCurrent, NEW t \in Task, NEW f \in Finding, Completes(t, f)
  PROVE  Settled(f)'
<1>1. Current(t) /\ UNCHANGED <<holds, row>> /\ CategoryOf[f] \in Heals(t)
  BY DEF AllCurrent, Completes, UpsertsDone, ResolveSelect, ResolveAudit
<1>2. CASE f \in holds
  <2>1. task[t].stage = "upserting" /\ task[t].todo = {}
    BY <1>2 DEF Completes, UpsertsDone
  <2>2. row[f].status = "open"
    BY <1>1, <1>2, <2>1 DEF Current
  <2> QED BY <1>1, <1>2, <2>2 DEF Settled, Exists, NoRow
<1>3. CASE f \notin holds
  <2>1. /\ task[t].stage \in {"resolving", "closed"}
        /\ Unresolved(t) = {}
    BY <1>1, <1>3 DEF Completes, ResolveSelect, ResolveAudit, Current
  <2>2. f \notin task[t].present
    BY <1>1, <1>3, <2>1 DEF Current
  <2>3. ~Exists(f) \/ row[f].status = "resolved"
    BY <1>1, <2>1, <2>2 DEF Unresolved
  <2> QED BY <1>1, <1>3, <2>3 DEF Settled, Exists
<1> QED BY <1>2, <1>3

\* What the engine may close ends open if it holds and closed if it does not, for
\* any findings, gaps and overlapping, late or cut handlers, as long as evaluations
\* that inspect it go on completing (storage.rs, api.rs, watchdog.rs).
THEOREM ConvergesTheorem ==
  Spec /\ WorldSettles /\ StaleRunsOut /\ EvaluationsComplete => Converges
<1>1. ASSUME NEW f \in SelfHealing
      PROVE  Spec /\ WorldSettles /\ StaleRunsOut /\ []<><<\E t \in Task : Completes(t, f)>>_vars
               => <>[]Settled(f)
  <2>0. f \in Finding
    BY DEF SelfHealing, Of
  <2>1. Typed /\ AllCurrent /\ <<\E t \in Task : Completes(t, f)>>_vars => Settled(f)'
    BY <2>0, CompletedSettles
  <2>2. Typed /\ AllListed /\ AllCurrent /\ Settled(f) /\ [Next]_vars /\ [Quiet]_vars => Settled(f)'
    <3> SUFFICES ASSUME Typed, AllListed, AllCurrent, Settled(f), [Next]_vars, [Quiet]_vars
                 PROVE  Settled(f)'
      OBVIOUS
    <3>1. holds' = holds
      BY DEF Quiet, vars
    <3>2. row'[f].status = "open" => Exists(f)'
      BY DEF Exists, NoRow
    <3> QED BY <2>0, <3>1, <3>2, RowsFollow DEF Settled, Exists
  <2>3. StaleRunsOut <=> []<>AllCurrent
    BY DEF StaleRunsOut, AllCurrent
  <2> QED
    BY <2>1, <2>2, <2>3, CurrentStays, TypedAlways, ListedAlways, PTL DEF Spec, WorldSettles
<1> QED BY <1>1 DEF EvaluationsComplete, Converges
=============================================================================
