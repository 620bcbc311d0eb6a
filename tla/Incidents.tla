------------------------------ MODULE Incidents ------------------------------
(***************************************************************************)
(* The incident store (crates/rootcause-server/src/storage.rs) at the      *)
(* granularity at which SQLite makes it atomic: one statement.  Three      *)
(* kinds of task use it at once over a pool of connections: the telemetry  *)
(* handler (api.rs), the watchdog's silence sweep (watchdog.rs) and the    *)
(* operator's status change.  Each reads a row's JSON in one statement and *)
(* writes it back in a later one, with no transaction around the two, and  *)
(* each may be dropped between two statements: a failing query, the        *)
(* thirty-second timeout layer, a client that hangs up, a crash.           *)
(*                                                                         *)
(* A row keeps its severity and status twice, in columns the queries       *)
(* filter by and in the JSON they return.  Of an incident's JSON the model *)
(* keeps the identifier, severity, status and occurrences; titles,         *)
(* evidence, runbooks and timestamps are left out.  One asset stands for   *)
(* all: fingerprints begin with the asset's identifier and every statement *)
(* here names a fingerprint or an asset.                                   *)
(***************************************************************************)
EXTENDS Naturals, FiniteSets

CONSTANTS
  Task,           \* slots for handlers in flight
  Finding,        \* fingerprints of the asset's possible findings
  CategoryOf,     \* the category of each finding
  GapSets,        \* the sets of surfaces an agent may fail to inspect
  MaxSeverity,    \* severities are 1..MaxSeverity
  MaxOccurrences, \* u32::MAX, where the occurrence counter saturates
  MaxDisturbances \* bound on world changes, status changes and cuts, for TLC

Category == {"resource", "exposure", "intrusion", "integrity", "hygiene", "availability"}
Surface == {"listeners", "firewall", "security-updates"}

ASSUME IncidentsAssumption ==
  /\ CategoryOf \in [Finding -> Category]
  /\ GapSets \subseteq SUBSET Surface
  /\ MaxSeverity \in Nat \ {0}
  /\ MaxOccurrences \in Nat \ {0}
  /\ MaxDisturbances \in Nat

VARIABLES
  holds,          \* the findings that are true of the asset right now
  row,            \* the incidents table, by its unique fingerprint
  task,           \* the handlers in flight
  unaudited,      \* history: a status change was left without its audit entry
  worst,          \* history: worst severity reported for each finding
  disturbances    \* how many of the bounded environment steps are left

vars == <<holds, row, task, unaudited, worst, disturbances>>

-----------------------------------------------------------------------------
\* State.

Severity == 1..MaxSeverity
Status == {"open", "acknowledged", "resolved"}

\* An identifier is a fresh uuid: the task that drew it stands for it, since
\* identifiers are only ever compared within one finding's row.
Json == [id : Task, severity : Severity, status : Status, occurrences : 1..MaxOccurrences]
Row == [id : Task, severity : Severity, status : Status, json : Json]
NoJson == [id |-> "none", severity |-> 0, status |-> "none", occurrences |-> 0]
NoRow == [id |-> "none", severity |-> 0, status |-> "none", json |-> NoJson]
NoFinding == "none"

Stage == {"idle", "upserting", "upsert_read", "resolving", "closing", "closed",
          "status_read", "status_written"}

Idle == [stage |-> "idle", sweep |-> FALSE, present |-> {}, gaps |-> {}, todo |-> {},
         finding |-> NoFinding, read |-> [f \in Finding |-> NoJson], status |-> "none"]

TaskState ==
  [stage : Stage, sweep : BOOLEAN, present : SUBSET Finding, gaps : SUBSET Surface,
   todo : SUBSET Finding, finding : Finding \cup {NoFinding},
   read : [Finding -> Json \cup {NoJson}], status : Status \cup {"none"}]

Of(category) == {f \in Finding : CategoryOf[f] = category}

\* The findings some task closes when they are no longer observed.
SelfHealing == Of("exposure") \cup Of("hygiene") \cup Of("availability")

Exists(f) == row[f] # NoRow

Init ==
  /\ holds \in SUBSET Finding
  /\ row = [f \in Finding |-> NoRow]
  /\ task = [t \in Task |-> Idle]
  /\ unaudited = FALSE
  /\ worst = [f \in Finding |-> 0]
  /\ disturbances = MaxDisturbances

-----------------------------------------------------------------------------
\* The environment.

\* Something about the asset changes.
WorldChanges ==
  /\ disturbances > 0
  /\ \E f \in Finding : holds' = IF f \in holds THEN holds \ {f} ELSE holds \cup {f}
  /\ disturbances' = disturbances - 1
  /\ UNCHANGED <<row, task, unaudited, worst>>

\* A task is dropped at an await: nothing it wrote is undone, and what it had
\* still to write, an audit entry say, is not written.
Cut(t) ==
  /\ disturbances > 0
  /\ task[t].stage # "idle"
  /\ task' = [task EXCEPT ![t] = Idle]
  /\ unaudited' = (unaudited \/ task[t].stage \in {"closed", "status_written"})
  /\ disturbances' = disturbances - 1
  /\ UNCHANGED <<holds, row, worst>>

-----------------------------------------------------------------------------
\* Ingest and sweep.

\* Mutant: a category heals although its surface was not inspected.
SelfHealingBlindly(gaps) == {"exposure", "hygiene"}

\* The categories an inspection with these gaps lets the engine close.  An
\* envelope without a security snapshot closes nothing, as one whose surfaces
\* are all gaps.
SelfHealingCategories(gaps) ==
     (IF "listeners" \in gaps THEN {} ELSE {"exposure"})
  \cup (IF {"firewall", "security-updates"} \cap gaps = {} THEN {"hygiene"} ELSE {})

\* The categories the task closes what it does not find of.
Heals(t) ==
  IF task[t].sweep THEN {"availability"} ELSE SelfHealingCategories(task[t].gaps)

\* The task goes on to auto_resolve, or is done if it can close nothing.
AfterUpserts(t) ==
  IF Heals(t) # {} /\ (task[t].sweep => task[t].present = {}) THEN "resolving" ELSE "idle"

\* What is left of a task at the given stage.
At(t, stage) == IF stage = "idle" THEN Idle ELSE [task[t] EXCEPT !.stage = stage]

\* An evaluation with these candidates begins.
Started(sweep, present, gaps) ==
  [Idle EXCEPT !.stage = "upserting", !.sweep = sweep, !.present = present,
               !.todo = present, !.gaps = gaps]

\* An agent's envelope passes validation and is analysed: the candidates are
\* the findings that held when the agent looked, all of them in the categories
\* it inspected and any of them elsewhere.
StartIngest(t) ==
  /\ task[t].stage = "idle"
  /\ \E gaps \in GapSets :
     \E present \in SUBSET (holds \ Of("availability")) :
       /\ \A f \in holds : CategoryOf[f] \in SelfHealingCategories(gaps) => f \in present
       /\ task' = [task EXCEPT ![t] = Started(FALSE, present, gaps)]
  /\ UNCHANGED <<holds, row, unaudited, worst, disturbances>>

\* The watchdog's loop, one sweep at a time: silence is found or it is not.
StartSweep(t) ==
  /\ task[t].stage = "idle"
  /\ \A u \in Task : ~task[u].sweep
  /\ task' = [task EXCEPT ![t] = Started(TRUE, holds \cap Of("availability"), {})]
  /\ UNCHANGED <<holds, row, unaudited, worst, disturbances>>

\* upsert_incident, first statement: SELECT incident_json by fingerprint.
UpsertRead(t) ==
  /\ task[t].stage = "upserting"
  /\ \E f \in task[t].todo :
       task' = [task EXCEPT ![t].stage = "upsert_read",
                            ![t].todo = @ \ {f},
                            ![t].finding = f,
                            ![t].read[f] = row[f].json]
  /\ UNCHANGED <<holds, row, unaudited, worst, disturbances>>

\* Mutant: the latest severity replaces the worst one.
MergedLatest(json, t, severity) ==
  IF json = NoJson
  THEN [id |-> t, severity |-> severity, status |-> "open", occurrences |-> 1]
  ELSE [json EXCEPT !.status = "open",
                    !.severity = severity,
                    !.occurrences = IF @ < MaxOccurrences THEN @ + 1 ELSE @]

\* Mutant: the occurrence counter does not saturate.
MergedOverflowing(json, t, severity) ==
  IF json = NoJson
  THEN [id |-> t, severity |-> severity, status |-> "open", occurrences |-> 1]
  ELSE [json EXCEPT !.status = "open",
                    !.severity = IF severity > @ THEN severity ELSE @,
                    !.occurrences = @ + 1]

\* Mutant: an acknowledged incident stays acknowledged.
MergedQuietly(json, t, severity) ==
  IF json = NoJson
  THEN [id |-> t, severity |-> severity, status |-> "open", occurrences |-> 1]
  ELSE [json EXCEPT !.status = IF @ = "acknowledged" THEN @ ELSE "open",
                    !.severity = IF severity > @ THEN severity ELSE @,
                    !.occurrences = IF @ < MaxOccurrences THEN @ + 1 ELSE @]

\* The incident upsert_incident writes back for a candidate of this severity.
Merged(json, t, severity) ==
  IF json = NoJson
  THEN [id |-> t, severity |-> severity, status |-> "open", occurrences |-> 1]
  ELSE [json EXCEPT !.status = "open",
                    !.severity = IF severity > @ THEN severity ELSE @,
                    !.occurrences = IF @ < MaxOccurrences THEN @ + 1 ELSE @]

\* Mutant: the conflict branch refreshes the JSON but forgets the status column.
StoredStatusKept(old, json) ==
  [id |-> IF old = NoRow THEN json.id ELSE old.id,
   severity |-> json.severity,
   status |-> IF old = NoRow THEN json.status ELSE old.status,
   json |-> json]

\* Mutant: the conflict branch refreshes the JSON but forgets the severity column.
StoredSeverityKept(old, json) ==
  [id |-> IF old = NoRow THEN json.id ELSE old.id,
   severity |-> IF old = NoRow THEN json.severity ELSE old.severity,
   status |-> json.status,
   json |-> json]

\* INSERT .. ON CONFLICT(fingerprint) DO UPDATE: the identifier column of a row
\* that exists by now is kept.
Stored(old, json) ==
  [id |-> IF old = NoRow THEN json.id ELSE old.id,
   severity |-> json.severity,
   status |-> json.status,
   json |-> json]

\* upsert_incident, second statement.
UpsertWrite(t) ==
  LET f == task[t].finding
  IN  /\ task[t].stage = "upsert_read"
      /\ \E severity \in Severity :
           /\ row' = [row EXCEPT ![f] = Stored(@, Merged(task[t].read[f], t, severity))]
           /\ worst' = [worst EXCEPT ![f] = IF severity > @ THEN severity ELSE @]
      /\ task' = [task EXCEPT ![t].stage = "upserting",
                              ![t].finding = NoFinding,
                              ![t].read[f] = NoJson]
      /\ UNCHANGED <<holds, unaudited, disturbances>>

\* The last candidate is stored.
UpsertsDone(t) ==
  /\ task[t].stage = "upserting"
  /\ task[t].todo = {}
  /\ task' = [task EXCEPT ![t] = At(t, AfterUpserts(t))]
  /\ UNCHANGED <<holds, row, unaudited, worst, disturbances>>

\* Mutant: only open incidents are looked at, so an acknowledged one never heals.
UnresolvedOpenOnly(t) ==
  {f \in Finding : /\ Exists(f) /\ row[f].status = "open"
                   /\ f \notin task[t].present
                   /\ CategoryOf[f] \in Heals(t)}

\* The rows auto_resolve goes through, less the ones its loop skips.
Unresolved(t) ==
  {f \in Finding : /\ Exists(f) /\ row[f].status # "resolved"
                   /\ f \notin task[t].present
                   /\ CategoryOf[f] \in Heals(t)}

\* auto_resolve, first statement: all rows to close are read at once.
ResolveSelect(t) ==
  /\ task[t].stage = "resolving"
  /\ task' = [task EXCEPT ![t] =
       IF Unresolved(t) = {} THEN Idle
       ELSE [@ EXCEPT !.stage = "closing",
                      !.todo = Unresolved(t),
                      !.read = [f \in Finding |->
                                  IF f \in Unresolved(t) THEN row[f].json ELSE NoJson]]]
  /\ UNCHANGED <<holds, row, unaudited, worst, disturbances>>

\* UPDATE incidents SET status, incident_json: the JSON is the one read before.
Marked(old, json, status) ==
  [old EXCEPT !.status = status, !.json = [json EXCEPT !.status = status]]

\* auto_resolve, one UPDATE.
ResolveWrite(t) ==
  /\ task[t].stage = "closing"
  /\ \E f \in task[t].todo :
       /\ row' = [row EXCEPT ![f] = Marked(@, task[t].read[f], "resolved")]
       /\ task' = [task EXCEPT ![t].stage = "closed",
                               ![t].todo = @ \ {f},
                               ![t].read[f] = NoJson]
  /\ UNCHANGED <<holds, unaudited, worst, disturbances>>

\* auto_resolve, the audit entry of that UPDATE.
ResolveAudit(t) ==
  /\ task[t].stage = "closed"
  /\ task' = [task EXCEPT ![t] = At(t, IF task[t].todo = {} THEN "idle" ELSE "closing")]
  /\ UNCHANGED <<holds, row, unaudited, worst, disturbances>>

-----------------------------------------------------------------------------
\* The operator.

\* update_incident_status, first statement: the incident is read by the
\* identifier column.  An identifier no row carries is answered with 404 and
\* changes nothing.
StatusRead(t) ==
  /\ disturbances > 0
  /\ task[t].stage = "idle"
  /\ \E f \in Finding, status \in Status :
       /\ Exists(f)
       /\ task' = [task EXCEPT ![t] =
            [Idle EXCEPT !.stage = "status_read", !.finding = f, !.status = status,
                         !.read[f] = row[f].json]]
  /\ disturbances' = disturbances - 1
  /\ UNCHANGED <<holds, row, unaudited, worst>>

\* update_incident_status, second statement: UPDATE by identifier.
StatusWrite(t) ==
  LET f == task[t].finding
  IN  /\ task[t].stage = "status_read"
      /\ row' = [row EXCEPT ![f] = Marked(@, task[t].read[f], task[t].status)]
      /\ task' = [task EXCEPT ![t] = [Idle EXCEPT !.stage = "status_written"]]
      /\ UNCHANGED <<holds, unaudited, worst, disturbances>>

\* update_incident_status, the audit entry.
StatusAudit(t) ==
  /\ task[t].stage = "status_written"
  /\ task' = [task EXCEPT ![t] = Idle]
  /\ UNCHANGED <<holds, row, unaudited, worst, disturbances>>

-----------------------------------------------------------------------------

\* A task that runs goes on to its next statement.
Proceed(t) ==
  \/ UpsertRead(t)
  \/ UpsertWrite(t)
  \/ UpsertsDone(t)
  \/ ResolveSelect(t)
  \/ ResolveWrite(t)
  \/ ResolveAudit(t)
  \/ StatusWrite(t)
  \/ StatusAudit(t)

Next ==
  \/ WorldChanges
  \/ \E t \in Task :
       \/ StartIngest(t)
       \/ StartSweep(t)
       \/ StatusRead(t)
       \/ Proceed(t)
       \/ Cut(t)

\* Statements finish; agents and the watchdog keep their timers, and a surface that
\* could not be inspected is inspected again some day: what nobody looks at stays
\* open.  Operators owe nothing.
Fairness ==
  /\ \A t \in Task : WF_vars(Proceed(t))
  /\ SF_vars(\E t \in Task : StartIngest(t) /\ task'[t].gaps = {})
  /\ SF_vars(\E t \in Task : StartSweep(t))

Spec == Init /\ [][Next]_vars
FairSpec == Spec /\ Fairness

-----------------------------------------------------------------------------
\* What convergence needs of fairness and of the bound.

\* Nothing the task looked up is out of date: it is no operator's request, its
\* evaluation saw what is true now, what it has stored since is open, and every
\* row it has still to close is on its list.
Current(t) ==
  LET step == task[t]
  IN  /\ step.stage # "status_read"
      /\ step.stage \in {"upserting", "upsert_read", "resolving", "closing", "closed"} =>
           /\ step.present \subseteq holds
           /\ \A f \in holds : CategoryOf[f] \in Heals(t) => f \in step.present
      /\ step.stage \in {"upserting", "upsert_read"} =>
           \A f \in step.present \ step.todo :
             (step.stage = "upsert_read" /\ f = step.finding) \/ row[f].status = "open"
      /\ step.stage \in {"closing", "closed"} => Unresolved(t) \subseteq step.todo

\* An evaluation that inspects what is behind the finding is through with it: all
\* candidates are stored, or all rows to close are closed.
Completes(t, f) ==
  /\ CategoryOf[f] \in Heals(t)
  /\ IF f \in holds THEN UpsertsDone(t)
     ELSE \/ ResolveSelect(t) /\ Unresolved(t) = {}
          \/ ResolveAudit(t) /\ task[t].todo = {}

\* The asset and the operators settle (handlers may still be cut), what is out of
\* date runs out, and evaluations go on completing.
Quiet == UNCHANGED holds /\ \A t \in Task : ~StatusRead(t)
WorldSettles == <>[][Quiet]_vars
StaleRunsOut == []<>(\A t \in Task : Current(t))
EvaluationsComplete == \A f \in SelfHealing : []<><<\E t \in Task : Completes(t, f)>>_vars

-----------------------------------------------------------------------------
\* Properties.

TypeOK ==
  /\ holds \subseteq Finding
  /\ row \in [Finding -> Row \cup {NoRow}]
  /\ task \in [Task -> TaskState]
  /\ unaudited \in BOOLEAN
  /\ worst \in [Finding -> 0..MaxSeverity]
  /\ disturbances \in 0..MaxDisturbances

\* Whatever overlaps, the status a query filters by is the status the JSON it
\* returns shows: both are written by one statement everywhere
\* (storage.rs:468-493, 522-529, 688-693).
StatusAgrees == \A f \in Finding : Exists(f) => row[f].status = row[f].json.status

\* An incident is closed by an operator who asked for it, or by an evaluation
\* of this asset that looked at the surface behind its category and did not
\* find it: no gap closes anything, the watchdog closes nothing but silence and
\* no task closes an intrusion, a changed file or a saturated disk (api.rs:45-59, 319-327,
\* watchdog.rs:70-86).
ClosedOnlyIfInspected ==
  [][\A f \in Finding :
       Exists(f) /\ row[f].status # "resolved" /\ row'[f].status = "resolved" =>
         \E t \in Task :
           LET step == task[t]
           IN  \/ /\ step.stage = "status_read" /\ step.finding = f
                  /\ step.status = "resolved"
               \/ /\ step.stage = "closing" /\ f \in step.todo /\ f \notin step.present
                  /\ \/ CategoryOf[f] = "exposure" /\ ~step.sweep /\ "listeners" \notin step.gaps
                     \/ /\ CategoryOf[f] = "hygiene" /\ ~step.sweep
                        /\ {"firewall", "security-updates"} \cap step.gaps = {}
                     \/ CategoryOf[f] = "availability" /\ step.sweep]_vars

\* Once the world, the operators and the failures settle, so does every finding
\* the engine may close: it ends open for good if it holds and closed (or never
\* raised) for good if it does not, whatever stale evaluations, half-done
\* handlers and operator decisions came before.
Settled(f) ==
  IF f \in holds
  THEN Exists(f) /\ row[f].status = "open"
  ELSE ~Exists(f) \/ row[f].status = "resolved"

Converges == \A f \in SelfHealing : <>[]Settled(f)

\* The two copies of identifier and severity agree: what a list filters by and
\* what a route is addressed by is what the JSON shows (storage.rs:468-493).
ColumnsMatchJson ==
  \A f \in Finding : Exists(f) => /\ row[f].id = row[f].json.id
                                  /\ row[f].severity = row[f].json.severity

\* "It keeps the worst severity ever observed rather than the latest one"
\* (storage.rs:434-436).
WorstSeverityKept == \A f \in Finding : Exists(f) => row[f].json.severity = worst[f]

\* An incident can be addressed by the identifier that lists show of it: the
\* same incident is updated, never a second one (storage.rs:433-434).
Addressable == \A f \in Finding : Exists(f) => row[f].json.id = row[f].id

\* "The closure is audited" (storage.rs:501-502), and a status change records
\* who did it (storage.rs:674): no change is left without its entry.
ChangesAudited == ~unaudited

\* The atomic ledger, read off the rows.
Ledger == INSTANCE IncidentLedger WITH
  ledger <- [f \in Finding |-> [status |-> IF Exists(f) THEN row[f].status ELSE "absent",
                                severity |-> row[f].severity,
                                occurrences |-> row[f].json.occurrences]]

\* One handler at a time, cut anywhere, every statement of the store is a step
\* of the atomic ledger or changes nothing of it.
RefinesLedger == Ledger!Spec
=============================================================================
