----------------------------- MODULE AssetStore -----------------------------
(***************************************************************************)
(* The tables an envelope fills beside incidents and baseline              *)
(* (rootcause-server/src/storage.rs): the asset with its last metrics and  *)
(* surface, the telemetry, the authentication pressure and the defence     *)
(* events, for one agent and one source that fails to log in under         *)
(* several user names.  Handlers write them statement by statement and may *)
(* overlap or be cut; the watchdog's retention deletes from them; the      *)
(* console's reports (rootcause-server/src/api.rs) are read from them.     *)
(*                                                                         *)
(* Moments are ticks.  The asset is {} until it is registered.  The agent  *)
(* reads the journal's window and every line of it fits in its report.     *)
(* The column posture_score, which nothing reads, is left out.             *)
(***************************************************************************)
EXTENDS Reports

VARIABLES
  setup,      \* never changes
  now,        \* the server's clock; the agent's is right
  machine,    \* role and surface of the machine, what its report should say
  lines,      \* the lines of the agent's log that tell of failed logins
  handlers,   \* by handler: the envelope it serves and its next statement
  asset,      \* the row of the asset
  telemetry,  \* the observation times of the samples stored
  pressure,   \* the rows of the source, by user name
  defense,    \* the times of the defence events stored
  purge,      \* the retention under way: its cut and its next statement
  changes, faults

storeVars == <<setup, now, machine, lines, handlers, asset, telemetry, pressure, defense, purge,
          changes, faults>>

Ticks == 0..setup.time
Handlers == UNION {s.handlers : s \in StoreSetups}
Retention == setup.retention
Machines == [role : setup.roles, surface : setup.surfaces]
Statements == {"validate", "insert", "refresh", "surface", "pressure"}
Free == [next |-> "none", at |-> 0, role |-> "internal", surface |-> NoSignals, events |-> {}]
NoPurge == [next |-> "none", cut |-> 0]

StoreInit ==
  /\ setup \in StoreSetups
  /\ now = 0
  /\ machine \in Machines
  /\ lines = {}
  /\ handlers = [h \in Handlers |-> Free]
  /\ asset = {}
  /\ telemetry = {}
  /\ pressure = {}
  /\ defense = {}
  /\ purge = NoPurge
  /\ changes = 0
  /\ faults = 0

-----------------------------------------------------------------------------
\* The world: time passes, somebody fails to log in, the machine changes.

Tick ==
  /\ now < setup.time
  /\ now' = now + 1
  /\ UNCHANGED <<setup, machine, lines, handlers, asset, telemetry, pressure, defense, purge,
                 changes, faults>>

\* What the log has of one attempt: two lines for a user that does not exist.
Messages(user) ==
  IF user \in setup.known THEN {"failed password"} ELSE {"invalid user", "failed password"}

Attempt ==
  /\ Cardinality(lines) < setup.lines
  /\ \E user \in setup.users :
       /\ [at |-> now, user |-> user, message |-> "failed password"] \notin lines
       /\ lines' = lines \cup {[at |-> now, user |-> user, message |-> m] : m \in Messages(user)}
  /\ UNCHANGED <<setup, now, machine, handlers, asset, telemetry, pressure, defense, purge,
                 changes, faults>>

Change ==
  /\ changes < setup.changes
  /\ changes' = changes + 1
  /\ machine' \in Machines \ {machine}
  /\ UNCHANGED <<setup, now, lines, handlers, asset, telemetry, pressure, defense, purge, faults>>

\* Lines about a user at some moments, and in the window that ends at a moment.
FailuresAt(user, moments) ==
  Cardinality({line \in lines : line.user = user /\ line.at \in moments})
FailuresUntil(user, moment) == FailuresAt(user, (moment - Window + 1)..moment)

\* The failures among the authentication events of a report.
EventsUntil(moment) ==
  {[username |-> user, failures |-> FailuresUntil(user, moment)] :
     user \in {u \in setup.users : FailuresUntil(u, moment) > 0}}

\* The agent reports what it sees; its last_seen stamps are the moment it looked.
Send(h) ==
  /\ h \in setup.handlers
  /\ handlers[h] = Free
  /\ handlers' = [handlers EXCEPT ![h] =
       [next |-> "validate", at |-> now, role |-> machine.role, surface |-> machine.surface,
        events |-> EventsUntil(now)]]
  /\ UNCHANGED <<setup, now, machine, lines, asset, telemetry, pressure, defense, purge,
                 changes, faults>>

-----------------------------------------------------------------------------
\* The handler of an envelope.

\* What the handler goes on to, with its envelope.
Proceed(h, next) ==
  handlers' = [handlers EXCEPT ![h] = IF next = "none" THEN Free ELSE [@ EXCEPT !.next = next]]

\* upsert_asset: the registration and last_seen, and nothing else of a known row.
Upserted(role) ==
  IF asset = {} THEN {[role |-> role, last_seen |-> now, metrics |-> {}, security |-> {},
                       exposed |-> 0]}
  ELSE {[row EXCEPT !.role = role, !.last_seen = now] : row \in asset}

\* The envelope is refused, or its registration is stored.
ValidateEnvelope(h) ==
  /\ handlers[h].next = "validate"
  /\ IF handlers[h].at < now - MaxAge
     THEN Proceed(h, "none") /\ UNCHANGED asset
     ELSE Proceed(h, "insert") /\ asset' = Upserted(handlers[h].role)
  /\ UNCHANGED <<setup, now, machine, lines, telemetry, pressure, defense, purge, changes, faults>>

\* store_sample, the INSERT.
InsertSample(h) ==
  /\ handlers[h].next = "insert"
  /\ Proceed(h, "refresh")
  /\ telemetry' = telemetry \cup {handlers[h].at}
  /\ UNCHANGED <<setup, now, machine, lines, asset, pressure, defense, purge, changes, faults>>

\* store_sample, the UPDATE.
RefreshAsset(h) ==
  /\ handlers[h].next = "refresh"
  /\ Proceed(h, "surface")
  /\ asset' = {[row EXCEPT !.last_seen = now, !.metrics = {handlers[h].at}] : row \in asset}
  /\ UNCHANGED <<setup, now, machine, lines, telemetry, pressure, defense, purge, changes, faults>>

\* Mutant: a surface that exposes nothing is taken for one that was not read.
SurfaceIfExposed(row, signals) ==
  IF ExposedListeners(signals) = <<>> THEN row
  ELSE [row EXCEPT !.security = {signals}, !.exposed = Len(ExposedListeners(signals))]

\* Mutant: every listener is counted.
SurfaceCountingAll(row, signals) ==
  [row EXCEPT !.security = {signals}, !.exposed = Len(signals.listeners)]

\* The UPDATE of store_security.
WithSurface(row, signals) ==
  [row EXCEPT !.security = {signals}, !.exposed = Len(ExposedListeners(signals))]

StoreSurface(h) ==
  /\ handlers[h].next = "surface"
  /\ Proceed(h, "pressure")
  /\ asset' = {WithSurface(row, handlers[h].surface) : row \in asset}
  /\ UNCHANGED <<setup, now, machine, lines, telemetry, pressure, defense, purge, changes, faults>>

About(event) == {row \in pressure : row.username = event.username}

\* Mutant: the failures of a report are added to those stored.
MergedAdding(row, event, stamp) ==
  [row EXCEPT !.failures = @ + event.failures, !.last_seen = Max({@, stamp})]

\* The conflict branch of record_auth_pressure.
MergedPressure(row, event, stamp) ==
  [row EXCEPT !.failures = Max({@, event.failures}), !.last_seen = Max({@, stamp})]

\* The transaction of record_auth_pressure: a row for each event.
Recorded(events, stamp) ==
  {row \in pressure : \A event \in events : row.username # event.username}
  \cup {[username |-> event.username, failures |-> event.failures,
         first_seen |-> stamp, last_seen |-> stamp] : event \in {e \in events : About(e) = {}}}
  \cup UNION {{MergedPressure(row, event, stamp) : row \in About(event)} : event \in events}

\* record_auth_pressure; what follows is modelled by Incidents and FileBaseline.
RecordPressure(h) ==
  /\ handlers[h].next = "pressure"
  /\ Proceed(h, "none")
  /\ pressure' = Recorded(handlers[h].events, handlers[h].at)
  /\ UNCHANGED <<setup, now, machine, lines, asset, telemetry, defense, purge, changes, faults>>

\* The handler is dropped: a timeout, a client gone, a failing statement.
Cut(h) ==
  /\ handlers[h] # Free
  /\ faults < setup.faults
  /\ faults' = faults + 1
  /\ Proceed(h, "none")
  /\ UNCHANGED <<setup, now, machine, lines, asset, telemetry, pressure, defense, purge, changes>>

Serve(h) ==
  \/ ValidateEnvelope(h)
  \/ InsertSample(h)
  \/ RefreshAsset(h)
  \/ StoreSurface(h)
  \/ RecordPressure(h)

\* record_defense_event.
Defend ==
  /\ now \notin defense
  /\ Cardinality(defense) < setup.defenses
  /\ defense' = defense \cup {now}
  /\ UNCHANGED <<setup, now, machine, lines, handlers, asset, telemetry, pressure, purge,
                 changes, faults>>

-----------------------------------------------------------------------------
\* purge: the cut is computed once, then three statements.  A purge when nothing
\* can be old enough deletes nothing, and is left out.

BeginPurge ==
  /\ purge = NoPurge
  /\ now > Retention
  /\ purge' = [next |-> "telemetry", cut |-> now - Retention]
  /\ UNCHANGED <<setup, now, machine, lines, handlers, asset, telemetry, pressure, defense,
                 changes, faults>>

PurgeTelemetry ==
  /\ purge.next = "telemetry"
  /\ purge' = [purge EXCEPT !.next = "pressure"]
  /\ telemetry' = {t \in telemetry : t >= purge.cut}
  /\ UNCHANGED <<setup, now, machine, lines, handlers, asset, pressure, defense, changes, faults>>

\* Mutant: a row expires with its first attempt.
KeptByFirst(rows, cut) == {row \in rows : row.first_seen >= cut}

Kept(rows, cut) == {row \in rows : row.last_seen >= cut}

PurgePressure ==
  /\ purge.next = "pressure"
  /\ purge' = [purge EXCEPT !.next = "defense"]
  /\ pressure' = Kept(pressure, purge.cut)
  /\ UNCHANGED <<setup, now, machine, lines, handlers, asset, telemetry, defense, changes, faults>>

PurgeDefense ==
  /\ purge.next = "defense"
  /\ purge' = NoPurge
  /\ defense' = {t \in defense : t >= purge.cut}
  /\ UNCHANGED <<setup, now, machine, lines, handlers, asset, telemetry, pressure, changes, faults>>

\* Mutant: a purge that failed is not begun again.
GiveUp == [next |-> "given up", cut |-> 0]

\* After a purge that failed the watchdog only waits for the next.
AfterFailure == NoPurge

\* A statement fails: the rest is left to the next purge.
FailPurge ==
  /\ purge # NoPurge
  /\ faults < setup.faults
  /\ faults' = faults + 1
  /\ purge' = AfterFailure
  /\ UNCHANGED <<setup, now, machine, lines, handlers, asset, telemetry, pressure, defense, changes>>

Purge == BeginPurge \/ PurgeTelemetry \/ PurgePressure \/ PurgeDefense

-----------------------------------------------------------------------------
StoreNext ==
  \/ Tick \/ Attempt \/ Change \/ Defend
  \/ \E h \in Handlers : Send(h) \/ Serve(h) \/ Cut(h)
  \/ Purge \/ FailPurge

\* Statements run, the agent goes on reporting and the watchdog purging.
StoreFairness ==
  /\ \A h \in Handlers : WF_storeVars(Serve(h))
  /\ WF_storeVars(\E h \in Handlers : Send(h))
  /\ WF_storeVars(Purge)

StoreSpec == StoreInit /\ [][StoreNext]_storeVars

\* What the liveness properties need of it and of the bounds: the clock and the
\* machine settle, no handler is for ever in an envelope of an earlier moment or
\* machine, the statements that fill the asset go on being executed, and so do,
\* once anything can be old enough, those of a purge with the cut of its moment.
UpToDate ==
  \A h \in Handlers : handlers[h].next # "none" =>
    handlers[h].at = now /\ handlers[h].role = machine.role /\ handlers[h].surface = machine.surface
Timely == purge.cut = now - Retention

WorldRests == <>[][UNCHANGED <<now, machine>>]_storeVars
OldEnvelopesEnd == []<>UpToDate
StatementsRun ==
  /\ []<><<\E h \in Handlers : ValidateEnvelope(h)>>_storeVars
  /\ []<><<\E h \in Handlers : InsertSample(h)>>_storeVars
  /\ []<><<\E h \in Handlers : RefreshAsset(h)>>_storeVars
  /\ []<><<\E h \in Handlers : StoreSurface(h)>>_storeVars
PurgesRun ==
  <>[](now > Retention) =>
    /\ []<><<Timely /\ PurgeTelemetry>>_storeVars
    /\ []<><<Timely /\ PurgePressure>>_storeVars
    /\ []<><<Timely /\ PurgeDefense>>_storeVars

-----------------------------------------------------------------------------
StoreTypeOK ==
  /\ setup \in StoreSetups
  /\ now \in Ticks
  /\ machine \in Machines
  /\ \A line \in lines : line.at \in Ticks /\ line.user \in setup.users
  /\ \A h \in Handlers : handlers[h].next \in Statements \cup {"none"} /\ handlers[h].at \in Ticks
  /\ Cardinality(asset) <= 1
  /\ telemetry \subseteq Ticks
  /\ \A user \in setup.users : Cardinality({row \in pressure : row.username = user}) <= 1
  /\ purge.next \in {"none", "telemetry", "pressure", "defense"}

\* Every report tells the same of the machine, whatever handlers were cut
\* between their statements: the headline count is what the exposure report
\* lists, the map puts an asset in the exposed zone exactly when the report has
\* a public entry for it, which is never shown as merely informative, an asset
\* listed as not inspected has no entry, and one that was not heard of with its
\* metrics has no surface.  The count compares instants where the status
\* compares whole seconds: who is counted as online is shown online, and who is
\* shown online is counted but in the second after the limit.
ViewsAgree ==
  /\ ExposedServices(asset) =
       SumOver(asset, LAMBDA row : ServicesWithin(row, "public") + ServicesWithin(row, "private"))
  /\ \A row \in asset :
       /\ Zone(row) = "exposed" <=> \E socket \in Entries(row) : socket.scope = "public"
       /\ Uninspected(row) => Entries(row) = {} /\ row.exposed = 0
       /\ row.security # {} => row.metrics # {}
       /\ \A socket \in Entries(row) :
            socket.scope = "public" => EntrySeverity(row, socket) > Info
  /\ AssetsOnline(asset, now) <= Cardinality({row \in asset : Status(row, now) = "online"})
  /\ \A row \in asset : Status(row, now) = "online" =>
       \/ AssetsOnline({row}, now) = 1
       \/ now - row.last_seen \in (StaleAfter * Second + 1)..(StaleAfter * Second + Second - 1)

\* A failed login counts once although the windows of successive reports
\* overlap and arrive late or twice.  The row of a user name never shows more
\* than the log had of it in some window.  The threat report adds the rows up,
\* which may be more than failed in any window when the names had their peaks at
\* different times, but is never more than the log has lines in all, nor less
\* than it had in the window of the source's last report (but its last tick,
\* which may not have been over).
PressureBounded ==
  /\ \A row \in pressure : \E moment \in Ticks : row.failures <= FailuresUntil(row.username, moment)
  /\ ThreatFailures(pressure) <= Cardinality(lines)
  /\ \A row \in pressure :
       Cardinality({line \in lines : line.at \in (row.last_seen - Window + 1)..(row.last_seen - 1)})
         <= ThreatFailures(pressure)

\* Retention only ever takes what is past its window, although its cut was
\* computed earlier and rows are written meanwhile: no sample, source or defence
\* event of the last days, and nothing of the asset.
DeletesOnlyExpired ==
  /\ \A t \in telemetry \ telemetry' : t < now - Retention
  /\ \A t \in defense \ defense' : t < now - Retention
  /\ \A row \in pressure : \/ \E kept \in pressure' : kept.username = row.username
                          \/ row.last_seen < now - Retention
  /\ purge' # purge => asset' = asset
RetentionSparesWindow == [][DeletesOnlyExpired]_storeVars

\* What the reports tell is what the machine is: its role, its surface and its
\* last sample.
ViewsTell ==
  \E row \in asset :
    /\ row.role = machine.role
    /\ row.security = {machine.surface}
    /\ row.metrics = {now}
    /\ now \in telemetry

NothingExpired ==
  /\ \A t \in telemetry \cup defense : t >= now - Retention
  /\ \A row \in pressure : row.last_seen >= now - Retention

\* Once the machine stops changing the reports come to tell what it is now: its
\* role, its surface, its last sample, although an older envelope may write
\* after a newer one.
ViewsConverge == <>[]ViewsTell

\* What is past its window is deleted in the end, in every table, although
\* purges fail and late handlers still store old samples.
ExpiredEventuallyGone == <>[]NothingExpired
=============================================================================
