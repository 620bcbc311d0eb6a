-------------------------- MODULE AssetStoreProofs --------------------------
(***************************************************************************)
(* Proofs about AssetStore for any number of handlers, any machine, any    *)
(* user names and any clock, window and retention.                         *)
(*                                                                         *)
(* RetentionSparesWindow is about steps: what it needs of the states is    *)
(* that the cut of a purge under way was old enough when it was computed,  *)
(* and time only passes.  PressureBounded is not inductive: a row is       *)
(* written from an envelope, so what is known of rows must be known of     *)
(* envelopes first, and a sum over rows is bounded by what each row is     *)
(* known to count.  Counted says it of both, Shape holds the types.        *)
(***************************************************************************)
EXTENDS AssetStore, ListProofs

-----------------------------------------------------------------------------
\* The types.

Users == UNION {s.users : s \in StoreSetups}
LogLines == [at : Nat, user : Users, message : {"invalid user", "failed password"}]
LogEvents == [username : Users, failures : Nat \ {0}]
SourceRows == [username : Users, failures : Nat \ {0}, first_seen : Nat, last_seen : Nat]

Envelopes ==
  [next : Statements \cup {"none"}, at : Nat,
   role : {"internal"} \cup UNION {s.roles : s \in StoreSetups},
   surface : {NoSignals} \cup UNION {s.surfaces : s \in StoreSetups},
   events : SUBSET LogEvents]

AtMostOne(rows) == \A a, b \in rows : a = b
OnePerUser(rows) == \A a, b \in rows : a.username = b.username => a = b

Shape ==
  /\ setup \in StoreSetups
  /\ now \in Ticks
  /\ machine \in Machines
  /\ IsFiniteSet(lines) /\ lines \subseteq LogLines
  /\ \A line \in lines : line.at <= now /\ line.user \in setup.users
  /\ telemetry \subseteq 0..now /\ defense \subseteq 0..now
  /\ handlers \in [Handlers -> Envelopes]
  /\ \A h \in Handlers : handlers[h].at <= now /\ OnePerUser(handlers[h].events)
  /\ AtMostOne(asset)
  /\ pressure \subseteq SourceRows /\ OnePerUser(pressure)
  /\ \A row \in pressure : row.last_seen <= now
  /\ purge \in [next : {"none", "telemetry", "pressure", "defense"}, cut : Int]
  /\ purge.next # "none" => purge.cut <= now - Retention

LEMMA FewRows ==
  ASSUME NEW rows, AtMostOne(rows)
  PROVE  Cardinality(rows) <= 1
<1>1. CASE rows = {}
  BY <1>1, FS_EmptySet
<1>2. CASE rows # {}
  <2>1. PICK a : rows = {a}
    BY <1>2 DEF AtMostOne
  <2> QED BY <2>1, FS_Singleton
<1> QED BY <1>1, <1>2

LEMMA Numbers ==
  ASSUME Shape
  PROVE  /\ now \in Nat /\ setup.time \in Nat /\ Retention \in Nat
         /\ Window \in Nat /\ now <= setup.time
         /\ Ticks \subseteq Nat /\ 0..now \subseteq Ticks
BY StoreAssumption DEF Shape, Ticks, Retention

\* A handler that goes on keeps its envelope, or has none any more.
LEMMA ProceedKeeps ==
  ASSUME Shape, NEW h \in Handlers, NEW step \in Statements \cup {"none"}, Proceed(h, step)
  PROVE  /\ handlers' \in [Handlers -> Envelopes]
         /\ \A g \in Handlers : \/ handlers'[g] = Free
                                \/ /\ handlers'[g].at = handlers[g].at
                                   /\ handlers'[g].events = handlers[g].events
<1> DEFINE moved == [handlers[h] EXCEPT !.next = step]
<1>1. Free \in Envelopes
  BY DEF Free, Envelopes
<1>2. handlers[h] \in Envelopes /\ handlers \in [Handlers -> Envelopes]
  BY DEF Shape
<1>3. moved \in Envelopes /\ moved.at = handlers[h].at /\ moved.events = handlers[h].events
  BY <1>2 DEF Envelopes
<1>4. handlers' = [handlers EXCEPT ![h] = IF step = "none" THEN Free ELSE moved]
  BY DEF Proceed
<1> HIDE DEF moved
<1> QED BY <1>1, <1>2, <1>3, <1>4

\* What a step of a handler leaves of the shape, the tables aside.
LEMMA HandlerShape ==
  ASSUME Shape, NEW h \in Handlers, NEW step \in Statements \cup {"none"}, Proceed(h, step),
         now' = now
  PROVE  /\ handlers' \in [Handlers -> Envelopes]
         /\ \A g \in Handlers : handlers'[g].at <= now' /\ OnePerUser(handlers'[g].events)
<1>1. Free.at = 0 /\ now \in Nat /\ Free.events = {}
  BY Numbers DEF Free
<1>2. \A g \in Handlers : handlers[g].at <= now /\ OnePerUser(handlers[g].events)
  BY DEF Shape
<1>3. OnePerUser({})
  BY DEF OnePerUser
<1>4. ASSUME NEW g \in Handlers PROVE handlers'[g].at <= now' /\ OnePerUser(handlers'[g].events)
  <2>1. CASE handlers'[g] = Free
    BY <1>1, <1>3, <2>1
  <2>2. CASE handlers'[g].at = handlers[g].at /\ handlers'[g].events = handlers[g].events
    BY <1>2, <2>2
  <2> QED BY <2>1, <2>2, ProceedKeeps
<1> QED BY <1>4, ProceedKeeps

LEMMA Steps ==
  /\ {"validate", "insert", "refresh", "surface", "pressure", "none"} = Statements \cup {"none"}
  /\ \A h : Free.next = "none"
BY DEF Statements, Free

-----------------------------------------------------------------------------
\* Counting lines: those of a user up to a moment, and those before it.

Until(moment) == (moment - Window + 1)..moment
Before(moment) == (moment - Window + 1)..(moment - 1)
Failures(log, user, moments) ==
  Cardinality({line \in log : line.user = user /\ line.at \in moments})

LEMMA FailuresCount ==
  ASSUME NEW log, IsFiniteSet(log), NEW user, NEW moments
  PROVE  /\ Failures(log, user, moments) \in Nat
         /\ IsFiniteSet({line \in log : line.user = user /\ line.at \in moments})
<1> DEFINE counted == {line \in log : line.user = user /\ line.at \in moments}
<1>1. IsFiniteSet(counted)
  BY FS_Subset
<1>2. Cardinality(counted) \in Nat
  BY <1>1, FS_CardinalityType
<1> QED BY <1>1, <1>2 DEF Failures

LEMMA FailuresGrow ==
  ASSUME NEW log, NEW longer, IsFiniteSet(longer), log \subseteq longer, NEW user,
         NEW moments, NEW more, moments \subseteq more
  PROVE  Failures(log, user, moments) <= Failures(longer, user, more)
<1> DEFINE few == {line \in log : line.user = user /\ line.at \in moments}
           many == {line \in longer : line.user = user /\ line.at \in more}
<1>1. few \subseteq many
  OBVIOUS
<1>2. IsFiniteSet(many)
  BY FS_Subset
<1> HIDE DEF few, many
<1>3. Cardinality(few) <= Cardinality(many)
  BY <1>1, <1>2, FS_Subset
<1> QED BY <1>3 DEF few, many, Failures

\* What the agent reports.
LEMMA EventsAre ==
  ASSUME NEW moment
  PROVE  \A event : event \in EventsUntil(moment) <=>
           \E user \in setup.users :
             /\ Failures(lines, user, Until(moment)) > 0
             /\ event = [username |-> user, failures |-> Failures(lines, user, Until(moment))]
<1>1. \A user : FailuresUntil(user, moment) = Failures(lines, user, Until(moment))
  BY DEF FailuresUntil, FailuresAt, Failures, Until
<1> QED BY <1>1 DEF EventsUntil

LEMMA EventsShape ==
  ASSUME Shape, NEW moment
  PROVE  EventsUntil(moment) \subseteq LogEvents /\ OnePerUser(EventsUntil(moment))
<1>1. \A user : Failures(lines, user, Until(moment)) \in Nat
  BY FailuresCount DEF Shape
<1>2. setup.users \subseteq Users
  BY DEF Shape, Users
<1>3. PICK events : events = EventsUntil(moment)
  OBVIOUS
<1>4. \A event \in events : \E user \in setup.users :
        /\ Failures(lines, user, Until(moment)) > 0
        /\ event = [username |-> user, failures |-> Failures(lines, user, Until(moment))]
  BY <1>3, EventsAre
<1>5. events \subseteq LogEvents
  BY <1>1, <1>2, <1>4 DEF LogEvents
<1>6. OnePerUser(events)
  BY <1>4 DEF OnePerUser
<1> QED BY <1>3, <1>5, <1>6

\* The rows after a report: those its events say nothing of, one for each event
\* about a name without a row, and one merged for each other.
RowOf(row, events, stamp) ==
  \/ row \in pressure /\ \A event \in events : row.username # event.username
  \/ \E event \in events :
       /\ row.username = event.username /\ row.failures = event.failures
       /\ row.first_seen = stamp /\ row.last_seen = stamp
       /\ \A old \in pressure : old.username # event.username
  \/ \E event \in events, old \in pressure :
       /\ old.username = event.username /\ row.username = event.username
       /\ row.failures = Max({old.failures, event.failures})
       /\ row.first_seen = old.first_seen
       /\ row.last_seen = Max({old.last_seen, stamp})

LEMMA RecordedRows ==
  ASSUME Shape, NEW events \in SUBSET LogEvents, OnePerUser(events), NEW stamp \in Nat
  PROVE  /\ Recorded(events, stamp) \subseteq SourceRows
         /\ OnePerUser(Recorded(events, stamp))
         /\ \A row \in Recorded(events, stamp) : RowOf(row, events, stamp)
         /\ \A old \in pressure : \E row \in Recorded(events, stamp) :
              /\ row.username = old.username
              /\ row.failures >= old.failures /\ row.last_seen >= old.last_seen
         /\ \A event \in events : \E row \in Recorded(events, stamp) :
              /\ row.username = event.username
              /\ row.failures >= event.failures /\ row.last_seen >= stamp
<1>1. pressure \subseteq SourceRows /\ OnePerUser(pressure)
  BY DEF Shape
<1>2. PICK untouched :
        untouched = {row \in pressure : \A event \in events : row.username # event.username}
  OBVIOUS
<1>3. PICK Fresh : Fresh = [event \in events |->
        [username |-> event.username, failures |-> event.failures,
         first_seen |-> stamp, last_seen |-> stamp]]
  OBVIOUS
<1>4. PICK rows : rows = Recorded(events, stamp)
  OBVIOUS
<1>5. \A row : row \in rows <=>
        \/ row \in untouched
        \/ \E event \in events : About(event) = {} /\ row = Fresh[event]
        \/ \E event \in events : \E old \in About(event) : row = MergedPressure(old, event, stamp)
  BY <1>2, <1>3, <1>4 DEF Recorded
<1>6. \A event \in events : About(event) = {old \in pressure : old.username = event.username}
  BY DEF About
<1>7. \A event \in events : event.username \in Users /\ event.failures \in Nat \ {0}
  BY DEF LogEvents
<1>8. ASSUME NEW event \in events, NEW old \in pressure, NEW row,
             old.username = event.username, row = MergedPressure(old, event, stamp)
      PROVE  /\ row \in SourceRows /\ row.username = event.username
             /\ row.failures = Max({old.failures, event.failures})
             /\ row.failures >= old.failures /\ row.failures >= event.failures
             /\ row.first_seen = old.first_seen
             /\ row.last_seen = Max({old.last_seen, stamp})
             /\ row.last_seen >= old.last_seen /\ row.last_seen >= stamp
  <2>1. old \in SourceRows /\ old.failures \in Nat \ {0} /\ old.last_seen \in Nat
    BY <1>1 DEF SourceRows
  <2>2. PICK f, l : f = Max({old.failures, event.failures}) /\ l = Max({old.last_seen, stamp})
    OBVIOUS
  <2>3. f \in Nat \ {0} /\ f >= old.failures /\ f >= event.failures
    BY <1>7, <2>1, <2>2, MaxOfTwo
  <2>4. l \in Nat /\ l >= old.last_seen /\ l >= stamp
    BY <2>1, <2>2, MaxOfTwo
  <2>5. row = [old EXCEPT !.failures = f, !.last_seen = l]
    BY <1>8, <2>2 DEF MergedPressure
  <2>6. /\ row \in SourceRows /\ row.username = old.username /\ row.failures = f
        /\ row.first_seen = old.first_seen /\ row.last_seen = l
    BY <2>1, <2>3, <2>4, <2>5 DEF SourceRows
  <2> QED BY <1>8, <2>2, <2>3, <2>4, <2>6
<1>9. ASSUME NEW event \in events
      PROVE  /\ Fresh[event] \in SourceRows /\ Fresh[event].username = event.username
             /\ Fresh[event].failures = event.failures
             /\ Fresh[event].first_seen = stamp /\ Fresh[event].last_seen = stamp
  BY <1>3, <1>7 DEF SourceRows
<1>10. rows \subseteq SourceRows /\ \A row \in rows : RowOf(row, events, stamp)
  <2> SUFFICES ASSUME NEW row \in rows PROVE row \in SourceRows /\ RowOf(row, events, stamp)
    OBVIOUS
  <2>1. CASE row \in untouched
    BY <1>1, <1>2, <2>1 DEF RowOf
  <2>2. ASSUME NEW event \in events, About(event) = {}, row = Fresh[event]
        PROVE  row \in SourceRows /\ RowOf(row, events, stamp)
    BY <1>6, <1>9, <2>2 DEF RowOf
  <2>3. ASSUME NEW event \in events, NEW old \in About(event),
               row = MergedPressure(old, event, stamp)
        PROVE  row \in SourceRows /\ RowOf(row, events, stamp)
    <3>1. old \in pressure /\ old.username = event.username
      BY <1>6, <2>3
    <3>2. /\ row \in SourceRows /\ row.username = event.username
          /\ row.failures = Max({old.failures, event.failures})
          /\ row.first_seen = old.first_seen
          /\ row.last_seen = Max({old.last_seen, stamp})
      BY <1>8, <2>3, <3>1
    <3> QED BY <3>1, <3>2 DEF RowOf
  <2> QED BY <1>5, <2>1, <2>2, <2>3
<1>11. ASSUME NEW old \in pressure
       PROVE  \E row \in rows :
                /\ row.username = old.username
                /\ row.failures >= old.failures /\ row.last_seen >= old.last_seen
  <2>1. CASE \A event \in events : old.username # event.username
    <3>1. old \in rows /\ old.failures \in Nat /\ old.last_seen \in Nat
      BY <1>1, <1>2, <1>5, <2>1 DEF SourceRows
    <3> QED BY <3>1
  <2>2. ASSUME NEW event \in events, old.username = event.username
        PROVE  \E row \in rows :
                 /\ row.username = old.username
                 /\ row.failures >= old.failures /\ row.last_seen >= old.last_seen
    <3>1. PICK row : row = MergedPressure(old, event, stamp)
      OBVIOUS
    <3>2. row \in rows
      BY <1>5, <1>6, <2>2, <3>1
    <3>3. /\ row.username = old.username
          /\ row.failures >= old.failures /\ row.last_seen >= old.last_seen
      BY <1>8, <2>2, <3>1
    <3> QED BY <3>2, <3>3
  <2> QED BY <2>1, <2>2
<1>12. ASSUME NEW event \in events
       PROVE  \E row \in rows :
                /\ row.username = event.username
                /\ row.failures >= event.failures /\ row.last_seen >= stamp
  <2>1. CASE About(event) = {}
    <3>1. Fresh[event] \in rows
      BY <1>5, <2>1
    <3> QED BY <1>7, <1>9, <3>1
  <2>2. CASE About(event) # {}
    <3>1. PICK old \in pressure : old.username = event.username
      BY <1>6, <2>2
    <3>2. PICK row : row = MergedPressure(old, event, stamp)
      OBVIOUS
    <3>3. row \in rows
      BY <1>5, <1>6, <3>1, <3>2
    <3> QED BY <1>8, <3>1, <3>2, <3>3
  <2> QED BY <2>1, <2>2
<1>13. OnePerUser(rows)
  <2> SUFFICES ASSUME NEW a \in rows, NEW b \in rows, a.username = b.username PROVE a = b
    BY DEF OnePerUser
  <2>1. ASSUME NEW row \in rows
        PROVE  \/ row \in pressure /\ \A event \in events : row.username # event.username
               \/ \E event \in events :
                    /\ row.username = event.username /\ row = Fresh[event]
                    /\ \A old \in pressure : old.username # event.username
               \/ \E event \in events, old \in pressure :
                    /\ row.username = event.username /\ old.username = event.username
                    /\ row = MergedPressure(old, event, stamp)
    <3>1. CASE row \in untouched
      BY <1>2, <3>1
    <3>2. ASSUME NEW event \in events, About(event) = {}, row = Fresh[event]
          PROVE  /\ row.username = event.username
                 /\ \A old \in pressure : old.username # event.username
      BY <1>6, <1>9, <3>2
    <3>3. ASSUME NEW event \in events, NEW old \in About(event),
                 row = MergedPressure(old, event, stamp)
          PROVE  /\ row.username = event.username /\ old.username = event.username
                 /\ old \in pressure
      <4>1. old \in pressure /\ old.username = event.username
        BY <1>6, <3>3
      <4> QED BY <1>8, <3>3, <4>1
    <3> QED BY <1>5, <3>1, <3>2, <3>3
  <2>2. \A e, f \in events : e.username = f.username => e = f
    BY DEF OnePerUser
  <2>3. \A p, q \in pressure : p.username = q.username => p = q
    BY <1>1 DEF OnePerUser
  <2> HIDE DEF OnePerUser
  <2> QED BY <2>1, <2>2, <2>3
<1> QED BY <1>4, <1>10, <1>11, <1>12, <1>13

LEMMA RecordedShape ==
  ASSUME Shape, NEW h \in Handlers
  PROVE  LET rows == Recorded(handlers[h].events, handlers[h].at)
         IN  rows \subseteq SourceRows /\ OnePerUser(rows) /\ \A row \in rows : row.last_seen <= now
<1>1. PICK events, at : events = handlers[h].events /\ at = handlers[h].at
  OBVIOUS
<1>2. events \in SUBSET LogEvents /\ OnePerUser(events) /\ at \in Nat /\ at <= now /\ now \in Nat
  BY <1>1, Numbers DEF Shape, Envelopes
<1>3. \A row \in pressure : row.last_seen \in Nat /\ row.last_seen <= now
  BY DEF Shape, SourceRows
<1>4. PICK rows : rows = Recorded(events, at)
  OBVIOUS
<1>5. /\ rows \subseteq SourceRows /\ OnePerUser(rows)
      /\ \A row \in rows : RowOf(row, events, at)
  BY <1>2, <1>4, RecordedRows
<1>6. ASSUME NEW row \in rows PROVE row.last_seen <= now
  <2>1. CASE row \in pressure
    BY <1>3, <2>1
  <2>2. CASE row.last_seen = at
    BY <1>2, <2>2
  <2>3. ASSUME NEW old \in pressure, row.last_seen = Max({old.last_seen, at})
        PROVE  row.last_seen <= now
    BY <1>2, <1>3, <2>3, MaxOfTwo
  <2> QED BY <1>5, <2>1, <2>2, <2>3 DEF RowOf
<1> QED BY <1>1, <1>4, <1>5, <1>6

\* An attempt adds lines of this moment, and not many.
LEMMA AttemptAdds ==
  ASSUME Shape, Attempt
  PROVE  /\ IsFiniteSet(lines') /\ lines' \subseteq LogLines /\ lines \subseteq lines'
         /\ \A line \in lines' \ lines : line.at = now /\ line.user \in setup.users
<1>1. PICK user \in setup.users :
        lines' = lines \cup {[at |-> now, user |-> user, message |-> m] : m \in Messages(user)}
  BY DEF Attempt
<1>2. PICK written : written = {[at |-> now, user |-> user, message |-> m] : m \in Messages(user)}
  OBVIOUS
<1>3. PICK a, b : /\ a = [at |-> now, user |-> user, message |-> "failed password"]
                  /\ b = [at |-> now, user |-> user, message |-> "invalid user"]
  OBVIOUS
<1>4. written = {a} \/ written = {b, a}
  BY <1>2, <1>3 DEF Messages
<1>5. user \in Users /\ now \in Nat
  BY Numbers DEF Shape, Users
<1>6. a \in LogLines /\ b \in LogLines
  BY <1>3, <1>5 DEF LogLines
<1>7. IsFiniteSet(lines \cup {a}) /\ IsFiniteSet((lines \cup {a}) \cup {b})
  BY FS_AddElement DEF Shape
<1>8. lines' = lines \cup {a} \/ lines' = (lines \cup {a}) \cup {b}
  BY <1>1, <1>2, <1>4
<1>9. a.at = now /\ b.at = now /\ a.user = user /\ b.user = user
  BY <1>3
<1>10. IsFiniteSet(lines')
  BY <1>7, <1>8
<1>11. lines \subseteq LogLines
  BY DEF Shape
<1> QED BY <1>6, <1>8, <1>9, <1>10, <1>11

-----------------------------------------------------------------------------
\* The shape is inductive as it stands: there is at most one row of the asset and
\* of the source, and no envelope, row or retention cut is ahead of the clock,
\* whichever statement of whichever handler or purge runs (store_sample,
\* store_security, record_auth_pressure, purge).
THEOREM ShapeInvariant == StoreSpec => []Shape
<1>1. StoreInit => Shape
  <2> SUFFICES ASSUME StoreInit PROVE Shape
    OBVIOUS
  <2>1. setup.time \in Nat
    BY StoreAssumption DEF StoreInit
  <2>2. Free \in Envelopes /\ Free.at = 0 /\ OnePerUser(Free.events)
    BY DEF Free, Envelopes, OnePerUser
  <2>3. IsFiniteSet({})
    BY FS_EmptySet
  <2> QED BY <2>1, <2>2, <2>3 DEF StoreInit, Shape, Ticks, AtMostOne, OnePerUser, NoPurge
<1>2. Shape /\ [StoreNext]_storeVars => Shape'
  <2> SUFFICES ASSUME Shape, [StoreNext]_storeVars PROVE Shape'
    OBVIOUS
  <2> USE Numbers
  <2>1. CASE Tick
    <3>1. now' = now + 1 /\ now' \in Ticks
      BY <2>1 DEF Tick, Ticks
    <3>2. 0..now \subseteq 0..now'
      BY <3>1
    <3>3. \A h \in Handlers : handlers[h].at \in Nat
      BY DEF Shape, Envelopes
    <3>4. \A row \in pressure : row.last_seen \in Nat
      BY DEF Shape, SourceRows
    <3>5. purge.next # "none" => purge.cut <= now' - Retention
      BY <3>1 DEF Shape
    <3>6. \A line \in lines : line.at \in Nat
      BY DEF Shape, LogLines
    <3> QED BY <2>1, <3>1, <3>2, <3>3, <3>4, <3>5, <3>6
            DEF Tick, Shape, Ticks, Machines, Retention
  <2>2. CASE Attempt
    <3>1. /\ IsFiniteSet(lines') /\ lines' \subseteq LogLines
          /\ \A line \in lines' : line.at <= now /\ line.user \in setup.users
      <4>1. \A line \in lines : line.at <= now /\ line.user \in setup.users
        BY DEF Shape
      <4> QED BY <2>2, <4>1, AttemptAdds
    <3>2. UNCHANGED <<setup, now, machine, handlers, asset, telemetry, pressure, defense, purge>>
      BY <2>2 DEF Attempt
    <3> QED BY <3>1, <3>2 DEF Shape, Ticks, Machines, Retention
  <2>3. CASE Change
    BY <2>3 DEF Change, Shape, Ticks, Machines, Retention
  <2>4. CASE Defend
    BY <2>4 DEF Defend, Shape, Ticks, Machines, Retention
  <2>5. ASSUME NEW h \in Handlers, Send(h) PROVE Shape'
    <3> DEFINE sent == [next |-> "validate", at |-> now, role |-> machine.role,
                        surface |-> machine.surface, events |-> EventsUntil(now)]
    <3>1. EventsUntil(now) \subseteq LogEvents /\ OnePerUser(EventsUntil(now))
      BY EventsShape
    <3>2. machine.role \in setup.roles /\ machine.surface \in setup.surfaces
      BY DEF Shape, Machines
    <3>3. sent \in Envelopes /\ sent.at = now /\ OnePerUser(sent.events)
      BY <3>1, <3>2 DEF Shape, Envelopes, Statements
    <3>4. handlers' = [handlers EXCEPT ![h] = sent] /\ now' = now
      BY <2>5 DEF Send
    <3> HIDE DEF sent
    <3>5. /\ handlers' \in [Handlers -> Envelopes]
          /\ \A g \in Handlers : handlers'[g].at <= now' /\ OnePerUser(handlers'[g].events)
      BY <3>3, <3>4 DEF Shape
    <3> QED BY <2>5, <3>5 DEF Send, Shape, Ticks, Machines, Retention
  <2>6. ASSUME NEW h \in Handlers, ValidateEnvelope(h) PROVE Shape'
    <3>1. /\ handlers' \in [Handlers -> Envelopes]
          /\ \A g \in Handlers : handlers'[g].at <= now' /\ OnePerUser(handlers'[g].events)
      BY <2>6, HandlerShape, Steps DEF ValidateEnvelope
    <3>2. AtMostOne(asset')
      BY <2>6 DEF ValidateEnvelope, Shape, Upserted, AtMostOne
    <3> QED BY <2>6, <3>1, <3>2 DEF ValidateEnvelope, Shape, Ticks, Machines, Retention
  <2>7. ASSUME NEW h \in Handlers, InsertSample(h) PROVE Shape'
    <3>1. /\ handlers' \in [Handlers -> Envelopes]
          /\ \A g \in Handlers : handlers'[g].at <= now' /\ OnePerUser(handlers'[g].events)
      BY <2>7, HandlerShape, Steps DEF InsertSample
    <3>2. telemetry' \subseteq 0..now'
      <4>1. handlers[h].at \in 0..now
        BY DEF Shape, Envelopes
      <4> QED BY <2>7, <4>1 DEF InsertSample, Shape
    <3> QED BY <2>7, <3>1, <3>2 DEF InsertSample, Shape, Ticks, Machines, Retention
  <2>8. ASSUME NEW h \in Handlers, RefreshAsset(h) PROVE Shape'
    <3>1. /\ handlers' \in [Handlers -> Envelopes]
          /\ \A g \in Handlers : handlers'[g].at <= now' /\ OnePerUser(handlers'[g].events)
      BY <2>8, HandlerShape, Steps DEF RefreshAsset
    <3>2. AtMostOne(asset')
      BY <2>8 DEF RefreshAsset, Shape, AtMostOne
    <3> QED BY <2>8, <3>1, <3>2 DEF RefreshAsset, Shape, Ticks, Machines, Retention
  <2>9. ASSUME NEW h \in Handlers, StoreSurface(h) PROVE Shape'
    <3>1. /\ handlers' \in [Handlers -> Envelopes]
          /\ \A g \in Handlers : handlers'[g].at <= now' /\ OnePerUser(handlers'[g].events)
      BY <2>9, HandlerShape, Steps DEF StoreSurface
    <3>2. AtMostOne(asset')
      BY <2>9 DEF StoreSurface, Shape, AtMostOne
    <3> QED BY <2>9, <3>1, <3>2 DEF StoreSurface, Shape, Ticks, Machines, Retention
  <2>10. ASSUME NEW h \in Handlers, RecordPressure(h) PROVE Shape'
    <3>1. /\ handlers' \in [Handlers -> Envelopes]
          /\ \A g \in Handlers : handlers'[g].at <= now' /\ OnePerUser(handlers'[g].events)
      BY <2>10, HandlerShape, Steps DEF RecordPressure
    <3>5. /\ pressure' \subseteq SourceRows /\ OnePerUser(pressure')
          /\ \A row \in pressure' : row.last_seen <= now
      BY <2>10, RecordedShape DEF RecordPressure
    <3> QED BY <2>10, <3>1, <3>5 DEF RecordPressure, Shape, Ticks, Machines, Retention
  <2>11. ASSUME NEW h \in Handlers, Cut(h) PROVE Shape'
    <3>1. /\ handlers' \in [Handlers -> Envelopes]
          /\ \A g \in Handlers : handlers'[g].at <= now' /\ OnePerUser(handlers'[g].events)
      BY <2>11, HandlerShape, Steps DEF Cut
    <3> QED BY <2>11, <3>1 DEF Cut, Shape, Ticks, Machines, Retention
  <2>12. CASE BeginPurge
    <3>1. purge' = [next |-> "telemetry", cut |-> now - Retention] /\ now - Retention \in Int
      BY <2>12 DEF BeginPurge
    <3> QED BY <2>12, <3>1 DEF BeginPurge, Shape, Ticks, Machines, Retention
  <2>13. CASE PurgeTelemetry
    BY <2>13 DEF PurgeTelemetry, Shape, Ticks, Machines, Retention
  <2>14. CASE PurgePressure
    BY <2>14 DEF PurgePressure, Kept, Shape, OnePerUser, Ticks, Machines, Retention
  <2>15. CASE PurgeDefense
    <3>1. defense' \subseteq 0..now' /\ purge' = [next |-> "none", cut |-> 0]
      BY <2>15 DEF PurgeDefense, NoPurge, Shape
    <3> QED BY <2>15, <3>1 DEF PurgeDefense, Shape, Ticks, Machines, Retention
  <2>16. CASE FailPurge
    BY <2>16 DEF FailPurge, AfterFailure, NoPurge, Shape, Ticks, Machines, Retention
  <2>17. CASE UNCHANGED storeVars
    BY <2>17 DEF storeVars, Shape, Ticks, Machines, Retention
  <2> QED BY <2>1, <2>2, <2>3, <2>4, <2>5, <2>6, <2>7, <2>8, <2>9, <2>10, <2>11, <2>12, <2>13,
             <2>14, <2>15, <2>16, <2>17 DEF StoreNext, Serve, Purge
<1> QED BY <1>1, <1>2, PTL DEF StoreSpec

\* Every table keeps its type, and there is never more than one row of an asset,
\* or of a source and a user name (upsert_asset, record_auth_pressure).
THEOREM StoreTypeCorrect == StoreSpec => []StoreTypeOK
<1>1. Shape => StoreTypeOK
  <2> SUFFICES ASSUME Shape PROVE StoreTypeOK
    OBVIOUS
  <2>1. Cardinality(asset) <= 1
    BY FewRows DEF Shape
  <2>3. ASSUME NEW user PROVE Cardinality({row \in pressure : row.username = user}) <= 1
    <3>1. PICK rows : rows = {row \in pressure : row.username = user}
      OBVIOUS
    <3>2. AtMostOne(rows)
      BY <3>1 DEF Shape, OnePerUser, AtMostOne
    <3> QED BY <3>1, <3>2, FewRows
  <2>4. \A line \in lines : line.at \in Ticks /\ line.user \in setup.users
    <3>1. ASSUME NEW line \in lines PROVE line.at \in 0..now
      <4>1. line \in LogLines /\ line.at <= now
        BY DEF Shape
      <4>2. line.at \in Nat
        BY <4>1 DEF LogLines
      <4> QED BY <4>1, <4>2, Numbers
    <3>2. \A line \in lines : line.user \in setup.users
      BY DEF Shape
    <3> QED BY <3>1, <3>2, Numbers
  <2>5. telemetry \subseteq Ticks
    BY Numbers DEF Shape
  <2>2. \A h \in Handlers : handlers[h].next \in Statements \cup {"none"} /\ handlers[h].at \in Ticks
    <3>1. ASSUME NEW h \in Handlers
          PROVE  handlers[h].next \in Statements \cup {"none"} /\ handlers[h].at \in 0..now
      BY DEF Shape, Envelopes
    <3> QED BY <3>1, Numbers
  <2> QED BY <2>1, <2>2, <2>3, <2>4, <2>5 DEF StoreTypeOK, Shape
<1> QED BY <1>1, ShapeInvariant, PTL

\* No statement of a purge deletes what is within its window, although the cut
\* was computed before, and none touches the asset (purge).
THEOREM RetentionSpares == StoreSpec => RetentionSparesWindow
<1>1. Shape /\ [StoreNext]_storeVars => [DeletesOnlyExpired]_storeVars
  <2> SUFFICES ASSUME Shape, StoreNext PROVE DeletesOnlyExpired
    OBVIOUS
  <2> USE Numbers
  <2>1. /\ \A t \in telemetry \cup defense : t \in Nat
        /\ \A row \in pressure : row.last_seen \in Nat
        /\ purge.cut \in Int
        /\ purge.next # "none" => purge.cut <= now - Retention
    BY DEF Shape, SourceRows
  <2>2. CASE Tick \/ Attempt \/ Change
    BY <2>2 DEF Tick, Attempt, Change, DeletesOnlyExpired
  <2>3. CASE Defend
    BY <2>3 DEF Defend, DeletesOnlyExpired
  <2>4. ASSUME NEW h \in Handlers, Send(h) \/ Cut(h) PROVE DeletesOnlyExpired
    BY <2>4 DEF Send, Cut, DeletesOnlyExpired
  <2>5. ASSUME NEW h \in Handlers, Serve(h) PROVE DeletesOnlyExpired
    <3>1. CASE ValidateEnvelope(h) \/ InsertSample(h) \/ RefreshAsset(h) \/ StoreSurface(h)
      BY <3>1 DEF ValidateEnvelope, InsertSample, RefreshAsset, StoreSurface, DeletesOnlyExpired
    <3>2. CASE RecordPressure(h)
      <4>1. /\ handlers[h].events \in SUBSET LogEvents /\ OnePerUser(handlers[h].events)
            /\ handlers[h].at \in Nat
        BY DEF Shape, Envelopes
      <4>2. \A row \in pressure : \E kept \in pressure' : kept.username = row.username
        BY <3>2, <4>1, RecordedRows DEF RecordPressure
      <4> QED BY <3>2, <4>2 DEF RecordPressure, DeletesOnlyExpired
    <3> QED BY <2>5, <3>1, <3>2 DEF Serve
  <2>6. CASE BeginPurge \/ FailPurge
    BY <2>6 DEF BeginPurge, FailPurge, DeletesOnlyExpired
  <2>7. CASE PurgeTelemetry
    <3>1. purge.cut <= now - Retention
      BY <2>1, <2>7 DEF PurgeTelemetry
    <3> QED BY <2>1, <2>7, <3>1 DEF PurgeTelemetry, DeletesOnlyExpired
  <2>8. CASE PurgePressure
    <3>1. purge.cut <= now - Retention
      BY <2>1, <2>8 DEF PurgePressure
    <3>2. ASSUME NEW row \in pressure, row \notin pressure' PROVE row.last_seen < now - Retention
      BY <2>1, <2>8, <3>1, <3>2 DEF PurgePressure, Kept
    <3> QED BY <2>8, <3>2 DEF PurgePressure, DeletesOnlyExpired
  <2>9. CASE PurgeDefense
    <3>1. purge.cut <= now - Retention
      BY <2>1, <2>9 DEF PurgeDefense
    <3> QED BY <2>1, <2>9, <3>1 DEF PurgeDefense, DeletesOnlyExpired
  <2> QED BY <2>2, <2>3, <2>4, <2>5, <2>6, <2>7, <2>8, <2>9 DEF StoreNext, Purge
<1> QED BY <1>1, ShapeInvariant, PTL DEF StoreSpec, RetentionSparesWindow

-----------------------------------------------------------------------------
\* A report made at a moment, of what a log has: no event tells of more than failed
\* until then, and whoever failed before is told of, with no less.
Tallied(events, moment, log) ==
  /\ \A event \in events : event.failures <= Failures(log, event.username, Until(moment))
  /\ \A line \in log : line.at \in Before(moment) =>
       \E event \in events :
         /\ event.username = line.user
         /\ Failures(log, line.user, Before(moment)) <= event.failures

\* The rows: none shows more than failed in some window, and what failed before
\* one was last seen is in rows that were seen no earlier, which a purge that
\* spares the one spares too.
Accounted(rows, log) ==
  /\ \A row \in rows : \E moment \in Ticks :
       row.failures <= Failures(log, row.username, Until(moment))
  /\ \A row \in rows, line \in log : line.at \in Before(row.last_seen) =>
       \E other \in rows :
         /\ other.username = line.user /\ other.last_seen >= row.last_seen
         /\ Failures(log, line.user, Before(row.last_seen)) <= other.failures

Counted ==
  /\ \A h \in Handlers : Tallied(handlers[h].events, handlers[h].at, lines)
  /\ Accounted(pressure, lines)

\* A handler without an envelope reports nothing, of before the clock began.
LEMMA NothingReported ==
  ASSUME Shape PROVE Tallied(Free.events, Free.at, lines)
<1>1. Free.events = {} /\ Free.at = 0
  BY DEF Free
<1>2. \A line \in lines : line.at \in Nat
  BY DEF Shape, LogLines
<1>3. \A line \in lines : ~(line.at \in Before(0))
  BY <1>2, StoreAssumption DEF Before
<1> QED BY <1>1, <1>3 DEF Tallied

\* The agent reports what its log has.
LEMMA SentReported ==
  ASSUME Shape PROVE Tallied(EventsUntil(now), now, lines)
<1>1. PICK events : events = EventsUntil(now)
  OBVIOUS
<1>2. \A user : /\ Failures(lines, user, Until(now)) \in Nat
                /\ Failures(lines, user, Before(now)) \in Nat
  BY FailuresCount DEF Shape
<1>3. \A event \in events : event.failures = Failures(lines, event.username, Until(now))
  BY <1>1, EventsAre
<1>4. ASSUME NEW line \in lines, line.at \in Before(now)
      PROVE  \E event \in events :
               /\ event.username = line.user
               /\ Failures(lines, line.user, Before(now)) <= event.failures
  <2>1. line.user \in setup.users /\ IsFiniteSet(lines)
    BY DEF Shape
  <2>2. Before(now) \subseteq Until(now)
    BY Numbers DEF Before, Until
  <2>3. Failures(lines, line.user, Before(now)) <= Failures(lines, line.user, Until(now))
    BY <2>1, <2>2, FailuresGrow
  <2>4. Failures(lines, line.user, Until(now)) > 0
    <3>1. PICK counted :
            counted = {other \in lines : other.user = line.user /\ other.at \in Until(now)}
      OBVIOUS
    <3>2. line \in counted
      BY <1>4, <2>2, <3>1
    <3>3. IsFiniteSet(counted)
      BY <2>1, <3>1, FS_Subset
    <3>4. Cardinality(counted) # 0 /\ Cardinality(counted) \in Nat
      BY <3>2, <3>3, FS_EmptySet, FS_CardinalityType
    <3> QED BY <3>1, <3>4 DEF Failures
  <2>5. PICK event : event = [username |-> line.user,
                              failures |-> Failures(lines, line.user, Until(now))]
    OBVIOUS
  <2>6. event \in events
    BY <1>1, <2>1, <2>4, <2>5, EventsAre
  <2> QED BY <2>3, <2>5, <2>6
<1>5. \A event \in events : event.failures <= Failures(lines, event.username, Until(now))
  BY <1>2, <1>3
<1> QED BY <1>1, <1>4, <1>5 DEF Tallied

\* More lines, of now, take nothing from what was reported or stored before.
LEMMA LaterLines ==
  ASSUME NEW log, NEW longer, NEW last \in Nat, NEW moment \in Nat, moment <= last,
         IsFiniteSet(longer), log \subseteq longer,
         \A line \in longer \ log : line.at = last
  PROVE  /\ \A user : /\ Failures(longer, user, Before(moment)) = Failures(log, user, Before(moment))
                      /\ Failures(log, user, Until(moment)) <= Failures(longer, user, Until(moment))
         /\ \A line \in longer : line.at \in Before(moment) => line \in log
<1>1. ~(last \in Before(moment))
  BY StoreAssumption DEF Before
<1>2. \A line \in longer : line.at \in Before(moment) => line \in log
  BY <1>1
<1>3. ASSUME NEW user
      PROVE  Failures(longer, user, Before(moment)) = Failures(log, user, Before(moment))
  <2>1. {line \in longer : line.user = user /\ line.at \in Before(moment)}
          = {line \in log : line.user = user /\ line.at \in Before(moment)}
    BY <1>2
  <2> QED BY <2>1 DEF Failures
<1>4. \A user : Failures(log, user, Until(moment)) <= Failures(longer, user, Until(moment))
  BY FailuresGrow
<1> QED BY <1>2, <1>3, <1>4

LEMMA CountedAttempt ==
  ASSUME Shape, Counted, Attempt PROVE Counted'
<1> USE Numbers
<1>1. UNCHANGED <<setup, handlers, pressure>>
  BY DEF Attempt
<1>2. PICK longer : longer = lines'
  OBVIOUS
<1>3. /\ IsFiniteSet(longer) /\ lines \subseteq longer /\ IsFiniteSet(lines)
      /\ \A line \in longer \ lines : line.at = now
  BY <1>2, AttemptAdds DEF Shape
<1>4. \A user, moments : /\ Failures(lines, user, moments) \in Nat
                         /\ Failures(longer, user, moments) \in Nat
  BY <1>3, FailuresCount
<1>5. ASSUME NEW h \in Handlers
      PROVE  Tallied(handlers[h].events, handlers[h].at, longer)
  <2>1. handlers[h].at \in Nat /\ handlers[h].at <= now /\ handlers[h].events \in SUBSET LogEvents
    BY DEF Shape, Envelopes
  <2>2. Tallied(handlers[h].events, handlers[h].at, lines)
    BY DEF Counted
  <2>4. PICK events, at : events = handlers[h].events /\ at = handlers[h].at
    OBVIOUS
  <2>3. /\ \A user :
             /\ Failures(longer, user, Before(at)) = Failures(lines, user, Before(at))
             /\ Failures(lines, user, Until(at)) <= Failures(longer, user, Until(at))
        /\ \A line \in longer : line.at \in Before(at) => line \in lines
    <3>1. at \in Nat /\ at <= now /\ now \in Nat
      BY <2>1, <2>4
    <3> HIDE Numbers
    <3> QED BY <1>3, <3>1, LaterLines
  <2>5. ASSUME NEW event \in events
        PROVE  event.failures <= Failures(longer, event.username, Until(at))
    <3>1. event.failures \in Nat
      BY <2>1, <2>4 DEF LogEvents
    <3>2. event.failures <= Failures(lines, event.username, Until(at))
      BY <2>2, <2>4 DEF Tallied
    <3> QED BY <1>4, <2>3, <2>4, <3>1, <3>2
  <2>6. ASSUME NEW line \in longer, line.at \in Before(at)
        PROVE  \E event \in events :
                 /\ event.username = line.user
                 /\ Failures(longer, line.user, Before(at)) <= event.failures
    BY <2>2, <2>3, <2>4, <2>6 DEF Tallied
  <2> QED BY <2>4, <2>5, <2>6 DEF Tallied
<1>6. ASSUME NEW row \in pressure
      PROVE  \E moment \in Ticks : row.failures <= Failures(longer, row.username, Until(moment))
  <2>1. row.failures \in Nat
    BY DEF Shape, SourceRows
  <2>2. PICK moment \in Ticks : row.failures <= Failures(lines, row.username, Until(moment))
    BY DEF Counted, Accounted
  <2>3. Failures(lines, row.username, Until(moment)) <= Failures(longer, row.username, Until(moment))
    BY <1>3, FailuresGrow
  <2> QED BY <1>4, <2>1, <2>2, <2>3
<1>7. ASSUME NEW row \in pressure, NEW line \in longer, line.at \in Before(row.last_seen)
      PROVE  \E other \in pressure :
               /\ other.username = line.user /\ other.last_seen >= row.last_seen
               /\ Failures(longer, line.user, Before(row.last_seen)) <= other.failures
  <2>1. row.last_seen \in Nat /\ row.last_seen <= now
    BY DEF Shape, SourceRows
  <2>2. PICK moment : moment = row.last_seen
    OBVIOUS
  <2>3. line \in lines /\ Failures(longer, line.user, Before(moment)) = Failures(lines, line.user, Before(moment))
    <3>1. moment \in Nat /\ moment <= now /\ now \in Nat
      BY <2>1, <2>2
    <3>2. /\ \A user : Failures(longer, user, Before(moment)) = Failures(lines, user, Before(moment))
          /\ \A later \in longer : later.at \in Before(moment) => later \in lines
      <4> HIDE Numbers
      <4> QED BY <1>3, <3>1, LaterLines
    <3> QED BY <1>7, <2>2, <3>2
  <2> QED BY <1>7, <2>2, <2>3 DEF Counted, Accounted
<1>8. Accounted(pressure, longer)
  BY <1>6, <1>7 DEF Accounted
<1>9. Ticks' = Ticks
  BY <1>1 DEF Ticks
<1> QED BY <1>1, <1>2, <1>5, <1>8, <1>9 DEF Counted, Accounted

\* The rows a report is recorded in.
LEMMA RecordedAccounted ==
  ASSUME Shape, NEW events \in SUBSET LogEvents, OnePerUser(events), NEW stamp \in Nat,
         stamp \in Ticks, Tallied(events, stamp, lines), Accounted(pressure, lines)
  PROVE  Accounted(Recorded(events, stamp), lines)
<1>1. PICK rows : rows = Recorded(events, stamp)
  OBVIOUS
<1>2. /\ rows \subseteq SourceRows
      /\ \A row \in rows : RowOf(row, events, stamp)
      /\ \A old \in pressure : \E row \in rows :
           /\ row.username = old.username
           /\ row.failures >= old.failures /\ row.last_seen >= old.last_seen
      /\ \A event \in events : \E row \in rows :
           /\ row.username = event.username
           /\ row.failures >= event.failures /\ row.last_seen >= stamp
  BY <1>1, RecordedRows
<1>3. \A row \in pressure \cup rows : row.failures \in Nat /\ row.last_seen \in Nat
  BY <1>2 DEF Shape, SourceRows
<1>4. \A event \in events : event.failures \in Nat
  BY DEF LogEvents
<1>5. \A user, moments : Failures(lines, user, moments) \in Nat
  BY FailuresCount DEF Shape
<1>6. ASSUME NEW row \in rows
      PROVE  \E moment \in Ticks : row.failures <= Failures(lines, row.username, Until(moment))
  <2>1. CASE row \in pressure
    BY <2>1 DEF Accounted
  <2>2. ASSUME NEW event \in events, row.username = event.username, row.failures = event.failures
        PROVE  \E moment \in Ticks : row.failures <= Failures(lines, row.username, Until(moment))
    BY <2>2 DEF Tallied
  <2>3. ASSUME NEW event \in events, NEW old \in pressure, old.username = event.username,
               row.username = event.username, row.failures = Max({old.failures, event.failures})
        PROVE  \E moment \in Ticks : row.failures <= Failures(lines, row.username, Until(moment))
    <3>1. row.failures = old.failures \/ row.failures = event.failures
      BY <1>3, <1>4, <2>3, MaxOfTwo
    <3>2. PICK moment \in Ticks : old.failures <= Failures(lines, old.username, Until(moment))
      BY DEF Accounted
    <3> QED BY <2>2, <2>3, <3>1, <3>2
  <2> QED BY <1>2, <2>1, <2>2, <2>3 DEF RowOf
<1>7. ASSUME NEW old \in pressure, NEW line \in lines, line.at \in Before(old.last_seen)
      PROVE  \E other \in rows :
               /\ other.username = line.user /\ other.last_seen >= old.last_seen
               /\ Failures(lines, line.user, Before(old.last_seen)) <= other.failures
  <2>1. PICK covering \in pressure :
          /\ covering.username = line.user /\ covering.last_seen >= old.last_seen
          /\ Failures(lines, line.user, Before(old.last_seen)) <= covering.failures
    BY <1>7 DEF Accounted
  <2>2. PICK other \in rows :
          /\ other.username = covering.username
          /\ other.failures >= covering.failures /\ other.last_seen >= covering.last_seen
    BY <1>2
  <2>3. PICK n : n = Failures(lines, line.user, Before(old.last_seen)) /\ n \in Nat
    BY <1>5
  <2>4. n <= other.failures /\ other.last_seen >= old.last_seen
    BY <1>3, <2>1, <2>2, <2>3
  <2> QED BY <2>1, <2>2, <2>3, <2>4
<1>8. ASSUME NEW line \in lines, line.at \in Before(stamp)
      PROVE  \E other \in rows :
               /\ other.username = line.user /\ other.last_seen >= stamp
               /\ Failures(lines, line.user, Before(stamp)) <= other.failures
  <2>1. PICK event \in events :
          /\ event.username = line.user
          /\ Failures(lines, line.user, Before(stamp)) <= event.failures
    BY <1>8 DEF Tallied
  <2>2. PICK other \in rows :
          /\ other.username = event.username
          /\ other.failures >= event.failures /\ other.last_seen >= stamp
    BY <1>2
  <2>3. PICK n : n = Failures(lines, line.user, Before(stamp)) /\ n \in Nat
    BY <1>5
  <2>4. n <= other.failures
    BY <1>3, <1>4, <2>1, <2>2, <2>3
  <2> QED BY <2>1, <2>2, <2>3, <2>4
<1>9. ASSUME NEW row \in rows, NEW line \in lines, line.at \in Before(row.last_seen)
      PROVE  \E other \in rows :
               /\ other.username = line.user /\ other.last_seen >= row.last_seen
               /\ Failures(lines, line.user, Before(row.last_seen)) <= other.failures
  <2>1. row.last_seen = stamp \/ \E old \in pressure : row.last_seen = old.last_seen
    <3>1. ASSUME NEW old \in pressure, row.last_seen = Max({old.last_seen, stamp})
          PROVE  row.last_seen = stamp \/ row.last_seen = old.last_seen
      BY <1>3, <3>1, MaxOfTwo
    <3> QED BY <1>2, <3>1 DEF RowOf
  <2>2. CASE row.last_seen = stamp
    BY <1>8, <1>9, <2>2
  <2>3. ASSUME NEW old \in pressure, row.last_seen = old.last_seen
        PROVE  \E other \in rows :
                 /\ other.username = line.user /\ other.last_seen >= row.last_seen
                 /\ Failures(lines, line.user, Before(row.last_seen)) <= other.failures
    BY <1>7, <1>9, <2>3
  <2> QED BY <2>1, <2>2, <2>3
<1> QED BY <1>1, <1>6, <1>9 DEF Accounted

\* A purge that keeps a row keeps those seen no earlier.
LEMMA PurgedAccounted ==
  ASSUME Shape, Accounted(pressure, lines), NEW cut \in Int
  PROVE  Accounted(Kept(pressure, cut), lines)
<1>1. PICK rows : rows = Kept(pressure, cut)
  OBVIOUS
<1>2. \A row : row \in rows <=> row \in pressure /\ row.last_seen >= cut
  BY <1>1 DEF Kept
<1>3. \A row \in pressure : row.last_seen \in Nat
  BY DEF Shape, SourceRows
<1>4. \A row \in rows : \E moment \in Ticks : row.failures <= Failures(lines, row.username, Until(moment))
  BY <1>2 DEF Accounted
<1>5. ASSUME NEW row \in rows, NEW line \in lines, line.at \in Before(row.last_seen)
      PROVE  \E other \in rows :
               /\ other.username = line.user /\ other.last_seen >= row.last_seen
               /\ Failures(lines, line.user, Before(row.last_seen)) <= other.failures
  <2>1. row \in pressure /\ row.last_seen >= cut
    BY <1>2
  <2>2. PICK other \in pressure :
          /\ other.username = line.user /\ other.last_seen >= row.last_seen
          /\ Failures(lines, line.user, Before(row.last_seen)) <= other.failures
    BY <1>5, <2>1 DEF Accounted
  <2>3. other \in rows
    BY <1>2, <1>3, <2>1, <2>2
  <2> QED BY <2>2, <2>3
<1> QED BY <1>1, <1>4, <1>5 DEF Accounted

\* What a step leaves of the envelopes when it takes no new line.
LEMMA EnvelopesCounted ==
  ASSUME Shape, Counted, NEW g \in Handlers,
         \/ handlers'[g] = Free
         \/ /\ handlers'[g].at = handlers[g].at
            /\ handlers'[g].events = handlers[g].events
  PROVE  Tallied(handlers'[g].events, handlers'[g].at, lines)
<1>1. CASE handlers'[g] = Free
  BY <1>1, NothingReported
<1>2. CASE handlers'[g].at = handlers[g].at /\ handlers'[g].events = handlers[g].events
  BY <1>2 DEF Counted
<1> QED BY <1>1, <1>2

LEMMA CountedKept ==
  ASSUME Shape, Counted, setup' = setup, lines' = lines, Accounted(pressure', lines),
         \A g \in Handlers : \/ handlers'[g] = Free
                              \/ /\ handlers'[g].at = handlers[g].at
                                 /\ handlers'[g].events = handlers[g].events
  PROVE  Counted'
<1>1. \A g \in Handlers : Tallied(handlers'[g].events, handlers'[g].at, lines)
  BY EnvelopesCounted
<1>2. Ticks' = Ticks
  BY DEF Ticks
<1> QED BY <1>1, <1>2 DEF Counted, Accounted

LEMMA CountedStep ==
  ASSUME Shape, Counted, [StoreNext]_storeVars
  PROVE  Counted'
<1>0. Accounted(pressure, lines)
  BY DEF Counted
<1>1. CASE Tick \/ Change \/ Defend \/ BeginPurge \/ PurgeTelemetry \/ PurgeDefense \/ FailPurge \/ UNCHANGED storeVars
  <2>1. setup' = setup /\ lines' = lines /\ pressure' = pressure /\ handlers' = handlers
    BY <1>1 DEF Tick, Change, Defend, BeginPurge, PurgeTelemetry, PurgeDefense, FailPurge, storeVars
  <2> QED BY <1>0, <2>1, CountedKept
<1>2. CASE PurgePressure
  <2>1. /\ setup' = setup /\ lines' = lines /\ handlers' = handlers
        /\ pressure' = Kept(pressure, purge.cut)
    BY <1>2 DEF PurgePressure
  <2>2. purge.cut \in Int
    BY DEF Shape
  <2>3. Accounted(pressure', lines)
    BY <1>0, <2>1, <2>2, PurgedAccounted
  <2> QED BY <2>1, <2>3, CountedKept
<1>3. ASSUME NEW h \in Handlers,
             ValidateEnvelope(h) \/ InsertSample(h) \/ RefreshAsset(h) \/ StoreSurface(h) \/ Cut(h)
      PROVE  Counted'
  <2>1. setup' = setup /\ lines' = lines /\ pressure' = pressure
    BY <1>3 DEF ValidateEnvelope, InsertSample, RefreshAsset, StoreSurface, Cut
  <2>2. \E step \in Statements \cup {"none"} : Proceed(h, step)
    BY <1>3, Steps DEF ValidateEnvelope, InsertSample, RefreshAsset, StoreSurface, Cut
  <2> QED BY <1>0, <2>1, <2>2, ProceedKeeps, CountedKept
<1>4. CASE Attempt
  BY <1>4, CountedAttempt
<1>5. ASSUME NEW h \in Handlers, Send(h) PROVE Counted'
  <2>1. /\ lines' = lines /\ setup' = setup /\ pressure' = pressure
        /\ handlers' = [handlers EXCEPT ![h] =
             [next |-> "validate", at |-> now, role |-> machine.role,
              surface |-> machine.surface, events |-> EventsUntil(now)]]
    BY <1>5 DEF Send
  <2>2. Tallied(EventsUntil(now), now, lines)
    BY SentReported
  <2>3. \A g \in Handlers : Tallied(handlers'[g].events, handlers'[g].at, lines)
    <3>1. PICK events : events = EventsUntil(now)
      OBVIOUS
    <3>2. ASSUME NEW g \in Handlers
          PROVE  \/ handlers'[g] = handlers[g]
                 \/ handlers'[g].at = now /\ handlers'[g].events = events
      BY <2>1, <3>1 DEF Shape
    <3>3. \A g \in Handlers : Tallied(handlers[g].events, handlers[g].at, lines)
      BY DEF Counted
    <3> QED BY <2>2, <3>1, <3>2, <3>3
  <2>4. Ticks' = Ticks
    BY <2>1 DEF Ticks
  <2> QED BY <1>0, <2>1, <2>3, <2>4 DEF Counted, Accounted
<1>6. ASSUME NEW h \in Handlers, RecordPressure(h) PROVE Counted'
  <2>1. PICK events, at : events = handlers[h].events /\ at = handlers[h].at
    OBVIOUS
  <2>2. /\ lines' = lines /\ setup' = setup /\ Proceed(h, "none")
        /\ pressure' = Recorded(events, at)
    BY <1>6, <2>1 DEF RecordPressure
  <2>3. /\ events \in SUBSET LogEvents /\ OnePerUser(events) /\ at \in Nat /\ at \in 0..now
        /\ Tallied(events, at, lines)
    BY <2>1 DEF Shape, Envelopes, Counted
  <2>4. Accounted(pressure', lines)
    BY <1>0, <2>2, <2>3, Numbers, RecordedAccounted
  <2> QED BY <2>2, <2>4, Steps, ProceedKeeps, CountedKept
<1> QED BY <1>1, <1>2, <1>3, <1>4, <1>5, <1>6 DEF StoreNext, Serve, Purge

\* What a sum of failures counts: the rows, laid out, and for each the lines of
\* its user.
LEMMA ThreatsListed ==
  ASSUME NEW rows \in SUBSET SourceRows, IsFiniteSet(rows), OnePerUser(rows)
  PROVE  \E listed, s :
           /\ s \in Seq(Nat) /\ Len(s) = Len(listed) /\ Len(listed) \in Nat
           /\ ThreatFailures(rows) = Total(s)
           /\ \A i \in 1..Len(s) : listed[i] \in rows /\ s[i] = listed[i].failures
           /\ \A row \in rows : \E i \in 1..Len(s) : listed[i] = row
           /\ \A i, j \in 1..Len(s) : i # j => listed[i].username # listed[j].username
<1>1. PICK listed : listed = AsSeq(rows)
  OBVIOUS
<1>2. PICK s : s = [i \in DOMAIN listed |-> listed[i].failures]
  OBVIOUS
<1>3. ThreatFailures(rows) = Total(s)
  BY <1>1, <1>2 DEF ThreatFailures, SumOver
<1>4. /\ listed \in Seq(rows) /\ ToSet(listed) = rows
      /\ \A i, j \in DOMAIN listed : listed[i] = listed[j] => i = j
  BY <1>1, AsSeqLists
<1>5. PICK n \in Nat : n = Len(listed) /\ DOMAIN listed = 1..n
  BY <1>4
<1>6. \A i \in 1..n : listed[i] \in rows
  BY <1>4, <1>5
<1>7. \A row \in rows : row.failures \in Nat
  BY DEF SourceRows
<1>8. s = [i \in 1..n |-> listed[i].failures]
  BY <1>2, <1>5
<1>9. s \in [1..n -> Nat]
  BY <1>6, <1>7, <1>8
<1>10. s \in Seq(Nat) /\ Len(s) = n
  BY <1>9, SegmentIsSeq
<1>11. \A row \in rows : \E i \in 1..n : listed[i] = row
  BY <1>4, <1>5, ToSetIs
<1>12. \A i, j \in 1..n : i # j => listed[i].username # listed[j].username
  BY <1>4, <1>5, <1>6 DEF OnePerUser
<1>13. \A i \in 1..n : s[i] = listed[i].failures
  BY <1>8
<1> QED BY <1>3, <1>5, <1>6, <1>10, <1>11, <1>12, <1>13

LEMMA ThreatsWithin ==
  ASSUME NEW rows \in SUBSET SourceRows, IsFiniteSet(rows), OnePerUser(rows),
         NEW log, IsFiniteSet(log),
         \A row \in rows : \E moment : row.failures <= Failures(log, row.username, Until(moment))
  PROVE  ThreatFailures(rows) <= Cardinality(log)
<1>1. PICK listed, s :
        /\ s \in Seq(Nat) /\ Len(s) = Len(listed) /\ Len(listed) \in Nat
        /\ ThreatFailures(rows) = Total(s)
        /\ \A i \in 1..Len(s) : listed[i] \in rows /\ s[i] = listed[i].failures
        /\ \A row \in rows : \E i \in 1..Len(s) : listed[i] = row
        /\ \A i, j \in 1..Len(s) : i # j => listed[i].username # listed[j].username
  BY ThreatsListed
<1>2. PICK B : B = [i \in 1..Len(s) |-> {line \in log : line.user = listed[i].username}]
  OBVIOUS
<1>3. \A i \in 1..Len(s) : \A line : line \in B[i] <=> line \in log /\ line.user = listed[i].username
  BY <1>2
<1>4. ASSUME NEW i \in 1..Len(s) PROVE B[i] \in SUBSET log /\ s[i] <= Cardinality(B[i])
  <2>1. PICK moment : listed[i].failures <= Failures(log, listed[i].username, Until(moment))
    BY <1>1
  <2>2. PICK part : part = {line \in log : line.user = listed[i].username /\ line.at \in Until(moment)}
    OBVIOUS
  <2>3. part \subseteq B[i] /\ B[i] \subseteq log
    BY <1>3, <2>2
  <2>4. IsFiniteSet(B[i]) /\ IsFiniteSet(part)
    BY <2>3, FS_Subset
  <2>5. Cardinality(part) <= Cardinality(B[i])
    BY <2>3, <2>4, FS_Subset
  <2>6. Cardinality(part) \in Nat /\ Cardinality(B[i]) \in Nat
    BY <2>4, FS_CardinalityType
  <2>7. s[i] <= Cardinality(part) /\ s[i] \in Nat
    BY <1>1, <2>1, <2>2 DEF Failures
  <2> QED BY <2>3, <2>5, <2>6, <2>7
<1>5. ASSUME NEW i \in 1..Len(s), NEW j \in 1..Len(s), i # j PROVE B[i] \cap B[j] = {}
  <2>1. listed[i].username # listed[j].username
    BY <1>1, <1>5
  <2>2. \A line \in B[i] : line.user = listed[i].username
    BY <1>3
  <2>3. \A line \in B[j] : line.user = listed[j].username
    BY <1>3
  <2> QED BY <2>1, <2>2, <2>3
<1> QED BY <1>1, <1>4, <1>5, TotalWithin

LEMMA ThreatsCover ==
  ASSUME NEW rows \in SUBSET SourceRows, IsFiniteSet(rows), OnePerUser(rows),
         NEW log, IsFiniteSet(log), NEW moments,
         \A line \in log : line.at \in moments =>
           \E row \in rows : /\ row.username = line.user
                             /\ Failures(log, line.user, moments) <= row.failures
  PROVE  Cardinality({line \in log : line.at \in moments}) <= ThreatFailures(rows)
<1>1. PICK listed, s :
        /\ s \in Seq(Nat) /\ Len(s) = Len(listed) /\ Len(listed) \in Nat
        /\ ThreatFailures(rows) = Total(s)
        /\ \A i \in 1..Len(s) : listed[i] \in rows /\ s[i] = listed[i].failures
        /\ \A row \in rows : \E i \in 1..Len(s) : listed[i] = row
        /\ \A i, j \in 1..Len(s) : i # j => listed[i].username # listed[j].username
  BY ThreatsListed
<1>2. PICK U : U = {line \in log : line.at \in moments}
  OBVIOUS
<1>3. PICK B : B = [i \in 1..Len(s) |->
                      {line \in log : line.user = listed[i].username /\ line.at \in moments}]
  OBVIOUS
<1>4. \A i \in 1..Len(s) : \A line :
        line \in B[i] <=> line \in U /\ line.user = listed[i].username
  BY <1>2, <1>3
<1>5. IsFiniteSet(U) /\ U \subseteq log
  BY <1>2, FS_Subset
<1>6. ASSUME NEW i \in 1..Len(s) PROVE B[i] \in SUBSET U /\ Cardinality(B[i]) <= s[i]
  <2>1. B[i] \subseteq U
    BY <1>4
  <2>2. s[i] \in Nat /\ s[i] = listed[i].failures /\ listed[i] \in rows
    BY <1>1
  <2>3. CASE B[i] = {}
    BY <2>1, <2>2, <2>3, FS_EmptySet
  <2>4. ASSUME NEW line \in B[i] PROVE Cardinality(B[i]) <= s[i]
    <3>1. line \in log /\ line.at \in moments /\ line.user = listed[i].username
      BY <1>2, <1>4, <2>4
    <3>2. PICK row \in rows : /\ row.username = line.user
                              /\ Failures(log, line.user, moments) <= row.failures
      BY <3>1
    <3>3. row = listed[i]
      BY <2>2, <3>1, <3>2 DEF OnePerUser
    <3>4. Failures(log, listed[i].username, moments) <= listed[i].failures
      BY <3>1, <3>2, <3>3
    <3>5. B[i] = {other \in log : other.user = listed[i].username /\ other.at \in moments}
      BY <1>3
    <3>6. Cardinality(B[i]) = Failures(log, listed[i].username, moments)
      BY <3>5 DEF Failures
    <3> QED BY <2>2, <3>4, <3>6
  <2> QED BY <2>1, <2>3, <2>4
<1>7. ASSUME NEW line \in U PROVE \E i \in 1..Len(s) : line \in B[i]
  <2>1. PICK row \in rows : row.username = line.user
    BY <1>2
  <2>2. PICK i \in 1..Len(s) : listed[i] = row
    BY <1>1
  <2> QED BY <1>4, <2>1, <2>2
<1>8. Cardinality(U) <= Total(s)
  BY <1>1, <1>5, <1>6, <1>7, TotalCovers
<1> QED BY <1>1, <1>2, <1>8

\* There are no more rows than user names that failed.
LEMMA RowsFinite ==
  ASSUME Shape, Counted PROVE IsFiniteSet(pressure)
<1>1. PICK f : f = [line \in lines |-> CHOOSE row \in pressure : row.username = line.user]
  OBVIOUS
<1>2. ASSUME NEW row \in pressure PROVE \E line \in lines : f[line] = row
  <2>1. row.failures \in Nat \ {0}
    BY DEF Shape, SourceRows
  <2>2. PICK moment \in Ticks : row.failures <= Failures(lines, row.username, Until(moment))
    BY DEF Counted, Accounted
  <2>3. PICK counted :
          counted = {line \in lines : line.user = row.username /\ line.at \in Until(moment)}
    OBVIOUS
  <2>4. Cardinality(counted) # 0
    <3>1. row.failures <= Cardinality(counted)
      BY <2>2, <2>3 DEF Failures
    <3>2. IsFiniteSet(counted)
      BY <2>3, FS_Subset DEF Shape
    <3>3. Cardinality(counted) \in Nat
      BY <3>2, FS_CardinalityType
    <3> QED BY <2>1, <3>1, <3>3
  <2>5. PICK line \in lines : line.user = row.username
    <3>1. counted # {}
      BY <2>4, FS_EmptySet
    <3> QED BY <2>3, <3>1
  <2>6. \A other \in pressure : other.username = line.user => other = row
    BY <2>5 DEF Shape, OnePerUser
  <2>7. f[line] = CHOOSE other \in pressure : other.username = line.user
    BY <1>1
  <2>8. f[line] \in pressure /\ f[line].username = line.user
    BY <2>5, <2>7
  <2> QED BY <2>6, <2>8
<1>3. PICK image : image = {f[line] : line \in lines}
  OBVIOUS
<1>4. IsFiniteSet(image)
  <2>1. IsFiniteSet(lines) /\ DOMAIN f = lines
    BY <1>1 DEF Shape
  <2>2. IsFiniteSet({f[line] : line \in lines})
    BY <2>1, ImageFinite
  <2> QED BY <1>3, <2>2
<1>5. pressure \subseteq image
  BY <1>2, <1>3
<1> QED BY <1>4, <1>5, FS_Subset

\* A row never shows more than the log had of its user in some window, and the
\* threat report, which adds the rows up, never more than the log has lines nor
\* less than failed in the window before the source was last seen, although
\* windows overlap, envelopes are late and purges run (record_auth_pressure,
\* threat_sources, purge).
THEOREM PressureStaysBounded == StoreSpec => []PressureBounded
<1>1. StoreInit => Counted
  <2> SUFFICES ASSUME StoreInit PROVE Counted
    OBVIOUS
  <2>1. \A h \in Handlers : handlers[h].events = {}
    BY DEF StoreInit, Free
  <2>2. lines = {} /\ pressure = {}
    BY DEF StoreInit
  <2> QED BY <2>1, <2>2 DEF Counted, Tallied, Accounted
<1>2. Shape /\ Counted /\ [StoreNext]_storeVars => Counted'
  BY CountedStep
<1>3. Shape /\ Counted => PressureBounded
  <2> SUFFICES ASSUME Shape, Counted PROVE PressureBounded
    OBVIOUS
  <2>1. \A user, moment : FailuresUntil(user, moment) = Failures(lines, user, Until(moment))
    BY DEF FailuresUntil, FailuresAt, Failures, Until
  <2>2. /\ pressure \in SUBSET SourceRows /\ IsFiniteSet(pressure) /\ OnePerUser(pressure)
        /\ IsFiniteSet(lines)
    BY RowsFinite DEF Shape
  <2>3. \A row \in pressure : \E moment \in Ticks :
          row.failures <= Failures(lines, row.username, Until(moment))
    BY DEF Counted, Accounted
  <2>4. ThreatFailures(pressure) <= Cardinality(lines)
    BY <2>2, <2>3, ThreatsWithin
  <2>5. ASSUME NEW row \in pressure
        PROVE  Cardinality({line \in lines :
                              line.at \in (row.last_seen - Window + 1)..(row.last_seen - 1)})
                 <= ThreatFailures(pressure)
    <3>1. PICK moments : moments = Before(row.last_seen)
      OBVIOUS
    <3>2. \A line \in lines : line.at \in moments =>
            \E other \in pressure : /\ other.username = line.user
                                    /\ Failures(lines, line.user, moments) <= other.failures
      BY <3>1 DEF Counted, Accounted
    <3>3. Cardinality({line \in lines : line.at \in moments}) <= ThreatFailures(pressure)
      BY <2>2, <3>2, ThreatsCover
    <3> QED BY <3>1, <3>3 DEF Before
  <2> QED BY <2>1, <2>3, <2>4, <2>5 DEF PressureBounded
<1> QED BY <1>1, <1>2, <1>3, ShapeInvariant, PTL DEF StoreSpec
-----------------------------------------------------------------------------
\* What the reports count of a surface.

Surfaces == {NoSignals} \cup UNION {s.surfaces : s \in StoreSetups}

LEMMA SurfaceLists ==
  \A signals \in Surfaces :
    /\ signals.listeners \in Seq(ToSet(signals.listeners))
    /\ \A socket \in ToSet(signals.listeners) : socket.scope \in Scopes
<1>1. <<>> \in Seq(ToSet(<<>>)) /\ ToSet(<<>>) = {}
  BY ToSetIs
<1>2. NoSignals.listeners = <<>>
  BY DEF NoSignals
<1> QED BY <1>1, <1>2, StoreAssumption DEF Surfaces

Reaching(signals) == {socket \in ToSet(signals.listeners) : socket.scope # "loopback"}
OfScope(signals, scope) == {socket \in ToSet(signals.listeners) : socket.scope = scope}

LEMMA ExposedAre ==
  ASSUME NEW signals \in Surfaces
  PROVE  /\ Len(ExposedListeners(signals)) = Cardinality(Hits(signals.listeners, Reaching(signals)))
         /\ ToSet(ExposedListeners(signals)) = Reaching(signals)
<1>1. PICK l, T, r : l = signals.listeners /\ T = Reaching(signals) /\ r = ExposedListeners(signals)
  OBVIOUS
<1>2. r = FlattenSeq([i \in DOMAIN l |-> IF l[i].scope # "loopback" THEN <<l[i]>> ELSE <<>>])
  BY <1>1 DEF ExposedListeners, Where
<1>3. l \in Seq(ToSet(l))
  BY <1>1, SurfaceLists
<1>4. \A i \in DOMAIN l : l[i].scope # "loopback" <=> l[i] \in T
  BY <1>1, ToSetIs DEF Reaching
<1>5. PICK g : g = [i \in DOMAIN l |-> IF l[i] \in T THEN <<l[i]>> ELSE <<>>]
  OBVIOUS
<1>6. g = [i \in DOMAIN l |-> IF l[i].scope # "loopback" THEN <<l[i]>> ELSE <<>>]
  BY <1>4, <1>5
<1>7. r = FlattenSeq(g)
  BY <1>2, <1>6
<1>8. Len(r) = Cardinality(Hits(l, T))
  BY <1>3, <1>5, <1>7, SelectedLength
<1>9. ToSet(r) = ToSet(l) \cap T
  BY <1>3, <1>5, <1>7, Selection
<1>10. T \subseteq ToSet(l)
  BY <1>1 DEF Reaching
<1> QED BY <1>1, <1>8, <1>9, <1>10

LEMMA WithinCounts ==
  ASSUME NEW signals \in Surfaces, NEW scope
  PROVE  Within(signals, scope) = Cardinality(Hits(signals.listeners, OfScope(signals, scope)))
<1>1. PICK l, T, r : /\ l = signals.listeners /\ T = OfScope(signals, scope)
                     /\ r = Where(signals.listeners, LAMBDA socket : socket.scope = scope)
  OBVIOUS
<1>2. r = FlattenSeq([i \in DOMAIN l |-> IF l[i].scope = scope THEN <<l[i]>> ELSE <<>>])
  BY <1>1 DEF Where
<1>a. Within(signals, scope) = Len(r)
  BY <1>1 DEF Within
<1>b. l = signals.listeners /\ T = OfScope(signals, scope)
  BY <1>1
<1>3. l \in Seq(ToSet(l))
  BY <1>b, SurfaceLists
<1>4. \A i \in DOMAIN l : l[i].scope = scope <=> l[i] \in T
  BY <1>b, ToSetIs DEF OfScope
<1>5. PICK g : g = [i \in DOMAIN l |-> IF l[i] \in T THEN <<l[i]>> ELSE <<>>]
  OBVIOUS
<1>6. g = [i \in DOMAIN l |-> IF l[i].scope = scope THEN <<l[i]>> ELSE <<>>]
  BY <1>4, <1>5
<1>7. r = FlattenSeq(g)
  BY <1>2, <1>6
<1>8. Len(r) = Cardinality(Hits(l, T))
  BY <1>3, <1>5, <1>7, SelectedLength
<1> QED BY <1>a, <1>b, <1>8

\* What is reachable is public or private, and counted once.
LEMMA ScopesAdd ==
  ASSUME NEW signals \in Surfaces
  PROVE  /\ Within(signals, "public") \in Nat /\ Within(signals, "private") \in Nat
         /\ Len(ExposedListeners(signals)) = Within(signals, "public") + Within(signals, "private")
         /\ Within(signals, "public") > 0 <=>
              \E socket \in ToSet(ExposedListeners(signals)) : socket.scope = "public"
<1>1. PICK l : l = signals.listeners
  OBVIOUS
<1>2. l \in Seq(ToSet(l)) /\ \A socket \in ToSet(l) : socket.scope \in Scopes
  BY <1>1, SurfaceLists
<1>3. PICK A, B, C : /\ A = Hits(l, Reaching(signals))
                     /\ B = Hits(l, OfScope(signals, "public"))
                     /\ C = Hits(l, OfScope(signals, "private"))
  OBVIOUS
<1>4. IsFiniteSet(B) /\ IsFiniteSet(C) /\ Cardinality(B) \in Nat /\ Cardinality(C) \in Nat
  BY <1>2, <1>3, HitsFinite
<1>5. \A i \in DOMAIN l : l[i] \in ToSet(l)
  BY ToSetIs
<1>6. A = B \cup C /\ B \cap C = {}
  BY <1>1, <1>2, <1>3, <1>5 DEF Hits, Reaching, OfScope, Scopes
<1>7. Cardinality(A) = Cardinality(B) + Cardinality(C)
  <2>1. Cardinality(B \cap C) = 0
    BY <1>6, FS_EmptySet
  <2>2. Cardinality(B \cup C) = Cardinality(B) + Cardinality(C) - Cardinality(B \cap C)
    BY <1>4, FS_Union
  <2> QED BY <1>4, <1>6, <2>1, <2>2
<1>8. /\ Within(signals, "public") = Cardinality(B) /\ Within(signals, "private") = Cardinality(C)
      /\ Len(ExposedListeners(signals)) = Cardinality(A)
  BY <1>1, <1>3, WithinCounts, ExposedAre
<1>9. Cardinality(B) > 0 <=> B # {}
  BY <1>4, FS_EmptySet
<1>10. B # {} <=> \E socket \in ToSet(l) : socket.scope = "public"
  <2>1. \A socket \in ToSet(l) : \E i \in DOMAIN l : l[i] = socket
    BY ToSetIs
  <2> QED BY <1>1, <1>3, <1>5, <2>1 DEF Hits, OfScope
<1>11. \A socket : socket \in ToSet(ExposedListeners(signals))
                     <=> socket \in ToSet(l) /\ socket.scope # "loopback"
  BY <1>1, ExposedAre DEF Reaching
<1> QED BY <1>4, <1>7, <1>8, <1>9, <1>10, <1>11

\* A sum over one row, and over none.
LEMMA SumOfOne ==
  ASSUME NEW f \in [1..1 -> Nat]
  PROVE  Total(f) = f[1]
<1>1. f \in Seq(Nat) /\ Len(f) = 1
  BY SegmentIsSeq
<1>2. 0 \in Nat /\ \A v1, w1 \in Nat : v1 + w1 \in Nat
  OBVIOUS
<1>3. PICK sums : Sums(sums, f, Nat)
  BY <1>1, <1>2, TotalSteps
<1>4. sums[0] = 0 /\ sums[1] = sums[0] + f[1] /\ Total(f) = sums[1]
  BY <1>1, <1>3 DEF Sums
<1> QED BY <1>4

LEMMA SumOfNone ==
  ASSUME NEW f \in [1..0 -> Nat]
  PROVE  Total(f) = 0
<1>1. f \in Seq(Nat) /\ Len(f) = 0
  BY SegmentIsSeq
<1>2. 0 \in Nat /\ \A v1, w1 \in Nat : v1 + w1 \in Nat
  OBVIOUS
<1>3. PICK sums : Sums(sums, f, Nat)
  BY <1>1, <1>2, TotalSteps
<1> QED BY <1>1, <1>3 DEF Sums

LEMMA ServicesOf ==
  ASSUME NEW row, NEW scope
  PROVE  /\ \A signals \in Surfaces :
              row.security = {signals} => ServicesWithin(row, scope) = Within(signals, scope)
         /\ row.security = {} => ServicesWithin(row, scope) = 0
<1>1. PICK listed : listed = AsSeq(row.security)
  OBVIOUS
<1>2. PICK f : f = [i \in DOMAIN listed |-> Within(listed[i], scope)]
  OBVIOUS
<1>3. ServicesWithin(row, scope) = Total(f)
  BY <1>1, <1>2 DEF ServicesWithin, SumOver
<1>5. ASSUME NEW signals \in Surfaces, row.security = {signals}
      PROVE  ServicesWithin(row, scope) = Within(signals, scope)
  <2>1. PICK v : v = Within(signals, scope)
    OBVIOUS
  <2>2. v \in Nat
    <3>1. signals.listeners \in Seq(ToSet(signals.listeners))
      BY SurfaceLists
    <3> QED BY <2>1, <3>1, WithinCounts, HitsFinite
  <2>3. DOMAIN listed = 1..1 /\ listed[1] = signals
    <3>1. IsFiniteSet({signals}) /\ Cardinality({signals}) = 1
      BY FS_Singleton
    <3>2. listed \in Seq({signals}) /\ Len(listed) = 1
      BY <1>1, <1>5, <3>1, AsSeqLists
    <3> QED BY <3>2, LenProperties
  <2>4. f \in [1..1 -> Nat] /\ f[1] = v
    BY <1>2, <2>1, <2>2, <2>3
  <2>5. Total(f) = v
    BY <2>4, SumOfOne
  <2> QED BY <1>3, <2>1, <2>5
<1>6. ASSUME row.security = {} PROVE ServicesWithin(row, scope) = 0
  <2>1. listed = AsSeq({})
    BY <1>1, <1>6
  <2>2. DOMAIN listed = 1..0
    <3>1. IsFiniteSet({}) /\ Cardinality({}) = 0
      BY FS_EmptySet
    <3>2. listed \in Seq({}) /\ Len(listed) = 0
      BY <2>1, <3>1, AsSeqLists
    <3> QED BY <3>2, LenProperties
  <2>3. f \in [1..0 -> Nat]
    BY <1>2, <2>2
  <2> QED BY <1>3, <2>3, SumOfNone
<1> QED BY <1>5, <1>6
-----------------------------------------------------------------------------
\* The row of the asset: its surface and its count are written together, and its
\* metrics before its surface.

AssetRows ==
  [role : {"internal"} \cup UNION {s.roles : s \in StoreSetups}, last_seen : Nat,
   metrics : SUBSET Nat, security : SUBSET Surfaces, exposed : Nat]

Whole(row) ==
  /\ \/ row.security = {} /\ row.exposed = 0
     \/ \E signals \in Surfaces :
          row.security = {signals} /\ row.exposed = Len(ExposedListeners(signals))
  /\ row.security # {} => row.metrics # {}

Written ==
  /\ asset \subseteq AssetRows
  /\ \A row \in asset : Whole(row)
  /\ \A h \in Handlers :
       /\ handlers[h].next \in {"insert", "refresh", "surface"} => asset # {}
       /\ handlers[h].next = "surface" => \A row \in asset : row.metrics # {}

\* A handler that proceeds is at its next statement, and the others where they were.
LEMMA ProceedAt ==
  ASSUME Shape, NEW h \in Handlers, NEW step \in Statements \cup {"none"}, Proceed(h, step)
  PROVE  \A g \in Handlers :
           /\ g # h => handlers'[g].next = handlers[g].next
           /\ g = h => handlers'[g].next = step
<1> DEFINE moved == [handlers[h] EXCEPT !.next = step]
<1>1. handlers[h] \in Envelopes /\ handlers \in [Handlers -> Envelopes]
  BY DEF Shape
<1>2. moved.next = step /\ Free.next = "none"
  BY <1>1 DEF Envelopes, Free
<1>3. handlers' = [handlers EXCEPT ![h] = IF step = "none" THEN Free ELSE moved]
  BY DEF Proceed
<1> HIDE DEF moved
<1> QED BY <1>1, <1>2, <1>3

LEMMA WrittenStep ==
  ASSUME Shape, Written, [StoreNext]_storeVars PROVE Written'
<1>0. now \in Nat /\ \A h \in Handlers : handlers[h] \in Envelopes
  BY Numbers DEF Shape
<1>1. CASE Tick \/ Attempt \/ Change \/ Defend \/ Purge \/ FailPurge \/ UNCHANGED storeVars
  <2>1. asset' = asset /\ handlers' = handlers
    BY <1>1 DEF Tick, Attempt, Change, Defend, Purge, BeginPurge, PurgeTelemetry, PurgePressure,
                PurgeDefense, FailPurge, storeVars
  <2> QED BY <2>1 DEF Written
<1>2. ASSUME NEW h \in Handlers, Send(h) PROVE Written'
  <2>1. asset' = asset
    BY <1>2 DEF Send
  <2>2. \A g \in Handlers : handlers'[g].next = handlers[g].next \/ handlers'[g].next = "validate"
    BY <1>2 DEF Send, Shape
  <2> QED BY <2>1, <2>2 DEF Written
<1>3. ASSUME NEW h \in Handlers, ValidateEnvelope(h) PROVE Written'
  <2>1. CASE asset' = asset /\ Proceed(h, "none")
    <3>1. \A g \in Handlers : handlers'[g].next = handlers[g].next \/ handlers'[g].next = "none"
      BY <2>1, Steps, ProceedAt
    <3> QED BY <2>1, <3>1 DEF Written
  <2>2. CASE asset' = Upserted(handlers[h].role) /\ Proceed(h, "insert")
    <3>1. \A g \in Handlers : handlers'[g].next = handlers[g].next \/ handlers'[g].next = "insert"
      BY <2>2, Steps, ProceedAt
    <3>2. PICK r : r = handlers[h].role /\ r \in {"internal"} \cup UNION {s.roles : s \in StoreSetups}
      BY <1>0 DEF Envelopes
    <3>3. CASE asset = {}
      <4>1. asset' = {[role |-> r, last_seen |-> now, metrics |-> {}, security |-> {}, exposed |-> 0]}
        BY <2>2, <3>2, <3>3 DEF Upserted
      <4>2. \A row \in asset' : row \in AssetRows /\ Whole(row)
        BY <1>0, <3>2, <4>1 DEF AssetRows, Whole
      <4>3. \A g \in Handlers : handlers'[g].next # "surface"
        BY <3>1, <3>3 DEF Written
      <4> QED BY <4>1, <4>2, <4>3 DEF Written
    <3>4. CASE asset # {}
      <4>1. asset' = {[row EXCEPT !.role = r, !.last_seen = now] : row \in asset}
        BY <2>2, <3>2, <3>4 DEF Upserted
      <4>2. ASSUME NEW old \in asset, NEW row, row = [old EXCEPT !.role = r, !.last_seen = now]
            PROVE  row \in AssetRows /\ Whole(row) /\ row.metrics = old.metrics
        <5>1. old \in AssetRows /\ Whole(old)
          BY DEF Written
        <5>2. row \in AssetRows /\ row.security = old.security /\ row.exposed = old.exposed
              /\ row.metrics = old.metrics
          BY <1>0, <3>2, <4>2, <5>1 DEF AssetRows
        <5> QED BY <5>1, <5>2 DEF Whole
      <4>3. \A row \in asset' : \E old \in asset :
              row \in AssetRows /\ Whole(row) /\ row.metrics = old.metrics
        BY <4>1, <4>2
      <4>4. asset' # {}
        BY <3>4, <4>1
      <4> QED BY <3>1, <4>3, <4>4 DEF Written
    <3> QED BY <3>3, <3>4
  <2> QED BY <1>3, <2>1, <2>2 DEF ValidateEnvelope
<1>4. ASSUME NEW h \in Handlers, InsertSample(h) PROVE Written'
  <2>1. asset' = asset /\ Proceed(h, "refresh") /\ handlers[h].next = "insert"
    BY <1>4 DEF InsertSample
  <2>2. \A g \in Handlers : \/ handlers'[g].next = handlers[g].next
                            \/ handlers'[g].next = "refresh" /\ g = h
    BY <2>1, Steps, ProceedAt
  <2> QED BY <2>1, <2>2 DEF Written
<1>5. ASSUME NEW h \in Handlers, RefreshAsset(h) PROVE Written'
  <2>1. PICK at : at = handlers[h].at
    OBVIOUS
  <2>2. /\ asset' = {[row EXCEPT !.last_seen = now, !.metrics = {at}] : row \in asset}
        /\ Proceed(h, "surface") /\ handlers[h].next = "refresh"
    BY <1>5, <2>1 DEF RefreshAsset
  <2>3. \A g \in Handlers : \/ handlers'[g].next = handlers[g].next
                            \/ handlers'[g].next = "surface" /\ g = h
    BY <2>2, Steps, ProceedAt
  <2>4. at \in Nat
    BY <1>0, <2>1 DEF Envelopes
  <2>5. ASSUME NEW old \in asset, NEW row, row = [old EXCEPT !.last_seen = now, !.metrics = {at}]
        PROVE  row \in AssetRows /\ Whole(row) /\ row.metrics # {}
    <3>1. old \in AssetRows /\ Whole(old)
      BY DEF Written
    <3>2. row \in AssetRows /\ row.security = old.security /\ row.exposed = old.exposed
          /\ row.metrics = {at}
      BY <1>0, <2>4, <2>5, <3>1 DEF AssetRows
    <3> QED BY <3>1, <3>2 DEF Whole
  <2>6. \A row \in asset' : row \in AssetRows /\ Whole(row) /\ row.metrics # {}
    BY <2>2, <2>5
  <2>7. asset # {} => asset' # {}
    BY <2>2
  <2>8. asset # {}
    BY <2>2 DEF Written
  <2> QED BY <2>3, <2>6, <2>7, <2>8 DEF Written
<1>6. ASSUME NEW h \in Handlers, StoreSurface(h) PROVE Written'
  <2>1. PICK signals : signals = handlers[h].surface /\ signals \in Surfaces
    BY <1>0 DEF Envelopes, Surfaces
  <2>2. /\ asset' = {WithSurface(row, signals) : row \in asset}
        /\ Proceed(h, "pressure") /\ handlers[h].next = "surface"
    BY <1>6, <2>1 DEF StoreSurface
  <2>3. \A g \in Handlers : handlers'[g].next = handlers[g].next \/ handlers'[g].next = "pressure"
    BY <2>2, Steps, ProceedAt
  <2>4. PICK n : n = Len(ExposedListeners(signals))
    OBVIOUS
  <2>5. n \in Nat
    BY <2>1, <2>4, ScopesAdd
  <2>6. ASSUME NEW old \in asset, NEW row, row = WithSurface(old, signals)
        PROVE  row \in AssetRows /\ Whole(row) /\ row.metrics = old.metrics
    <3>1. old \in AssetRows /\ old.metrics # {}
      BY <2>2 DEF Written
    <3>2. row = [old EXCEPT !.security = {signals}, !.exposed = n]
      BY <2>4, <2>6 DEF WithSurface
    <3>3. row \in AssetRows /\ row.security = {signals} /\ row.exposed = n
          /\ row.metrics = old.metrics
      BY <2>1, <2>5, <3>1, <3>2 DEF AssetRows
    <3> QED BY <2>1, <2>4, <3>1, <3>3 DEF Whole
  <2>7. \A row \in asset' : \E old \in asset :
          row \in AssetRows /\ Whole(row) /\ row.metrics = old.metrics
    BY <2>2, <2>6
  <2>8. asset # {} => asset' # {}
    BY <2>2
  <2> QED BY <2>3, <2>7, <2>8 DEF Written
<1>7. ASSUME NEW h \in Handlers, RecordPressure(h) \/ Cut(h) PROVE Written'
  <2>1. asset' = asset /\ Proceed(h, "none")
    BY <1>7 DEF RecordPressure, Cut
  <2>2. \A g \in Handlers : handlers'[g].next = handlers[g].next \/ handlers'[g].next = "none"
    BY <2>1, Steps, ProceedAt
  <2> QED BY <2>1, <2>2 DEF Written
<1> QED BY <1>1, <1>2, <1>3, <1>4, <1>5, <1>6, <1>7 DEF StoreNext, Serve

LEMMA WrittenInvariant == StoreSpec => []Written
<1>1. StoreInit => Written
  BY DEF StoreInit, Written, Free
<1>2. Shape /\ Written /\ [StoreNext]_storeVars => Written'
  BY WrittenStep
<1> QED BY <1>1, <1>2, ShapeInvariant, PTL DEF StoreSpec

\* What the console shows of one row agrees, for a row that is whole.
LEMMA RowAgrees ==
  ASSUME NEW row \in AssetRows, Whole(row)
  PROVE  /\ row.exposed = ServicesWithin(row, "public") + ServicesWithin(row, "private")
         /\ Zone(row) = "exposed" <=> \E socket \in Entries(row) : socket.scope = "public"
         /\ Uninspected(row) => Entries(row) = {} /\ row.exposed = 0
         /\ row.security # {} => row.metrics # {}
         /\ \A socket \in Entries(row) : socket.scope = "public" => EntrySeverity(row, socket) > Info
<1>1. \A socket : socket.scope = "public" => EntrySeverity(row, socket) > Info
  <2> SUFFICES ASSUME NEW socket, socket.scope = "public"
               PROVE  EntrySeverity(row, socket) > Info
    OBVIOUS
  <2>1. PICK class : class = PortClass(socket.port)
    OBVIOUS
  <2>2. class \in {"remote-admin", "database", "infrastructure", "cleartext", "file-share", "mail",
                   "web", "other"}
    BY <2>1 DEF PortClass
  <2>3. Intrinsic(class) \in {1, 2, 3, 4}
    BY <2>2 DEF Intrinsic, Low, Medium, High, Critical
  <2>4. EntrySeverity(row, socket) \in {4, Intrinsic(class)}
    BY <2>1 DEF EntrySeverity, ExposureSeverity, Critical
  <2> QED BY <2>3, <2>4 DEF Info
<1>2. PICK public, private : /\ public = ServicesWithin(row, "public")
                             /\ private = ServicesWithin(row, "private")
  OBVIOUS
<1>3. CASE row.security = {}
  <2>1. public = 0 /\ private = 0
    BY <1>2, <1>3, ServicesOf
  <2>2. row.exposed = 0
    BY <1>3 DEF Whole
  <2>3. Entries(row) = {}
    BY <1>3 DEF Entries
  <2>4. Zone(row) # "exposed"
    BY <1>2, <2>1 DEF Zone
  <2> QED BY <1>1, <1>2, <1>3, <2>1, <2>2, <2>3, <2>4
<1>4. ASSUME NEW signals \in Surfaces, row.security = {signals},
             row.exposed = Len(ExposedListeners(signals))
      PROVE  /\ row.exposed = public + private
             /\ Zone(row) = "exposed" <=> \E socket \in Entries(row) : socket.scope = "public"
             /\ Uninspected(row) => Entries(row) = {} /\ row.exposed = 0
  <2>1. public = Within(signals, "public") /\ private = Within(signals, "private")
    BY <1>2, <1>4, ServicesOf
  <2>2. row.exposed = public + private
    BY <1>4, <2>1, ScopesAdd
  <2>3. \A socket : socket \in Entries(row) <=> socket \in ToSet(ExposedListeners(signals))
    BY <1>4 DEF Entries
  <2>4. Zone(row) = "exposed" <=> public > 0
    BY <1>2 DEF Zone
  <2>5. public > 0 <=> \E socket \in Entries(row) : socket.scope = "public"
    BY <2>1, <2>3, ScopesAdd
  <2>6. ASSUME Uninspected(row) PROVE Entries(row) = {} /\ row.exposed = 0
    <3>1. signals.listeners = <<>>
      BY <1>4, <2>6 DEF Uninspected
    <3>2. ToSet(<<>>) = {} /\ DOMAIN <<>> = {}
      BY ToSetIs
    <3>3. Reaching(signals) = {} /\ Hits(signals.listeners, Reaching(signals)) = {}
      BY <3>1, <3>2 DEF Reaching, Hits
    <3>4. Cardinality({}) = 0
      BY FS_EmptySet
    <3> QED BY <1>4, <2>3, <3>3, <3>4, ExposedAre
  <2> QED BY <2>2, <2>4, <2>5, <2>6
<1>5. row.security # {} => row.metrics # {}
  BY DEF Whole
<1> QED BY <1>1, <1>2, <1>3, <1>4, <1>5 DEF Whole

\* Whole seconds and instants: what the status and the count make of an age.
LEMMA WholeSeconds ==
  ASSUME NEW second \in Nat \ {0}, NEW a \in Nat, NEW b \in Nat, NEW k \in Nat
  PROVE  /\ b >= a - k * second => a \div second - b \div second <= k
         /\ a \div second - b \div second <= k => a - b <= k * second + second - 1
<1>1. PICK q, r \in Nat : q = a \div second /\ r = a % second /\ r < second /\ a = second * q + r
  OBVIOUS
<1>2. PICK p, t \in Nat : p = b \div second /\ t = b % second /\ t < second /\ b = second * p + t
  OBVIOUS
<1>3. ASSUME b >= a - k * second, ~(q - p <= k) PROVE FALSE
  <2>1. q - p - k - 1 >= 0
    BY <1>3
  <2>2. second * (q - p - k - 1) >= 0
    BY <2>1
  <2>3. second * (q - p - k - 1) = second * q - second * p - k * second - second
    OBVIOUS
  <2> QED BY <1>1, <1>2, <1>3, <2>2, <2>3
<1>4. ASSUME q - p <= k PROVE a - b <= k * second + second - 1
  <2>1. second * (k - (q - p)) >= 0
    BY <1>4
  <2>2. second * (k - (q - p)) = k * second - second * q + second * p
    OBVIOUS
  <2> QED BY <1>1, <1>2, <2>1, <2>2
<1> QED BY <1>1, <1>2, <1>3, <1>4

LEMMA StatusTells ==
  ASSUME NEW row, row.last_seen \in Nat, NEW moment \in Nat
  PROVE  /\ row.last_seen >= moment - StaleAfter * Second => Status(row, moment) = "online"
         /\ Status(row, moment) = "online" /\ ~(row.last_seen >= moment - StaleAfter * Second)
              => moment - row.last_seen
                   \in (StaleAfter * Second + 1)..(StaleAfter * Second + Second - 1)
<1>1. StaleAfter \in Nat /\ Second \in Nat \ {0} /\ OfflineAfter \in Nat
  BY StoreAssumption
<1>2. PICK limit, age : /\ limit = StaleAfter * Second
                        /\ age = moment \div Second - row.last_seen \div Second
  OBVIOUS
<1>3. limit \in Nat
  BY <1>1, <1>2
<1>4. Status(row, moment) = "online" <=> age <= StaleAfter
  BY <1>2 DEF Status
<1>5. /\ row.last_seen >= moment - limit => age <= StaleAfter
      /\ age <= StaleAfter => moment - row.last_seen <= limit + Second - 1
  BY <1>1, <1>2, WholeSeconds
<1>6. ASSUME age <= StaleAfter, ~(row.last_seen >= moment - limit)
      PROVE  moment - row.last_seen \in (limit + 1)..(limit + Second - 1)
  BY <1>1, <1>3, <1>5, <1>6
<1> QED BY <1>2, <1>4, <1>5, <1>6

LEMMA FewFinite ==
  ASSUME NEW rows, AtMostOne(rows)
  PROVE  IsFiniteSet(rows)
<1>1. CASE rows = {}
  BY <1>1, FS_EmptySet
<1>2. CASE rows # {}
  <2>1. PICK a : rows = {a}
    BY <1>2 DEF AtMostOne
  <2> QED BY <2>1, FS_Singleton
<1> QED BY <1>1, <1>2

\* Every report tells the same of the machine, whatever handlers were cut between
\* their statements, but for the second in which a status in whole seconds is
\* still online and the count no longer has it (build_exposure, build_topology,
\* counts, asset_from_row).
THEOREM ViewsAlwaysAgree == StoreSpec => []ViewsAgree
<1>1. Shape /\ Written => ViewsAgree
  <2> SUFFICES ASSUME Shape, Written PROVE ViewsAgree
    OBVIOUS
  <2>1. \A row \in asset : row \in AssetRows /\ Whole(row)
    BY DEF Written
  <2>2. \A row \in asset : row.exposed = ServicesWithin(row, "public") + ServicesWithin(row, "private")
    BY <2>1, RowAgrees
  <2>3. PICK listed : listed = AsSeq(asset)
    OBVIOUS
  <2>4. ExposedServices(asset) = Total([i \in DOMAIN listed |-> listed[i].exposed])
    BY <2>3 DEF ExposedServices, SumOver
  <2>5. SumOver(asset, LAMBDA row : ServicesWithin(row, "public") + ServicesWithin(row, "private"))
          = Total([i \in DOMAIN listed |->
                     ServicesWithin(listed[i], "public") + ServicesWithin(listed[i], "private")])
    BY <2>3 DEF SumOver
  <2>6. \A i \in DOMAIN listed : listed[i] \in asset
    <3>1. IsFiniteSet(asset)
      BY FewFinite DEF Shape
    <3>2. ToSet(listed) = asset
      BY <2>3, <3>1, AsSeqLists
    <3> QED BY <3>2, ToSetIs
  <2>7. [i \in DOMAIN listed |-> listed[i].exposed]
          = [i \in DOMAIN listed |->
               ServicesWithin(listed[i], "public") + ServicesWithin(listed[i], "private")]
    BY <2>2, <2>6
  <2>8. ExposedServices(asset) =
          SumOver(asset, LAMBDA row : ServicesWithin(row, "public") + ServicesWithin(row, "private"))
    BY <2>4, <2>5, <2>7
  <2>9. \A row \in asset :
          /\ Zone(row) = "exposed" <=> \E socket \in Entries(row) : socket.scope = "public"
          /\ Uninspected(row) => Entries(row) = {} /\ row.exposed = 0
          /\ row.security # {} => row.metrics # {}
          /\ \A socket \in Entries(row) :
               socket.scope = "public" => EntrySeverity(row, socket) > Info
    BY <2>1, RowAgrees
  <2>10. \A row \in asset : row.last_seen \in Nat
    BY <2>1 DEF AssetRows
  <2>11. AssetsOnline(asset, now) <= Cardinality({row \in asset : Status(row, now) = "online"})
    <3>1. PICK counted, shown : /\ counted = {row \in asset : row.last_seen >= now - StaleAfter * Second}
                                /\ shown = {row \in asset : Status(row, now) = "online"}
      OBVIOUS
    <3>2. counted \subseteq shown
      BY <2>10, <3>1, StatusTells, Numbers
    <3>3. IsFiniteSet(shown)
      <4>1. IsFiniteSet(asset)
        BY FewFinite DEF Shape
      <4> QED BY <3>1, <4>1, FS_Subset
    <3>4. Cardinality(counted) <= Cardinality(shown)
      BY <3>2, <3>3, FS_Subset
    <3> QED BY <3>1, <3>4 DEF AssetsOnline
  <2>12. ASSUME NEW row \in asset, Status(row, now) = "online"
         PROVE  \/ AssetsOnline({row}, now) = 1
                \/ now - row.last_seen \in (StaleAfter * Second + 1)..(StaleAfter * Second + Second - 1)
    <3>1. row.last_seen \in Nat /\ now \in Nat
      BY <2>10, Numbers
    <3>2. CASE row.last_seen >= now - StaleAfter * Second
      <4>1. {a \in {row} : a.last_seen >= now - StaleAfter * Second} = {row}
        BY <3>2
      <4> QED BY <4>1, FS_Singleton DEF AssetsOnline
    <3>3. CASE ~(row.last_seen >= now - StaleAfter * Second)
      BY <2>12, <3>1, <3>3, StatusTells
    <3> QED BY <3>2, <3>3
  <2> QED BY <2>8, <2>9, <2>11, <2>12 DEF ViewsAgree
<1> QED BY <1>1, ShapeInvariant, WrittenInvariant, PTL

-----------------------------------------------------------------------------
\* Liveness, from the premises StoreFairness stands for.  Once every envelope in
\* hand is of the moment and of the machine as it is, it stays so, and then each
\* statement settles its columns for good, whatever order they run in.

\* A handler that proceeds keeps its envelope, and the others keep theirs.
LEMMA EnvelopeKept ==
  ASSUME Shape, NEW h \in Handlers, NEW step \in Statements \cup {"none"}, Proceed(h, step),
         NEW g \in Handlers, handlers'[g].next # "none"
  PROVE  /\ \/ handlers[g].next # "none"
            \/ g = h
         /\ handlers'[g].at = handlers[g].at
         /\ handlers'[g].role = handlers[g].role
         /\ handlers'[g].surface = handlers[g].surface
<1> DEFINE moved == [handlers[h] EXCEPT !.next = step]
<1>1. handlers[h] \in Envelopes /\ handlers \in [Handlers -> Envelopes]
  BY DEF Shape
<1>2. /\ moved.at = handlers[h].at /\ moved.role = handlers[h].role
      /\ moved.surface = handlers[h].surface
  BY <1>1 DEF Envelopes
<1>3. handlers' = [handlers EXCEPT ![h] = IF step = "none" THEN Free ELSE moved]
  BY DEF Proceed
<1>4. Free.next = "none"
  BY DEF Free
<1> HIDE DEF moved
<1> QED BY <1>1, <1>2, <1>3, <1>4

LEMMA UpToDateStays ==
  Shape /\ UpToDate /\ [StoreNext]_storeVars /\ [UNCHANGED <<now, machine>>]_storeVars => UpToDate'
<1> SUFFICES ASSUME Shape, UpToDate, [StoreNext]_storeVars, UNCHANGED <<now, machine>>,
                    NEW g \in Handlers, handlers'[g].next # "none"
             PROVE  /\ handlers'[g].at = now
                    /\ handlers'[g].role = machine.role
                    /\ handlers'[g].surface = machine.surface
  BY DEF UpToDate, storeVars
<1>1. CASE handlers' = handlers
  BY <1>1 DEF UpToDate
<1>2. ASSUME NEW h \in Handlers, Send(h)
      PROVE  /\ handlers'[g].at = now
             /\ handlers'[g].role = machine.role
             /\ handlers'[g].surface = machine.surface
  BY <1>2 DEF Send, Shape, UpToDate
<1>3. ASSUME NEW h \in Handlers, NEW step \in Statements \cup {"none"}, Proceed(h, step),
             handlers[h].next # "none"
      PROVE  /\ handlers'[g].at = now
             /\ handlers'[g].role = machine.role
             /\ handlers'[g].surface = machine.surface
  BY <1>3, EnvelopeKept DEF UpToDate
<1>4. ASSUME NEW h \in Handlers, Serve(h)
      PROVE  handlers[h].next # "none" /\ \E step \in Statements \cup {"none"} : Proceed(h, step)
  BY <1>4, Steps DEF Serve, ValidateEnvelope, InsertSample, RefreshAsset, StoreSurface, RecordPressure
<1>5. ASSUME NEW h \in Handlers, Cut(h)
      PROVE  /\ handlers'[g].at = now
             /\ handlers'[g].role = machine.role
             /\ handlers'[g].surface = machine.surface
  <2>1. Proceed(h, "none")
    BY <1>5 DEF Cut
  <2>2. g # h
    BY <2>1, ProceedAt, Steps
  <2>3. handlers[g].next # "none"
    BY <2>1, <2>2, EnvelopeKept, Steps
  <2> QED BY <2>1, <2>3, EnvelopeKept, Steps DEF UpToDate
<1>6. CASE Tick \/ Attempt \/ Change \/ Defend \/ Purge \/ FailPurge \/ UNCHANGED storeVars
  BY <1>1, <1>6 DEF Tick, Attempt, Change, Defend, Purge, BeginPurge, PurgeTelemetry, PurgePressure,
                    PurgeDefense, FailPurge, storeVars
<1> QED BY <1>2, <1>3, <1>4, <1>5, <1>6 DEF StoreNext

\* The row of the asset changes in three statements only.
LEMMA AssetWrites ==
  ASSUME [StoreNext]_storeVars
  PROVE  \/ asset' = asset
         \/ \E h \in Handlers : ValidateEnvelope(h) /\ asset' = Upserted(handlers[h].role)
         \/ \E h \in Handlers : RefreshAsset(h) \/ StoreSurface(h)
BY DEF StoreNext, Serve, Purge, Tick, Attempt, Change, Defend, Send, Cut, ValidateEnvelope,
       InsertSample, RecordPressure, BeginPurge, PurgeTelemetry, PurgePressure, PurgeDefense,
       FailPurge, storeVars

\* What the columns of the row and the sample say when they are right.
RoleTold == asset # {} /\ \A row \in asset : row.role = machine.role
MetricsTold == \A row \in asset : row.metrics = {now}
SurfaceTold == \A row \in asset : row.security = {machine.surface}
SampleTold == now \in telemetry

\* What the three statements leave of a row.
LEMMA Columns ==
  ASSUME NEW row \in AssetRows
  PROVE  /\ \A r, n : /\ [row EXCEPT !.role = r, !.last_seen = n].role = r
                      /\ [row EXCEPT !.role = r, !.last_seen = n].metrics = row.metrics
                      /\ [row EXCEPT !.role = r, !.last_seen = n].security = row.security
         /\ \A n, m : /\ [row EXCEPT !.last_seen = n, !.metrics = m].role = row.role
                      /\ [row EXCEPT !.last_seen = n, !.metrics = m].metrics = m
                      /\ [row EXCEPT !.last_seen = n, !.metrics = m].security = row.security
         /\ \A signals : /\ WithSurface(row, signals).role = row.role
                         /\ WithSurface(row, signals).metrics = row.metrics
                         /\ WithSurface(row, signals).security = {signals}
BY DEF AssetRows, WithSurface

\* Each statement of an envelope that is up to date puts its columns right.
LEMMA Validates ==
  ASSUME Shape, Written, UpToDate, NEW h \in Handlers, ValidateEnvelope(h)
  PROVE  RoleTold'
<1>1. handlers[h].at = now /\ handlers[h].role = machine.role /\ machine' = machine
  BY DEF ValidateEnvelope, UpToDate
<1>2. ~(handlers[h].at < now - MaxAge)
  BY <1>1, Numbers, StoreAssumption
<1>3. asset' = Upserted(machine.role)
  BY <1>1, <1>2 DEF ValidateEnvelope
<1>4. CASE asset = {}
  BY <1>1, <1>3, <1>4 DEF Upserted, RoleTold
<1>5. CASE asset # {}
  <2>1. asset' = {[row EXCEPT !.role = machine.role, !.last_seen = now] : row \in asset}
    BY <1>3, <1>5 DEF Upserted
  <2>2. ASSUME NEW new \in asset' PROVE new.role = machine.role
    <3>1. PICK row \in asset : new = [row EXCEPT !.role = machine.role, !.last_seen = now]
      BY <2>1
    <3> QED BY <3>1, Columns DEF Written
  <2> QED BY <1>1, <1>5, <2>1, <2>2 DEF RoleTold
<1> QED BY <1>4, <1>5

LEMMA Refreshes ==
  ASSUME Shape, Written, UpToDate, NEW h \in Handlers, RefreshAsset(h)
  PROVE  /\ MetricsTold'
         /\ RoleTold => RoleTold'
         /\ SurfaceTold => SurfaceTold'
<1>1. handlers[h].at = now /\ machine' = machine /\ now' = now
  BY DEF RefreshAsset, UpToDate
<1>2. asset' = {[row EXCEPT !.last_seen = now, !.metrics = {now}] : row \in asset}
  BY <1>1 DEF RefreshAsset
<1>3. ASSUME NEW new \in asset'
      PROVE  \E row \in asset :
               new.role = row.role /\ new.metrics = {now} /\ new.security = row.security
  <2>1. PICK row \in asset : new = [row EXCEPT !.last_seen = now, !.metrics = {now}]
    BY <1>2
  <2> QED BY <2>1, Columns DEF Written
<1>4. asset # {} => asset' # {}
  BY <1>2
<1> QED BY <1>1, <1>3, <1>4 DEF MetricsTold, RoleTold, SurfaceTold

LEMMA Surveys ==
  ASSUME Shape, Written, UpToDate, NEW h \in Handlers, StoreSurface(h)
  PROVE  /\ SurfaceTold'
         /\ RoleTold => RoleTold'
         /\ MetricsTold => MetricsTold'
<1>1. handlers[h].surface = machine.surface /\ machine' = machine /\ now' = now
  BY DEF StoreSurface, UpToDate
<1>2. asset' = {WithSurface(row, machine.surface) : row \in asset}
  BY <1>1 DEF StoreSurface
<1>3. \A new \in asset' : \E row \in asset :
        new.role = row.role /\ new.metrics = row.metrics /\ new.security = {machine.surface}
  BY <1>2, Columns DEF Written
<1>4. asset # {} => asset' # {}
  BY <1>2
<1> QED BY <1>1, <1>3, <1>4 DEF MetricsTold, RoleTold, SurfaceTold

LEMMA Inserts ==
  ASSUME UpToDate, NEW h \in Handlers, InsertSample(h)
  PROVE  SampleTold'
BY DEF InsertSample, UpToDate, SampleTold

\* What is right stays right while the world rests and envelopes are up to date.
LEMMA ToldStays ==
  ASSUME Shape, Written, UpToDate, [StoreNext]_storeVars, [UNCHANGED <<now, machine>>]_storeVars,
         RoleTold
  PROVE  /\ RoleTold'
         /\ MetricsTold => MetricsTold'
         /\ SurfaceTold => SurfaceTold'
<1>1. now' = now /\ machine' = machine
  BY DEF storeVars
<1>2. CASE asset' = asset
  BY <1>1, <1>2 DEF RoleTold, MetricsTold, SurfaceTold
<1>3. ASSUME NEW h \in Handlers, ValidateEnvelope(h), asset' = Upserted(handlers[h].role)
      PROVE  RoleTold' /\ (MetricsTold => MetricsTold') /\ (SurfaceTold => SurfaceTold')
  <2>1. asset' = {[row EXCEPT !.role = handlers[h].role, !.last_seen = now] : row \in asset}
    BY <1>3 DEF Upserted, RoleTold
  <2>2. ASSUME NEW new \in asset'
        PROVE  \E row \in asset : new.metrics = row.metrics /\ new.security = row.security
    <3>1. PICK row \in asset : new = [row EXCEPT !.role = handlers[h].role, !.last_seen = now]
      BY <2>1
    <3> QED BY <3>1, Columns DEF Written
  <2>3. RoleTold'
    BY <1>3, Validates
  <2> QED BY <1>1, <2>2, <2>3 DEF MetricsTold, SurfaceTold
<1>4. ASSUME NEW h \in Handlers, RefreshAsset(h)
      PROVE  RoleTold' /\ (MetricsTold => MetricsTold') /\ (SurfaceTold => SurfaceTold')
  BY <1>4, Refreshes
<1>5. ASSUME NEW h \in Handlers, StoreSurface(h)
      PROVE  RoleTold' /\ (MetricsTold => MetricsTold') /\ (SurfaceTold => SurfaceTold')
  BY <1>5, Surveys
<1> QED BY <1>2, <1>3, <1>4, <1>5, AssetWrites

\* A purge never takes the sample of this moment.
LEMMA SampleStays ==
  ASSUME Shape, [StoreNext]_storeVars, [UNCHANGED <<now, machine>>]_storeVars, SampleTold
  PROVE  SampleTold'
<1>1. now' = now /\ now \in telemetry
  BY DEF storeVars, SampleTold
<1>2. CASE PurgeTelemetry
  <2>1. purge.cut \in Int /\ purge.cut <= now - Retention /\ now \in Nat /\ Retention \in Nat
    BY <1>2, Numbers DEF PurgeTelemetry, Shape
  <2>2. now >= purge.cut
    BY <2>1
  <2> QED BY <1>1, <1>2, <2>2 DEF PurgeTelemetry, SampleTold
<1>3. ASSUME NEW h \in Handlers, InsertSample(h) PROVE SampleTold'
  BY <1>1, <1>3 DEF InsertSample, SampleTold
<1>4. CASE telemetry' = telemetry
  BY <1>1, <1>4 DEF SampleTold
<1> QED BY <1>2, <1>3, <1>4
        DEF StoreNext, Serve, Purge, Tick, Attempt, Change, Defend, Send, Cut, ValidateEnvelope,
            RefreshAsset, StoreSurface, RecordPressure, BeginPurge, PurgePressure, PurgeDefense,
            FailPurge, storeVars

\* Once the machine stops changing the reports come to tell what it is now, although
\* an older envelope may write after a newer one, for any number of overlapping
\* handlers, any machine and any retention (upsert_asset, store_sample, store_security).
THEOREM ViewsConvergeTheorem ==
  StoreSpec /\ WorldRests /\ OldEnvelopesEnd /\ StatementsRun => ViewsConverge
<1>1. Shape /\ Written /\ UpToDate /\ <<\E h \in Handlers : ValidateEnvelope(h)>>_storeVars => RoleTold'
  BY Validates
<1>2. UpToDate /\ <<\E h \in Handlers : InsertSample(h)>>_storeVars => SampleTold'
  BY Inserts
<1>3. Shape /\ Written /\ UpToDate /\ <<\E h \in Handlers : RefreshAsset(h)>>_storeVars => MetricsTold'
  BY Refreshes
<1>4. Shape /\ Written /\ UpToDate /\ <<\E h \in Handlers : StoreSurface(h)>>_storeVars => SurfaceTold'
  BY Surveys
<1>5. Shape /\ Written /\ UpToDate /\ RoleTold /\ [StoreNext]_storeVars
        /\ [UNCHANGED <<now, machine>>]_storeVars
        => RoleTold' /\ (MetricsTold => MetricsTold') /\ (SurfaceTold => SurfaceTold')
  BY ToldStays
<1>6. Shape /\ SampleTold /\ [StoreNext]_storeVars /\ [UNCHANGED <<now, machine>>]_storeVars
        => SampleTold'
  BY SampleStays
<1>7. RoleTold /\ SampleTold /\ MetricsTold /\ SurfaceTold => ViewsTell
  BY DEF RoleTold, SampleTold, MetricsTold, SurfaceTold, ViewsTell
<1> QED
  BY <1>1, <1>2, <1>3, <1>4, <1>5, <1>6, <1>7, UpToDateStays, ShapeInvariant, WrittenInvariant, PTL
     DEF StoreSpec, WorldRests, OldEnvelopesEnd, StatementsRun, ViewsConverge

-----------------------------------------------------------------------------
\* What is past its window, by table.
SamplesKept == \A t \in telemetry : t >= now - Retention
EventsKept == \A t \in defense : t >= now - Retention
SourcesKept == \A row \in pressure : row.last_seen >= now - Retention

\* The rest of the world, for a retention.
LEMMA Rested ==
  ASSUME [StoreNext]_storeVars, [UNCHANGED <<now, machine>>]_storeVars
  PROVE  now' = now /\ Retention' = Retention
BY DEF StoreNext, Serve, Purge, Tick, Attempt, Change, Defend, Send, Cut, ValidateEnvelope,
       InsertSample, RefreshAsset, StoreSurface, RecordPressure, BeginPurge, PurgeTelemetry,
       PurgePressure, PurgeDefense, FailPurge, storeVars, Retention

LEMMA SamplesStay ==
  ASSUME Shape, UpToDate, [StoreNext]_storeVars, [UNCHANGED <<now, machine>>]_storeVars,
         SamplesKept
  PROVE  SamplesKept'
<1>1. now' = now /\ Retention' = Retention /\ now >= now - Retention
  BY Rested, Numbers
<1>2. ASSUME NEW h \in Handlers, InsertSample(h) PROVE SamplesKept'
  <2>1. telemetry' = telemetry \cup {now}
    BY <1>2 DEF InsertSample, UpToDate
  <2> QED BY <1>1, <2>1 DEF SamplesKept
<1>3. CASE telemetry' \subseteq telemetry
  BY <1>1, <1>3 DEF SamplesKept
<1> QED BY <1>2, <1>3
        DEF StoreNext, Serve, Purge, Tick, Attempt, Change, Defend, Send, Cut, ValidateEnvelope,
            RefreshAsset, StoreSurface, RecordPressure, BeginPurge, PurgeTelemetry, PurgePressure,
            PurgeDefense, FailPurge, storeVars

LEMMA EventsStay ==
  ASSUME Shape, [StoreNext]_storeVars, [UNCHANGED <<now, machine>>]_storeVars, EventsKept
  PROVE  EventsKept'
<1>1. now' = now /\ Retention' = Retention /\ now >= now - Retention
  BY Rested, Numbers
<1>2. CASE Defend
  BY <1>1, <1>2 DEF Defend, EventsKept
<1>3. CASE defense' \subseteq defense
  BY <1>1, <1>3 DEF EventsKept
<1> QED BY <1>2, <1>3
        DEF StoreNext, Serve, Purge, Tick, Attempt, Change, Send, Cut, ValidateEnvelope,
            InsertSample, RefreshAsset, StoreSurface, RecordPressure, BeginPurge, PurgeTelemetry,
            PurgePressure, PurgeDefense, FailPurge, storeVars

LEMMA SourcesStay ==
  ASSUME Shape, UpToDate, [StoreNext]_storeVars, [UNCHANGED <<now, machine>>]_storeVars,
         SourcesKept
  PROVE  SourcesKept'
<1>1. now' = now /\ Retention' = Retention /\ now >= now - Retention
  BY Rested, Numbers
<1>2. ASSUME NEW h \in Handlers, RecordPressure(h) PROVE SourcesKept'
  <2>1. handlers[h].at = now /\ now \in Nat
    BY <1>2, Numbers DEF RecordPressure, UpToDate
  <2>2. PICK events : events = handlers[h].events
    OBVIOUS
  <2>3. events \in SUBSET LogEvents /\ OnePerUser(events)
    BY <2>2 DEF Shape, Envelopes
  <2>4. pressure' = Recorded(events, now)
    BY <1>2, <2>1, <2>2 DEF RecordPressure
  <2>5. ASSUME NEW row \in pressure' PROVE row.last_seen >= now - Retention
    <3>1. RowOf(row, events, now)
      BY <2>1, <2>3, <2>4, RecordedRows
    <3>2. CASE row \in pressure
      BY <3>2 DEF SourcesKept
    <3>3. CASE row.last_seen = now
      BY <1>1, <3>3
    <3>4. ASSUME NEW old \in pressure, row.last_seen = Max({old.last_seen, now})
          PROVE  row.last_seen >= now - Retention
      <4>1. old.last_seen \in Nat
        BY DEF Shape, SourceRows
      <4> QED BY <2>1, <3>4, <4>1, MaxOfTwo, Numbers
    <3> QED BY <3>1, <3>2, <3>3, <3>4 DEF RowOf
  <2> QED BY <1>1, <2>5 DEF SourcesKept
<1>3. CASE pressure' \subseteq pressure
  BY <1>1, <1>3 DEF SourcesKept
<1> QED BY <1>2, <1>3
        DEF StoreNext, Serve, Purge, Tick, Attempt, Change, Defend, Send, Cut, ValidateEnvelope,
            InsertSample, RefreshAsset, StoreSurface, BeginPurge, PurgeTelemetry, PurgePressure,
            PurgeDefense, FailPurge, Kept, storeVars

\* Before anything can be old enough everything is kept.
LEMMA NothingOld ==
  ASSUME Shape, ~(now > Retention) PROVE SamplesKept /\ EventsKept /\ SourcesKept
<1>1. now \in Nat /\ Retention \in Nat /\ \A t \in Nat : t >= now - Retention
  BY Numbers
<1>2. telemetry \subseteq Nat /\ defense \subseteq Nat /\ \A row \in pressure : row.last_seen \in Nat
  BY <1>1 DEF Shape, SourceRows
<1> QED BY <1>1, <1>2 DEF SamplesKept, EventsKept, SourcesKept

\* What is past its window is deleted in the end, in every table, although purges
\* fail, for any retention and whatever late handlers still store (purge).
THEOREM ExpiredGoneTheorem ==
  StoreSpec /\ WorldRests /\ OldEnvelopesEnd /\ PurgesRun => ExpiredEventuallyGone
<1> DEFINE Aged == now > Retention
<1>1. <<Timely /\ PurgeTelemetry>>_storeVars => SamplesKept'
  BY DEF Timely, PurgeTelemetry, SamplesKept, Retention
<1>2. <<Timely /\ PurgePressure>>_storeVars => SourcesKept'
  BY DEF Timely, PurgePressure, Kept, SourcesKept, Retention
<1>3. <<Timely /\ PurgeDefense>>_storeVars => EventsKept'
  BY DEF Timely, PurgeDefense, EventsKept, Retention
<1>4. Shape /\ UpToDate /\ [StoreNext]_storeVars /\ [UNCHANGED <<now, machine>>]_storeVars
        => /\ SamplesKept => SamplesKept'
           /\ EventsKept => EventsKept'
           /\ SourcesKept => SourcesKept'
  BY SamplesStay, EventsStay, SourcesStay
<1>5. [StoreNext]_storeVars /\ [UNCHANGED <<now, machine>>]_storeVars
        => (Aged => Aged') /\ (~Aged => ~Aged')
  BY Rested
<1>6. Shape /\ ~Aged => SamplesKept /\ EventsKept /\ SourcesKept
  BY NothingOld
<1>7. SamplesKept /\ EventsKept /\ SourcesKept => NothingExpired
  BY DEF SamplesKept, EventsKept, SourcesKept, NothingExpired
<1> QED
  BY <1>1, <1>2, <1>3, <1>4, <1>5, <1>6, <1>7, UpToDateStays, ShapeInvariant, PTL
     DEF StoreSpec, WorldRests, OldEnvelopesEnd, PurgesRun, ExpiredEventuallyGone
=============================================================================
