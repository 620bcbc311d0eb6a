------------------------------- MODULE Silence -------------------------------
(***************************************************************************)
(* One agent's reporting loop (crates/rootcause-agent/src/main.rs), the    *)
(* last_seen column its requests refresh (storage.rs), and the watchdog    *)
(* that turns a quiet asset into a finding (watchdog.rs, rootcause-core/   *)
(* src/detect/availability.rs).                                            *)
(*                                                                         *)
(* Time advances in ticks.  Timers fire when they are due; a cycle of the  *)
(* agent takes up to CycleTime, the sum of its request timeouts and its    *)
(* collection.  Requests and replies are lost or refused at any point, the *)
(* agent stops and starts, and a sweep may fail.  The age of last_seen is  *)
(* kept rather than its value, and is not counted further than where the   *)
(* rule escalates.  The incident is abstracted to its status and severity: *)
(* the watchdog is the only engine task that touches it, and its rows are  *)
(* the subject of Incidents.                                               *)
(***************************************************************************)
EXTENDS Naturals

CONSTANTS
  Interval,         \* the agent's --interval-seconds
  MaxBackoff,       \* MAX_BACKOFF
  CycleTime,        \* how long one send_once may take: two requests and collecting
  ServerInterval,   \* the server's agent_interval_seconds
  SilenceIntervals, \* the policy's silence_intervals
  Escalation,       \* 4: multiples of the tolerated window until High
  SweepPeriod       \* TICK of the watchdog

ASSUME SilenceAssumption ==
  /\ Interval \in Nat \ {0}
  /\ MaxBackoff \in Nat \ {0}
  /\ CycleTime \in Nat
  /\ ServerInterval \in Nat \ {0}
  /\ SilenceIntervals \in Nat \ {0}
  /\ Escalation \in Nat \ {0}
  /\ SweepPeriod \in Nat \ {0}

VARIABLES
  agent,       \* the agent's loop
  registered,  \* whether the asset has a row
  quiet,       \* age of assets.last_seen, up to Forever
  watchdog,    \* the sweep
  incident,    \* the silence incident
  misses,      \* history: consecutive cycles the agent saw fail, up to 2
  heard        \* history: telemetry was stored since the last cycle began

vars == <<agent, registered, quiet, watchdog, incident, misses, heard>>

-----------------------------------------------------------------------------
Tolerated == ServerInterval * SilenceIntervals
Forever == Tolerated * Escalation
Longest == IF Interval > MaxBackoff THEN Interval ELSE MaxBackoff

Agent == [stage : {"sleeping", "registering", "reporting", "down"},
          timer : 0..(Longest + CycleTime), retry : 1..Longest]
Watchdog == [stage : {"sleeping", "raising", "escalating", "closing"}, timer : 0..SweepPeriod]
Incident == [status : {"none", "open", "resolved"}, severity : {"none", "medium", "high"}]

Init ==
  /\ agent = [stage |-> "sleeping", timer |-> 0, retry |-> Interval]
  /\ registered = FALSE
  /\ quiet = 0
  /\ watchdog = [stage |-> "sleeping", timer |-> SweepPeriod]
  /\ incident = [status |-> "none", severity |-> "none"]
  /\ misses = 0
  /\ heard = FALSE

-----------------------------------------------------------------------------
\* The agent's loop.

InCycle == agent.stage \in {"registering", "reporting"}

Smaller(m, n) == IF m < n THEN m ELSE n

\* Mutant: a failure changes nothing.
BackedOffNever(retry) == retry

\* Mutant: the interval doubles without a limit.
BackedOffUncapped(retry) == 2 * retry

\* The retry interval after a failed cycle.
BackedOff(retry) == Smaller(2 * retry, MaxBackoff)

\* send_once returned Ok: the loop sleeps its normal interval.
CycleSucceeds ==
  /\ agent' = [stage |-> "sleeping", timer |-> Interval, retry |-> Interval]
  /\ misses' = 0

\* send_once returned Err: the loop backs off.  What it collected is dropped.
CycleFails ==
  /\ agent' = [stage |-> "sleeping", timer |-> BackedOff(agent.retry),
               retry |-> BackedOff(agent.retry)]
  /\ misses' = Smaller(misses + 1, 2)

\* The sleep is over and a cycle begins: its timer now runs up.
Wake ==
  /\ agent.stage = "sleeping"
  /\ agent.timer = 0
  /\ agent' = [agent EXCEPT !.stage = "registering"]
  /\ heard' = FALSE
  /\ UNCHANGED <<registered, quiet, watchdog, incident, misses>>

\* Mutant: the conflict branch leaves last_seen as it was.
SeenFirst == registered' = TRUE /\ quiet' = quiet

\* upsert_asset: the row exists and last_seen is now.
Seen == registered' = TRUE /\ quiet' = 0

\* The register request is answered: telemetry is collected and sent next.
RegisterAccepted ==
  /\ agent.stage = "registering"
  /\ Seen
  /\ agent' = [agent EXCEPT !.stage = "reporting"]
  /\ UNCHANGED <<watchdog, incident, misses, heard>>

\* The register request, or the server's answer to it, is lost or an error.
RegisterFails ==
  /\ agent.stage = "registering"
  /\ Seen \/ UNCHANGED <<registered, quiet>>
  /\ CycleFails
  /\ UNCHANGED <<watchdog, incident, heard>>

\* The telemetry handler stores the sample (last_seen again) and answers.
ReportAccepted ==
  /\ agent.stage = "reporting"
  /\ Seen
  /\ heard' = TRUE
  /\ CycleSucceeds
  /\ UNCHANGED <<watchdog, incident>>

\* The telemetry is stored, but its handler fails later on or the answer is lost.
ReportUnanswered ==
  /\ agent.stage = "reporting"
  /\ Seen
  /\ heard' = TRUE
  /\ CycleFails
  /\ UNCHANGED <<watchdog, incident>>

\* The telemetry is lost, or refused: before upsert_asset for its protocol,
\* sample or timestamp, after it for its security snapshot.
ReportRefused ==
  /\ agent.stage = "reporting"
  /\ Seen \/ UNCHANGED <<registered, quiet>>
  /\ CycleFails
  /\ UNCHANGED <<watchdog, incident, heard>>

\* The agent's process stops, wherever it is.  That counts as missing cycles.
Stop ==
  /\ agent.stage # "down"
  /\ agent' = [stage |-> "down", timer |-> 0, retry |-> Interval]
  /\ misses' = 2
  /\ UNCHANGED <<registered, quiet, watchdog, incident, heard>>

\* A started agent reports at once, with its normal interval.
Start ==
  /\ agent.stage = "down"
  /\ agent' = [agent EXCEPT !.stage = "sleeping"]
  /\ UNCHANGED <<registered, quiet, watchdog, incident, misses, heard>>

-----------------------------------------------------------------------------
\* The watchdog.

\* agent_silence: the age of last_seen has reached the tolerated window.
Silent(age) == age >= Tolerated

\* agent_silence: the silence has become High.
Prolonged(age) == age >= Tolerated * Escalation

\* The sweep reads the heartbeats, all at once, and evaluates the asset's.
SweepRead ==
  /\ watchdog.stage = "sleeping"
  /\ watchdog.timer = 0
  /\ watchdog' = IF ~registered THEN [watchdog EXCEPT !.timer = SweepPeriod]
                 ELSE [watchdog EXCEPT !.stage = IF ~Silent(quiet) THEN "closing"
                                                 ELSE IF Prolonged(quiet) THEN "escalating"
                                                 ELSE "raising"]
  /\ UNCHANGED <<agent, registered, quiet, incident, misses, heard>>

SweepEnds == watchdog' = [stage |-> "sleeping", timer |-> SweepPeriod]

\* Mutant: an incident that was closed once stays closed.
RaisedOnce(severity) ==
  IF incident.status = "none" THEN [status |-> "open", severity |-> severity] ELSE incident

\* upsert_incident: open, with the worst severity so far.
Raised(severity) ==
  [status |-> "open",
   severity |-> IF incident.severity = "high" THEN "high" ELSE severity]

SweepRaises ==
  /\ watchdog.stage \in {"raising", "escalating"}
  /\ incident' = Raised(IF watchdog.stage = "escalating" THEN "high" ELSE "medium")
  /\ SweepEnds
  /\ UNCHANGED <<agent, registered, quiet, misses, heard>>

\* Mutant: a returning agent leaves its incident open.
ClosedNever == incident

\* auto_resolve of the availability category.
Closed == [incident EXCEPT !.status = IF @ = "none" THEN @ ELSE "resolved"]

SweepCloses ==
  /\ watchdog.stage = "closing"
  /\ incident' = Closed
  /\ SweepEnds
  /\ UNCHANGED <<agent, registered, quiet, misses, heard>>

\* A statement of the sweep fails: it is logged, and the next tick tries again.
SweepFails ==
  /\ watchdog.stage # "sleeping"
  /\ SweepEnds
  /\ UNCHANGED <<agent, registered, quiet, incident, misses, heard>>

-----------------------------------------------------------------------------
\* Time passes unless something is due.
Tick ==
  /\ agent.stage = "sleeping" => agent.timer > 0
  /\ InCycle => agent.timer < CycleTime
  /\ watchdog.stage = "sleeping" /\ watchdog.timer > 0
  /\ agent' = [agent EXCEPT !.timer = CASE agent.stage = "sleeping" -> @ - 1
                                        [] InCycle -> @ + 1
                                        [] OTHER -> @]
  /\ watchdog' = [watchdog EXCEPT !.timer = @ - 1]
  /\ quiet' = IF registered THEN Smaller(quiet + 1, Forever) ELSE quiet
  /\ UNCHANGED <<registered, incident, misses, heard>>

\* The agent's cycle goes on, one way or another.
Cycle ==
  \/ Wake
  \/ RegisterAccepted
  \/ RegisterFails
  \/ ReportAccepted
  \/ ReportUnanswered
  \/ ReportRefused

Sweep == SweepRaises \/ SweepCloses

Next ==
  \/ Cycle
  \/ Stop
  \/ Start
  \/ SweepRead
  \/ Sweep
  \/ SweepFails
  \/ Tick

Spec == Init /\ [][Next]_vars

\* Timers run and requests end.  A sweep that is tried for ever succeeds at
\* last.  Nothing is assumed of what requests achieve.
Fairness ==
  /\ WF_vars(Tick)
  /\ WF_vars(Cycle)
  /\ WF_vars(SweepRead)
  /\ WF_vars(SweepRaises \/ SweepCloses \/ SweepFails)
  /\ SF_vars(SweepRaises)
  /\ SF_vars(SweepCloses)

FairSpec == Spec /\ Fairness

\* What the liveness properties need of it: the sweeps of an asset that has a row
\* go on completing, unless its agent is restarted for ever without time passing;
\* and the age of last_seen reaches the escalation when nobody refreshes it.
SweepsComplete ==
  <>registered /\ (<>[](agent.stage = "down") \/ <>[](agent.stage # "down"))
    => []<><<Sweep>>_vars

SilenceGrows == <>[](agent.stage = "down" /\ registered) => []<>(quiet = Forever)

-----------------------------------------------------------------------------
\* Properties.

TypeOK ==
  /\ agent \in Agent
  /\ registered \in BOOLEAN
  /\ quiet \in 0..Forever
  /\ watchdog \in Watchdog
  /\ incident \in Incident
  /\ misses \in 0..2
  /\ heard \in BOOLEAN

\* How many cycles must be missed before a sweep decides that an agent is silent:
\* two in a row (or the agent was stopped), but where the back-off and two slow
\* cycles outlast the window one is enough, and where the interval and one slow
\* cycle do, none (agent main.rs:163-187, availability.rs:27-32).  With the
\* defaults of agent and server, 30 s, 120 s and cycles of up to 70 s, that is
\* one, and an agent that misses none is never reported.
AlarmsAccountedFor ==
  [][watchdog'.stage \in {"raising", "escalating"} /\ watchdog.stage = "sleeping" =>
       \/ misses = 2
       \/ misses = 1 /\ Tolerated <= Interval + BackedOff(Interval) + 2 * CycleTime
       \/ misses = 0 /\ Tolerated <= Interval + CycleTime]_vars


\* An agent that is gone for good is reported for good, and as High in the end,
\* whatever sweeps failed on the way and whatever was closed before.
DeadAgentReported ==
  <>[](agent.stage = "down" /\ registered)
    => <>[](incident = [status |-> "open", severity |-> "high"])

\* An agent whose cycles keep succeeding is not left under a silence incident,
\* also when a sweep raised it on a heartbeat it had read before the agent came
\* back (watchdog.rs:53-86).
LiveAgentCleared ==
  <>[](misses = 0 /\ agent.stage # "down") => <>[](incident.status # "open")

\* An agent that runs but whose telemetry never arrives is reported, again and
\* again, although registering refreshes last_seen every cycle and the next sweep
\* then closes what was raised: its back-off outgrows the window (MAX_BACKOFF of
\* main.rs:29 against watchdog.rs:53-86).  So it is with the defaults, and where
\* MaxBackoff < Tolerated nobody notices.
MissingTelemetryReported ==
  <>[](registered /\ ~heard /\ agent.stage # "down") => []<>(incident.status = "open")
=============================================================================
