---------------------------- MODULE SilenceProofs ----------------------------
(***************************************************************************)
(* Proofs about Silence for every setting of agent, server and policy.     *)
(*                                                                         *)
(* AlarmsAccountedFor speaks of the moment at which a sweep decides.  What *)
(* it needs of the states is how old last_seen can have become: Punctual   *)
(* follows it from the last success through the sleep, the cycle that may  *)
(* fail, the longer sleep after it and the cycle that must not.            *)
(***************************************************************************)
EXTENDS Silence, TLAPS

\* The agent's interval and one slow cycle fit in the window that the policy
\* tolerates, as the defaults do: 30 s and two requests of 20 s with 30 s of
\* collecting in between against 120 s.
Margin == Interval + CycleTime < Tolerated

-----------------------------------------------------------------------------
\* Settings and the back-off.

LEMMA ToleratedPositive == Tolerated \in Nat \ {0} /\ Forever \in Nat \ {0}
<1>1. \A m, n \in Nat \ {0} : m * n \in Nat \ {0}
  OBVIOUS
<1>2. Tolerated \in Nat \ {0}
  BY <1>1, SilenceAssumption DEF Tolerated
<1> QED BY <1>1, <1>2, SilenceAssumption DEF Forever

LEMMA LongestPositive ==
  Longest \in Nat \ {0} /\ Interval <= Longest /\ MaxBackoff <= Longest
BY SilenceAssumption DEF Longest

LEMMA BackOffBounded ==
  ASSUME NEW retry \in 1..Longest
  PROVE  BackedOff(retry) \in 1..Longest /\ BackedOff(retry) <= 2 * retry
BY SilenceAssumption, LongestPositive DEF BackedOff, Smaller

-----------------------------------------------------------------------------
\* TypeOK: every timer, age and counter stays in its range (main.rs, watchdog.rs).
LEMMA TypeStep == TypeOK /\ [Next]_vars => TypeOK'
<1> SUFFICES ASSUME TypeOK, [Next]_vars PROVE TypeOK'
  OBVIOUS
<1> USE SilenceAssumption, LongestPositive, ToleratedPositive
<1>0. /\ Interval \in 0..(Longest + CycleTime) /\ Interval \in 1..Longest
      /\ 0 \in 0..(Longest + CycleTime) /\ 0 \in 0..Forever
      /\ SweepPeriod \in 0..SweepPeriod
  OBVIOUS
<1>1. ASSUME CycleFails PROVE agent' \in Agent /\ misses' \in 0..2
  <2>1. BackedOff(agent.retry) \in 1..Longest
    BY BackOffBounded DEF TypeOK, Agent
  <2>2. BackedOff(agent.retry) \in 0..(Longest + CycleTime)
    BY <2>1
  <2>3. agent' \in Agent
    BY <1>1, <2>1, <2>2 DEF CycleFails, Agent
  <2>4. misses' \in 0..2
    BY <1>1 DEF CycleFails, Smaller, TypeOK
  <2> QED BY <2>3, <2>4
<1>2. ASSUME CycleSucceeds PROVE agent' \in Agent /\ misses' \in 0..2
  BY <1>0, <1>2 DEF CycleSucceeds, Agent
<1>3. ASSUME Seen \/ UNCHANGED <<registered, quiet>>
      PROVE  registered' \in BOOLEAN /\ quiet' \in 0..Forever
  <2>1. CASE Seen
    BY <2>1, <1>0 DEF Seen
  <2>2. CASE UNCHANGED <<registered, quiet>>
    BY <2>2 DEF TypeOK
  <2> QED BY <1>3, <2>1, <2>2
<1>4. CASE Wake
  <2>1. agent' \in Agent
    BY <1>4 DEF Wake, TypeOK, Agent
  <2> QED BY <1>4, <2>1 DEF Wake, TypeOK
<1>5. CASE RegisterAccepted
  <2>1. agent' \in Agent
    BY <1>5 DEF RegisterAccepted, TypeOK, Agent
  <2> QED BY <1>5, <1>3, <2>1 DEF RegisterAccepted, TypeOK
<1>6. CASE RegisterFails
  BY <1>6, <1>1, <1>3 DEF RegisterFails, TypeOK
<1>7. CASE ReportAccepted
  BY <1>7, <1>2, <1>3 DEF ReportAccepted, TypeOK
<1>8. CASE ReportUnanswered
  BY <1>8, <1>1, <1>3 DEF ReportUnanswered, TypeOK
<1>9. CASE ReportRefused
  BY <1>9, <1>1, <1>3 DEF ReportRefused, TypeOK
<1>10. CASE Stop
  <2>1. agent' \in Agent
    BY <1>10, <1>0 DEF Stop, Agent
  <2> QED BY <1>10, <2>1 DEF Stop, TypeOK
<1>11. CASE Start
  <2>1. agent' \in Agent
    BY <1>11 DEF Start, TypeOK, Agent
  <2> QED BY <1>11, <2>1 DEF Start, TypeOK
<1>12. CASE SweepRead
  <2>1. watchdog' \in Watchdog
    BY <1>12, <1>0 DEF SweepRead, TypeOK, Watchdog
  <2> QED BY <1>12, <2>1 DEF SweepRead, TypeOK
<1>13. ASSUME SweepEnds PROVE watchdog' \in Watchdog
  BY <1>13, <1>0 DEF SweepEnds, Watchdog
<1>14. CASE SweepRaises
  <2>1. incident' \in Incident
    BY <1>14 DEF SweepRaises, Raised, Incident
  <2> QED BY <1>14, <1>13, <2>1 DEF SweepRaises, TypeOK
<1>15. CASE SweepCloses
  <2>1. incident' \in Incident
    BY <1>15 DEF SweepCloses, Closed, Incident, TypeOK
  <2> QED BY <1>15, <1>13, <2>1 DEF SweepCloses, TypeOK
<1>16. CASE SweepFails
  BY <1>16, <1>13 DEF SweepFails, TypeOK
<1>17. CASE Tick
  <2>1. agent' \in Agent
    BY <1>17 DEF Tick, InCycle, TypeOK, Agent
  <2>2. watchdog' \in Watchdog
    BY <1>17 DEF Tick, TypeOK, Watchdog
  <2>3. quiet' \in 0..Forever
    BY <1>17 DEF Tick, TypeOK, Smaller
  <2> QED BY <1>17, <2>1, <2>2, <2>3 DEF Tick, TypeOK
<1>18. CASE UNCHANGED vars
  BY <1>18 DEF vars, TypeOK
<1> QED
  BY <1>4, <1>5, <1>6, <1>7, <1>8, <1>9, <1>10, <1>11, <1>12, <1>14, <1>15, <1>16, <1>17,
     <1>18 DEF Next, Cycle, Sweep

\* Every timer, age and counter keeps its range, for every setting (main.rs,
\* watchdog.rs, availability.rs).
THEOREM TypeCorrect == Spec => []TypeOK
<1>1. Init => TypeOK
  <2> SUFFICES ASSUME Init PROVE TypeOK
    OBVIOUS
  <2>1. 0 \in 0..(Longest + CycleTime) /\ Interval \in 1..Longest
    BY SilenceAssumption, LongestPositive
  <2>2. agent \in Agent
    BY <2>1 DEF Init, Agent
  <2>3. watchdog \in Watchdog
    BY SilenceAssumption DEF Init, Watchdog
  <2>4. incident \in Incident
    BY DEF Init, Incident
  <2>5. quiet \in 0..Forever
    BY ToleratedPositive DEF Init
  <2>6. misses \in 0..2
    BY DEF Init
  <2>7. registered \in BOOLEAN /\ heard \in BOOLEAN
    BY Zenon DEF Init
  <2> QED BY <2>2, <2>3, <2>4, <2>5, <2>6, <2>7 DEF TypeOK
<1> QED BY <1>1, TypeStep, PTL DEF Spec

-----------------------------------------------------------------------------
\* NoFalseAlarm.

\* How old last_seen can be before two cycles in a row have failed.
Punctual ==
  /\ ~registered => quiet = 0
  /\ agent.stage = "down" => misses = 2
  /\ InCycle => agent.timer <= CycleTime
  /\ misses = 0 => agent.retry = Interval
  /\ misses = 0 /\ agent.stage = "sleeping" => quiet + agent.timer <= Interval
  /\ misses = 0 /\ InCycle => quiet <= Interval + agent.timer
  /\ misses = 1 /\ agent.stage = "sleeping" =>
       quiet + agent.timer <= Interval + BackedOff(Interval) + CycleTime
  /\ misses = 1 /\ InCycle => quiet <= Interval + BackedOff(Interval) + CycleTime + agent.timer

LEMMA Values ==
  ASSUME TypeOK
  PROVE  /\ agent.timer \in Nat /\ agent.retry \in 1..Longest /\ quiet \in Nat
         /\ misses \in 0..2 /\ Interval \in Nat /\ CycleTime \in Nat
         /\ BackedOff(Interval) \in Nat
         /\ agent = [stage |-> agent.stage, timer |-> agent.timer, retry |-> agent.retry]
         /\ agent.stage \in {"sleeping", "registering", "reporting", "down"}
<1>1. BackedOff(Interval) \in Nat
  BY SilenceAssumption DEF BackedOff, Smaller
<1> QED BY <1>1, SilenceAssumption, LongestPositive, ToleratedPositive DEF TypeOK, Agent

\* A cycle that fails is the first or the second in a row.
LEMMA FailurePunctual ==
  ASSUME TypeOK, Punctual, InCycle, CycleFails,
         Seen \/ UNCHANGED <<registered, quiet>>
  PROVE  Punctual'
<1>1. /\ agent'.stage = "sleeping" /\ agent'.timer = BackedOff(agent.retry)
      /\ misses' = IF misses + 1 < 2 THEN misses + 1 ELSE 2
  BY DEF CycleFails, Smaller
<1>2. quiet' <= quiet /\ quiet' \in Nat /\ (~registered' => quiet' = 0)
  BY Values DEF Seen, Punctual
<1>3. BackedOff(agent.retry) \in Nat /\ BackedOff(agent.retry) <= 2 * agent.retry
  BY Values, BackOffBounded, LongestPositive
<1>4. misses' # 0 /\ ~InCycle'
  BY <1>1, Values DEF InCycle
<1>5. ASSUME misses' = 1 PROVE quiet' + agent'.timer <= Interval + BackedOff(Interval) + CycleTime
  <2>1. misses = 0
    BY <1>1, <1>5, Values
  <2>2. agent.retry = Interval /\ quiet <= Interval + CycleTime
    BY <2>1, Values DEF Punctual
  <2>3. agent'.timer = BackedOff(Interval) /\ BackedOff(Interval) \in Nat
    BY <1>1, <1>3, <2>2
  <2> QED BY <1>2, <2>2, <2>3, Values
<1> QED BY <1>1, <1>2, <1>4, <1>5 DEF Punctual

LEMMA PunctualStep == TypeOK /\ Punctual /\ [Next]_vars => Punctual'
<1> SUFFICES ASSUME TypeOK, Punctual, [Next]_vars PROVE Punctual'
  OBVIOUS
<1> USE Values
<1>1. CASE Wake
  BY <1>1 DEF Wake, Punctual, InCycle
<1>2. CASE RegisterAccepted
  BY <1>2 DEF RegisterAccepted, Seen, Punctual, InCycle
<1>3. CASE RegisterFails
  BY <1>3, FailurePunctual DEF RegisterFails, InCycle
<1>4. CASE ReportAccepted
  BY <1>4 DEF ReportAccepted, Seen, CycleSucceeds, Punctual, InCycle
<1>5. CASE ReportUnanswered
  BY <1>5, FailurePunctual DEF ReportUnanswered, InCycle
<1>6. CASE ReportRefused
  BY <1>6, FailurePunctual DEF ReportRefused, InCycle
<1>7. CASE Stop
  BY <1>7 DEF Stop, Punctual, InCycle
<1>8. CASE Start
  BY <1>8 DEF Start, Punctual, InCycle
<1>9. CASE Tick
  <2>1. (registered => quiet' <= quiet + 1) /\ (~registered => quiet' = quiet)
        /\ quiet' \in Nat /\ registered' = registered /\ misses' = misses
    BY <1>9, ToleratedPositive DEF Tick, Smaller
  <2>2. CASE agent.stage = "sleeping"
    <3>1. agent'.stage = "sleeping" /\ agent.timer > 0 /\ agent'.timer = agent.timer - 1
          /\ agent'.retry = agent.retry
      BY <1>9, <2>2 DEF Tick, InCycle
    <3> QED BY <2>1, <2>2, <3>1 DEF Punctual, InCycle
  <2>3. CASE InCycle
    <3>1. agent'.stage = agent.stage /\ agent.timer < CycleTime
          /\ agent'.timer = agent.timer + 1 /\ agent'.retry = agent.retry
      BY <1>9, <2>3 DEF Tick, InCycle
    <3> QED BY <2>1, <2>3, <3>1 DEF Punctual, InCycle
  <2>4. CASE agent.stage = "down"
    <3>1. agent'.stage = "down"
      BY <1>9, <2>4 DEF Tick, InCycle
    <3> QED BY <2>1, <2>4, <3>1 DEF Punctual, InCycle
  <2> QED BY <2>2, <2>3, <2>4 DEF InCycle
<1>10. CASE SweepRead \/ Sweep \/ SweepFails \/ UNCHANGED vars
  <2>1. UNCHANGED <<agent, registered, quiet, misses>>
    BY <1>10 DEF SweepRead, Sweep, SweepRaises, SweepCloses, SweepFails, vars
  <2> QED BY <2>1 DEF Punctual, InCycle
<1> QED
  BY <1>1, <1>2, <1>3, <1>4, <1>5, <1>6, <1>7, <1>8, <1>9, <1>10 DEF Next, Cycle

\* How old last_seen is at most while fewer than two cycles in a row were missed.
LEMMA HeardInTime ==
  ASSUME TypeOK, Punctual
  PROVE  /\ misses = 0 => quiet <= Interval + CycleTime
         /\ misses = 1 => quiet <= Interval + BackedOff(Interval) + 2 * CycleTime
<1>1. CASE agent.stage = "sleeping"
  BY <1>1, Values DEF Punctual
<1>2. CASE InCycle
  BY <1>2, Values DEF Punctual
<1>3. CASE agent.stage = "down"
  BY <1>3, Values DEF Punctual
<1> QED BY <1>1, <1>2, <1>3, Values DEF InCycle

\* How many cycles an agent has missed when it is reported, for every interval,
\* back-off, window, period of the sweep and duration of a cycle (main.rs,
\* availability.rs).
THEOREM AlarmsTheorem == Spec => AlarmsAccountedFor
<1> DEFINE Accounted == \/ misses = 2
                        \/ misses = 1 /\ Tolerated <= Interval + BackedOff(Interval) + 2 * CycleTime
                        \/ misses = 0 /\ Tolerated <= Interval + CycleTime
           Alarm == watchdog'.stage \in {"raising", "escalating"} /\ watchdog.stage = "sleeping"
                      => Accounted
<1>1. Init => Punctual
  BY SilenceAssumption DEF Init, Punctual, InCycle
<1>2. TypeOK /\ Punctual /\ [Next]_vars => [Alarm]_vars
  <2> SUFFICES ASSUME TypeOK, Punctual, Next, watchdog.stage = "sleeping",
                      watchdog'.stage \in {"raising", "escalating"}
               PROVE  Accounted
    OBVIOUS
  <2>1. SweepRead
    <3>1. CASE UNCHANGED watchdog
      BY <3>1
    <3>2. CASE Tick
      BY <3>2 DEF Tick, TypeOK, Watchdog
    <3>3. CASE SweepRaises \/ SweepCloses \/ SweepFails
      BY <3>3 DEF SweepRaises, SweepCloses, SweepFails
    <3> QED
      BY <3>1, <3>2, <3>3
         DEF Next, Cycle, Sweep, Wake, RegisterAccepted, RegisterFails, ReportAccepted,
             ReportUnanswered, ReportRefused, Stop, Start
  <2>2. Silent(quiet)
    BY <2>1 DEF SweepRead, TypeOK, Watchdog
  <2>3. Tolerated <= quiet
    BY <2>2, Values, ToleratedPositive DEF Silent
  <2>4. ASSUME NEW n \in Nat, quiet <= n PROVE Tolerated <= n
    BY <2>3, <2>4, Values, ToleratedPositive
  <2> QED BY <2>4, HeardInTime, Values, SilenceAssumption
<1>3. TypeOK /\ Punctual /\ [Next]_vars => Punctual'
  BY PunctualStep
<1> QED BY <1>1, <1>2, <1>3, TypeCorrect, PTL DEF Spec, AlarmsAccountedFor

-----------------------------------------------------------------------------
(***************************************************************************)
(* Liveness, from what fairness gives (SweepsComplete and SilenceGrows,    *)
(* which TLC finds true of FairSpec on the instance it runs).              *)
(*                                                                         *)
(* The agent's state settles first, and then a sweep that decided before   *)
(* may still write the opposite of what is now true.  One sweep flushes    *)
(* it: from then on every decision is the right one, the next sweep writes *)
(* it, and no later one can undo it.                                       *)
(***************************************************************************)

\* Nothing is watched, decided or written about an asset without a row.
Unheard == ~registered => incident.status = "none" /\ watchdog.stage = "sleeping"

LEMMA UnheardAlways == Spec => []Unheard
<1>1. Init => Unheard
  BY DEF Init, Unheard
<1>2. Unheard /\ [Next]_vars => Unheard'
  <2> SUFFICES ASSUME Unheard, [Next]_vars, ~registered' PROVE Unheard'
    BY DEF Unheard
  <2>1. CASE SweepRead
    BY <2>1 DEF SweepRead, Unheard
  <2>2. CASE Sweep \/ SweepFails
    BY <2>2 DEF Sweep, SweepRaises, SweepCloses, SweepFails, Unheard
  <2>3. CASE Tick
    BY <2>3 DEF Tick, Unheard
  <2>4. CASE Cycle \/ Stop \/ Start \/ UNCHANGED vars
    BY <2>4 DEF Cycle, Wake, RegisterAccepted, RegisterFails, ReportAccepted, ReportUnanswered,
                ReportRefused, Seen, Stop, Start, vars, Unheard
  <2> QED BY <2>1, <2>2, <2>3, <2>4 DEF Next
<1> QED BY <1>1, <1>2, PTL DEF Spec

LEMMA PunctualAlways == Spec => [](TypeOK /\ Punctual)
<1>1. Init => Punctual
  BY SilenceAssumption DEF Init, Punctual, InCycle
<1> QED BY <1>1, PunctualStep, TypeCorrect, PTL DEF Spec

\* What moves the sweep and the incident.
LEMMA OnlySweeps ==
  TypeOK /\ [Next]_vars =>
    \/ SweepRead /\ UNCHANGED incident
    \/ SweepRaises /\ watchdog'.stage = "sleeping"
    \/ SweepCloses /\ watchdog'.stage = "sleeping"
    \/ SweepFails /\ watchdog'.stage = "sleeping" /\ UNCHANGED incident
    \/ Tick /\ watchdog.stage = "sleeping" /\ watchdog'.stage = watchdog.stage /\ UNCHANGED incident
    \/ UNCHANGED <<watchdog, incident>>
<1>1. SweepRaises \/ SweepCloses \/ SweepFails => watchdog'.stage = "sleeping"
  BY DEF SweepRaises, SweepCloses, SweepFails, SweepEnds
<1>2. SweepRead \/ SweepFails => UNCHANGED incident
  BY DEF SweepRead, SweepFails
<1>3. TypeOK /\ Tick => watchdog.stage = "sleeping" /\ watchdog'.stage = watchdog.stage /\ UNCHANGED incident
  BY DEF Tick, TypeOK, Watchdog
<1>4. Cycle \/ Stop \/ Start => UNCHANGED <<watchdog, incident>>
  BY DEF Cycle, Wake, RegisterAccepted, RegisterFails, ReportAccepted, ReportUnanswered,
         ReportRefused, Stop, Start
<1> QED BY <1>1, <1>2, <1>3, <1>4 DEF Next, Sweep, vars

\* An agent whose cycles succeed from some moment on is not left under an open
\* incident, also when a sweep raised it on a heartbeat it had read before: for
\* every setting with the margin, as long as sweeps go on completing (watchdog.rs,
\* main.rs).
THEOREM LiveAgentClearedTheorem ==
  ASSUME Margin
  PROVE  Spec /\ SweepsComplete => LiveAgentCleared
<1> DEFINE Inv == TypeOK /\ Punctual /\ Unheard
           Alive == misses = 0 /\ agent.stage # "down"
           Calm == watchdog.stage \in {"sleeping", "closing"}
           Clear == incident.status # "open"
<1>1. Inv /\ Alive /\ Calm /\ [Next]_vars => Calm'
  <2> SUFFICES ASSUME Inv, Alive, Calm, [Next]_vars PROVE Calm'
    OBVIOUS
  <2>1. CASE SweepRead
    <3>1. ~Silent(quiet)
      BY HeardInTime, Margin, Values, ToleratedPositive DEF Silent, Margin
    <3> QED BY <2>1, <3>1 DEF SweepRead, TypeOK, Watchdog
  <2> QED BY <2>1, OnlySweeps
<1>2. Inv /\ <<Sweep>>_vars => Calm'
  BY DEF Sweep, SweepRaises, SweepCloses, SweepEnds
<1>3. Inv /\ Calm /\ <<Sweep>>_vars => Clear'
  BY DEF Sweep, SweepRaises, SweepCloses, Closed, TypeOK, Incident
<1>4. Inv /\ Calm /\ Clear /\ [Next]_vars => Clear'
  <2>1. ASSUME Inv, SweepCloses PROVE Clear'
    BY <2>1 DEF SweepCloses, Closed, TypeOK, Incident
  <2>2. Calm => ~SweepRaises
    BY DEF SweepRaises
  <2> QED BY <2>1, <2>2, OnlySweeps
<1>5. ~registered /\ Inv => Clear
  BY DEF Unheard
<1>6. Spec => []Inv
  BY PunctualAlways, UnheardAlways, PTL
<1> QED
  BY <1>1, <1>2, <1>3, <1>4, <1>5, <1>6, PTL DEF Spec, SweepsComplete, LiveAgentCleared

\* An agent that is gone for good is reported for good, and as High, whatever was
\* decided or closed before: for every setting, as long as sweeps go on completing
\* and the silence grows (watchdog.rs, availability.rs).
THEOREM DeadAgentReportedTheorem ==
  Spec /\ SweepsComplete /\ SilenceGrows => DeadAgentReported
<1> DEFINE Gone == agent.stage = "down" /\ registered
           Old == quiet = Forever
           Grave == watchdog.stage \in {"sleeping", "escalating"}
           Told == incident = [status |-> "open", severity |-> "high"]
<1>1. TypeOK /\ Gone /\ Old /\ Grave /\ [Next]_vars => Grave'
  <2> SUFFICES ASSUME TypeOK, Gone, Old, Grave, [Next]_vars PROVE Grave'
    OBVIOUS
  <2>1. CASE SweepRead
    <3>1. Prolonged(quiet) /\ Silent(quiet)
      <4>1. quiet = Tolerated * Escalation
        BY DEF Forever
      <4>2. Tolerated * Escalation >= Tolerated
        <5>1. Tolerated \in Nat /\ Escalation \in Nat \ {0}
          BY ToleratedPositive, SilenceAssumption
        <5>2. \A m \in Nat, n \in Nat \ {0} : m * n >= m
          OBVIOUS
        <5> QED BY <5>1, <5>2
      <4> QED BY <4>1, <4>2, ToleratedPositive DEF Prolonged, Silent, Forever
    <3> QED BY <2>1, <3>1 DEF SweepRead, TypeOK, Watchdog
  <2> QED BY <2>1, OnlySweeps
<1>2. <<Sweep>>_vars => Grave'
  BY DEF Sweep, SweepRaises, SweepCloses, SweepEnds
<1>3. TypeOK /\ Grave /\ <<Sweep>>_vars => Told'
  BY DEF Sweep, SweepRaises, SweepCloses, Raised
<1>4. TypeOK /\ Grave /\ Told /\ [Next]_vars => Told'
  <2>1. ASSUME SweepRaises, Grave PROVE Told'
    BY <2>1 DEF SweepRaises, Raised
  <2>2. Grave => ~SweepCloses
    BY DEF SweepCloses
  <2> QED BY <2>1, <2>2, OnlySweeps
<1>5. Gone /\ Old /\ [Next]_vars => Old'
  <2>1. CASE Tick
    BY <2>1, ToleratedPositive DEF Tick, Smaller
  <2>2. CASE Cycle \/ Stop
    BY <2>2 DEF Cycle, Wake, RegisterAccepted, RegisterFails, ReportAccepted, ReportUnanswered,
                ReportRefused, Stop
  <2>3. CASE Start \/ SweepRead \/ Sweep \/ SweepFails \/ UNCHANGED vars
    BY <2>3 DEF Start, SweepRead, Sweep, SweepRaises, SweepCloses, SweepFails, vars
  <2> QED BY <2>1, <2>2, <2>3 DEF Next
<1> QED
  BY <1>1, <1>2, <1>3, <1>4, <1>5, TypeCorrect, PTL
     DEF Spec, SweepsComplete, SilenceGrows, DeadAgentReported
=============================================================================
