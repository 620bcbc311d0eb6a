------------------------- MODULE FileBaselineProofs -------------------------
(***************************************************************************)
(* Proofs about FileBaseline for every set of files, contents and          *)
(* concurrent envelopes.  TypeOK needs that a handler owes reports only of *)
(* files it has seen.  BaselineKnown needs that what a handler is about to *)
(* store is known already, or still on its list.                           *)
(***************************************************************************)
EXTENDS FileBaseline, TLAPS

\* A handler owes reports only of files it has seen.
Listed == \A t \in Task : \A f \in task[t].todo : task[t].seen[f] # Absent

\* Whatever a handler has seen and does not owe a report of is known.
Accounted ==
  \A t \in Task, f \in File :
    task[t].stage = "reporting" /\ task[t].seen[f] # Absent /\ f \notin task[t].todo
      => task[t].seen[f] \in known[f]

-----------------------------------------------------------------------------
\* Type correctness.

LEMMA SeenType ==
  ASSUME TypeOK, NEW t \in Task
  PROVE  task[t] \in TaskState /\ task[t].seen \in [File -> Content \cup {Absent}]
BY DEF TypeOK, TaskState

LEMMA IdleType == Idle \in TaskState
BY DEF Idle, Nothing, TaskState

LEMMA TypedInit == Init => TypeOK /\ Listed
<1> SUFFICES ASSUME Init PROVE TypeOK /\ Listed
  OBVIOUS
<1>1. task \in [Task -> TaskState]
  BY IdleType DEF Init
<1>2. disturbances \in 0..MaxDisturbances
  BY FileBaselineAssumption DEF Init
<1>3. TypeOK
  BY <1>1, <1>2 DEF Init, TypeOK
<1>4. Listed
  BY DEF Init, Listed, Idle
<1> QED BY <1>3, <1>4

LEMMA TypedStep == TypeOK /\ Listed /\ [Next]_vars => TypeOK' /\ Listed'
<1> SUFFICES ASSUME TypeOK, Listed, [Next]_vars PROVE TypeOK' /\ Listed'
  OBVIOUS
<1>1. CASE DiskChanges
  <2>1. disturbances' \in 0..MaxDisturbances
    BY <1>1, FileBaselineAssumption DEF DiskChanges, TypeOK
  <2> QED BY <1>1, <2>1 DEF DiskChanges, TypeOK, Listed
<1>2. ASSUME NEW t \in Task, Collect(t) PROVE TypeOK' /\ Listed'
  <2>1. task' \in [Task -> TaskState]
    BY <1>2 DEF Collect, TypeOK, TaskState
  <2>2. Listed'
    BY <1>2 DEF Collect, TypeOK, Listed
  <2> QED BY <1>2, <2>1, <2>2 DEF Collect, TypeOK
<1>3. ASSUME NEW t \in Task, Analyze(t) PROVE TypeOK' /\ Listed'
  <2>1. \A f \in Changed(task[t].seen) : f \in File /\ task[t].seen[f] # Absent
    BY DEF Changed
  <2>2. task' \in [Task -> TaskState]
    BY <1>3, <2>1, SeenType, ZenonT(30) DEF Analyze, TypeOK, TaskState
  <2>3. \A f \in First(task[t].seen) : task[t].seen[f] \in Content
    BY SeenType DEF First
  <2>4. known' \in [File -> SUBSET Content]
    BY <1>3, <2>3 DEF Analyze, TypeOK
  <2>5. Listed'
    BY <1>3, <2>1 DEF Analyze, TypeOK, Listed
  <2> QED BY <1>3, <2>2, <2>4, <2>5 DEF Analyze, TypeOK
<1>4. ASSUME NEW t \in Task, Report(t) PROVE TypeOK' /\ Listed'
  <2>1. PICK f \in task[t].todo :
          /\ task' = [task EXCEPT ![t].todo = @ \ {f}]
          /\ known' = [known EXCEPT ![f] = @ \cup {task[t].seen[f]}]
    BY <1>4 DEF Report
  <2>2. f \in File /\ task[t].seen[f] \in Content
    BY SeenType DEF Listed, TaskState
  <2>3. task' \in [Task -> TaskState]
    BY <2>1, SeenType DEF TypeOK, TaskState
  <2>4. known' \in [File -> SUBSET Content]
    BY <2>1, <2>2 DEF TypeOK
  <2>5. Listed'
    BY <2>1 DEF TypeOK, Listed
  <2> QED BY <1>4, <2>3, <2>4, <2>5 DEF Report, TypeOK
<1>5. ASSUME NEW t \in Task, Advance(t) PROVE TypeOK' /\ Listed'
  <2>1. task' \in [Task -> TaskState]
    BY <1>5, IdleType DEF Advance, TypeOK
  <2>2. baseline' \in [File -> Content \cup {Unknown}]
    BY <1>5, SeenType DEF Advance, Advanced, TypeOK
  <2>3. Listed'
    BY <1>5 DEF Advance, TypeOK, Listed, Idle
  <2> QED BY <1>5, <2>1, <2>2, <2>3 DEF Advance, TypeOK
<1>6. ASSUME NEW t \in Task, Cut(t) PROVE TypeOK' /\ Listed'
  <2>1. task' \in [Task -> TaskState]
    BY <1>6, IdleType DEF Cut, TypeOK
  <2>2. disturbances' \in 0..MaxDisturbances
    BY <1>6, FileBaselineAssumption DEF Cut, TypeOK
  <2>3. Listed'
    BY <1>6 DEF Cut, TypeOK, Listed, Idle
  <2> QED BY <1>6, <2>1, <2>2, <2>3 DEF Cut, TypeOK
<1>7. CASE UNCHANGED vars
  BY <1>7 DEF vars, TypeOK, Listed
<1> QED BY <1>1, <1>2, <1>3, <1>4, <1>5, <1>6, <1>7 DEF Next, Proceed

LEMMA Typed == Spec => [](TypeOK /\ Listed)
<1> QED BY TypedInit, TypedStep, PTL DEF Spec

\* The state always has its type.
THEOREM TypeCorrect == Spec => []TypeOK
<1> QED BY Typed, PTL

-----------------------------------------------------------------------------
\* No change is swallowed.

\* Known digests stay known.
LEMMA KnownGrows ==
  ASSUME TypeOK, [Next]_vars, NEW f \in File
  PROVE  known[f] \subseteq known'[f]
<1>1. CASE DiskChanges
  BY <1>1 DEF DiskChanges
<1>2. ASSUME NEW t \in Task, Analyze(t) PROVE known[f] \subseteq known'[f]
  BY <1>2 DEF Analyze, TypeOK
<1>3. ASSUME NEW t \in Task, Report(t) PROVE known[f] \subseteq known'[f]
  BY <1>3 DEF Report, TypeOK
<1>4. ASSUME NEW t \in Task, Collect(t) \/ Advance(t) \/ Cut(t)
      PROVE  known[f] \subseteq known'[f]
  BY <1>4 DEF Collect, Advance, Cut
<1>5. CASE UNCHANGED vars
  BY <1>5 DEF vars
<1> QED BY <1>1, <1>2, <1>3, <1>4, <1>5 DEF Next, Proceed

LEMMA KnownStep ==
  TypeOK /\ Accounted /\ BaselineKnown /\ [Next]_vars => Accounted' /\ BaselineKnown'
<1> SUFFICES ASSUME TypeOK, Accounted, BaselineKnown, [Next]_vars
             PROVE  Accounted' /\ BaselineKnown'
  OBVIOUS
<1>1. \A f \in File : known[f] \subseteq known'[f]
  BY KnownGrows
<1>2. CASE DiskChanges \/ UNCHANGED vars
  BY <1>2 DEF DiskChanges, vars, Accounted, BaselineKnown
<1>3. ASSUME NEW t \in Task, Collect(t) \/ Cut(t) PROVE Accounted' /\ BaselineKnown'
  <2>1. task'[t].stage # "reporting"
    BY <1>3 DEF Collect, Cut, TypeOK, Idle
  <2>2. \A u \in Task : u # t => task'[u] = task[u]
    BY <1>3 DEF Collect, Cut, TypeOK
  <2>3. UNCHANGED <<known, baseline>>
    BY <1>3 DEF Collect, Cut
  <2> QED BY <2>1, <2>2, <2>3 DEF Accounted, BaselineKnown
<1>4. ASSUME NEW t \in Task, Analyze(t) PROVE Accounted' /\ BaselineKnown'
  <2>1. BaselineKnown'
    BY <1>1, <1>4 DEF Analyze, BaselineKnown
  <2>2. ASSUME NEW u \in Task, u # t PROVE task'[u] = task[u]
    BY <1>4, <2>2 DEF Analyze, TypeOK
  <2>3. task'[t].seen = task[t].seen /\ task'[t].todo = Changed(task[t].seen)
    BY <1>4 DEF Analyze, TypeOK, TaskState
  <2>4. ASSUME NEW f \in File, task[t].seen[f] # Absent, f \notin Changed(task[t].seen)
        PROVE  task[t].seen[f] \in known'[f]
    <3>1. CASE baseline[f] = Unknown
      <4>1. f \in First(task[t].seen)
        BY <2>4, <3>1 DEF First
      <4> QED BY <1>4, <4>1 DEF Analyze
    <3>2. CASE baseline[f] # Unknown
      <4>1. baseline[f] = task[t].seen[f]
        BY <2>4, <3>2 DEF Changed
      <4> QED BY <1>1, <3>2, <4>1 DEF BaselineKnown
    <3> QED BY <3>1, <3>2
  <2>5. Accounted'
    BY <1>1, <2>2, <2>3, <2>4 DEF Accounted
  <2> QED BY <2>1, <2>5
<1>5. ASSUME NEW t \in Task, Report(t) PROVE Accounted' /\ BaselineKnown'
  <2>1. PICK f \in task[t].todo :
          /\ task' = [task EXCEPT ![t].todo = @ \ {f}]
          /\ known' = [known EXCEPT ![f] = @ \cup {task[t].seen[f]}]
    BY <1>5 DEF Report
  <2>2. BaselineKnown'
    BY <1>1, <1>5 DEF Report, BaselineKnown
  <2>3. \A u \in Task : /\ task'[u].stage = task[u].stage
                        /\ task'[u].seen = task[u].seen
                        /\ u # t => task'[u].todo = task[u].todo
    BY <2>1 DEF TypeOK, TaskState
  <2>4. task'[t].todo = task[t].todo \ {f}
    BY <2>1 DEF TypeOK, TaskState
  <2>5. f \in File /\ task[t].seen[f] \in known'[f]
    BY <2>1, SeenType DEF TypeOK, TaskState
  <2>6. Accounted'
    BY <1>1, <2>3, <2>4, <2>5 DEF Accounted
  <2> QED BY <2>2, <2>6
<1>6. ASSUME NEW t \in Task, Advance(t) PROVE Accounted' /\ BaselineKnown'
  <2>1. \A u \in Task : u # t => task'[u] = task[u]
    BY <1>6 DEF Advance, TypeOK
  <2>2. task'[t].stage = "idle"
    BY <1>6 DEF Advance, TypeOK, Idle
  <2>3. Accounted'
    BY <1>1, <2>1, <2>2 DEF Accounted
  <2>4. ASSUME NEW f \in File, baseline'[f] # Unknown PROVE baseline'[f] \in known'[f]
    <3>1. CASE task[t].seen[f] # Absent
      <4>1. baseline'[f] = task[t].seen[f]
        BY <1>6, <3>1 DEF Advance, Advanced
      <4>2. task[t].seen[f] \in known[f]
        BY <1>6, <3>1 DEF Advance, Accounted
      <4> QED BY <1>1, <4>1, <4>2
    <3>2. CASE task[t].seen[f] = Absent
      <4>1. baseline'[f] = baseline[f]
        BY <1>6, <3>2 DEF Advance, Advanced
      <4> QED BY <1>1, <2>4, <4>1 DEF BaselineKnown
    <3> QED BY <3>1, <3>2
  <2> QED BY <2>3, <2>4 DEF BaselineKnown
<1> QED BY <1>2, <1>3, <1>4, <1>5, <1>6 DEF Next, Proceed

\* The baseline never holds a digest nobody was told of, for any number of
\* overlapping, late and interrupted envelopes.
THEOREM BaselineTheorem == Spec => []BaselineKnown
<1>1. Init => Accounted /\ BaselineKnown
  BY DEF Init, Accounted, BaselineKnown, Idle
<1> QED BY <1>1, Typed, KnownStep, PTL DEF Spec

-----------------------------------------------------------------------------
(***************************************************************************)
(* Convergence, from what fairness and the bound give (DiskSettles,        *)
(* HandlersFinish and EnvelopesEnd, which TLC finds true of FairSpec).     *)
(* Once the disk has settled, envelopes that are all fresh stay so; the    *)
(* next handler that finishes moves the baseline onto the disk, whatever   *)
(* an older one had written over it, and no later one moves it away.       *)
(***************************************************************************)

LEMMA FreshStays == TypeOK /\ Fresh /\ [Next]_vars /\ [UNCHANGED disk]_vars => Fresh'
<1> SUFFICES ASSUME TypeOK, Fresh, [Next]_vars, UNCHANGED disk, NEW t \in Task,
                    task'[t].stage # "idle"
             PROVE  task'[t].seen = disk
  BY DEF vars, Fresh
<1>1. CASE DiskChanges \/ UNCHANGED vars
  BY <1>1 DEF DiskChanges, vars, Fresh
<1>2. ASSUME NEW u \in Task, Collect(u) PROVE task'[t].seen = disk
  BY <1>2 DEF Collect, TypeOK, Fresh
<1>3. ASSUME NEW u \in Task, Analyze(u) \/ Report(u) PROVE task'[t].seen = disk
  <2>1. task'[t].seen = task[t].seen /\ task[t].stage # "idle"
    BY <1>3 DEF Analyze, Report, TypeOK, TaskState
  <2> QED BY <2>1 DEF Fresh
<1>4. ASSUME NEW u \in Task, Advance(u) \/ Cut(u) PROVE task'[t].seen = disk
  <2>1. t # u
    BY <1>4 DEF Advance, Cut, TypeOK, Idle
  <2>2. task'[t] = task[t]
    BY <1>4, <2>1 DEF Advance, Cut, TypeOK
  <2> QED BY <2>2 DEF Fresh
<1> QED BY <1>1, <1>2, <1>3, <1>4 DEF Next, Proceed

\* A handler that finishes with a fresh envelope puts the baseline on the disk.
LEMMA FreshAdvances ==
  ASSUME TypeOK, Fresh, NEW t \in Task, Advance(t), NEW f \in File
  PROVE  Catches(f)'
<1>1. task[t].seen = disk /\ disk' = disk
  BY DEF Advance, Fresh
<1>2. baseline'[f] = IF disk[f] # Absent THEN disk[f] ELSE baseline[f]
  BY <1>1 DEF Advance, Advanced
<1> QED BY <1>1, <1>2 DEF Catches

\* Once the disk and the failures settle, so does the baseline, on what is on
\* disk, for any files, contents and overlapping envelopes (api.rs, storage.rs).
THEOREM BaselineConvergesTheorem ==
  Spec /\ DiskSettles /\ HandlersFinish /\ EnvelopesEnd => BaselineConverges
<1>1. ASSUME NEW f \in File
      PROVE  Spec /\ DiskSettles /\ HandlersFinish /\ EnvelopesEnd => <>[]Catches(f)
  <2>1. TypeOK /\ Fresh /\ <<\E t \in Task : Advance(t)>>_vars => Catches(f)'
    BY FreshAdvances
  <2>2. TypeOK /\ Fresh /\ Catches(f) /\ [Next]_vars /\ [UNCHANGED disk]_vars => Catches(f)'
    <3> SUFFICES ASSUME TypeOK, Fresh, Catches(f), [Next]_vars, UNCHANGED disk
                 PROVE  Catches(f)'
      BY DEF vars, Catches
    <3>1. ASSUME NEW t \in Task, Advance(t) PROVE Catches(f)'
      BY <3>1, FreshAdvances
    <3>2. ASSUME UNCHANGED baseline PROVE Catches(f)'
      BY <3>2 DEF Catches
    <3> QED BY <3>1, <3>2 DEF Next, Proceed, DiskChanges, Collect, Analyze, Report, Cut, vars
  <2> QED
    BY <2>1, <2>2, FreshStays, TypeCorrect, PTL
       DEF Spec, DiskSettles, HandlersFinish, EnvelopesEnd
<1> QED BY <1>1 DEF BaselineConverges
=============================================================================
