---------------------------- MODULE FileBaseline ----------------------------
(***************************************************************************)
(* Integrity of watched files: the agent fingerprints them                 *)
(* (rootcause-agent/src/integrity.rs), the telemetry handler compares the  *)
(* digests with the stored baseline, reports the ones that differ and only *)
(* then moves the baseline (rootcause-server/src/api.rs, storage.rs,       *)
(* rootcause-core/src/detect/integrity.rs).                                *)
(*                                                                         *)
(* The baseline is what makes a change visible exactly once, so what       *)
(* matters is the order of the handler's statements when handlers of the   *)
(* same asset overlap, envelopes arrive late, and a handler is dropped     *)
(* between two statements.  A digest stands for the content it was         *)
(* computed from.  What the reported incident looks like afterwards is the *)
(* subject of Incidents; the permission rule, which has no baseline, and   *)
(* everything else in the envelope are left out.                           *)
(***************************************************************************)
EXTENDS Naturals

CONSTANTS
  File,            \* the watched paths of one asset
  Content,         \* what a file may contain
  Task,            \* slots for envelopes in flight, on the wire or in a handler
  MaxDisturbances  \* bound on changes on disk and on dropped envelopes, for TLC

ASSUME FileBaselineAssumption ==
  /\ MaxDisturbances \in Nat
  /\ "absent" \notin Content
  /\ "unknown" \notin Content

VARIABLES
  disk,         \* what each path holds
  baseline,     \* the file_baselines table
  task,         \* the envelopes in flight
  known,        \* history: digests that were reported or came first
  disturbances  \* how many of the bounded environment steps are left

vars == <<disk, baseline, task, known, disturbances>>

-----------------------------------------------------------------------------
\* State.

\* A path that does not exist, is not a file, is too large or cannot be read is
\* left out of the envelope.
Absent == "absent"

\* No row for the path.
Unknown == "unknown"

Nothing == [f \in File |-> Absent]
Idle == [stage |-> "idle", seen |-> Nothing, todo |-> {}]
TaskState ==
  [stage : {"idle", "sent", "reporting"}, seen : [File -> Content \cup {Absent}],
   todo : SUBSET File]

Init ==
  /\ disk \in [File -> Content \cup {Absent}]
  /\ baseline = [f \in File |-> Unknown]
  /\ task = [t \in Task |-> Idle]
  /\ known = [f \in File |-> {}]
  /\ disturbances = MaxDisturbances

-----------------------------------------------------------------------------
\* The environment.

\* A file is written, removed, or becomes readable or unreadable.
DiskChanges ==
  /\ disturbances > 0
  /\ \E f \in File, c \in Content \cup {Absent} :
       /\ c # disk[f]
       /\ disk' = [disk EXCEPT ![f] = c]
  /\ disturbances' = disturbances - 1
  /\ UNCHANGED <<baseline, task, known>>

\* The envelope is lost or refused, or its handler is dropped at an await:
\* nothing it wrote is undone, and nobody sends it again.
Cut(t) ==
  /\ disturbances > 0
  /\ task[t].stage # "idle"
  /\ task' = [task EXCEPT ![t] = Idle]
  /\ disturbances' = disturbances - 1
  /\ UNCHANGED <<disk, baseline, known>>

-----------------------------------------------------------------------------
\* A cycle.

\* The agent fingerprints every readable path of its list and posts them.  A
\* cycle begins whether or not the server is done with the one before.
Collect(t) ==
  /\ task[t].stage = "idle"
  /\ task' = [task EXCEPT ![t] = [stage |-> "sent", seen |-> disk, todo |-> {}]]
  /\ UNCHANGED <<disk, baseline, known, disturbances>>

\* The rule integrity.file.changed: seen, in the baseline, and not the same.
Changed(seen) ==
  {f \in File : seen[f] # Absent /\ baseline[f] # Unknown /\ baseline[f] # seen[f]}

\* History: nobody can tell a digest that comes first from a change.
First(seen) == {f \in File : seen[f] # Absent /\ baseline[f] = Unknown}

\* Mutant: paths that were not seen are stored as well.
AdvancedBlindly(seen) == seen

\* Mutant: a row that exists is left as it is.
AdvancedOnce(seen) ==
  [f \in File |-> IF seen[f] # Absent /\ baseline[f] = Unknown THEN seen[f] ELSE baseline[f]]

\* The table once the digests of an envelope are stored: in one transaction, and
\* only those of paths that were seen.
Advanced(seen) == [f \in File |-> IF seen[f] # Absent THEN seen[f] ELSE baseline[f]]

\* Mutant: the baseline moves as soon as it was read, ahead of the reports.
AnalyzeAdvancing(t) ==
  /\ task[t].stage = "sent"
  /\ task' = [task EXCEPT ![t].stage = "reporting", ![t].todo = Changed(task[t].seen)]
  /\ known' = [f \in File |-> IF f \in First(task[t].seen)
                              THEN known[f] \cup {task[t].seen[f]} ELSE known[f]]
  /\ baseline' = Advanced(task[t].seen)
  /\ UNCHANGED <<disk, disturbances>>

\* The handler reads the baseline and evaluates the rules against it.
Analyze(t) ==
  /\ task[t].stage = "sent"
  /\ task' = [task EXCEPT ![t].stage = "reporting", ![t].todo = Changed(task[t].seen)]
  /\ known' = [f \in File |-> IF f \in First(task[t].seen)
                              THEN known[f] \cup {task[t].seen[f]} ELSE known[f]]
  /\ UNCHANGED <<disk, baseline, disturbances>>

\* upsert_incident for one of the files that changed.
Report(t) ==
  /\ task[t].stage = "reporting"
  /\ \E f \in task[t].todo :
       /\ task' = [task EXCEPT ![t].todo = @ \ {f}]
       /\ known' = [known EXCEPT ![f] = @ \cup {task[t].seen[f]}]
  /\ UNCHANGED <<disk, baseline, disturbances>>

\* All are reported: update_file_baseline.
Advance(t) ==
  /\ task[t].stage = "reporting"
  /\ task[t].todo = {}
  /\ baseline' = Advanced(task[t].seen)
  /\ task' = [task EXCEPT ![t] = Idle]
  /\ UNCHANGED <<disk, known, disturbances>>

\* The envelope in a slot goes on to its next statement.
Proceed(t) == Analyze(t) \/ Report(t) \/ Advance(t)

Next ==
  \/ DiskChanges
  \/ \E t \in Task : Collect(t) \/ Proceed(t) \/ Cut(t)

Spec == Init /\ [][Next]_vars

\* Handlers finish, and the agent keeps its interval.
Fairness ==
  /\ \A t \in Task : WF_vars(Proceed(t))
  /\ SF_vars(\E t \in Task : Collect(t))

FairSpec == Spec /\ Fairness

\* What the liveness property needs of it and of the bound: the disk settles,
\* handlers go on finishing, and nothing that was collected long ago is in flight
\* for ever.
Fresh == \A t \in Task : task[t].stage # "idle" => task[t].seen = disk

DiskSettles == <>[][UNCHANGED disk]_vars
HandlersFinish == []<><<\E t \in Task : Advance(t)>>_vars
EnvelopesEnd == []<>Fresh

-----------------------------------------------------------------------------
\* Properties.

TypeOK ==
  /\ disk \in [File -> Content \cup {Absent}]
  /\ baseline \in [File -> Content \cup {Unknown}]
  /\ task \in [Task -> TaskState]
  /\ known \in [File -> SUBSET Content]
  /\ disturbances \in 0..MaxDisturbances

\* No change is swallowed: the baseline never holds a digest that is neither
\* the first one of its file nor was reported before, wherever handlers were
\* dropped and however they overlapped (storage.rs:292-295, api.rs:305-336).
BaselineKnown == \A f \in File : baseline[f] # Unknown => baseline[f] \in known[f]

\* Once the disk and the failures settle, so does the baseline, on what is on
\* disk: the last change is reported, if it was one, and then falls silent,
\* whatever older envelopes wrote over it meanwhile.
Catches(f) == disk[f] # Absent => baseline[f] = disk[f]

BaselineConverges == \A f \in File : <>[]Catches(f)
=============================================================================
