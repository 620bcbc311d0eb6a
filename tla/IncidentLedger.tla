--------------------------- MODULE IncidentLedger ---------------------------
(***************************************************************************)
(* What the incident store promises, with every operation in one step:     *)
(* a finding that repeats is the same incident with one more occurrence,   *)
(* it is open again whatever was done to it, it keeps the worst severity   *)
(* ever observed, and the engine closes only findings of categories that   *)
(* heal by themselves.                                                     *)
(***************************************************************************)
EXTENDS Naturals

CONSTANTS
  Finding,        \* fingerprints
  SelfHealing,    \* the findings whose category the engine may close
  MaxSeverity,    \* severities are 1..MaxSeverity
  MaxOccurrences  \* where the counter saturates

VARIABLE ledger

Status == {"open", "acknowledged", "resolved"}
Absent == [status |-> "absent", severity |-> 0, occurrences |-> 0]
Entry == [status : Status, severity : 1..MaxSeverity, occurrences : 1..MaxOccurrences]

Init == ledger = [f \in Finding |-> Absent]

\* A detector reports f with severity s.
Observe(f, s) ==
  ledger' = [ledger EXCEPT ![f] =
    [status |-> "open",
     severity |-> IF s > ledger[f].severity THEN s ELSE ledger[f].severity,
     occurrences |-> IF ledger[f].occurrences < MaxOccurrences
                     THEN ledger[f].occurrences + 1 ELSE MaxOccurrences]]

\* The engine closes a finding that is no longer observed.
Close(f) ==
  /\ f \in SelfHealing
  /\ ledger[f] \in Entry
  /\ ledger' = [ledger EXCEPT ![f].status = "resolved"]

\* An operator sets the status.
Change(f, status) ==
  /\ ledger[f] \in Entry
  /\ ledger' = [ledger EXCEPT ![f].status = status]

Next ==
  \E f \in Finding :
    \/ \E s \in 1..MaxSeverity : Observe(f, s)
    \/ Close(f)
    \/ \E status \in Status : Change(f, status)

Spec == Init /\ [][Next]_ledger
=============================================================================
