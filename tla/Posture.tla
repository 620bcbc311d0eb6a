------------------------------- MODULE Posture -------------------------------
(***************************************************************************)
(* A scope whose findings come and go, and the score shown of it.  The     *)
(* score is a function of the summary, recomputed at every query of the    *)
(* fleet's posture; what the module asks is how it moves when findings do. *)
(***************************************************************************)
EXTENDS Scoring

VARIABLE counts   \* the open findings of the scope, by category and severity

postureVars == counts

PostureTypeOK == counts \in Counts

Open == MapThenSumSet(LAMBDA cell : counts[cell[1]][cell[2]], Categories \X Severities)

PostureInit == counts = NoFindings

\* A finding is recorded, or comes back after it was resolved.
Raise(category, severity) ==
  /\ Open < MaxOpen
  /\ counts' = Added(counts, category, severity, 1)

\* A repeated finding keeps the worst severity seen.
Escalate(category, from, to) ==
  /\ counts[category][from] > 0
  /\ from < to
  /\ counts' = [counts EXCEPT ![category][from] = @ - 1, ![category][to] = @ + 1]

\* A finding is resolved.
Close(category, severity) ==
  /\ counts[category][severity] > 0
  /\ counts' = [counts EXCEPT ![category][severity] = @ - 1]

PostureNext ==
  \E category \in Categories, severity \in Severities :
    \/ Raise(category, severity)
    \/ \E to \in Severities : Escalate(category, severity, to)
    \/ Close(category, severity)

PostureSpec == PostureInit /\ [][PostureNext]_postureVars

-----------------------------------------------------------------------------
\* Findings of a category at a severity or worse.
AtLeast(open, severity) ==
  CASE severity = Critical -> open[Critical]
    [] severity = High -> open[Critical] + open[High]
    [] severity = Medium -> open[Critical] + open[High] + open[Medium]
    [] severity = Low -> open[Critical] + open[High] + open[Medium] + open[Low]
    [] severity = Info -> open[Critical] + open[High] + open[Medium] + open[Low] + open[Info]

\* One summary is at least as bad as another: finding for finding, no less severe.
NoBetter(worse, better) ==
  \A category \in Categories, severity \in Severities :
    AtLeast(worse[category], severity) >= AtLeast(better[category], severity)

\* However findings are added, escalated and closed, a scope that got worse is
\* never shown a higher score, nor one that got better a lower score, through
\* the caps of the dimensions, two roundings and the ceiling
\* (compute_from_counts).
ScoreFollows ==
  counts' # counts =>
    /\ NoBetter(counts', counts) => Score(counts') <= Score(counts)
    /\ NoBetter(counts, counts') => Score(counts) <= Score(counts')
WorseNeverScoresHigher == [][ScoreFollows]_postureVars

\* An emergency is not diluted by five healthy dimensions: one critical finding
\* is an F, one high finding at most a C, one medium finding no A, and a
\* perfect score says that nothing but informative findings is open.
NoDilution ==
  /\ OpenAt(counts, Critical) => Grade(Score(counts)) = "F"
  /\ OpenAt(counts, High) => Grade(Score(counts)) \in {"C", "D", "F"}
  /\ OpenAt(counts, Medium) => Grade(Score(counts)) # "A"
  /\ Score(counts) = 100 <=> \A severity \in Low..Critical : ~OpenAt(counts, severity)
=============================================================================
