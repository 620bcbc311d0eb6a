------------------------------- MODULE Scoring -------------------------------
(***************************************************************************)
(* The posture score (rootcause-core/src/posture.rs): one number for the   *)
(* findings open in a scope.  A summary is how many findings of each       *)
(* severity are open in each category, FindingCounts; the score subtracts  *)
(* points per finding from each dimension, averages the dimensions, and    *)
(* scales the average down by the worst finding open anywhere.             *)
(***************************************************************************)
EXTENDS Surface

CONSTANT MaxOpen  \* bound on the findings open at once, for TLC

ASSUME ScoringAssumption == MaxOpen \in Nat

\* FindingCounts, without the saturation of its u32 counters.
Counts == [Categories -> [Severities -> Nat]]
NoFindings == [category \in Categories |-> [severity \in Severities |-> 0]]

\* FindingCounts::add.
Added(counts, category, severity, count) ==
  [counts EXCEPT ![category][severity] = @ + count]

\* FindingCounts::worst, as Info when nothing is open: they cap the score alike.
OpenAt(counts, severity) == \E category \in Categories : counts[category][severity] > 0

-----------------------------------------------------------------------------
\* Points removed from a dimension for one open finding.
Weight(severity) ==
  CASE severity = Critical -> 45
    [] severity = High -> 25
    [] severity = Medium -> 10
    [] severity = Low -> 4
    [] severity = Info -> 0

Penalty(open) ==
  open[Critical] * Weight(Critical) + open[High] * Weight(High) + open[Medium] * Weight(Medium)
    + open[Low] * Weight(Low) + open[Info] * Weight(Info)

\* Mutant: the subtraction wraps round in eight bits.
DimensionWrapping(open) == (356 - Penalty(open)) % 256

Dimension(open) == IF Penalty(open) > 100 THEN 0 ELSE 100 - Penalty(open)

\* Sum of dimension_weight over Category::ALL.
WeightSum == 19

Average(counts) ==
  ( 5 * Dimension(counts["intrusion"]) + 5 * Dimension(counts["exposure"])
  + 3 * Dimension(counts["integrity"]) + 3 * Dimension(counts["availability"])
  + 2 * Dimension(counts["hygiene"]) + Dimension(counts["resource"])) \div WeightSum

\* Mutant: the most frequent severity caps the score rather than the worst.
CeilingDiluted(counts) ==
  IF \E category \in Categories : counts[category][Critical] > 1 THEN 55
  ELSE IF OpenAt(counts, High) THEN 74
  ELSE IF OpenAt(counts, Medium) THEN 89 ELSE 100

\* What the worst open finding leaves of the average.
Ceiling(counts) ==
  IF OpenAt(counts, Critical) THEN 55
  ELSE IF OpenAt(counts, High) THEN 74
  ELSE IF OpenAt(counts, Medium) THEN 89 ELSE 100

\* compute_from_counts.
Score(counts) == (Average(counts) * Ceiling(counts)) \div 100

Grade(score) ==
  CASE score >= 90 -> "A"
    [] score \in 80..89 -> "B"
    [] score \in 70..79 -> "C"
    [] score \in 60..69 -> "D"
    [] OTHER -> "F"

=============================================================================
