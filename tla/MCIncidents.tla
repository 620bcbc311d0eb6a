---------------------------- MODULE MCIncidents ----------------------------
\* Small incident stores for TLC.  The findings of the runs are named after the
\* rule that raises them.
EXTENDS Incidents, TLC

MCCategoryOf ==
  [f \in Finding |->
     CASE f = "exposed port" -> "exposure"
       [] f = "firewall off" -> "hygiene"
       [] f = "login burst" -> "intrusion"
       [] f = "silent agent" -> "availability"]

NoGaps == {{}}
AnyGaps == SUBSET Surface
SomeGap == {{}, {"listeners"}}

Symmetric == Permutations(Task)
=============================================================================
