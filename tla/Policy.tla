------------------------------- MODULE Policy -------------------------------
(***************************************************************************)
(* The detection policy (rootcause-core/src/policy.rs): the thresholds,    *)
(* which of them are refused at start-up, and how reach and role turn the  *)
(* class of a port into a severity.  Percentages and rates are whole       *)
(* numbers, a policy is a record, and the rules take it as a parameter.    *)
(***************************************************************************)
EXTENDS Surface

\* DetectionPolicy::default.
DefaultPolicy ==
  [cpu_high |-> 90, cpu_critical |-> 98, cpu_sustained_samples |-> 3,
   memory_high |-> 88, memory_critical |-> 96,
   disk_high |-> 85, disk_critical |-> 95, disk_runway_hours |-> 48,
   failures_per_source_high |-> 20, failures_per_source_critical |-> 100,
   sprayed_usernames |-> 5, distributed_sources |-> 10,
   peer_fanin_high |-> 50, peer_fanin_critical |-> 200,
   egress_multiplier |-> 8, egress_floor |-> 1000000,
   pending_updates_high |-> 15, clock_skew_seconds |-> 120, silence_intervals |-> 4,
   public_allowlist |-> {}]

\* Mutant: the order of the two thresholds of a metric is not checked.
ValidateUnordered(policy) ==
  /\ policy.cpu_sustained_samples # 0
  /\ policy.disk_runway_hours > 0
  /\ policy.clock_skew_seconds > 0

\* DetectionPolicy::validate.
Validate(policy) ==
  /\ \A pair \in {<<policy.cpu_high, policy.cpu_critical>>,
                  <<policy.memory_high, policy.memory_critical>>,
                  <<policy.disk_high, policy.disk_critical>>} :
       pair[1] \in 0..100 /\ pair[2] \in 0..100 /\ pair[1] <= pair[2]
  /\ policy.cpu_sustained_samples # 0
  /\ policy.disk_runway_hours > 0
  /\ policy.failures_per_source_high # 0
  /\ policy.failures_per_source_high <= policy.failures_per_source_critical
  /\ policy.peer_fanin_high <= policy.peer_fanin_critical
  /\ policy.egress_multiplier > 1
  /\ policy.silence_intervals # 0
  /\ policy.clock_skew_seconds > 0

-----------------------------------------------------------------------------
\* A port that is public on purpose raises no finding.
IsAllowedPublic(policy, port, role) ==
  port \in policy.public_allowlist \/ (role = "edge" /\ port \in {80, 443})

Downgrade(severity) == IF severity = Info THEN Info ELSE severity - 1

\* The severity of a class of port reachable from any interface.
Intrinsic(class) ==
  CASE class \in {"database", "infrastructure"} -> Critical
    [] class \in {"remote-admin", "cleartext", "file-share"} -> High
    [] class \in {"mail", "web"} -> Medium
    [] class = "other" -> Low

ExposureSeverity(class, scope, role) ==
  CASE scope = "loopback" -> Info
    [] scope = "private" -> Downgrade(Intrinsic(class))
    [] scope = "public" -> IF role = "database" /\ class # "other" THEN Critical
                                                                   ELSE Intrinsic(class)
=============================================================================
