-------------------------------- MODULE Rules --------------------------------
(***************************************************************************)
(* The detection rules (rootcause-core/src/detect/): one operator per rule *)
(* from the evidence of an envelope to the findings it supports, and the   *)
(* engine that concatenates, merges and sorts them.                        *)
(*                                                                         *)
(* A finding is its rule and key, the fingerprint within one asset, its    *)
(* severity, its category and its evidence.  Titles, summaries, advice,    *)
(* confidence and techniques are left out.  Times are ticks, in the unit   *)
(* of the policy's hours and seconds; percentages are whole numbers.       *)
(***************************************************************************)
EXTENDS Policy, TLC

-----------------------------------------------------------------------------
\* The published catalog: the category of each rule and the severity it says it
\* can reach.

Published(category, ceiling) == [category |-> category, ceiling |-> ceiling]

CatalogOf(rule) ==
  CASE rule = "exposure.service.public" -> Published("exposure", Critical)
    [] rule = "exposure.cleartext.protocol" -> Published("exposure", High)
    [] rule \in {"intrusion.auth.bruteforce", "intrusion.auth.success_after_burst"} ->
         Published("intrusion", Critical)
    [] rule \in {"intrusion.auth.spray", "intrusion.auth.distributed", "intrusion.network.fanin",
                 "intrusion.egress.anomaly"} -> Published("intrusion", High)
    [] rule \in {"integrity.file.changed", "integrity.file.permissions"} ->
         Published("integrity", High)
    [] rule \in {"hygiene.firewall.disabled", "hygiene.updates.pending"} ->
         Published("hygiene", High)
    [] rule = "hygiene.clock.skew" -> Published("hygiene", Medium)
    [] rule = "availability.agent.silence" -> Published("availability", High)
    [] rule \in {"resource.cpu.saturation", "resource.memory.pressure",
                 "resource.disk.capacity"} -> Published("resource", Critical)
    [] rule = "resource.disk.runway" -> Published("resource", High)

Finding(rule, key, category, severity, evidence) ==
  [fingerprint |-> <<rule, key>>, category |-> category, severity |-> severity,
   evidence |-> {<<rule, evidence>>}]

\* A sample of the resources.
Sample(observed_at, cpu, memory, disk, tx) ==
  [observed_at |-> observed_at, cpu |-> cpu, memory |-> memory, disk |-> disk, tx |-> tx]

\* DetectionInput::new: security is {} or {signals}, history is oldest first
\* and does not hold the sample.
Input(role, sample, received_at, baseline) ==
  [role |-> role, sample |-> sample, received_at |-> received_at, baseline |-> baseline,
   security |-> {}, history |-> <<>>]

\* One finding if the condition holds.
When(condition, finding) == IF condition THEN {finding} ELSE {}

-----------------------------------------------------------------------------
\* exposure.rs: one finding per protocol and port reachable from elsewhere.

ExposureFinding(policy, role, socket) ==
  LET class == PortClass(socket.port)
  IN Finding(IF class = "cleartext" THEN "exposure.cleartext.protocol"
                                    ELSE "exposure.service.public",
             <<socket.protocol, socket.port>>, "exposure",
             ExposureSeverity(class, socket.scope, role), socket)

Reported(policy, role, socket) ==
  /\ ~(socket.scope = "public" /\ IsAllowedPublic(policy, socket.port, role))
  /\ ExposureSeverity(PortClass(socket.port), socket.scope, role) # Info

Exposure(policy, role, signals) ==
  LET reported == Where(ExposedListeners(signals),
                        LAMBDA socket : Reported(policy, role, socket))
  IN [i \in DOMAIN reported |-> ExposureFinding(policy, role, reported[i])]

-----------------------------------------------------------------------------
\* intrusion.rs.

BruteForce(policy, signals, source) ==
  LET failures == Attempts(signals, source, "failure")
  IN When(failures >= policy.failures_per_source_high,
          Finding("intrusion.auth.bruteforce", source, "intrusion",
                  IF failures >= policy.failures_per_source_critical THEN Critical ELSE High,
                  source))

Spray(policy, signals, source) ==
  When(Cardinality(Usernames(signals, source)) >= policy.sprayed_usernames,
       Finding("intrusion.auth.spray", source, "intrusion", High, source))

\* The order of the failures and the success is not known, nor asked.
SuccessAfterBurst(policy, signals, source) ==
  When(/\ Attempts(signals, source, "success") > 0
       /\ Attempts(signals, source, "failure") >= policy.failures_per_source_high,
       Finding("intrusion.auth.success_after_burst", source, "intrusion", Critical, source))

Distributed(policy, pressured) ==
  When(Cardinality(pressured) >= policy.distributed_sources,
       Finding("intrusion.auth.distributed", "", "intrusion", High, pressured))

Authentication(policy, signals) ==
  LET pressured == {s \in Sources(signals) : Attempts(signals, s, "failure") > 0}
  IN (UNION {BruteForce(policy, signals, s) \cup Spray(policy, signals, s)
               \cup SuccessAfterBurst(policy, signals, s) : s \in pressured})
     \cup Distributed(policy, pressured)

FanIn(policy, signals) ==
  LET distinct == DistinctPeers(signals)
  IN When(distinct >= policy.peer_fanin_high,
          Finding("intrusion.network.fanin", "", "intrusion",
                  IF distinct >= policy.peer_fanin_critical THEN High ELSE Medium, distinct))

\* Rates are kept in twelfths of a byte per tick: exact for gaps of up to four
\* ticks.  {} where there is no rate: no time passed, or the counter went back.
RateScale == 12

\* Mutant: a counter that went back counts as traffic.
EgressRateWrapping(previous, current) ==
  LET elapsed == current.observed_at - previous.observed_at
  IN IF elapsed <= 0 THEN {} ELSE {(((current.tx - previous.tx) % 65536) * RateScale) \div elapsed}

EgressRate(previous, current) ==
  LET elapsed == current.observed_at - previous.observed_at
      sent == current.tx - previous.tx
  IN IF elapsed <= 0 \/ sent < 0 THEN {} ELSE {(sent * RateScale) \div elapsed}

Egress(policy, sample, history) ==
  LET rates == FlattenSeq([i \in 1..(Len(history) - 1) |->
                             AsSeq(EgressRate(history[i], history[i + 1]))])
      floor == policy.egress_floor * RateScale
      \* rate >= k times the larger of the floor and the multiplied average.
      Exceeds(rate, k) == /\ rate >= k * floor
                          /\ rate * Len(rates) >= k * policy.egress_multiplier * Total(rates)
      Anomaly(rate) == When(Exceeds(rate, 1),
                            Finding("intrusion.egress.anomaly", "", "intrusion",
                                    IF Exceeds(rate, 3) THEN High ELSE Medium, rate))
  IN IF Len(history) < 3 \/ rates = <<>> THEN {}
     ELSE UNION {Anomaly(rate) : rate \in EgressRate(history[Len(history)], sample)}

-----------------------------------------------------------------------------
\* integrity.rs: the files of the snapshot in their order.

\* The paths that decide who can enter the server.
AccessCritical == {"sshd_config", "sudoers", "passwd", "authorized_keys"}

FileFindings(file, baseline) ==
  AsSeq(When(/\ file.path \in DOMAIN baseline
                /\ baseline[file.path] # file.digest,
                Finding("integrity.file.changed", file.path, "integrity",
                        IF file.path \in AccessCritical THEN High ELSE Medium, file.digest)))
  \o AsSeq(When(file.world_writable,
                   Finding("integrity.file.permissions", file.path, "integrity", High,
                           "world writable")))

Integrity(signals, baseline) ==
  FlattenSeq([i \in DOMAIN signals.watched_files |->
                FileFindings(signals.watched_files[i], baseline)])

-----------------------------------------------------------------------------
\* hygiene.rs.

FirewallDisabled(firewall) ==
  When(~firewall.enabled \/ ~firewall.default_inbound_deny,
       Finding("hygiene.firewall.disabled", firewall.engine, "hygiene",
               IF firewall.enabled THEN Medium ELSE High, firewall))

UpdatesPending(policy, pending) ==
  When(pending > 0,
       Finding("hygiene.updates.pending", "", "hygiene",
               IF pending >= policy.pending_updates_high THEN High ELSE Medium, pending))

Hygiene(policy, signals) ==
  (UNION {FirewallDisabled(firewall) : firewall \in signals.firewall})
  \cup (UNION {UpdatesPending(policy, pending) : pending \in signals.updates})

Clock(policy, sample, received_at) ==
  LET skew == received_at - sample.observed_at
  IN When(skew > policy.clock_skew_seconds \/ -skew > policy.clock_skew_seconds,
          Finding("hygiene.clock.skew", "", "hygiene", Medium, skew))

-----------------------------------------------------------------------------
\* resource.rs.

Disk(policy, sample) ==
  When(sample.disk >= policy.disk_high,
       Finding("resource.disk.capacity", "", "resource",
               IF sample.disk >= policy.disk_critical THEN Critical ELSE High, sample.disk))

\* hours_to_full is remaining * elapsed / growth, if time passed and the disk
\* grew; Within(h) says that it is at most h.
Runway(policy, sample, history) ==
  LET elapsed == sample.observed_at - history[1].observed_at
      growth == sample.disk - history[1].disk
      Within(hours, part) == part * (100 - sample.disk) * elapsed <= hours * growth
  IN IF Len(history) < 3 \/ elapsed <= 0 \/ growth <= 0 THEN {}
     ELSE When(/\ Within(policy.disk_runway_hours, 1)
               /\ sample.disk < policy.disk_critical,
               Finding("resource.disk.runway", "", "resource",
                       IF Within(policy.disk_runway_hours, 4) THEN High ELSE Medium, growth))

Memory(policy, sample) ==
  When(sample.memory >= policy.memory_high,
       Finding("resource.memory.pressure", "", "resource",
               IF sample.memory >= policy.memory_critical THEN Critical ELSE High,
               sample.memory))

\* Mutant: the saturated samples of the window are counted wherever they are.
SustainedAnywhere(history, threshold) ==
  Cardinality({i \in DOMAIN history : history[i].cpu >= threshold})

\* How many samples at the end of the history were already saturated.
SustainedSamples(history, threshold) ==
  Max({n \in 0..Len(history) :
         \A i \in (Len(history) - n + 1)..Len(history) : history[i].cpu >= threshold})

Cpu(policy, sample, history) ==
  When(/\ sample.cpu >= policy.cpu_high
       /\ SustainedSamples(history, policy.cpu_high) + 1 >= policy.cpu_sustained_samples,
       Finding("resource.cpu.saturation", "", "resource",
               IF sample.cpu >= policy.cpu_critical THEN Critical ELSE High, sample.cpu))

Resource(policy, sample, history) ==
  Disk(policy, sample) \cup Runway(policy, sample, history) \cup Memory(policy, sample)
    \cup Cpu(policy, sample, history)

-----------------------------------------------------------------------------
\* mod.rs: the engine.

\* Candidates of all rules, in the order in which they are pushed.
Candidates(policy, input) ==
  FlattenSeq(AsSeq({Exposure(policy, input.role, s) : s \in input.security}))
  \o AsSeq(UNION {Authentication(policy, s) \cup FanIn(policy, s) : s \in input.security})
  \o AsSeq(Egress(policy, input.sample, input.history))
  \o FlattenSeq(AsSeq({Integrity(s, input.baseline) : s \in input.security}))
  \o AsSeq(Clock(policy, input.sample, input.received_at)
                \cup (UNION {Hygiene(policy, s) : s \in input.security}))
  \o AsSeq(Resource(policy, input.sample, input.history))

\* Mutant: the first of two candidates wins.
MergeFirst(existing, candidate) == existing

\* Two candidates of one fingerprint: the worse one, with the evidence of both.
Merge(existing, candidate) ==
  [(IF candidate.severity > existing.severity THEN candidate ELSE existing)
     EXCEPT !.evidence = existing.evidence \cup candidate.evidence]

Alike(candidates, fp) == Where(candidates, LAMBDA c : c.fingerprint = fp)

\* The candidates of one fingerprint, merged in their order.
Merged(same) ==
  LET merged[i \in 1..Len(same)] ==
        IF i = 1 THEN same[1] ELSE Merge(merged[i - 1], same[i])
  IN merged[Len(same)]

\* Mutant: candidates are not merged.
Unmerged(candidates) == {candidates[i] : i \in DOMAIN candidates}

\* merge_by_fingerprint: a map from fingerprints to findings, as a set.
MergeByFingerprint(candidates) ==
  {Merged(Alike(candidates, fp)) :
     fp \in {candidates[i].fingerprint : i \in DOMAIN candidates}}

\* Mutant: findings are stored in the order of their fingerprints.
SortedByFingerprint(findings) == AsSeq(findings)

\* Highest severity first; ties keep one fixed order.
SortedBySeverity(findings) ==
  InTurn([k \in 1..Cardinality(Severities) |->
            {finding \in findings : finding.severity = Critical + 1 - k}])

\* DetectionEngine::analyze.
Analyze(policy, input) == SortedBySeverity(MergeByFingerprint(Candidates(policy, input)))
=============================================================================
