--------------------------- MODULE DetectionProofs ---------------------------
(***************************************************************************)
(* Proofs about the rules on a history (Trends) and about the way from a   *)
(* machine to its incidents (Assessment).                                  *)
(***************************************************************************)
EXTENDS Assessment, Trends, ListProofs

-----------------------------------------------------------------------------
\* recent_samples.

\* The samples of a set by their age.
Timed(S) ==
  /\ IsFiniteSet(S)
  /\ \A s \in S : s.observed_at \in Int
  /\ \A s, t \in S : s.observed_at = t.observed_at => s = t

OlderIn(S, s) == {older \in S : older.observed_at < s.observed_at}

LEMMA OlderCounts ==
  ASSUME NEW S, Timed(S)
  PROVE  /\ \A s \in S : Cardinality(OlderIn(S, s)) \in 0..(Cardinality(S) - 1)
         /\ \A s, t \in S : s.observed_at < t.observed_at <=>
                              Cardinality(OlderIn(S, s)) < Cardinality(OlderIn(S, t))
<1> DEFINE rank(s) == Cardinality(OlderIn(S, s))
<1>0. /\ IsFiniteSet(S) /\ \A s \in S : s.observed_at \in Int
      /\ \A s, t \in S : s.observed_at = t.observed_at => s = t
  BY DEF Timed
<1>1. ASSUME NEW s \in S
      PROVE  /\ IsFiniteSet(OlderIn(S, s)) /\ rank(s) \in Nat /\ OlderIn(S, s) \subseteq S
             /\ s \notin OlderIn(S, s)
  <2>1. OlderIn(S, s) \subseteq S
    BY DEF OlderIn
  <2>2. IsFiniteSet(OlderIn(S, s))
    BY <1>0, <2>1, FS_Subset
  <2>3. s \notin OlderIn(S, s)
    BY <1>0 DEF OlderIn
  <2> QED BY <2>1, <2>2, <2>3, FS_CardinalityType
<1>2. ASSUME NEW s \in S PROVE rank(s) \in 0..(Cardinality(S) - 1)
  <2> DEFINE A == OlderIn(S, s)
  <2>1. IsFiniteSet(A) /\ rank(s) \in Nat /\ A \subseteq S /\ s \notin A /\ rank(s) = Cardinality(A)
    BY <1>1
  <2> HIDE DEF A
  <2>2. Cardinality(A \cup {s}) = Cardinality(A) + 1
    BY <2>1, FS_AddElement
  <2>3. A \cup {s} \in SUBSET S
    BY <2>1
  <2>4. Cardinality(A \cup {s}) <= Cardinality(S)
    BY <2>3, <1>0, FS_Subset
  <2>5. Cardinality(S) \in Nat
    BY <1>0, FS_CardinalityType
  <2> HIDE DEF rank
  <2> QED BY <2>1, <2>2, <2>4, <2>5
<1>3. ASSUME NEW s \in S, NEW t \in S, s.observed_at < t.observed_at
      PROVE  rank(s) < rank(t)
  <2> DEFINE A == OlderIn(S, s)
             B == OlderIn(S, t)
  <2>1. IsFiniteSet(A) /\ IsFiniteSet(B) /\ rank(s) \in Nat /\ rank(t) \in Nat /\ s \notin A
    BY <1>1
  <2>2. A \cup {s} \in SUBSET B
    BY <1>0, <1>3 DEF OlderIn
  <2>3. rank(s) = Cardinality(A) /\ rank(t) = Cardinality(B)
    OBVIOUS
  <2> HIDE DEF A, B, rank
  <2>4. Cardinality(A \cup {s}) = Cardinality(A) + 1
    BY <2>1, FS_AddElement
  <2>5. Cardinality(A \cup {s}) <= Cardinality(B)
    BY <2>1, <2>2, FS_Subset
  <2> QED BY <2>1, <2>3, <2>4, <2>5
<1>4. ASSUME NEW s \in S, NEW t \in S, rank(s) < rank(t)
      PROVE  s.observed_at < t.observed_at
  <2>1. CASE s.observed_at = t.observed_at
    <3>1. s = t
      BY <1>0, <2>1
    <3> QED BY <3>1, <1>4, <1>2
  <2>2. CASE t.observed_at < s.observed_at
    <3>1. rank(t) < rank(s)
      BY <1>3, <2>2
    <3> HIDE DEF rank
    <3> QED BY <3>1, <1>4, <1>2
  <2> QED BY <2>1, <2>2, <1>0
<1> QED BY <1>2, <1>3, <1>4

\* Some samples, oldest first.
ByAge(S) == [k \in 1..Cardinality(S) |->
               CHOOSE s \in S : Cardinality(OlderIn(S, s)) = k - 1]

LEMMA ByAgeLists ==
  ASSUME NEW S, Timed(S)
  PROVE  /\ ByAge(S) \in Seq(S) /\ Len(ByAge(S)) = Cardinality(S)
         /\ ToSet(ByAge(S)) = S
         /\ \A i, j \in DOMAIN ByAge(S) :
              i < j => ByAge(S)[i].observed_at < ByAge(S)[j].observed_at
<1> DEFINE n == Cardinality(S)
           rank == [s \in S |-> Cardinality(OlderIn(S, s))]
           h == ByAge(S)
<1>1. IsFiniteSet(S) /\ n \in Nat
  BY FS_CardinalityType DEF Timed
<1>2. /\ rank \in [S -> 0..(n - 1)]
      /\ \A s, t \in S : s.observed_at < t.observed_at <=> rank[s] < rank[t]
  BY OlderCounts
<1>3. h = [k \in 1..n |-> CHOOSE s \in S : rank[s] = k - 1]
  BY DEF ByAge
<1>4. \A s, t \in S : rank[s] = rank[t] => s = t
  <2> SUFFICES ASSUME NEW s \in S, NEW t \in S, rank[s] = rank[t] PROVE s = t
    OBVIOUS
  <2> HIDE DEF rank
  <2>1. ~(s.observed_at < t.observed_at) /\ ~(t.observed_at < s.observed_at)
    BY <1>1, <1>2
  <2> QED BY <2>1 DEF Timed
<1> HIDE DEF n, rank, h
<1>5. \A k \in 0..(n - 1) : \E s \in S : rank[s] = k
  <2>1. rank \in Injection(S, 0..(n - 1))
    BY <1>2, <1>4 DEF Injection, IsInjective
  <2>2. IsFiniteSet(0..(n - 1)) /\ Cardinality(0..(n - 1)) = n
    <3>1. n - 1 \in Int /\ 0 \in Int
      BY <1>1
    <3>2. IsFiniteSet(0..(n - 1)) /\ Cardinality(0..(n - 1)) = IF 0 > n - 1 THEN 0 ELSE (n - 1) - 0 + 1
      BY <3>1, FS_Interval
    <3> QED BY <3>2, <1>1
  <2>3. Cardinality(S) = n
    BY DEF n
  <2>4. rank \in Surjection(S, 0..(n - 1))
    BY <2>1, <2>2, <2>3, FS_Injection
  <2> QED BY <2>4 DEF Surjection
<1>6. ASSUME NEW k \in 1..n PROVE h[k] \in S /\ rank[h[k]] = k - 1
  <2>1. k - 1 \in 0..(n - 1)
    BY <1>1
  <2>2. \E s \in S : rank[s] = k - 1
    BY <2>1, <1>5
  <2>3. h[k] = CHOOSE s \in S : rank[s] = k - 1
    BY <1>3
  <2> QED BY <2>2, <2>3
<1>7. DOMAIN h = 1..n /\ h = [k \in 1..n |-> h[k]]
  BY <1>3
<1>8. h \in Seq(S) /\ Len(h) = n
  BY <1>1, <1>6, <1>7, IsASeq
<1>9. ASSUME NEW s \in S PROVE \E k \in 1..n : h[k] = s
  <2>1. rank[s] + 1 \in 1..n /\ (rank[s] + 1) - 1 = rank[s]
    BY <1>1, <1>2
  <2>2. h[rank[s] + 1] \in S /\ rank[h[rank[s] + 1]] = rank[s]
    BY <2>1, <1>6
  <2> QED BY <2>1, <2>2, <1>4
<1>10. ToSet(h) = S
  <2>1. ToSet(h) = {h[k] : k \in 1..n}
    BY <1>7, ToSetIs
  <2> QED BY <2>1, <1>6, <1>9
<1>11. ASSUME NEW i \in 1..n, NEW j \in 1..n, i < j
       PROVE  h[i].observed_at < h[j].observed_at
  <2>1. rank[h[i]] < rank[h[j]]
    BY <1>6, <1>11
  <2> QED BY <2>1, <1>2, <1>6
<1> QED BY <1>7, <1>8, <1>10, <1>11 DEF h, n

\* The samples that recent_samples chooses from, and the history it returns.
OlderSamples(sample) == {s \in samples : s.observed_at < sample.observed_at}

IsHistory(h, S) ==
  /\ h \in Seq(S)
  /\ Len(h) <= HistoryWindow
  /\ \A i, j \in DOMAIN h : i < j => h[i].observed_at < h[j].observed_at

LEMMA RecentLists ==
  ASSUME NEW sample, Timed(samples)
  PROVE  IsHistory(RecentSamples(sample), OlderSamples(sample))
<1> DEFINE B == OlderSamples(sample)
           newer(s) == {u \in B : u.observed_at > s.observed_at}
           recent == {s \in B : Cardinality(newer(s)) < HistoryWindow}
<1>1. RecentSamples(sample) = ByAge(recent)
  BY DEF RecentSamples, ByAge, OlderIn, OlderSamples
<1>2. HistoryWindow \in Nat
  BY TrendAssumption
<1>3. B \subseteq samples /\ recent \subseteq B /\ IsFiniteSet(B) /\ IsFiniteSet(recent)
  <2>1. B \subseteq samples /\ IsFiniteSet(samples)
    BY DEF OlderSamples, Timed
  <2>2. recent \in SUBSET B
    OBVIOUS
  <2> HIDE DEF B, recent
  <2>3. IsFiniteSet(B)
    BY <2>1, FS_Subset
  <2> QED BY <2>1, <2>2, <2>3, FS_Subset
<1>4. Timed(recent)
  <2> HIDE DEF B, recent
  <2> QED BY <1>3 DEF Timed
<1> DEFINE h == ByAge(recent)
           n == Cardinality(recent)
<1>5. /\ h \in Seq(recent) /\ Len(h) = n /\ ToSet(h) = recent /\ n \in Nat
      /\ \A i, j \in DOMAIN h : i < j => h[i].observed_at < h[j].observed_at
  <2> HIDE DEF recent
  <2> QED BY <1>3, <1>4, ByAgeLists, FS_CardinalityType
<1>6. Len(h) <= HistoryWindow
  <2>1. CASE n = 0
    BY <2>1, <1>2, <1>5
  <2>2. CASE n # 0
    <3> DEFINE first == h[1]
    <3>1. 1 \in DOMAIN h /\ DOMAIN h = 1..n
      <4> HIDE DEF recent, n, h
      <4> QED BY <1>5, <2>2
    <3>2. first \in recent
      <4> HIDE DEF recent, n, h
      <4> QED BY <1>5, <3>1
    <3>3. IsFiniteSet(newer(first)) /\ Cardinality(newer(first)) < HistoryWindow
          /\ Cardinality(newer(first)) \in Nat
      <4> HIDE DEF B
      <4>1. newer(first) \in SUBSET B
        OBVIOUS
      <4>2. IsFiniteSet(newer(first))
        BY <4>1, <1>3, FS_Subset
      <4>3. Cardinality(newer(first)) < HistoryWindow
        BY <3>2
      <4> QED BY <4>2, <4>3, FS_CardinalityType
    <3>4. recent \ {first} \in SUBSET newer(first)
      <4> SUFFICES ASSUME NEW s \in recent, s # first PROVE s \in newer(first)
        OBVIOUS
      <4>1. PICK i \in 1..n : s = h[i]
        <5> HIDE DEF recent, n, h
        <5> QED BY <1>5, <3>1, ToSetIs
      <4>2. i # 1
        BY <4>1
      <4>3. first.observed_at < s.observed_at
        <5> HIDE DEF recent, n, h
        <5>1. 1 < i /\ i \in DOMAIN h
          BY <3>1, <4>2
        <5> QED BY <5>1, <3>1, <4>1, <1>5 DEF first
      <4>4. s \in B /\ s.observed_at \in Int /\ first.observed_at \in Int
        <5> HIDE DEF recent, B
        <5> QED BY <1>3, <1>4, <3>2 DEF Timed
      <4> HIDE DEF B, recent, first
      <4> QED BY <4>3, <4>4
    <3>5. Cardinality(recent \ {first}) = n - 1
      <4> HIDE DEF recent, first
      <4> QED BY <1>3, <3>2, FS_RemoveElement
    <3>6. n - 1 <= Cardinality(newer(first))
      <4> HIDE DEF recent, first, newer, n
      <4> QED BY <3>3, <3>4, <3>5, FS_Subset
    <3> HIDE DEF n, newer, first, recent, h
    <3> QED BY <3>3, <3>6, <1>2, <1>5
  <2> QED BY <2>1, <2>2
<1>7. h \in Seq(B)
  <2> HIDE DEF recent, B, h
  <2> QED BY <1>3, <1>5
<1> HIDE DEF recent, B
<1> QED BY <1>1, <1>5, <1>6, <1>7 DEF IsHistory, B
-----------------------------------------------------------------------------
\* What the rules on a history report.

\* Each rule signs its findings.
Signed(f, rule) ==
  \E key, category, severity, evidence : f = Finding(rule, key, category, severity, evidence)

LEMMA Signature == \A f, rule : Signed(f, rule) => f.fingerprint[1] = rule
BY DEF Signed, Finding

LEMMA TrendRules ==
  ASSUME NEW policy, NEW sample, NEW history, NEW c
  PROVE  /\ \A f \in Disk(policy, sample) : f.fingerprint[1] = "resource.disk.capacity"
         /\ \A f \in Runway(policy, sample, history) : f.fingerprint[1] = "resource.disk.runway"
         /\ \A f \in Memory(policy, sample) : f.fingerprint[1] = "resource.memory.pressure"
         /\ \A f \in Cpu(policy, sample, history) : f.fingerprint[1] = "resource.cpu.saturation"
         /\ \A f \in Egress(policy, sample, history) : f.fingerprint[1] = "intrusion.egress.anomaly"
         /\ \A f \in Clock(policy, sample, c) : f.fingerprint[1] = "hygiene.clock.skew"
<1>1. \A f \in Disk(policy, sample) : f.fingerprint[1] = "resource.disk.capacity"
  <2>1. \A f \in Disk(policy, sample) : Signed(f, "resource.disk.capacity")
    BY DEF Disk, When, Signed
  <2> QED BY <2>1, Signature
<1>2. \A f \in Runway(policy, sample, history) : f.fingerprint[1] = "resource.disk.runway"
  <2>1. \A f \in Runway(policy, sample, history) : Signed(f, "resource.disk.runway")
    BY DEF Runway, When, Signed
  <2> QED BY <2>1, Signature
<1>3. \A f \in Memory(policy, sample) : f.fingerprint[1] = "resource.memory.pressure"
  <2>1. \A f \in Memory(policy, sample) : Signed(f, "resource.memory.pressure")
    BY DEF Memory, When, Signed
  <2> QED BY <2>1, Signature
<1>4. \A f \in Cpu(policy, sample, history) : f.fingerprint[1] = "resource.cpu.saturation"
  <2>1. \A f \in Cpu(policy, sample, history) : Signed(f, "resource.cpu.saturation")
    BY DEF Cpu, When, Signed
  <2> QED BY <2>1, Signature
<1>5. \A f \in Egress(policy, sample, history) : f.fingerprint[1] = "intrusion.egress.anomaly"
  <2>1. \A f \in Egress(policy, sample, history) : Signed(f, "intrusion.egress.anomaly")
    BY DEF Egress, When, Signed
  <2> QED BY <2>1, Signature
<1>6. \A f \in Clock(policy, sample, c) : f.fingerprint[1] = "hygiene.clock.skew"
  <2>1. \A f \in Clock(policy, sample, c) : Signed(f, "hygiene.clock.skew")
    BY DEF Clock, When, Signed
  <2> QED BY <2>1, Signature
<1> QED BY <1>1, <1>2, <1>3, <1>4, <1>5, <1>6

\* The findings of a sample, and which rules are among them.
TrendFindings(policy, sample, history, c) ==
  Resource(policy, sample, history) \cup Egress(policy, sample, history)
    \cup Clock(policy, sample, c)

LEMMA CapacityFound ==
  ASSUME NEW policy, NEW sample, NEW history, NEW c, sample.disk >= policy.disk_high
  PROVE  \E f \in TrendFindings(policy, sample, history, c) :
           f.fingerprint[1] = "resource.disk.capacity"
<1>1. \E f : f \in Disk(policy, sample)
  BY DEF When, Disk
<1> QED BY <1>1, TrendRules DEF TrendFindings, Resource

LEMMA RunwayFound ==
  ASSUME NEW policy, NEW sample, NEW history, NEW c,
         Len(history) >= 3,
         ~(sample.observed_at - history[1].observed_at <= 0),
         ~(sample.disk - history[1].disk <= 0),
         1 * (100 - sample.disk) * (sample.observed_at - history[1].observed_at)
           <= policy.disk_runway_hours * (sample.disk - history[1].disk),
         sample.disk < policy.disk_critical,
         Len(history) \in Nat
  PROVE  \E f \in TrendFindings(policy, sample, history, c) :
           f.fingerprint[1] = "resource.disk.runway"
<1>0. ~(Len(history) < 3)
  OBVIOUS
<1>1. \E f : f \in Runway(policy, sample, history)
  <2> DEFINE elapsed == sample.observed_at - history[1].observed_at
             growth == sample.disk - history[1].disk
             soon == 1 * (100 - sample.disk) * elapsed <= policy.disk_runway_hours * growth
             sooner == 4 * (100 - sample.disk) * elapsed <= policy.disk_runway_hours * growth
  <2>1. Runway(policy, sample, history) =
          IF Len(history) < 3 \/ elapsed <= 0 \/ growth <= 0 THEN {}
          ELSE When(soon /\ sample.disk < policy.disk_critical,
                    Finding("resource.disk.runway", "", "resource",
                            IF sooner THEN High ELSE Medium, growth))
    BY DEF Runway
  <2>2. soon /\ ~(elapsed <= 0) /\ ~(growth <= 0)
    OBVIOUS
  <2> HIDE DEF elapsed, growth, soon, sooner
  <2> QED BY <1>0, <2>1, <2>2 DEF When
<1> QED BY <1>1, TrendRules DEF TrendFindings, Resource

LEMMA SaturationFound ==
  ASSUME NEW policy, NEW sample, NEW history, NEW c
  PROVE  (\E f \in TrendFindings(policy, sample, history, c) :
            f.fingerprint[1] = "resource.cpu.saturation")
         <=> /\ sample.cpu >= policy.cpu_high
             /\ SustainedSamples(history, policy.cpu_high) + 1 >= policy.cpu_sustained_samples
<1>1. (\E f : f \in Cpu(policy, sample, history))
        <=> /\ sample.cpu >= policy.cpu_high
            /\ SustainedSamples(history, policy.cpu_high) + 1 >= policy.cpu_sustained_samples
  BY DEF When, Cpu
<1>2. \A f \in TrendFindings(policy, sample, history, c) :
        f.fingerprint[1] = "resource.cpu.saturation" => f \in Cpu(policy, sample, history)
  BY TrendRules DEF TrendFindings, Resource
<1>3. \A f \in Cpu(policy, sample, history) :
        /\ f \in TrendFindings(policy, sample, history, c)
        /\ f.fingerprint[1] = "resource.cpu.saturation"
  BY TrendRules DEF TrendFindings, Resource
<1> QED BY <1>1, <1>2, <1>3

-----------------------------------------------------------------------------
\* The inductive invariant of Trends: the samples taken are told apart by their
\* times, which lie before the next; what is stored was taken; and the last
\* judgement is what the rules make of a sample and its history.

SamplesTaken ==
  /\ taken \in Seq(ToSet(taken))
  /\ Timed(ToSet(taken))
  /\ \A s \in ToSet(taken) : s.observed_at \in 1..(clock + course.skew - 1) /\ s.disk \in 0..100

LastJudged ==
  judged # Nobody =>
    /\ judged.sample \in samples
    /\ IsHistory(judged.history,
                 {s \in ToSet(taken) : s.observed_at < judged.sample.observed_at})
    /\ \E c : judged.findings = TrendFindings(course.policy, judged.sample, judged.history, c)

TrendInv ==
  /\ course \in TrendSetups /\ Validate(course.policy)
  /\ clock \in Nat \ {0}
  /\ pending \cup samples \subseteq ToSet(taken) /\ pending \cap samples = {}
  /\ SamplesTaken
  /\ LastJudged

LEMMA TrendInvInit == TrendInit => TrendInv
<1> SUFFICES ASSUME TrendInit PROVE TrendInv
  OBVIOUS
<1>1. ToSet(taken) = {} /\ taken \in Seq({})
  BY ToSetIs DEF TrendInit
<1>2. Timed({})
  BY FS_EmptySet DEF Timed
<1> QED BY <1>1, <1>2 DEF TrendInit, TrendInv, SamplesTaken, LastJudged

LEMMA ToSetAppend ==
  ASSUME NEW s, s \in Seq(ToSet(s)), NEW x
  PROVE  /\ Append(s, x) \in Seq(ToSet(s) \cup {x})
         /\ ToSet(Append(s, x)) = ToSet(s) \cup {x}
<1> DEFINE U == ToSet(s) \cup {x}
<1>1. s \in Seq(U) /\ <<x>> \in Seq(U) /\ Append(s, x) = s \o <<x>>
  <2> SUFFICES ASSUME NEW V, s \in Seq(V), NEW W, W = V \cup {x}
               PROVE  s \in Seq(W) /\ <<x>> \in Seq(W) /\ Append(s, x) = s \o <<x>>
    BY Zenon
  <2> QED OBVIOUS
<1>2. ToSet(<<x>>) = {x}
  BY ToSetIs
<1> HIDE DEF U
<1>3. s \o <<x>> \in Seq(U) /\ ToSet(s \o <<x>>) = ToSet(s) \cup ToSet(<<x>>)
  BY <1>1, ToSetConcat
<1> QED BY <1>1, <1>2, <1>3 DEF U
LEMMA UpToHundred ==
  ASSUME NEW x \in Nat PROVE Min({100, x}) \in 0..100
<1>1. \E z \in {100, x} : \A y \in {100, x} : z <= y
  <2>1. CASE x <= 100
    BY <2>1
  <2>2. CASE ~(x <= 100)
    BY <2>2
  <2> QED BY <2>1, <2>2
<1>2. Min({100, x}) \in {100, x} /\ \A y \in {100, x} : Min({100, x}) <= y
  BY <1>1, Zenon DEF Min
<1> QED BY <1>2

LEMMA HistoryGrows ==
  ASSUME NEW h, NEW S, NEW T, S \subseteq T, IsHistory(h, S)
  PROVE  IsHistory(h, T)
BY DEF IsHistory

LEMMA TakeKeeps == TrendInv /\ Take => TrendInv'
<1> SUFFICES ASSUME TrendInv, Take PROVE TrendInv'
  OBVIOUS
<1>1. PICK cpu \in course.cpu, growth \in course.growth, sent \in course.sent, reboot \in BOOLEAN :
        LET sample == Measured(cpu, growth, sent, reboot)
        IN taken' = Append(taken, sample) /\ pending' = pending \cup {sample}
  BY DEF Take
<1> DEFINE sample == Measured(cpu, growth, sent, reboot)
<1> USE DEF TrendInv, SamplesTaken
<1>2. /\ taken' = Append(taken, sample) /\ pending' = pending \cup {sample}
      /\ clock' = clock + 1 /\ UNCHANGED <<course, samples, judged>>
  BY <1>1 DEF Take
<1>3. course.skew \in Nat /\ growth \in Nat
  BY TrendAssumption
<1>4. Previous.disk \in 0..100
  <2>1. CASE taken = <<>>
    BY <2>1 DEF Previous, Sample
  <2>2. CASE taken # <<>>
    <3>1. Len(taken) \in DOMAIN taken
      <4> SUFFICES ASSUME NEW U, taken \in Seq(U) PROVE Len(taken) \in DOMAIN taken
        BY Zenon
      <4> QED BY <2>2
    <3>2. taken[Len(taken)] \in ToSet(taken)
      BY <3>1, ToSetIs
    <3> QED BY <3>2, <2>2 DEF Previous
  <2> QED BY <2>1, <2>2
<1>5. sample.observed_at = clock + course.skew /\ sample.disk \in 0..100
  <2>1. Previous.disk + growth \in Nat
    <3>1. \A p \in 0..100, g \in Nat : p + g \in Nat
      OBVIOUS
    <3> QED BY <3>1, <1>3, <1>4
  <2>2. Min({100, Previous.disk + growth}) \in 0..100
    BY <2>1, UpToHundred
  <2> QED BY <2>2 DEF Measured, Sample
<1> HIDE DEF sample
<1>6. ToSet(taken)' = ToSet(taken) \cup {sample} /\ taken' \in Seq(ToSet(taken)')
  BY <1>2, ToSetAppend
<1>7. \A s \in ToSet(taken) : s.observed_at < sample.observed_at
  BY <1>3, <1>5
<1>8. Timed(ToSet(taken)')
  <2>1. IsFiniteSet(ToSet(taken) \cup {sample})
    BY FS_AddElement DEF Timed
  <2>2. \A s \in ToSet(taken) \cup {sample} : s.observed_at \in Int
    BY <1>3, <1>5
  <2>3. \A s, t \in ToSet(taken) \cup {sample} : s.observed_at = t.observed_at => s = t
    BY <1>7, <2>2 DEF Timed
  <2> QED BY <1>6, <2>1, <2>2, <2>3 DEF Timed
<1>9. SamplesTaken'
  <2>1. \A s \in ToSet(taken) \cup {sample} :
          s.observed_at \in 1..((clock + 1) + course.skew - 1) /\ s.disk \in 0..100
    BY <1>3, <1>5
  <2> QED BY <1>2, <1>6, <1>8, <2>1
<1>10. (pending \cup samples \subseteq ToSet(taken) /\ pending \cap samples = {})'
  <2>1. sample \notin samples
    BY <1>3, <1>5, <1>7
  <2> QED BY <2>1, <1>2, <1>6
<1>11. LastJudged'
  <2> SUFFICES ASSUME judged # Nobody PROVE LastJudged'
    BY <1>2 DEF LastJudged
  <2>1. IsHistory(judged.history,
                  {s \in ToSet(taken)' : s.observed_at < judged.sample.observed_at})
    <3> DEFINE S == {s \in ToSet(taken) : s.observed_at < judged.sample.observed_at}
               T == {s \in ToSet(taken)' : s.observed_at < judged.sample.observed_at}
    <3>1. S \subseteq T
      BY <1>6
    <3>2. IsHistory(judged.history, S)
      BY DEF LastJudged
    <3> HIDE DEF S, T
    <3>3. IsHistory(judged.history, T)
      BY <3>1, <3>2, HistoryGrows
    <3> QED BY <3>3 DEF T
  <2> QED BY <2>1, <1>2 DEF LastJudged
<1> QED BY <1>2, <1>9, <1>10, <1>11

LEMMA JudgeKeeps == TrendInv /\ Judge => TrendInv'
<1> SUFFICES ASSUME TrendInv, Judge PROVE TrendInv'
  OBVIOUS
<1> USE DEF TrendInv
<1>1. PICK sample \in pending :
        LET history == RecentSamples(sample)
        IN /\ pending' = pending \ {sample}
           /\ samples' = samples \cup {sample}
           /\ judged' = [sample |-> sample, history |-> history,
                         findings |-> Resource(course.policy, sample, history)
                                        \cup Egress(course.policy, sample, history)
                                        \cup Clock(course.policy, sample, clock)]
  BY DEF Judge
<1>2. UNCHANGED <<course, clock, taken>>
  BY DEF Judge
<1>3. SamplesTaken'
  BY <1>2 DEF SamplesTaken
<1>4. (pending \cup samples \subseteq ToSet(taken) /\ pending \cap samples = {})'
  BY <1>1, <1>2
<1>5. LastJudged'
  <2> DEFINE history == RecentSamples(sample)
  <2>1. samples \subseteq ToSet(taken)
    OBVIOUS
  <2>2. Timed(samples)
    BY <2>1, FS_Subset DEF Timed, SamplesTaken
  <2>3. OlderSamples(sample) \subseteq {s \in ToSet(taken) : s.observed_at < sample.observed_at}
    BY <2>1 DEF OlderSamples
  <2>4. IsHistory(history, {s \in ToSet(taken) : s.observed_at < sample.observed_at})
    BY <2>2, <2>3, RecentLists, HistoryGrows
  <2>5. /\ judged'.sample = sample /\ judged'.history = history
        /\ judged'.findings = TrendFindings(course.policy, sample, history, clock)
    BY <1>1 DEF TrendFindings
  <2> HIDE DEF history
  <2>6. sample \in samples'
    BY <1>1
  <2> QED BY <1>2, <2>4, <2>5, <2>6 DEF LastJudged
<1> QED BY <1>2, <1>3, <1>4, <1>5

LEMMA TrendInvNext == TrendInv /\ [TrendNext]_trendVars => TrendInv'
<1> SUFFICES ASSUME TrendInv, [TrendNext]_trendVars PROVE TrendInv'
  OBVIOUS
<1>1. CASE Take
  BY <1>1, TakeKeeps
<1>2. CASE Judge
  BY <1>2, JudgeKeeps
<1>3. CASE Lose
  BY <1>3 DEF Lose, TrendInv, SamplesTaken, LastJudged
<1>4. CASE UNCHANGED trendVars
  BY <1>4 DEF trendVars, TrendInv, SamplesTaken, LastJudged
<1> QED BY <1>1, <1>2, <1>3, <1>4 DEF TrendNext, TrendDone

LEMMA TrendInvariant == TrendSpec => []TrendInv
BY TrendInvInit, TrendInvNext, PTL DEF TrendSpec

-----------------------------------------------------------------------------
\* What is stored or under way was taken, nothing is judged twice, and a
\* history fits the window of the rules (store_sample, recent_samples).
THEOREM TrendTypeCorrect == TrendSpec => []TrendTypeOK
<1>1. TrendInv => TrendTypeOK
  <2> SUFFICES ASSUME TrendInv PROVE Len(judged.history) <= HistoryWindow
    BY DEF TrendInv, TrendTypeOK
  <2>1. CASE judged = Nobody
    BY <2>1, TrendAssumption DEF Nobody
  <2>2. CASE judged # Nobody
    BY <2>2 DEF TrendInv, LastJudged, IsHistory
  <2> QED BY <2>1, <2>2
<1> QED BY <1>1, TrendInvariant, PTL

LEMMA Percentages == \A x \in 0..100 : x \in Int /\ 0 <= x /\ x <= 100
OBVIOUS

\* A disk that will be full within the hours of the policy is reported, under
\* every policy that DetectionPolicy::validate accepts and whatever samples were
\* lost or late (resource.rs, disk and runway).
THEOREM FillingDiskIsReported == TrendSpec => []FillingDiskReported
<1>1. TrendInv => FillingDiskReported
  <2> SUFFICES ASSUME TrendInv, Len(judged.history) >= 3,
                      judged.sample.disk - judged.history[1].disk > 0
               PROVE  FillingDiskReported
    BY DEF FillingDiskReported
  <2>1. judged # Nobody
    BY DEF Nobody
  <2>2. PICK sample, history, policy, c :
          /\ sample = judged.sample /\ history = judged.history /\ policy = course.policy
          /\ judged.findings = TrendFindings(policy, sample, history, c)
    BY <2>1 DEF TrendInv, LastJudged
  <2>3. PICK S : S = {s \in ToSet(taken) : s.observed_at < sample.observed_at}
    OBVIOUS
  <2>4. history \in Seq(S) /\ Len(history) >= 3
    BY <2>1, <2>2, <2>3 DEF TrendInv, LastJudged, IsHistory
  <2>5. history[1] \in S /\ Len(history) \in Nat
    BY <2>4
  <2>6. /\ sample \in ToSet(taken) /\ history[1] \in ToSet(taken)
        /\ history[1].observed_at < sample.observed_at
    BY <2>1, <2>2, <2>3, <2>5 DEF TrendInv, LastJudged
  <2>7. /\ sample.observed_at \in Int /\ history[1].observed_at \in Int
        /\ sample.disk \in 0..100 /\ history[1].disk \in 0..100
    BY <2>6 DEF TrendInv, SamplesTaken, Timed
  <2>a. /\ sample.observed_at \in Int /\ history[1].observed_at \in Int
        /\ sample.disk \in Int /\ history[1].disk \in Int
    BY <2>7, Percentages
  <2>8. PICK elapsed \in Int, growth \in Int :
          /\ elapsed = sample.observed_at - history[1].observed_at /\ elapsed > 0
          /\ growth = sample.disk - history[1].disk
    BY <2>6, <2>a
  <2>9. growth > 0
    BY <2>2, <2>8
  <2>10. /\ policy.disk_high \in 0..100 /\ policy.disk_critical \in 0..100
         /\ policy.disk_high <= policy.disk_critical
    BY <2>2 DEF TrendInv, Validate
  <2>b. /\ policy.disk_high \in Int /\ policy.disk_critical \in Int
        /\ policy.disk_high <= 100 /\ policy.disk_high <= policy.disk_critical
    BY <2>10, Percentages
  <2>11. policy.disk_runway_hours \in Nat
    BY <2>2, TrendAssumption DEF TrendInv
  <2>12. sample.disk >= policy.disk_high => Found("resource.disk.capacity")
    BY <2>2, CapacityFound DEF Found
  <2>13. ASSUME (100 - sample.disk) * elapsed <= policy.disk_runway_hours * growth,
                sample.disk < policy.disk_critical
         PROVE  Found("resource.disk.runway")
    <3>1. 1 * (100 - sample.disk) = 100 - sample.disk
      BY <2>a
    <3>2. 1 * (100 - sample.disk) * elapsed <= policy.disk_runway_hours * growth
      BY <3>1, <2>13
    <3>3. ~(elapsed <= 0) /\ ~(growth <= 0)
      BY <2>8, <2>9
    <3>4. \E f \in TrendFindings(policy, sample, history, c) :
            f.fingerprint[1] = "resource.disk.runway"
      BY <3>2, <3>3, <2>4, <2>5, <2>8, <2>13, RunwayFound
    <3> QED BY <3>4, <2>2 DEF Found
  <2>14. sample.disk < policy.disk_critical \/ sample.disk >= policy.disk_high
    BY <2>a, <2>b
  <2>15. sample.disk = 100 => sample.disk >= policy.disk_high
    BY <2>b
  <2> QED BY <2>2, <2>8, <2>12, <2>13, <2>14, <2>15 DEF FillingDiskReported
<1> QED BY <1>1, TrendInvariant, PTL
-----------------------------------------------------------------------------
\* Saturation.

\* The samples at the end of a history that are saturated, and no others there.
LEMMA SustainedSuffix ==
  ASSUME NEW S, NEW h \in Seq(S), NEW threshold
  PROVE  /\ SustainedSamples(h, threshold) \in 0..Len(h)
         /\ \A i \in DOMAIN h :
              i > Len(h) - SustainedSamples(h, threshold) => h[i].cpu >= threshold
         /\ \A n \in 0..Len(h) :
              (\A i \in DOMAIN h : i > Len(h) - n => h[i].cpu >= threshold)
                => SustainedSamples(h, threshold) >= n
<1> DEFINE L == Len(h)
           Ends(n) == \A i \in (L - n + 1)..L : h[i].cpu >= threshold
           N == {n \in 0..L : Ends(n)}
<1>1. L \in Nat /\ DOMAIN h = 1..L
  OBVIOUS
<1>2. \A n \in 0..L : Ends(n) <=> \A i \in DOMAIN h : i > L - n => h[i].cpu >= threshold
  <2> SUFFICES ASSUME NEW n \in 0..L
               PROVE  (L - n + 1)..L = {i \in DOMAIN h : i > L - n}
    OBVIOUS
  <2> HIDE DEF L
  <2> QED BY <1>1
<1>3. SustainedSamples(h, threshold) = Max(N)
  BY DEF SustainedSamples
<1>4. 0 \in N
  <2> HIDE DEF L
  <2>1. (L - 0 + 1)..L = {}
    BY <1>1
  <2> QED BY <2>1, <1>1
<1> HIDE DEF L, Ends
<1>5. Max(N) \in N /\ \A n \in N : Max(N) >= n
  <2>1. N \in SUBSET (0..L)
    OBVIOUS
  <2> HIDE DEF N
  <2> QED BY <1>1, <1>4, <2>1, MaxOf
<1> QED BY <1>2, <1>3, <1>5 DEF L

\* The samples not older than a moment are the last n of a sorted history.
EndsAt(h, start, n) ==
  \A i \in DOMAIN h : h[i].observed_at >= start <=> i > Len(h) - n

LEMMA Ending ==
  ASSUME NEW S, NEW h, IsHistory(h, S), \A s \in S : s.observed_at \in Int, NEW start \in Int
  PROVE  \E n \in 0..Len(h) : EndsAt(h, start, n)
<1> DEFINE L == Len(h)
           older == {k \in 0..L : k = 0 \/ h[k].observed_at < start}
           k == Max(older)
<1>1. h \in Seq(S) /\ \A i, j \in DOMAIN h : i < j => h[i].observed_at < h[j].observed_at
  BY DEF IsHistory
<1>2. L \in Nat /\ DOMAIN h = 1..L /\ \A i \in 1..L : h[i].observed_at \in Int
  BY <1>1
<1> HIDE DEF L
<1>3. k \in older /\ \A i \in older : k >= i
  <2>1. older \in SUBSET (0..L) /\ 0 \in older
    BY <1>2
  <2> HIDE DEF older
  <2> QED BY <1>2, <2>1, MaxOf
<1> HIDE DEF k
<1>4. ASSUME NEW i \in 1..L PROVE h[i].observed_at >= start <=> i > k
  <2>1. CASE i > k
    <3>1. i \notin older
      BY <2>1, <1>2, <1>3
    <3>2. ~(h[i].observed_at < start)
      BY <3>1, <1>2
    <3> QED BY <2>1, <3>2, <1>2
  <2>2. CASE i <= k
    <3>1. k \in 1..L /\ h[k].observed_at < start
      BY <2>2, <1>2, <1>3
    <3>2. i = k \/ h[i].observed_at < h[k].observed_at
      BY <2>2, <3>1, <1>1, <1>2
    <3>3. h[i].observed_at \in Int /\ h[k].observed_at \in Int
      BY <3>1, <1>2
    <3> QED BY <2>2, <3>1, <3>2, <3>3
  <2> QED BY <2>1, <2>2, <1>3
<1>5. L - k \in 0..L /\ L - (L - k) = k
  BY <1>2, <1>3
<1>6. EndsAt(h, start, L - k)
  BY <1>2, <1>4, <1>5 DEF EndsAt, L
<1> QED BY <1>5, <1>6 DEF L

\* A sample and the last n of its history: how many they are, and which.
LEMMA RunLength ==
  ASSUME NEW S, NEW h, IsHistory(h, S), NEW sample, sample.observed_at \in Int,
         \A s \in S : s.observed_at \in Int /\ s.observed_at < sample.observed_at,
         NEW start \in Int, start <= sample.observed_at,
         NEW n \in 0..Len(h), EndsAt(h, start, n),
         NEW run, run = {s \in ToSet(h) \cup {sample} : s.observed_at >= start}
  PROVE  /\ Cardinality(run) = n + 1
         /\ sample \in run
         /\ \A i \in DOMAIN h : h[i] \in run <=> i > Len(h) - n
         /\ \A s \in run : s = sample \/ \E i \in DOMAIN h : i > Len(h) - n /\ s = h[i]
<1> DEFINE L == Len(h)
           b == [k \in 1..(n + 1) |-> IF k = n + 1 THEN sample ELSE h[L - n + k]]
<1>1. h \in Seq(S) /\ \A i, j \in DOMAIN h : i < j => h[i].observed_at < h[j].observed_at
  BY DEF IsHistory
<1>2. L \in Nat /\ DOMAIN h = 1..L /\ \A i \in 1..L : h[i] \in S
  BY <1>1
<1>3. \A i \in 1..L : h[i].observed_at >= start <=> i > L - n
  BY <1>2 DEF EndsAt
<1>4. ToSet(h) = {h[i] : i \in 1..L}
  BY <1>2, ToSetIs
<1>5. n \in 0..L /\ L = Len(h)
  OBVIOUS
<1> HIDE DEF L
<1>6. sample \in run
  OBVIOUS
<1>7. ASSUME NEW i \in DOMAIN h PROVE h[i] \in run <=> i > L - n
  BY <1>2, <1>3, <1>4
<1>8. ASSUME NEW s \in run, s # sample PROVE \E i \in DOMAIN h : i > L - n /\ s = h[i]
  <2>1. PICK i \in 1..L : s = h[i]
    BY <1>4, <1>8
  <2> QED BY <2>1, <1>2, <1>7
<1>9. ASSUME NEW k \in 1..n PROVE L - n + k \in DOMAIN h /\ L - n + k > L - n
  BY <1>2, <1>5
<1>10. \A k \in 1..(n + 1) : k = n + 1 \/ k \in 1..n
  BY <1>2, <1>5
<1>11. b \in [1..(n + 1) -> run]
  <2> SUFFICES ASSUME NEW k \in 1..(n + 1) PROVE b[k] \in run
    OBVIOUS
  <2>1. CASE k = n + 1
    BY <2>1, <1>6
  <2>2. CASE k # n + 1
    <3>1. k \in 1..n /\ b[k] = h[L - n + k]
      BY <2>2, <1>10
    <3> HIDE DEF b
    <3> QED BY <3>1, <1>7, <1>9
  <2> QED BY <2>1, <2>2
<1>12. ASSUME NEW k \in 1..(n + 1), NEW m \in 1..(n + 1), k < m
       PROVE  b[k].observed_at < b[m].observed_at /\ b[k].observed_at \in Int
  <2>1. k \in 1..n /\ b[k] = h[L - n + k]
    BY <1>2, <1>5, <1>12
  <2>2. h[L - n + k] \in S
    BY <2>1, <1>2, <1>9
  <2>3. CASE m = n + 1
    <3>1. b[m] = sample
      BY <2>3
    <3> HIDE DEF b
    <3> QED BY <2>1, <2>2, <3>1
  <2>4. CASE m # n + 1
    <3>1. m \in 1..n /\ b[m] = h[L - n + m]
      BY <2>4, <1>10
    <3>2. L - n + k < L - n + m
      BY <1>2, <1>5, <1>12
    <3> HIDE DEF b
    <3>3. h[L - n + k].observed_at < h[L - n + m].observed_at
      BY <3>1, <3>2, <2>1, <1>1, <1>9
    <3> QED BY <2>1, <2>2, <3>1, <3>3
  <2> QED BY <2>3, <2>4
<1>13. b \in Bijection(1..(n + 1), run)
  <2>1. ASSUME NEW k \in 1..(n + 1), NEW m \in 1..(n + 1), b[k] = b[m] PROVE k = m
    <3> HIDE DEF b
    <3>1. ~(k < m) /\ ~(m < k)
      BY <1>12, <2>1
    <3> QED BY <3>1, <1>5, <1>2
  <2>2. ASSUME NEW s \in run PROVE \E k \in 1..(n + 1) : b[k] = s
    <3>1. CASE s = sample
      <4>1. n + 1 \in 1..(n + 1) /\ b[n + 1] = sample
        BY <1>5, <1>2
      <4> QED BY <3>1, <4>1
    <3>2. CASE s # sample
      <4>1. PICK i \in DOMAIN h : i > L - n /\ s = h[i]
        BY <3>2, <1>8
      <4>2. i - (L - n) \in 1..n /\ L - n + (i - (L - n)) = i
        BY <4>1, <1>2, <1>5
      <4>3. b[i - (L - n)] = h[i] /\ i - (L - n) \in 1..(n + 1)
        <5>1. \A k \in 1..n : k \in 1..(n + 1) /\ k # n + 1
          BY <1>2, <1>5
        <5> QED BY <4>2, <5>1
      <4> HIDE DEF b
      <4> QED BY <4>1, <4>3
    <3> QED BY <3>1, <3>2
  <2> HIDE DEF b
  <2> QED BY <1>11, <2>1, <2>2 DEF Bijection, Injection, Surjection, IsInjective
<1>14. Cardinality(run) = n + 1
  <2>1. n + 1 \in Nat
    BY <1>2, <1>5
  <2> HIDE DEF b
  <2> QED BY <2>1, <1>13, FS_CountingElements DEF ExistsBijection
<1> QED BY <1>6, <1>7, <1>8, <1>14 DEF L
\* What is held of a machine from a moment on is long enough, and saturated.
SaturatedSince(held, start, policy) ==
  LET run == {s \in held : s.observed_at >= start}
  IN /\ Cardinality(run) >= policy.cpu_sustained_samples
     /\ \A s \in run : s.cpu >= policy.cpu_high

SaturatedNow(sample, h, policy) ==
  /\ sample.cpu >= policy.cpu_high
  /\ SustainedSamples(h, policy.cpu_high) + 1 >= policy.cpu_sustained_samples

\* Both halves of the property for one judgement: held is what the server has
\* of the machine up to the sample.
LEMMA SaturationJudged ==
  ASSUME NEW S, NEW h, IsHistory(h, S), NEW sample, NEW at \in Nat, at = sample.observed_at,
         at >= 1,
         \A s \in S : s.observed_at \in 1..(at - 1),
         NEW policy, policy.cpu_sustained_samples \in Nat, policy.cpu_sustained_samples # 0,
         NEW held, held = ToSet(h) \cup {sample}
  PROVE  SaturatedNow(sample, h, policy) <=> \E start \in 1..at : SaturatedSince(held, start, policy)
<1> DEFINE N == SustainedSamples(h, policy.cpu_high)
           L == Len(h)
<1>1. h \in Seq(S) /\ \A i, j \in DOMAIN h : i < j => h[i].observed_at < h[j].observed_at
  BY DEF IsHistory
<1>2. L \in Nat /\ DOMAIN h = 1..L /\ \A i \in 1..L : h[i] \in S
  BY <1>1
<1>3. /\ N \in 0..L
      /\ \A i \in DOMAIN h : i > L - N => h[i].cpu >= policy.cpu_high
      /\ \A n \in 0..L : (\A i \in DOMAIN h : i > L - n => h[i].cpu >= policy.cpu_high) => N >= n
  BY <1>1, SustainedSuffix
<1>4. \A s \in S : s.observed_at \in Int /\ s.observed_at < sample.observed_at
  OBVIOUS
<1> HIDE DEF N, L
<1>5. ASSUME sample.cpu >= policy.cpu_high, N + 1 >= policy.cpu_sustained_samples
      PROVE  \E start \in 1..at : SaturatedSince(held, start, policy)
  <2> DEFINE start == IF N = 0 THEN at ELSE h[L - N + 1].observed_at
             run == {s \in held : s.observed_at >= start}
  <2>1. N # 0 => L - N + 1 \in DOMAIN h
    BY <1>2, <1>3
  <2>2. start \in 1..at
    <3>1. CASE N = 0
      BY <3>1
    <3>2. CASE N # 0
      <4>1. h[L - N + 1] \in S
        BY <2>1, <3>2, <1>2
      <4> QED BY <4>1, <3>2
    <3> QED BY <3>1, <3>2
  <2>3. EndsAt(h, start, N)
    <3> SUFFICES ASSUME NEW i \in 1..L PROVE h[i].observed_at >= start <=> i > L - N
      BY <1>2 DEF EndsAt, L
    <3>1. h[i] \in S /\ h[i].observed_at \in Int /\ h[i].observed_at < at
      BY <1>2, <1>4
    <3>2. CASE N = 0
      BY <3>1, <3>2, <1>2
    <3>3. CASE N # 0
      <4> DEFINE j == L - N + 1
      <4>1. j \in DOMAIN h /\ start = h[j].observed_at /\ h[j].observed_at \in Int /\ j \in 1..L
        BY <2>1, <3>3, <1>2, <1>4
      <4>2. CASE i > L - N
        <5>1. i = j \/ j < i
          <6>1. L \in Int /\ N \in Int /\ i \in Int
            BY <1>2, <1>3
          <6> QED BY <6>1, <4>2
        <5>2. CASE i = j
          BY <5>2, <4>1, <4>2
        <5>3. CASE j < i
          <6>1. h[j].observed_at < h[i].observed_at
            <7> HIDE DEF j
            <7> QED BY <5>3, <4>1, <1>1, <1>2
          <6> HIDE DEF start, j
          <6> QED BY <6>1, <4>1, <4>2, <3>1
        <5> QED BY <5>1, <5>2, <5>3
      <4>3. CASE ~(i > L - N)
        <5>1. i < j
          BY <4>3, <1>2, <1>3
        <5>2. h[i].observed_at < h[j].observed_at
          <6> HIDE DEF j
          <6> QED BY <5>1, <4>1, <1>1, <1>2
        <5> HIDE DEF start, j
        <5> QED BY <5>2, <4>1, <4>3, <3>1
      <4> QED BY <4>2, <4>3
    <3> QED BY <3>2, <3>3
  <2> HIDE DEF start
  <2>4. start \in Int /\ start <= sample.observed_at
    BY <2>2
  <2>5. /\ Cardinality(run) = N + 1
        /\ \A s \in run : s = sample \/ \E i \in DOMAIN h : i > L - N /\ s = h[i]
    <3>1. N \in 0..Len(h)
      BY <1>3 DEF L
    <3> HIDE <1>4
    <3>2. sample.observed_at \in Int
      OBVIOUS
    <3>3. PICK all : all = run
      OBVIOUS
    <3>4. all = {s \in ToSet(h) \cup {sample} : s.observed_at >= start}
      BY <3>3
    <3> HIDE DEF run
    <3> QED BY <1>4, <2>3, <2>4, <3>1, <3>2, <3>3, <3>4, RunLength DEF L
  <2>6. \A s \in run : s.cpu >= policy.cpu_high
    <3> HIDE DEF run
    <3> QED BY <2>5, <1>3, <1>5
  <2>7. Cardinality(run) >= policy.cpu_sustained_samples
    <3> HIDE DEF run
    <3> QED BY <2>5, <1>5
  <2>8. SaturatedSince(held, start, policy)
    BY <2>6, <2>7 DEF SaturatedSince
  <2> QED BY <2>2, <2>8
<1>6. ASSUME NEW start \in 1..at, SaturatedSince(held, start, policy)
      PROVE  sample.cpu >= policy.cpu_high /\ N + 1 >= policy.cpu_sustained_samples
  <2> DEFINE run == {s \in held : s.observed_at >= start}
  <2>1. start \in Int /\ start <= sample.observed_at /\ sample.observed_at \in Int
    OBVIOUS
  <2>2. PICK n \in 0..Len(h) : EndsAt(h, start, n)
    BY <1>4, <2>1, Ending
  <2>3. run = {s \in ToSet(h) \cup {sample} : s.observed_at >= start}
    OBVIOUS
  <2>4. Cardinality(run) >= policy.cpu_sustained_samples /\ \A s \in run : s.cpu >= policy.cpu_high
    BY <1>6 DEF SaturatedSince
  <2> HIDE DEF run
  <2>5. /\ Cardinality(run) = n + 1
        /\ sample \in run
        /\ \A i \in DOMAIN h : h[i] \in run <=> i > Len(h) - n
    BY <1>4, <2>1, <2>2, <2>3, RunLength
  <2>6. N >= n
    BY <2>4, <2>5, <1>3 DEF L
  <2> QED BY <2>4, <2>5, <2>6, <1>2, <1>3
<1> QED BY <1>5, <1>6 DEF N, SaturatedNow
\* A saturation finding rests on as many saturated samples in a row as the
\* policy asks for, whatever was lost or came late, and a machine saturated that
\* long whose samples all arrived is reported (resource.rs, cpu).
THEOREM SaturationIsSustained == TrendSpec => []SaturationSustained
<1>1. TrendInv => SaturationSustained
  <2> SUFFICES ASSUME TrendInv, judged # Nobody PROVE SaturationSustained
    BY DEF SaturationSustained
  <2>1. PICK sample, h, policy, c :
          /\ sample = judged.sample /\ h = judged.history /\ policy = course.policy
          /\ judged.findings = TrendFindings(policy, sample, h, c)
    BY DEF TrendInv, LastJudged
  <2>0. PICK at, held, S :
          /\ at = sample.observed_at /\ held = ToSet(h) \cup {sample}
          /\ S = {s \in ToSet(taken) : s.observed_at < at}
    OBVIOUS
  <2>2. Found("resource.cpu.saturation") <=> SaturatedNow(sample, h, policy)
    BY <2>1, SaturationFound DEF Found, SaturatedNow
  <2>3. sample \in ToSet(taken) /\ IsHistory(h, S)
    BY <2>0, <2>1 DEF TrendInv, LastJudged
  <2>4. \A s \in ToSet(taken) : s.observed_at \in Nat /\ s.observed_at >= 1
    BY TrendAssumption DEF TrendInv, SamplesTaken
  <2>5. at \in Nat /\ at >= 1
    BY <2>0, <2>3, <2>4
  <2>6. \A s \in S : s.observed_at \in 1..(at - 1)
    BY <2>0, <2>4, <2>5
  <2>7. policy.cpu_sustained_samples \in Nat /\ policy.cpu_sustained_samples # 0
    BY <2>1, TrendAssumption DEF TrendInv, Validate
  <2>8. ToSet(h) \subseteq S
    <3>1. h \in Seq(S)
      BY <2>3 DEF IsHistory
    <3>2. \A i \in DOMAIN h : h[i] \in S
      BY <3>1
    <3> QED BY <3>2, ToSetIs
  <2>9. SaturatedNow(sample, h, policy) <=> \E start \in 1..at : SaturatedSince(held, start, policy)
    BY <2>0, <2>3, <2>5, <2>6, <2>7, SaturationJudged
  <2>10. ASSUME NEW start \in 1..at, TakenIn(start, at) \subseteq held
         PROVE  TakenIn(start, at) = {s \in held : s.observed_at >= start}
    <3>1. \A s \in held : s \in ToSet(taken) /\ s.observed_at <= at
      BY <2>0, <2>3, <2>4, <2>5, <2>8
    <3> QED BY <2>0, <3>1, <2>4, <2>5, <2>10 DEF TakenIn
  <2>11. Found("resource.cpu.saturation") =>
           \E start \in 1..at :
             LET run == {s \in held : s.observed_at >= start}
             IN /\ Cardinality(run) >= policy.cpu_sustained_samples
                /\ \A s \in run : s.cpu >= policy.cpu_high
    BY <2>2, <2>9 DEF SaturatedSince
  <2>12. ASSUME NEW start \in 1..at,
                Cardinality(TakenIn(start, at)) >= policy.cpu_sustained_samples,
                TakenIn(start, at) \subseteq held,
                \A s \in TakenIn(start, at) : s.cpu >= policy.cpu_high
         PROVE  Found("resource.cpu.saturation")
    <3>1. TakenIn(start, at) = {s \in held : s.observed_at >= start}
      BY <2>10, <2>12
    <3>2. SaturatedSince(held, start, policy)
      BY <3>1, <2>12 DEF SaturatedSince
    <3> QED BY <3>2, <2>2, <2>9
  <2> QED BY <2>0, <2>1, <2>11, <2>12 DEF SaturationSustained
<1> QED BY <1>1, TrendInvariant, PTL
-----------------------------------------------------------------------------
\* The counters of a machine: what each sample adds to the one before it, or to
\* nothing after a reboot, is traffic of its tick.

CountedUp(i, from, sent) ==
  /\ taken[i].observed_at = i + course.skew
  /\ from = IF i + course.skew \in reboots \/ i = 1 THEN 0 ELSE taken[i - 1].tx
  /\ sent \in course.sent
  /\ taken[i].tx = from + sent
  /\ i + course.skew \in bursts <=> sent # Min(course.sent)

Counters ==
  /\ Len(taken) = clock - 1
  /\ bursts \cup reboots \subseteq 1..(clock + course.skew - 1)
  /\ \A i \in 1..Len(taken) :
       taken[i].tx \in Nat /\ \E from \in Nat, sent \in Nat : CountedUp(i, from, sent)

LEMMA CountersInit == TrendInit => Counters
BY DEF TrendInit, Counters

LEMMA Appended ==
  ASSUME NEW s, s \in Seq(ToSet(s)), NEW x
  PROVE  /\ Len(Append(s, x)) = Len(s) + 1 /\ Len(s) \in Nat
         /\ \A i \in 1..Len(s) : Append(s, x)[i] = s[i]
         /\ Append(s, x)[Len(s) + 1] = x
<1> SUFFICES ASSUME NEW V, s \in Seq(V)
             PROVE  /\ Len(Append(s, x)) = Len(s) + 1 /\ Len(s) \in Nat
                    /\ \A i \in 1..Len(s) : Append(s, x)[i] = s[i]
                    /\ Append(s, x)[Len(s) + 1] = x
  BY Zenon
<1> QED OBVIOUS

LEMMA CountersTake == TrendInv /\ Counters /\ Take => Counters'
<1> SUFFICES ASSUME TrendInv, Counters, Take PROVE Counters'
  OBVIOUS
<1>1. PICK cpu \in course.cpu, growth \in course.growth, sent \in course.sent, reboot \in BOOLEAN :
        LET sample == Measured(cpu, growth, sent, reboot)
        IN /\ reboots' = IF reboot THEN reboots \cup {sample.observed_at} ELSE reboots
           /\ bursts' = IF sent = Min(course.sent) THEN bursts
                                                 ELSE bursts \cup {sample.observed_at}
           /\ taken' = Append(taken, sample)
  BY DEF Take
<1>2. PICK sample : sample = Measured(cpu, growth, sent, reboot)
  OBVIOUS
<1>3. PICK at : at = clock + course.skew
  OBVIOUS
<1>4. /\ sample.observed_at = at
      /\ sample.tx = IF reboot THEN sent ELSE Previous.tx + sent
  BY <1>2, <1>3 DEF Measured, Sample
<1>5. /\ reboots' = IF reboot THEN reboots \cup {at} ELSE reboots
      /\ bursts' = IF sent = Min(course.sent) THEN bursts ELSE bursts \cup {at}
      /\ taken' = Append(taken, sample)
      /\ clock' = clock + 1 /\ course' = course
  BY <1>1, <1>2, <1>4 DEF Take
<1>6. course.skew \in Nat /\ sent \in Nat /\ clock \in Nat \ {0} /\ at \in Nat
  BY <1>3, TrendAssumption DEF TrendInv
<1>7. PICK n : n = Len(taken)
  OBVIOUS
<1>8. /\ Len(taken') = n + 1 /\ n \in Nat /\ n + 1 = clock
      /\ \A i \in 1..n : taken'[i] = taken[i]
      /\ taken'[n + 1] = sample
  BY <1>5, <1>6, <1>7, Appended DEF TrendInv, SamplesTaken, Counters
<1>9. at = n + 1 + course.skew /\ at \notin bursts /\ at \notin reboots
  BY <1>3, <1>6, <1>8 DEF Counters
<1>10. Len(taken') = clock' - 1
  BY <1>5, <1>6, <1>8
<1>11. bursts' \cup reboots' \subseteq 1..(clock' + course'.skew - 1)
  <2>1. 1..(clock + course.skew - 1) \subseteq 1..at /\ at \in 1..at
        /\ clock' + course'.skew - 1 = at
    BY <1>3, <1>5, <1>6
  <2>2. bursts \cup reboots \subseteq 1..at
    BY <2>1 DEF Counters
  <2> QED BY <2>1, <2>2, <1>5
<1>12. Previous.tx \in Nat /\ Previous.tx = IF n + 1 = 1 THEN 0 ELSE taken[(n + 1) - 1].tx
  <2>1. CASE taken = <<>>
    <3>1. n = 0
      BY <2>1, <1>7
    <3> QED BY <3>1, <2>1 DEF Previous, Sample
  <2>2. CASE taken # <<>>
    <3>1. n # 0
      <4> SUFFICES ASSUME NEW V, taken \in Seq(V) PROVE n # 0
        BY Zenon DEF TrendInv, SamplesTaken
      <4> QED BY <2>2, <1>7
    <3>2. n \in 1..Len(taken) /\ (n + 1) - 1 = n /\ n + 1 # 1
      BY <3>1, <1>7, <1>8
    <3>3. taken[n].tx \in Nat
      BY <3>2 DEF Counters
    <3> QED BY <3>2, <3>3, <2>2, <1>7 DEF Previous
  <2> QED BY <2>1, <2>2
<1>13. ASSUME NEW i \in 1..n
       PROVE  taken'[i].tx \in Nat /\ \E from \in Nat, s \in Nat : CountedUp(i, from, s)'
  <2>1. PICK from \in Nat, s \in Nat : CountedUp(i, from, s)
    BY <1>7 DEF Counters
  <2>2. taken[i].tx \in Nat
    BY <1>7 DEF Counters
  <2>3. i + course.skew # at
    BY <1>6, <1>8, <1>9
  <2>4. /\ i + course.skew \in reboots' <=> i + course.skew \in reboots
        /\ i + course.skew \in bursts' <=> i + course.skew \in bursts
    BY <2>3, <1>5
  <2>5. i # 1 => taken'[i - 1] = taken[i - 1]
    BY <1>8
  <2>6. taken'[i] = taken[i]
    BY <1>8
  <2>7. CountedUp(i, from, s)'
    BY <2>1, <2>4, <2>5, <2>6, <1>5 DEF CountedUp
  <2> QED BY <2>2, <2>6, <2>7
<1>14. taken'[n + 1].tx \in Nat /\ \E from \in Nat, s \in Nat : CountedUp(n + 1, from, s)'
  <2>1. PICK from : from = IF reboot THEN 0 ELSE Previous.tx
    OBVIOUS
  <2>2. from \in Nat /\ sample.tx = from + sent /\ sample.tx \in Nat
    BY <2>1, <1>4, <1>6, <1>12
  <2>3. at \in reboots' <=> reboot
    BY <1>5, <1>9
  <2>4. at \in bursts' <=> sent # Min(course.sent)
    BY <1>5, <1>9
  <2>5. n + 1 # 1 => taken'[(n + 1) - 1] = taken[(n + 1) - 1]
    BY <1>8
  <2>6. from = IF at \in reboots' \/ n + 1 = 1 THEN 0 ELSE taken'[(n + 1) - 1].tx
    BY <2>1, <2>3, <2>5, <1>12
  <2>7. CountedUp(n + 1, from, sent)'
    BY <2>2, <2>4, <2>6, <1>4, <1>5, <1>8, <1>9 DEF CountedUp
  <2> QED BY <2>2, <2>7, <1>6, <1>8
<1>15. \A i \in 1..Len(taken') :
         taken'[i].tx \in Nat /\ \E from \in Nat, s \in Nat : CountedUp(i, from, s)'
  <2>1. \A i \in 1..(n + 1) : i \in 1..n \/ i = n + 1
    BY <1>8
  <2> QED BY <2>1, <1>8, <1>13, <1>14
<1> QED BY <1>10, <1>11, <1>15 DEF Counters

LEMMA CountersInvariant == TrendSpec => []Counters
<1>1. TrendInv /\ Counters /\ [TrendNext]_trendVars => Counters'
  <2>1. TrendInv /\ Counters /\ Take => Counters'
    BY CountersTake
  <2>2. ASSUME Counters, UNCHANGED <<course, clock, taken, bursts, reboots>> PROVE Counters'
    <3>1. \A i, from, sent : CountedUp(i, from, sent) <=> CountedUp(i, from, sent)'
      BY <2>2, Zenon DEF CountedUp
    <3> QED BY <2>2, <3>1 DEF Counters
  <2>3. Judge \/ Lose \/ TrendDone \/ UNCHANGED trendVars
          => UNCHANGED <<course, clock, taken, bursts, reboots>>
    BY DEF Judge, Lose, TrendDone, trendVars
  <2> QED BY <2>1, <2>2, <2>3 DEF TrendNext
<1> QED BY <1>1, CountersInit, TrendInvariant, PTL DEF TrendSpec

-----------------------------------------------------------------------------
\* Traffic between two samples.

\* No burst, and no reboot, in the ticks after p up to q.
Calm(p, q) == \A t \in (p.observed_at + 1)..q.observed_at : t \notin bursts
Running(p, q) == \A t \in (p.observed_at + 1)..q.observed_at : t \notin reboots

LEMMA Times ==
  ASSUME NEW a \in Nat, NEW k \in Nat
  PROVE  a * k \in Nat /\ a * (k + 1) = a * k + a
OBVIOUS

LEMMA Usual ==
  ASSUME NEW S, S \subseteq Nat, NEW x \in S
  PROVE  Min(S) \in S /\ Min(S) <= x
<1>1. S \in SUBSET Nat /\ S # {}
  OBVIOUS
<1>2. \E y \in S : \A z \in S : y <= z
  BY <1>1, LeastElement
<1>3. Min(S) \in S /\ \A z \in S : Min(S) <= z
  BY <1>2, Zenon DEF Min
<1> QED BY <1>3

LEMMA Steady ==
  ASSUME TrendInv, Counters, NEW p \in ToSet(taken), NEW q \in ToSet(taken),
         p.observed_at < q.observed_at, Calm(p, q),
         NEW u, u = Min(course.sent)
  PROVE  /\ u \in Nat /\ p.tx \in Nat /\ q.tx \in Nat
         /\ q.observed_at - p.observed_at \in Nat \ {0}
         /\ q.tx <= p.tx + u * (q.observed_at - p.observed_at)
         /\ Running(p, q) => q.tx = p.tx + u * (q.observed_at - p.observed_at)
<1>1. course.skew \in Nat /\ course.sent \subseteq Nat
  BY TrendAssumption DEF TrendInv
<1>2. PICK skew : skew = course.skew
  OBVIOUS
<1>3. Len(taken) \in Nat /\ DOMAIN taken = 1..Len(taken)
  <2> SUFFICES ASSUME NEW V, taken \in Seq(V)
               PROVE  Len(taken) \in Nat /\ DOMAIN taken = 1..Len(taken)
    BY Zenon DEF TrendInv, SamplesTaken
  <2> QED OBVIOUS
<1>4. PICK i \in 1..Len(taken), j \in 1..Len(taken) : p = taken[i] /\ q = taken[j]
  BY <1>3, ToSetIs
<1>5. \A k \in 1..Len(taken) : /\ taken[k].tx \in Nat
                               /\ \E from \in Nat, s \in Nat : CountedUp(k, from, s)
  BY DEF Counters
<1>6. p.observed_at = i + skew /\ q.observed_at = j + skew /\ p.tx \in Nat /\ q.tx \in Nat
  BY <1>2, <1>4, <1>5 DEF CountedUp
<1>7. i < j /\ i \in Nat /\ j \in Nat /\ q.observed_at - p.observed_at = j - i /\ skew \in Nat
  BY <1>1, <1>2, <1>3, <1>6
<1>8. u \in Nat
  <2>1. PICK s \in Nat : s \in course.sent
    BY <1>4, <1>5 DEF CountedUp
  <2> QED BY <2>1, <1>1, Usual
<1>9. PICK d \in Nat : j = i + d /\ d # 0 /\ d = j - i
  <2>1. j - i \in Nat /\ j = i + (j - i) /\ j - i # 0
    BY <1>7
  <2> QED BY <2>1
<1>10. ASSUME NEW k \in 0..(d - 1)
       PROVE  /\ taken[i + (k + 1)].tx <= taken[i + k].tx + u
              /\ Running(p, q) => taken[i + (k + 1)].tx = taken[i + k].tx + u
  <2> DEFINE n == i + (k + 1)
  <2>1. n \in 1..Len(taken) /\ n - 1 = i + k /\ n # 1 /\ i + k \in 1..Len(taken)
        /\ n + skew \in (p.observed_at + 1)..q.observed_at
    BY <1>3, <1>6, <1>7, <1>9
  <2> HIDE DEF n
  <2>2. PICK from \in Nat, s \in Nat : CountedUp(n, from, s)
    BY <2>1, <1>5
  <2>3. s = u
    BY <2>1, <2>2, <1>2 DEF Calm, CountedUp
  <2>4. taken[i + k].tx \in Nat
    BY <2>1, <1>5
  <2>5. taken[n].tx = from + u /\ from \in {0, taken[i + k].tx}
        /\ (Running(p, q) => from = taken[i + k].tx)
    BY <2>1, <2>2, <2>3, <1>2 DEF CountedUp, Running
  <2>6. taken[n].tx <= taken[i + k].tx + u
    BY <2>4, <2>5, <1>8
  <2> QED BY <2>5, <2>6 DEF n
<1>11. \A k \in 0..d : /\ taken[i + k].tx <= p.tx + u * k
                       /\ Running(p, q) => taken[i + k].tx = p.tx + u * k
  <2> DEFINE T == {k \in 0..d : /\ taken[i + k].tx <= p.tx + u * k
                                /\ Running(p, q) => taken[i + k].tx = p.tx + u * k}
  <2>1. 0 \in T
    <3>1. i + 0 = i /\ u * 0 = 0 /\ p.tx + 0 = p.tx /\ p.tx <= p.tx
      BY <1>6, <1>7, <1>8
    <3> QED BY <3>1, <1>4
  <2>2. ASSUME NEW k \in 0..(d - 1), k \in T PROVE k + 1 \in T
    <3>1. u * k \in Nat /\ u * (k + 1) = u * k + u /\ k \in Nat /\ k + 1 \in 0..d
      BY <1>8, Times
    <3>2. taken[i + k].tx <= p.tx + u * k /\ (Running(p, q) => taken[i + k].tx = p.tx + u * k)
      BY <2>2
    <3>3. taken[i + k].tx \in Nat /\ taken[i + (k + 1)].tx \in Nat
      <4>1. i + k \in 1..Len(taken) /\ i + (k + 1) \in 1..Len(taken)
        BY <1>3, <1>7, <1>9
      <4> QED BY <4>1, <1>5
    <3>4. PICK x, y, z, v : /\ x = taken[i + k].tx /\ y = taken[i + (k + 1)].tx
                            /\ z = u * k /\ v = p.tx
      OBVIOUS
    <3>5. x \in Nat /\ y \in Nat /\ z \in Nat /\ v \in Nat
      BY <3>1, <3>3, <3>4, <1>6
    <3>6. y <= v + (z + u)
      <4>1. x <= v + z /\ y <= x + u
        BY <3>2, <3>4, <1>10
      <4> QED BY <4>1, <3>5, <1>8
    <3>7. Running(p, q) => y = v + (z + u)
      <4> SUFFICES ASSUME Running(p, q) PROVE y = v + (z + u)
        OBVIOUS
      <4>1. x = v + z /\ y = x + u
        BY <3>2, <3>4, <1>10
      <4> QED BY <4>1, <3>5, <1>8
    <3> QED BY <3>1, <3>4, <3>6, <3>7
  <2> HIDE DEF T
  <2>3. 0..d \subseteq T
    BY <2>1, <2>2, UpTo
  <2> QED BY <2>3 DEF T
<1>12. /\ q.tx <= p.tx + u * d
       /\ Running(p, q) => q.tx = p.tx + u * d
  <2>1. d \in 0..d /\ taken[i + d] = q
    BY <1>4, <1>9
  <2> QED BY <2>1, <1>11
<1> QED BY <1>6, <1>7, <1>8, <1>9, <1>12

\* Division, for any divisor.
LEMMA Shares ==
  ASSUME NEW x \in Nat, NEW a \in Nat, NEW d \in Nat \ {0}
  PROVE  /\ x \div d \in Nat
         /\ x <= a * d => x \div d <= a
         /\ x = a * d => x \div d = a
<1>1. PICK r : r = x \div d
  OBVIOUS
<1>2. r \in Nat /\ r * d <= x /\ x < (r + 1) * d
  BY <1>1, SMTT(30)
<1>3. ASSUME NEW m \in Nat, NEW n \in Nat, m < n PROVE (m + 1) * d <= n * d
  BY <1>3, SMTT(30)
<1>4. a * d \in Nat /\ r * d \in Nat /\ (r + 1) * d \in Nat /\ (a + 1) * d \in Nat
      /\ (a + 1) * d = a * d + d
  BY <1>2, SMTT(30)
<1>5. ASSUME x <= a * d, a < r PROVE FALSE
  <2>1. (a + 1) * d <= r * d
    BY <1>2, <1>3, <1>5
  <2> QED BY <2>1, <1>2, <1>4, <1>5
<1>6. ASSUME x = a * d, r < a PROVE FALSE
  <2>1. (r + 1) * d <= a * d
    BY <1>2, <1>3, <1>6
  <2> QED BY <2>1, <1>2, <1>4, <1>6
<1>7. x <= a * d => r <= a
  BY <1>2, <1>5
<1>8. x = a * d => r = a
  <2> SUFFICES ASSUME x = a * d PROVE r = a
    OBVIOUS
  <2>1. x <= a * d
    BY <1>4
  <2> QED BY <2>1, <1>2, <1>6, <1>7
<1> QED BY <1>1, <1>2, <1>7, <1>8
-----------------------------------------------------------------------------
\* The rates of a history.

LEMMA TotalSame ==
  ASSUME NEW w \in Nat, NEW s \in Seq({w})
  PROVE  Len(s) \in Nat /\ Total(s) = w * Len(s)
<1>0. s \in Seq(Nat)
  OBVIOUS
<1>1. PICK f : Sums(f, s, Nat)
  BY <1>0, TotalSteps
<1>2. PICK n : n = Len(s)
  OBVIOUS
<1>3. n \in Nat /\ \A i \in 1..n : s[i] = w
  BY <1>2
<1>4. /\ f \in [0..n -> Nat] /\ f[0] = 0 /\ Total(s) = f[n]
      /\ \A i \in 1..n : f[i] = f[i - 1] + s[i]
  BY <1>1, <1>2 DEF Sums
<1> DEFINE T == {k \in 0..n : f[k] = w * k}
<1>5. 0 \in T
  BY <1>3, <1>4
<1>6. ASSUME NEW k \in 0..(n - 1), k \in T PROVE k + 1 \in T
  <2>1. k + 1 \in 1..n /\ (k + 1) - 1 = k /\ k + 1 \in 0..n /\ f[k] = w * k /\ k \in Nat
    BY <1>3, <1>6
  <2>2. f[k + 1] = f[k] + w
    BY <2>1, <1>3, <1>4
  <2>3. w * (k + 1) = w * k + w
    BY <2>1, Times
  <2> QED BY <2>1, <2>2, <2>3
<1>7. 0..n \subseteq T
  <2> HIDE DEF T
  <2> QED BY <1>3, <1>5, <1>6, UpTo
<1>8. f[n] = w * n
  BY <1>3, <1>7
<1> QED BY <1>2, <1>3, <1>4, <1>8

LEMMA RateBetween ==
  ASSUME NEW p, NEW q, p.tx \in Nat, q.tx \in Nat,
         NEW d \in Nat \ {0}, d = q.observed_at - p.observed_at,
         NEW u \in Nat, q.tx <= p.tx + u * d
  PROVE  /\ \A r \in EgressRate(p, q) : r \in Nat /\ r <= 12 * u
         /\ q.tx = p.tx + u * d => EgressRate(p, q) = {12 * u}
         /\ q.tx < p.tx => EgressRate(p, q) = {}
<1>1. PICK sent : sent = q.tx - p.tx
  OBVIOUS
<1>2. EgressRate(p, q) = IF d <= 0 \/ sent < 0 THEN {} ELSE {(sent * 12) \div d}
  BY <1>1 DEF EgressRate, RateScale
<1>3. q.tx < p.tx => EgressRate(p, q) = {}
  BY <1>1, <1>2
<1>4. ASSUME ~(sent < 0)
      PROVE  /\ (sent * 12) \div d \in Nat /\ (sent * 12) \div d <= 12 * u
             /\ sent = u * d => (sent * 12) \div d = 12 * u
  <2>1. u * d \in Nat /\ (12 * u) * d = (u * d) * 12 /\ 12 * u \in Nat
    OBVIOUS
  <2>2. PICK z : z = u * d
    OBVIOUS
  <2>3. sent \in Nat /\ sent <= z /\ sent * 12 \in Nat
    BY <2>1, <2>2, <1>1, <1>4
  <2>4. sent * 12 <= (12 * u) * d /\ (sent = z => sent * 12 = (12 * u) * d)
    BY <2>1, <2>2, <2>3
  <2>5. PICK x : x = sent * 12
    OBVIOUS
  <2>6. PICK a : a = 12 * u
    OBVIOUS
  <2> QED BY <2>1, <2>2, <2>3, <2>4, <2>5, <2>6, Shares
<1>5. q.tx = p.tx + u * d => sent = u * d /\ ~(sent < 0)
  <2>1. u * d \in Nat
    OBVIOUS
  <2>2. PICK z : z = u * d
    OBVIOUS
  <2> QED BY <2>1, <2>2, <1>1
<1> QED BY <1>2, <1>3, <1>4, <1>5

RatesOf(h) ==
  FlattenSeq([i \in 1..(Len(h) - 1) |-> AsSeq(EgressRate(h[i], h[i + 1]))])

LEMMA RatesAre ==
  ASSUME NEW h, NEW n \in Nat, n = Len(h) - 1, NEW w \in Nat,
         \A i \in 1..n : EgressRate(h[i], h[i + 1]) \in {{}, {w}},
         NEW rates,
         rates = RatesOf(h)
  PROVE  /\ rates \in Seq({w})
         /\ (\E i \in 1..n : EgressRate(h[i], h[i + 1]) = {w}) => rates # <<>>
<1>1. PICK lists : lists = [i \in 1..n |-> AsSeq(EgressRate(h[i], h[i + 1]))]
  OBVIOUS
<1>2. rates = FlattenSeq(lists)
  BY <1>1 DEF RatesOf
<1>3. \A i \in 1..n : /\ AsSeq(EgressRate(h[i], h[i + 1])) \in Seq({w})
                      /\ EgressRate(h[i], h[i + 1]) = {w} => w \in ToSet(AsSeq(EgressRate(h[i], h[i + 1])))
  <2>1. AsSeq({}) \in Seq({}) /\ AsSeq({w}) \in Seq({w}) /\ ToSet(AsSeq({w})) = {w}
    BY FS_EmptySet, FS_Singleton, AsSeqLists
  <2>2. AsSeq({}) \in Seq({w})
    BY <2>1
  <2> QED BY <2>1, <2>2
<1>4. lists \in Seq(Seq({w})) /\ DOMAIN lists = 1..n /\ \A i \in 1..n : lists[i] = AsSeq(EgressRate(h[i], h[i + 1]))
  <2>1. lists \in [1..n -> Seq({w})]
    BY <1>1, <1>3
  <2>2. lists \in Seq(Seq({w}))
    BY <2>1, SegmentIsSeq
  <2> QED BY <2>1, <2>2, <1>1
<1>5. rates \in Seq({w}) /\ ToSet(rates) = ValuesIn(lists)
  BY <1>2, <1>4, FlattenValues
<1>6. (\E i \in 1..n : EgressRate(h[i], h[i + 1]) = {w}) => rates # <<>>
  <2> SUFFICES ASSUME NEW i \in 1..n, EgressRate(h[i], h[i + 1]) = {w} PROVE rates # <<>>
    OBVIOUS
  <2>1. w \in ToSet(lists[i])
    BY <1>3, <1>4
  <2>2. w \in ToSet(rates)
    BY <2>1, <1>4, <1>5 DEF ValuesIn
  <2> QED BY <2>2, ToSetIs
<1> QED BY <1>5, <1>6

LEMMA SameRates ==
  ASSUME NEW w \in Nat, NEW rates \in Seq({w}), rates # <<>>
  PROVE  Len(rates) \in Nat /\ Len(rates) >= 1 /\ Total(rates) = w * Len(rates)
<1>1. Len(rates) \in Nat /\ Len(rates) >= 1
  <2> SUFFICES ASSUME NEW V, rates \in Seq(V) PROVE Len(rates) \in Nat /\ Len(rates) >= 1
    BY Zenon
  <2> QED OBVIOUS
<1> QED BY <1>1, TotalSame

\* The rule, on the rates of a history.
Anomalous(rate, rates, multiplier, floor) ==
  /\ rate >= 1 * (floor * 12)
  /\ rate * Len(rates) >= 1 * multiplier * Total(rates)

LEMMA EgressFires ==
  ASSUME NEW policy, NEW sample, NEW h, Len(h) \in Nat, NEW c, NEW rates,
         rates = RatesOf(h)
  PROVE  (\E f \in TrendFindings(policy, sample, h, c) :
            f.fingerprint[1] = "intrusion.egress.anomaly")
         <=> /\ Len(h) >= 3 /\ rates # <<>>
             /\ \E rate \in EgressRate(h[Len(h)], sample) :
                  Anomalous(rate, rates, policy.egress_multiplier, policy.egress_floor)
<1>1. (\E f : f \in Egress(policy, sample, h))
        <=> /\ Len(h) >= 3 /\ rates # <<>>
            /\ \E rate \in EgressRate(h[Len(h)], sample) :
                 /\ rate >= 1 * (policy.egress_floor * 12)
                 /\ rate * Len(rates) >= 1 * policy.egress_multiplier * Total(rates)
  <2> DEFINE Exceeds(rate, k) == /\ rate >= k * (policy.egress_floor * RateScale)
                                 /\ rate * Len(rates) >= k * policy.egress_multiplier * Total(rates)
             Anomaly(rate) == When(Exceeds(rate, 1),
                                Finding("intrusion.egress.anomaly", "", "intrusion",
                                        IF Exceeds(rate, 3) THEN High ELSE Medium, rate))
  <2>1. Egress(policy, sample, h) =
          IF Len(h) < 3 \/ rates = <<>> THEN {}
          ELSE UNION {Anomaly(rate) : rate \in EgressRate(h[Len(h)], sample)}
    BY DEF Egress, RatesOf
  <2>2. \A rate : (\E f : f \in Anomaly(rate)) <=> Exceeds(rate, 1)
    BY DEF When
  <2> HIDE DEF Anomaly
  <2>3. (\E f : f \in Egress(policy, sample, h))
          <=> /\ ~(Len(h) < 3) /\ rates # <<>>
              /\ \E rate \in EgressRate(h[Len(h)], sample) : Exceeds(rate, 1)
    <3>1. PICK S, A : S = EgressRate(h[Len(h)], sample) /\ A = UNION {Anomaly(rate) : rate \in S}
      OBVIOUS
    <3>2. \A f : f \in A <=> \E rate \in S : f \in Anomaly(rate)
      BY <3>1
    <3> HIDE DEF Exceeds
    <3>3. (\E f : f \in A) <=> \E rate \in S : Exceeds(rate, 1)
      BY <3>2, <2>2
    <3>4. Egress(policy, sample, h) = IF Len(h) < 3 \/ rates = <<>> THEN {} ELSE A
      BY <2>1, <3>1
    <3> QED BY <3>1, <3>3, <3>4
  <2> QED BY <2>3 DEF RateScale
<1>2. \A f \in TrendFindings(policy, sample, h, c) :
        f.fingerprint[1] = "intrusion.egress.anomaly" => f \in Egress(policy, sample, h)
  BY TrendRules DEF TrendFindings, Resource
<1>3. \A f \in Egress(policy, sample, h) :
        /\ f \in TrendFindings(policy, sample, h, c)
        /\ f.fingerprint[1] = "intrusion.egress.anomaly"
  BY TrendRules DEF TrendFindings, Resource
<1> QED BY <1>1, <1>2, <1>3 DEF Anomalous
-----------------------------------------------------------------------------
\* The rate between two samples of a machine.

LEMMA UsualRate ==
  ASSUME TrendInv, Counters, NEW p \in ToSet(taken), NEW q \in ToSet(taken),
         p.observed_at < q.observed_at, Calm(p, q), NEW u, u = Min(course.sent)
  PROVE  /\ u \in Nat
         /\ \A r \in EgressRate(p, q) : r \in Nat /\ r <= 12 * u
         /\ Running(p, q) => EgressRate(p, q) = {12 * u}
         /\ ~CaughtUp(p, q) => EgressRate(p, q) \in {{}, {12 * u}}
<1>1. PICK d : d = q.observed_at - p.observed_at
  OBVIOUS
<1>2. /\ u \in Nat /\ p.tx \in Nat /\ q.tx \in Nat /\ d \in Nat \ {0}
      /\ q.tx <= p.tx + u * d
      /\ Running(p, q) => q.tx = p.tx + u * d
  BY <1>1, Steady
<1>3. /\ \A r \in EgressRate(p, q) : r \in Nat /\ r <= 12 * u
      /\ q.tx = p.tx + u * d => EgressRate(p, q) = {12 * u}
      /\ q.tx < p.tx => EgressRate(p, q) = {}
  BY <1>1, <1>2, RateBetween
<1>4. ~CaughtUp(p, q) => Running(p, q) \/ q.tx < p.tx
  BY <1>2 DEF CaughtUp, Running
<1> QED BY <1>2, <1>3, <1>4

LEMMA Indexed ==
  ASSUME TrendInv, Counters, NEW q \in ToSet(taken)
  PROVE  /\ Len(taken) \in Nat /\ course.skew \in Nat /\ q.tx \in Nat
         /\ \E j \in 1..Len(taken) : q = taken[j] /\ q.observed_at = j + course.skew
<1>1. Len(taken) \in Nat /\ DOMAIN taken = 1..Len(taken)
  <2> SUFFICES ASSUME NEW V, taken \in Seq(V)
               PROVE  Len(taken) \in Nat /\ DOMAIN taken = 1..Len(taken)
    BY Zenon DEF TrendInv, SamplesTaken
  <2> QED OBVIOUS
<1>2. PICK j \in 1..Len(taken) : q = taken[j]
  BY <1>1, ToSetIs
<1>3. taken[j].tx \in Nat /\ taken[j].observed_at = j + course.skew
  BY DEF Counters, CountedUp
<1>4. course.skew \in Nat
  BY TrendAssumption DEF TrendInv
<1> QED BY <1>1, <1>2, <1>3, <1>4

LEMMA Predecessor ==
  ASSUME TrendInv, Counters, NEW p \in ToSet(taken), NEW q \in ToSet(taken),
         p.observed_at < q.observed_at
  PROVE  \E r \in ToSet(taken) : r.observed_at = q.observed_at - 1
<1>1. PICK i \in 1..Len(taken) : p.observed_at = i + course.skew
  BY Indexed
<1>2. PICK j \in 1..Len(taken) : q.observed_at = j + course.skew
  BY Indexed
<1>3. Len(taken) \in Nat /\ course.skew \in Nat
  BY Indexed
<1>4. j - 1 \in 1..Len(taken) /\ q.observed_at - 1 = (j - 1) + course.skew
  BY <1>1, <1>2, <1>3
<1>5. taken[j - 1].observed_at = (j - 1) + course.skew
  BY <1>4 DEF Counters, CountedUp
<1>6. taken[j - 1] \in ToSet(taken)
  <2>1. DOMAIN taken = 1..Len(taken)
    <3> SUFFICES ASSUME NEW V, taken \in Seq(V) PROVE DOMAIN taken = 1..Len(taken)
      BY Zenon DEF TrendInv, SamplesTaken
    <3> QED OBVIOUS
  <2> QED BY <2>1, <1>4, ToSetIs
<1> QED BY <1>4, <1>5, <1>6

LEMMA BurstRate ==
  ASSUME TrendInv, Counters, NEW p \in ToSet(taken), NEW q \in ToSet(taken),
         q.observed_at = p.observed_at + 1, q.observed_at \in bursts, q.observed_at \notin reboots
  PROVE  \E s \in course.sent \ {Min(course.sent)} : s \in Nat /\ EgressRate(p, q) = {12 * s}
<1>1. PICK skew : skew = course.skew
  OBVIOUS
<1>2. PICK i \in 1..Len(taken) : p = taken[i] /\ p.observed_at = i + skew
  BY <1>1, Indexed
<1>3. PICK j \in 1..Len(taken) : q = taken[j] /\ q.observed_at = j + skew
  BY <1>1, Indexed
<1>4. Len(taken) \in Nat /\ skew \in Nat /\ p.tx \in Nat /\ q.tx \in Nat
  BY <1>1, Indexed
<1>5. j - 1 = i /\ j # 1 /\ 1 = q.observed_at - p.observed_at
  BY <1>2, <1>3, <1>4
<1>6. PICK from \in Nat, s \in Nat : CountedUp(j, from, s)
  BY DEF Counters
<1>7. s \in course.sent /\ s # Min(course.sent) /\ q.tx = p.tx + s
  BY <1>1, <1>2, <1>3, <1>5, <1>6 DEF CountedUp
<1>8. q.tx = p.tx + s * 1 /\ q.tx <= p.tx + s * 1
  BY <1>4, <1>7
<1>9. EgressRate(p, q) = {12 * s}
  BY <1>4, <1>5, <1>8, RateBetween
<1> QED BY <1>7, <1>9

\* The threshold.
LEMMA NoAnomaly ==
  ASSUME NEW rate \in Nat, NEW u \in Nat, rate <= 12 * u, NEW n \in Nat, n >= 1,
         NEW multiplier \in Int, multiplier > 1, NEW floor \in Int,
         rate >= 1 * (floor * 12), rate * n >= 1 * multiplier * ((12 * u) * n)
  PROVE  u = 0 /\ floor <= 0
<1>1. PICK w : w = 12 * u
  OBVIOUS
<1>2. PICK P : P = w * n
  OBVIOUS
<1>3. w \in Nat /\ P \in Nat /\ rate * n \in Nat /\ rate * n <= P
  BY <1>1, <1>2, SMTT(30)
<1>4. 1 * multiplier * P >= 2 * P
  BY <1>3, SMTT(30)
<1>5. rate * n >= 1 * multiplier * P
  BY <1>1, <1>2
<1>6. P = 0
  BY <1>3, <1>4, <1>5
<1>7. w <= w * n
  BY <1>3, SMTT(30)
<1>8. w = 0
  BY <1>2, <1>3, <1>6, <1>7
<1> QED BY <1>1, <1>8

LEMMA SoAnomaly ==
  ASSUME NEW s \in Nat, NEW u \in Nat, NEW n \in Nat, NEW multiplier \in Int, multiplier > 1,
         NEW floor \in Int, s >= floor, s >= multiplier * u
  PROVE  12 * s >= 1 * (floor * 12) /\ (12 * s) * n >= 1 * multiplier * ((12 * u) * n)
<1>1. PICK m : m = multiplier * u
  OBVIOUS
<1>2. m \in Nat /\ m <= s
  BY <1>1, SMTT(30)
<1>3. m * n <= s * n
  BY <1>2, SMTT(30)
<1>4. (12 * s) * n = 12 * (s * n) /\ s * n \in Nat /\ m * n \in Nat
  BY <1>2, SMTT(30)
<1>5. 1 * multiplier * ((12 * u) * n) = 12 * (m * n)
  BY <1>1, SMTT(30)
<1>6. (12 * s) * n >= 12 * (m * n)
  BY <1>3, <1>4
<1> QED BY <1>5, <1>6

-----------------------------------------------------------------------------
\* Neighbours in a history: the later sample, the earlier one, and the times
\* between them, which lie within those of the history.
LEMMA Neighbours ==
  ASSUME TrendInv, Counters, NEW at \in Nat,
         NEW S, \A s \in S : s \in ToSet(taken) /\ s.observed_at < at, NEW h, IsHistory(h, S),
         NEW n, n = Len(h), n >= 3, NEW first, first = h[1].observed_at
  PROVE  /\ n \in Nat /\ first \in Nat
         /\ \A i \in 1..n : /\ h[i] \in ToSet(taken) /\ h[i].observed_at \in Nat
                            /\ h[i].observed_at \in first..(at - 1)
         /\ \A i \in 1..(n - 1) : h[i].observed_at < h[i + 1].observed_at
<1>1. h \in Seq(S) /\ \A i, j \in DOMAIN h : i < j => h[i].observed_at < h[j].observed_at
  BY DEF IsHistory
<1>2. n \in Nat /\ DOMAIN h = 1..n /\ \A i \in 1..n : h[i] \in S
  BY <1>1
<1>3. \A s \in S : s \in ToSet(taken) /\ s.observed_at \in Nat /\ s.observed_at < at
  BY TrendAssumption DEF TrendInv, SamplesTaken
<1>4. \A i \in 1..n : h[i].observed_at \in Nat /\ h[i].observed_at < at /\ h[i] \in ToSet(taken)
  BY <1>2, <1>3
<1>5. 1 \in 1..n /\ first \in Nat
  BY <1>2, <1>4
<1>6. \A i \in 1..n : h[i].observed_at \in first..(at - 1)
  <2> SUFFICES ASSUME NEW i \in 1..n PROVE h[i].observed_at \in first..(at - 1)
    OBVIOUS
  <2>1. i = 1 \/ 1 < i
    BY <1>2
  <2>2. 1 < i => first < h[i].observed_at
    BY <1>1, <1>2, <1>5
  <2> QED BY <2>1, <2>2, <1>4, <1>5
<1>7. \A i \in 1..(n - 1) : h[i].observed_at < h[i + 1].observed_at
  <2> SUFFICES ASSUME NEW i \in 1..(n - 1) PROVE h[i].observed_at < h[i + 1].observed_at
    OBVIOUS
  <2>1. i \in 1..n /\ i + 1 \in 1..n /\ i < i + 1
    BY <1>2
  <2> QED BY <2>1, <1>1, <1>2
<1> QED BY <1>2, <1>4, <1>5, <1>6, <1>7

\* The two halves of the property, for a history of at least three samples.
LEMMA UsualIsQuiet ==
  ASSUME TrendInv, Counters, NEW sample \in ToSet(taken), NEW at \in Nat, at = sample.observed_at,
         NEW S, \A s \in S : s \in ToSet(taken) /\ s.observed_at < at, NEW h, IsHistory(h, S),
         NEW n, n = Len(h), n >= 3, NEW first, first = h[1].observed_at,
         bursts \cap (first + 1)..at = {},
         \A i \in 1..(n - 1) : ~CaughtUp(h[i], h[i + 1]),
         NEW u, u = Min(course.sent),
         NEW multiplier \in Int, multiplier > 1, NEW floor \in Int,
         NEW rates, rates # <<>>,
         rates = RatesOf(h),
         NEW rate \in EgressRate(h[n], sample),
         Anomalous(rate, rates, multiplier, floor)
  PROVE  u = 0 /\ floor <= 0
<1>1. /\ n \in Nat /\ first \in Nat
      /\ \A i \in 1..n : /\ h[i] \in ToSet(taken) /\ h[i].observed_at \in Nat
                         /\ h[i].observed_at \in first..(at - 1)
      /\ \A i \in 1..(n - 1) : h[i].observed_at < h[i + 1].observed_at
  BY Neighbours
<1>2. \A t \in (first + 1)..at : t \notin bursts
  OBVIOUS
<1>3. ASSUME NEW i \in 1..(n - 1) PROVE EgressRate(h[i], h[i + 1]) \in {{}, {12 * u}}
  <2>1. i \in 1..n /\ i + 1 \in 1..n
    BY <1>1
  <2>2. PICK p, q : p = h[i] /\ q = h[i + 1]
    OBVIOUS
  <2>3. /\ p \in ToSet(taken) /\ q \in ToSet(taken) /\ p.observed_at < q.observed_at
        /\ p.observed_at \in first..(at - 1) /\ q.observed_at \in first..(at - 1)
        /\ ~CaughtUp(p, q)
    BY <1>1, <2>1, <2>2
  <2>4. Calm(p, q)
    <3>1. PICK from, to : from = p.observed_at /\ to = q.observed_at
      OBVIOUS
    <3>2. from \in first..(at - 1) /\ to \in first..(at - 1)
      BY <2>3, <3>1
    <3>3. \A t \in (from + 1)..to : t \in (first + 1)..at
      BY <1>1, <3>2
    <3> QED BY <3>1, <3>3, <1>2 DEF Calm
  <2>5. EgressRate(p, q) \in {{}, {12 * u}}
    BY <2>3, <2>4, UsualRate
  <2> QED BY <2>2, <2>5
<1>4. u \in Nat /\ rate \in Nat /\ rate <= 12 * u
  <2>1. PICK p : p = h[n]
    OBVIOUS
  <2>2. p \in ToSet(taken) /\ p.observed_at \in first..(at - 1) /\ p.observed_at < sample.observed_at
    BY <1>1, <2>1
  <2>3. Calm(p, sample)
    BY <1>1, <1>2, <2>2 DEF Calm
  <2> QED BY <2>1, <2>2, <2>3, UsualRate
<1>5. PICK w : w = 12 * u
  OBVIOUS
<1>6. Len(rates) \in Nat /\ Len(rates) >= 1 /\ Total(rates) = w * Len(rates)
  <2>1. n - 1 \in Nat /\ n - 1 = Len(h) - 1 /\ w \in Nat
    BY <1>1, <1>4, <1>5
  <2>2. \A i \in 1..(n - 1) : EgressRate(h[i], h[i + 1]) \in {{}, {w}}
    BY <1>3, <1>5
  <2>3. PICK m : m = n - 1
    OBVIOUS
  <2>4. m \in Nat /\ m = Len(h) - 1 /\ \A i \in 1..m : EgressRate(h[i], h[i + 1]) \in {{}, {w}}
    BY <2>1, <2>2, <2>3
  <2>5. rates \in Seq({w})
    BY <2>1, <2>4, RatesAre
  <2> QED BY <2>1, <2>5, SameRates
<1> QED BY <1>4, <1>5, <1>6, NoAnomaly DEF Anomalous

LEMMA BurstIsSeen ==
  ASSUME TrendInv, Counters, NEW sample \in ToSet(taken), NEW at \in Nat, at = sample.observed_at,
         NEW S, \A s \in S : s \in ToSet(taken) /\ s.observed_at < at, NEW h, IsHistory(h, S),
         NEW n, n = Len(h), n >= 3, NEW first, first = h[1].observed_at,
         TakenIn(first, at - 1) = ToSet(h), at \in bursts,
         bursts \cap (first + 1)..(at - 1) = {}, reboots \cap (first + 1)..at = {},
         NEW u, u = Min(course.sent),
         NEW multiplier \in Int, multiplier > 1, NEW floor \in Int,
         \A sent \in course.sent \ {u} : sent >= floor /\ sent >= multiplier * u,
         NEW rates,
         rates = RatesOf(h)
  PROVE  /\ rates # <<>>
         /\ \E rate \in EgressRate(h[n], sample) : Anomalous(rate, rates, multiplier, floor)
<1>1. /\ n \in Nat /\ first \in Nat
      /\ \A i \in 1..n : /\ h[i] \in ToSet(taken) /\ h[i].observed_at \in Nat
                         /\ h[i].observed_at \in first..(at - 1)
      /\ \A i \in 1..(n - 1) : h[i].observed_at < h[i + 1].observed_at
  BY Neighbours
<1>2. /\ \A t \in (first + 1)..(at - 1) : t \notin bursts
      /\ \A t \in (first + 1)..at : t \notin reboots
  OBVIOUS
<1>3. ASSUME NEW i \in 1..(n - 1) PROVE u \in Nat /\ EgressRate(h[i], h[i + 1]) = {12 * u}
  <2>1. i \in 1..n /\ i + 1 \in 1..n
    BY <1>1
  <2>2. PICK p, q : p = h[i] /\ q = h[i + 1]
    OBVIOUS
  <2>3. /\ p \in ToSet(taken) /\ q \in ToSet(taken) /\ p.observed_at < q.observed_at
        /\ p.observed_at \in first..(at - 1) /\ q.observed_at \in first..(at - 1)
    BY <1>1, <2>1, <2>2
  <2>4. Calm(p, q) /\ Running(p, q)
    <3>1. (p.observed_at + 1)..q.observed_at \subseteq (first + 1)..(at - 1)
          /\ (first + 1)..(at - 1) \subseteq (first + 1)..at
      BY <1>1, <2>3
    <3> QED BY <3>1, <1>2 DEF Calm, Running
  <2>5. u \in Nat /\ EgressRate(p, q) = {12 * u}
    BY <2>3, <2>4, UsualRate
  <2> QED BY <2>2, <2>5
<1>4. 1 \in 1..(n - 1) /\ n - 1 \in Nat /\ n \in 1..n
  BY <1>1
<1>5. u \in Nat
  BY <1>3, <1>4
<1>6. PICK w : w = 12 * u
  OBVIOUS
<1>7. Len(rates) \in Nat /\ rates # <<>> /\ Total(rates) = w * Len(rates)
  <2>1. n - 1 = Len(h) - 1 /\ w \in Nat
    BY <1>5, <1>6
  <2>2. \A i \in 1..(n - 1) : EgressRate(h[i], h[i + 1]) \in {{}, {w}}
    BY <1>3, <1>6
  <2>3. EgressRate(h[1], h[1 + 1]) = {w}
    BY <1>3, <1>4, <1>6
  <2>4. \E i \in 1..(n - 1) : EgressRate(h[i], h[i + 1]) = {w}
    BY <2>3, <1>4
  <2>5. PICK m : m = n - 1
    OBVIOUS
  <2>6. /\ m \in Nat /\ m = Len(h) - 1 /\ w \in Nat
        /\ \A i \in 1..m : EgressRate(h[i], h[i + 1]) \in {{}, {w}}
        /\ \E i \in 1..m : EgressRate(h[i], h[i + 1]) = {w}
    BY <2>1, <2>2, <2>4, <2>5, <1>4
  <2>7. rates \in Seq({w}) /\ rates # <<>>
    BY <2>6, RatesAre
  <2> QED BY <2>6, <2>7, SameRates
<1>8. PICK newest : newest = h[n]
  OBVIOUS
<1>9. newest \in ToSet(taken) /\ newest.observed_at \in first..(at - 1)
  BY <1>1, <1>4, <1>8
<1>10. newest.observed_at = at - 1
  <2>1. PICK r \in ToSet(taken) : r.observed_at = at - 1
    <3>1. newest.observed_at < sample.observed_at
      BY <1>1, <1>9
    <3> QED BY <3>1, <1>9, Predecessor
  <2>2. r \in ToSet(h)
    BY <2>1, <1>1, <1>9 DEF TakenIn
  <2>3. h \in Seq(S) /\ DOMAIN h = 1..n
        /\ \A i, j \in DOMAIN h : i < j => h[i].observed_at < h[j].observed_at
    <3>1. h \in Seq(S)
          /\ \A i, j \in DOMAIN h : i < j => h[i].observed_at < h[j].observed_at
      BY DEF IsHistory
    <3>2. DOMAIN h = 1..n
      <4> SUFFICES ASSUME NEW V, h \in Seq(V) PROVE DOMAIN h = 1..Len(h)
        BY <3>1, Zenon
      <4> QED OBVIOUS
    <3> QED BY <3>1, <3>2
  <2>4. PICK i \in 1..n : r = h[i]
    BY <2>2, <2>3, ToSetIs
  <2>5. i = n \/ i < n
    BY <1>1
  <2>6. ~(i < n)
    <3> SUFFICES ASSUME i < n PROVE FALSE
      OBVIOUS
    <3>1. h[i].observed_at < newest.observed_at
      BY <2>3, <1>4, <1>8
    <3> QED BY <3>1, <2>1, <2>4, <1>1, <1>9
  <2> QED BY <2>1, <2>4, <2>5, <2>6, <1>8
<1>11. PICK s \in course.sent \ {u} : s \in Nat /\ EgressRate(newest, sample) = {12 * s}
  <2>1. sample.observed_at = newest.observed_at + 1
    BY <1>1, <1>9, <1>10
  <2>2. sample.observed_at \in bursts /\ sample.observed_at \notin reboots
    <3>1. at \in (first + 1)..at
      BY <1>1, <1>9
    <3> QED BY <3>1, <1>2
  <2> QED BY <2>1, <2>2, <1>9, BurstRate
<1>12. 12 * s >= 1 * (floor * 12) /\ (12 * s) * Len(rates) >= 1 * multiplier * ((12 * u) * Len(rates))
  <2>1. s >= floor /\ s >= multiplier * u
    OBVIOUS
  <2> QED BY <2>1, <1>5, <1>7, <1>11, SoAnomaly
<1> QED BY <1>6, <1>7, <1>8, <1>11, <1>12 DEF Anomalous

\* A machine that sent its usual traffic raises no egress anomaly, unless a
\* reboot in the history passes for little traffic, or nothing is usual and the
\* policy has no floor; a burst above the floor and the multiple, after a history
\* the server has in full, is reported (intrusion.rs, egress).
THEOREM EgressIsJudged == TrendSpec => []EgressJudged
<1>1. TrendInv /\ Counters => EgressJudged
  <2> SUFFICES ASSUME TrendInv, Counters, judged # Nobody PROVE EgressJudged
    BY DEF EgressJudged
  <2>1. PICK sample, h, policy, c :
          /\ sample = judged.sample /\ h = judged.history /\ policy = course.policy
          /\ judged.findings = TrendFindings(policy, sample, h, c)
    BY DEF TrendInv, LastJudged
  <2>2. PICK at, n, first, u :
          at = sample.observed_at /\ n = Len(h) /\ first = h[1].observed_at /\ u = Min(course.sent)
    OBVIOUS
  <2>12. PICK S : S = {s \in ToSet(taken) : s.observed_at < at}
    OBVIOUS
  <2>3. sample \in ToSet(taken) /\ IsHistory(h, S) /\ \A s \in S : s \in ToSet(taken) /\ s.observed_at < at
    BY <2>1, <2>2, <2>12 DEF TrendInv, LastJudged
  <2>4. at \in Nat
    BY <2>2, <2>3, TrendAssumption DEF TrendInv, SamplesTaken
  <2>5. n \in Nat
    BY <2>2, <2>3 DEF IsHistory
  <2>6. PICK multiplier, floor : multiplier = policy.egress_multiplier /\ floor = policy.egress_floor
    OBVIOUS
  <2>7. multiplier \in Int /\ multiplier > 1 /\ floor \in Int
    BY <2>1, <2>6, TrendAssumption DEF TrendInv, Validate
  <2>8. PICK rates : rates = RatesOf(h)
    OBVIOUS
  <2>9. Found("intrusion.egress.anomaly")
          <=> /\ n >= 3 /\ rates # <<>>
              /\ \E rate \in EgressRate(h[n], sample) : Anomalous(rate, rates, multiplier, floor)
    <3>1. Found("intrusion.egress.anomaly")
            <=> \E f \in TrendFindings(policy, sample, h, c) :
                  f.fingerprint[1] = "intrusion.egress.anomaly"
      BY <2>1 DEF Found
    <3> QED BY <3>1, <2>2, <2>5, <2>6, <2>8, EgressFires
  <2>10. ASSUME Found("intrusion.egress.anomaly"),
                bursts \cap (first + 1)..at = {},
                \A i \in 1..(n - 1) : ~CaughtUp(h[i], h[i + 1])
         PROVE  u = 0 /\ floor <= 0
    <3>1. PICK rate \in EgressRate(h[n], sample) : Anomalous(rate, rates, multiplier, floor)
      BY <2>9, <2>10
    <3>2. n >= 3 /\ rates # <<>>
      BY <2>9, <2>10
    <3>3. /\ at = sample.observed_at /\ n = Len(h) /\ first = h[1].observed_at
          /\ u = Min(course.sent)
          /\ IsHistory(h, S) /\ \A s \in S : s \in ToSet(taken) /\ s.observed_at < at
          /\ bursts \cap (first + 1)..at = {} /\ \A i \in 1..(n - 1) : ~CaughtUp(h[i], h[i + 1])
      BY <2>2, <2>3, <2>10
    <3>4. sample \in ToSet(taken) /\ multiplier \in Int /\ multiplier > 1 /\ floor \in Int
      BY <2>3, <2>7
    <3> HIDE <2>1, <2>2, <2>5, <2>6, <2>9, <2>12
    <3> QED BY <3>1, <3>2, <3>3, <3>4, <2>4, <2>8, UsualIsQuiet, SMTT(30)
  <2>11. ASSUME n >= 3, TakenIn(first, at - 1) = ToSet(h), at \in bursts,
                \A sent \in course.sent \ {u} : sent >= floor /\ sent >= multiplier * u,
                bursts \cap (first + 1)..(at - 1) = {}, reboots \cap (first + 1)..at = {}
         PROVE  Found("intrusion.egress.anomaly")
    BY <2>2, <2>3, <2>4, <2>7, <2>8, <2>9, <2>11, BurstIsSeen
  <2> QED BY <2>1, <2>2, <2>6, <2>10, <2>11 DEF EgressJudged
<1> QED BY <1>1, TrendInvariant, CountersInvariant, PTL

-----------------------------------------------------------------------------
\* merge_by_fingerprint.

\* Findings with some fingerprints and their evidence out of some set.
FindingsOver(fps, E) ==
  [fingerprint : fps, category : Categories, severity : Severities, evidence : SUBSET E]

LEMMA MergeOfTwo ==
  ASSUME NEW fps, NEW E, NEW a \in FindingsOver(fps, E), NEW b \in FindingsOver(fps, E)
  PROVE  /\ Merge(a, b).evidence = a.evidence \cup b.evidence
         /\ Merge(a, b).severity = IF b.severity > a.severity THEN b.severity ELSE a.severity
         /\ Merge(a, b).fingerprint \in {a.fingerprint, b.fingerprint}
         /\ Merge(a, b).category \in {a.category, b.category}
         /\ Merge(a, b) \in FindingsOver(fps, E)
<1>1. CASE b.severity > a.severity
  <2>1. Merge(a, b) = [b EXCEPT !.evidence = a.evidence \cup b.evidence]
    BY <1>1 DEF Merge
  <2> QED BY <1>1, <2>1 DEF FindingsOver
<1>2. CASE ~(b.severity > a.severity)
  <2>1. Merge(a, b) = [a EXCEPT !.evidence = a.evidence \cup b.evidence]
    BY <1>2 DEF Merge
  <2> QED BY <1>2, <2>1 DEF FindingsOver
<1> QED BY <1>1, <1>2

\* What the first k of some candidates of one fingerprint merge to.
MergesTo(f, same, k) ==
  /\ f.evidence = UNION {same[i].evidence : i \in 1..k}
  /\ \A i \in 1..k : same[i].severity <= f.severity
  /\ \E i \in 1..k : f.severity = same[i].severity
  /\ \E i \in 1..k : f.category = same[i].category

LEMMA MergesMore ==
  ASSUME NEW fps, NEW E, NEW same \in Seq(FindingsOver(fps, E)), NEW k \in 1..(Len(same) - 1),
         NEW f \in FindingsOver(fps, E), MergesTo(f, same, k)
  PROVE  MergesTo(Merge(f, same[k + 1]), same, k + 1)
<1> DEFINE g == same[k + 1]
           m == Merge(f, g)
<1>1. k + 1 \in 1..Len(same) /\ \A i \in 1..Len(same) : same[i] \in FindingsOver(fps, E)
  OBVIOUS
<1>2. g \in FindingsOver(fps, E)
  BY <1>1
<1>3. /\ 1..(k + 1) = (1..k) \cup {k + 1}
      /\ \A i \in 1..k : i \in 1..Len(same)
  OBVIOUS
<1>4. /\ m.evidence = f.evidence \cup g.evidence
      /\ m.severity = IF g.severity > f.severity THEN g.severity ELSE f.severity
      /\ m.category \in {f.category, g.category}
  BY <1>2, MergeOfTwo
<1>5. g = same[k + 1]
  OBVIOUS
<1> HIDE DEF m, g
<1>6. m.evidence = UNION {same[i].evidence : i \in 1..(k + 1)}
  BY <1>3, <1>4, <1>5 DEF MergesTo
<1>7. f.severity \in Int /\ g.severity \in Int /\ \A i \in 1..k : same[i].severity \in Int
  <2>1. \A x \in FindingsOver(fps, E) : x.severity \in Int
    BY DEF FindingsOver, Severities, Info, Critical
  <2> QED BY <1>1, <1>2, <1>3, <2>1
<1>8. \A i \in 1..(k + 1) : same[i].severity <= m.severity
  <2> SUFFICES ASSUME NEW i \in 1..(k + 1) PROVE same[i].severity <= m.severity
    OBVIOUS
  <2>1. CASE i \in 1..k
    <3>1. same[i].severity <= f.severity /\ same[i].severity \in Int
      BY <2>1, <1>7 DEF MergesTo
    <3> QED BY <3>1, <1>4, <1>7
  <2>2. CASE i = k + 1
    BY <2>2, <1>4, <1>5, <1>7
  <2> QED BY <2>1, <2>2, <1>3
<1>9. \E i \in 1..(k + 1) : m.severity = same[i].severity
  BY <1>3, <1>4, <1>5 DEF MergesTo
<1>10. \E i \in 1..(k + 1) : m.category = same[i].category
  BY <1>3, <1>4, <1>5 DEF MergesTo
<1> QED BY <1>6, <1>8, <1>9, <1>10 DEF MergesTo, m, g

LEMMA MergedSteps ==
  ASSUME NEW fps, NEW E, NEW same \in Seq(FindingsOver(fps, E)), same # <<>>
  PROVE  /\ Merged(same) \in FindingsOver(fps, E)
         /\ MergesTo(Merged(same), same, Len(same))
<1> DEFINE n == Len(same)
           V == FindingsOver(fps, E)
           After(v, i) == IF i = 1 THEN v ELSE Merge(v, same[i])
           Step == {<<i, v, After(v, i)>> : i \in 1..n, v \in V}
           Grows(g) == g = [i \in 1..n |-> IF i = 1 THEN same[1] ELSE Merge(g[i - 1], same[i])]
           chosen == CHOOSE g : Grows(g)
<1>1. Merged(same) = chosen[n]
  BY DEF Merged
<1>2. n \in Nat /\ n = Len(same) /\ n # 0 /\ \A i \in 1..n : same[i] \in V
  OBVIOUS
<1>3. \A i \in 1..n, v \in V : After(v, i) \in V
  BY <1>2, MergeOfTwo
<1>4. \A v : After(v, 1) = v
  OBVIOUS
<1>5. \A v, i : i # 1 => After(v, i) = Merge(v, same[i])
  OBVIOUS
<1> HIDE DEF n, V, After
<1>6. \A i \in 1..n, v \in V : \E w \in V : <<i, v, w>> \in Step
  BY <1>3
<1>7. same[1] \in V
  BY <1>2
<1>8. PICK f : Follows(f, n, V, same[1], Step)
  <2> HIDE DEF Step
  <2> QED BY <1>2, <1>6, <1>7, Recursion
<1>9. /\ f \in [0..n -> V] /\ f[0] = same[1]
      /\ \A i \in 1..n : <<i, f[i - 1], f[i]>> \in Step
  <2> HIDE DEF Step
  <2> QED BY <1>8 DEF Follows
<1>10. ASSUME NEW i \in 1..n PROVE f[i] = After(f[i - 1], i)
  <2>1. i - 1 \in 0..n BY <1>2
  <2>2. f[i - 1] \in V BY <2>1, <1>9
  <2> QED BY <2>2, <1>9
<1> DEFINE g == [i \in 1..n |-> f[i]]
<1>11. Grows(g)
  <2>1. ASSUME NEW i \in 1..n PROVE g[i] = IF i = 1 THEN same[1] ELSE Merge(g[i - 1], same[i])
    <3>1. CASE i = 1
      <4>1. f[1] = After(f[0], 1)
        BY <1>10, <3>1
      <4> QED BY <4>1, <3>1, <1>4, <1>9
    <3>2. CASE i # 1
      <4>1. i - 1 \in 1..n BY <3>2, <1>2
      <4> QED BY <4>1, <3>2, <1>5, <1>10
    <3> QED BY <3>1, <3>2
  <2> HIDE DEF g
  <2>2. g = [i \in 1..n |-> g[i]] BY DEF g
  <2> QED BY <2>1, <2>2
<1>12. Grows(chosen)
  <2> HIDE DEF Grows, g
  <2> QED BY <1>11
<1> HIDE DEF g, chosen
<1>13. \A i \in 1..n : chosen[i] = IF i = 1 THEN same[1] ELSE Merge(chosen[i - 1], same[i])
  BY <1>12
<1> HIDE DEF Grows
<1> DEFINE T == {k \in 0..n : k = 0 \/ (chosen[k] \in V /\ MergesTo(chosen[k], same, k))}
<1>14. 0 \in T
  BY <1>2
<1>15. ASSUME NEW k \in 0..(n - 1), k \in T PROVE k + 1 \in T
  <2>1. k + 1 \in 1..n /\ (k + 1) - 1 = k /\ k + 1 \in 0..n
    BY <1>2
  <2>2. CASE k = 0
    <3>1. chosen[1] = same[1] /\ same[1] \in V
      BY <1>7, <1>13, <2>1, <2>2
    <3>2. same[1].severity \in Int
      BY <1>7 DEF V, FindingsOver, Severities, Info, Critical
    <3>3. 1..1 = {1}
      OBVIOUS
    <3>4. MergesTo(same[1], same, 1)
      BY <3>2, <3>3 DEF MergesTo
    <3> QED BY <2>1, <2>2, <3>1, <3>4
  <2>3. CASE k # 0
    <3>1. chosen[k] \in V /\ MergesTo(chosen[k], same, k)
      BY <1>15, <2>3
    <3>2. chosen[k + 1] = Merge(chosen[k], same[k + 1]) /\ k + 1 # 1
      BY <1>13, <2>1, <2>3
    <3>3. same[k + 1] \in V
      BY <1>2, <2>1
    <3>4. chosen[k + 1] \in V
      BY <3>1, <3>2, <3>3, MergeOfTwo DEF V
    <3>5. k \in 1..(Len(same) - 1)
      BY <1>2, <2>3
    <3>6. MergesTo(chosen[k + 1], same, k + 1)
      BY <3>1, <3>2, <3>5, MergesMore DEF V
    <3> QED BY <2>1, <3>4, <3>6
  <2> QED BY <2>2, <2>3
<1>16. n \in T
  <2> HIDE DEF T
  <2>1. 0..n \subseteq T
    BY <1>2, <1>14, <1>15, UpTo
  <2> QED BY <2>1, <1>2
<1>17. chosen[n] \in V /\ MergesTo(chosen[n], same, n)
  BY <1>2, <1>16
<1> QED BY <1>1, <1>2, <1>17 DEF V, n
\* A finding that stands for all the candidates of its fingerprint.
Summarises(f, C, fp) ==
  LET same == {d \in C : d.fingerprint = fp}
  IN /\ f.fingerprint = fp
     /\ f.evidence = UNION {d.evidence : d \in same}
     /\ \A d \in same : d.severity <= f.severity
     /\ \E d \in same : f.severity = d.severity
     /\ \E d \in same : f.category = d.category

LEMMA MergedSummarises ==
  ASSUME NEW fps, NEW E, NEW candidates \in Seq(FindingsOver(fps, E)),
         NEW fp, \E c \in ToSet(candidates) : c.fingerprint = fp,
         NEW same, same = Alike(candidates, fp)
  PROVE  Merged(same) \in FindingsOver(fps, E) /\ Summarises(Merged(same), ToSet(candidates), fp)
<1> DEFINE V == FindingsOver(fps, E)
           W == FindingsOver({fp}, E)
           T == {c \in V : c.fingerprint = fp}
           g == [i \in DOMAIN candidates |-> IF candidates[i] \in T THEN <<candidates[i]>> ELSE <<>>]
           C == ToSet(candidates)
<1>1. \A i \in DOMAIN candidates : candidates[i] \in V
  OBVIOUS
<1>2. same = FlattenSeq(g)
  BY <1>1 DEF Alike, Where
<1>3. FlattenSeq(g) \in Seq(V) /\ ToSet(FlattenSeq(g)) = C \cap T
  <2>1. candidates \in Seq(V)
    OBVIOUS
  <2>2. PICK h : h = g
    OBVIOUS
  <2>3. h = [i \in DOMAIN candidates |-> IF candidates[i] \in T THEN <<candidates[i]>> ELSE <<>>]
    BY <2>2
  <2> HIDE DEF V, T, g
  <2>4. FlattenSeq(h) \in Seq(V) /\ ToSet(FlattenSeq(h)) = ToSet(candidates) \cap T
    BY <2>1, <2>3, Selection
  <2> QED BY <2>2, <2>4 DEF C
<1>4. same \in Seq(V) /\ ToSet(same) = C \cap T /\ C \subseteq V
  <2>1. C \subseteq V
    <3>1. candidates \in Seq(V)
      OBVIOUS
    <3> HIDE DEF V
    <3> QED BY <3>1, SeqFinite
  <2> HIDE DEF g, C, V, T
  <2> QED BY <1>2, <1>3, <2>1
<1>5. C \cap T = {d \in C : d.fingerprint = fp}
  BY <1>4
<1> HIDE DEF g, C, T
<1>6. same \in Seq(W) /\ DOMAIN same = 1..Len(same) /\ Len(same) \in Nat
  <2>1. /\ DOMAIN same = 1..Len(same) /\ Len(same) \in Nat
        /\ same \in [1..Len(same) -> V]
    <3>1. same \in Seq(V)
      BY <1>4
    <3> HIDE DEF V
    <3> QED BY <3>1, LenProperties
  <2>2. \A i \in 1..Len(same) : same[i] \in C \cap T
    BY <2>1, <1>4, ToSetIs
  <2>3. T \subseteq W
    BY DEF T, FindingsOver
  <2>4. \A i \in 1..Len(same) : same[i] \in W
    BY <2>2, <2>3
  <2> HIDE DEF W, V
  <2>5. same \in [1..Len(same) -> W]
    BY <2>1, <2>4
  <2> QED BY <2>1, <2>5, SegmentIsSeq
<1>7. same # <<>>
  <2>1. \E c \in C \cap T : TRUE
    BY <1>5 DEF C
  <2>2. \E i \in DOMAIN same : TRUE
    BY <2>1, <1>4, ToSetIs
  <2> QED BY <2>2
<1>8. Merged(same) \in W /\ MergesTo(Merged(same), same, Len(same))
  BY <1>6, <1>7, MergedSteps
<1>9. fp \in fps
  <2>1. PICK c \in C : c.fingerprint = fp
    BY DEF C
  <2> QED BY <2>1, <1>4 DEF FindingsOver
<1>10. Merged(same) \in V /\ Merged(same).fingerprint = fp
  BY <1>8, <1>9 DEF FindingsOver
<1>11. ToSet(same) = {same[i] : i \in 1..Len(same)}
  BY <1>6, ToSetIs
<1> DEFINE S == {d \in C : d.fingerprint = fp}
<1>12. S = {same[i] : i \in 1..Len(same)}
  BY <1>4, <1>5, <1>11
<1> HIDE DEF S
<1>13. /\ Merged(same).evidence = UNION {d.evidence : d \in S}
       /\ \A d \in S : d.severity <= Merged(same).severity
       /\ \E d \in S : Merged(same).severity = d.severity
       /\ \E d \in S : Merged(same).category = d.category
  <2>1. \A i \in 1..Len(same) : same[i] \in S
    BY <1>12
  <2>2. \A d \in S : \E i \in 1..Len(same) : d = same[i]
    BY <1>12
  <2>3. UNION {same[i].evidence : i \in 1..Len(same)} = UNION {d.evidence : d \in S}
    <3>1. \A x \in UNION {same[i].evidence : i \in 1..Len(same)} :
            x \in UNION {d.evidence : d \in S}
      BY <2>1
    <3>2. \A x \in UNION {d.evidence : d \in S} :
            x \in UNION {same[i].evidence : i \in 1..Len(same)}
      <4> SUFFICES ASSUME NEW d \in S, NEW x \in d.evidence
                   PROVE  \E i \in 1..Len(same) : x \in same[i].evidence
        OBVIOUS
      <4>1. PICK i \in 1..Len(same) : d = same[i]
        BY <2>2
      <4> QED BY <4>1
    <3> QED BY <3>1, <3>2
  <2>4. PICK m : m = Merged(same)
    OBVIOUS
  <2>5. MergesTo(m, same, Len(same))
    BY <1>8, <2>4
  <2>6. /\ m.evidence = UNION {same[i].evidence : i \in 1..Len(same)}
        /\ \A i \in 1..Len(same) : same[i].severity <= m.severity
        /\ \E i \in 1..Len(same) : m.severity = same[i].severity
        /\ \E i \in 1..Len(same) : m.category = same[i].category
    BY <2>5 DEF MergesTo
  <2>7. \A d \in S : d.severity <= m.severity
    BY <2>2, <2>6
  <2>8. \E d \in S : m.severity = d.severity
    BY <2>1, <2>6
  <2>9. \E d \in S : m.category = d.category
    BY <2>1, <2>6
  <2> QED BY <2>3, <2>4, <2>6, <2>7, <2>8, <2>9
<1> QED BY <1>10, <1>13 DEF Summarises, S, C

LEMMA MergesByFingerprint ==
  ASSUME NEW fps, NEW E, NEW candidates \in Seq(FindingsOver(fps, E)),
         NEW M, M = MergeByFingerprint(candidates)
  PROVE  /\ IsFiniteSet(M) /\ M \subseteq FindingsOver(fps, E)
         /\ \A c \in ToSet(candidates) : \E f \in M : Summarises(f, ToSet(candidates), c.fingerprint)
         /\ \A f \in M : \E c \in ToSet(candidates) :
              Summarises(f, ToSet(candidates), c.fingerprint)
         /\ \A f, h \in M : f.fingerprint = h.fingerprint => f = h
<1> DEFINE C == ToSet(candidates)
           F == {c.fingerprint : c \in C}
           For(fp) == Merged(Alike(candidates, fp))
<1>1. C = {candidates[i] : i \in DOMAIN candidates}
  BY ToSetIs
<1>2. F = {candidates[i].fingerprint : i \in DOMAIN candidates}
  BY <1>1
<1>3. M = {For(fp) : fp \in F}
  BY <1>2 DEF MergeByFingerprint
<1>4. ASSUME NEW fp \in F
      PROVE  For(fp) \in FindingsOver(fps, E) /\ Summarises(For(fp), C, fp)
  <2>1. \E c \in ToSet(candidates) : c.fingerprint = fp
    OBVIOUS
  <2>2. PICK same : same = Alike(candidates, fp)
    OBVIOUS
  <2>3. For(fp) = Merged(same)
    BY <2>2
  <2>4. Merged(same) \in FindingsOver(fps, E) /\ Summarises(Merged(same), ToSet(candidates), fp)
    BY <2>1, <2>2, MergedSummarises
  <2> HIDE DEF For
  <2> QED BY <2>3, <2>4
<1> HIDE DEF For
<1>5. IsFiniteSet(F)
  <2> DEFINE f == [c \in C |-> c.fingerprint]
  <2>1. IsFiniteSet(C)
    BY SeqFinite
  <2>2. F = {f[c] : c \in C}
    OBVIOUS
  <2>3. DOMAIN f = C
    OBVIOUS
  <2> HIDE DEF C, f, F
  <2> QED BY <2>1, <2>2, <2>3, ImageFinite
<1>6. IsFiniteSet(M)
  <2> DEFINE f == [fp \in F |-> For(fp)]
  <2>1. M = {f[fp] : fp \in F}
    BY <1>3
  <2>2. DOMAIN f = F
    OBVIOUS
  <2> HIDE DEF f, F
  <2> QED BY <2>1, <2>2, <1>5, ImageFinite
<1>7. \A fp \in F : For(fp).fingerprint = fp
  BY <1>4 DEF Summarises
<1>8. \A f, h \in M : f.fingerprint = h.fingerprint => f = h
  <2> HIDE DEF F
  <2> QED BY <1>3, <1>7
<1> QED BY <1>3, <1>4, <1>6, <1>8, SMTT(30)

\* sort: the worst come first, and the engine reports what was merged.
LEMMA Sorted ==
  ASSUME NEW fps, NEW E, NEW M, IsFiniteSet(M), M \subseteq FindingsOver(fps, E),
         \A f, h \in M : f.fingerprint = h.fingerprint => f = h,
         NEW s, s = SortedBySeverity(M)
  PROVE  /\ s \in Seq(FindingsOver(fps, E)) /\ ToSet(s) = M
         /\ \A i, j \in DOMAIN s : i < j =>
              s[i].severity >= s[j].severity /\ s[i].fingerprint # s[j].fingerprint
<1> DEFINE bucket(k) == {finding \in M : finding.severity = Critical + 1 - k}
           sets == [k \in 1..5 |-> bucket(k)]
<1>1. Cardinality(Severities) = 5
  <2>1. 0 \in Int /\ 4 \in Int
    OBVIOUS
  <2>2. Cardinality(0..4) = IF 0 > 4 THEN 0 ELSE 4 - 0 + 1
    BY <2>1, FS_Interval
  <2>3. Cardinality(0..4) = 5
    BY <2>2
  <2> QED BY <2>3 DEF Severities, Info, Critical
<1>2. s = InTurn(sets)
  BY <1>1 DEF SortedBySeverity
<1>3. \A k \in 1..5 : sets[k] = bucket(k) /\ sets[k] \in SUBSET M
  OBVIOUS
<1>4. \A k \in 1..5 : IsFiniteSet(sets[k])
  <2> HIDE DEF sets
  <2> QED BY <1>3, FS_Subset
<1>5. \A x \in M : x.severity \in 0..4
  BY DEF FindingsOver, Severities, Info, Critical
<1>6. sets \in [1..5 -> SUBSET M]
  OBVIOUS
<1>7. \A x \in M : \E k \in 1..5 : x \in sets[k]
  <2> SUFFICES ASSUME NEW x \in M PROVE \E k \in 1..5 : x \in sets[k]
    OBVIOUS
  <2>1. 5 - x.severity \in 1..5 /\ x.severity = Critical + 1 - (5 - x.severity)
    BY <1>5 DEF Critical
  <2>2. x \in sets[5 - x.severity]
    BY <2>1
  <2> QED BY <2>1, <2>2
<1> HIDE DEF sets
<1>8. /\ s \in Seq(M) /\ ToSet(s) = M
      /\ \A p, q \in DOMAIN s : p < q =>
           \E i, j \in 1..5 : /\ s[p] \in sets[i] /\ s[q] \in sets[j]
                              /\ i < j \/ (i = j /\ s[p] # s[q])
  <2>1. 5 \in Nat /\ DOMAIN sets = 1..5
    BY <1>6
  <2>2. s \in Seq(M) /\ Arranges(s, sets)
    BY <2>1, <1>2, <1>4, <1>6, InTurnArranges
  <2>3. ToSet(s) = M
    BY <2>1, <2>2, <1>3, <1>7, ZenonT(30) DEF Arranges
  <2> QED BY <2>1, <2>2, <2>3 DEF Arranges
<1>9. ASSUME NEW p \in DOMAIN s, NEW q \in DOMAIN s, p < q
      PROVE  s[p].severity >= s[q].severity /\ s[p].fingerprint # s[q].fingerprint
  <2>1. PICK i \in 1..5, j \in 1..5 : /\ s[p] \in sets[i] /\ s[q] \in sets[j]
                                      /\ i < j \/ (i = j /\ s[p] # s[q])
    BY <1>8, <1>9
  <2>2. /\ s[p] \in M /\ s[p].severity = 5 - i
        /\ s[q] \in M /\ s[q].severity = 5 - j
    BY <2>1, <1>3 DEF Critical
  <2>3. s[p].severity >= s[q].severity
    BY <2>1, <2>2
  <2>4. s[p] # s[q]
    <3>1. i < j => s[p].severity # s[q].severity
      BY <2>2
    <3> QED BY <3>1, <2>1
  <2> QED BY <2>2, <2>3, <2>4
<1>10. s \in Seq(FindingsOver(fps, E))
  <2> HIDE DEF bucket
  <2> QED BY <1>8
<1> QED BY <1>8, <1>9, <1>10
-----------------------------------------------------------------------------
\* DetectionEngine::analyze.  A finding is sound if its category is that of its
\* rule, its severity is not that of an information, and its key is the one its
\* rule gives: the rule of an exposure is told by the port, updates have no key.

PortRule(port) ==
  IF PortClass(port) = "cleartext" THEN "exposure.cleartext.protocol"
                                   ELSE "exposure.service.public"

Keyed(fp) ==
  /\ fp[1] \in {"exposure.cleartext.protocol", "exposure.service.public"}
       => fp = <<PortRule(fp[2][2]), fp[2]>>
  /\ CatalogOf(fp[1]).category = "exposure"
       => fp[1] \in {"exposure.cleartext.protocol", "exposure.service.public"}
  /\ fp[1] = "hygiene.updates.pending" => fp = <<"hygiene.updates.pending", "">>
  /\ fp[1] = "hygiene.firewall.disabled" => fp = <<"hygiene.firewall.disabled", fp[2]>>

Sound(f) ==
  /\ f = [fingerprint |-> f.fingerprint, category |-> f.category, severity |-> f.severity,
          evidence |-> f.evidence]
  /\ Keyed(f.fingerprint)
  /\ f.category = CatalogOf(f.fingerprint[1]).category
  /\ f.category \in Categories
  /\ f.severity \in Low..Critical

SoundSet(S) == IsFiniteSet(S) /\ \A f \in S : Sound(f)
SoundList(l) == l \in Seq(ToSet(l)) /\ \A f \in ToSet(l) : Sound(f)

LEMMA CategoryOf ==
  /\ \A rule \in {"intrusion.auth.bruteforce", "intrusion.auth.success_after_burst",
                  "intrusion.auth.spray", "intrusion.auth.distributed", "intrusion.network.fanin",
                  "intrusion.egress.anomaly"} : CatalogOf(rule).category = "intrusion"
  /\ \A rule \in {"exposure.service.public", "exposure.cleartext.protocol"} :
       CatalogOf(rule).category = "exposure"
  /\ \A rule \in {"integrity.file.changed", "integrity.file.permissions"} :
       CatalogOf(rule).category = "integrity"
  /\ \A rule \in {"hygiene.firewall.disabled", "hygiene.updates.pending", "hygiene.clock.skew"} :
       CatalogOf(rule).category = "hygiene"
  /\ \A rule \in {"resource.cpu.saturation", "resource.memory.pressure",
                  "resource.disk.capacity", "resource.disk.runway"} :
       CatalogOf(rule).category = "resource"
BY DEF CatalogOf, Published

LEMMA FindingFields ==
  ASSUME NEW rule, NEW key, NEW category, NEW severity, NEW evidence,
         NEW f, f = Finding(rule, key, category, severity, evidence)
  PROVE  /\ f = [fingerprint |-> f.fingerprint, category |-> f.category,
                 severity |-> f.severity, evidence |-> f.evidence]
         /\ f.fingerprint = <<rule, key>> /\ f.category = category /\ f.severity = severity
         /\ f.fingerprint[1] = rule /\ f.fingerprint[2] = key
BY DEF Finding

LEMMA Severe == {Low, Medium, High, Critical} \subseteq Low..Critical
BY DEF Low, Medium, High, Critical

LEMMA FindingSound ==
  ASSUME NEW rule, NEW key, NEW category, NEW severity, NEW evidence,
         NEW f, f = Finding(rule, key, category, severity, evidence),
         CatalogOf(rule).category = category, category \in Categories \ {"exposure"},
         rule = "hygiene.updates.pending" => key = "",
         severity \in {Low, Medium, High, Critical}
  PROVE  Sound(f)
<1>1. /\ f = [fingerprint |-> f.fingerprint, category |-> f.category,
              severity |-> f.severity, evidence |-> f.evidence]
      /\ f.fingerprint = <<rule, key>> /\ f.category = category /\ f.severity = severity
      /\ f.fingerprint[1] = rule /\ f.fingerprint[2] = key
  BY DEF Finding
<1>2. rule \notin {"exposure.cleartext.protocol", "exposure.service.public"}
  BY CategoryOf
<1>3. Keyed(f.fingerprint)
  BY <1>1, <1>2 DEF Keyed
<1>4. severity \in Low..Critical
  BY Severe
<1> QED BY <1>1, <1>3, <1>4 DEF Sound

LEMMA ExposureSound ==
  ASSUME NEW policy, NEW whose, NEW socket, socket.scope \in Scopes, Reported(policy, whose, socket),
         NEW f, f = ExposureFinding(policy, whose, socket)
  PROVE  /\ Sound(f)
         /\ f.fingerprint = <<PortRule(socket.port), <<socket.protocol, socket.port>>>>
         /\ f.severity = ExposureSeverity(PortClass(socket.port), socket.scope, whose)
<1> DEFINE key == <<socket.protocol, socket.port>>
           rule == PortRule(socket.port)
           severity == ExposureSeverity(PortClass(socket.port), socket.scope, whose)
<1>1. f = Finding(rule, key, "exposure", severity, socket)
  BY DEF ExposureFinding, PortRule
<1>2. severity \in 0..4 /\ severity # 0
  <2>1. severity # 0
    BY DEF Reported, Info
  <2>2. \A class : Intrinsic(class) \in {1, 2, 3, 4} \/ class \notin {"database", "infrastructure",
          "remote-admin", "cleartext", "file-share", "mail", "web", "other"}
    BY DEF Intrinsic, Low, Medium, High, Critical
  <2>3. PortClass(socket.port) \in {"database", "infrastructure", "remote-admin", "cleartext",
          "file-share", "mail", "web", "other"}
    BY DEF PortClass
  <2>4. PICK base : base = Intrinsic(PortClass(socket.port))
    OBVIOUS
  <2>5. base \in {1, 2, 3, 4}
    BY <2>2, <2>3, <2>4
  <2>6. Downgrade(base) \in 0..4
    BY <2>5 DEF Downgrade, Info
  <2>7. severity \in {0, 4, base, Downgrade(base)}
    BY <2>4 DEF ExposureSeverity, Scopes, Info, Critical
  <2> QED BY <2>1, <2>5, <2>6, <2>7
<1>3. severity \in Low..Critical
  BY <1>2 DEF Low, Critical
<1>4. rule \in {"exposure.cleartext.protocol", "exposure.service.public"}
  BY DEF PortRule
<1>5. key[2] = socket.port
  OBVIOUS
<1> HIDE DEF key, severity
<1>6. /\ f = [fingerprint |-> f.fingerprint, category |-> f.category,
              severity |-> f.severity, evidence |-> f.evidence]
      /\ f.fingerprint = <<rule, key>> /\ f.category = "exposure" /\ f.severity = severity
      /\ f.fingerprint[1] = rule /\ f.fingerprint[2] = key
  BY <1>1, FindingFields
<1>7. Keyed(f.fingerprint)
  <2>1. f.fingerprint = <<PortRule(f.fingerprint[2][2]), f.fingerprint[2]>>
    BY <1>5, <1>6
  <2>2. rule # "hygiene.updates.pending" /\ rule # "hygiene.firewall.disabled"
    BY <1>4
  <2> HIDE DEF rule
  <2> QED BY <1>4, <1>6, <2>1, <2>2 DEF Keyed
<1>8. CatalogOf(rule).category = "exposure"
  BY <1>4, CategoryOf
<1>9. Sound(f)
  <2> HIDE DEF rule
  <2> QED BY <1>3, <1>6, <1>7, <1>8 DEF Sound, Categories
<1> QED BY <1>6, <1>9 DEF key, severity
LEMMA WhenSound == ASSUME NEW c, NEW f, c => Sound(f) PROVE SoundSet(When(c, f))
<1>1. CASE c
  <2>1. When(c, f) = {f}
    BY <1>1 DEF When
  <2> QED BY <1>1, <2>1, FS_Singleton DEF SoundSet
<1>2. CASE ~c
  <2>1. When(c, f) = {}
    BY <1>2 DEF When
  <2> QED BY <2>1, FS_EmptySet DEF SoundSet
<1> QED BY <1>1, <1>2

LEMMA UnionSound ==
  ASSUME NEW A, NEW B, SoundSet(A), SoundSet(B)
  PROVE  SoundSet(A \cup B)
BY FS_Union DEF SoundSet

LEMMA EachSound ==
  ASSUME NEW S, IsFiniteSet(S), NEW g, DOMAIN g = S, \A x \in S : SoundSet(g[x]),
         NEW A, \A f : f \in A <=> \E x \in S : f \in g[x]
  PROVE  SoundSet(A)
<1>0. A = UNION {g[x] : x \in S}
  OBVIOUS
<1>1. IsFiniteSet({g[x] : x \in S})
  BY ImageFinite
<1>2. \A T \in {g[x] : x \in S} : IsFiniteSet(T)
  BY DEF SoundSet
<1>3. IsFiniteSet(UNION {g[x] : x \in S})
  BY <1>1, <1>2, FS_UNION
<1>4. ASSUME NEW f \in A PROVE Sound(f)
  <2>1. PICK x \in S : f \in g[x]
    OBVIOUS
  <2> QED BY <2>1 DEF SoundSet
<1> QED BY <1>0, <1>3, <1>4 DEF SoundSet

LEMMA ListSound == ASSUME NEW S, SoundSet(S) PROVE SoundList(AsSeq(S)) /\ ToSet(AsSeq(S)) = S
<1>1. AsSeq(S) \in Seq(S) /\ ToSet(AsSeq(S)) = S
  BY AsSeqLists DEF SoundSet
<1> QED BY <1>1 DEF SoundSet, SoundList

LEMMA JoinSound ==
  ASSUME NEW l, NEW m, SoundList(l), SoundList(m)
  PROVE  SoundList(l \o m) /\ ToSet(l \o m) = ToSet(l) \cup ToSet(m)
<1> DEFINE U == ToSet(l) \cup ToSet(m)
<1>1. l \in Seq(U) /\ m \in Seq(U)
  BY DEF SoundList
<1>2. \A f \in U : Sound(f)
  BY DEF SoundList
<1>3. PICK r : r = l \o m
  OBVIOUS
<1>4. r \in Seq(U) /\ ToSet(r) = U
  <2> HIDE DEF U
  <2>1. l \o m \in Seq(U) /\ ToSet(l \o m) = ToSet(l) \cup ToSet(m)
    BY <1>1, ToSetConcat
  <2> QED BY <2>1, <1>3 DEF U
<1> HIDE DEF U
<1>5. SoundList(r)
  BY <1>2, <1>4 DEF SoundList
<1> QED BY <1>3, <1>4, <1>5 DEF U

LEMMA FlatLists ==
  ASSUME NEW s, NEW n \in Nat, DOMAIN s = 1..n, s = [i \in 1..n |-> s[i]],
         \A i \in 1..n : s[i] \in Seq(ToSet(s[i]))
  PROVE  /\ FlattenSeq(s) \in Seq(ToSet(FlattenSeq(s)))
         /\ \A f : f \in ToSet(FlattenSeq(s)) <=> \E i \in 1..n : f \in ToSet(s[i])
<1> DEFINE U == UNION {ToSet(s[i]) : i \in 1..n}
<1>1. \A i \in 1..n : s[i] \in Seq(U)
  <2> SUFFICES ASSUME NEW i \in 1..n PROVE s[i] \in Seq(U)
    OBVIOUS
  <2>1. s[i] \in Seq(ToSet(s[i]))
    OBVIOUS
  <2>2. ToSet(s[i]) \subseteq U
    OBVIOUS
  <2> HIDE DEF U
  <2> QED BY <2>1, <2>2
<1>3. \A f : f \in U <=> \E i \in 1..n : f \in ToSet(s[i])
  OBVIOUS
<1> HIDE DEF U
<1>4. s \in [1..n -> Seq(U)]
  BY <1>1
<1>5. s \in Seq(Seq(U))
  BY <1>4, SegmentIsSeq
<1>6. PICK r : r = FlattenSeq(s)
  OBVIOUS
<1>7. r \in Seq(U) /\ ToSet(r) = ValuesIn(s)
  BY <1>5, <1>6, FlattenValues
<1>8. \A f : f \in ToSet(r) <=> f \in U
  BY <1>3, <1>7 DEF ValuesIn
<1>9. ToSet(r) = U
  BY <1>8
<1> QED BY <1>3, <1>6, <1>7, <1>8, <1>9

LEMMA FlatSound ==
  ASSUME NEW s, NEW n \in Nat, DOMAIN s = 1..n, s = [i \in 1..n |-> s[i]],
         \A i \in 1..n : SoundList(s[i])
  PROVE  /\ SoundList(FlattenSeq(s))
         /\ \A f : f \in ToSet(FlattenSeq(s)) <=> \E i \in 1..n : f \in ToSet(s[i])
<1>1. \A i \in 1..n : s[i] \in Seq(ToSet(s[i])) /\ \A f \in ToSet(s[i]) : Sound(f)
  BY DEF SoundList
<1>2. /\ FlattenSeq(s) \in Seq(ToSet(FlattenSeq(s)))
      /\ \A f : f \in ToSet(FlattenSeq(s)) <=> \E i \in 1..n : f \in ToSet(s[i])
  BY <1>1, FlatLists
<1> QED BY <1>1, <1>2 DEF SoundList

\* The lists that the snapshots of an input give rise to, one after the other.
LEMMA SetsFlatSound ==
  ASSUME NEW S, IsFiniteSet(S), \A l \in S : SoundList(l)
  PROVE  /\ SoundList(FlattenSeq(AsSeq(S)))
         /\ \A f : f \in ToSet(FlattenSeq(AsSeq(S))) <=> \E l \in S : f \in ToSet(l)
<1> DEFINE s == AsSeq(S)
           n == Len(s)
<1>1. s \in Seq(S) /\ ToSet(s) = S
  BY AsSeqLists
<1> HIDE DEF s
<1>2. n \in Nat /\ DOMAIN s = 1..n /\ s \in [1..n -> S]
  BY <1>1, LenProperties
<1>3. \A l : l \in S <=> \E i \in 1..n : l = s[i]
  BY <1>1, <1>2, ToSetIs
<1> HIDE DEF n
<1>4. s = [i \in 1..n |-> s[i]] /\ \A i \in 1..n : SoundList(s[i])
  BY <1>2
<1>5. /\ SoundList(FlattenSeq(s))
      /\ \A f : f \in ToSet(FlattenSeq(s)) <=> \E i \in 1..n : f \in ToSet(s[i])
  BY <1>2, <1>4, FlatSound
<1>6. \A f : (\E i \in 1..n : f \in ToSet(s[i])) <=> \E l \in S : f \in ToSet(l)
  BY <1>3
<1> QED BY <1>5, <1>6 DEF s
\* What every rule reports is sound.
Levels == {Low, Medium, High, Critical}

LEMMA RulesSound ==
  /\ \A rule \in {"intrusion.auth.bruteforce", "intrusion.auth.success_after_burst",
                  "intrusion.auth.spray", "intrusion.auth.distributed", "intrusion.network.fanin",
                  "intrusion.egress.anomaly"} :
       \A key, evidence : \A severity \in Levels :
         Sound(Finding(rule, key, "intrusion", severity, evidence))
  /\ \A rule \in {"integrity.file.changed", "integrity.file.permissions"} :
       \A key, evidence : \A severity \in Levels :
         Sound(Finding(rule, key, "integrity", severity, evidence))
  /\ \A rule \in {"hygiene.firewall.disabled", "hygiene.clock.skew"} :
       \A key, evidence : \A severity \in Levels :
         Sound(Finding(rule, key, "hygiene", severity, evidence))
  /\ \A evidence : \A severity \in Levels :
       Sound(Finding("hygiene.updates.pending", "", "hygiene", severity, evidence))
  /\ \A rule \in {"resource.cpu.saturation", "resource.memory.pressure",
                  "resource.disk.capacity", "resource.disk.runway"} :
       \A key, evidence : \A severity \in Levels :
         Sound(Finding(rule, key, "resource", severity, evidence))
<1>1. {"intrusion", "integrity", "hygiene", "resource"} \subseteq Categories \ {"exposure"}
  BY DEF Categories
<1>2. ASSUME NEW rule \in {"intrusion.auth.bruteforce", "intrusion.auth.success_after_burst",
                  "intrusion.auth.spray", "intrusion.auth.distributed", "intrusion.network.fanin",
                  "intrusion.egress.anomaly"},
             NEW key, NEW evidence, NEW severity \in Levels
      PROVE  Sound(Finding(rule, key, "intrusion", severity, evidence))
  <2>1. CatalogOf(rule).category = "intrusion" /\ rule # "hygiene.updates.pending"
    BY CategoryOf
  <2> QED BY <1>1, <2>1, FindingSound DEF Levels
<1>3. ASSUME NEW rule \in {"integrity.file.changed", "integrity.file.permissions"},
             NEW key, NEW evidence, NEW severity \in Levels
      PROVE  Sound(Finding(rule, key, "integrity", severity, evidence))
  <2>1. CatalogOf(rule).category = "integrity" /\ rule # "hygiene.updates.pending"
    BY CategoryOf
  <2> QED BY <1>1, <2>1, FindingSound DEF Levels
<1>4. ASSUME NEW rule \in {"hygiene.firewall.disabled", "hygiene.clock.skew"},
             NEW key, NEW evidence, NEW severity \in Levels
      PROVE  Sound(Finding(rule, key, "hygiene", severity, evidence))
  <2>1. CatalogOf(rule).category = "hygiene" /\ rule # "hygiene.updates.pending"
    BY CategoryOf
  <2> QED BY <1>1, <2>1, FindingSound DEF Levels
<1>5. ASSUME NEW evidence, NEW severity \in Levels
      PROVE  Sound(Finding("hygiene.updates.pending", "", "hygiene", severity, evidence))
  <2>1. CatalogOf("hygiene.updates.pending").category = "hygiene"
    BY CategoryOf
  <2> QED BY <1>1, <2>1, FindingSound DEF Levels
<1>6. ASSUME NEW rule \in {"resource.cpu.saturation", "resource.memory.pressure",
                  "resource.disk.capacity", "resource.disk.runway"},
             NEW key, NEW evidence, NEW severity \in Levels
      PROVE  Sound(Finding(rule, key, "resource", severity, evidence))
  <2>1. CatalogOf(rule).category = "resource" /\ rule # "hygiene.updates.pending"
    BY CategoryOf
  <2> QED BY <1>1, <2>1, FindingSound DEF Levels
<1> QED BY <1>2, <1>3, <1>4, <1>5, <1>6

LEMMA EitherLevel ==
  ASSUME NEW c, NEW a \in Levels, NEW b \in Levels
  PROVE  (IF c THEN a ELSE b) \in Levels
OBVIOUS

LEMMA SampleRulesSound ==
  ASSUME NEW policy, NEW sample, NEW history, NEW received
  PROVE  /\ SoundSet(Egress(policy, sample, history))
         /\ SoundSet(Clock(policy, sample, received))
         /\ SoundSet(Resource(policy, sample, history))
<1> USE RulesSound, WhenSound, EitherLevel
<1>0. High \in Levels /\ Medium \in Levels /\ Critical \in Levels
  BY DEF Levels
<1>1. SoundSet(Disk(policy, sample))
  BY <1>0 DEF Disk
<1>2. SoundSet(Memory(policy, sample))
  BY <1>0 DEF Memory
<1>3. SoundSet(Cpu(policy, sample, history))
  BY <1>0 DEF Cpu
<1>4. SoundSet(Clock(policy, sample, received))
  BY <1>0 DEF Clock
<1>5. SoundSet({})
  BY FS_EmptySet DEF SoundSet
<1>6. SoundSet(Runway(policy, sample, history))
  BY <1>0, <1>5 DEF Runway
<1>7. SoundSet(Egress(policy, sample, history))
  <2>1. PICK S : S = EgressRate(history[Len(history)], sample)
    OBVIOUS
  <2>2. IsFiniteSet(S)
    BY <2>1, FS_EmptySet, FS_Singleton DEF EgressRate
  <2> DEFINE rates == FlattenSeq([i \in 1..(Len(history) - 1) |->
                                    AsSeq(EgressRate(history[i], history[i + 1]))])
             Above(rate, k) == /\ rate >= k * (policy.egress_floor * RateScale)
                               /\ rate * Len(rates) >= k * policy.egress_multiplier * Total(rates)
             Level(rate) == IF Above(rate, 3) THEN High ELSE Medium
             Anomaly(rate) == When(Above(rate, 1),
                                   Finding("intrusion.egress.anomaly", "", "intrusion",
                                           Level(rate), rate))
             g == [rate \in S |-> Anomaly(rate)]
             none == Len(history) < 3 \/ rates = <<>>
  <2>3. PICK A : A = UNION {Anomaly(rate) : rate \in S}
    OBVIOUS
  <2>a. Egress(policy, sample, history) = IF none THEN {} ELSE A
    BY <2>1, <2>3 DEF Egress
  <2>4. \A rate \in S : SoundSet(Anomaly(rate))
    <3> SUFFICES ASSUME NEW rate \in S PROVE SoundSet(Anomaly(rate))
      OBVIOUS
    <3>1. Level(rate) \in Levels
      BY <1>0
    <3> HIDE DEF Above, Level
    <3> QED BY <3>1
  <2>5. DOMAIN g = S /\ \A rate \in S : g[rate] = Anomaly(rate)
    OBVIOUS
  <2>6. \A f : f \in A <=> \E rate \in S : f \in Anomaly(rate)
    <3> HIDE DEF Anomaly
    <3> QED BY <2>3
  <2>7. PICK h : h = g
    OBVIOUS
  <2>8. DOMAIN h = S /\ \A rate \in S : h[rate] = Anomaly(rate)
    BY <2>5, <2>7
  <2> HIDE DEF Anomaly, none, g
  <2>9. \A rate \in S : SoundSet(h[rate])
    BY <2>4, <2>8
  <2>10. \A f : f \in A <=> \E rate \in S : f \in h[rate]
    BY <2>6, <2>8
  <2>11. SoundSet(A)
    BY <2>2, <2>8, <2>9, <2>10, EachSound
  <2> QED BY <1>5, <2>a, <2>11
<1> QED BY <1>1, <1>2, <1>3, <1>4, <1>6, <1>7, UnionSound DEF Resource
\* A snapshot as the agent's collectors and the server's decoder make it.
IsSnapshot(s) ==
  /\ s.listeners \in Seq(ToSet(s.listeners))
  /\ \A socket \in ToSet(s.listeners) :
       socket \in [protocol : Protocols, address : AddressKinds, port : Nat, scope : Scopes]
  /\ s.auth_events \in Seq(ToSet(s.auth_events))
  /\ s.watched_files \in Seq(ToSet(s.watched_files))
  /\ IsFiniteSet(s.firewall) /\ IsFiniteSet(s.updates)

LEMMA ExposureListSound ==
  ASSUME NEW policy, NEW r, NEW snapshot, IsSnapshot(snapshot)
  PROVE  /\ SoundList(Exposure(policy, r, snapshot))
         /\ \A socket \in ToSet(snapshot.listeners) :
              socket.scope # "loopback" /\ Reported(policy, r, socket)
                => ExposureFinding(policy, r, socket) \in ToSet(Exposure(policy, r, snapshot))
<1> DEFINE U == ToSet(snapshot.listeners)
           A == {socket \in U : socket.scope # "loopback"}
           B == {socket \in U : Reported(policy, r, socket)}
<1>1. snapshot.listeners \in Seq(U) /\ \A i \in DOMAIN snapshot.listeners : snapshot.listeners[i] \in U
  BY ToSetIs DEF IsSnapshot
<1>2. PICK e : e = ExposedListeners(snapshot)
  OBVIOUS
<1>3. PICK all : all = snapshot.listeners
  OBVIOUS
<1>4. e = FlattenSeq([i \in DOMAIN all |-> IF all[i] \in A THEN <<all[i]>> ELSE <<>>])
  BY <1>1, <1>2, <1>3 DEF ExposedListeners, Where
<1>5. all \in Seq(ToSet(all)) /\ ToSet(all) = U
  BY <1>1, <1>3
<1>6. PICK reported : reported = Where(e, LAMBDA socket : Reported(policy, r, socket))
  OBVIOUS
<1>7. ToSet(e) = U \cap A /\ e \in Seq(ToSet(e)) /\ DOMAIN e = 1..Len(e)
  <2> HIDE DEF U, A
  <2> QED BY <1>4, <1>5, Selected
<1>a. \A i \in DOMAIN e : e[i] \in U
  BY <1>7, ToSetIs
<1>b. reported = FlattenSeq([i \in DOMAIN e |-> IF e[i] \in B THEN <<e[i]>> ELSE <<>>])
  BY <1>a, <1>6 DEF Where
<1>8. /\ reported \in Seq(ToSet(reported)) /\ ToSet(reported) = ToSet(e) \cap B
      /\ DOMAIN reported = 1..Len(reported) /\ Len(reported) \in Nat
  <2>1. e \in Seq(ToSet(e))
    BY <1>7
  <2> HIDE DEF U, A, B
  <2> QED BY <2>1, <1>b, Selected
<1>9. Exposure(policy, r, snapshot) = [i \in DOMAIN reported |-> ExposureFinding(policy, r, reported[i])]
  BY <1>2, <1>6 DEF Exposure
<1>10. \A socket : socket \in ToSet(reported)
                     <=> /\ socket \in U /\ socket.scope # "loopback"
                         /\ Reported(policy, r, socket)
  BY <1>7, <1>8
<1>11. DOMAIN reported = 1..Len(reported) /\ Len(reported) \in Nat
  BY <1>8
<1> HIDE DEF A, B
<1>12. \A socket \in ToSet(reported) : Sound(ExposureFinding(policy, r, socket))
  <2> SUFFICES ASSUME NEW socket \in ToSet(reported)
               PROVE  Sound(ExposureFinding(policy, r, socket))
    OBVIOUS
  <2>1. socket.scope \in Scopes /\ Reported(policy, r, socket)
    BY <1>10 DEF IsSnapshot
  <2> QED BY <2>1, ExposureSound
<1>13. PICK l : l = Exposure(policy, r, snapshot)
  OBVIOUS
<1>14. /\ DOMAIN l = 1..Len(reported)
       /\ l = [i \in 1..Len(reported) |-> l[i]]
       /\ \A i \in 1..Len(reported) : l[i] = ExposureFinding(policy, r, reported[i])
  BY <1>9, <1>11, <1>13
<1>15. \A socket : socket \in ToSet(reported) <=> \E i \in 1..Len(reported) : socket = reported[i]
  BY <1>11, ToSetIs
<1>16. \A i \in 1..Len(reported) : l[i] \in ToSet(l)
  BY <1>14, ToSetIs
<1>17. l \in Seq(ToSet(l))
  <2>1. l \in [1..Len(reported) -> ToSet(l)]
    BY <1>14, <1>16
  <2> QED BY <2>1, <1>11, SegmentIsSeq
<1>18. \A f \in ToSet(l) : Sound(f)
  <2> SUFFICES ASSUME NEW f \in ToSet(l) PROVE Sound(f)
    OBVIOUS
  <2>1. PICK i \in 1..Len(reported) : f = l[i]
    BY <1>14, ToSetIs
  <2> QED BY <2>1, <1>12, <1>14, <1>15
<1>19. ASSUME NEW socket \in U, socket.scope # "loopback", Reported(policy, r, socket)
       PROVE  ExposureFinding(policy, r, socket) \in ToSet(l)
  <2>1. PICK i \in 1..Len(reported) : socket = reported[i]
    BY <1>10, <1>15, <1>19
  <2> QED BY <2>1, <1>14, <1>16
<1> QED BY <1>13, <1>17, <1>18, <1>19 DEF SoundList
LEMMA AuthenticationSound ==
  ASSUME NEW policy, NEW snapshot, IsSnapshot(snapshot)
  PROVE  /\ SoundSet(Authentication(policy, snapshot))
         /\ SoundSet(FanIn(policy, snapshot))
         /\ \A source \in Sources(snapshot) :
              /\ Attempts(snapshot, source, "failure") > 0
              /\ Attempts(snapshot, source, "failure") >= policy.failures_per_source_high
              => \E f \in Authentication(policy, snapshot) :
                   /\ f.fingerprint = <<"intrusion.auth.bruteforce", source>>
                   /\ f.severity >= High
<1>0. High \in Levels /\ Medium \in Levels /\ Critical \in Levels
  BY DEF Levels
<1> DEFINE Each(s) == BruteForce(policy, snapshot, s) \cup Spray(policy, snapshot, s)
                        \cup SuccessAfterBurst(policy, snapshot, s)
<1>1. PICK pressured : pressured = {s \in Sources(snapshot) : Attempts(snapshot, s, "failure") > 0}
  OBVIOUS
<1>2. IsFiniteSet(pressured)
  <2>1. IsFiniteSet(ToSet(snapshot.auth_events))
    <3>1. snapshot.auth_events \in Seq(ToSet(snapshot.auth_events))
      BY DEF IsSnapshot
    <3> QED BY <3>1, SeqFinite
  <2>2. PICK E : E = ToSet(snapshot.auth_events)
    OBVIOUS
  <2>3. PICK g : g = [e \in E |-> e.source]
    OBVIOUS
  <2>4. IsFiniteSet({g[e] : e \in E})
    BY <2>1, <2>2, <2>3, ImageFinite
  <2>5. Sources(snapshot) = {g[e] : e \in E}
    BY <2>2, <2>3 DEF Sources
  <2> QED BY <1>1, <2>4, <2>5, FS_Subset
<1>3. \A s : SoundSet(BruteForce(policy, snapshot, s))
  BY <1>0, RulesSound, WhenSound, EitherLevel DEF BruteForce
<1>4. \A s : SoundSet(Spray(policy, snapshot, s))
  BY <1>0, RulesSound, WhenSound, EitherLevel DEF Spray
<1>5. \A s : SoundSet(SuccessAfterBurst(policy, snapshot, s))
  BY <1>0, RulesSound, WhenSound, EitherLevel DEF SuccessAfterBurst
<1>6. SoundSet(Distributed(policy, pressured))
  BY <1>0, RulesSound, WhenSound, EitherLevel DEF Distributed
<1>7. \A s : SoundSet(Each(s))
  BY <1>3, <1>4, <1>5, UnionSound
<1> DEFINE under == {s \in Sources(snapshot) : Attempts(snapshot, s, "failure") > 0}
<1> DEFINE A == UNION {Each(s) : s \in under}
<1>c. Authentication(policy, snapshot) = A \cup Distributed(policy, under)
  <2>1. \A f : f \in Authentication(policy, snapshot)
                <=> (\E s \in under : f \in Each(s)) \/ f \in Distributed(policy, under)
    BY DEF Authentication
  <2>2. \A f : f \in A <=> \E s \in under : f \in Each(s)
    OBVIOUS
  <2> HIDE DEF A, Each, under
  <2> QED BY <2>1, <2>2
<1>8. A = UNION {Each(s) : s \in pressured}
  <2> HIDE DEF Each
  <2> QED BY <1>1
<1>9. Authentication(policy, snapshot) = A \cup Distributed(policy, pressured)
  BY <1>1, <1>c
<1> HIDE DEF under, A
<1>a. \A s \in pressured : BruteForce(policy, snapshot, s) \subseteq A
  BY <1>8
<1>10. SoundSet(A)
  <2> HIDE DEF Each
  <2>1. PICK g : g = [s \in pressured |-> Each(s)]
    OBVIOUS
  <2>2. DOMAIN g = pressured /\ \A s \in pressured : g[s] = Each(s)
    BY <2>1
  <2>3. \A s \in pressured : SoundSet(g[s])
    BY <2>2, <1>7
  <2>4. \A f : f \in A <=> \E s \in pressured : f \in Each(s)
    BY <1>8
  <2>5. \A f : f \in A <=> \E s \in pressured : f \in g[s]
    BY <2>2, <2>4
  <2> QED BY <1>2, <2>2, <2>3, <2>5, EachSound
<1>11. SoundSet(FanIn(policy, snapshot))
  BY <1>0, RulesSound, WhenSound, EitherLevel DEF FanIn
<1>12. ASSUME NEW source \in Sources(snapshot),
              Attempts(snapshot, source, "failure") > 0,
              Attempts(snapshot, source, "failure") >= policy.failures_per_source_high
       PROVE  \E f \in A : /\ f.fingerprint = <<"intrusion.auth.bruteforce", source>>
                           /\ f.severity >= High
  <2>1. source \in pressured
    BY <1>1, <1>12
  <2>2. PICK severity : severity = IF Attempts(snapshot, source, "failure") >= policy.failures_per_source_critical
                                   THEN Critical ELSE High
    OBVIOUS
  <2>3. PICK f : f = Finding("intrusion.auth.bruteforce", source, "intrusion", severity, source)
    OBVIOUS
  <2>4. f \in BruteForce(policy, snapshot, source)
    BY <1>12, <2>2, <2>3 DEF BruteForce, When
  <2>5. f.fingerprint = <<"intrusion.auth.bruteforce", source>> /\ f.severity = severity
    BY <2>3 DEF Finding
  <2>6. severity >= High
    BY <2>2 DEF High, Critical
  <2> QED BY <1>a, <2>1, <2>4, <2>5, <2>6
<1> QED BY <1>6, <1>9, <1>10, <1>11, <1>12, UnionSound

LEMMA IntegritySound ==
  ASSUME NEW snapshot, IsSnapshot(snapshot), NEW digests
  PROVE  SoundList(Integrity(snapshot, digests))
<1>0. High \in Levels /\ Medium \in Levels
  BY DEF Levels
<1>1. ASSUME NEW file PROVE SoundList(FileFindings(file, digests))
  <2> DEFINE changed == When(/\ file.path \in DOMAIN digests
                             /\ digests[file.path] # file.digest,
                             Finding("integrity.file.changed", file.path, "integrity",
                                     IF file.path \in AccessCritical THEN High ELSE Medium,
                                     file.digest))
             writable == When(file.world_writable,
                              Finding("integrity.file.permissions", file.path, "integrity", High,
                                      "world writable"))
  <2>1. SoundSet(changed) /\ SoundSet(writable)
    BY <1>0, RulesSound, WhenSound, EitherLevel
  <2>2. FileFindings(file, digests) = AsSeq(changed) \o AsSeq(writable)
    BY DEF FileFindings
  <2> HIDE DEF changed, writable
  <2> QED BY <2>1, <2>2, ListSound, JoinSound
<1>2. PICK files : files = snapshot.watched_files
  OBVIOUS
<1>3. Len(files) \in Nat /\ DOMAIN files = 1..Len(files)
  <2>1. files \in Seq(ToSet(files))
    BY <1>2 DEF IsSnapshot
  <2> QED BY <2>1, LenProperties
<1>4. PICK g : g = [i \in 1..Len(files) |-> FileFindings(files[i], digests)]
  OBVIOUS
<1>5. DOMAIN g = 1..Len(files) /\ g = [i \in 1..Len(files) |-> g[i]]
        /\ \A i \in 1..Len(files) : SoundList(g[i])
  BY <1>1, <1>4
<1>6. SoundList(FlattenSeq(g))
  BY <1>3, <1>5, FlatSound
<1> QED BY <1>2, <1>3, <1>4, <1>6 DEF Integrity

LEMMA HygieneSound ==
  ASSUME NEW policy, NEW snapshot, IsSnapshot(snapshot)
  PROVE  /\ SoundSet(Hygiene(policy, snapshot))
         /\ \A n0 \in snapshot.updates : n0 > 0 =>
              \E f \in Hygiene(policy, snapshot) :
                f.fingerprint = <<"hygiene.updates.pending", "">>
         /\ \A firewall \in snapshot.firewall :
              \/ firewall.enabled /\ firewall.default_inbound_deny
              \/ \E f \in Hygiene(policy, snapshot) :
                   f.fingerprint = <<"hygiene.firewall.disabled", firewall.engine>>
<1>0. High \in Levels /\ Medium \in Levels
  BY DEF Levels
<1> DEFINE F == snapshot.firewall
           U == snapshot.updates
<1>2. IsFiniteSet(F) /\ IsFiniteSet(U)
  BY DEF IsSnapshot
<1>3. \A firewall : SoundSet(FirewallDisabled(firewall))
  BY <1>0, RulesSound, WhenSound, EitherLevel DEF FirewallDisabled
<1>4. \A n : SoundSet(UpdatesPending(policy, n))
  BY <1>0, RulesSound, WhenSound, EitherLevel DEF UpdatesPending
<1> DEFINE A == UNION {FirewallDisabled(firewall) : firewall \in F}
           B == UNION {UpdatesPending(policy, n) : n \in U}
<1>7. Hygiene(policy, snapshot) = A \cup B
  <2>1. \A f : f \in Hygiene(policy, snapshot)
                <=> \/ \E x \in F : f \in FirewallDisabled(x)
                    \/ \E x \in U : f \in UpdatesPending(policy, x)
    BY DEF Hygiene
  <2>2. \A f : f \in A <=> \E x \in F : f \in FirewallDisabled(x)
    OBVIOUS
  <2>3. \A f : f \in B <=> \E x \in U : f \in UpdatesPending(policy, x)
    OBVIOUS
  <2> HIDE DEF A, B, F, U
  <2> QED BY <2>1, <2>2, <2>3
<1>5. \A f : f \in A <=> \E x \in F : f \in FirewallDisabled(x)
  OBVIOUS
<1>9. \A f : f \in B <=> \E x \in U : f \in UpdatesPending(policy, x)
  OBVIOUS
<1> HIDE DEF F, U, A, B
<1>8. SoundSet(A)
  <2>1. PICK g : g = [x \in F |-> FirewallDisabled(x)]
    OBVIOUS
  <2>2. DOMAIN g = F /\ (\A x \in F : g[x] = FirewallDisabled(x)) /\ \A x \in F : SoundSet(g[x])
    BY <2>1, <1>3
  <2>4. \A f : f \in A <=> \E x \in F : f \in g[x]
    BY <2>2, <1>5
  <2> QED BY <1>2, <2>2, <2>4, EachSound
<1>10. SoundSet(B)
  <2>1. PICK g : g = [x \in U |-> UpdatesPending(policy, x)]
    OBVIOUS
  <2>2. DOMAIN g = U /\ (\A x \in U : g[x] = UpdatesPending(policy, x)) /\ \A x \in U : SoundSet(g[x])
    BY <2>1, <1>4
  <2>4. \A f : f \in B <=> \E x \in U : f \in g[x]
    BY <2>2, <1>9
  <2> QED BY <1>2, <2>2, <2>4, EachSound
<1>11. ASSUME NEW n \in U, n > 0
       PROVE  \E f \in B : f.fingerprint = <<"hygiene.updates.pending", "">>
  <2>1. PICK severity : severity = IF n >= policy.pending_updates_high THEN High ELSE Medium
    OBVIOUS
  <2>2. PICK f : f = Finding("hygiene.updates.pending", "", "hygiene", severity, n)
    OBVIOUS
  <2>3. f \in UpdatesPending(policy, n)
    BY <1>11, <2>1, <2>2 DEF UpdatesPending, When
  <2>4. f.fingerprint = <<"hygiene.updates.pending", "">>
    BY <2>2 DEF Finding
  <2> QED BY <1>9, <2>3, <2>4
<1>12. ASSUME NEW firewall \in F, ~(firewall.enabled /\ firewall.default_inbound_deny)
       PROVE  \E f \in A : f.fingerprint = <<"hygiene.firewall.disabled", firewall.engine>>
  <2>1. PICK severity : severity = IF firewall.enabled THEN Medium ELSE High
    OBVIOUS
  <2>2. PICK f : f = Finding("hygiene.firewall.disabled", firewall.engine, "hygiene", severity, firewall)
    OBVIOUS
  <2>3. f \in FirewallDisabled(firewall)
    BY <1>12, <2>1, <2>2 DEF FirewallDisabled, When
  <2>4. f.fingerprint = <<"hygiene.firewall.disabled", firewall.engine>>
    BY <2>2 DEF Finding
  <2> QED BY <1>5, <2>3, <2>4
<1>13. SoundSet(A \cup B)
  BY <1>8, <1>10, UnionSound
<1> QED BY <1>7, <1>11, <1>12, <1>13 DEF U, F
\* All rules together, over the snapshots of an input.
LEMMA CandidatesSound ==
  ASSUME NEW policy, NEW input, IsFiniteSet(input.security),
         \A s \in input.security : IsSnapshot(s),
         NEW candidates, candidates = Candidates(policy, input)
  PROVE  /\ SoundList(candidates)
         /\ \A s \in input.security :
              ToSet(Exposure(policy, input.role, s)) \cup Authentication(policy, s)
                \cup Hygiene(policy, s) \subseteq ToSet(candidates)
<1> DEFINE security == input.security
<1>1. PICK e : e = [s \in security |-> Exposure(policy, input.role, s)]
  OBVIOUS
<1>2. PICK i : i = [s \in security |-> Integrity(s, input.baseline)]
  OBVIOUS
<1>3. PICK a : a = [s \in security |-> Authentication(policy, s) \cup FanIn(policy, s)]
  OBVIOUS
<1>4. PICK h : h = [s \in security |-> Hygiene(policy, s)]
  OBVIOUS
<1> DEFINE E == {Exposure(policy, input.role, s) : s \in security}
           I == {Integrity(s, input.baseline) : s \in security}
           A == UNION {Authentication(policy, s) \cup FanIn(policy, s) : s \in security}
           H == UNION {Hygiene(policy, s) : s \in security}
           N == Egress(policy, input.sample, input.history)
           C == Clock(policy, input.sample, input.received_at)
           R == Resource(policy, input.sample, input.history)
<1>5. candidates = FlattenSeq(AsSeq(E)) \o AsSeq(A) \o AsSeq(N) \o FlattenSeq(AsSeq(I))
                     \o AsSeq(C \cup H) \o AsSeq(R)
  BY DEF Candidates
<1>6. E = {e[s] : s \in security} /\ I = {i[s] : s \in security}
  BY <1>1, <1>2
<1>7. /\ \A f : f \in A <=> \E s \in security : f \in a[s]
      /\ \A f : f \in H <=> \E s \in security : f \in h[s]
  BY <1>3, <1>4
<1>8. /\ DOMAIN e = security /\ DOMAIN i = security /\ DOMAIN a = security /\ DOMAIN h = security
      /\ \A s \in security :
           /\ e[s] = Exposure(policy, input.role, s)
           /\ i[s] = Integrity(s, input.baseline)
           /\ a[s] = Authentication(policy, s) \cup FanIn(policy, s)
           /\ h[s] = Hygiene(policy, s)
  BY <1>1, <1>2, <1>3, <1>4
<1>9. IsFiniteSet(security) /\ \A s \in security : IsSnapshot(s)
  OBVIOUS
<1>10. SoundSet(N) /\ SoundSet(C) /\ SoundSet(R)
  BY SampleRulesSound
<1> HIDE DEF security, E, I, A, H, N, C, R
<1>11. IsFiniteSet(E) /\ IsFiniteSet(I)
  BY <1>6, <1>8, <1>9, ImageFinite
<1>12. \A s \in security : /\ SoundList(e[s]) /\ SoundList(i[s])
                           /\ SoundSet(a[s]) /\ SoundSet(h[s])
  <2> SUFFICES ASSUME NEW s \in security
               PROVE  /\ SoundList(e[s]) /\ SoundList(i[s])
                      /\ SoundSet(a[s]) /\ SoundSet(h[s])
    OBVIOUS
  <2>1. IsSnapshot(s)
    BY <1>9
  <2>2. SoundList(Exposure(policy, input.role, s)) /\ SoundList(Integrity(s, input.baseline))
    BY <2>1, ExposureListSound, IntegritySound
  <2>3. SoundSet(Authentication(policy, s)) /\ SoundSet(FanIn(policy, s))
    BY <2>1, AuthenticationSound
  <2>4. SoundSet(Authentication(policy, s) \cup FanIn(policy, s))
    BY <2>3, UnionSound
  <2>5. SoundSet(Hygiene(policy, s))
    BY <2>1, HygieneSound
  <2> QED BY <2>2, <2>4, <2>5, <1>8
<1>13. (\A l \in E : SoundList(l)) /\ \A l \in I : SoundList(l)
  BY <1>6, <1>12
<1>14. SoundSet(A) /\ SoundSet(H)
  BY <1>7, <1>8, <1>9, <1>12, EachSound
<1> DEFINE l1 == FlattenSeq(AsSeq(E))
           l2 == AsSeq(A)
           l3 == AsSeq(N)
           l4 == FlattenSeq(AsSeq(I))
           l5 == AsSeq(C \cup H)
           l6 == AsSeq(R)
<1>15. SoundList(l1) /\ \A f : f \in ToSet(l1) <=> \E l \in E : f \in ToSet(l)
  BY <1>11, <1>13, SetsFlatSound
<1>16. SoundList(l2) /\ ToSet(l2) = A
  BY <1>14, ListSound
<1>17. SoundList(l3)
  BY <1>10, ListSound
<1>18. SoundList(l4)
  BY <1>11, <1>13, SetsFlatSound
<1>19. SoundList(l5) /\ ToSet(l5) = C \cup H
  BY <1>10, <1>14, UnionSound, ListSound
<1>20. SoundList(l6)
  BY <1>10, ListSound
<1>21. candidates = l1 \o l2 \o l3 \o l4 \o l5 \o l6
  BY <1>5
<1> HIDE DEF l1, l2, l3, l4, l5, l6
<1>22. SoundList(l1 \o l2) /\ ToSet(l1 \o l2) = ToSet(l1) \cup ToSet(l2)
  BY <1>15, <1>16, JoinSound
<1>23. SoundList(l1 \o l2 \o l3) /\ ToSet(l1 \o l2) \subseteq ToSet(l1 \o l2 \o l3)
  BY <1>17, <1>22, JoinSound
<1>24. SoundList(l1 \o l2 \o l3 \o l4) /\ ToSet(l1 \o l2 \o l3) \subseteq ToSet(l1 \o l2 \o l3 \o l4)
  BY <1>18, <1>23, JoinSound
<1>25. /\ SoundList(l1 \o l2 \o l3 \o l4 \o l5)
       /\ ToSet(l1 \o l2 \o l3 \o l4) \cup ToSet(l5) \subseteq ToSet(l1 \o l2 \o l3 \o l4 \o l5)
  BY <1>19, <1>24, JoinSound
<1>26. /\ SoundList(candidates)
       /\ ToSet(l1 \o l2 \o l3 \o l4 \o l5) \subseteq ToSet(candidates)
  BY <1>20, <1>21, <1>25, JoinSound
<1>27. ToSet(l1) \cup ToSet(l2) \cup ToSet(l5) \subseteq ToSet(candidates)
  BY <1>22, <1>23, <1>24, <1>25, <1>26
<1>28. ASSUME NEW s \in security
       PROVE  ToSet(e[s]) \cup a[s] \cup h[s] \subseteq ToSet(l1) \cup ToSet(l2) \cup ToSet(l5)
  <2>1. e[s] \in E
    BY <1>6
  <2>2. ToSet(e[s]) \subseteq ToSet(l1)
    BY <2>1, <1>15
  <2>3. a[s] \subseteq ToSet(l2)
    BY <1>7, <1>16
  <2>4. h[s] \subseteq ToSet(l5)
    BY <1>7, <1>19
  <2> QED BY <2>2, <2>3, <2>4
<1>29. \A s \in security :
         ToSet(Exposure(policy, input.role, s)) \cup Authentication(policy, s)
           \cup Hygiene(policy, s) \subseteq ToSet(candidates)
  <2> SUFFICES ASSUME NEW s \in security
               PROVE  ToSet(Exposure(policy, input.role, s)) \cup Authentication(policy, s)
                        \cup Hygiene(policy, s) \subseteq ToSet(candidates)
    OBVIOUS
  <2>1. ToSet(e[s]) \cup a[s] \cup h[s] \subseteq ToSet(candidates)
    BY <1>27, <1>28
  <2>2. Authentication(policy, s) \subseteq a[s]
    BY <1>8
  <2> QED BY <2>1, <2>2, <1>8
<1> QED BY <1>26, <1>29 DEF security

\* A report: sound findings, the worst first, one for each fingerprint.
Ranked(report) ==
  /\ report \in Seq(ToSet(report))
  /\ \A i, j \in DOMAIN report : i < j =>
       /\ report[i].severity >= report[j].severity
       /\ report[i].fingerprint # report[j].fingerprint
  /\ \A f \in ToSet(report) : Sound(f)

LEMMA Analyzed ==
  ASSUME NEW policy, NEW input, IsFiniteSet(input.security),
         \A s \in input.security : IsSnapshot(s),
         NEW report, report = Analyze(policy, input)
  PROVE  /\ Ranked(report)
         /\ \A c \in ToSet(Candidates(policy, input)) :
              \E f \in ToSet(report) :
                Summarises(f, ToSet(Candidates(policy, input)), c.fingerprint)
<1>1. PICK candidates : candidates = Candidates(policy, input)
  OBVIOUS
<1>2. SoundList(candidates)
  BY <1>1, CandidatesSound
<1> DEFINE C == ToSet(candidates)
           fps == {c.fingerprint : c \in C}
           E == UNION {c.evidence : c \in C}
<1>3. candidates \in Seq(C) /\ \A c \in C : Sound(c)
  BY <1>2 DEF SoundList
<1>4. C \subseteq FindingsOver(fps, E)
  <2> SUFFICES ASSUME NEW c \in C PROVE c \in FindingsOver(fps, E)
    OBVIOUS
  <2>1. /\ c = [fingerprint |-> c.fingerprint, category |-> c.category,
                severity |-> c.severity, evidence |-> c.evidence]
        /\ c.category \in Categories /\ c.severity \in Low..Critical
    BY <1>3 DEF Sound
  <2>2. c.severity \in Severities
    BY <2>1 DEF Low, Critical, Severities, Info
  <2>3. c.fingerprint \in fps /\ c.evidence \in SUBSET E
    OBVIOUS
  <2> HIDE DEF fps, E, C
  <2> QED BY <2>1, <2>2, <2>3 DEF FindingsOver
<1>5. candidates \in Seq(FindingsOver(fps, E))
  <2> HIDE DEF fps, E, C
  <2> QED BY <1>3, <1>4
<1>6. PICK M : M = MergeByFingerprint(candidates)
  OBVIOUS
<1>7. /\ IsFiniteSet(M) /\ M \subseteq FindingsOver(fps, E)
      /\ \A c \in C : \E f \in M : Summarises(f, C, c.fingerprint)
      /\ \A f \in M : \E c \in C : Summarises(f, C, c.fingerprint)
      /\ \A f, h \in M : f.fingerprint = h.fingerprint => f = h
  <2> HIDE DEF fps, E
  <2> QED BY <1>5, <1>6, MergesByFingerprint
<1>8. report = SortedBySeverity(M)
  BY <1>1, <1>6 DEF Analyze
<1>9. /\ report \in Seq(FindingsOver(fps, E)) /\ ToSet(report) = M
      /\ \A i, j \in DOMAIN report : i < j =>
           report[i].severity >= report[j].severity /\ report[i].fingerprint # report[j].fingerprint
  <2> HIDE DEF fps, E, C
  <2> QED BY <1>7, <1>8, Sorted
<1> HIDE DEF fps, E, C
<1>10. report \in Seq(ToSet(report))
  <2>1. DOMAIN report = 1..Len(report) /\ Len(report) \in Nat
          /\ report \in [1..Len(report) -> FindingsOver(fps, E)]
    BY <1>9, LenProperties
  <2>2. report \in [1..Len(report) -> ToSet(report)]
    BY <2>1, ToSetIs
  <2> QED BY <2>1, <2>2, SegmentIsSeq
<1>11. ASSUME NEW f \in M PROVE Sound(f)
  <2>1. PICK c \in C : Summarises(f, C, c.fingerprint)
    BY <1>7
  <2>2. f.fingerprint = c.fingerprint
    BY <2>1 DEF Summarises
  <2>3. PICK d \in C : d.fingerprint = c.fingerprint /\ f.category = d.category
    BY <2>1 DEF Summarises
  <2>4. PICK d2 \in C : f.severity = d2.severity
    BY <2>1 DEF Summarises
  <2>5. Sound(d) /\ Sound(d2)
    BY <1>3
  <2>6. f = [fingerprint |-> f.fingerprint, category |-> f.category,
             severity |-> f.severity, evidence |-> f.evidence]
    BY <1>7 DEF FindingsOver
  <2> QED BY <2>2, <2>3, <2>4, <2>5, <2>6 DEF Sound
<1> QED BY <1>1, <1>7, <1>9, <1>10, <1>11 DEF Ranked, C
-----------------------------------------------------------------------------
\* The agent's collectors, from a host to its snapshot.

\* What a surface holds of some rows, those of L listening.
TellsOf(surface, rows, L) ==
  /\ surface.listeners \in Seq(ToSet(surface.listeners))
  /\ \A socket : socket \in ToSet(surface.listeners)
                   <=> \E row \in ToSet(rows) \cap L :
                         socket = Socket(row.protocol, Normalised(row.address), row.port)
  /\ \A peer : peer \in ToSet(surface.peers)
                 <=> \E row \in ToSet(rows) \ L : /\ row.state = "established"
                                                 /\ peer = Peer(Normalised(row.remote), row.port)
  /\ surface.gaps = {} /\ IsFiniteSet(ToSet(surface.peers))
  /\ surface.peers \in Seq(ToSet(surface.peers))

LEMMA ToldRows ==
  ASSUME NEW rows, NEW L, NEW listening, NEW connected,
         listening \in Seq(ToSet(listening)), ToSet(listening) = ToSet(rows) \cap L,
         connected \in Seq(ToSet(connected)),
         ToSet(connected) = ToSet(rows) \cap {row \in ToSet(rows) \ L : row.state = "established"},
         NEW surface, surface = Told(listening, connected)
  PROVE  TellsOf(surface, rows, L)
<1>1. /\ DOMAIN listening = 1..Len(listening) /\ Len(listening) \in Nat
      /\ DOMAIN connected = 1..Len(connected) /\ Len(connected) \in Nat
  BY LenProperties
<1>2. PICK l : l = surface.listeners
  OBVIOUS
<1>3. /\ DOMAIN l = 1..Len(listening) /\ l = [i \in 1..Len(listening) |-> l[i]]
      /\ \A i \in 1..Len(listening) :
           l[i] = Socket(listening[i].protocol, Normalised(listening[i].address), listening[i].port)
  BY <1>1, <1>2 DEF Told
<1>4. l \in Seq(ToSet(l))
  <2>1. l \in [1..Len(listening) -> ToSet(l)]
    BY <1>3, ToSetIs
  <2> QED BY <2>1, <1>1, SegmentIsSeq
<1>5. \A socket : socket \in ToSet(l)
                   <=> \E row \in ToSet(rows) \cap L :
                         socket = Socket(row.protocol, Normalised(row.address), row.port)
  <2>1. \A row : row \in ToSet(rows) \cap L <=> \E i \in 1..Len(listening) : row = listening[i]
    BY <1>1, ToSetIs
  <2>2. \A socket : socket \in ToSet(l) <=> \E i \in 1..Len(listening) : socket = l[i]
    BY <1>3, ToSetIs
  <2> DEFINE As(row) == Socket(row.protocol, Normalised(row.address), row.port)
  <2>3. \A i \in 1..Len(listening) : l[i] = As(listening[i])
    BY <1>3
  <2> HIDE DEF As
  <2>4. \A socket : socket \in ToSet(l) <=> \E row \in ToSet(rows) \cap L : socket = As(row)
    BY <2>1, <2>2, <2>3, SMTT(30)
  <2> QED BY <2>4 DEF As
<1>6. PICK g : g = [i \in 1..Len(connected) |-> Peer(Normalised(connected[i].remote), connected[i].port)]
  OBVIOUS
<1>7. PICK P : P = {g[i] : i \in 1..Len(connected)}
  OBVIOUS
<1>8. AggregatePeers(connected) = AsSeq(P)
  <2>1. {Peer(Normalised(connected[i].remote), connected[i].port) : i \in DOMAIN connected} = P
    BY <1>1, <1>6, <1>7
  <2> QED BY <2>1 DEF AggregatePeers
<1>9. IsFiniteSet(P)
  <2>1. IsFiniteSet(1..Len(connected))
    BY <1>1, FS_Interval
  <2>2. DOMAIN g = 1..Len(connected)
    BY <1>6
  <2> QED BY <2>1, <2>2, <1>7, ImageFinite
<1>10. ToSet(surface.peers) = P /\ surface.peers \in Seq(P)
  <2>1. surface.peers = AsSeq(P)
    BY <1>8 DEF Told
  <2>2. P \in SUBSET P /\ AsSeq(P) \in Seq(P) /\ ToSet(AsSeq(P)) = P
    BY <1>9, AsSeqLists
  <2> QED BY <2>1, <2>2
<1>11. \A peer : peer \in P
                 <=> \E row \in ToSet(rows) \ L : /\ row.state = "established"
                                                 /\ peer = Peer(Normalised(row.remote), row.port)
  <2>1. \A row : row \in ToSet(rows) \ L /\ row.state = "established"
                   <=> \E i \in 1..Len(connected) : row = connected[i]
    <3>1. \A row : row \in ToSet(connected) <=> \E i \in 1..Len(connected) : row = connected[i]
      BY <1>1, ToSetIs
    <3>2. \A row : row \in ToSet(connected)
                    <=> row \in ToSet(rows) \ L /\ row.state = "established"
      OBVIOUS
    <3> QED BY <3>1, <3>2
  <2>2. \A i \in 1..Len(connected) : g[i] = Peer(Normalised(connected[i].remote), connected[i].port)
    BY <1>6
  <2>3. \A peer : peer \in P <=> \E i \in 1..Len(connected) : peer = g[i]
    BY <1>7
  <2> QED BY <2>1, <2>2, <2>3, SMTT(30)
<1>12. surface.gaps = {}
  BY DEF Told
<1> QED BY <1>2, <1>4, <1>5, <1>9, <1>10, <1>11, <1>12 DEF TellsOf
\* What the tools list, of which rows listen.
Listens(state, row) == \/ row.state = "listen"
                       \/ state = "named" /\ row.state = "unconnected"
                       \/ state = "bare" /\ row.protocol = "udp"

LEMMA Where2Seq ==
  ASSUME NEW s, s \in Seq(ToSet(s))
  PROVE  /\ DOMAIN s = 1..Len(s) /\ Len(s) \in Nat
         /\ \A i \in DOMAIN s : s[i] \in ToSet(s)
BY LenProperties, ToSetIs

LEMMA SsTells ==
  ASSUME NEW rows, rows \in Seq(ToSet(rows))
  PROVE  TellsOf(ParseSs(rows), rows, {row \in ToSet(rows) : Listens("named", row)})
<1> DEFINE L == {row \in ToSet(rows) : Listens("named", row)}
           K == {row \in ToSet(rows) \ L : row.state = "established"}
<1>1. \A i \in DOMAIN rows : rows[i] \in ToSet(rows)
  BY Where2Seq
<1>2. PICK l : l = FlattenSeq([i \in DOMAIN rows |-> IF rows[i] \in L THEN <<rows[i]>> ELSE <<>>])
  OBVIOUS
<1>3. PICK k : k = FlattenSeq([i \in DOMAIN rows |-> IF rows[i] \in K THEN <<rows[i]>> ELSE <<>>])
  OBVIOUS
<1>4. Where(rows, LAMBDA row : row.state \in {"listen", "unconnected"}) = l
  BY <1>1, <1>2 DEF Where, Listens
<1>5. Where(rows, LAMBDA row : ~(row.state \in {"listen", "unconnected"}) /\ row.state = "established") = k
  BY <1>1, <1>3 DEF Where, Listens
<1>6. ParseSs(rows) = Told(l, k)
  BY <1>4, <1>5 DEF ParseSs, Surveyed
<1> HIDE DEF L, K
<1>7. l \in Seq(ToSet(l)) /\ ToSet(l) = ToSet(rows) \cap L
  BY <1>2, Selected, SMTT(30)
<1>8. k \in Seq(ToSet(k)) /\ ToSet(k) = ToSet(rows) \cap K
  BY <1>3, Selected
<1> QED BY <1>6, <1>7, <1>8, ToldRows DEF L, K
LEMMA WindowsTells ==
  ASSUME NEW rows, rows \in Seq(ToSet(rows))
  PROVE  TellsOf(ParseNetstatWindows(rows), rows, {row \in ToSet(rows) : Listens("bare", row)})
<1> DEFINE L == {row \in ToSet(rows) : Listens("bare", row)}
           K == {row \in ToSet(rows) \ L : row.state = "established"}
<1>1. \A i \in DOMAIN rows : rows[i] \in ToSet(rows)
  BY Where2Seq
<1>2. PICK l : l = FlattenSeq([i \in DOMAIN rows |-> IF rows[i] \in L THEN <<rows[i]>> ELSE <<>>])
  OBVIOUS
<1>3. PICK k : k = FlattenSeq([i \in DOMAIN rows |-> IF rows[i] \in K THEN <<rows[i]>> ELSE <<>>])
  OBVIOUS
<1>4. Where(rows, LAMBDA row : row.protocol = "udp" \/ row.state = "listen") = l
  BY <1>1, <1>2 DEF Where, Listens
<1>5. Where(rows, LAMBDA row : ~(row.protocol = "udp" \/ row.state = "listen")
                              /\ row.state = "established") = k
  BY <1>1, <1>3 DEF Where, Listens
<1>6. ParseNetstatWindows(rows) = Told(l, k)
  BY <1>4, <1>5 DEF ParseNetstatWindows, Surveyed
<1> HIDE DEF L, K
<1>7. l \in Seq(ToSet(l)) /\ ToSet(l) = ToSet(rows) \cap L
  BY <1>2, Selected
<1>8. k \in Seq(ToSet(k)) /\ ToSet(k) = ToSet(rows) \cap K
  BY <1>3, Selected
<1> QED BY <1>6, <1>7, <1>8, ToldRows DEF L, K

LEMMA BsdTells ==
  ASSUME NEW all, all \in Seq(ToSet(all))
  PROVE  \E rows : /\ ToSet(rows) = {row \in ToSet(all) : row.port # 0}
                   /\ TellsOf(ParseNetstatBsd(all), rows,
                              {row \in ToSet(rows) : Listens("bare", row)})
<1> DEFINE T == {row \in ToSet(all) : row.port # 0}
<1>1. \A i \in DOMAIN all : all[i] \in ToSet(all)
  BY Where2Seq
<1>2. PICK rows : rows = Where(all, LAMBDA row : row.port # 0)
  OBVIOUS
<1>3. rows = FlattenSeq([i \in DOMAIN all |-> IF all[i] \in T THEN <<all[i]>> ELSE <<>>])
  BY <1>1, <1>2 DEF Where
<1>4. rows \in Seq(ToSet(rows)) /\ ToSet(rows) = ToSet(all) \cap T
  <2> HIDE DEF T
  <2> QED BY <1>3, Selected
<1>5. ParseNetstatBsd(all) = ParseNetstatWindows(rows)
  BY <1>2 DEF ParseNetstatBsd, ParseNetstatWindows
<1>6. TellsOf(ParseNetstatBsd(all), rows, {row \in ToSet(rows) : Listens("bare", row)})
  BY <1>4, <1>5, WindowsTells
<1> QED BY <1>4, <1>6

LEMMA ProcNetTells ==
  ASSUME NEW all, all \in Seq(ToSet(all)), \A row \in ToSet(all) : IsRow(row),
         NEW protocol, NEW v6
  PROVE  \E rows : /\ ToSet(rows) = {row \in ToSet(all) : row.protocol = protocol /\ row.v6 = v6}
                   /\ TellsOf(ParseProcNet(all, protocol, v6), rows,
                              {row \in ToSet(rows) : Listens("named", row)})
<1> DEFINE T == {row \in ToSet(all) : row.protocol = protocol /\ row.v6 = v6}
<1>1. \A i \in DOMAIN all : all[i] \in ToSet(all)
  BY Where2Seq
<1>2. PICK rows : rows = Where(all, LAMBDA row : row.protocol = protocol /\ row.v6 = v6)
  OBVIOUS
<1>3. rows = FlattenSeq([i \in DOMAIN all |-> IF all[i] \in T THEN <<all[i]>> ELSE <<>>])
  BY <1>1, <1>2 DEF Where
<1>4. rows \in Seq(ToSet(rows)) /\ ToSet(rows) = ToSet(all) \cap T
  <2> HIDE DEF T
  <2> QED BY <1>3, Selected
<1> DEFINE L == {row \in ToSet(rows) : Listens("named", row)}
           K == {row \in ToSet(rows) \ L : row.state = "established"}
<1>5. \A i \in DOMAIN rows : rows[i] \in ToSet(rows)
  BY <1>4, Where2Seq
<1>6. \A row \in ToSet(rows) : /\ row.protocol = protocol
                               /\ row.state = "unconnected" => row.protocol = "udp"
  BY <1>4 DEF IsRow, Protocols
<1>7. PICK l : l = FlattenSeq([i \in DOMAIN rows |-> IF rows[i] \in L THEN <<rows[i]>> ELSE <<>>])
  OBVIOUS
<1>8. PICK k : k = FlattenSeq([i \in DOMAIN rows |-> IF rows[i] \in K THEN <<rows[i]>> ELSE <<>>])
  OBVIOUS
<1>9. Where(rows, LAMBDA row : \/ row.state = "listen"
                               \/ protocol = "udp" /\ row.state = "unconnected") = l
  <2>1. \A i \in DOMAIN rows :
          (rows[i].state = "listen" \/ (protocol = "udp" /\ rows[i].state = "unconnected"))
            <=> rows[i] \in L
    <3> SUFFICES ASSUME NEW i \in DOMAIN rows
                 PROVE  (rows[i].state = "listen" \/ (protocol = "udp" /\ rows[i].state = "unconnected"))
                          <=> rows[i] \in L
      OBVIOUS
    <3>1. rows[i] \in ToSet(rows)
      BY <1>5
    <3>2. PICK row : row = rows[i]
      OBVIOUS
    <3>3. row.state = "unconnected" => protocol = "udp"
      BY <1>6, <3>1, <3>2
    <3>4. row \in L <=> (row.state = "listen" \/ row.state = "unconnected")
      BY <3>1, <3>2 DEF Listens
    <3> HIDE DEF L
    <3>5. (row.state = "listen" \/ (protocol = "udp" /\ row.state = "unconnected")) <=> row \in L
      BY <3>3, <3>4
    <3> QED BY <3>2, <3>5
  <2> HIDE DEF L
  <2> QED BY <2>1, <1>7 DEF Where
<1>10. Where(rows, LAMBDA row : /\ ~(\/ row.state = "listen"
                                     \/ protocol = "udp" /\ row.state = "unconnected")
                                /\ row.state = "established") = k
  <2>1. \A i \in DOMAIN rows :
          (/\ ~(rows[i].state = "listen" \/ (protocol = "udp" /\ rows[i].state = "unconnected"))
           /\ rows[i].state = "established")
            <=> rows[i] \in K
    BY <1>5, <1>6 DEF Listens
  <2> HIDE DEF L, K
  <2> QED BY <2>1, <1>8 DEF Where
<1>11. ParseProcNet(all, protocol, v6) = Told(l, k)
  BY <1>2, <1>9, <1>10 DEF ParseProcNet, Surveyed
<1>12. L \subseteq ToSet(rows)
  OBVIOUS
<1>13. k = k /\ \A row : row \in K <=> row \in ToSet(rows) \ L /\ row.state = "established"
  OBVIOUS
<1> HIDE DEF L, K
<1>14. l \in Seq(ToSet(l)) /\ ToSet(l) = ToSet(rows) \cap L
  BY <1>4, <1>7, Selected
<1>15. k \in Seq(ToSet(k)) /\ ToSet(k) = ToSet(rows) \cap K
  BY <1>4, <1>8, Selected
<1>16. TellsOf(ParseProcNet(all, protocol, v6), rows, L)
  BY <1>11, <1>14, <1>15, ToldRows DEF K
<1>17. ToSet(rows) = T
  BY <1>4
<1> QED BY <1>16, <1>17 DEF L
\* The same of a set of rows: what is heard of them, and who they talk to.
Heard(row) == Socket(row.protocol, Normalised(row.address), row.port)
Talks(row) == Peer(Normalised(row.remote), row.port)

Shows(surface, S, state) ==
  /\ surface.listeners \in Seq(ToSet(surface.listeners))
  /\ \A socket : socket \in ToSet(surface.listeners)
                   <=> \E row \in S : Listens(state, row) /\ socket = Heard(row)
  /\ \A peer : peer \in ToSet(surface.peers)
                 <=> \E row \in S : /\ ~Listens(state, row) /\ row.state = "established"
                                    /\ peer = Talks(row)
  /\ surface.gaps = {} /\ IsFiniteSet(ToSet(surface.peers))
  /\ surface.peers \in Seq(ToSet(surface.peers))

LEMMA TellsShows ==
  ASSUME NEW surface, NEW rows, NEW state,
         TellsOf(surface, rows, {row \in ToSet(rows) : Listens(state, row)})
  PROVE  Shows(surface, ToSet(rows), state)
<1> DEFINE L == {row \in ToSet(rows) : Listens(state, row)}
<1>1. \A row \in ToSet(rows) : row \in L <=> Listens(state, row)
  OBVIOUS
<1>2. TellsOf(surface, rows, L)
  OBVIOUS
<1> HIDE DEF L
<1>3. /\ surface.listeners \in Seq(ToSet(surface.listeners))
      /\ surface.gaps = {} /\ IsFiniteSet(ToSet(surface.peers))
      /\ surface.peers \in Seq(ToSet(surface.peers))
  BY <1>2 DEF TellsOf
<1>4. \A socket : socket \in ToSet(surface.listeners)
                   <=> \E row \in ToSet(rows) : Listens(state, row) /\ socket = Heard(row)
  <2>1. \A socket : socket \in ToSet(surface.listeners)
                      <=> \E row \in ToSet(rows) \cap L : socket = Heard(row)
    BY <1>2 DEF TellsOf, Heard
  <2> QED BY <1>1, <2>1
<1>5. \A peer : peer \in ToSet(surface.peers)
                 <=> \E row \in ToSet(rows) : /\ ~Listens(state, row) /\ row.state = "established"
                                              /\ peer = Talks(row)
  <2>1. \A peer : peer \in ToSet(surface.peers)
                    <=> \E row \in ToSet(rows) \ L : row.state = "established" /\ peer = Talks(row)
    BY <1>2 DEF TellsOf, Talks
  <2> QED BY <1>1, <2>1
<1> QED BY <1>3, <1>4, <1>5 DEF Shows

LEMMA AllTables ==
  /\ Tables \in Seq(ToSet(Tables))
  /\ \A protocol \in Protocols, v6 \in BOOLEAN : <<protocol, v6>> \in ToSet(Tables)
<1> DEFINE T == {<<"tcp", FALSE>>, <<"tcp", TRUE>>, <<"udp", FALSE>>, <<"udp", TRUE>>}
<1>1. DOMAIN Tables = 1..4
  BY DEF Tables
<1>2. /\ Tables[1] = <<"tcp", FALSE>> /\ Tables[2] = <<"tcp", TRUE>>
      /\ Tables[3] = <<"udp", FALSE>> /\ Tables[4] = <<"udp", TRUE>>
  BY DEF Tables
<1>3. ToSet(Tables) = T
  <2>1. \A x : x \in ToSet(Tables) <=> \E i \in 1..4 : x = Tables[i]
    BY <1>1, ToSetIs
  <2>2. \A i : i \in 1..4 <=> i = 1 \/ i = 2 \/ i = 3 \/ i = 4
    OBVIOUS
  <2>3. \A x : x \in ToSet(Tables) <=> x \in T
    BY <1>2, <2>1, <2>2
  <2> HIDE DEF T
  <2> QED BY <2>3
<1>4. Tables \in Seq(T)
  BY DEF Tables
<1>5. \A protocol \in Protocols, v6 \in BOOLEAN : <<protocol, v6>> \in T
  BY DEF Protocols
<1> QED BY <1>3, <1>4, <1>5

\* The tables of a host that can be read.
LEMMA Readable ==
  ASSUME NEW t, t \in Seq(ToSet(t)), NEW R, NEW r,
         r = FlattenSeq([i \in DOMAIN t |-> IF t[i] \in R THEN <<t[i]>> ELSE <<>>])
  PROVE  /\ r \in Seq(ToSet(r)) /\ ToSet(r) = ToSet(t) \cap R
         /\ DOMAIN r = 1..Len(r) /\ Len(r) \in Nat
BY Selected

LEMMA ReadShows ==
  ASSUME NEW h, IsHost(h)
  PROVE  Shows(ReadProcNet(h),
               {row \in ToSet(h.sockets) : <<row.protocol, row.v6>> \in h.readable}, "named")
<1> DEFINE S == {row \in ToSet(h.sockets) : <<row.protocol, row.v6>> \in h.readable}
           Of(table) == {row \in ToSet(h.sockets) : row.protocol = table[1] /\ row.v6 = table[2]}
           P(table) == ParseProcNet(h.sockets, table[1], table[2])
<1>1. PICK readable : readable = Where(Tables, LAMBDA table : table \in h.readable)
  OBVIOUS
<1>2. PICK t, R : t = Tables /\ R = h.readable
  OBVIOUS
<1>3. /\ readable \in Seq(ToSet(readable)) /\ ToSet(readable) = ToSet(Tables) \cap h.readable
      /\ DOMAIN readable = 1..Len(readable) /\ Len(readable) \in Nat
  <2>1. \A g : g = FlattenSeq([i \in DOMAIN t |-> IF t[i] \in R THEN <<t[i]>> ELSE <<>>]) =>
                /\ g \in Seq(ToSet(g)) /\ ToSet(g) = ToSet(t) \cap R
                /\ DOMAIN g = 1..Len(g) /\ Len(g) \in Nat
    <3>1. t \in Seq(ToSet(t))
      BY <1>2, AllTables
    <3> HIDE DEF S, Of, P
    <3> QED BY <3>1, Readable, ZenonT(30)
  <2>2. readable = FlattenSeq([i \in DOMAIN t |-> IF t[i] \in R THEN <<t[i]>> ELSE <<>>])
    BY <1>1, <1>2 DEF Where
  <2>3. /\ readable \in Seq(ToSet(readable)) /\ ToSet(readable) = ToSet(t) \cap R
        /\ DOMAIN readable = 1..Len(readable) /\ Len(readable) \in Nat
    BY <2>1, <2>2
  <2> QED BY <2>3, <1>2
<1>4. h.sockets \in Seq(ToSet(h.sockets)) /\ \A row \in ToSet(h.sockets) : IsRow(row)
  BY DEF IsHost
<1>5. \A table : Shows(P(table), Of(table), "named")
  <2> SUFFICES ASSUME NEW table PROVE Shows(P(table), Of(table), "named")
    OBVIOUS
  <2>1. PICK rows : /\ ToSet(rows) = Of(table)
                    /\ TellsOf(P(table), rows, {row \in ToSet(rows) : Listens("named", row)})
    BY <1>4, ProcNetTells
  <2> HIDE DEF Of, P
  <2> QED BY <2>1, TellsShows
<1>6. PICK tables : tables = ToSet(readable)
  OBVIOUS
<1>7. \A row : row \in S <=> \E table \in tables : row \in Of(table)
  <2>1. ASSUME NEW row \in S PROVE \E table \in tables : row \in Of(table)
    <3>1. row.protocol \in Protocols /\ row.v6 \in BOOLEAN
      BY <1>4 DEF IsRow
    <3>2. <<row.protocol, row.v6>> \in tables
      BY <1>3, <1>6, <3>1, AllTables
    <3>3. row \in Of(<<row.protocol, row.v6>>)
      OBVIOUS
    <3> QED BY <3>2, <3>3
  <2>2. ASSUME NEW table \in tables, NEW row \in Of(table) PROVE row \in S
    <3>1. table \in ToSet(Tables) /\ table \in h.readable
      BY <1>3, <1>6
    <3>2. table = <<table[1], table[2]>>
      <4>1. PICK i \in DOMAIN Tables : table = Tables[i]
        BY <3>1, ToSetIs
      <4> QED BY <4>1 DEF Tables
    <3> QED BY <3>1, <3>2
  <2> QED BY <2>1, <2>2
<1>8. PICK lists : lists = [i \in 1..Len(readable) |-> P(readable[i]).listeners]
  OBVIOUS
<1>9. PICK all : all = UNION {ToSet(P(readable[i]).peers) : i \in 1..Len(readable)}
  OBVIOUS
<1> DEFINE surface == ReadProcNet(h)
<1>10. surface.listeners = FlattenSeq(lists)
  BY <1>1, <1>3, <1>8 DEF ReadProcNet
<1>11. surface.peers = AsSeq(all)
  BY <1>1, <1>3, <1>9 DEF ReadProcNet
<1>12. surface.gaps = {}
  BY DEF ReadProcNet
<1>13. \A table : table \in tables <=> \E i \in 1..Len(readable) : table = readable[i]
  BY <1>3, <1>6, ToSetIs
<1> HIDE DEF S, Of, P
<1>14. \A table :
         /\ P(table).listeners \in Seq(ToSet(P(table).listeners))
         /\ \A socket : socket \in ToSet(P(table).listeners)
                          <=> \E row \in Of(table) : Listens("named", row) /\ socket = Heard(row)
         /\ \A peer : peer \in ToSet(P(table).peers)
                        <=> \E row \in Of(table) : /\ ~Listens("named", row)
                                                   /\ row.state = "established"
                                                   /\ peer = Talks(row)
  BY <1>5 DEF Shows
<1>15. /\ FlattenSeq(lists) \in Seq(ToSet(FlattenSeq(lists)))
       /\ \A x : x \in ToSet(FlattenSeq(lists))
                   <=> \E i \in 1..Len(readable) : x \in ToSet(P(readable[i]).listeners)
  <2>1. DOMAIN lists = 1..Len(readable) /\ lists = [i \in 1..Len(readable) |-> lists[i]]
          /\ \A i \in 1..Len(readable) : lists[i] = P(readable[i]).listeners
    BY <1>8
  <2>2. \A i \in 1..Len(readable) : lists[i] \in Seq(ToSet(lists[i]))
    BY <2>1, <1>14
  <2>3. /\ FlattenSeq(lists) \in Seq(ToSet(FlattenSeq(lists)))
        /\ \A x : x \in ToSet(FlattenSeq(lists)) <=> \E i \in 1..Len(readable) : x \in ToSet(lists[i])
    BY <2>1, <2>2, <1>3, FlatLists
  <2> QED BY <2>1, <2>3
<1>16. \A socket : socket \in ToSet(surface.listeners)
                    <=> \E row \in S : Listens("named", row) /\ socket = Heard(row)
  <2>1. \A socket : socket \in ToSet(surface.listeners)
                    <=> \E table \in tables : socket \in ToSet(P(table).listeners)
    <3>1. ToSet(surface.listeners) = ToSet(FlattenSeq(lists))
      BY <1>10
    <3> HIDE DEF surface
    <3> QED BY <3>1, <1>13, <1>15
  <2> HIDE DEF surface
  <2>2. \A socket : socket \in ToSet(surface.listeners)
                    <=> \E table \in tables : \E row \in Of(table) :
                          Listens("named", row) /\ socket = Heard(row)
    <3> SUFFICES ASSUME NEW socket
                 PROVE  socket \in ToSet(surface.listeners)
                          <=> \E table \in tables : \E row \in Of(table) :
                                Listens("named", row) /\ socket = Heard(row)
      OBVIOUS
    <3>1. \A table : socket \in ToSet(P(table).listeners)
                      <=> \E row \in Of(table) : Listens("named", row) /\ socket = Heard(row)
      BY <1>14
    <3>2. socket \in ToSet(surface.listeners)
            <=> \E table \in tables : socket \in ToSet(P(table).listeners)
      BY <2>1
    <3> QED BY <3>1, <3>2
  <2> QED BY <2>2, <1>7
<1>17. \A i \in 1..Len(readable) : IsFiniteSet(ToSet(P(readable[i]).peers))
  BY <1>5 DEF Shows
<1>18. ToSet(surface.peers) = all /\ IsFiniteSet(all) /\ surface.peers \in Seq(all)
  <2>1. PICK g : g = [i \in 1..Len(readable) |-> ToSet(P(readable[i]).peers)]
    OBVIOUS
  <2>2. all = UNION {g[i] : i \in 1..Len(readable)}
    BY <2>1, <1>9
  <2>3. IsFiniteSet(1..Len(readable)) /\ DOMAIN g = 1..Len(readable)
    BY <1>3, <2>1, FS_Interval
  <2>4. IsFiniteSet({g[i] : i \in 1..Len(readable)})
    BY <2>3, ImageFinite
  <2>5. \A T \in {g[i] : i \in 1..Len(readable)} : IsFiniteSet(T)
    BY <2>1, <1>17
  <2>6. IsFiniteSet(all)
    BY <2>2, <2>4, <2>5, FS_UNION
  <2>7. surface.peers = AsSeq(all)
    BY <1>11
  <2> HIDE DEF surface
  <2>8. AsSeq(all) \in Seq(all) /\ ToSet(AsSeq(all)) = all
    BY <2>6, AsSeqLists
  <2> QED BY <2>6, <2>7, <2>8
<1>19. \A peer : peer \in ToSet(surface.peers)
                  <=> \E row \in S : /\ ~Listens("named", row) /\ row.state = "established"
                                     /\ peer = Talks(row)
  <2>1. \A peer : peer \in all <=> \E i \in 1..Len(readable) : peer \in ToSet(P(readable[i]).peers)
    BY <1>9
  <2>2. \A peer : peer \in all <=> \E table \in tables : peer \in ToSet(P(table).peers)
    BY <2>1, <1>13
  <2>3. \A peer : peer \in all
                    <=> \E table \in tables : \E row \in Of(table) :
                          /\ ~Listens("named", row) /\ row.state = "established"
                          /\ peer = Talks(row)
    <3> SUFFICES ASSUME NEW peer
                 PROVE  peer \in all
                          <=> \E table \in tables : \E row \in Of(table) :
                                /\ ~Listens("named", row) /\ row.state = "established"
                                /\ peer = Talks(row)
      OBVIOUS
    <3>1. \A table : peer \in ToSet(P(table).peers)
                      <=> \E row \in Of(table) : /\ ~Listens("named", row)
                                                 /\ row.state = "established"
                                                 /\ peer = Talks(row)
      BY <1>14
    <3>2. peer \in all <=> \E table \in tables : peer \in ToSet(P(table).peers)
      BY <2>2
    <3> QED BY <3>1, <3>2
  <2> HIDE DEF surface
  <2> QED BY <2>3, <1>7, <1>18
<1>20. Shows(surface, S, "named")
  <2>1. surface.listeners \in Seq(ToSet(surface.listeners))
    BY <1>10, <1>15
  <2>2. IsFiniteSet(ToSet(surface.peers)) /\ surface.peers \in Seq(ToSet(surface.peers))
    BY <1>18
  <2> HIDE DEF surface
  <2> QED BY <2>1, <2>2, <1>12, <1>16, <1>19 DEF Shows
<1> QED BY <1>20 DEF S

\* The rows a surface leaves out although it declares no gap.
Skipped(h, row, surface) ==
  /\ h.platform = "linux" /\ ~Runs(h, "ss")
  /\ <<row.protocol, row.v6>> \notin h.readable
  /\ surface.listeners # <<>> \/ surface.peers # <<>>

\* A network surface of a host: its sockets are rows of the host, and every row
\* that listens is among them, is skipped, or may be missing by a declared gap,
\* and likewise every row that is connected and its peers.
Surfaced(h, surface) ==
  /\ surface = [listeners |-> surface.listeners, peers |-> surface.peers, gaps |-> surface.gaps]
  /\ surface.listeners \in Seq(ToSet(surface.listeners))
  /\ surface.peers \in Seq(ToSet(surface.peers))
  /\ \A socket \in ToSet(surface.listeners) : \E row \in ToSet(h.sockets) : socket = Heard(row)
  /\ surface.gaps \subseteq {"listeners", "peers"}
  /\ "listeners" \notin surface.gaps =>
       \A row \in ToSet(h.sockets) :
         Listening(row) => Skipped(h, row, surface) \/ Heard(row) \in ToSet(surface.listeners)
  /\ {"listeners", "peers"} \cap surface.gaps = {} =>
       \A row \in ToSet(h.sockets) :
         Connected(row) => Skipped(h, row, surface) \/ Talks(row) \in ToSet(surface.peers)

LEMMA ShowsSurfaced ==
  ASSUME NEW h, NEW surface, NEW S, S \subseteq ToSet(h.sockets),
         NEW state \in {"named", "bare"}, Shows(surface, S, state),
         surface = [listeners |-> surface.listeners, peers |-> surface.peers, gaps |-> surface.gaps],
         \A row \in ToSet(h.sockets) \ S :
           Listening(row) \/ Connected(row) => Skipped(h, row, surface)
  PROVE  Surfaced(h, surface)
<1>1. \A row : /\ Listening(row) => Listens(state, row)
               /\ Connected(row) => ~Listens(state, row) /\ row.state = "established"
  BY DEF Listening, Connected, Listens
<1>2. /\ surface.listeners \in Seq(ToSet(surface.listeners))
      /\ \A socket : socket \in ToSet(surface.listeners)
                       <=> \E row \in S : Listens(state, row) /\ socket = Heard(row)
      /\ \A peer : peer \in ToSet(surface.peers)
                     <=> \E row \in S : /\ ~Listens(state, row) /\ row.state = "established"
                                        /\ peer = Talks(row)
      /\ surface.gaps = {} /\ surface.peers \in Seq(ToSet(surface.peers))
  BY DEF Shows
<1>3. \A socket \in ToSet(surface.listeners) : \E row \in ToSet(h.sockets) : socket = Heard(row)
  BY <1>2
<1>4. \A row \in ToSet(h.sockets) :
        Listening(row) => Skipped(h, row, surface) \/ Heard(row) \in ToSet(surface.listeners)
  BY <1>1, <1>2
<1>5. \A row \in ToSet(h.sockets) :
        Connected(row) => Skipped(h, row, surface) \/ Talks(row) \in ToSet(surface.peers)
  BY <1>1, <1>2
<1> QED BY <1>2, <1>3, <1>4, <1>5 DEF Surfaced

LEMMA ToldShape ==
  \A l, k : Told(l, k) = [listeners |-> Told(l, k).listeners, peers |-> Told(l, k).peers,
                          gaps |-> Told(l, k).gaps]
BY DEF Told

LEMMA GapSurfaced == ASSUME NEW h PROVE Surfaced(h, NetworkGap)
<1>1. ToSet(<<>>) = {} /\ <<>> \in Seq({})
  BY ToSetIs
<1>2. /\ NetworkGap.listeners = <<>> /\ NetworkGap.peers = <<>>
      /\ NetworkGap.gaps = {"listeners"}
      /\ NetworkGap = [listeners |-> NetworkGap.listeners, peers |-> NetworkGap.peers,
                       gaps |-> NetworkGap.gaps]
  BY DEF NetworkGap
<1> QED BY <1>1, <1>2 DEF Surfaced

LEMMA LinuxSurfaced ==
  ASSUME NEW h, IsHost(h), h.platform = "linux"
  PROVE  Surfaced(h, CollectLinux(h))
<1>1. h.sockets \in Seq(ToSet(h.sockets))
  BY DEF IsHost
<1>2. CASE Runs(h, "ss")
  <2>1. CollectLinux(h) = ParseSs(h.sockets)
    BY <1>2 DEF CollectLinux
  <2>2. PICK surface : surface = ParseSs(h.sockets)
    OBVIOUS
  <2>3. Shows(surface, ToSet(h.sockets), "named")
    BY <1>1, <2>2, SsTells, TellsShows
  <2>4. surface = [listeners |-> surface.listeners, peers |-> surface.peers, gaps |-> surface.gaps]
    BY <2>2, ToldShape DEF ParseSs, Surveyed
  <2>5. Surfaced(h, surface)
    BY <2>3, <2>4, ShowsSurfaced
  <2> QED BY <2>1, <2>2, <2>5
<1>3. CASE ~Runs(h, "ss")
  <2>1. PICK surface : surface = ReadProcNet(h)
    OBVIOUS
  <2>2. CASE surface.listeners = <<>> /\ surface.peers = <<>>
    <3>1. CollectLinux(h) = NetworkGap
      BY <1>3, <2>1, <2>2 DEF CollectLinux
    <3> QED BY <3>1, GapSurfaced
  <2>3. CASE ~(surface.listeners = <<>> /\ surface.peers = <<>>)
    <3>1. CollectLinux(h) = surface
      BY <1>3, <2>1, <2>3 DEF CollectLinux
    <3> DEFINE S == {row \in ToSet(h.sockets) : <<row.protocol, row.v6>> \in h.readable}
    <3>2. Shows(surface, S, "named")
      BY <2>1, ReadShows
    <3>3. \A row \in ToSet(h.sockets) \ S : Skipped(h, row, surface)
      BY <1>3, <2>3 DEF Skipped
    <3>4. surface = [listeners |-> surface.listeners, peers |-> surface.peers, gaps |-> surface.gaps]
      BY <2>1 DEF ReadProcNet
    <3>5. S \subseteq ToSet(h.sockets)
      OBVIOUS
    <3> HIDE DEF S
    <3>6. Surfaced(h, surface)
      BY <3>2, <3>3, <3>4, <3>5, ShowsSurfaced
    <3> QED BY <3>1, <3>6
  <2> QED BY <2>2, <2>3
<1> QED BY <1>2, <1>3

LEMMA WindowsSurfaced ==
  ASSUME NEW h, IsHost(h) PROVE Surfaced(h, ParseNetstatWindows(h.sockets))
<1>1. h.sockets \in Seq(ToSet(h.sockets))
  BY DEF IsHost
<1>2. PICK surface : surface = ParseNetstatWindows(h.sockets)
  OBVIOUS
<1>3. Shows(surface, ToSet(h.sockets), "bare")
  BY <1>1, <1>2, WindowsTells, TellsShows
<1>4. surface = [listeners |-> surface.listeners, peers |-> surface.peers, gaps |-> surface.gaps]
  BY <1>2, ToldShape DEF ParseNetstatWindows, Surveyed
<1>5. Surfaced(h, surface)
  BY <1>3, <1>4, ShowsSurfaced
<1> QED BY <1>2, <1>5

LEMMA BsdSurfaced ==
  ASSUME NEW h, IsHost(h) PROVE Surfaced(h, ParseNetstatBsd(h.sockets))
<1>1. h.sockets \in Seq(ToSet(h.sockets))
  BY DEF IsHost
<1>2. PICK surface : surface = ParseNetstatBsd(h.sockets)
  OBVIOUS
<1> DEFINE S == {row \in ToSet(h.sockets) : row.port # 0}
<1>3. Shows(surface, S, "bare")
  <2>1. PICK rows : /\ ToSet(rows) = S
                    /\ TellsOf(surface, rows, {row \in ToSet(rows) : Listens("bare", row)})
    BY <1>1, <1>2, BsdTells
  <2> HIDE DEF S
  <2> QED BY <2>1, TellsShows
<1>4. surface = [listeners |-> surface.listeners, peers |-> surface.peers, gaps |-> surface.gaps]
  BY <1>2, ToldShape DEF ParseNetstatBsd, Surveyed
<1>5. \A row \in ToSet(h.sockets) \ S : ~Listening(row) /\ ~Connected(row)
  BY DEF Listening, Connected
<1>6. S \subseteq ToSet(h.sockets)
  OBVIOUS
<1>7. Surfaced(h, surface)
  <2> HIDE DEF S
  <2> QED BY <1>3, <1>4, <1>5, <1>6, ShowsSurfaced
<1> QED BY <1>2, <1>7

\* What is kept of a list that is cut.
LEMMA FirstOf ==
  ASSUME NEW l, l \in Seq(ToSet(l)), NEW n \in Nat, NEW t, t = First(l, n)
  PROVE  /\ t \in Seq(ToSet(t)) /\ ToSet(t) \subseteq ToSet(l)
         /\ ~(Len(l) > n) => t = l
<1>1. DOMAIN l = 1..Len(l) /\ Len(l) \in Nat
  BY LenProperties
<1>2. CASE Len(l) <= n
  <2>1. t = l
    BY <1>2 DEF First
  <2> QED BY <2>1
<1>3. CASE ~(Len(l) <= n)
  <2>1. t = SubSeq(l, 1, n)
    BY <1>3 DEF First
  <2>2. t \in Seq(ToSet(l)) /\ Len(t) = n /\ \A i \in 1..n : t[i] = l[i]
    BY <1>1, <1>3, <2>1
  <2>3. DOMAIN t = 1..n
    BY <2>2, LenProperties
  <2>4. ToSet(t) \subseteq ToSet(l)
    BY <1>1, <1>3, <2>2, <2>3, ToSetIs
  <2>5. t \in [1..n -> ToSet(t)]
    <3>1. \A i \in DOMAIN t : t[i] \in ToSet(t)
      BY ToSetIs
    <3> QED BY <2>2, <2>3, <3>1
  <2>6. t \in Seq(ToSet(t))
    BY <2>5, SegmentIsSeq
  <2> QED BY <1>1, <1>3, <2>4, <2>6
<1> QED BY <1>2, <1>3

LEMMA TruncateSurfaced ==
  ASSUME NEW h, NEW surface, Surfaced(h, surface) PROVE Surfaced(h, Truncate(surface))
<1> USE CollectorsAssumption
<1>1. PICK l, k, g : l = surface.listeners /\ k = surface.peers /\ g = surface.gaps
  OBVIOUS
<1>2. PICK cut, t, u : cut = Truncate(surface) /\ t = First(l, MaxListeners) /\ u = First(k, MaxPeers)
  OBVIOUS
<1>3. PICK gaps : gaps = g \cup (IF Len(l) > MaxListeners THEN {"listeners"} ELSE {})
                           \cup (IF Len(k) > MaxPeers THEN {"peers"} ELSE {})
  OBVIOUS
<1>4. cut = [listeners |-> t, peers |-> u, gaps |-> gaps]
  BY <1>1, <1>2, <1>3 DEF Truncate
<1>5. /\ cut.listeners = t /\ cut.peers = u /\ cut.gaps = gaps
      /\ cut = [listeners |-> cut.listeners, peers |-> cut.peers, gaps |-> cut.gaps]
  BY <1>4
<1>6. /\ l \in Seq(ToSet(l)) /\ g \subseteq {"listeners", "peers"}
      /\ \A socket \in ToSet(l) : \E row \in ToSet(h.sockets) : socket = Heard(row)
      /\ "listeners" \notin g =>
           \A row \in ToSet(h.sockets) :
             Listening(row) => Skipped(h, row, surface) \/ Heard(row) \in ToSet(l)
      /\ {"listeners", "peers"} \cap g = {} =>
           \A row \in ToSet(h.sockets) :
             Connected(row) => Skipped(h, row, surface) \/ Talks(row) \in ToSet(k)
  BY <1>1 DEF Surfaced
<1>7. /\ t \in Seq(ToSet(t)) /\ ToSet(t) \subseteq ToSet(l)
      /\ ~(Len(l) > MaxListeners) => t = l
  BY <1>2, <1>6, FirstOf
<1>a. k \in Seq(ToSet(k)) /\ u \in Seq(ToSet(u)) /\ MaxPeers \in Nat
  <2>1. k \in Seq(ToSet(k))
    BY <1>1 DEF Surfaced
  <2> QED BY <1>2, <2>1, FirstOf
<1>8. gaps \subseteq {"listeners", "peers"}
  BY <1>3, <1>6
<1>9. "listeners" \notin gaps => "listeners" \notin g /\ t = l
  BY <1>3, <1>7
<1>10. "peers" \notin gaps => "peers" \notin g /\ u = k
  BY <1>2, <1>3 DEF First
<1>11. ASSUME NEW row, Skipped(h, row, surface), "listeners" \notin gaps
       PROVE  Skipped(h, row, cut)
  <2>1. l # <<>> \/ k # <<>>
    BY <1>1, <1>11 DEF Skipped
  <2>2. t # <<>> \/ u # <<>>
    <3>1. CASE l # <<>>
      BY <3>1, <1>9, <1>11
    <3>2. CASE k # <<>> /\ k = u
      BY <3>2
    <3>3. CASE k # u
      <4>1. u = SubSeq(k, 1, MaxPeers) /\ ~(Len(k) <= MaxPeers) /\ MaxPeers \in Nat \ {0}
        BY <3>3, <1>2 DEF First
      <4>2. Len(k) \in Nat
        BY <1>a, LenProperties
      <4>3. Len(u) = MaxPeers
        BY <1>a, <4>1, <4>2
      <4> QED BY <4>1, <4>3
    <3> QED BY <2>1, <3>1, <3>2, <3>3
  <2> QED BY <1>5, <1>11, <2>2 DEF Skipped
<1>12. \A socket \in ToSet(t) : \E row \in ToSet(h.sockets) : socket = Heard(row)
  BY <1>6, <1>7
<1>13. "listeners" \notin gaps =>
         \A row \in ToSet(h.sockets) :
           Listening(row) => Skipped(h, row, cut) \/ Heard(row) \in ToSet(t)
  BY <1>6, <1>9, <1>11
<1>14. {"listeners", "peers"} \cap gaps = {} =>
         \A row \in ToSet(h.sockets) :
           Connected(row) => Skipped(h, row, cut) \/ Talks(row) \in ToSet(u)
  BY <1>6, <1>9, <1>10, <1>11
<1>15. Surfaced(h, cut)
  BY <1>5, <1>7, <1>a, <1>8, <1>12, <1>13, <1>14 DEF Surfaced
<1> QED BY <1>2, <1>15

LEMMA NetworkSurfaced ==
  ASSUME NEW h, IsHost(h) PROVE Surfaced(h, CollectNetwork(h))
<1>1. h.platform \in {"windows", "linux", "macos", "unknown"}
  BY DEF IsHost, Platforms
<1>2. PICK surface : Surfaced(h, surface) /\ CollectNetwork(h) = Truncate(surface)
  <2>1. CASE h.platform = "linux"
    BY <2>1, LinuxSurfaced DEF CollectNetwork
  <2>2. CASE h.platform = "windows"
    BY <2>2, WindowsSurfaced, GapSurfaced DEF CollectNetwork
  <2>3. CASE h.platform = "macos"
    BY <2>3, BsdSurfaced, GapSurfaced DEF CollectNetwork
  <2>4. CASE h.platform = "unknown"
    BY <2>4, GapSurfaced DEF CollectNetwork
  <2> QED BY <1>1, <2>1, <2>2, <2>3, <2>4
<1> QED BY <1>2, TruncateSurfaced
-----------------------------------------------------------------------------
\* The authentication record.

\* Events as they are parsed, before they are added up.
Raw(events) ==
  /\ events \in Seq(ToSet(events))
  /\ \A e \in ToSet(events) : e = AuthEvent(e.source, e.username, e.outcome, 1)

Likes(events, e) ==
  {d \in ToSet(events) : /\ d.source = e.source
                         /\ d.username = e.username
                         /\ d.outcome = e.outcome}

LEMMA SummedIs ==
  ASSUME NEW events, Raw(events), NEW e \in ToSet(events),
         NEW n, n = Cardinality(Hits(events, Likes(events, e)))
  PROVE  /\ Summed(events, e) = AuthEvent(e.source, e.username, e.outcome, n)
         /\ n \in Nat /\ n > 0
<1> DEFINE T == Likes(events, e)
<1>1. events \in Seq(ToSet(events)) /\ \A i \in DOMAIN events : events[i] \in ToSet(events)
  BY ToSetIs DEF Raw
<1>2. PICK same : same = Same(events, e)
  OBVIOUS
<1>3. same = FlattenSeq([i \in DOMAIN events |-> IF events[i] \in T THEN <<events[i]>> ELSE <<>>])
  BY <1>1, <1>2 DEF Same, Where, Likes
<1>4. e \in T
  BY DEF Likes
<1>5. T \subseteq ToSet(events)
  BY DEF Likes
<1> HIDE DEF T
<1>6. /\ same \in Seq(ToSet(same)) /\ ToSet(same) = ToSet(events) \cap T
      /\ DOMAIN same = 1..Len(same) /\ Len(same) \in Nat
  BY <1>1, <1>3, Selected, SMTT(30)
<1>7. Len(same) = Cardinality(Hits(events, T))
  BY <1>1, <1>3, SelectedLength
<1>8. PICK counts : counts = [i \in DOMAIN same |-> same[i].count]
  OBVIOUS
<1>9. \A i \in 1..Len(same) : same[i] \in ToSet(events)
  BY <1>6, ToSetIs
<1>10. \A d \in ToSet(events) : d.count = 1
  BY DEF Raw, AuthEvent
<1>11. /\ counts \in [1..Len(same) -> Nat] /\ \A i \in 1..Len(same) : counts[i] = 1
  BY <1>6, <1>8, <1>9, <1>10
<1>12. Total(counts) = Len(same)
  <2>1. counts \in Seq(Nat) /\ Len(counts) = Len(same)
    BY <1>6, <1>11, SegmentIsSeq
  <2> QED BY <2>1, <1>11, TotalNat
<1>13. Summed(events, e) = [e EXCEPT !.count = Len(same)]
  BY <1>2, <1>8, <1>12 DEF Summed
<1>14. Len(same) > 0
  <2>1. e \in ToSet(same)
    BY <1>4, <1>6
  <2>2. PICK i \in DOMAIN same : e = same[i]
    BY <2>1, ToSetIs
  <2> QED BY <2>2, <1>6
<1>15. e = AuthEvent(e.source, e.username, e.outcome, 1)
  BY DEF Raw
<1>16. [e EXCEPT !.count = Len(same)] = AuthEvent(e.source, e.username, e.outcome, Len(same))
  <2>1. PICK a, b, c : a = e.source /\ b = e.username /\ c = e.outcome
    OBVIOUS
  <2>2. e = [source |-> a, username |-> b, outcome |-> c, count |-> 1]
    BY <1>15, <2>1 DEF AuthEvent
  <2>3. [e EXCEPT !.count = Len(same)]
          = [source |-> a, username |-> b, outcome |-> c, count |-> Len(same)]
    BY <2>2
  <2> QED BY <2>1, <2>3 DEF AuthEvent
<1> QED BY <1>6, <1>7, <1>13, <1>14, <1>16 DEF T

LEMMA Aggregated ==
  ASSUME NEW events, Raw(events), NEW agg, agg = Aggregate(events)
  PROVE  /\ agg \in Seq(ToSet(agg))
         /\ \A row \in ToSet(agg) : \E e \in ToSet(events) : row = Summed(events, e)
         /\ Len(agg) < MaxEvents => \A e \in ToSet(events) : Summed(events, e) \in ToSet(agg)
<1> USE CollectorsAssumption
<1> DEFINE E == ToSet(events)
           rows == {Summed(events, e) : e \in E}
           counts == {row.count : row \in rows}
           most == Max({0} \cup counts)
           sets == [k \in 1..most |-> {row \in rows : row.count = most + 1 - k}]
           sorted == InTurn(sets)
<1>1. agg = SubSeq(sorted, 1, Min({Len(sorted), MaxEvents}))
  BY DEF Aggregate
<1>2. IsFiniteSet(E)
  <2>1. events \in Seq(E)
    BY DEF Raw
  <2> QED BY <2>1, SeqFinite
<1>3. IsFiniteSet(rows)
  <2>1. PICK g : g = [e \in E |-> Summed(events, e)]
    OBVIOUS
  <2>2. rows = {g[e] : e \in E} /\ DOMAIN g = E
    BY <2>1
  <2> HIDE DEF rows, E
  <2> QED BY <2>2, <1>2, ImageFinite
<1>4. \A e \in E : Summed(events, e).count \in Nat /\ Summed(events, e).count > 0
  <2> SUFFICES ASSUME NEW e \in E
               PROVE  Summed(events, e).count \in Nat /\ Summed(events, e).count > 0
    OBVIOUS
  <2>1. PICK n : n = Cardinality(Hits(events, Likes(events, e)))
    OBVIOUS
  <2>2. Summed(events, e) = AuthEvent(e.source, e.username, e.outcome, n) /\ n \in Nat /\ n > 0
    BY <2>1, SummedIs
  <2> QED BY <2>2 DEF AuthEvent
<1>5. \A row \in rows : row.count \in Nat /\ row.count > 0
  BY <1>4
<1>6. \A row : row \in rows <=> \E e \in E : row = Summed(events, e)
  OBVIOUS
<1> HIDE DEF E, rows
<1>7. IsFiniteSet(counts) /\ counts \subseteq Nat
  <2>1. PICK g : g = [row \in rows |-> row.count]
    OBVIOUS
  <2>2. counts = {g[row] : row \in rows} /\ DOMAIN g = rows
    BY <2>1
  <2> HIDE DEF counts
  <2>3. IsFiniteSet(counts)
    BY <2>2, <1>3, ImageFinite
  <2> QED BY <2>3, <1>5 DEF counts
<1>8. most \in Nat /\ \A c \in counts : most >= c
  <2>1. IsFiniteSet({0} \cup counts)
    <3>1. IsFiniteSet({0})
      BY FS_Singleton
    <3> HIDE DEF counts
    <3> QED BY <3>1, <1>7, FS_Union
  <2>2. PICK S : S = {0} \cup counts
    OBVIOUS
  <2>3. S \in SUBSET Nat /\ S # {} /\ IsFiniteSet(S)
    BY <2>1, <2>2, <1>7
  <2>4. Max(S) \in S /\ \A y \in S : Max(S) >= y
    BY <2>3, FiniteMax
  <2> HIDE DEF counts
  <2> QED BY <2>2, <2>3, <2>4
<1>9. \A row \in rows : row.count <= most /\ row.count \in 1..most
  <2> SUFFICES ASSUME NEW row \in rows PROVE row.count <= most /\ row.count \in 1..most
    OBVIOUS
  <2>1. row.count \in counts
    OBVIOUS
  <2> HIDE DEF counts, most
  <2> QED BY <2>1, <1>5, <1>8
<1> HIDE DEF counts, most
<1>10. sets \in [1..most -> SUBSET rows] /\ \A k \in 1..most : IsFiniteSet(sets[k])
  <2>1. sets \in [1..most -> SUBSET rows]
    OBVIOUS
  <2>2. \A k \in 1..most : sets[k] \in SUBSET rows
    BY <2>1
  <2> HIDE DEF sets
  <2> QED BY <2>1, <2>2, <1>3, FS_Subset
<1>11. \A row : row \in rows <=> \E k \in 1..most : row \in sets[k]
  <2>1. ASSUME NEW row \in rows PROVE \E k \in 1..most : row \in sets[k]
    <3>1. PICK k : k = most + 1 - row.count
      OBVIOUS
    <3>2. k \in 1..most /\ row.count = most + 1 - k
      BY <3>1, <1>8, <1>9, <1>5
    <3> QED BY <3>2, <2>1
  <2> QED BY <2>1
<1> HIDE DEF sets
<1>12. sorted \in Seq(rows) /\ ToSet(sorted) = rows
  <2>1. sorted \in Seq(rows) /\ Arranges(sorted, sets)
    BY <1>8, <1>10, InTurnArranges
  <2>2. \A row : row \in ToSet(sorted) <=> \E k \in DOMAIN sets : row \in sets[k]
    BY <2>1 DEF Arranges
  <2>3. DOMAIN sets = 1..most
    BY <1>10
  <2> HIDE DEF sorted
  <2>4. \A row : row \in ToSet(sorted) <=> row \in rows
    BY <2>2, <2>3, <1>11
  <2> QED BY <2>1, <2>4
<1> HIDE DEF sorted
<1>13. Len(sorted) \in Nat /\ DOMAIN sorted = 1..Len(sorted)
  BY <1>12, LenProperties
<1>14. PICK m : m = Min({Len(sorted), MaxEvents})
  OBVIOUS
<1>15. m = IF Len(sorted) <= MaxEvents THEN Len(sorted) ELSE MaxEvents
  BY <1>13, <1>14, MinOfTwo
<1>16. agg \in Seq(rows) /\ Len(agg) = m /\ \A i \in 1..m : agg[i] = sorted[i]
  <2>1. agg = SubSeq(sorted, 1, m)
    BY <1>1, <1>14
  <2>2. m \in Nat /\ m <= Len(sorted)
    BY <1>13, <1>15
  <2> QED BY <2>1, <2>2, <1>12, <1>13
<1>17. DOMAIN agg = 1..m /\ m \in Nat
  BY <1>16, LenProperties
<1>18. agg \in Seq(ToSet(agg))
  <2>1. agg \in [1..m -> ToSet(agg)]
    BY <1>16, <1>17, ToSetIs
  <2> QED BY <2>1, <1>17, SegmentIsSeq
<1>19. ToSet(agg) \subseteq rows
  BY <1>16, SeqFinite
<1>20. Len(agg) < MaxEvents => rows \subseteq ToSet(agg)
  <2> SUFFICES ASSUME Len(agg) < MaxEvents, NEW row \in rows PROVE row \in ToSet(agg)
    OBVIOUS
  <2>a. m < MaxEvents
    BY <1>16
  <2>1. m = Len(sorted)
    <3>1. MaxEvents \in Nat /\ Len(sorted) \in Nat
      BY <1>13
    <3>2. CASE Len(sorted) <= MaxEvents
      BY <3>2, <1>15
    <3>3. CASE ~(Len(sorted) <= MaxEvents)
      <4>1. m = MaxEvents
        BY <3>3, <1>15
      <4> QED BY <4>1, <3>1, <2>a
    <3> QED BY <3>2, <3>3
  <2>2. PICK i \in 1..Len(sorted) : row = sorted[i]
    BY <1>12, <1>13, ToSetIs
  <2> QED BY <2>1, <2>2, <1>16, <1>17, ToSetIs
<1> QED BY <1>6, <1>18, <1>19, <1>20 DEF E
FailedLines(lines, source) ==
  {line \in ToSet(lines) : line.source = source /\ line.kind \in FailureKinds}
FailedEvents(events, source) ==
  {e \in ToSet(events) : e.source = source /\ e.outcome = "failure"}

\* The event of a line, if it tells of an attempt.
Telling(line) == line.kind \in FailureKinds \cup {"accepted"}
EventOf(line) == AuthEvent(line.source, {line.username},
                           IF line.kind = "accepted" THEN "success" ELSE "failure", 1)

\* Lines are parsed to raw events, every line of a failure to a failure.
LEMMA Parsed ==
  ASSUME NEW lines, lines \in Seq(ToSet(lines)), NEW events,
         events = FlattenSeq([i \in DOMAIN lines |-> ParseLine(lines[i])])
  PROVE  /\ Raw(events)
         /\ \A line \in ToSet(lines) : Telling(line) => EventOf(line) \in ToSet(events)
         /\ \A source : Cardinality(Hits(lines, FailedLines(lines, source)))
                          <= Cardinality(Hits(events, FailedEvents(events, source)))
<1> DEFINE U == {AuthEvent(line.source, {line.username}, "failure", 1) : line \in ToSet(lines)}
                  \cup {AuthEvent(line.source, {line.username}, "success", 1) : line \in ToSet(lines)}
           n == Len(lines)
<1>1. n \in Nat /\ DOMAIN lines = 1..n /\ \A i \in 1..n : lines[i] \in ToSet(lines)
  BY ToSetIs
<1>2. PICK g : g = [i \in DOMAIN lines |-> ParseLine(lines[i])]
  OBVIOUS
<1>a. \A line \in ToSet(lines) :
        /\ AuthEvent(line.source, {line.username}, "failure", 1) \in U
        /\ AuthEvent(line.source, {line.username}, "success", 1) \in U
  OBVIOUS
<1>4. \A e \in U : e = AuthEvent(e.source, e.username, e.outcome, 1)
  BY DEF AuthEvent
<1> HIDE DEF U, n
<1>3. \A line \in ToSet(lines) :
        /\ ParseLine(line) \in Seq(U)
        /\ line.kind \in FailureKinds
             => ParseLine(line) = <<AuthEvent(line.source, {line.username}, "failure", 1)>>
        /\ line.kind = "accepted"
             => ParseLine(line) = <<AuthEvent(line.source, {line.username}, "success", 1)>>
  <2> SUFFICES ASSUME NEW line \in ToSet(lines)
               PROVE  /\ ParseLine(line) \in Seq(U)
                      /\ line.kind \in FailureKinds
                           => ParseLine(line) = <<AuthEvent(line.source, {line.username}, "failure", 1)>>
                      /\ line.kind = "accepted"
                           => ParseLine(line) = <<AuthEvent(line.source, {line.username}, "success", 1)>>
    OBVIOUS
  <2> DEFINE a == AuthEvent(line.source, {line.username}, "failure", 1)
             b == AuthEvent(line.source, {line.username}, "success", 1)
  <2>1. a \in U /\ b \in U
    BY <1>a
  <2>2. ParseLine(line) = CASE line.kind \in FailureKinds -> <<a>>
                            [] line.kind = "accepted" -> <<b>>
                            [] OTHER -> <<>>
    BY DEF ParseLine, FailureKinds
  <2>3. "accepted" \notin FailureKinds
    BY DEF FailureKinds
  <2> HIDE DEF U, a, b, FailureKinds
  <2>4. <<a>> \in Seq(U) /\ <<b>> \in Seq(U) /\ <<>> \in Seq(U)
    BY <2>1
  <2>5. CASE line.kind \in FailureKinds
    BY <2>2, <2>3, <2>4, <2>5 DEF a
  <2>6. CASE line.kind = "accepted"
    BY <2>2, <2>3, <2>4, <2>6 DEF b
  <2>7. CASE line.kind \notin FailureKinds /\ line.kind # "accepted"
    BY <2>2, <2>4, <2>7
  <2> QED BY <2>5, <2>6, <2>7
<1>5. g \in Seq(Seq(U)) /\ DOMAIN g = 1..n /\ \A i \in 1..n : g[i] = ParseLine(lines[i])
  <2>1. DOMAIN g = 1..n /\ \A i \in 1..n : g[i] = ParseLine(lines[i])
    BY <1>1, <1>2
  <2>2. g \in [1..n -> Seq(U)]
    BY <2>1, <1>1, <1>2, <1>3
  <2> QED BY <2>1, <2>2, <1>1, SegmentIsSeq
<1>6. events \in Seq(U) /\ events = FlattenSeq(g)
  BY <1>2, <1>5, FlattenValues
<1>7. events \in Seq(ToSet(events)) /\ ToSet(events) \subseteq U
  <2>1. events \in Seq(U)
    BY <1>6
  <2> QED BY <2>1, SeqOwn
<1>8. Raw(events)
  BY <1>4, <1>7 DEF Raw
<1>9. ASSUME NEW source
      PROVE  Cardinality(Hits(lines, FailedLines(lines, source)))
               <= Cardinality(Hits(events, FailedEvents(events, source)))
  <2> DEFINE I == Hits(lines, FailedLines(lines, source))
             E == {e \in U : e.source = source /\ e.outcome = "failure"}
  <2>1. I \in SUBSET DOMAIN g
    BY <1>1, <1>5 DEF Hits
  <2>2. \A i \in I : \E a \in DOMAIN g[i] : g[i][a] \in E
    <3> SUFFICES ASSUME NEW i \in I PROVE \E a \in DOMAIN g[i] : g[i][a] \in E
      OBVIOUS
    <3>1. i \in 1..n /\ lines[i] \in ToSet(lines) /\ lines[i].source = source
            /\ lines[i].kind \in FailureKinds
      BY <1>1 DEF Hits, FailedLines
    <3>2. g[i] = <<AuthEvent(lines[i].source, {lines[i].username}, "failure", 1)>>
      BY <3>1, <1>3, <1>5
    <3>3. PICK e : e = AuthEvent(lines[i].source, {lines[i].username}, "failure", 1)
      OBVIOUS
    <3>4. e \in U /\ e.source = source /\ e.outcome = "failure"
      BY <3>1, <3>3, <1>a DEF AuthEvent
    <3>5. 1 \in DOMAIN g[i] /\ g[i][1] = e
      BY <3>2, <3>3
    <3> QED BY <3>4, <3>5
  <2> HIDE DEF I, E
  <2>3. Cardinality(I) <= Cardinality(Hits(events, E))
    BY <2>1, <2>2, <1>5, <1>6, FlatAtLeast
  <2>4. Hits(events, E) = Hits(events, FailedEvents(events, source))
    <3>1. \A i \in DOMAIN events : events[i] \in ToSet(events) /\ events[i] \in U
      BY <1>7, ToSetIs
    <3> QED BY <3>1 DEF Hits, FailedEvents, E
  <2> QED BY <2>3, <2>4 DEF I
<1>10. ASSUME NEW line \in ToSet(lines), Telling(line)
       PROVE  EventOf(line) \in ToSet(events)
  <2>1. PICK i \in 1..n : line = lines[i]
    BY <1>1, ToSetIs
  <2>2. PICK e : e = EventOf(line)
    OBVIOUS
  <2>3. ParseLine(line) = <<e>>
    <3>1. "accepted" \notin FailureKinds
      BY DEF FailureKinds
    <3>2. CASE line.kind = "accepted"
      BY <1>3, <2>2, <3>2 DEF EventOf
    <3>3. CASE line.kind \in FailureKinds
      BY <1>3, <2>2, <3>1, <3>3 DEF EventOf
    <3> QED BY <1>10, <3>2, <3>3 DEF Telling
  <2>4. g[i] = <<e>>
    BY <1>5, <2>1, <2>3
  <2>5. e \in ToSet(g[i])
    <3>1. DOMAIN <<e>> = {1} /\ <<e>>[1] = e
      OBVIOUS
    <3> QED BY <2>4, <3>1, ToSetIs
  <2>6. e \in ValuesIn(g)
    BY <1>5, <2>5 DEF ValuesIn
  <2> QED BY <1>5, <1>6, <2>2, <2>6, FlattenValues
<1> QED BY <1>8, <1>9, <1>10

\* Where loses nothing of what passes its test.
LEMMA SelectedKeeps ==
  ASSUME NEW s, s \in Seq(ToSet(s)), NEW T, NEW F, F \subseteq T, NEW r,
         r = FlattenSeq([i \in DOMAIN s |-> IF s[i] \in T THEN <<s[i]>> ELSE <<>>])
  PROVE  Cardinality(Hits(s, F)) <= Cardinality(Hits(r, F))
<1> DEFINE U == ToSet(s)
           n == Len(s)
<1>1. n \in Nat /\ DOMAIN s = 1..n /\ \A i \in 1..n : s[i] \in U
  BY ToSetIs
<1>2. PICK g : g = [i \in DOMAIN s |-> IF s[i] \in T THEN <<s[i]>> ELSE <<>>]
  OBVIOUS
<1> HIDE DEF U, n
<1>3. /\ DOMAIN g = 1..n
      /\ \A i \in 1..n : g[i] \in Seq(U) /\ (s[i] \in T => g[i] = <<s[i]>>)
  <2> SUFFICES ASSUME NEW i \in 1..n
               PROVE  g[i] \in Seq(U) /\ (s[i] \in T => g[i] = <<s[i]>>)
    BY <1>1, <1>2
  <2>1. CASE s[i] \in T
    BY <1>1, <1>2, <2>1
  <2>2. CASE s[i] \notin T
    BY <1>1, <1>2, <2>2
  <2> QED BY <2>1, <2>2
<1>4. g \in Seq(Seq(U))
  <2>1. g \in [1..n -> Seq(U)]
    BY <1>1, <1>2, <1>3
  <2> QED BY <2>1, <1>1, SegmentIsSeq
<1>5. Hits(s, F) \in SUBSET DOMAIN g
  BY <1>1, <1>3 DEF Hits
<1>6. \A i \in Hits(s, F) : \E a \in DOMAIN g[i] : g[i][a] \in F
  <2> SUFFICES ASSUME NEW i \in Hits(s, F) PROVE \E a \in DOMAIN g[i] : g[i][a] \in F
    OBVIOUS
  <2>1. i \in 1..n /\ s[i] \in F
    BY <1>1 DEF Hits
  <2>2. g[i] = <<s[i]>>
    BY <2>1, <1>3
  <2> QED BY <2>1, <2>2
<1> QED BY <1>2, <1>4, <1>5, <1>6, FlatAtLeast

\* The rows of one source and its failures add up to at least its events.
LEMMA AttemptsCount ==
  ASSUME NEW events, Raw(events), NEW agg, agg \in Seq(ToSet(agg)),
         \A row \in ToSet(agg) : \E e \in ToSet(events) : row = Summed(events, e),
         \A e \in ToSet(events) : Summed(events, e) \in ToSet(agg),
         NEW snapshot, snapshot.auth_events = agg, NEW source
  PROVE  /\ Attempts(snapshot, source, "failure") \in Nat
         /\ Cardinality(Hits(events, FailedEvents(events, source)))
              <= Attempts(snapshot, source, "failure")
         /\ FailedEvents(events, source) # {} => source \in Sources(snapshot)
<1> DEFINE F == Hits(events, FailedEvents(events, source))
           n == Len(agg)
<1>1. PICK numbers : numbers = [i \in DOMAIN agg |->
                                  IF agg[i].source = source /\ agg[i].outcome = "failure"
                                  THEN agg[i].count ELSE 0]
  OBVIOUS
<1>2. Attempts(snapshot, source, "failure") = Total(numbers)
  BY <1>1 DEF Attempts
<1>3. n \in Nat /\ DOMAIN agg = 1..n /\ \A i \in 1..n : agg[i] \in ToSet(agg)
  BY Where2Seq
<1>4. \A e \in ToSet(events) :
        LET m == Cardinality(Hits(events, Likes(events, e)))
        IN /\ m \in Nat /\ Summed(events, e).count = m
           /\ Summed(events, e).source = e.source /\ Summed(events, e).outcome = e.outcome
           /\ Summed(events, e).username = e.username
  <2> SUFFICES ASSUME NEW e \in ToSet(events), NEW m,
                      m = Cardinality(Hits(events, Likes(events, e)))
               PROVE  /\ m \in Nat /\ Summed(events, e).count = m
                      /\ Summed(events, e).source = e.source
                      /\ Summed(events, e).outcome = e.outcome
                      /\ Summed(events, e).username = e.username
    OBVIOUS
  <2>1. Summed(events, e) = AuthEvent(e.source, e.username, e.outcome, m) /\ m \in Nat
    BY SummedIs
  <2> QED BY <2>1 DEF AuthEvent
<1> HIDE DEF n
<1>5. \A i \in 1..n : \E e \in ToSet(events) :
        /\ agg[i].count = Cardinality(Hits(events, Likes(events, e)))
        /\ agg[i].count \in Nat
        /\ agg[i].source = e.source /\ agg[i].outcome = e.outcome /\ agg[i].username = e.username
  BY <1>3, <1>4
<1>6. /\ numbers \in Seq(Nat) /\ Len(numbers) = n
      /\ \A i \in 1..n : numbers[i] = IF agg[i].source = source /\ agg[i].outcome = "failure"
                                      THEN agg[i].count ELSE 0
  <2>1. \A i \in 1..n : numbers[i] = IF agg[i].source = source /\ agg[i].outcome = "failure"
                                     THEN agg[i].count ELSE 0
    BY <1>1, <1>3
  <2>2. \A i \in 1..n : numbers[i] \in Nat
    BY <2>1, <1>5
  <2>3. numbers \in [1..n -> Nat]
    BY <1>1, <1>3, <2>2
  <2> QED BY <2>1, <2>3, <1>3, SegmentIsSeq
<1>7. PICK f : Sums(f, numbers, Nat)
  BY <1>6, TotalSteps
<1>8. /\ f \in [0..n -> Nat] /\ f[0] = 0 /\ Total(numbers) = f[n]
      /\ \A i \in 1..n : f[i] = f[i - 1] + numbers[i]
  BY <1>6, <1>7 DEF Sums
<1>9. IsFiniteSet(F) /\ \A j \in F : /\ j \in DOMAIN events /\ events[j] \in ToSet(events)
                                     /\ events[j].source = source
                                     /\ events[j].outcome = "failure"
  <2>1. events \in Seq(ToSet(events))
    BY DEF Raw
  <2>2. IsFiniteSet(F)
    BY <2>1, HitsFinite
  <2> QED BY <2>2 DEF Hits, FailedEvents
<1> HIDE DEF F
<1> DEFINE Of(i) == {j \in F : /\ events[j].source = agg[i].source
                               /\ events[j].outcome = agg[i].outcome
                               /\ events[j].username = agg[i].username}
           K(k) == {j \in F : \E i \in 1..k : j \in Of(i)}
           T == {k \in 0..n : Cardinality(K(k)) <= f[k]}
<1>10. \A k : IsFiniteSet(K(k)) /\ Cardinality(K(k)) \in Nat
  <2> SUFFICES ASSUME NEW k PROVE IsFiniteSet(K(k)) /\ Cardinality(K(k)) \in Nat
    OBVIOUS
  <2>1. K(k) \in SUBSET F
    OBVIOUS
  <2> HIDE DEF K
  <2>2. IsFiniteSet(K(k))
    BY <2>1, <1>9, FS_Subset
  <2> QED BY <2>2, FS_CardinalityType
<1>11. \A i \in 1..n : IsFiniteSet(Of(i)) /\ Cardinality(Of(i)) \in Nat
                       /\ Cardinality(Of(i)) <= numbers[i]
  <2> SUFFICES ASSUME NEW i \in 1..n
               PROVE  IsFiniteSet(Of(i)) /\ Cardinality(Of(i)) \in Nat
                      /\ Cardinality(Of(i)) <= numbers[i]
    OBVIOUS
  <2>1. Of(i) \in SUBSET F
    OBVIOUS
  <2>2. IsFiniteSet(Of(i)) /\ Cardinality(Of(i)) \in Nat
    <3> HIDE DEF Of
    <3>1. IsFiniteSet(Of(i))
      BY <2>1, <1>9, FS_Subset
    <3> QED BY <3>1, FS_CardinalityType
  <2>3. CASE agg[i].source = source /\ agg[i].outcome = "failure"
    <3>1. PICK e \in ToSet(events) :
            /\ agg[i].count = Cardinality(Hits(events, Likes(events, e)))
            /\ agg[i].source = e.source /\ agg[i].outcome = e.outcome
            /\ agg[i].username = e.username
      BY <1>5
    <3>2. PICK H : H = Hits(events, Likes(events, e))
      OBVIOUS
    <3>3. Of(i) \in SUBSET H
      BY <3>1, <3>2, <1>9 DEF Hits, Likes
    <3>4. IsFiniteSet(H)
      <4>1. events \in Seq(ToSet(events))
        BY DEF Raw
      <4> QED BY <4>1, <3>2, HitsFinite
    <3>5. Cardinality(Of(i)) <= Cardinality(H)
      <4> HIDE DEF Of
      <4> QED BY <3>3, <3>4, FS_Subset
    <3> HIDE DEF Of
    <3>6. numbers[i] = Cardinality(H)
      BY <2>3, <1>6, <3>1, <3>2
    <3> QED BY <2>2, <3>5, <3>6
  <2>4. CASE ~(agg[i].source = source /\ agg[i].outcome = "failure")
    <3>1. Of(i) = {}
      BY <2>4, <1>9
    <3>2. numbers[i] = 0
      BY <2>4, <1>6
    <3>3. Cardinality(Of(i)) = 0
      BY <3>1, FS_EmptySet
    <3> HIDE DEF Of
    <3> QED BY <2>2, <3>2, <3>3
  <2> QED BY <2>3, <2>4
<1>12. 0 \in T
  <2>1. K(0) = {}
    OBVIOUS
  <2>2. Cardinality(K(0)) = 0
    BY <2>1, FS_EmptySet
  <2> HIDE DEF K
  <2> QED BY <2>2, <1>3, <1>8
<1>13. ASSUME NEW k \in 0..(n - 1), k \in T PROVE k + 1 \in T
  <2>1. k + 1 \in 1..n /\ (k + 1) - 1 = k /\ k + 1 \in 0..n /\ k \in 0..n
    BY <1>3
  <2>2. K(k + 1) = K(k) \cup Of(k + 1)
    <3>1. \A i : i \in 1..(k + 1) <=> i \in 1..k \/ i = k + 1
      BY <2>1, <1>3
    <3> HIDE DEF Of
    <3>2. \A j \in F : j \in K(k + 1) <=> j \in K(k) \/ j \in Of(k + 1)
      BY <3>1
    <3>3. Of(k + 1) \subseteq F
      BY DEF Of
    <3> QED BY <3>2, <3>3
  <2>3. /\ IsFiniteSet(K(k)) /\ Cardinality(K(k)) \in Nat /\ IsFiniteSet(Of(k + 1))
        /\ Cardinality(Of(k + 1)) \in Nat /\ Cardinality(Of(k + 1)) <= numbers[k + 1]
    <3> HIDE DEF K, Of
    <3> QED BY <2>1, <1>10, <1>11
  <2>4. Cardinality(K(k)) <= f[k]
    BY <1>13
  <2>5. PICK A, B : A = K(k) /\ B = Of(k + 1)
    OBVIOUS
  <2> HIDE DEF K, Of
  <2>6. Cardinality(A \cup B) = Cardinality(A) + Cardinality(B) - Cardinality(A \cap B)
    BY <2>3, <2>5, FS_Union
  <2>7. Cardinality(A \cap B) \in Nat
    <3>1. A \cap B \in SUBSET A
      OBVIOUS
    <3>2. IsFiniteSet(A \cap B)
      BY <3>1, <2>3, <2>5, FS_Subset
    <3> QED BY <3>2, FS_CardinalityType
  <2>8. f[k + 1] = f[k] + numbers[k + 1] /\ f[k] \in Nat /\ numbers[k + 1] \in Nat
    <3>1. numbers[k + 1] \in Nat
      BY <2>1, <1>6
    <3> QED BY <3>1, <2>1, <1>8
  <2>9. Cardinality(K(k + 1)) <= f[k + 1]
    <3>1. Cardinality(A) \in Nat /\ Cardinality(B) \in Nat
          /\ Cardinality(A) <= f[k] /\ Cardinality(B) <= numbers[k + 1]
      BY <2>3, <2>4, <2>5
    <3>2. Cardinality(A \cup B) <= f[k + 1]
      BY <3>1, <2>6, <2>7, <2>8
    <3> QED BY <3>2, <2>2, <2>5
  <2> QED BY <2>1, <2>9
<1>14. n \in T
  <2> HIDE DEF T
  <2>1. 0..n \subseteq T
    BY <1>3, <1>12, <1>13, UpTo
  <2> QED BY <2>1, <1>3
<1>15. \A e \in ToSet(events) : \E i \in 1..n :
         e.source = agg[i].source /\ e.outcome = agg[i].outcome /\ e.username = agg[i].username
  <2> SUFFICES ASSUME NEW e \in ToSet(events)
               PROVE  \E i \in 1..n : /\ e.source = agg[i].source
                                      /\ e.outcome = agg[i].outcome
                                      /\ e.username = agg[i].username
    OBVIOUS
  <2>1. PICK i \in 1..n : Summed(events, e) = agg[i]
    BY <1>3, ToSetIs
  <2> QED BY <2>1, <1>4
<1>16. K(n) = F
  BY <1>9, <1>15
<1>17. Cardinality(F) <= f[n]
  BY <1>14, <1>16
<1>18. FailedEvents(events, source) # {} => source \in Sources(snapshot)
  <2> SUFFICES ASSUME NEW e \in FailedEvents(events, source) PROVE source \in Sources(snapshot)
    OBVIOUS
  <2>1. e \in ToSet(events) /\ e.source = source
    BY DEF FailedEvents
  <2>2. PICK i \in 1..n : e.source = agg[i].source
    BY <2>1, <1>15
  <2>3. PICK row : row = agg[i] /\ row \in ToSet(agg) /\ row.source = source
    BY <2>1, <2>2, <1>3
  <2> QED BY <2>3 DEF Sources
<1> QED BY <1>2, <1>3, <1>8, <1>17, <1>18 DEF F
\* What the lists of a snapshot say of a source that failed so often.
Pressure(snapshot, source, failures) ==
  /\ Attempts(snapshot, source, "failure") \in Nat
  /\ failures <= Attempts(snapshot, source, "failure")
  /\ failures > 0 => source \in Sources(snapshot)

LEMMA LogRead ==
  ASSUME NEW lines, lines \in Seq(ToSet(lines)), NEW agg, agg = ParseLog(lines)
  PROVE  /\ agg \in Seq(ToSet(agg))
         /\ Len(agg) < MaxEvents =>
              /\ \A line \in ToSet(lines) :
                   FromElsewhere(line) => \E event \in ToSet(agg) : ShownBy(line, event)
              /\ \A snapshot, source : snapshot.auth_events = agg =>
                   Pressure(snapshot, source, Cardinality(Hits(lines, FailedLines(lines, source))))
<1>1. PICK events : events = FlattenSeq([i \in DOMAIN lines |-> ParseLine(lines[i])])
  OBVIOUS
<1>2. /\ Raw(events)
      /\ \A line \in ToSet(lines) : Telling(line) => EventOf(line) \in ToSet(events)
      /\ \A source : Cardinality(Hits(lines, FailedLines(lines, source)))
                       <= Cardinality(Hits(events, FailedEvents(events, source)))
  BY <1>1, Parsed
<1>3. agg = Aggregate(events)
  BY <1>1 DEF ParseLog
<1>4. /\ agg \in Seq(ToSet(agg))
      /\ \A row \in ToSet(agg) : \E e \in ToSet(events) : row = Summed(events, e)
      /\ Len(agg) < MaxEvents => \A e \in ToSet(events) : Summed(events, e) \in ToSet(agg)
  BY <1>2, <1>3, Aggregated
<1>5. events \in Seq(ToSet(events))
  BY <1>2 DEF Raw
<1>6. ASSUME Len(agg) < MaxEvents, NEW snapshot, NEW source, snapshot.auth_events = agg
      PROVE  Pressure(snapshot, source, Cardinality(Hits(lines, FailedLines(lines, source))))
  <2>1. PICK a, b : /\ a = Cardinality(Hits(lines, FailedLines(lines, source)))
                    /\ b = Cardinality(Hits(events, FailedEvents(events, source)))
    OBVIOUS
  <2>2. /\ Attempts(snapshot, source, "failure") \in Nat
        /\ b <= Attempts(snapshot, source, "failure")
        /\ FailedEvents(events, source) # {} => source \in Sources(snapshot)
    <3>1. \A e \in ToSet(events) : Summed(events, e) \in ToSet(agg)
      BY <1>4, <1>6
    <3>2. \A row \in ToSet(agg) : \E e \in ToSet(events) : row = Summed(events, e)
      BY <1>4
    <3>3. agg \in Seq(ToSet(agg))
      BY <1>4
    <3> QED BY <1>2, <1>6, <2>1, <3>1, <3>2, <3>3, AttemptsCount
  <2>3. a \in Nat /\ b \in Nat /\ a <= b
    BY <1>2, <1>5, <2>1, HitsFinite
  <2>4. FailedEvents(events, source) = {} => b = 0
    <3>1. FailedEvents(events, source) = {} => Hits(events, FailedEvents(events, source)) = {}
      BY DEF Hits
    <3> QED BY <2>1, <3>1, FS_EmptySet
  <2>5. a <= Attempts(snapshot, source, "failure")
    BY <2>2, <2>3
  <2>6. a > 0 => source \in Sources(snapshot)
    BY <2>2, <2>3, <2>4
  <2> QED BY <2>1, <2>2, <2>5, <2>6 DEF Pressure
<1>7. ASSUME Len(agg) < MaxEvents, NEW line \in ToSet(lines), FromElsewhere(line)
      PROVE  \E event \in ToSet(agg) : ShownBy(line, event)
  <2>1. Telling(line)
    BY <1>7 DEF FromElsewhere, Telling
  <2>2. PICK e \in ToSet(events) : e = EventOf(line)
    BY <1>2, <2>1
  <2>3. PICK n : n = Cardinality(Hits(events, Likes(events, e)))
    OBVIOUS
  <2>4. PICK row : row = Summed(events, e)
    OBVIOUS
  <2>5. row = AuthEvent(e.source, e.username, e.outcome, n)
    BY <1>2, <2>3, <2>4, SummedIs
  <2>6. row \in ToSet(agg)
    BY <1>4, <1>7, <2>2, <2>4
  <2>7. /\ e.source = line.source /\ e.username = {line.username}
        /\ e.outcome = IF line.kind = "accepted" THEN "success" ELSE "failure"
    BY <2>2 DEF EventOf, AuthEvent
  <2>8. row.source = e.source /\ row.username = e.username /\ row.outcome = e.outcome
    BY <2>5 DEF AuthEvent
  <2>9. ShownBy(line, row)
    BY <2>7, <2>8 DEF ShownBy
  <2> QED BY <2>6, <2>9
<1> QED BY <1>4, <1>6, <1>7

\* What is read of the log is a list, however it is read.
LEMMA NewestLists ==
  ASSUME NEW log, log \in Seq(ToSet(log)), NEW n \in Nat, NEW t, t = Newest(log, n)
  PROVE  t \in Seq(ToSet(t))
<1>1. DOMAIN log = 1..Len(log) /\ Len(log) \in Nat
  BY LenProperties
<1>2. CASE Len(log) <= n
  BY <1>2 DEF Newest
<1>3. CASE ~(Len(log) <= n)
  <2>1. t = SubSeq(log, Len(log) - n + 1, Len(log))
    BY <1>3 DEF Newest
  <2>2. t \in Seq(ToSet(log))
    <3>1. Len(log) - n + 1 \in 1..(Len(log) + 1) /\ Len(log) \in (Len(log) - n)..Len(log)
      BY <1>1, <1>3
    <3> QED BY <2>1, <3>1, SubSeqProperties
  <2> QED BY <2>2, SeqOwn
<1> QED BY <1>2, <1>3

LEMMA WhereLists ==
  ASSUME NEW s, s \in Seq(ToSet(s)), NEW T, NEW r,
         r = FlattenSeq([i \in DOMAIN s |-> IF s[i] \in T THEN <<s[i]>> ELSE <<>>])
  PROVE  r \in Seq(ToSet(r))
BY Readable

LEMMA QueriedLists ==
  ASSUME NEW h, IsHost(h), NEW kinds, NEW t, t = Queried(h.log, kinds)
  PROVE  t \in Seq(ToSet(t))
<1>1. PICK log, T, r : /\ log = h.log /\ T = {line \in ToSet(log) : line.kind \in kinds}
                       /\ r = Where(log, LAMBDA line : line.kind \in kinds)
  OBVIOUS
<1>2. log \in Seq(ToSet(log))
  BY <1>1 DEF IsHost
<1>3. \A i \in DOMAIN log : log[i] \in ToSet(log)
  BY ToSetIs
<1>4. r = FlattenSeq([i \in DOMAIN log |-> IF log[i] \in T THEN <<log[i]>> ELSE <<>>])
  BY <1>1, <1>3 DEF Where
<1>5. r \in Seq(ToSet(r))
  BY <1>2, <1>4, WhereLists
<1>6. t = Newest(r, MaxQueried) /\ MaxQueried \in Nat
  BY <1>1, CollectorsAssumption DEF Queried
<1> QED BY <1>5, <1>6, NewestLists

LEMMA JoinedLists ==
  ASSUME NEW a, a \in Seq(ToSet(a)), NEW b, b \in Seq(ToSet(b)), NEW t, t = a \o b
  PROVE  t \in Seq(ToSet(t))
<1>1. PICK U : U = ToSet(a) \cup ToSet(b)
  OBVIOUS
<1>2. a \in Seq(U) /\ b \in Seq(U)
  BY <1>1
<1>3. t \in Seq(U)
  BY <1>2
<1> QED BY <1>3, SeqOwn

LEMMA LogLists ==
  ASSUME NEW h, IsHost(h), NEW log, log = ReadLog(h)
  PROVE  log \in Seq(ToSet(log))
<1>1. PICK all, T : all = h.log /\ T = {line \in ToSet(all) : line.recent}
  OBVIOUS
<1>2. all \in Seq(ToSet(all))
  BY <1>1 DEF IsHost
<1>3. CASE h.platform = "linux" /\ Runs(h, "journalctl")
  <2>1. log = Where(all, LAMBDA line : line.recent)
    BY <1>1, <1>3 DEF ReadLog
  <2>2. \A i \in DOMAIN all : all[i] \in ToSet(all)
    BY ToSetIs
  <2>3. log = FlattenSeq([i \in DOMAIN all |-> IF all[i] \in T THEN <<all[i]>> ELSE <<>>])
    BY <1>1, <2>1, <2>2 DEF Where
  <2> QED BY <1>2, <2>3, WhereLists
<1>4. CASE h.platform = "linux" /\ ~Runs(h, "journalctl")
  <2>1. log = Newest(all, MaxLines) /\ MaxLines \in Nat
    BY <1>1, <1>4, CollectorsAssumption DEF ReadLog
  <2> QED BY <1>2, <2>1, NewestLists
<1>5. CASE h.platform # "linux"
  <2>1. PICK a, b : a = Queried(h.log, FailureKinds) /\ b = Queried(h.log, {"accepted"})
    OBVIOUS
  <2>2. log = a \o b
    BY <1>5, <2>1 DEF ReadLog
  <2> QED BY <2>1, <2>2, QueriedLists, JoinedLists
<1> QED BY <1>3, <1>4, <1>5

\* The attempts that a list of lines tells of.
Attempted(log, source) ==
  {line \in ToSet(log) : line.source = source /\ line.kind \in FailureKinds}

\* Telling lines apart, all or those from elsewhere, loses no failure.
LEMMA LinesKept ==
  ASSUME NEW log, log \in Seq(ToSet(log)), NEW T, NEW lines,
         lines = FlattenSeq([i \in DOMAIN log |-> IF log[i] \in T THEN <<log[i]>> ELSE <<>>]),
         NEW source, NEW F, F = Attempted(log, source), F \subseteq T
  PROVE  Cardinality(Hits(log, F)) <= Cardinality(Hits(lines, FailedLines(lines, source)))
<1>1. lines \in Seq(ToSet(lines))
  BY WhereLists
<1>2. Cardinality(Hits(log, F)) <= Cardinality(Hits(lines, F))
  BY SelectedKeeps
<1>3. Hits(lines, F) \in SUBSET Hits(lines, FailedLines(lines, source))
  BY ToSetIs DEF Hits, FailedLines, Attempted
<1>4. IsFiniteSet(Hits(lines, FailedLines(lines, source)))
  BY <1>1, HitsFinite
<1>5. Cardinality(Hits(lines, F)) <= Cardinality(Hits(lines, FailedLines(lines, source)))
  BY <1>3, <1>4, FS_Subset
<1>6. /\ Cardinality(Hits(log, F)) \in Nat /\ Cardinality(Hits(lines, F)) \in Nat
      /\ Cardinality(Hits(lines, FailedLines(lines, source))) \in Nat
  BY <1>1, HitsFinite
<1> QED BY <1>2, <1>5, <1>6

\* The events of a host: a list, which without a gap and below the limit shows
\* every line that was read of a source other than the host, and counts every
\* failure.
LEMMA AuthRead ==
  ASSUME NEW h, IsHost(h), NEW auth, auth = CollectAuth(h), NEW log, log = ReadLog(h)
  PROVE  /\ auth.events \in Seq(ToSet(auth.events)) /\ auth.gaps \subseteq {"auth-events"}
         /\ "auth-events" \notin auth.gaps /\ Len(auth.events) < MaxEvents =>
              /\ \A line \in ToSet(log) :
                   FromElsewhere(line) => \E event \in ToSet(auth.events) : ShownBy(line, event)
              /\ \A snapshot, source : snapshot.auth_events = auth.events /\ source # "localhost" =>
                   Pressure(snapshot, source, Cardinality(Hits(log, Attempted(log, source))))
<1>1. log \in Seq(ToSet(log))
  BY LogLists
<1>2. CASE ~LogAnswers(h)
  <2>1. auth = AuthGap
    BY <1>2 DEF CollectAuth
  <2>2. auth.events = <<>> /\ auth.gaps = {"auth-events"}
    BY <2>1 DEF AuthGap
  <2>3. <<>> \in Seq(ToSet(<<>>))
    OBVIOUS
  <2> QED BY <2>2, <2>3
<1>3. CASE LogAnswers(h)
  <2>a. PICK T : T = {line \in ToSet(log) : h.platform = "windows" => line.source # "localhost"}
    OBVIOUS
  <2>1. PICK lines : lines = Where(log, LAMBDA line : h.platform = "windows" => line.source # "localhost")
    OBVIOUS
  <2>2. auth = [events |-> ParseLog(lines), gaps |-> {}]
    BY <1>3, <2>1 DEF CollectAuth
  <2>3. lines = FlattenSeq([i \in DOMAIN log |-> IF log[i] \in T THEN <<log[i]>> ELSE <<>>])
    <3>1. \A i \in DOMAIN log : log[i] \in ToSet(log)
      BY ToSetIs
    <3> QED BY <2>1, <2>a, <3>1 DEF Where
  <2>4. /\ \A source : source # "localhost" => Attempted(log, source) \subseteq T
        /\ \A line \in ToSet(log) : line.source # "localhost" => line \in T
    BY <2>a DEF Attempted
  <2>5. /\ lines \in Seq(ToSet(lines)) /\ ToSet(lines) = ToSet(log) \cap T
        /\ \A source : source # "localhost" =>
             Cardinality(Hits(log, Attempted(log, source)))
               <= Cardinality(Hits(lines, FailedLines(lines, source)))
    <3>1. lines \in Seq(ToSet(lines)) /\ ToSet(lines) = ToSet(log) \cap T
      <4>1. PICK all : all = log
        OBVIOUS
      <4>2. all \in Seq(ToSet(all))
        BY <1>1, <4>1
      <4>3. lines = FlattenSeq([i \in DOMAIN all |-> IF all[i] \in T THEN <<all[i]>> ELSE <<>>])
        BY <2>3, <4>1
      <4>4. lines \in Seq(ToSet(lines)) /\ ToSet(lines) = ToSet(all) \cap T
        BY <4>2, <4>3, Readable
      <4> QED BY <4>1, <4>4
    <3>2. ASSUME NEW source, source # "localhost"
          PROVE  Cardinality(Hits(log, Attempted(log, source)))
                   <= Cardinality(Hits(lines, FailedLines(lines, source)))
      <4>1. PICK F : F = Attempted(log, source)
        OBVIOUS
      <4>2. F \subseteq T
        BY <2>4, <3>2, <4>1
      <4>3. Cardinality(Hits(log, F)) <= Cardinality(Hits(lines, FailedLines(lines, source)))
        BY <1>1, <2>3, <4>1, <4>2, LinesKept
      <4> QED BY <4>1, <4>3
    <3> QED BY <3>1, <3>2
  <2>6. PICK agg : agg = ParseLog(lines)
    OBVIOUS
  <2>7. auth.events = agg /\ auth.gaps = {}
    BY <2>2, <2>6
  <2>8. /\ agg \in Seq(ToSet(agg))
        /\ Len(agg) < MaxEvents =>
             /\ \A line \in ToSet(lines) :
                  FromElsewhere(line) => \E event \in ToSet(agg) : ShownBy(line, event)
             /\ \A snapshot, source : snapshot.auth_events = agg =>
                  Pressure(snapshot, source, Cardinality(Hits(lines, FailedLines(lines, source))))
    BY <2>5, <2>6, LogRead
  <2>9. ASSUME Len(agg) < MaxEvents, NEW line \in ToSet(log), FromElsewhere(line)
        PROVE  \E event \in ToSet(agg) : ShownBy(line, event)
    <3>1. line \in ToSet(lines)
      BY <2>4, <2>5, <2>9 DEF FromElsewhere
    <3> QED BY <2>8, <2>9, <3>1
  <2>10. ASSUME Len(agg) < MaxEvents, NEW snapshot, NEW source, snapshot.auth_events = agg,
                source # "localhost"
         PROVE  Pressure(snapshot, source, Cardinality(Hits(log, Attempted(log, source))))
    <3>1. PICK a, b : /\ a = Cardinality(Hits(log, Attempted(log, source)))
                      /\ b = Cardinality(Hits(lines, FailedLines(lines, source)))
      OBVIOUS
    <3>2. a \in Nat /\ b \in Nat
      BY <1>1, <2>5, <3>1, HitsFinite
    <3>3. a <= b
      BY <2>5, <2>10, <3>1
    <3>4. Pressure(snapshot, source, b)
      BY <2>8, <2>10, <3>1
    <3>5. Pressure(snapshot, source, a)
      BY <3>2, <3>3, <3>4 DEF Pressure
    <3> QED BY <3>1, <3>5
  <2> QED BY <2>7, <2>8, <2>9, <2>10
<1> QED BY <1>2, <1>3
-----------------------------------------------------------------------------
\* The files, the controls, and the snapshot as a whole.

LEMMA FilesRead ==
  ASSUME NEW h, IsHost(h), NEW c, c = CollectFiles(h)
  PROVE  /\ c.files \in Seq(ToSet(c.files))
         /\ \A i \in DOMAIN h.files :
              \/ h.files[i].state = "absent"
              \/ \E file \in ToSet(c.files) : file.path = h.files[i].path
              \/ "watched-files" \in c.gaps
<1>1. PICK all : all = h.files
  OBVIOUS
<1>2. /\ all \in Seq(ToSet(all))
      /\ \A file \in ToSet(all) : file.state \in {"readable", "unreadable", "absent"}
  BY <1>1 DEF IsHost
<1>3. /\ DOMAIN all = 1..Len(all) /\ Len(all) \in Nat
      /\ \A i \in DOMAIN all : all[i] \in ToSet(all)
  BY <1>2, Where2Seq
<1> DEFINE T == {file \in ToSet(all) : file.state = "readable"}
<1>4. PICK present : present = Where(all, LAMBDA file : file.state = "readable")
  OBVIOUS
<1>5. present = FlattenSeq([i \in DOMAIN all |-> IF all[i] \in T THEN <<all[i]>> ELSE <<>>])
  BY <1>3, <1>4 DEF Where
<1>6. \A file \in ToSet(all) : file \in T <=> file.state = "readable"
  OBVIOUS
<1> HIDE DEF T
<1>7. /\ present \in Seq(ToSet(present)) /\ ToSet(present) = ToSet(all) \cap T
      /\ DOMAIN present = 1..Len(present) /\ Len(present) \in Nat
  <2>1. \A g : g = FlattenSeq([i \in DOMAIN all |-> IF all[i] \in T THEN <<all[i]>> ELSE <<>>]) =>
                /\ g \in Seq(ToSet(g)) /\ ToSet(g) = ToSet(all) \cap T
                /\ DOMAIN g = 1..Len(g) /\ Len(g) \in Nat
    BY <1>2, Readable
  <2> QED BY <2>1, <1>5
<1>8. PICK files : files = c.files
  OBVIOUS
<1>9. /\ DOMAIN files = 1..Len(present)
      /\ files = [i \in 1..Len(present) |-> files[i]]
      /\ \A i \in 1..Len(present) : files[i].path = present[i].path
  <2>1. files = [i \in DOMAIN present |->
                   WatchedFile(present[i].path, present[i].digest, present[i].world_writable)]
    BY <1>1, <1>4, <1>8 DEF CollectFiles
  <2> QED BY <2>1, <1>7 DEF WatchedFile
<1>10. files \in Seq(ToSet(files))
  <2>1. files \in [1..Len(present) -> ToSet(files)]
    BY <1>9, ToSetIs
  <2> QED BY <2>1, <1>7, SegmentIsSeq
<1>11. (\E i \in DOMAIN all : all[i].state = "unreadable") => "watched-files" \in c.gaps
  BY <1>1 DEF CollectFiles
<1>12. ASSUME NEW i \in DOMAIN all, all[i].state = "readable"
       PROVE  \E file \in ToSet(files) : file.path = all[i].path
  <2>1. all[i] \in ToSet(present)
    BY <1>3, <1>6, <1>7, <1>12
  <2>2. PICK j \in 1..Len(present) : all[i] = present[j]
    BY <2>1, <1>7, ToSetIs
  <2>3. files[j] \in ToSet(files)
    BY <1>9, ToSetIs
  <2> QED BY <2>2, <2>3, <1>9
<1>13. \A i \in DOMAIN all : all[i].state \in {"readable", "unreadable", "absent"}
  BY <1>2, <1>3
<1> QED BY <1>1, <1>8, <1>10, <1>11, <1>12, <1>13

LEMMA BaselineRead ==
  ASSUME NEW h, IsHost(h), NEW c, c = CollectBaseline(h)
  PROVE  /\ IsFiniteSet(c.firewall) /\ IsFiniteSet(c.updates)
         /\ c.firewall = FirewallOf(h)
         /\ c.firewall = {} => "firewall" \in c.gaps
         /\ c.updates = {} => "security-updates" \in c.gaps
         /\ c.updates \in {{}, {h.pending}}
<1>1. /\ c.firewall = FirewallOf(h) /\ c.updates = PendingUpdates(h)
      /\ c.firewall = {} => "firewall" \in c.gaps
      /\ c.updates = {} => "security-updates" \in c.gaps
  BY DEF CollectBaseline
<1>2. FirewallOf(h) = {} \/ \E x : FirewallOf(h) = {x}
  BY DEF FirewallOf
<1>a. \A S : S = {} \/ (\E x : S = {x}) => IsFiniteSet(S)
  <2>1. \A x : IsFiniteSet({x})
    BY FS_Singleton
  <2>2. IsFiniteSet({})
    BY FS_EmptySet
  <2> QED BY <2>1, <2>2
<1>3. IsFiniteSet(FirewallOf(h))
  BY <1>2, <1>a
<1>4. PendingUpdates(h) \in {{}, {h.pending}}
  BY DEF PendingUpdates, Runs
<1>5. IsFiniteSet(PendingUpdates(h))
  BY <1>4, <1>a
<1> QED BY <1>1, <1>3, <1>4, <1>5

\* What a collected snapshot says of its host.
Reflects(h, snapshot) ==
  /\ \A socket \in ToSet(snapshot.listeners) : \E row \in ToSet(h.sockets) : socket = Heard(row)
  /\ "listeners" \notin snapshot.gaps =>
       \A row \in ToSet(h.sockets) :
         Listening(row) => Skipped(h, row, snapshot) \/ Heard(row) \in ToSet(snapshot.listeners)
  /\ {"listeners", "peers"} \cap snapshot.gaps = {} =>
       \A row \in ToSet(h.sockets) :
         Connected(row) => Skipped(h, row, snapshot) \/ Talks(row) \in ToSet(snapshot.peers)
  /\ snapshot.firewall = FirewallOf(h)
  /\ snapshot.firewall = {} => "firewall" \in snapshot.gaps
  /\ snapshot.updates = {} => "security-updates" \in snapshot.gaps
  /\ snapshot.updates \in {{}, {h.pending}}
  /\ \A i \in DOMAIN h.files :
       \/ h.files[i].state = "absent"
       \/ \E file \in ToSet(snapshot.watched_files) : file.path = h.files[i].path
       \/ "watched-files" \in snapshot.gaps
  /\ "auth-events" \notin snapshot.gaps /\ Len(snapshot.auth_events) < MaxEvents =>
       LET log == ReadLog(h)
       IN /\ \A line \in ToSet(log) :
               FromElsewhere(line) => \E event \in ToSet(snapshot.auth_events) : ShownBy(line, event)
          /\ \A source : source # "localhost" =>
               Pressure(snapshot, source, Cardinality(Hits(log, Attempted(log, source))))

LEMMA HeardTyped ==
  \A row : IsRow(row) =>
    /\ Heard(row) \in [protocol : Protocols, address : AddressKinds, port : Nat, scope : Scopes]
    /\ Heard(row).protocol = row.protocol /\ Heard(row).port = row.port
    /\ Heard(row).scope = TrueScope(row.address)
<1> SUFFICES ASSUME NEW row, IsRow(row)
    PROVE  /\ Heard(row) \in [protocol : Protocols, address : AddressKinds, port : Nat, scope : Scopes]
           /\ Heard(row).protocol = row.protocol /\ Heard(row).port = row.port
           /\ Heard(row).scope = TrueScope(row.address)
  OBVIOUS
<1>1. row.protocol \in Protocols /\ row.address \in AddressKinds /\ row.port \in Nat
  BY DEF IsRow
<1>2. PICK a : a = Normalised(row.address)
  OBVIOUS
<1>3. a \in AddressKinds /\ Classify(a) = TrueScope(row.address)
  <2>1. CASE row.address = "wildcard"
    <3>1. a = "unspecified"
      BY <1>2, <2>1 DEF Normalised
    <3>2. "unspecified" \in AddressKinds
      BY DEF AddressKinds
    <3>3. Classify("unspecified") = "public" /\ TrueScope("wildcard") = "public"
      BY DEF Classify, TrueScope, Inward
    <3> QED BY <2>1, <3>1, <3>2, <3>3
  <2>2. CASE row.address # "wildcard"
    <3>1. a = row.address
      BY <1>2, <2>2 DEF Normalised
    <3> QED BY <1>1, <3>1 DEF Classify, TrueScope
  <2> QED BY <2>1, <2>2
<1>4. TrueScope(row.address) \in Scopes
  BY DEF TrueScope, Scopes
<1>5. Heard(row) = [protocol |-> row.protocol, address |-> a, port |-> row.port,
                    scope |-> TrueScope(row.address)]
  BY <1>2, <1>3 DEF Heard, Socket
<1> QED BY <1>1, <1>3, <1>4, <1>5

LEMMA Collected ==
  ASSUME NEW h, IsHost(h), NEW snapshot, snapshot = Collect(h)
  PROVE  IsSnapshot(snapshot) /\ Reflects(h, snapshot)
<1>1. PICK network : network = CollectNetwork(h)
  OBVIOUS
<1>2. PICK auth : auth = CollectAuth(h)
  OBVIOUS
<1>3. PICK files : files = CollectFiles(h)
  OBVIOUS
<1>4. PICK controls : controls = CollectBaseline(h)
  OBVIOUS
<1>5. snapshot = [listeners |-> network.listeners, peers |-> network.peers,
                  auth_events |-> auth.events, watched_files |-> files.files,
                  firewall |-> controls.firewall, updates |-> controls.updates,
                  gaps |-> network.gaps \cup auth.gaps \cup files.gaps \cup controls.gaps]
  BY <1>1, <1>2, <1>3, <1>4 DEF Collect
<1>6. /\ snapshot.listeners = network.listeners /\ snapshot.peers = network.peers
      /\ snapshot.auth_events = auth.events /\ snapshot.watched_files = files.files
      /\ snapshot.firewall = controls.firewall /\ snapshot.updates = controls.updates
      /\ \A surface : surface \in snapshot.gaps
           <=> \/ surface \in network.gaps \/ surface \in auth.gaps
               \/ surface \in files.gaps \/ surface \in controls.gaps
  BY <1>5
<1>7. Surfaced(h, network)
  BY <1>1, NetworkSurfaced
<1>8. /\ network.listeners \in Seq(ToSet(network.listeners))
      /\ \A socket \in ToSet(network.listeners) : \E row \in ToSet(h.sockets) : socket = Heard(row)
      /\ "listeners" \notin network.gaps =>
           \A row \in ToSet(h.sockets) :
             Listening(row) => Skipped(h, row, network) \/ Heard(row) \in ToSet(network.listeners)
      /\ {"listeners", "peers"} \cap network.gaps = {} =>
           \A row \in ToSet(h.sockets) :
             Connected(row) => Skipped(h, row, network) \/ Talks(row) \in ToSet(network.peers)
  BY <1>7 DEF Surfaced
<1>a. PICK log : log = ReadLog(h)
  OBVIOUS
<1>9. /\ auth.events \in Seq(ToSet(auth.events))
      /\ "auth-events" \notin auth.gaps /\ Len(auth.events) < MaxEvents =>
           /\ \A line \in ToSet(log) :
                FromElsewhere(line) => \E event \in ToSet(auth.events) : ShownBy(line, event)
           /\ \A s, source : s.auth_events = auth.events /\ source # "localhost" =>
                Pressure(s, source, Cardinality(Hits(log, Attempted(log, source))))
  BY <1>2, <1>a, AuthRead
<1>10. /\ files.files \in Seq(ToSet(files.files))
       /\ \A i \in DOMAIN h.files :
            \/ h.files[i].state = "absent"
            \/ \E file \in ToSet(files.files) : file.path = h.files[i].path
            \/ "watched-files" \in files.gaps
  BY <1>3, FilesRead
<1>11. /\ IsFiniteSet(controls.firewall) /\ IsFiniteSet(controls.updates)
       /\ controls.firewall = FirewallOf(h)
       /\ controls.firewall = {} => "firewall" \in controls.gaps
       /\ controls.updates = {} => "security-updates" \in controls.gaps
       /\ controls.updates \in {{}, {h.pending}}
  BY <1>4, BaselineRead
<1>12. \A row \in ToSet(h.sockets) : IsRow(row)
  BY DEF IsHost
<1>13. \A socket \in ToSet(network.listeners) :
         socket \in [protocol : Protocols, address : AddressKinds, port : Nat, scope : Scopes]
  BY <1>8, <1>12, HeardTyped
<1>14. IsSnapshot(snapshot)
  BY <1>6, <1>8, <1>9, <1>10, <1>11, <1>13 DEF IsSnapshot
<1>15. \A row : Skipped(h, row, network) <=> Skipped(h, row, snapshot)
  BY <1>6 DEF Skipped
<1>16. "listeners" \notin snapshot.gaps =>
         \A row \in ToSet(h.sockets) :
           Listening(row) => Skipped(h, row, snapshot) \/ Heard(row) \in ToSet(snapshot.listeners)
  BY <1>6, <1>8, <1>15
<1>17. "auth-events" \notin snapshot.gaps /\ Len(snapshot.auth_events) < MaxEvents =>
         /\ \A line \in ToSet(log) :
              FromElsewhere(line) => \E event \in ToSet(snapshot.auth_events) : ShownBy(line, event)
         /\ \A source : source # "localhost" =>
              Pressure(snapshot, source, Cardinality(Hits(log, Attempted(log, source))))
  BY <1>6, <1>9
<1>21. {"listeners", "peers"} \cap snapshot.gaps = {} =>
         \A row \in ToSet(h.sockets) :
           Connected(row) => Skipped(h, row, snapshot) \/ Talks(row) \in ToSet(snapshot.peers)
  <2>1. ASSUME {"listeners", "peers"} \cap snapshot.gaps = {}
        PROVE  {"listeners", "peers"} \cap network.gaps = {}
    BY <1>6, <2>1
  <2> QED BY <1>6, <1>8, <1>15, <2>1
<1>18. \A socket \in ToSet(snapshot.listeners) : \E row \in ToSet(h.sockets) : socket = Heard(row)
  BY <1>6, <1>8
<1>19. \A i \in DOMAIN h.files :
         \/ h.files[i].state = "absent"
         \/ \E file \in ToSet(snapshot.watched_files) : file.path = h.files[i].path
         \/ "watched-files" \in snapshot.gaps
  BY <1>6, <1>10
<1>20. /\ snapshot.firewall = FirewallOf(h)
       /\ snapshot.firewall = {} => "firewall" \in snapshot.gaps
       /\ snapshot.updates = {} => "security-updates" \in snapshot.gaps
       /\ snapshot.updates \in {{}, {h.pending}}
  BY <1>6, <1>11
<1>22. Reflects(h, snapshot)
  BY <1>a, <1>16, <1>17, <1>18, <1>19, <1>20, <1>21 DEF Reflects
<1> QED BY <1>14, <1>22
-----------------------------------------------------------------------------
\* What storing findings makes of the incidents.

Records == [category : Categories, severity : Low..Critical, status : {"open", "resolved"}]

Ledger(table) ==
  /\ table \in [DOMAIN table -> Records]
  /\ \A fp \in DOMAIN table : table[fp].category = CatalogOf(fp[1]).category /\ Keyed(fp)

Advances(before, after) ==
  \A fp \in DOMAIN before :
    /\ fp \in DOMAIN after
    /\ after[fp].severity >= before[fp].severity
    /\ before[fp].status # "resolved" => after[fp].status # "resolved"

Holds(table, finding) ==
  /\ finding.fingerprint \in DOMAIN table
  /\ table[finding.fingerprint].status # "resolved"
  /\ table[finding.fingerprint].severity >= finding.severity

LEMMA UpsertStep ==
  ASSUME NEW table, Ledger(table), NEW finding, Sound(finding),
         NEW after, after = UpsertedFinding(table, finding)
  PROVE  /\ Ledger(after) /\ Advances(table, after) /\ Holds(after, finding)
         /\ DOMAIN after = DOMAIN table \cup {finding.fingerprint}
<1>1. PICK fp, D : fp = finding.fingerprint /\ D = DOMAIN table
  OBVIOUS
<1>2. /\ Keyed(fp) /\ finding.category = CatalogOf(fp[1]).category
      /\ finding.category \in Categories /\ finding.severity \in Low..Critical
  BY <1>1 DEF Sound
<1>3. \A x \in Low..Critical : x \in Int
  BY DEF Low, Critical
<1>4. /\ DOMAIN after = D \cup {fp}
      /\ \A other \in D : other # fp => after[other] = table[other]
      /\ fp \notin D => after[fp] = [category |-> finding.category, severity |-> finding.severity,
                                     status |-> "open"]
      /\ fp \in D => after[fp] = [table[fp] EXCEPT
                                    !.severity = Max({table[fp].severity, finding.severity}),
                                    !.status = IF table[fp].status = "resolved" THEN "open" ELSE @]
      /\ after = [other \in D \cup {fp} |-> after[other]]
  BY <1>1 DEF UpsertedFinding
<1>5. \A other \in D : table[other] \in Records
  BY <1>1 DEF Ledger
<1>6. /\ after[fp] \in Records
      /\ after[fp].status # "resolved"
      /\ after[fp].severity >= finding.severity
      /\ after[fp].category = CatalogOf(fp[1]).category
      /\ fp \in D => after[fp].severity >= table[fp].severity
  <2>1. CASE fp \notin D
    BY <2>1, <1>2, <1>3, <1>4 DEF Records
  <2>2. CASE fp \in D
    <3>1. PICK r : r = table[fp]
      OBVIOUS
    <3>2. r \in Records /\ r.category = CatalogOf(fp[1]).category
      BY <2>2, <3>1, <1>1, <1>5 DEF Ledger
    <3>3. PICK m : m = Max({r.severity, finding.severity})
      OBVIOUS
    <3>4. r.severity \in Low..Critical /\ r.severity \in Int /\ finding.severity \in Int
      BY <3>2, <1>2, <1>3 DEF Records
    <3>5. m = IF r.severity >= finding.severity THEN r.severity ELSE finding.severity
      BY <3>3, <3>4, MaxOfTwo
    <3>6. m \in Low..Critical /\ m >= r.severity /\ m >= finding.severity
      BY <3>4, <3>5, <1>2
    <3>7. PICK st : st = IF r.status = "resolved" THEN "open" ELSE r.status
      OBVIOUS
    <3>8. after[fp] = [r EXCEPT !.severity = m, !.status = st]
      BY <2>2, <3>1, <3>3, <3>7, <1>4
    <3>9. st = "open"
      BY <3>2, <3>7 DEF Records
    <3>10. after[fp] = [category |-> r.category, severity |-> m, status |-> "open"]
      BY <3>2, <3>8, <3>9 DEF Records
    <3>11. r.category \in Categories
      BY <3>2 DEF Records
    <3> QED BY <3>1, <3>2, <3>6, <3>10, <3>11 DEF Records
  <2> QED BY <2>1, <2>2
<1>7. \A other \in D \cup {fp} : after[other] \in Records
  BY <1>4, <1>5, <1>6
<1>8. after \in [DOMAIN after -> Records]
  BY <1>4, <1>7
<1>9. \A other \in DOMAIN after : after[other].category = CatalogOf(other[1]).category /\ Keyed(other)
  BY <1>1, <1>2, <1>4, <1>6 DEF Ledger
<1>10. Advances(table, after)
  <2>1. \A other \in D : other # fp => after[other].severity >= table[other].severity
    BY <1>3, <1>4, <1>5 DEF Records
  <2> QED BY <2>1, <1>1, <1>4, <1>6 DEF Advances
<1>11. Holds(after, finding)
  BY <1>1, <1>4, <1>6 DEF Holds
<1> QED BY <1>1, <1>4, <1>8, <1>9, <1>10, <1>11 DEF Ledger

\* Severities of a ledger are numbers, so that advancing is transitive.
LEMMA AdvancesAlong ==
  ASSUME NEW a, Ledger(a), NEW b, Ledger(b), NEW c, Ledger(c), Advances(a, b), Advances(b, c)
  PROVE  /\ Advances(a, c)
         /\ \A finding : Sound(finding) /\ Holds(b, finding) => Holds(c, finding)
<1>1. \A x \in Low..Critical : x \in Int
  BY DEF Low, Critical
<1>2. \A t : Ledger(t) => \A fp \in DOMAIN t : t[fp].severity \in Int
  BY <1>1 DEF Ledger, Records
<1>3. Advances(a, c)
  <2> SUFFICES ASSUME NEW fp \in DOMAIN a
               PROVE  /\ fp \in DOMAIN c
                      /\ c[fp].severity >= a[fp].severity
                      /\ a[fp].status # "resolved" => c[fp].status # "resolved"
    BY DEF Advances
  <2>1. /\ fp \in DOMAIN b /\ b[fp].severity >= a[fp].severity
        /\ a[fp].status # "resolved" => b[fp].status # "resolved"
    BY DEF Advances
  <2>2. /\ fp \in DOMAIN c /\ c[fp].severity >= b[fp].severity
        /\ b[fp].status # "resolved" => c[fp].status # "resolved"
    BY <2>1 DEF Advances
  <2>3. a[fp].severity \in Int /\ b[fp].severity \in Int /\ c[fp].severity \in Int
    BY <1>2, <2>1, <2>2
  <2> QED BY <2>1, <2>2, <2>3
<1>4. ASSUME NEW finding, Sound(finding), Holds(b, finding) PROVE Holds(c, finding)
  <2>1. PICK fp : fp = finding.fingerprint
    OBVIOUS
  <2>2. fp \in DOMAIN b /\ b[fp].status # "resolved" /\ b[fp].severity >= finding.severity
    BY <1>4, <2>1 DEF Holds
  <2>3. fp \in DOMAIN c /\ c[fp].severity >= b[fp].severity /\ c[fp].status # "resolved"
    BY <2>2 DEF Advances
  <2>4. b[fp].severity \in Int /\ c[fp].severity \in Int /\ finding.severity \in Int
    BY <1>1, <1>2, <1>4, <2>2, <2>3 DEF Sound
  <2> QED BY <2>1, <2>2, <2>3, <2>4 DEF Holds
<1> QED BY <1>3, <1>4

LEMMA StoredFold ==
  ASSUME NEW findings, NEW n \in Nat, \A i \in 1..n : Sound(findings[i]), Ledger(incidents),
         NEW after, after = Stored(findings, n)
  PROVE  /\ Ledger(after) /\ Advances(incidents, after)
         /\ \A i \in 1..n : Holds(after, findings[i])
<1>1. PICK start : start = incidents
  OBVIOUS
<1> DEFINE fps == DOMAIN start \cup {findings[i].fingerprint : i \in 1..n}
           V == {t \in UNION {[D -> Records] : D \in SUBSET fps} : Ledger(t)}
           Put(v, i) == UpsertedFinding(v, findings[i])
           Step == {<<i, v, Put(v, i)>> : i \in 1..n, v \in V}
           Grows(g) == g = [i \in 0..n |-> IF i = 0 THEN start ELSE Put(g[i - 1], i)]
           chosen == CHOOSE g : Grows(g)
<1>2. Stored(findings, n) = chosen[n]
  BY <1>1 DEF Stored
<1>3. \A t : t \in V <=> Ledger(t) /\ DOMAIN t \subseteq fps
  BY DEF Ledger
<1>4. \A v \in V, i \in 1..n : Put(v, i) \in V
  <2> SUFFICES ASSUME NEW v \in V, NEW i \in 1..n PROVE Put(v, i) \in V
    OBVIOUS
  <2>1. Ledger(v) /\ DOMAIN v \subseteq fps
    BY <1>3
  <2>2. findings[i].fingerprint \in fps
    OBVIOUS
  <2>3. PICK w : w = UpsertedFinding(v, findings[i])
    OBVIOUS
  <2>4. Ledger(w) /\ DOMAIN w = DOMAIN v \cup {findings[i].fingerprint}
    BY <2>1, <2>3, UpsertStep
  <2> HIDE DEF V, fps
  <2> QED BY <1>3, <2>1, <2>2, <2>3, <2>4
<1>5. start \in V
  BY <1>1, <1>3
<1>6. \A v, i : Put(v, i) = UpsertedFinding(v, findings[i])
  OBVIOUS
<1> HIDE DEF V, fps, Put
<1>7. \A i \in 1..n, v \in V : \E w \in V : <<i, v, w>> \in Step
  BY <1>4
<1>8. PICK f : Follows(f, n, V, start, Step)
  <2> HIDE DEF Step
  <2> QED BY <1>5, <1>7, Recursion
<1>9. /\ f \in [0..n -> V] /\ f[0] = start
      /\ \A i \in 1..n : <<i, f[i - 1], f[i]>> \in Step
  <2> HIDE DEF Step
  <2> QED BY <1>8 DEF Follows
<1>10. ASSUME NEW i \in 1..n PROVE f[i] = Put(f[i - 1], i)
  <2>1. i - 1 \in 0..n OBVIOUS
  <2>2. f[i - 1] \in V BY <2>1, <1>9
  <2> QED BY <2>2, <1>9
<1>11. Grows(f)
  <2>1. ASSUME NEW i \in 0..n PROVE f[i] = IF i = 0 THEN start ELSE Put(f[i - 1], i)
    <3>1. i = 0 \/ i \in 1..n OBVIOUS
    <3> QED BY <3>1, <1>9, <1>10
  <2>2. f = [i \in 0..n |-> f[i]]
    BY <1>9
  <2> QED BY <2>1, <2>2
<1>12. Grows(chosen)
  <2> HIDE DEF Grows
  <2> QED BY <1>11
<1> HIDE DEF chosen
<1>13. chosen[0] = start /\ \A i \in 1..n : chosen[i] = Put(chosen[i - 1], i)
  BY <1>12
<1> HIDE DEF Grows, Step
<1> DEFINE T == {k \in 0..n : /\ Ledger(chosen[k]) /\ chosen[k] \in V
                              /\ Advances(start, chosen[k])
                              /\ \A i \in 1..k : Holds(chosen[k], findings[i])}
<1>14. 0 \in T
  <2>1. Ledger(start)
    BY <1>1
  <2>2. Advances(start, start)
    <3>1. \A x \in Low..Critical : x >= x
      BY DEF Low, Critical
    <3>2. \A fp \in DOMAIN start : start[fp].severity \in Low..Critical
      BY <2>1 DEF Ledger, Records
    <3> QED BY <3>1, <3>2 DEF Advances
  <2> QED BY <2>1, <2>2, <1>5, <1>13
<1>15. ASSUME NEW k \in 0..(n - 1), k \in T PROVE k + 1 \in T
  <2>1. k + 1 \in 1..n /\ (k + 1) - 1 = k /\ k + 1 \in 0..n
        /\ \A i : i \in 1..(k + 1) <=> i \in 1..k \/ i = k + 1
    OBVIOUS
  <2>2. PICK v, w, g : v = chosen[k] /\ w = chosen[k + 1] /\ g = findings[k + 1]
    OBVIOUS
  <2>3. Ledger(v) /\ v \in V /\ Advances(start, v) /\ \A i \in 1..k : Holds(v, findings[i])
    BY <1>15, <2>2
  <2>4. w = UpsertedFinding(v, g)
    BY <1>6, <1>13, <2>1, <2>2
  <2>5. Sound(g)
    BY <2>1, <2>2
  <2>6. Ledger(w) /\ Advances(v, w) /\ Holds(w, g)
    BY <2>3, <2>4, <2>5, UpsertStep
  <2>7. w \in V
    BY <1>4, <1>13, <2>1, <2>2, <2>3
  <2>8. Ledger(start)
    BY <1>1
  <2>9. Advances(start, w) /\ \A finding : Sound(finding) /\ Holds(v, finding) => Holds(w, finding)
    BY <2>3, <2>6, <2>8, AdvancesAlong
  <2>10. \A i \in 1..k : Sound(findings[i])
    BY <2>1
  <2>11. \A i \in 1..(k + 1) : Holds(w, findings[i])
    BY <2>1, <2>2, <2>3, <2>6, <2>9, <2>10
  <2> QED BY <2>1, <2>2, <2>6, <2>7, <2>9, <2>11
<1>16. n \in T
  <2> HIDE DEF T
  <2>1. 0..n \subseteq T
    BY <1>14, <1>15, UpTo
  <2> QED BY <2>1
<1> QED BY <1>1, <1>2, <1>16
LEMMA HealedKeeps ==
  ASSUME NEW table, Ledger(table), NEW findings, NEW gaps,
         NEW after, after = Healed(table, findings, gaps)
  PROVE  /\ Ledger(after) /\ DOMAIN after = DOMAIN table
         /\ \A f \in ToSet(findings) : Holds(table, f) => Holds(after, f)
         /\ \A fp \in DOMAIN table :
              table[fp].status # "resolved" /\ after[fp].status = "resolved" =>
                /\ table[fp].category \in SelfHealing(gaps)
                /\ \A f \in ToSet(findings) : f.fingerprint # fp
<1> DEFINE observed == {finding.fingerprint : finding \in ToSet(findings)}
           Closes(fp) == table[fp].category \in SelfHealing(gaps) /\ fp \notin observed
<1>1. after = [fp \in DOMAIN table |-> IF Closes(fp) THEN [table[fp] EXCEPT !.status = "resolved"]
                                       ELSE table[fp]]
  BY DEF Healed
<1>2. DOMAIN after = DOMAIN table /\ after = [fp \in DOMAIN table |-> after[fp]]
  BY <1>1
<1>3. \A f \in ToSet(findings) : ~Closes(f.fingerprint)
  OBVIOUS
<1>4. \A fp : Closes(fp) => /\ table[fp].category \in SelfHealing(gaps)
                            /\ \A f \in ToSet(findings) : f.fingerprint # fp
  OBVIOUS
<1> HIDE DEF Closes
<1>5. \A fp \in DOMAIN table : /\ table[fp] \in Records
                               /\ table[fp].category = CatalogOf(fp[1]).category /\ Keyed(fp)
  BY DEF Ledger
<1>6. \A fp \in DOMAIN table : /\ after[fp] \in Records /\ after[fp].category = table[fp].category
                               /\ ~Closes(fp) => after[fp] = table[fp]
  <2> SUFFICES ASSUME NEW fp \in DOMAIN table
               PROVE  /\ after[fp] \in Records /\ after[fp].category = table[fp].category
                      /\ ~Closes(fp) => after[fp] = table[fp]
    OBVIOUS
  <2>1. CASE Closes(fp)
    <3>1. PICK r : r = table[fp] /\ r \in Records
      BY <1>5
    <3>2. after[fp] = [r EXCEPT !.status = "resolved"]
      BY <1>1, <2>1, <3>1
    <3>3. after[fp] = [category |-> r.category, severity |-> r.severity, status |-> "resolved"]
      BY <3>1, <3>2 DEF Records
    <3> QED BY <2>1, <3>1, <3>3 DEF Records
  <2>2. CASE ~Closes(fp)
    BY <1>1, <1>5, <2>2
  <2> QED BY <2>1, <2>2
<1>7. Ledger(after)
  <2>1. after \in [DOMAIN after -> Records]
    BY <1>2, <1>6
  <2> QED BY <2>1, <1>2, <1>5, <1>6 DEF Ledger
<1>8. \A f \in ToSet(findings) : Holds(table, f) => Holds(after, f)
  BY <1>2, <1>3, <1>6 DEF Holds
<1>9. \A fp \in DOMAIN table :
        table[fp].status # "resolved" /\ after[fp].status = "resolved" => Closes(fp)
  BY <1>6
<1> QED BY <1>2, <1>4, <1>7, <1>8, <1>9

-----------------------------------------------------------------------------
\* One envelope, from the host to the report.

Covers(report, r, snapshot) ==
  \A c \in ToSet(Exposure(ActivePolicy, r, snapshot)) \cup Authentication(ActivePolicy, snapshot)
             \cup Hygiene(ActivePolicy, snapshot) :
    \E f \in ToSet(report) : f.fingerprint = c.fingerprint /\ f.severity >= c.severity

LEMMA Examination ==
  ASSUME NEW r, NEW base, NEW snapshot, IsSnapshot(snapshot), NEW input,
         input = [Input(r, Quiet, 0, base) EXCEPT !.security = {snapshot}],
         NEW report, report = Analyze(ActivePolicy, input)
  PROVE  Ranked(report) /\ Covers(report, r, snapshot)
<1>1. input.security = {snapshot} /\ input.role = r
  BY DEF Input
<1>2. PICK security : security = input.security
  OBVIOUS
<1>3. IsFiniteSet(security) /\ \A s \in security : IsSnapshot(s)
  BY <1>1, <1>2, FS_Singleton
<1>4. PICK candidates : candidates = Candidates(ActivePolicy, input)
  OBVIOUS
<1>a. PICK same : same = input
  OBVIOUS
<1>b. IsFiniteSet(same.security) /\ \A s \in same.security : IsSnapshot(s)
  BY <1>2, <1>3, <1>a
<1>c. candidates = Candidates(ActivePolicy, same)
  BY <1>4, <1>a
<1>d. /\ SoundList(candidates)
      /\ \A s \in same.security :
           ToSet(Exposure(ActivePolicy, same.role, s)) \cup Authentication(ActivePolicy, s)
             \cup Hygiene(ActivePolicy, s) \subseteq ToSet(candidates)
  BY <1>b, <1>c, CandidatesSound
<1>5. /\ SoundList(candidates)
      /\ ToSet(Exposure(ActivePolicy, r, snapshot)) \cup Authentication(ActivePolicy, snapshot)
           \cup Hygiene(ActivePolicy, snapshot) \subseteq ToSet(candidates)
  <2>1. snapshot \in same.security /\ same.role = r
    BY <1>1, <1>a
  <2> QED BY <1>d, <2>1
<1>6. /\ Ranked(report)
      /\ \A c \in ToSet(candidates) :
           \E f \in ToSet(report) : Summarises(f, ToSet(candidates), c.fingerprint)
  BY <1>2, <1>3, <1>4, Analyzed
<1>7. Covers(report, r, snapshot)
  <2> SUFFICES ASSUME NEW c \in ToSet(Exposure(ActivePolicy, r, snapshot))
                                  \cup Authentication(ActivePolicy, snapshot)
                                  \cup Hygiene(ActivePolicy, snapshot)
               PROVE  \E f \in ToSet(report) : /\ f.fingerprint = c.fingerprint
                                               /\ f.severity >= c.severity
    BY DEF Covers
  <2>1. c \in ToSet(candidates)
    BY <1>1, <1>2, <1>5
  <2>2. PICK f \in ToSet(report) : Summarises(f, ToSet(candidates), c.fingerprint)
    BY <2>1, <1>6
  <2>3. f.fingerprint = c.fingerprint /\ c.severity <= f.severity
    BY <2>1, <2>2 DEF Summarises
  <2>4. c.severity \in Int /\ f.severity \in Int
    <3>1. Sound(c) /\ Sound(f)
      BY <2>1, <1>5, <1>6 DEF SoundList, Ranked
    <3>2. \A x \in Low..Critical : x \in Int
      BY DEF Low, Critical
    <3> QED BY <3>1, <3>2 DEF Sound
  <2> QED BY <2>3, <2>4
<1> QED BY <1>6, <1>7

LEMMA QuietReport ==
  ASSUME NEW r, NEW base, NEW report, report = Analyze(ActivePolicy, Input(r, Quiet, 0, base))
  PROVE  Ranked(report)
<1>1. PICK input : input = Input(r, Quiet, 0, base)
  OBVIOUS
<1>2. input.security = {}
  BY <1>1 DEF Input
<1>3. IsFiniteSet(input.security) /\ \A s \in input.security : IsSnapshot(s)
  BY <1>2, FS_EmptySet
<1> QED BY <1>1, <1>3, Analyzed

LEMMA NoSignalsIsSnapshot == IsSnapshot(NoSignals)
<1>1. <<>> \in Seq(ToSet(<<>>)) /\ ToSet(<<>>) = {}
  BY ToSetIs
<1> QED BY <1>1, FS_EmptySet DEF IsSnapshot, NoSignals

LEMMA SoundReport ==
  ASSUME NEW report, Ranked(report)
  PROVE  /\ Len(report) \in Nat /\ DOMAIN report = 1..Len(report)
         /\ \A i \in 1..Len(report) : report[i] \in ToSet(report) /\ Sound(report[i])
         /\ \A f \in ToSet(report) : \E i \in 1..Len(report) : f = report[i]
<1>1. report \in Seq(ToSet(report)) /\ \A f \in ToSet(report) : Sound(f)
  BY DEF Ranked
<1>2. Len(report) \in Nat /\ DOMAIN report = 1..Len(report)
  BY <1>1, LenProperties
<1> QED BY <1>1, <1>2, ToSetIs
-----------------------------------------------------------------------------
\* The invariant of Assessment.  After a handler that collected, the snapshot is
\* the one of the host; after one that ran to its end, the report covers what
\* the snapshot supports, and every finding of it is an unresolved incident.

HandlerInv ==
  /\ last \in {"none", "complete", "cut", "metrics"}
  /\ last \in {"complete", "cut"} => signals = Collect(host)
  /\ last = "complete" => /\ Covers(found, role, signals)
                          /\ \A f \in ToSet(found) : Holds(incidents, f)

AssessmentInv ==
  /\ cycles \in Nat
  /\ family \in DOMAIN Families /\ host \in Families[family]
  /\ role \in Roles
  /\ IsSnapshot(signals)
  /\ Ranked(found) /\ stored \in 0..Len(found)
  /\ Ledger(incidents)
  /\ HandlerInv

LEMMA HostsAreHosts ==
  \A name \in DOMAIN Families : \A machine \in Families[name] : IsHost(machine)
BY AssessmentAssumption

LEMMA AssessmentInvInit == AssessmentInit => AssessmentInv
<1> SUFFICES ASSUME AssessmentInit PROVE AssessmentInv
  OBVIOUS
<1>1. cycles \in Nat
  BY AssessmentAssumption DEF AssessmentInit
<1>2. family \in DOMAIN Families /\ host \in Families[family]
  BY DEF AssessmentInit
<1>3. role \in Roles
  BY DEF AssessmentInit, RoleOf, Roles
<1>4. IsSnapshot(signals)
  BY NoSignalsIsSnapshot DEF AssessmentInit
<1>5. Ranked(found) /\ stored \in 0..Len(found)
  <2>1. found = <<>> /\ stored = 0
    BY DEF AssessmentInit
  <2>2. ToSet(<<>>) = {} /\ <<>> \in Seq(ToSet(<<>>)) /\ DOMAIN <<>> = {} /\ Len(<<>>) = 0
    BY ToSetIs
  <2>3. Ranked(<<>>)
    BY <2>2 DEF Ranked
  <2> QED BY <2>1, <2>2, <2>3
<1>6. Ledger(incidents)
  <2>1. incidents = [x \in {} |-> x]
    BY DEF AssessmentInit, Nothing
  <2> QED BY <2>1 DEF Ledger
<1>7. HandlerInv
  <2>1. last = "none"
    BY DEF AssessmentInit
  <2> QED BY <2>1 DEF HandlerInv
<1> QED BY <1>1, <1>2, <1>3, <1>4, <1>5, <1>6, <1>7 DEF AssessmentInv

\* What every handler that collects has at hand.
LEMMA Envelope ==
  ASSUME AssessmentInv, Examined
  PROVE  /\ cycles' \in Nat /\ host' = host /\ role' = role /\ family' = family
         /\ IsHost(host) /\ signals' = Collect(host)
         /\ IsSnapshot(signals') /\ Reflects(host, signals')
         /\ Ranked(found') /\ Covers(found', role, signals')
<1>1. /\ cycles > 0 /\ cycles' = cycles - 1 /\ signals' = Collect(host)
      /\ found' = Analyze(ActivePolicy, [Input(role, Quiet, 0, baseline) EXCEPT !.security = {signals'}])
      /\ host' = host /\ role' = role /\ family' = family
  BY DEF Examined
<1>2. IsHost(host)
  BY HostsAreHosts DEF AssessmentInv
<1>3. PICK h, s : h = host /\ s = signals'
  OBVIOUS
<1>4. IsSnapshot(s) /\ Reflects(h, s)
  <2>1. IsHost(h) /\ s = Collect(h)
    BY <1>1, <1>2, <1>3
  <2> QED BY <2>1, Collected
<1>5. PICK r, base, report : r = role /\ base = baseline /\ report = found'
  OBVIOUS
<1>6. PICK input : input = [Input(r, Quiet, 0, base) EXCEPT !.security = {s}]
  OBVIOUS
<1>7. report = Analyze(ActivePolicy, input)
  BY <1>1, <1>3, <1>5, <1>6
<1>8. Ranked(report) /\ Covers(report, r, s)
  BY <1>4, <1>6, <1>7, Examination
<1>9. cycles' \in Nat
  BY <1>1 DEF AssessmentInv
<1> QED BY <1>1, <1>2, <1>3, <1>4, <1>5, <1>8, <1>9

LEMMA StoresReport ==
  ASSUME NEW report, Ranked(report), NEW n \in 0..Len(report), Ledger(incidents),
         NEW after, after = Stored(report, n)
  PROVE  /\ Ledger(after) /\ Advances(incidents, after)
         /\ n = Len(report) => \A f \in ToSet(report) : Holds(after, f)
<1>1. /\ Len(report) \in Nat
      /\ \A i \in 1..Len(report) : Sound(report[i])
      /\ \A f \in ToSet(report) : \E i \in 1..Len(report) : f = report[i]
  BY SoundReport
<1>2. n \in Nat /\ \A i \in 1..n : Sound(report[i])
  BY <1>1
<1>3. /\ Ledger(after) /\ Advances(incidents, after)
      /\ \A i \in 1..n : Holds(after, report[i])
  BY <1>2, StoredFold
<1> QED BY <1>1, <1>3

LEMMA CompleteKeeps ==
  ASSUME AssessmentInv, Complete
  PROVE  /\ AssessmentInv'
         /\ \E after : /\ Ledger(after) /\ Advances(incidents, after)
                       /\ incidents' = Healed(after, found', signals'.gaps)
<1>1. /\ Examined /\ stored' = Len(found') /\ last' = "complete"
      /\ incidents' = Healed(Stored(found', Len(found')), found', signals'.gaps)
  BY DEF Complete
<1>2. /\ cycles' \in Nat /\ host' = host /\ role' = role /\ family' = family
      /\ IsHost(host) /\ signals' = Collect(host)
      /\ IsSnapshot(signals') /\ Ranked(found') /\ Covers(found', role, signals')
  BY <1>1, Envelope
<1>3. PICK report : report = found'
  OBVIOUS
<1>4. PICK after : after = Stored(report, Len(report))
  OBVIOUS
<1>5. PICK table : table = incidents'
  OBVIOUS
<1>6. PICK gaps : gaps = signals'.gaps
  OBVIOUS
<1>7. Ledger(incidents)
  BY DEF AssessmentInv
<1>8. Ranked(report) /\ Len(report) \in 0..Len(report)
  BY <1>2, <1>3, SoundReport
<1>9. /\ Ledger(after) /\ Advances(incidents, after)
      /\ \A f \in ToSet(report) : Holds(after, f)
  BY <1>4, <1>7, <1>8, StoresReport
<1>10. table = Healed(after, report, gaps)
  BY <1>1, <1>3, <1>4, <1>5, <1>6
<1>11. Ledger(table) /\ \A f \in ToSet(report) : Holds(table, f)
  BY <1>9, <1>10, HealedKeeps
<1>12. /\ last' \in {"none", "complete", "cut", "metrics"}
       /\ signals' = Collect(host') /\ Covers(found', role', signals')
       /\ \A f \in ToSet(found') : Holds(incidents', f)
  BY <1>1, <1>2, <1>3, <1>5, <1>11
<1>13. HandlerInv'
  BY <1>12 DEF HandlerInv
<1>14. stored' \in 0..Len(found')
  BY <1>1, <1>3, <1>8
<1>15. /\ family' \in DOMAIN Families /\ host' \in Families[family'] /\ role' \in Roles
  BY <1>2 DEF AssessmentInv
<1>16. AssessmentInv'
  BY <1>2, <1>5, <1>11, <1>13, <1>14, <1>15 DEF AssessmentInv
<1> QED BY <1>3, <1>5, <1>6, <1>9, <1>10, <1>16

LEMMA CutShortKeeps ==
  ASSUME AssessmentInv, CutShort PROVE AssessmentInv' /\ Advances(incidents, incidents')
<1>1. /\ Examined /\ last' = "cut"
      /\ \E n \in 0..Len(found') : stored' = n /\ incidents' = Stored(found', n)
  BY DEF CutShort
<1>2. /\ cycles' \in Nat /\ host' = host /\ role' = role /\ family' = family
      /\ signals' = Collect(host) /\ IsSnapshot(signals') /\ Ranked(found')
  BY <1>1, Envelope
<1>3. PICK report : report = found'
  OBVIOUS
<1>4. PICK n \in 0..Len(report) : stored' = n /\ incidents' = Stored(report, n)
  BY <1>1, <1>3
<1>5. PICK table : table = incidents'
  OBVIOUS
<1>6. Ledger(incidents)
  BY DEF AssessmentInv
<1>7. Ledger(table) /\ Advances(incidents, table)
  BY <1>2, <1>3, <1>4, <1>5, <1>6, StoresReport
<1>8. HandlerInv'
  <2>1. last' \in {"none", "complete", "cut", "metrics"} /\ last' # "complete"
        /\ signals' = Collect(host')
    BY <1>1, <1>2
  <2> QED BY <2>1 DEF HandlerInv
<1>9. /\ family' \in DOMAIN Families /\ host' \in Families[family'] /\ role' \in Roles
  BY <1>2 DEF AssessmentInv
<1>10. stored' \in 0..Len(found')
  BY <1>3, <1>4
<1>11. AssessmentInv'
  BY <1>2, <1>5, <1>7, <1>8, <1>9, <1>10 DEF AssessmentInv
<1> QED BY <1>5, <1>7, <1>11

LEMMA MetricsKeeps ==
  ASSUME AssessmentInv, ReportMetricsOnly PROVE AssessmentInv' /\ Advances(incidents, incidents')
<1>1. /\ cycles > 0 /\ cycles' = cycles - 1 /\ signals' = NoSignals
      /\ found' = Analyze(ActivePolicy, Input(role, Quiet, 0, baseline))
      /\ stored' = Len(found') /\ incidents' = Stored(found', Len(found'))
      /\ last' = "metrics" /\ role' = role /\ host' = host /\ family' = family
  BY DEF ReportMetricsOnly
<1>2. PICK report, r, base : report = found' /\ r = role /\ base = baseline
  OBVIOUS
<1>3. Ranked(report)
  BY <1>1, <1>2, QuietReport
<1>4. PICK table : table = incidents'
  OBVIOUS
<1>5. Ledger(incidents) /\ cycles \in Nat
  BY DEF AssessmentInv
<1>6. Len(report) \in 0..Len(report)
  BY <1>3, SoundReport
<1>7. table = Stored(report, Len(report))
  BY <1>1, <1>2, <1>4
<1>8. Ledger(table) /\ Advances(incidents, table)
  BY <1>3, <1>5, <1>6, <1>7, StoresReport
<1>9. HandlerInv'
  <2>1. last' = "metrics"
    BY <1>1
  <2> QED BY <2>1 DEF HandlerInv
<1>10. /\ family' \in DOMAIN Families /\ host' \in Families[family'] /\ role' \in Roles
  BY <1>1 DEF AssessmentInv
<1>11. stored' \in 0..Len(found') /\ Ranked(found') /\ cycles' \in Nat /\ IsSnapshot(signals')
  BY <1>1, <1>2, <1>3, <1>5, <1>6, NoSignalsIsSnapshot
<1>12. AssessmentInv'
  BY <1>4, <1>8, <1>9, <1>10, <1>11 DEF AssessmentInv
<1> QED BY <1>4, <1>8, <1>12

LEMMA AssessmentInvNext == AssessmentInv /\ [AssessmentNext]_assessmentVars => AssessmentInv'
<1> SUFFICES ASSUME AssessmentInv, [AssessmentNext]_assessmentVars PROVE AssessmentInv'
  OBVIOUS
<1>1. CASE Complete
  BY <1>1, CompleteKeeps
<1>2. CASE CutShort
  BY <1>2, CutShortKeeps
<1>3. CASE ReportMetricsOnly
  BY <1>3, MetricsKeeps
<1>4. CASE HostChanges
  <2>1. /\ host' \in Families[family] /\ last' = "none"
        /\ UNCHANGED <<role, family, signals, found, stored, incidents, cycles>>
    BY <1>4 DEF HostChanges
  <2>2. HandlerInv'
    BY <2>1 DEF HandlerInv
  <2> HIDE DEF HandlerInv
  <2> QED BY <2>1, <2>2 DEF AssessmentInv
<1>5. CASE OperatorResolves
  <2>1. PICK fp \in DOMAIN incidents : incidents' = [incidents EXCEPT ![fp].status = "resolved"]
    BY <1>5 DEF OperatorResolves
  <2>2. last' = "none" /\ UNCHANGED <<role, host, family, signals, found, stored, cycles>>
    BY <1>5 DEF OperatorResolves
  <2>3. HandlerInv'
    BY <2>2 DEF HandlerInv
  <2>4. PICK before, after : before = incidents /\ after = incidents'
    OBVIOUS
  <2>5. Ledger(before)
    BY <2>4 DEF AssessmentInv
  <2>6. before[fp] \in Records /\ before[fp] = [category |-> before[fp].category,
                                                severity |-> before[fp].severity,
                                                status |-> before[fp].status]
    BY <2>1, <2>4, <2>5 DEF Ledger, Records
  <2>7. PICK rec : rec = [category |-> before[fp].category, severity |-> before[fp].severity,
                          status |-> "resolved"]
    OBVIOUS
  <2>8. rec \in Records /\ rec.category = before[fp].category
    BY <2>6, <2>7 DEF Records
  <2>9. [before[fp] EXCEPT !.status = "resolved"] = rec
    BY <2>6, <2>7
  <2>10. after = [before EXCEPT ![fp] = rec]
    BY <2>1, <2>4, <2>9
  <2>11. Ledger(after)
    BY <2>1, <2>4, <2>5, <2>8, <2>10 DEF Ledger
  <2> QED BY <2>2, <2>3, <2>4, <2>11 DEF AssessmentInv
<1>6. CASE UNCHANGED assessmentVars
  <2>1. UNCHANGED <<role, host, family, signals, found, stored, last, incidents, baseline, cycles>>
    BY <1>6 DEF assessmentVars
  <2>2. HandlerInv'
    BY <2>1 DEF AssessmentInv, HandlerInv
  <2> HIDE DEF HandlerInv
  <2> QED BY <2>1, <2>2 DEF AssessmentInv
<1>7. CASE AssessmentDone
  BY <1>6, <1>7 DEF AssessmentDone
<1> QED BY <1>1, <1>2, <1>3, <1>4, <1>5, <1>6, <1>7 DEF AssessmentNext

LEMMA AssessmentInvariant == AssessmentSpec => []AssessmentInv
BY AssessmentInvInit, AssessmentInvNext, PTL DEF AssessmentSpec
-----------------------------------------------------------------------------
\* The types hold, and a report names no fingerprint twice.
THEOREM AssessmentTypeCorrect == AssessmentSpec => []AssessmentTypeOK
<1>1. AssessmentInv => AssessmentTypeOK
  <2> SUFFICES ASSUME AssessmentInv PROVE AssessmentTypeOK
    OBVIOUS
  <2>1. /\ role \in Roles /\ stored \in 0..Len(found) /\ Ranked(found) /\ Ledger(incidents)
        /\ IsSnapshot(signals)
    BY DEF AssessmentInv
  <2>2. \A socket \in ToSet(signals.listeners) :
          socket \in [protocol : Protocols, address : AddressKinds, port : Nat, scope : Scopes]
    BY <2>1 DEF IsSnapshot
  <2>3. \A fp \in DOMAIN incidents :
          /\ incidents[fp].category = CatalogOf(fp[1]).category
          /\ incidents[fp].severity \in Low..Critical
          /\ incidents[fp].status \in {"open", "resolved"}
    BY <2>1 DEF Ledger, Records
  <2>4. \A i, j \in DOMAIN found : found[i].fingerprint = found[j].fingerprint => i = j
    <3>1. DOMAIN found = 1..Len(found) /\ Len(found) \in Nat
      BY <2>1, SoundReport
    <3>2. \A i, j \in DOMAIN found : i < j => found[i].fingerprint # found[j].fingerprint
      BY <2>1 DEF Ranked
    <3>3. \A i, j \in 1..Len(found) : i < j \/ j < i \/ i = j
      BY <3>1
    <3> QED BY <3>1, <3>2, <3>3
  <2> QED BY <2>1, <2>2, <2>3, <2>4 DEF AssessmentTypeOK
<1> QED BY <1>1, AssessmentInvariant, PTL

\* A handler that is cut after any number of findings has stored the worst of
\* what it found: the engine sorts by severity before anything is stored.
THEOREM CutsKeepTheWorst == AssessmentSpec => []CutKeepsWorst
<1>1. AssessmentInv => CutKeepsWorst
  <2> SUFFICES ASSUME AssessmentInv, NEW i \in 1..stored, NEW j \in (stored + 1)..Len(found)
               PROVE  found[i].severity >= found[j].severity
    BY DEF CutKeepsWorst
  <2>1. stored \in 0..Len(found) /\ Ranked(found)
    BY DEF AssessmentInv
  <2>2. DOMAIN found = 1..Len(found) /\ Len(found) \in Nat
    BY <2>1, SoundReport
  <2>3. i \in DOMAIN found /\ j \in DOMAIN found /\ i < j
    BY <2>1, <2>2
  <2> QED BY <2>1, <2>3 DEF Ranked
<1> QED BY <1>1, AssessmentInvariant, PTL

\* What the host has and the snapshot does not show is a declared gap: the
\* services, the peers, the attempts read of the log, the firewall, the updates
\* and the watched files; but for the table the fallback passed over, and the
\* attempts that may not fit in MAX_EVENTS rows.
THEOREM MissingIsDeclared == AssessmentSpec => []MissingDeclared
<1>1. AssessmentInv => MissingDeclared
  <2> SUFFICES ASSUME AssessmentInv, last \in {"complete", "cut"} PROVE MissingDeclared
    BY DEF MissingDeclared
  <2>1. signals = Collect(host) /\ IsHost(host)
    BY HostsAreHosts DEF AssessmentInv, HandlerInv
  <2>2. Reflects(host, signals)
    BY <2>1, Collected
  <2>3. ASSUME "listeners" \notin signals.gaps, NEW row \in ToSet(host.sockets), Listening(row),
               ~Overlooked(row, signals)
        PROVE  ListenerShown(row)
    <3>1. Heard(row) \in ToSet(signals.listeners)
      BY <2>2, <2>3 DEF Reflects, Skipped, Overlooked
    <3>2. Heard(row).protocol = row.protocol /\ Heard(row).port = row.port
      BY <2>1, HeardTyped DEF IsHost
    <3> QED BY <3>1, <3>2 DEF ListenerShown
  <2>4. ASSUME {"listeners", "peers"} \cap signals.gaps = {}, NEW row \in ToSet(host.sockets),
               Connected(row), ~Overlooked(row, signals)
        PROVE  PeerShown(row)
    BY <2>2, <2>4 DEF Reflects, Skipped, Overlooked, PeerShown, Talks
  <2>5. ASSUME "auth-events" \notin signals.gaps, Len(signals.auth_events) < MaxEvents,
               NEW line \in ToSet(ReadLog(host)), FromElsewhere(line)
        PROVE  AttemptShown(line)
    BY <2>2, <2>5 DEF Reflects, AttemptShown
  <2>6. /\ signals.firewall = {} => "firewall" \in signals.gaps
        /\ signals.updates = {} => "security-updates" \in signals.gaps
        /\ \A i \in DOMAIN host.files :
             \/ host.files[i].state = "absent"
             \/ \E file \in ToSet(signals.watched_files) : file.path = host.files[i].path
             \/ "watched-files" \in signals.gaps
    BY <2>2 DEF Reflects
  <2> QED BY <2>3, <2>4, <2>5, <2>6 DEF MissingDeclared
<1> QED BY <1>1, AssessmentInvariant, PTL

\* The finding an exposed row gives in a snapshot that shows it.
LEMMA ExposedRow ==
  ASSUME NEW r, NEW snapshot, IsSnapshot(snapshot), NEW row, IsRow(row),
         Heard(row) \in ToSet(snapshot.listeners), Reported(ActivePolicy, r, Row2Socket(row))
  PROVE  \E c \in ToSet(Exposure(ActivePolicy, r, snapshot)) :
           /\ c.fingerprint = <<PortRule(row.port), <<row.protocol, row.port>>>>
           /\ c.severity = ExposureSeverity(PortClass(row.port), TrueScope(row.address), r)
<1>1. PICK socket : socket = Heard(row)
  OBVIOUS
<1>2. /\ socket.protocol = row.protocol /\ socket.port = row.port
      /\ socket.scope = TrueScope(row.address) /\ socket \in ToSet(snapshot.listeners)
  BY <1>1, HeardTyped
<1>3. Reported(ActivePolicy, r, socket)
  BY <1>2 DEF Reported, Row2Socket
<1>4. socket.scope # "loopback"
  BY <1>3 DEF Reported, ExposureSeverity
<1>5. ExposureFinding(ActivePolicy, r, socket) \in ToSet(Exposure(ActivePolicy, r, snapshot))
  BY <1>2, <1>3, <1>4, ExposureListSound
<1>6. PICK c : c = ExposureFinding(ActivePolicy, r, socket)
  OBVIOUS
<1>7. /\ c.fingerprint = <<PortRule(socket.port), <<socket.protocol, socket.port>>>>
      /\ c.severity = ExposureSeverity(PortClass(socket.port), socket.scope, r)
  BY <1>6 DEF ExposureFinding, Finding, PortRule
<1> QED BY <1>2, <1>5, <1>6, <1>7

\* After a complete handler every service reachable from elsewhere is an
\* unresolved incident of at least its severity, or the listeners are a declared
\* gap, or the fallback passed over its table.
THEOREM ExposureIsReported == AssessmentSpec => []ExposureReported
<1>1. AssessmentInv => ExposureReported
  <2> SUFFICES ASSUME AssessmentInv, last = "complete", "listeners" \notin signals.gaps,
                      NEW row \in Exposed, ~Overlooked(row, signals)
               PROVE  \E rule \in {"exposure.service.public", "exposure.cleartext.protocol"} :
                        Unresolved(<<rule, <<row.protocol, row.port>>>>,
                                   ExposureSeverity(PortClass(row.port), TrueScope(row.address), role))
    BY DEF ExposureReported
  <2>1. /\ signals = Collect(host) /\ IsHost(host) /\ IsSnapshot(signals)
        /\ Covers(found, role, signals) /\ \A f \in ToSet(found) : Holds(incidents, f)
    BY HostsAreHosts DEF AssessmentInv, HandlerInv
  <2>2. Reflects(host, signals)
    BY <2>1, Collected
  <2>3. /\ row \in ToSet(host.sockets) /\ Listening(row) /\ IsRow(row)
        /\ Reported(ActivePolicy, role, Row2Socket(row))
    BY <2>1 DEF Exposed, IsHost
  <2>4. Heard(row) \in ToSet(signals.listeners)
    BY <2>2, <2>3 DEF Reflects, Skipped, Overlooked
  <2>5. PICK s, r : s = signals /\ r = role
    OBVIOUS
  <2>6. PICK c \in ToSet(Exposure(ActivePolicy, r, s)) :
          /\ c.fingerprint = <<PortRule(row.port), <<row.protocol, row.port>>>>
          /\ c.severity = ExposureSeverity(PortClass(row.port), TrueScope(row.address), r)
    BY <2>1, <2>3, <2>4, <2>5, ExposedRow
  <2>7. PICK f \in ToSet(found) : f.fingerprint = c.fingerprint /\ f.severity >= c.severity
    BY <2>1, <2>5, <2>6 DEF Covers
  <2>8. PICK fp : fp = f.fingerprint
    OBVIOUS
  <2>9. /\ fp \in DOMAIN incidents /\ incidents[fp].status # "resolved"
        /\ incidents[fp].severity >= f.severity
    BY <2>1, <2>8 DEF Holds
  <2>10. incidents[fp].severity \in Int /\ f.severity \in Int /\ c.severity \in Int
    <3>1. \A x \in Low..Critical : x \in Int
      BY DEF Low, Critical
    <3>2. incidents[fp].severity \in Low..Critical
      BY <2>9 DEF AssessmentInv, Ledger, Records
    <3>3. Sound(f)
      BY DEF AssessmentInv, Ranked
    <3>4. Sound(c)
      BY <2>1, <2>5, <2>6, ExposureListSound DEF SoundList
    <3> QED BY <3>1, <3>2, <3>3, <3>4 DEF Sound
  <2>11. incidents[fp].severity >= c.severity
    BY <2>7, <2>9, <2>10
  <2>12. Unresolved(fp, c.severity)
    BY <2>9, <2>11 DEF Unresolved
  <2>13. PICK rule : rule = PortRule(row.port)
    OBVIOUS
  <2>14. rule \in {"exposure.service.public", "exposure.cleartext.protocol"}
    BY <2>13 DEF PortRule
  <2>15. fp = <<rule, <<row.protocol, row.port>>>>
    BY <2>6, <2>7, <2>8, <2>13
  <2> QED BY <2>5, <2>6, <2>12, <2>14, <2>15
<1> QED BY <1>1, AssessmentInvariant, PTL

\* The fallback over /proc/net sees what ss sees, of any table of sockets.
THEOREM FallbackSeesTheSame == AssessmentSpec => []FallbackAgrees
<1>1. AssessmentInv => FallbackAgrees
  <2> SUFFICES ASSUME AssessmentInv PROVE FallbackAgrees
    OBVIOUS
  <2>1. PICK h : h = host
    OBVIOUS
  <2>2. IsHost(h)
    BY <2>1, HostsAreHosts DEF AssessmentInv
  <2>3. PICK h2 : h2 = [h EXCEPT !.readable = ToSet(Tables)]
    OBVIOUS
  <2>4. h2 = Host(h.platform, h.sockets, h.log, h.files, h.working, ToSet(Tables), h.filtering,
                  h.pending)
    BY <2>2, <2>3 DEF IsHost, Host
  <2>5. /\ h2.platform = h.platform /\ h2.sockets = h.sockets /\ h2.log = h.log
        /\ h2.files = h.files /\ h2.working = h.working /\ h2.readable = ToSet(Tables)
        /\ h2.filtering = h.filtering /\ h2.pending = h.pending
    BY <2>4 DEF Host
  <2>6. IsHost(h2)
    BY <2>2, <2>4, <2>5 DEF IsHost
  <2>7. PICK told, read : told = ParseSs(h.sockets) /\ read = ReadProcNet(h2)
    OBVIOUS
  <2>8. h.sockets \in Seq(ToSet(h.sockets)) /\ \A row \in ToSet(h.sockets) : IsRow(row)
    BY <2>2 DEF IsHost
  <2>9. Shows(told, ToSet(h.sockets), "named")
    BY <2>7, <2>8, SsTells, TellsShows
  <2> DEFINE S == {row \in ToSet(h2.sockets) : <<row.protocol, row.v6>> \in h2.readable}
  <2>10. Shows(read, S, "named")
    BY <2>6, <2>7, ReadShows
  <2>11. S = ToSet(h.sockets)
    <3>1. \A row \in ToSet(h.sockets) : <<row.protocol, row.v6>> \in ToSet(Tables)
      BY <2>8, AllTables DEF IsRow
    <3> QED BY <2>5, <3>1
  <2> HIDE DEF S
  <2>12. ToSet(told.listeners) = ToSet(read.listeners)
    <3>1. \A socket : socket \in ToSet(told.listeners) <=> socket \in ToSet(read.listeners)
      BY <2>9, <2>10, <2>11 DEF Shows
    <3> QED BY <3>1
  <2>13. ToSet(told.peers) = ToSet(read.peers)
    <3>1. \A peer : peer \in ToSet(told.peers) <=> peer \in ToSet(read.peers)
      BY <2>9, <2>10, <2>11 DEF Shows
    <3> QED BY <3>1
  <2> QED BY <2>1, <2>3, <2>7, <2>12, <2>13 DEF FallbackAgrees
<1> QED BY <1>1, AssessmentInvariant, PTL
\* What a complete handler may close, given what its snapshot says of the host:
\* an exposure none of whose rows is exposed, or passed over; updates when
\* nothing is pending; a firewall that filters or is not the one that answers.
LEMMA ClosingIsSound ==
  ASSUME NEW r, NEW h, IsHost(h), NEW snapshot, IsSnapshot(snapshot), Reflects(h, snapshot),
         NEW report, Covers(report, r, snapshot), NEW fp, Keyed(fp),
         CatalogOf(fp[1]).category \in SelfHealing(snapshot.gaps),
         \A f \in ToSet(report) : f.fingerprint # fp
  PROVE  /\ CatalogOf(fp[1]).category = "exposure" =>
              \A row \in ToSet(h.sockets) :
                /\ Listening(row) /\ Reported(ActivePolicy, r, Row2Socket(row))
                /\ <<row.protocol, row.port>> = fp[2]
                => Skipped(h, row, snapshot)
         /\ fp[1] = "hygiene.updates.pending" => h.pending = 0
         /\ fp[1] = "hygiene.firewall.disabled" =>
              \E firewall \in FirewallOf(h) :
                firewall.engine = fp[2] => firewall.enabled /\ firewall.default_inbound_deny
<1>1. ASSUME CatalogOf(fp[1]).category = "exposure", NEW row \in ToSet(h.sockets),
             Listening(row), Reported(ActivePolicy, r, Row2Socket(row)),
             <<row.protocol, row.port>> = fp[2], ~Skipped(h, row, snapshot)
      PROVE  FALSE
  <2>1. "listeners" \notin snapshot.gaps
    BY <1>1 DEF SelfHealing
  <2>2. Heard(row) \in ToSet(snapshot.listeners) /\ IsRow(row)
    BY <1>1, <2>1 DEF Reflects, IsHost
  <2>3. PICK c \in ToSet(Exposure(ActivePolicy, r, snapshot)) :
          c.fingerprint = <<PortRule(row.port), <<row.protocol, row.port>>>>
    BY <1>1, <2>2, ExposedRow
  <2>4. PICK f \in ToSet(report) : f.fingerprint = c.fingerprint
    BY <2>3 DEF Covers
  <2>5. fp = <<PortRule(fp[2][2]), fp[2]>>
    BY <1>1 DEF Keyed
  <2>6. fp[2][2] = row.port
    BY <1>1
  <2>7. c.fingerprint = fp
    BY <1>1, <2>3, <2>5, <2>6
  <2> QED BY <2>4, <2>7
<1>2. ASSUME fp[1] = "hygiene.updates.pending" PROVE h.pending = 0
  <2>1. CatalogOf(fp[1]).category = "hygiene"
    BY <1>2, CategoryOf
  <2>2. "security-updates" \notin snapshot.gaps
    BY <2>1 DEF SelfHealing
  <2>3. snapshot.updates = {h.pending}
    BY <2>2 DEF Reflects
  <2>4. h.pending \in Nat
    BY DEF IsHost
  <2>5. CASE h.pending > 0
    <3>1. PICK c \in Hygiene(ActivePolicy, snapshot) :
            c.fingerprint = <<"hygiene.updates.pending", "">>
      BY <2>3, <2>5, HygieneSound
    <3>2. PICK f \in ToSet(report) : f.fingerprint = c.fingerprint
      BY <3>1 DEF Covers
    <3>3. fp = <<"hygiene.updates.pending", "">>
      BY <1>2 DEF Keyed
    <3> QED BY <3>1, <3>2, <3>3
  <2> QED BY <2>4, <2>5
<1>3. ASSUME fp[1] = "hygiene.firewall.disabled"
      PROVE  \E firewall \in FirewallOf(h) :
               firewall.engine = fp[2] => firewall.enabled /\ firewall.default_inbound_deny
  <2>1. CatalogOf(fp[1]).category = "hygiene"
    BY <1>3, CategoryOf
  <2>2. "firewall" \notin snapshot.gaps
    BY <2>1 DEF SelfHealing
  <2>3. PICK firewall \in FirewallOf(h) : firewall \in snapshot.firewall
    BY <2>2 DEF Reflects
  <2>4. ASSUME firewall.engine = fp[2], ~(firewall.enabled /\ firewall.default_inbound_deny)
        PROVE  FALSE
    <3>1. PICK c \in Hygiene(ActivePolicy, snapshot) :
            c.fingerprint = <<"hygiene.firewall.disabled", firewall.engine>>
      BY <2>3, <2>4, HygieneSound
    <3>2. PICK f \in ToSet(report) : f.fingerprint = c.fingerprint
      BY <3>1 DEF Covers
    <3>3. fp = <<"hygiene.firewall.disabled", fp[2]>>
      BY <1>3 DEF Keyed
    <3> QED BY <2>4, <3>1, <3>2, <3>3
  <2> QED BY <2>4
<1> QED BY <1>1, <1>2, <1>3

\* The engine closes an exposure only when the port is no longer exposed or its
\* table was passed over, an updates finding only when nothing is pending, and
\* one about a firewall only when that engine filters or another answers.
THEOREM ClosedIsGone == AssessmentSpec => ClosedMeansGone
<1>1. AssessmentInv /\ [AssessmentNext]_assessmentVars => [ClosesOnlyGone]_assessmentVars
  <2> SUFFICES ASSUME AssessmentInv, [AssessmentNext]_assessmentVars,
                      NEW fp \in DOMAIN incidents,
                      incidents[fp].status # "resolved", incidents'[fp].status = "resolved",
                      last' # "none", ~UNCHANGED assessmentVars
               PROVE  /\ incidents[fp].category = "exposure" =>
                           \A row \in Exposed :
                             <<row.protocol, row.port>> = fp[2] => Overlooked(row, signals')
                      /\ fp[1] = "hygiene.updates.pending" => host.pending = 0
                      /\ fp[1] = "hygiene.firewall.disabled" =>
                           \E firewall \in FirewallOf(host) :
                             firewall.engine = fp[2]
                               => firewall.enabled /\ firewall.default_inbound_deny
    BY DEF ClosesOnlyGone
  <2>1. CASE Complete
    <3>1. PICK after : /\ Ledger(after) /\ Advances(incidents, after)
                       /\ incidents' = Healed(after, found', signals'.gaps)
      BY <2>1, CompleteKeeps
    <3>2. Examined
      BY <2>1 DEF Complete
    <3>3. /\ IsHost(host) /\ IsSnapshot(signals') /\ Reflects(host, signals')
          /\ Covers(found', role, signals')
      BY <3>2, Envelope
    <3>4. PICK h, r, s, report, table :
            h = host /\ r = role /\ s = signals' /\ report = found' /\ table = incidents'
      OBVIOUS
    <3>5. PICK gaps : gaps = s.gaps
      OBVIOUS
    <3>6. table = Healed(after, report, gaps)
      BY <3>1, <3>4, <3>5
    <3>7. fp \in DOMAIN after /\ after[fp].status # "resolved"
      BY <3>1 DEF Advances
    <3>8. table[fp].status = "resolved"
      BY <3>4
    <3>9. after[fp].category \in SelfHealing(gaps) /\ \A f \in ToSet(report) : f.fingerprint # fp
      BY <3>1, <3>6, <3>7, <3>8, HealedKeeps
    <3>10. after[fp].category = CatalogOf(fp[1]).category /\ Keyed(fp)
      BY <3>1, <3>7 DEF Ledger
    <3>11. /\ CatalogOf(fp[1]).category = "exposure" =>
                \A row \in ToSet(h.sockets) :
                  /\ Listening(row) /\ Reported(ActivePolicy, r, Row2Socket(row))
                  /\ <<row.protocol, row.port>> = fp[2]
                  => Skipped(h, row, s)
           /\ fp[1] = "hygiene.updates.pending" => h.pending = 0
           /\ fp[1] = "hygiene.firewall.disabled" =>
                \E firewall \in FirewallOf(h) :
                  firewall.engine = fp[2] => firewall.enabled /\ firewall.default_inbound_deny
      BY <3>3, <3>4, <3>5, <3>9, <3>10, ClosingIsSound
    <3>12. incidents[fp].category = CatalogOf(fp[1]).category
      BY DEF AssessmentInv, Ledger
    <3> QED BY <3>4, <3>11, <3>12 DEF Exposed, Skipped, Overlooked
  <2>2. CASE CutShort
    <3>1. Advances(incidents, incidents')
      BY <2>2, CutShortKeeps
    <3> QED BY <3>1 DEF Advances
  <2>3. CASE ReportMetricsOnly
    <3>1. Advances(incidents, incidents')
      BY <2>3, MetricsKeeps
    <3> QED BY <3>1 DEF Advances
  <2>4. CASE HostChanges
    BY <2>4 DEF HostChanges
  <2>5. CASE OperatorResolves
    BY <2>5 DEF OperatorResolves
  <2>6. CASE AssessmentDone
    BY <2>6 DEF AssessmentDone
  <2> QED BY <2>1, <2>2, <2>3, <2>4, <2>5, <2>6 DEF AssessmentNext
<1> QED BY <1>1, AssessmentInvariant, PTL DEF AssessmentSpec, ClosedMeansGone
\* The failures BurstsReported counts are the hits of Attempted.
LEMMA FailuresCounted ==
  ASSUME NEW log, log \in Seq(ToSet(log)), NEW source, NEW failures,
         failures = Where(log, LAMBDA line : line.source = source /\ line.kind \in FailureKinds)
  PROVE  Len(failures) = Cardinality(Hits(log, Attempted(log, source)))
<1> DEFINE Wanted(line) == line.source = source /\ line.kind \in FailureKinds
<1>1. PICK T : T = Attempted(log, source)
  OBVIOUS
<1>2. failures = FlattenSeq([i \in DOMAIN log |-> IF Wanted(log[i]) THEN <<log[i]>> ELSE <<>>])
  BY DEF Where
<1>3. \A line \in ToSet(log) : Wanted(line) <=> line \in T
  BY <1>1 DEF Attempted
<1> HIDE DEF Wanted
<1>4. \A i \in DOMAIN log : log[i] \in ToSet(log)
  BY ToSetIs
<1>5. [i \in DOMAIN log |-> IF Wanted(log[i]) THEN <<log[i]>> ELSE <<>>]
        = [i \in DOMAIN log |-> IF log[i] \in T THEN <<log[i]>> ELSE <<>>]
  BY <1>3, <1>4
<1>6. failures = FlattenSeq([i \in DOMAIN log |-> IF log[i] \in T THEN <<log[i]>> ELSE <<>>])
  BY <1>2, <1>5
<1>7. Len(failures) = Cardinality(Hits(log, T))
  BY <1>6, SelectedLength
<1> QED BY <1>1, <1>7

\* A source under pressure for long enough is a finding of every snapshot that
\* shows it.
LEMMA BurstFound ==
  ASSUME NEW snapshot, IsSnapshot(snapshot), NEW source, NEW failures \in Nat,
         Pressure(snapshot, source, failures), failures >= ActivePolicy.failures_per_source_high
  PROVE  \E c \in Authentication(ActivePolicy, snapshot) :
           /\ c.fingerprint = <<"intrusion.auth.bruteforce", source>>
           /\ c.severity >= High
<1>1. /\ ActivePolicy.failures_per_source_high \in Nat
      /\ ActivePolicy.failures_per_source_high # 0
  BY AssessmentAssumption DEF Validate
<1>2. PICK n, limit : /\ n = Attempts(snapshot, source, "failure")
                      /\ limit = ActivePolicy.failures_per_source_high
  OBVIOUS
<1>3. n \in Nat /\ failures <= n /\ (failures > 0 => source \in Sources(snapshot))
  BY <1>2 DEF Pressure
<1>4. failures > 0 /\ n > 0 /\ n >= limit
  BY <1>1, <1>2, <1>3
<1> QED BY <1>2, <1>3, <1>4, AuthenticationSound

\* A source that fails as often as the policy tolerates in what is read of the
\* log, under whatever names, is an unresolved incident after a complete handler,
\* unless the log could not be read or its rows do not fit in the report.
THEOREM BurstsAreReported == AssessmentSpec => []BurstsReported
<1>1. AssessmentInv => BurstsReported
  <2>1. ASSUME AssessmentInv, last = "complete", "auth-events" \notin signals.gaps,
               Len(signals.auth_events) < MaxEvents, NEW source, source # "localhost", NEW failures,
               failures = Where(ReadLog(host), LAMBDA line :
                            line.source = source /\ line.kind \in FailureKinds),
               Len(failures) >= ActivePolicy.failures_per_source_high
        PROVE  Unresolved(<<"intrusion.auth.bruteforce", source>>, High)
    <3>1. /\ signals = Collect(host) /\ IsHost(host) /\ IsSnapshot(signals)
          /\ Covers(found, role, signals) /\ \A f \in ToSet(found) : Holds(incidents, f)
      BY <2>1, HostsAreHosts DEF AssessmentInv, HandlerInv
    <3>2. PICK h, s, log : h = host /\ s = signals /\ log = ReadLog(host)
      OBVIOUS
    <3>3. PICK n : n = Len(failures)
      OBVIOUS
    <3>a. log \in Seq(ToSet(log))
      BY <3>1, <3>2, LogLists
    <3>4. n = Cardinality(Hits(log, Attempted(log, source)))
      <4>1. failures = Where(log, LAMBDA line : line.source = source /\ line.kind \in FailureKinds)
        BY <2>1, <3>2
      <4> QED BY <3>3, <3>a, <4>1, FailuresCounted
    <3>5. n \in Nat
      BY <3>4, <3>a, HitsFinite
    <3>6. Reflects(h, s)
      BY <3>1, <3>2, Collected
    <3>7. Pressure(s, source, n)
      <4>1. log = ReadLog(h)
        BY <3>2
      <4> QED BY <2>1, <3>2, <3>4, <3>6, <4>1 DEF Reflects
    <3>8. n >= ActivePolicy.failures_per_source_high
      BY <2>1, <3>3
    <3>9. PICK c \in Authentication(ActivePolicy, s) :
            /\ c.fingerprint = <<"intrusion.auth.bruteforce", source>>
            /\ c.severity >= High
      BY <3>1, <3>2, <3>5, <3>7, <3>8, BurstFound
    <3>10. PICK f \in ToSet(found) : f.fingerprint = c.fingerprint /\ f.severity >= c.severity
      BY <3>1, <3>2, <3>9 DEF Covers
    <3>11. PICK fp : fp = f.fingerprint
      OBVIOUS
    <3>12. /\ fp \in DOMAIN incidents /\ incidents[fp].status # "resolved"
           /\ incidents[fp].severity >= f.severity
      BY <3>1, <3>11 DEF Holds
    <3>13. incidents[fp].severity \in Int /\ f.severity \in Int /\ c.severity \in Int /\ High \in Int
      <4>1. \A x \in Low..Critical : x \in Int
        BY DEF Low, Critical
      <4>2. incidents[fp].severity \in Low..Critical
        BY <2>1, <3>12 DEF AssessmentInv, Ledger, Records
      <4>3. Sound(f)
        BY <2>1 DEF AssessmentInv, Ranked
      <4>4. SoundSet(Authentication(ActivePolicy, s))
        BY <3>1, <3>2, AuthenticationSound
      <4>5. Sound(c)
        BY <4>4 DEF SoundSet
      <4>6. High \in Int
        BY DEF High
      <4> QED BY <4>1, <4>2, <4>3, <4>5, <4>6 DEF Sound
    <3>14. incidents[fp].severity >= High
      BY <3>9, <3>10, <3>12, <3>13
    <3>15. fp = <<"intrusion.auth.bruteforce", source>>
      BY <3>9, <3>10, <3>11
    <3> QED BY <3>12, <3>14, <3>15 DEF Unresolved
  <2> QED BY <2>1 DEF BurstsReported
<1> QED BY <1>1, AssessmentInvariant, PTL
\* What MergesAll says of the findings of an input.
Lossless(found0, candidates) ==
  \A c \in candidates :
    \E f \in ToSet(found0) :
      LET same == {d \in candidates : d.fingerprint = c.fingerprint}
      IN /\ f.fingerprint = c.fingerprint
         /\ f.severity = Max({d.severity : d \in same})
         /\ f.evidence = UNION {d.evidence : d \in same}

\* The largest of some numbers is the one CHOOSE takes.
LEMMA MaxIs ==
  ASSUME NEW S, S \subseteq Int, NEW m \in S, \A x \in S : x <= m
  PROVE  Max(S) = m
<1>1. \A x \in S : x \in Int /\ m >= x
  OBVIOUS
<1>2. \A z \in S : (\A x \in S : z >= x) => z = m
  OBVIOUS
<1>3. Max(S) = CHOOSE z \in S : \A x \in S : z >= x
  BY DEF Max
<1> QED BY <1>1, <1>2, <1>3

LEMMA MergesLossless ==
  ASSUME NEW input, IsFiniteSet(input.security), \A s \in input.security : IsSnapshot(s),
         NEW report, report = Analyze(ActivePolicy, input)
  PROVE  Lossless(report, ToSet(Candidates(ActivePolicy, input)))
<1>1. PICK candidates : candidates = Candidates(ActivePolicy, input)
  OBVIOUS
<1>2. SoundList(candidates)
  BY <1>1, CandidatesSound
<1>3. PICK C : C = ToSet(candidates)
  OBVIOUS
<1>4. \A c \in C : \E f \in ToSet(report) : Summarises(f, C, c.fingerprint)
  BY <1>1, <1>3, Analyzed
<1>5. \A c \in C : c.severity \in Int
  <2>1. \A x \in Low..Critical : x \in Int
    BY DEF Low, Critical
  <2> QED BY <1>2, <1>3, <2>1 DEF SoundList, Sound
<1>6. ASSUME NEW c \in C, NEW f, Summarises(f, C, c.fingerprint)
      PROVE  LET same == {d \in C : d.fingerprint = c.fingerprint}
             IN /\ f.fingerprint = c.fingerprint
                /\ f.severity = Max({d.severity : d \in same})
                /\ f.evidence = UNION {d.evidence : d \in same}
  <2> DEFINE same == {d \in C : d.fingerprint = c.fingerprint}
             S == {d.severity : d \in same}
  <2>1. /\ f.fingerprint = c.fingerprint
        /\ f.evidence = UNION {d.evidence : d \in same}
        /\ \A d \in same : d.severity <= f.severity
        /\ \E d \in same : f.severity = d.severity
    BY <1>6 DEF Summarises
  <2>2. same \subseteq C
    OBVIOUS
  <2> HIDE DEF same
  <2>3. S \subseteq Int /\ f.severity \in S /\ \A x \in S : x <= f.severity
    BY <1>5, <2>1, <2>2
  <2> HIDE DEF S
  <2>4. f.severity = Max(S)
    BY <2>3, MaxIs
  <2> QED BY <2>1, <2>4 DEF same, S
<1>7. Lossless(report, C)
  BY <1>4, <1>6 DEF Lossless
<1> QED BY <1>1, <1>3, <1>7

\* Merging loses nothing: of all the candidates of an envelope each fingerprint
\* has one finding, as severe as the worst of them and with the evidence of all.
THEOREM NothingIsLost == AssessmentSpec => NothingLost
<1>1. AssessmentInv /\ [AssessmentNext]_assessmentVars => [MergesAll]_assessmentVars
  <2> SUFFICES ASSUME AssessmentInv, [AssessmentNext]_assessmentVars, cycles' < cycles
               PROVE  Lossless(found',
                        ToSet(Candidates(ActivePolicy,
                                [Input(role, Quiet, 0, baseline)
                                   EXCEPT !.security = IF last' = "metrics" THEN {} ELSE {signals'}])))
    BY DEF MergesAll, Lossless
  <2>0. cycles \in Nat
    BY DEF AssessmentInv
  <2>1. ASSUME Examined, last' # "metrics"
        PROVE  Lossless(found',
                 ToSet(Candidates(ActivePolicy,
                         [Input(role, Quiet, 0, baseline)
                            EXCEPT !.security = IF last' = "metrics" THEN {} ELSE {signals'}])))
    <3>1. PICK s, report, r, base : s = signals' /\ report = found' /\ r = role /\ base = baseline
      OBVIOUS
    <3>2. PICK input : input = [Input(r, Quiet, 0, base) EXCEPT !.security = {s}]
      OBVIOUS
    <3>3. report = Analyze(ActivePolicy, input)
      BY <2>1, <3>1, <3>2 DEF Examined
    <3>4. input.security = {s}
      BY <3>2 DEF Input
    <3>5. IsSnapshot(s)
      BY <2>1, <3>1, Envelope
    <3>6. PICK same : same = input
      OBVIOUS
    <3>7. IsFiniteSet(same.security) /\ \A x \in same.security : IsSnapshot(x)
      BY <3>4, <3>5, <3>6, FS_Singleton
    <3>8. report = Analyze(ActivePolicy, same)
      BY <3>3, <3>6
    <3>9. Lossless(report, ToSet(Candidates(ActivePolicy, same)))
      BY <3>7, <3>8, MergesLossless
    <3>10. same = [Input(role, Quiet, 0, baseline)
                     EXCEPT !.security = IF last' = "metrics" THEN {} ELSE {signals'}]
      BY <2>1, <3>1, <3>2, <3>6
    <3> QED BY <3>1, <3>9, <3>10
  <2>2. CASE Complete
    BY <2>1, <2>2 DEF Complete
  <2>3. CASE CutShort
    BY <2>1, <2>3 DEF CutShort
  <2>4. CASE ReportMetricsOnly
    <3>1. PICK report, r, base : report = found' /\ r = role /\ base = baseline
      OBVIOUS
    <3>2. PICK input : input = Input(r, Quiet, 0, base)
      OBVIOUS
    <3>3. report = Analyze(ActivePolicy, input) /\ last' = "metrics"
      BY <2>4, <3>1, <3>2 DEF ReportMetricsOnly
    <3>4. input.security = {} /\ [input EXCEPT !.security = {}] = input
      BY <3>2, SMTT(30) DEF Input
    <3>5. IsFiniteSet(input.security) /\ \A x \in input.security : IsSnapshot(x)
      BY <3>4, FS_EmptySet
    <3>6. Lossless(report, ToSet(Candidates(ActivePolicy, input)))
      BY <3>3, <3>5, MergesLossless
    <3>7. input = [Input(role, Quiet, 0, baseline)
                     EXCEPT !.security = IF last' = "metrics" THEN {} ELSE {signals'}]
      BY <3>1, <3>2, <3>3, <3>4
    <3> QED BY <3>1, <3>6, <3>7
  <2>5. CASE HostChanges
    BY <2>0, <2>5 DEF HostChanges
  <2>6. CASE OperatorResolves
    BY <2>0, <2>6 DEF OperatorResolves
  <2>7. CASE UNCHANGED assessmentVars
    BY <2>0, <2>7 DEF assessmentVars
  <2>8. CASE AssessmentDone
    BY <2>7, <2>8 DEF AssessmentDone
  <2> QED BY <2>2, <2>3, <2>4, <2>5, <2>6, <2>7, <2>8 DEF AssessmentNext
<1> QED BY <1>1, AssessmentInvariant, PTL DEF AssessmentSpec, NothingLost
=============================================================================
