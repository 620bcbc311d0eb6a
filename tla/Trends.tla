------------------------------- MODULE Trends -------------------------------
(***************************************************************************)
(* The rules that read a history: saturation, runway and egress over the   *)
(* samples of one machine (rootcause-core/src/detect/resource.rs and       *)
(* intrusion.rs, through store_sample and recent_samples of storage.rs).   *)
(* A sample may be lost on its way, or be judged after a newer one; the    *)
(* machine may reboot, which resets its counters.  What was true of the    *)
(* machine is kept beside what the server stored.                          *)
(***************************************************************************)
EXTENDS Rules

CONSTANTS
  HistoryWindow,  \* HISTORY_WINDOW
  TrendSetups,    \* a policy an operator wrote, the CPU, growth and traffic a
                  \* machine may measure in a tick, whether it may be rebooted,
                  \* and how far its clock is ahead of the server's
  MaxAhead,       \* how far ahead a sample is still accepted
  MaxBehind,      \* how old
  MaxTicks,       \* bound on the samples taken, for TLC
  MaxPending,     \* bound on the samples under way, for TLC
  MaxReboots      \* bound on the reboots, for TLC

\* The policy's counts and hours are unsigned, its multiplier and floor are whole
\* numbers here; a used disk only grows, bytes are counted up, and the agent's
\* clock is right or ahead.
ASSUME TrendAssumption ==
  /\ HistoryWindow \in Nat
  /\ \A s \in TrendSetups :
       /\ s.skew \in Nat
       /\ s.growth \subseteq Nat /\ s.sent \subseteq Nat
       /\ s.policy.egress_multiplier \in Int /\ s.policy.egress_floor \in Int
       /\ s.policy.cpu_sustained_samples \in Nat
       /\ s.policy.disk_runway_hours \in Nat

VARIABLES
  course,    \* the policy in force and the machine's course
  clock,     \* ticks of the server's clock
  taken,     \* every sample the machine took, in order
  bursts,    \* the ticks in which the machine sent more than usual
  reboots,   \* the ticks in which it was rebooted
  pending,   \* samples under way
  samples,   \* samples stored
  judged     \* the last sample judged, its history and its findings

trendVars == <<course, clock, taken, bursts, reboots, pending, samples, judged>>

Nobody == [sample |-> Sample(0, 0, 0, 0, 0), history |-> <<>>, findings |-> {}]

\* DetectionEngine::new refuses a policy that does not validate.
TrendInit ==
  /\ course \in {s \in TrendSetups : Validate(s.policy)}
  /\ clock = 1
  /\ taken = <<>>
  /\ bursts = {}
  /\ reboots = {}
  /\ pending = {}
  /\ samples = {}
  /\ judged = Nobody

-----------------------------------------------------------------------------
Previous == IF taken = <<>> THEN Sample(0, 0, 0, 10, 0) ELSE taken[Len(taken)]

Measured(cpu, growth, sent, reboot) ==
  Sample(clock + course.skew, cpu, 0, Min({100, Previous.disk + growth}),
         IF reboot THEN sent ELSE Previous.tx + sent)

\* The agent samples: the processor is busy or not, the disk grew or not, the
\* counter of sent bytes went on or began again.
Take ==
  /\ Len(taken) < MaxTicks
  /\ Cardinality(pending) < MaxPending
  /\ \E cpu \in course.cpu, growth \in course.growth, sent \in course.sent, reboot \in BOOLEAN :
       LET sample == Measured(cpu, growth, sent, reboot)
       IN /\ reboot => course.reboots /\ Cardinality(reboots) < MaxReboots
          /\ reboots' = IF reboot THEN reboots \cup {sample.observed_at} ELSE reboots
          /\ bursts' = IF sent = Min(course.sent) THEN bursts
                                                  ELSE bursts \cup {sample.observed_at}
          /\ taken' = Append(taken, sample)
          /\ pending' = pending \cup {sample}
  /\ clock' = clock + 1
  /\ UNCHANGED <<course, samples, judged>>

\* recent_samples: the newest of those before the sample, oldest first.
RecentSamples(sample) ==
  LET before == {s \in samples : s.observed_at < sample.observed_at}
      recent == {s \in before :
                   Cardinality({newer \in before : newer.observed_at > s.observed_at})
                     < HistoryWindow}
      Older(s) == {older \in recent : older.observed_at < s.observed_at}
  IN [k \in 1..Cardinality(recent) |-> CHOOSE s \in recent : Cardinality(Older(s)) = k - 1]

\* The handler stores and judges a sample that is within the accepted window.
Judge ==
  /\ \E sample \in pending :
       LET history == RecentSamples(sample)
       IN /\ pending' = pending \ {sample}
          /\ sample.observed_at \in (clock - MaxBehind)..(clock + MaxAhead)
          /\ samples' = samples \cup {sample}
          /\ judged' = [sample |-> sample, history |-> history,
                        findings |-> Resource(course.policy, sample, history)
                                       \cup Egress(course.policy, sample, history)
                                       \cup Clock(course.policy, sample, clock)]
  /\ UNCHANGED <<course, clock, taken, bursts, reboots>>

\* A sample is refused for its time, or does not arrive.
Lose ==
  /\ \E sample \in pending : pending' = pending \ {sample}
  /\ UNCHANGED <<course, clock, taken, bursts, reboots, samples, judged>>

TrendDone == Len(taken) = MaxTicks /\ pending = {} /\ UNCHANGED trendVars

TrendNext == Take \/ Judge \/ Lose \/ TrendDone

TrendSpec == TrendInit /\ [][TrendNext]_trendVars

-----------------------------------------------------------------------------
TrendTypeOK ==
  /\ pending \cup samples \subseteq ToSet(taken)
  /\ pending \cap samples = {}
  /\ Len(judged.history) <= HistoryWindow

Found(rule) == \E finding \in judged.findings : finding.fingerprint[1] = rule

\* The samples the machine took in a stretch of time, stored or not.
TakenIn(from, to) == {s \in ToSet(taken) : s.observed_at \in from..to}

\* A saturation finding rests on as many saturated samples as the policy asks
\* for, with nothing the server knew to be calm among them, whatever was lost
\* or came late; and a machine that was saturated that long, and whose samples
\* all arrived, is reported.
SaturationSustained ==
  LET at == judged.sample.observed_at
      Busy(s) == s.cpu >= course.policy.cpu_high
      held == ToSet(judged.history) \cup {judged.sample}
  IN judged # Nobody =>
       /\ Found("resource.cpu.saturation") =>
            \E start \in 1..at :
              LET run == {s \in held : s.observed_at >= start}
              IN /\ Cardinality(run) >= course.policy.cpu_sustained_samples
                 /\ \A s \in run : Busy(s)
       /\ \A start \in 1..at :
            LET run == TakenIn(start, at)
            IN /\ Cardinality(run) >= course.policy.cpu_sustained_samples
               /\ Cardinality(run) <= HistoryWindow + 1
               /\ run \subseteq held
               /\ \A s \in run : Busy(s)
               => Found("resource.cpu.saturation")

\* A disk that its growth over the known history will fill within the hours of
\* the policy is reported, by the runway rule or by the capacity rule: the
\* thresholds of the two leave no gap between them.
FillingDiskReported ==
  LET first == judged.history[1]
      elapsed == judged.sample.observed_at - first.observed_at
      growth == judged.sample.disk - first.disk
  IN Len(judged.history) >= 3 /\ growth > 0 =>
       /\ (100 - judged.sample.disk) * elapsed <= course.policy.disk_runway_hours * growth =>
            Found("resource.disk.runway") \/ Found("resource.disk.capacity")
       /\ judged.sample.disk = 100 => Found("resource.disk.capacity")

\* A reboot that the counter does not show: by the next sample it had caught up
\* with where it was.
CaughtUp(previous, current) ==
  /\ reboots \cap (previous.observed_at + 1)..current.observed_at # {}
  /\ current.tx >= previous.tx

\* A machine that only sent its usual traffic over the history raises no egress
\* anomaly, though it was rebooted and samples were lost or late, unless a reboot
\* in the history passes for little traffic (or nothing is usual, and the policy
\* has no floor); one that then sent at least the floor and the multiple of the
\* usual, with all the samples in between at the server, is reported.
EgressJudged ==
  LET at == judged.sample.observed_at
      history == judged.history
      first == history[1].observed_at
      policy == course.policy
      usual == Min(course.sent)
  IN judged # Nobody =>
       /\ Found("intrusion.egress.anomaly") =>
            \/ bursts \cap (first + 1)..at # {}
            \/ \E i \in 1..(Len(history) - 1) : CaughtUp(history[i], history[i + 1])
            \/ usual = 0 /\ policy.egress_floor <= 0
       /\ /\ Len(history) >= 3
          /\ TakenIn(first, at - 1) = ToSet(history)
          /\ at \in bursts
          /\ \A sent \in course.sent \ {usual} :
               sent >= policy.egress_floor /\ sent >= policy.egress_multiplier * usual
          /\ bursts \cap (first + 1)..(at - 1) = {}
          /\ reboots \cap (first + 1)..at = {}
          => Found("intrusion.egress.anomaly")
=============================================================================
