---------------------------- MODULE ServerProofs ----------------------------
(***************************************************************************)
(* Proofs about the three components an operator meets, the score he is    *)
(* shown (Posture), the runbooks he follows (Runbooks) and the instance he *)
(* starts (Startup), and about the six components that the server's run    *)
(* puts side by side (MCServer).  They share no state: what is proved of   *)
(* one alone holds of the product, because every behaviour of the product  *)
(* is a behaviour of each.                                                 *)
(***************************************************************************)
EXTENDS MCServer, AssetStoreProofs, DetectionProofs

-----------------------------------------------------------------------------
(***************************************************************************)
(* Posture: the score behaves as shown to its readers for any number of    *)
(* findings, not only for the few that TLC opens at once.                  *)
(*                                                                         *)
(* NoDilution needs the bounds of the average and of the ceiling, and      *)
(* WorseNeverScoresHigher that every stage of the score is monotone: the   *)
(* penalty of a dimension is a sum, with non-negative weights, of the      *)
(* numbers of findings at a severity or worse.                             *)
(***************************************************************************)
-----------------------------------------------------------------------------
\* Lemmas about the stages of the score.

LEMMA Ranks ==
  /\ Info = 0 /\ Low = 1 /\ Medium = 2 /\ High = 3 /\ Critical = 4
  /\ Severities = 0..4
BY DEF Info, Low, Medium, High, Critical, Severities

\* The arithmetic, apart from what it is about.
LEMMA ListingMonotone ==
  ASSUME NEW w2 \in Nat, NEW w3 \in Nat, NEW w4 \in Nat,
         NEW b2 \in Nat, NEW b3 \in Nat, NEW b4 \in Nat,
         w4 >= b4, w4 + w3 >= b4 + b3, w4 + w3 + w2 >= b4 + b3 + b2
  PROVE  /\ b4 > 0 => w4 > 0
         /\ b3 > 0 => w4 > 0 \/ w3 > 0
         /\ b2 > 0 => w4 > 0 \/ w3 > 0 \/ w2 > 0
OBVIOUS

LEMMA PenaltyValue ==
  ASSUME NEW open \in [Severities -> Nat]
  PROVE  /\ Penalty(open) \in Nat
         /\ Penalty(open) = 45 * open[4] + 25 * open[3] + 10 * open[2] + 4 * open[1]
<1>1. /\ Weight(4) = 45 /\ Weight(3) = 25 /\ Weight(2) = 10 /\ Weight(1) = 4 /\ Weight(0) = 0
  BY Ranks DEF Weight
<1>2. open[0] \in Nat /\ open[1] \in Nat /\ open[2] \in Nat /\ open[3] \in Nat /\ open[4] \in Nat
  BY Ranks
<1> QED BY <1>1, <1>2, Ranks DEF Penalty

LEMMA DimensionRange ==
  ASSUME NEW open \in [Severities -> Nat]
  PROVE  /\ Dimension(open) \in 0..100
         /\ Dimension(open) = 100 <=> \A severity \in Low..Critical : open[severity] = 0
<1>1. open[0] \in Nat /\ open[1] \in Nat /\ open[2] \in Nat /\ open[3] \in Nat /\ open[4] \in Nat
  BY Ranks
<1>2. Dimension(open) \in 0..100 /\ (Dimension(open) = 100 <=> Penalty(open) = 0)
  BY PenaltyValue DEF Dimension
<1>3. Penalty(open) = 0 <=> open[1] = 0 /\ open[2] = 0 /\ open[3] = 0 /\ open[4] = 0
  <2> DEFINE c == open[4]
             h == open[3]
             m == open[2]
             l == open[1]
  <2>1. Penalty(open) = 45 * c + 25 * h + 10 * m + 4 * l
    BY PenaltyValue
  <2>2. c \in Nat /\ h \in Nat /\ m \in Nat /\ l \in Nat
    BY <1>1
  <2> HIDE DEF c, h, m, l
  <2>3. 45 * c + 25 * h + 10 * m + 4 * l = 0 <=> c = 0 /\ h = 0 /\ m = 0 /\ l = 0
    BY <2>2
  <2> QED BY <2>1, <2>3 DEF c, h, m, l
<1>4. Low..Critical = {1, 2, 3, 4}
  BY Ranks
<1> QED BY <1>2, <1>3, <1>4

\* A dimension with findings no better scores no higher.
LEMMA DimensionMonotone ==
  ASSUME NEW worse \in [Severities -> Nat], NEW better \in [Severities -> Nat],
         \A severity \in Severities : AtLeast(worse, severity) >= AtLeast(better, severity)
  PROVE  Dimension(worse) <= Dimension(better)
<1>1. /\ worse[1] \in Nat /\ worse[2] \in Nat /\ worse[3] \in Nat /\ worse[4] \in Nat
      /\ better[1] \in Nat /\ better[2] \in Nat /\ better[3] \in Nat /\ better[4] \in Nat
  BY Ranks
<1>2. /\ worse[4] >= better[4]
      /\ worse[4] + worse[3] >= better[4] + better[3]
      /\ worse[4] + worse[3] + worse[2] >= better[4] + better[3] + better[2]
      /\ worse[4] + worse[3] + worse[2] + worse[1] >= better[4] + better[3] + better[2] + better[1]
  <2>1. 1 \in Severities /\ 2 \in Severities /\ 3 \in Severities /\ 4 \in Severities
    BY Ranks
  <2> QED BY <2>1, Ranks DEF AtLeast
<1>3. Penalty(worse) >= Penalty(better)
  BY <1>1, <1>2, PenaltyValue
<1> QED BY <1>3, PenaltyValue DEF Dimension

\* The sum of which Average takes the nineteenth part.
WeightedSum(open) ==
    5 * Dimension(open["intrusion"]) + 5 * Dimension(open["exposure"])
  + 3 * Dimension(open["integrity"]) + 3 * Dimension(open["availability"])
  + 2 * Dimension(open["hygiene"]) + Dimension(open["resource"])

LEMMA Members ==
  ASSUME NEW open \in Counts
  PROVE  /\ open["intrusion"] \in [Severities -> Nat] /\ open["exposure"] \in [Severities -> Nat]
         /\ open["integrity"] \in [Severities -> Nat] /\ open["availability"] \in [Severities -> Nat]
         /\ open["hygiene"] \in [Severities -> Nat] /\ open["resource"] \in [Severities -> Nat]
BY DEF Counts, Categories

LEMMA AverageRange ==
  ASSUME NEW open \in Counts
  PROVE  /\ WeightedSum(open) \in 0..1900
         /\ Average(open) = WeightedSum(open) \div 19
         /\ Average(open) \in 0..100
         /\ Average(open) = 100 <=>
              \A category \in Categories : Dimension(open[category]) = 100
<1> DEFINE a == Dimension(open["intrusion"])
           b == Dimension(open["exposure"])
           c == Dimension(open["integrity"])
           d == Dimension(open["availability"])
           e == Dimension(open["hygiene"])
           f == Dimension(open["resource"])
           total == 5 * a + 5 * b + 3 * c + 3 * d + 2 * e + f
<1>1. a \in 0..100 /\ b \in 0..100 /\ c \in 0..100 /\ d \in 0..100 /\ e \in 0..100 /\ f \in 0..100
  BY Members, DimensionRange
<1>2. WeightedSum(open) = total /\ Average(open) = total \div 19
  BY DEF WeightedSum, Average, WeightSum
<1>3. (\A category \in Categories : Dimension(open[category]) = 100) <=>
        a = 100 /\ b = 100 /\ c = 100 /\ d = 100 /\ e = 100 /\ f = 100
  BY DEF Categories
<1> HIDE DEF a, b, c, d, e, f
<1>4. /\ total \in 0..1900
      /\ total = 1900 <=> a = 100 /\ b = 100 /\ c = 100 /\ d = 100 /\ e = 100 /\ f = 100
  BY <1>1
<1> HIDE DEF total
<1>5. total \div 19 \in 0..100 /\ (total \div 19 = 100 <=> total = 1900)
  BY <1>4, SMTT(30)
<1> QED BY <1>2, <1>3, <1>4, <1>5

LEMMA ScoreBound ==
  ASSUME NEW open \in Counts
  PROVE  /\ Score(open) \in 0..100
         /\ Score(open) <= Ceiling(open)
         /\ Score(open) = 100 <=> Average(open) = 100 /\ Ceiling(open) = 100
<1>1. Average(open) \in 0..100
  BY AverageRange
<1>2. Ceiling(open) \in {55, 74, 89, 100}
  BY DEF Ceiling
<1> QED BY <1>1, <1>2 DEF Score

LEMMA CeilingMonotone ==
  ASSUME NEW worse \in Counts, NEW better \in Counts, NoBetter(worse, better)
  PROVE  Ceiling(worse) <= Ceiling(better)
<1>1. ASSUME NEW category \in Categories
      PROVE  /\ better[category][4] > 0 => worse[category][4] > 0
             /\ better[category][3] > 0 => worse[category][4] > 0 \/ worse[category][3] > 0
             /\ better[category][2] > 0 =>
                  worse[category][4] > 0 \/ worse[category][3] > 0 \/ worse[category][2] > 0
  <2> DEFINE w == worse[category]
             b == better[category]
  <2>1. w \in [Severities -> Nat] /\ b \in [Severities -> Nat]
    BY DEF Counts
  <2>2. /\ w[2] \in Nat /\ w[3] \in Nat /\ w[4] \in Nat
        /\ b[2] \in Nat /\ b[3] \in Nat /\ b[4] \in Nat
    BY <2>1, Ranks
  <2>3. /\ w[4] >= b[4]
        /\ w[4] + w[3] >= b[4] + b[3]
        /\ w[4] + w[3] + w[2] >= b[4] + b[3] + b[2]
    <3>1. \A severity \in Severities : AtLeast(w, severity) >= AtLeast(b, severity)
      BY DEF NoBetter
    <3>2. 2 \in Severities /\ 3 \in Severities /\ 4 \in Severities
      BY Ranks
    <3> QED BY <3>1, <3>2, Ranks DEF AtLeast
  <2> HIDE DEF w, b
  <2>4. /\ b[4] > 0 => w[4] > 0
        /\ b[3] > 0 => w[4] > 0 \/ w[3] > 0
        /\ b[2] > 0 => w[4] > 0 \/ w[3] > 0 \/ w[2] > 0
    BY <2>2, <2>3, ListingMonotone
  <2> QED BY <2>4 DEF w, b
<1>2. OpenAt(better, Critical) => OpenAt(worse, Critical)
  BY <1>1, Ranks DEF OpenAt
<1>3. OpenAt(better, High) => OpenAt(worse, Critical) \/ OpenAt(worse, High)
  BY <1>1, Ranks DEF OpenAt
<1>4. OpenAt(better, Medium) =>
        OpenAt(worse, Critical) \/ OpenAt(worse, High) \/ OpenAt(worse, Medium)
  BY <1>1, Ranks DEF OpenAt
<1> QED BY <1>2, <1>3, <1>4 DEF Ceiling

LEMMA AverageMonotone ==
  ASSUME NEW worse \in Counts, NEW better \in Counts, NoBetter(worse, better)
  PROVE  Average(worse) <= Average(better)
<1>1. ASSUME NEW category \in Categories
      PROVE  /\ Dimension(worse[category]) <= Dimension(better[category])
             /\ Dimension(worse[category]) \in 0..100
             /\ Dimension(better[category]) \in 0..100
  <2>1. worse[category] \in [Severities -> Nat] /\ better[category] \in [Severities -> Nat]
    BY DEF Counts
  <2>2. \A severity \in Severities :
          AtLeast(worse[category], severity) >= AtLeast(better[category], severity)
    BY DEF NoBetter
  <2>3. Dimension(worse[category]) <= Dimension(better[category])
    BY <2>1, <2>2, DimensionMonotone
  <2> QED BY <2>1, <2>3, DimensionRange
<1>2. WeightedSum(worse) <= WeightedSum(better)
  <2>1. /\ "intrusion" \in Categories /\ "exposure" \in Categories /\ "integrity" \in Categories
        /\ "availability" \in Categories /\ "hygiene" \in Categories /\ "resource" \in Categories
    BY DEF Categories
  <2> DEFINE a == Dimension(worse["intrusion"])
             b == Dimension(worse["exposure"])
             c == Dimension(worse["integrity"])
             d == Dimension(worse["availability"])
             e == Dimension(worse["hygiene"])
             f == Dimension(worse["resource"])
             u == Dimension(better["intrusion"])
             v == Dimension(better["exposure"])
             w == Dimension(better["integrity"])
             x == Dimension(better["availability"])
             y == Dimension(better["hygiene"])
             z == Dimension(better["resource"])
  <2>2. /\ a \in 0..100 /\ b \in 0..100 /\ c \in 0..100
        /\ d \in 0..100 /\ e \in 0..100 /\ f \in 0..100
        /\ u \in 0..100 /\ v \in 0..100 /\ w \in 0..100
        /\ x \in 0..100 /\ y \in 0..100 /\ z \in 0..100
    BY <1>1, <2>1
  <2>3. a <= u /\ b <= v /\ c <= w /\ d <= x /\ e <= y /\ f <= z
    BY <1>1, <2>1
  <2>4. /\ WeightedSum(worse) = 5 * a + 5 * b + 3 * c + 3 * d + 2 * e + f
        /\ WeightedSum(better) = 5 * u + 5 * v + 3 * w + 3 * x + 2 * y + z
    BY DEF WeightedSum
  <2> HIDE DEF a, b, c, d, e, f, u, v, w, x, y, z
  <2> QED BY <2>2, <2>3, <2>4
<1> DEFINE s == WeightedSum(worse)
           t == WeightedSum(better)
<1>3. s \in 0..1900 /\ t \in 0..1900 /\ Average(worse) = s \div 19 /\ Average(better) = t \div 19
  BY AverageRange
<1>4. s <= t
  BY <1>2
<1> HIDE DEF s, t
<1>5. s \div 19 <= t \div 19
  BY <1>3, <1>4
<1> QED BY <1>3, <1>5

LEMMA ScoreMonotone ==
  ASSUME NEW worse \in Counts, NEW better \in Counts, NoBetter(worse, better)
  PROVE  Score(worse) <= Score(better)
<1>1. Average(worse) \in 0..100 /\ Average(better) \in 0..100
  BY AverageRange
<1>2. Average(worse) <= Average(better) /\ Ceiling(worse) <= Ceiling(better)
  BY AverageMonotone, CeilingMonotone
<1>3. Ceiling(worse) \in {55, 74, 89, 100} /\ Ceiling(better) \in {55, 74, 89, 100}
  BY DEF Ceiling
<1>4. Average(worse) * Ceiling(worse) <= Average(better) * Ceiling(better)
  BY <1>1, <1>2, <1>3, SMTT(30)
<1>5. Average(worse) * Ceiling(worse) \in Nat /\ Average(better) * Ceiling(better) \in Nat
  BY <1>1, <1>3
<1> HIDE DEF Average, Ceiling
<1> QED BY <1>4, <1>5 DEF Score

-----------------------------------------------------------------------------
\* The summary always counts: a finding that is closed or escalated was open.
THEOREM PostureTypeCorrect == PostureSpec => []PostureTypeOK
<1>1. PostureInit => PostureTypeOK
  BY DEF PostureInit, NoFindings, PostureTypeOK, Counts
<1>2. PostureTypeOK /\ [PostureNext]_postureVars => PostureTypeOK'
  <2> SUFFICES ASSUME PostureTypeOK, [PostureNext]_postureVars PROVE PostureTypeOK'
    OBVIOUS
  <2>1. CASE UNCHANGED postureVars
    BY <2>1 DEF PostureTypeOK, postureVars
  <2>2. ASSUME NEW category \in Categories, NEW severity \in Severities,
               Raise(category, severity)
        PROVE  PostureTypeOK'
    BY <2>2 DEF Raise, Added, PostureTypeOK, Counts
  <2>3. ASSUME NEW category \in Categories, NEW severity \in Severities,
               NEW to \in Severities, Escalate(category, severity, to)
        PROVE  PostureTypeOK'
    <3> DEFINE lowered == [counts[category] EXCEPT ![severity] = @ - 1]
               moved == [lowered EXCEPT ![to] = @ + 1]
    <3>1. counts[category] \in [Severities -> Nat] /\ counts[category][severity] > 0
      BY <2>3 DEF PostureTypeOK, Counts, Escalate
    <3>2. lowered \in [Severities -> Nat]
      BY <3>1
    <3>3. moved \in [Severities -> Nat]
      BY <3>2
    <3>4. counts' = [counts EXCEPT ![category] = moved]
      BY <2>3 DEF Escalate, PostureTypeOK, Counts
    <3> HIDE DEF moved
    <3> QED BY <3>3, <3>4 DEF PostureTypeOK, Counts
  <2>4. ASSUME NEW category \in Categories, NEW severity \in Severities,
               Close(category, severity)
        PROVE  PostureTypeOK'
    <3> DEFINE lowered == [counts[category] EXCEPT ![severity] = @ - 1]
    <3>1. counts[category] \in [Severities -> Nat] /\ counts[category][severity] > 0
      BY <2>4 DEF PostureTypeOK, Counts, Close
    <3>2. lowered \in [Severities -> Nat]
      BY <3>1
    <3>3. counts' = [counts EXCEPT ![category] = lowered]
      BY <2>4 DEF Close
    <3> HIDE DEF lowered
    <3> QED BY <3>2, <3>3 DEF PostureTypeOK, Counts
  <2> QED BY <2>1, <2>2, <2>3, <2>4 DEF PostureNext
<1> QED BY <1>1, <1>2, PTL DEF PostureSpec

\* One critical finding is an F and one high finding at most a C, of however
\* many findings and dimensions; a perfect score says that nothing but
\* informative findings is open (compute_from_counts).
THEOREM Undiluted == PostureSpec => []NoDilution
<1>1. PostureTypeOK => NoDilution
  <2> SUFFICES ASSUME PostureTypeOK PROVE NoDilution
    OBVIOUS
  <2>1. counts \in Counts
    BY DEF PostureTypeOK
  <2>2. Score(counts) \in 0..100 /\ Score(counts) <= Ceiling(counts)
    BY <2>1, ScoreBound
  <2>3. OpenAt(counts, Critical) => Grade(Score(counts)) = "F"
    <3>1. OpenAt(counts, Critical) => Ceiling(counts) = 55
      BY DEF Ceiling
    <3> QED BY <2>2, <3>1 DEF Grade
  <2>4. OpenAt(counts, High) => Grade(Score(counts)) \in {"C", "D", "F"}
    <3>1. OpenAt(counts, High) => Ceiling(counts) \in {55, 74}
      BY DEF Ceiling
    <3> QED BY <2>2, <3>1 DEF Grade
  <2>5. OpenAt(counts, Medium) => Grade(Score(counts)) # "A"
    <3>1. OpenAt(counts, Medium) => Ceiling(counts) \in {55, 74, 89}
      BY DEF Ceiling
    <3> QED BY <2>2, <3>1 DEF Grade
  <2>6. Score(counts) = 100 <=> \A severity \in Low..Critical : ~OpenAt(counts, severity)
    <3>1. \A category \in Categories : counts[category] \in [Severities -> Nat]
      BY <2>1 DEF Counts
    <3>2. Average(counts) = 100 <=>
            \A category \in Categories, severity \in Low..Critical : counts[category][severity] = 0
      BY <2>1, <3>1, AverageRange, DimensionRange
    <3>3. \A severity \in Low..Critical : severity \in Severities
      BY Ranks
    <3>4. Average(counts) = 100 <=> \A severity \in Low..Critical : ~OpenAt(counts, severity)
      <4>1. \A category \in Categories, severity \in Low..Critical :
              counts[category][severity] \in Nat
        BY <3>1, <3>3
      <4>2. \A category \in Categories, severity \in Low..Critical :
              counts[category][severity] = 0 <=> ~(counts[category][severity] > 0)
        BY <4>1
      <4> QED BY <3>2, <4>2 DEF OpenAt
    <3>5. (\A severity \in Low..Critical : ~OpenAt(counts, severity)) => Ceiling(counts) = 100
      BY Ranks DEF Ceiling
    <3> QED BY <2>1, <3>4, <3>5, ScoreBound
  <2> QED BY <2>3, <2>4, <2>5, <2>6 DEF NoDilution
<1> QED BY <1>1, PostureTypeCorrect, PTL

\* A scope that got worse is never shown a higher score, nor one that got
\* better a lower one (compute_from_counts).
THEOREM WorseScoresLower == PostureSpec => WorseNeverScoresHigher
<1>1. PostureTypeOK /\ PostureTypeOK' => ScoreFollows
  BY ScoreMonotone DEF PostureTypeOK, ScoreFollows
<1>2. PostureTypeOK /\ PostureTypeOK' /\ [PostureNext]_postureVars => [ScoreFollows]_postureVars
  BY <1>1
<1> QED BY <1>2, PostureTypeCorrect, PTL DEF PostureSpec, WorseNeverScoresHigher

-----------------------------------------------------------------------------
(***************************************************************************)
(* Runbooks: no runbook acts before it has looked, wherever the operator   *)
(* stops.  The property speaks of what was carried out; it is not          *)
(* inductive by itself, because it does not say what the runbook will ask  *)
(* for next.  The strengthening says that what was carried out is a prefix *)
(* of the runbook of the incident, and the runbooks are examined rule by   *)
(* rule and platform by platform.                                          *)
(***************************************************************************)
-----------------------------------------------------------------------------
\* The steps a runbook for a platform may hold.
Step == [kind : {"inspect", "contain", "remediate"}, platform : SUBSET Platforms,
         privileged : BOOLEAN]
AllowedOn(platform) ==
  {step \in Step : step.platform \subseteq {platform} /\ (Changes(step) => step.privileged)}

\* A runbook that begins by looking.
Careful(plan, platform) ==
  /\ plan \in Seq(AllowedOn(platform))
  /\ plan # <<>> => ~Changes(plan[1])

LEMMA StepsAllowed ==
  ASSUME NEW platform \in Platforms
  PROVE  /\ Advice \in AllowedOn(platform) /\ ~Changes(Advice)
         /\ \A kind \in {"inspect", "contain", "remediate"} :
              Command(kind, platform) \in AllowedOn(platform)
         /\ ~Changes(Command("inspect", platform))
         /\ Unprivileged(Command("inspect", platform)) \in AllowedOn(platform)
         /\ ~Changes(Unprivileged(Command("inspect", platform)))
BY DEF Advice, Command, Unprivileged, Changes, AllowedOn, Step

\* What follows a careful beginning cannot make it careless.
LEMMA CarefulConcat ==
  ASSUME NEW platform \in Platforms, NEW head, NEW tail,
         Careful(head, platform), head # <<>>, tail \in Seq(AllowedOn(platform))
  PROVE  Careful(head \o tail, platform) /\ head \o tail # <<>>
<1>1. head \in Seq(AllowedOn(platform))
  BY DEF Careful
<1>2. /\ head \o tail \in Seq(AllowedOn(platform))
      /\ Len(head \o tail) = Len(head) + Len(tail)
      /\ \A i \in 1..(Len(head) + Len(tail)) :
           (head \o tail)[i] = IF i <= Len(head) THEN head[i] ELSE tail[i - Len(head)]
  BY <1>1, ConcatProperties
<1>3. Len(head) \in Nat /\ Len(head) > 0 /\ Len(tail) \in Nat
  BY <1>1, EmptySeq, LenProperties
<1>4. (head \o tail)[1] = head[1] /\ head \o tail # <<>>
  BY <1>2, <1>3
<1> QED BY <1>2, <1>4 DEF Careful

LEMMA BlockSourceCareful ==
  ASSUME NEW platform \in Platforms
  PROVE  Careful(BlockSource(platform), platform)
<1> DEFINE middle == CASE platform = "linux" -> <<Command("inspect", "linux"), Command("contain", "linux"),
                                                  Command("contain", "linux")>>
                       [] platform = "windows" -> <<Command("inspect", "windows"), Command("contain", "windows")>>
                       [] platform = "macos" -> <<Command("contain", "macos")>>
                       [] platform = "unknown" -> <<Advice>>
<1>1. middle \in Seq(AllowedOn(platform))
  BY StepsAllowed DEF Platforms
<1>2. BlockSource(platform) = (<<Advice>> \o middle) \o <<Advice>>
  BY DEF BlockSource
<1> HIDE DEF middle
<1>3. <<Advice>> \in Seq(AllowedOn(platform)) /\ Careful(<<Advice>>, platform) /\ <<Advice>> # <<>>
  BY StepsAllowed DEF Careful
<1>4. Careful(<<Advice>> \o middle, platform) /\ <<Advice>> \o middle # <<>>
  BY <1>1, <1>3, CarefulConcat
<1> QED BY <1>2, <1>3, <1>4, CarefulConcat

LEMMA RestrictListenerCareful ==
  ASSUME NEW platform \in Platforms
  PROVE  Careful(RestrictListener(platform), platform)
<1> DEFINE head == CASE platform = "linux" -> <<Command("inspect", "linux"), Command("contain", "linux"), Advice>>
                     [] platform = "windows" -> <<Command("inspect", "windows"), Command("contain", "windows")>>
                     [] platform = "macos" -> <<Command("inspect", "macos")>>
                     [] platform = "unknown" -> <<Advice>>
<1>1. Careful(head, platform) /\ head # <<>>
  BY StepsAllowed DEF Careful, Platforms
<1>2. RestrictListener(platform) = head \o <<Advice>>
  BY DEF RestrictListener
<1> HIDE DEF head
<1>3. <<Advice>> \in Seq(AllowedOn(platform))
  BY StepsAllowed
<1> QED BY <1>1, <1>2, <1>3, CarefulConcat

LEMMA VerifyFileCareful ==
  ASSUME NEW platform \in Platforms
  PROVE  Careful(VerifyFile(platform), platform)
<1> DEFINE middle == CASE platform \in {"linux", "macos"} -> <<Unprivileged(Command("inspect", platform)),
                                                              Command("inspect", platform)>>
                       [] platform = "windows" -> <<Unprivileged(Command("inspect", "windows"))>>
                       [] platform = "unknown" -> <<>>
<1>1. middle \in Seq(AllowedOn(platform))
  BY StepsAllowed DEF Platforms
<1>2. VerifyFile(platform) = (<<Advice>> \o middle) \o <<Advice>>
  BY DEF VerifyFile
<1> HIDE DEF middle
<1>3. <<Advice>> \in Seq(AllowedOn(platform)) /\ Careful(<<Advice>>, platform) /\ <<Advice>> # <<>>
  BY StepsAllowed DEF Careful
<1>4. Careful(<<Advice>> \o middle, platform) /\ <<Advice>> \o middle # <<>>
  BY <1>1, <1>3, CarefulConcat
<1> QED BY <1>2, <1>3, <1>4, CarefulConcat

LEMMA EnableFirewallCareful ==
  ASSUME NEW platform \in Platforms
  PROVE  Careful(EnableFirewall(platform), platform)
BY StepsAllowed DEF EnableFirewall, Careful, Platforms

LEMMA RunbookCareful ==
  ASSUME NEW rule \in Rules, NEW platform \in Platforms
  PROVE  Careful(Runbook(rule, platform), platform)
<1>1. Careful(<<>>, platform)
  BY DEF Careful
<1> QED BY <1>1, BlockSourceCareful, RestrictListenerCareful, VerifyFileCareful,
           EnableFirewallCareful DEF Runbook, Rules

-----------------------------------------------------------------------------
\* What was carried out is the beginning of the runbook.
Prefix ==
  /\ finding \in [rule : Rules, platform : Platforms]
  /\ next \in 1..(Len(Plan) + 1)
  /\ done \in Seq(Step)
  /\ Len(done) = next - 1
  /\ \A i \in 1..Len(done) : done[i] = Plan[i]

LEMMA PlanCareful ==
  ASSUME finding \in [rule : Rules, platform : Platforms]
  PROVE  /\ Careful(Plan, finding.platform)
         /\ Plan \in Seq(AllowedOn(finding.platform))
         /\ Plan \in Seq(Step)
         /\ Len(Plan) \in Nat
<1>1. Careful(Plan, finding.platform)
  BY RunbookCareful DEF Plan
<1>2. Plan \in Seq(AllowedOn(finding.platform))
  BY <1>1 DEF Careful
<1>3. \A i \in 1..Len(Plan) : Plan[i] \in Step
  BY <1>2, ElementOfSeq DEF AllowedOn
<1>4. Plan \in Seq(Step)
  BY <1>2, <1>3, LenProperties, IsASeq
<1> QED BY <1>1, <1>2, <1>4, LenProperties

\* What was carried out is the beginning of the runbook of the incident, so that
\* the next step is the one after it (runbook.rs, read in order).
THEOREM PrefixInvariant == RunbookSpec => []Prefix
<1>1. RunbookInit => Prefix
  BY PlanCareful DEF RunbookInit, Prefix, NoStep
<1>2. Prefix /\ [RunbookNext]_runbookVars => Prefix'
  <2> SUFFICES ASSUME Prefix, [RunbookNext]_runbookVars PROVE Prefix'
    OBVIOUS
  <2>1. CASE Follow
    <3>1. finding' = finding /\ Plan' = Plan
      BY <2>1 DEF Follow, Plan
    <3>2. Len(Plan) \in Nat /\ Plan \in Seq(Step)
      BY PlanCareful DEF Prefix
    <3>3. next \in 1..Len(Plan) /\ next' = next + 1 /\ next' \in 1..(Len(Plan) + 1)
      BY <2>1, <3>2 DEF Follow, Prefix
    <3>4. Plan[next] \in Step
      BY <3>2, <3>3, ElementOfSeq
    <3>5. /\ done' \in Seq(Step)
          /\ Len(done') = Len(done) + 1
          /\ \A i \in 1..Len(done) : done'[i] = done[i]
          /\ done'[Len(done) + 1] = Plan[next]
      BY <2>1, <3>4, AppendProperties DEF Follow, Prefix
    <3>6. \A i \in 1..Len(done') : done'[i] = Plan[i]
      BY <3>3, <3>5, SMTT(30) DEF Prefix
    <3> QED BY <3>1, <3>3, <3>5, <3>6 DEF Prefix
  <2>2. CASE Leave
    <3>1. finding' \in [rule : Rules, platform : Platforms] /\ next' = 1 /\ done' = <<>>
      BY <2>2 DEF Leave, NoStep
    <3>2. Len(Plan') \in Nat
      <4>1. Plan' = Runbook(finding'.rule, finding'.platform)
        BY DEF Plan
      <4>2. Careful(Plan', finding'.platform)
        BY <3>1, <4>1, RunbookCareful
      <4> QED BY <4>2, LenProperties DEF Careful
    <3>3. <<>> \in Seq(Step) /\ Len(<<>>) = 0
      BY EmptySeq
    <3> QED BY <3>1, <3>2, <3>3 DEF Prefix
  <2>3. CASE UNCHANGED runbookVars
    BY <2>3 DEF runbookVars, Prefix, Plan
  <2> QED BY <2>1, <2>2, <2>3 DEF RunbookNext
<1> QED BY <1>1, <1>2, PTL DEF RunbookSpec

\* The step to come is one of the runbook or the one after its end, and what was
\* carried out are steps of a runbook (runbook.rs).
THEOREM RunbookTypeCorrect == RunbookSpec => []RunbookTypeOK
<1>1. Prefix => RunbookTypeOK
  <2> SUFFICES ASSUME Prefix PROVE RunbookTypeOK
    OBVIOUS
  <2>1. \A i \in DOMAIN done : done[i] \in Step
    BY ElementOfSeq, LenProperties DEF Prefix
  <2> QED BY <2>1 DEF Prefix, RunbookTypeOK, Step
<1> QED BY <1>1, PrefixInvariant, PTL

\* Whatever the finding and its platform, and wherever the operator stops, no
\* command that changes the host was carried out before something was looked at.
THEOREM LookedBeforeActing == RunbookSpec => []LooksBeforeActing
<1>1. Prefix => LooksBeforeActing
  <2> SUFFICES ASSUME Prefix, NEW i \in DOMAIN done
               PROVE  /\ done[i].platform \subseteq {finding.platform}
                      /\ Changes(done[i]) =>
                           done[i].privileged /\ \E j \in 1..(i - 1) : ~Changes(done[j])
    BY DEF LooksBeforeActing
  <2>1. /\ Len(done) \in Nat /\ i \in 1..Len(done) /\ Len(done) <= Len(Plan) /\ Len(Plan) \in Nat
        /\ done[i] = Plan[i] /\ done[1] = Plan[1]
    BY PlanCareful, LenProperties DEF Prefix
  <2>2. Plan[i] \in AllowedOn(finding.platform)
    BY <2>1, PlanCareful, ElementOfSeq DEF Prefix
  <2>3. ~Changes(done[1])
    BY <2>1, PlanCareful DEF Prefix, Careful
  <2>4. CASE i = 1
    BY <2>1, <2>2, <2>3, <2>4 DEF AllowedOn
  <2>5. CASE i # 1
    <3>1. 1 \in 1..(i - 1)
      BY <2>1, <2>5
    <3> QED BY <2>1, <2>2, <2>3, <3>1 DEF AllowedOn
  <2> QED BY <2>4, <2>5
<1> QED BY <1>1, PrefixInvariant, PTL

-----------------------------------------------------------------------------
(***************************************************************************)
(* Startup: whatever policy files there are and however many requests are  *)
(* in flight.                                                              *)
(*                                                                         *)
(* Sealed speaks of the last answer and of an instance that listens.  It   *)
(* is not inductive: an answer is given to a request that was let in       *)
(* earlier, by an instance whose settings were validated earlier still.    *)
(* Guarded says what each phase has established and where the requests in  *)
(* flight can have come from.                                              *)
(***************************************************************************)
Beyond(p) == p \in {"validated", "engine", "connected", "serving", "stopping"}
Judging(p) == p \in {"engine", "connected", "serving", "stopping"}

\* What one answer owes to the settings the instance was started with.
Owed(a) ==
  a.verdict = "ok" /\ a.request.path = "protected" =>
    \/ a.request.credential = "right" /\ settings.token = "good"
    \/ /\ a.request.from = "same host"
       /\ settings.insecure /\ settings.token = "absent"
       /\ ~settings.forwarded

Guarded ==
  /\ settings \in Settings
  /\ Beyond(phase) => Acceptable(settings)
  /\ Judging(phase) => \E p : policy = {p} /\ Validate(p)
  /\ inflight \subseteq Requests
  /\ inflight # {} => phase \in {"serving", "stopping"}
  /\ \A request \in inflight : request.from = "elsewhere" => settings.bind # "loopback"
  /\ \A a \in answer : a.request \in Requests /\ Owed(a)

\* What an acceptable instance may answer with "ok".
LEMMA AnswersOwed ==
  ASSUME Guarded, phase \in {"serving", "stopping"},
         NEW request \in inflight, "ok" \in Verdicts(request)
  PROVE  Owed([request |-> request, verdict |-> "ok"])
<1>1. Acceptable(settings) /\ request \in Requests
  BY DEF Guarded, Beyond
<1>2. request.path = "protected" => Admitted(request)
  BY DEF Verdicts
<1>3. CASE settings.token = "absent"
  <2>1. settings.insecure /\ settings.bind = "loopback" /\ ~settings.forwarded
    BY <1>1, <1>3 DEF Acceptable
  <2>2. request.from = "same host"
    BY <1>1, <2>1 DEF Guarded, Requests
  <2> QED BY <1>3, <2>1, <2>2 DEF Owed
<1>4. CASE settings.token # "absent"
  <2>1. settings.token = "good"
    BY <1>1, <1>4 DEF Acceptable, Guarded, Settings
  <2> QED BY <1>2, <1>4, <2>1 DEF Owed, Admitted
<1> QED BY <1>3, <1>4

\* Every phase has what the ones before it established (run, validate).
THEOREM GuardedInvariant == StartupSpec => []Guarded
<1>1. StartupInit => Guarded
  BY DEF StartupInit, Guarded, Beyond, Judging
<1>2. Guarded /\ [StartupNext]_startupVars => Guarded'
  <2> SUFFICES ASSUME Guarded, [StartupNext]_startupVars PROVE Guarded'
    OBVIOUS
  <2>1. CASE Launch
    BY <2>1 DEF Launch, Guarded, Beyond, Judging
  <2>2. CASE ValidateSettings
    <3>1. inflight = {}
      BY <2>2 DEF ValidateSettings, Guarded
    <3> QED BY <2>2, <3>1 DEF ValidateSettings, Guarded, Beyond, Judging, Owed
  <2>3. CASE BuildEngine
    <3>1. phase = "validated" /\ UNCHANGED <<settings, storage, inflight, answer>>
      BY <2>3 DEF BuildEngine
    <3>2. \/ phase' = "refused"
          \/ phase' = "engine" /\ \E p : policy' = {p} /\ Validate(p)
      BY <2>3, Zenon DEF BuildEngine
    <3>3. inflight = {} /\ Acceptable(settings)
      BY <3>1 DEF Guarded, Beyond
    <3>4. ~(phase' = "refused" /\ Judging(phase')) /\ ~(phase' = "refused" /\ Beyond(phase'))
      BY DEF Judging, Beyond
    <3> QED BY <3>1, <3>2, <3>3, <3>4 DEF Guarded, Judging, Owed, Acceptable
  <2>4. CASE Connect
    <3>1. phase = "engine" /\ inflight = {} /\ inflight' = {}
      BY <2>4 DEF Connect, Guarded
    <3> QED BY <2>4, <3>1 DEF Connect, Guarded, Beyond, Judging, Owed, Acceptable
  <2>5. CASE Bind
    <3>1. phase = "connected" /\ inflight = {} /\ inflight' = {}
      BY <2>5 DEF Bind, Guarded
    <3> QED BY <2>5, <3>1 DEF Bind, Guarded, Beyond, Judging, Owed, Acceptable
  <2>6. CASE Receive
    <3>1. PICK request \in Requests :
            /\ request.from = "elsewhere" => settings.bind # "loopback"
            /\ inflight' = inflight \cup {request}
      BY <2>6 DEF Receive
    <3> QED BY <2>6, <3>1 DEF Receive, Guarded, Beyond, Judging, Owed, Acceptable
  <2>7. CASE Answer
    <3>1. PICK request \in inflight, verdict \in {"ok", "throttled", "unauthorized", "internal", "timeout"} :
            /\ verdict \in Verdicts(request) \cup {"timeout"}
            /\ inflight' = inflight \ {request}
            /\ answer' = {[request |-> request, verdict |-> verdict]}
      BY <2>7 DEF Answer
    <3>2. phase \in {"serving", "stopping"} /\ UNCHANGED <<phase, settings, policy, storage>>
      BY <2>7 DEF Answer
    <3>3. request \in Requests
      BY <3>1 DEF Guarded
    <3>4. Owed([request |-> request, verdict |-> verdict])
      <4>1. CASE verdict = "ok"
        <5>1. "ok" \in Verdicts(request)
          BY <3>1, <4>1
        <5>2. Owed([request |-> request, verdict |-> "ok"])
          BY <3>1, <3>2, <5>1, AnswersOwed
        <5> QED BY <4>1, <5>2
      <4>2. CASE verdict # "ok"
        BY <4>2 DEF Owed
      <4> QED BY <4>1, <4>2
    <3>5. \A a \in answer' : a.request \in Requests /\ Owed(a)'
      <4> SUFFICES ASSUME NEW a \in answer' PROVE a.request \in Requests /\ Owed(a)'
        OBVIOUS
      <4>1. a = [request |-> request, verdict |-> verdict]
        BY <3>1
      <4>2. Owed(a)
        BY <3>4, <4>1
      <4>3. Owed(a)'
        BY <3>2, <4>2 DEF Owed
      <4> QED BY <3>3, <4>1, <4>3
    <3> QED BY <3>1, <3>2, <3>5 DEF Guarded, Beyond, Judging, Acceptable
  <2>8. CASE Fail
    BY <2>8 DEF Fail, Guarded, Beyond, Judging, Owed, Acceptable
  <2>9. CASE Signal
    BY <2>9 DEF Signal, Guarded, Beyond, Judging, Owed, Acceptable
  <2>10. CASE Stop
    BY <2>10 DEF Stop, Guarded, Beyond, Judging, Owed, Acceptable
  <2>11. CASE Crash
    BY <2>11 DEF Crash, Guarded, Beyond, Judging, Owed, Acceptable
  <2>12. CASE UNCHANGED startupVars
    BY <2>12 DEF startupVars, Guarded, Beyond, Judging, Owed, Acceptable
  <2> QED BY <2>1, <2>2, <2>3, <2>4, <2>5, <2>6, <2>7, <2>8, <2>9, <2>10, <2>11, <2>12 DEF StartupNext
<1> QED BY <1>1, <1>2, PTL DEF StartupSpec

\* Whatever was typed at the start, nobody gets an answer of the control plane
\* without its token but on the host of an insecure instance, and a policy that
\* validates is in force (validate, require_auth, DetectionEngine::new).
THEOREM SealedAlways == StartupSpec => []Sealed
<1>1. Guarded => Sealed
  <2> SUFFICES ASSUME Guarded PROVE Sealed
    OBVIOUS
  <2>1. ASSUME phase \in {"serving", "stopping"}
        PROVE  Cardinality(policy) = 1 /\ \A p \in policy : Validate(p)
    <3>1. PICK p : policy = {p} /\ Validate(p)
      BY <2>1 DEF Guarded, Judging
    <3> QED BY <3>1, FS_Singleton
  <2>2. \A a \in answer : Owed(a)
    BY DEF Guarded
  <2> QED BY <2>1, <2>2 DEF Sealed, Owed
<1> QED BY <1>1, GuardedInvariant, PTL

\* The phases are the ones of run, and requests are what they were sent as
\* (config.rs, main.rs).
THEOREM StartupTypeCorrect == StartupSpec => []StartupTypeOK
<1> DEFINE Known == phase \in Phases /\ storage \in BOOLEAN
<1>1. StartupInit => Known
  BY DEF StartupInit, Phases
<1>2. Known /\ [StartupNext]_startupVars => Known'
  <2> SUFFICES ASSUME Known, [StartupNext]_startupVars PROVE Known'
    OBVIOUS
  <2>1. phase' \in Phases
    BY DEF StartupNext, startupVars, Phases, Launch, ValidateSettings, BuildEngine, Connect, Bind,
           Receive, Answer, Fail, Signal, Stop, Crash
  <2>2. storage' \in BOOLEAN
    BY DEF StartupNext, startupVars, Launch, ValidateSettings, BuildEngine, Connect, Bind,
           Receive, Answer, Fail, Signal, Stop, Crash
  <2> QED BY <2>1, <2>2
<1>3. Guarded /\ Known => StartupTypeOK
  BY DEF Guarded, StartupTypeOK
<1> QED BY <1>1, <1>2, <1>3, GuardedInvariant, PTL DEF StartupSpec

-----------------------------------------------------------------------------
(***************************************************************************)
(* The product.  At the start each component is in an initial state of its *)
(* own, and a step of the product moves one of them by a step of its own   *)
(* and leaves the others as they are.                                      *)
(***************************************************************************)

LEMMA AllBegin ==
  Init => /\ PostureInit /\ RunbookInit /\ AssessmentInit
          /\ TrendInit /\ StoreInit /\ StartupInit
BY DEF Init

LEMMA OneMoves ==
  [Next]_vars =>
    /\ [PostureNext]_postureVars /\ [RunbookNext]_runbookVars
    /\ [AssessmentNext]_assessmentVars /\ [TrendNext]_trendVars
    /\ [StoreNext]_storeVars /\ [StartupNext]_startupVars
BY DEF Next, vars

\* Every behaviour of the product is a behaviour of each component, so that what
\* a component promises alone it keeps beside the others.
THEOREM ComponentsKeepToThemselves ==
  Spec => /\ PostureSpec /\ RunbookSpec /\ AssessmentSpec
          /\ TrendSpec /\ StoreSpec /\ StartupSpec
BY AllBegin, OneMoves, PTL
   DEF Spec, PostureSpec, RunbookSpec, AssessmentSpec, TrendSpec, StoreSpec, StartupSpec

\* Every component of the server keeps its type, and no two findings of an
\* envelope share a fingerprint, for any hosts, policies, clocks, handlers,
\* windows and policy files (posture.rs, runbook.rs, detect, storage.rs, main.rs).
THEOREM TypeCorrect == Spec => []TypeOK
BY ComponentsKeepToThemselves, PostureTypeCorrect, RunbookTypeCorrect, AssessmentTypeCorrect,
   TrendTypeCorrect, StoreTypeCorrect, StartupTypeCorrect, PTL DEF TypeOK

\* The server's run checks the components' properties on the product: there, too,
\* each of them holds for every value of the constants.
THEOREM ServerSafe ==
  Spec => /\ []NoDilution /\ WorseNeverScoresHigher
          /\ []LooksBeforeActing /\ []Sealed
          /\ []ExposureReported /\ []CutKeepsWorst /\ []MissingDeclared
          /\ []FallbackAgrees /\ []BurstsReported /\ ClosedMeansGone /\ NothingLost
          /\ []SaturationSustained /\ []FillingDiskReported /\ []EgressJudged
          /\ []ViewsAgree /\ []PressureBounded /\ RetentionSparesWindow
<1> USE ComponentsKeepToThemselves
<1>1. Spec => []NoDilution /\ WorseNeverScoresHigher
  BY Undiluted, WorseScoresLower, PTL
<1>2. Spec => []LooksBeforeActing /\ []Sealed
  BY LookedBeforeActing, SealedAlways, PTL
<1>3. Spec => []ExposureReported /\ []CutKeepsWorst /\ []MissingDeclared
  BY ExposureIsReported, CutsKeepTheWorst, MissingIsDeclared, PTL
<1>4. Spec => []FallbackAgrees /\ []BurstsReported /\ ClosedMeansGone /\ NothingLost
  BY FallbackSeesTheSame, BurstsAreReported, ClosedIsGone, NothingIsLost, PTL
<1>5. Spec => []SaturationSustained /\ []FillingDiskReported /\ []EgressJudged
  BY SaturationIsSustained, FillingDiskIsReported, EgressIsJudged, PTL
<1>6. Spec => []ViewsAgree /\ []PressureBounded /\ RetentionSparesWindow
  BY ViewsAlwaysAgree, PressureStaysBounded, RetentionSpares, PTL
<1> QED BY <1>1, <1>2, <1>3, <1>4, <1>5, <1>6, PTL

\* On the product, too, the reports come to tell what the machine is, from what
\* StoreFairness stands for (store_sample, store_security).
THEOREM StoreConvergesTheorem ==
  Spec /\ (focus = "store" => WorldRests /\ OldEnvelopesEnd /\ StatementsRun) => StoreConverges
BY ComponentsKeepToThemselves, ViewsConvergeTheorem, PTL DEF StoreConverges

\* And what is past its window is deleted in the end (purge, watchdog::run).
THEOREM StoreForgetsTheorem ==
  Spec /\ (focus = "store" => WorldRests /\ OldEnvelopesEnd /\ PurgesRun) => StoreForgets
BY ComponentsKeepToThemselves, ExpiredGoneTheorem, PTL DEF StoreForgets
=============================================================================
