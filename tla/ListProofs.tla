----------------------------- MODULE ListProofs -----------------------------
(***************************************************************************)
(* Lemmas about the lists of Surface, which is how the collectors, the     *)
(* rules and the engine are written: sets laid out as sequences, sequences *)
(* of sequences joined, elements selected, numbers added.                  *)
(*                                                                         *)
(* Each of them is a recursive function over an initial segment of the     *)
(* naturals.  What such a function computes for every input is an          *)
(* induction; the induction is carried by UpTo, which rests on the least   *)
(* element of a set of naturals and so needs no operator as a parameter.   *)
(***************************************************************************)
EXTENDS Surface, SequenceTheorems, FiniteSetTheorems, WellFoundedInduction, TLAPS

-----------------------------------------------------------------------------
LEMMA MaxOfTwo ==
  ASSUME NEW a \in Int, NEW b \in Int PROVE Max({a, b}) = IF a >= b THEN a ELSE b
BY DEF Max

-----------------------------------------------------------------------------
\* Induction and recursion over 0..n.

LEMMA LeastElement ==
  ASSUME NEW T \in SUBSET Nat, T # {}
  PROVE  \E x \in T : \A y \in T : x <= y
<1> DEFINE R == OpToRel(<, Nat)
<1>1. IsWellFoundedOn(R, Nat)
  BY NatLessThanWellFounded
<1>2. R = {ss \in Nat \X Nat : ss[1] < ss[2]}
  BY DEF OpToRel
<1>3. \A x, y \in Nat : x < y => <<x, y>> \in R
  BY <1>2
<1> HIDE DEF R
<1>4. PICK x \in T : \A y \in T : ~ (<<y, x>> \in R)
  BY <1>1, WFMin
<1>5. ASSUME NEW y \in T PROVE x <= y
  <2>1. ~(y < x)
    BY <1>3, <1>4
  <2> QED BY <2>1
<1> QED BY <1>5

LEMMA UpTo ==
  ASSUME NEW n \in Nat, NEW S, 0 \in S, \A i \in 0..(n - 1) : i \in S => i + 1 \in S
  PROVE  0..n \subseteq S
<1> SUFFICES ASSUME NEW k \in 0..n, k \notin S PROVE FALSE
  OBVIOUS
<1> DEFINE T == {i \in 0..n : i \notin S}
<1>1. T \in SUBSET Nat /\ T # {}
  OBVIOUS
<1> HIDE DEF T
<1>2. PICK x \in T : \A y \in T : x <= y
  BY <1>1, LeastElement
<1>3. x # 0 /\ x \in 0..n /\ x \notin S
  BY DEF T
<1>4. x - 1 \in 0..(n - 1) /\ x - 1 \in S
  BY <1>2, <1>3 DEF T
<1> QED BY <1>3, <1>4

\* f starts at base and makes a step at each i.
Follows(f, n, V, base, Step) ==
  /\ f \in [0..n -> V]
  /\ f[0] = base
  /\ \A i \in 1..n : <<i, f[i - 1], f[i]>> \in Step

LEMMA Recursion ==
  ASSUME NEW n \in Nat, NEW V, NEW base \in V, NEW Step,
         \A i \in 1..n, v \in V : \E w \in V : <<i, v, w>> \in Step
  PROVE  \E f : Follows(f, n, V, base, Step)
<1> DEFINE Reached(k) == \E f \in [0..k -> V] :
                            f[0] = base /\ \A i \in 1..k : <<i, f[i - 1], f[i]>> \in Step
           S == {k \in 0..n : Reached(k)}
<1>1. Reached(0)
  <2>1. [i \in 0..0 |-> base] \in [0..0 -> V]
    OBVIOUS
  <2>2. [i \in 0..0 |-> base][0] = base
    OBVIOUS
  <2>3. 1..0 = {}
    OBVIOUS
  <2> QED BY <2>1, <2>2, <2>3, Zenon
<1>2. ASSUME NEW k \in 0..(n - 1), Reached(k) PROVE Reached(k + 1)
  <2>1. PICK f \in [0..k -> V] : f[0] = base /\ \A i \in 1..k : <<i, f[i - 1], f[i]>> \in Step
    BY <1>2
  <2>2. k + 1 \in 1..n /\ f[k] \in V
    BY <2>1
  <2>3. PICK w \in V : <<k + 1, f[k], w>> \in Step
    BY <2>2
  <2> DEFINE g == [i \in 0..(k + 1) |-> IF i = k + 1 THEN w ELSE f[i]]
  <2>4. g \in [0..(k + 1) -> V]
    BY <2>1, <2>3
  <2>5. ASSUME NEW i \in 1..(k + 1) PROVE <<i, g[i - 1], g[i]>> \in Step
    <3>1. CASE i = k + 1
      BY <2>3, <3>1
    <3>2. CASE i \in 1..k
      BY <2>1, <3>2
    <3> QED BY <3>1, <3>2
  <2>6. g[0] = base
    BY <2>1
  <2> QED BY <2>4, <2>5, <2>6
<1> HIDE DEF Reached
<1>3. 0 \in S /\ \A i \in 0..(n - 1) : i \in S => i + 1 \in S
  BY <1>1, <1>2
<1>4. Reached(n)
  <2> HIDE DEF S
  <2>1. 0..n \subseteq S BY <1>3, UpTo
  <2> QED BY <2>1 DEF S
<1> QED BY <1>4 DEF Reached, Follows

-----------------------------------------------------------------------------
\* The sets of values of sequences.

LEMMA ToSetIs == \A s : ToSet(s) = {s[i] : i \in DOMAIN s}
BY DEF ToSet

LEMMA ToSetConcat ==
  ASSUME NEW U, NEW s \in Seq(U), NEW t \in Seq(U)
  PROVE  s \o t \in Seq(U) /\ ToSet(s \o t) = ToSet(s) \cup ToSet(t)
<1>1. /\ s \o t \in Seq(U) /\ Len(s) \in Nat /\ Len(t) \in Nat
      /\ DOMAIN s = 1..Len(s) /\ DOMAIN t = 1..Len(t) /\ DOMAIN (s \o t) = 1..(Len(s) + Len(t))
  OBVIOUS
<1>2. \A i \in 1..Len(s) : (s \o t)[i] = s[i]
  OBVIOUS
<1>3. \A i \in 1..Len(t) : (s \o t)[Len(s) + i] = t[i]
  OBVIOUS
<1> SUFFICES ASSUME NEW r, r = s \o t PROVE ToSet(r) = ToSet(s) \cup ToSet(t)
  BY <1>1
<1>4. ASSUME NEW y \in ToSet(r) PROVE y \in ToSet(s) \cup ToSet(t)
  <2>1. PICK i \in 1..(Len(s) + Len(t)) : y = r[i]
    BY <1>1, ToSetIs
  <2>2. CASE i \in 1..Len(s)
    BY <2>1, <2>2, <1>1, <1>2, ToSetIs
  <2>3. CASE i \notin 1..Len(s)
    <3>1. i - Len(s) \in 1..Len(t) /\ i = Len(s) + (i - Len(s))
      BY <2>1, <2>3, <1>1
    <3>2. y = t[i - Len(s)]
      BY <2>1, <3>1, <1>3
    <3> QED BY <3>1, <3>2, <1>1, ToSetIs
  <2> QED BY <2>2, <2>3
<1>5. ASSUME NEW y \in ToSet(s) PROVE y \in ToSet(r)
  <2>1. PICK i \in 1..Len(s) : y = s[i]
    BY <1>1, ToSetIs
  <2>2. i \in DOMAIN r /\ y = r[i]
    BY <2>1, <1>1, <1>2
  <2> QED BY <2>2, ToSetIs
<1>6. ASSUME NEW y \in ToSet(t) PROVE y \in ToSet(r)
  <2>1. PICK i \in 1..Len(t) : y = t[i]
    BY <1>1, ToSetIs
  <2>2. Len(s) + i \in DOMAIN r /\ y = r[Len(s) + i]
    BY <2>1, <1>1, <1>3
  <2> QED BY <2>2, ToSetIs
<1> QED BY <1>4, <1>5, <1>6

-----------------------------------------------------------------------------
\* FlattenSeq, one sequence at a time.

\* What FlattenSeq(s) has joined after i sequences.
Joins(f, s, U) ==
  /\ f \in [0..Len(s) -> Seq(U)]
  /\ f[0] = <<>>
  /\ \A i \in 1..Len(s) : f[i] = f[i - 1] \o s[i]
  /\ FlattenSeq(s) = f[Len(s)]

LEMMA FlattenSteps ==
  ASSUME NEW U, NEW s \in Seq(Seq(U))
  PROVE  \E f : Joins(f, s, U)
<1> DEFINE n == Len(s)
           V == Seq(U)
           base == <<>>
           After(v, i) == v \o s[i]
           First(i) == s[i]
           Step == {<<i, v, After(v, i)>> : i \in 1..n, v \in V}
           Grows(g) == g = [i \in 1..n |-> IF i = 1 THEN First(i) ELSE After(g[i - 1], i)]
           chosen == CHOOSE g : Grows(g)
<1>1. FlattenSeq(s) = IF n = 0 THEN s ELSE chosen[n]
  BY DEF FlattenSeq
<1>2. n \in Nat /\ n = Len(s) /\ \A i \in 1..n : s[i] \in V
  OBVIOUS
<1>3. base \in V /\ \A v \in V, i \in 1..n : After(v, i) \in V
  BY <1>2, ToSetConcat
<1>4. \A i \in 1..n : After(base, i) = First(i)
  BY <1>2
<1>5. n = 0 => s = base
  OBVIOUS
<1> HIDE DEF n, V, base, After, First
<1>6. \A i \in 1..n, v \in V : \E w \in V : <<i, v, w>> \in Step
  BY <1>3
<1>7. PICK f : Follows(f, n, V, base, Step)
  <2> HIDE DEF Step
  <2> QED BY <1>2, <1>3, <1>6, Recursion
<1>8. /\ f \in [0..n -> V] /\ f[0] = base
      /\ \A i \in 1..n : <<i, f[i - 1], f[i]>> \in Step
  <2> HIDE DEF Step
  <2> QED BY <1>7 DEF Follows
<1>9. ASSUME NEW i \in 1..n PROVE f[i] = After(f[i - 1], i)
  <2>1. i - 1 \in 0..n BY <1>2
  <2>2. f[i - 1] \in V BY <2>1, <1>8
  <2> QED BY <2>2, <1>8
<1>10. n # 0 => chosen[n] = f[n]
  <2> SUFFICES ASSUME n # 0 PROVE chosen[n] = f[n]
    OBVIOUS
  <2> DEFINE g == [i \in 1..n |-> f[i]]
  <2>1. ASSUME NEW i \in 1..n PROVE g[i] = IF i = 1 THEN First(i) ELSE After(g[i - 1], i)
    <3>1. CASE i = 1
      <4>1. f[1] = After(f[0], 1)
        BY <1>9, <3>1
      <4> QED BY <4>1, <3>1, <1>8, <1>4
    <3>2. CASE i # 1
      <4>1. i - 1 \in 1..n BY <3>2, <1>2
      <4> QED BY <4>1, <3>2, <1>9
    <3> QED BY <3>1, <3>2
  <2>2. Grows(g)
    <3> HIDE DEF g
    <3>1. g = [i \in 1..n |-> g[i]] BY DEF g
    <3> QED BY <3>1, <2>1
  <2>3. Grows(chosen)
    <3> HIDE DEF Grows, g
    <3> QED BY <2>2
  <2> HIDE DEF g, chosen
  <2>4. ASSUME NEW i \in 1..n
        PROVE  chosen[i] = IF i = 1 THEN First(i) ELSE After(chosen[i - 1], i)
    BY <2>3
  <2> HIDE DEF Grows
  <2> DEFINE T == {i \in 0..n : i = 0 \/ chosen[i] = f[i]}
  <2>5. 0 \in T BY <1>2
  <2>6. ASSUME NEW i \in 0..(n - 1), i \in T PROVE i + 1 \in T
    <3>1. i + 1 \in 1..n BY <1>2
    <3>2. CASE i = 0
      BY <3>1, <3>2, <2>4, <1>9, <1>4, <1>8
    <3>3. CASE i # 0
      <4>1. chosen[i + 1] = After(chosen[i], i + 1)
        BY <3>1, <3>3, <2>4
      <4>2. f[i + 1] = After(f[i], i + 1)
        BY <3>1, <1>9
      <4> QED BY <4>1, <4>2, <2>6, <3>1, <3>3
    <3> QED BY <3>2, <3>3
  <2>7. 0..n \subseteq T
    <3> HIDE DEF T
    <3> QED BY <1>2, <2>5, <2>6, UpTo
  <2> QED BY <2>7, <1>2
<1>11. FlattenSeq(s) = f[n]
  BY <1>10, <1>1, <1>5, <1>8
<1>12. f \in [0..Len(s) -> Seq(U)] /\ f[0] = <<>> /\ FlattenSeq(s) = f[Len(s)]
  BY <1>2, <1>8, <1>11 DEF V, base
<1>13. \A i \in 1..Len(s) : f[i] = f[i - 1] \o s[i]
  BY <1>9, <1>2 DEF After
<1> QED
  BY <1>12, <1>13 DEF Joins

-----------------------------------------------------------------------------
\* FlattenSeq keeps the elements and their order.

ValuesIn(s) == UNION {ToSet(s[i]) : i \in DOMAIN s}

LEMMA FlattenValues ==
  ASSUME NEW U, NEW s \in Seq(Seq(U))
  PROVE  FlattenSeq(s) \in Seq(U) /\ ToSet(FlattenSeq(s)) = ValuesIn(s)
<1> DEFINE n == Len(s)
<1>1. PICK f : Joins(f, s, U)
  BY FlattenSteps
<1>2. n \in Nat /\ DOMAIN s = 1..n /\ \A i \in 1..n : s[i] \in Seq(U)
  OBVIOUS
<1>3. /\ f \in [0..n -> Seq(U)] /\ f[0] = <<>> /\ FlattenSeq(s) = f[n]
      /\ \A i \in 1..n : f[i] = f[i - 1] \o s[i]
  BY <1>1 DEF Joins
<1> HIDE DEF n
<1> DEFINE T == {k \in 0..n : ToSet(f[k]) = UNION {ToSet(s[i]) : i \in 1..k}}
<1>4. 0 \in T
  <2>1. ToSet(<<>>) = {}
    BY ToSetIs
  <2> QED BY <1>2, <1>3, <2>1
<1>5. ASSUME NEW k \in 0..(n - 1), k \in T PROVE k + 1 \in T
  <2>0. k \in 0..n /\ k + 1 \in 1..n /\ (k + 1) - 1 = k
    BY <1>2
  <2>1. k + 1 \in 1..n /\ (k + 1) - 1 = k /\ f[k] \in Seq(U) /\ s[k + 1] \in Seq(U)
    BY <2>0, <1>2, <1>3
  <2>2. f[k + 1] = f[k] \o s[k + 1]
    BY <2>1, <1>3
  <2>3. ToSet(f[k + 1]) = ToSet(f[k]) \cup ToSet(s[k + 1])
    BY <2>1, <2>2, ToSetConcat
  <2>4. 1..(k + 1) = (1..k) \cup {k + 1}
    BY <1>2
  <2>5. ToSet(f[k]) = UNION {ToSet(s[i]) : i \in 1..k}
    BY <1>5
  <2>6. ToSet(f[k + 1]) = UNION {ToSet(s[i]) : i \in 1..(k + 1)}
    BY <2>3, <2>4, <2>5
  <2> QED BY <2>1, <2>6, <1>2
<1>6. 0..n \subseteq T
  <2> HIDE DEF T
  <2> QED BY <1>2, <1>4, <1>5, UpTo
<1> QED BY <1>2, <1>3, <1>6 DEF ValuesIn

\* Two positions of the joined sequence, in order, are two positions of the
\* sequences it was joined from, in order.
InOrder(s, x, y) ==
  \E i, j \in DOMAIN s : \E a \in DOMAIN s[i], b \in DOMAIN s[j] :
    /\ x = s[i][a] /\ y = s[j][b]
    /\ i < j \/ (i = j /\ a < b)

LEMMA FlattenOrder ==
  ASSUME NEW U, NEW s \in Seq(Seq(U)),
         NEW p \in DOMAIN FlattenSeq(s), NEW q \in DOMAIN FlattenSeq(s), p < q
  PROVE  InOrder(s, FlattenSeq(s)[p], FlattenSeq(s)[q])
<1> DEFINE n == Len(s)
           Ordered(t) == \A x, y \in DOMAIN t : x < y => InOrder(s, t[x], t[y])
<1>1. PICK f : Joins(f, s, U)
  BY FlattenSteps
<1>2. n \in Nat /\ DOMAIN s = 1..n /\ \A i \in 1..n : s[i] \in Seq(U)
  OBVIOUS
<1>3. /\ f \in [0..n -> Seq(U)] /\ f[0] = <<>> /\ FlattenSeq(s) = f[n]
      /\ \A i \in 1..n : f[i] = f[i - 1] \o s[i]
  BY <1>1 DEF Joins
<1> HIDE DEF n
\* Both that f[k] is ordered and where its values come from.
<1> DEFINE Comes(k) == \A x \in DOMAIN f[k] :
                         \E i \in 1..k : \E a \in DOMAIN s[i] : f[k][x] = s[i][a]
           T == {k \in 0..n : Ordered(f[k]) /\ Comes(k)}
<1>4. 0 \in T
  BY <1>2, <1>3
<1>5. ASSUME NEW k \in 0..(n - 1), k \in T PROVE k + 1 \in T
  <2> DEFINE u == f[k]
             v == s[k + 1]
             w == f[k + 1]
  <2>0. k \in 0..n /\ k + 1 \in 1..n /\ (k + 1) - 1 = k
    BY <1>2
  <2>1. k + 1 \in 1..n /\ (k + 1) - 1 = k /\ u \in Seq(U) /\ v \in Seq(U)
    BY <2>0, <1>2, <1>3
  <2>2. w = u \o v
    BY <2>1, <1>3
  <2>3. Ordered(u) /\ Comes(k)
    BY <1>5
  <2> HIDE DEF Ordered
  <2>4. /\ Len(u) \in Nat /\ Len(v) \in Nat /\ DOMAIN u = 1..Len(u) /\ DOMAIN v = 1..Len(v)
        /\ DOMAIN w = 1..(Len(u) + Len(v))
        /\ \A x \in 1..Len(u) : w[x] = u[x]
        /\ \A x \in DOMAIN w : x \notin 1..Len(u) => x - Len(u) \in 1..Len(v) /\ w[x] = v[x - Len(u)]
    <3> HIDE DEF u, v, w
    <3> QED BY <2>1, <2>2
  <2>5. ASSUME NEW x \in DOMAIN w
        PROVE  \E i \in 1..(k + 1) : \E a \in DOMAIN s[i] : w[x] = s[i][a]
    <3>1. CASE x \in 1..Len(u)
      <4>1. PICK i \in 1..k : \E a \in DOMAIN s[i] : u[x] = s[i][a]
        BY <2>3, <2>4, <3>1
      <4>2. i \in 1..(k + 1) /\ w[x] = u[x]
        BY <2>4, <3>1
      <4> QED BY <4>1, <4>2
    <3>2. CASE x \notin 1..Len(u)
      <4>1. x - Len(u) \in DOMAIN s[k + 1] /\ w[x] = s[k + 1][x - Len(u)]
        BY <2>4, <3>2
      <4>2. k + 1 \in 1..(k + 1)
        OBVIOUS
      <4> QED BY <4>1, <4>2
    <3> QED BY <3>1, <3>2
  <2>6. ASSUME NEW x \in DOMAIN w, NEW y \in DOMAIN w, x < y
        PROVE  InOrder(s, w[x], w[y])
    <3>1. CASE y \in 1..Len(u)
      <4>1. x \in 1..Len(u) BY <2>4, <2>6, <3>1
      <4>2. InOrder(s, u[x], u[y])
        BY <4>1, <3>1, <2>3, <2>4, <2>6 DEF Ordered
      <4> QED BY <4>1, <4>2, <3>1, <2>4
    <3>2. CASE y \notin 1..Len(u) /\ x \in 1..Len(u)
      <4>1. PICK i \in 1..k : \E a \in DOMAIN s[i] : u[x] = s[i][a]
        BY <2>3, <2>4, <3>2
      <4>2. PICK a \in DOMAIN s[i] : u[x] = s[i][a]
        BY <4>1
      <4>3. y - Len(u) \in DOMAIN s[k + 1] /\ w[y] = s[k + 1][y - Len(u)] /\ w[x] = s[i][a]
        BY <2>4, <3>2, <4>2
      <4>4. i \in DOMAIN s /\ k + 1 \in DOMAIN s /\ i < k + 1
        BY <1>2, <2>1
      <4> QED BY <4>3, <4>4 DEF InOrder
    <3>3. CASE y \notin 1..Len(u) /\ x \notin 1..Len(u)
      <4>1. /\ x - Len(u) \in DOMAIN s[k + 1] /\ w[x] = s[k + 1][x - Len(u)]
            /\ y - Len(u) \in DOMAIN s[k + 1] /\ w[y] = s[k + 1][y - Len(u)]
        BY <2>4, <3>3
      <4>3. x - Len(u) < y - Len(u)
        BY <2>4, <2>6
      <4>2. k + 1 \in DOMAIN s
        BY <1>2, <2>1
      <4> QED BY <4>1, <4>2, <4>3 DEF InOrder
    <3> QED BY <3>1, <3>2, <3>3
  <2>7. Ordered(f[k + 1]) /\ Comes(k + 1)
    BY <2>5, <2>6 DEF Ordered
  <2> QED BY <2>7, <2>1, <1>2
<1>6. 0..n \subseteq T
  <2> HIDE DEF T
  <2> QED BY <1>2, <1>4, <1>5, UpTo
<1> QED BY <1>2, <1>3, <1>6

-----------------------------------------------------------------------------
\* The elements of a sequence that a set selects.

LEMMA Selection ==
  ASSUME NEW U, NEW s \in Seq(U), NEW T, NEW g,
         g = [i \in DOMAIN s |-> IF s[i] \in T THEN <<s[i]>> ELSE <<>>]
  PROVE  /\ FlattenSeq(g) \in Seq(U)
         /\ ToSet(FlattenSeq(g)) = ToSet(s) \cap T
<1>1. Len(s) \in Nat /\ DOMAIN s = 1..Len(s) /\ \A i \in DOMAIN s : s[i] \in U
  OBVIOUS
<1>2. \A x \in U : <<x>> \in Seq(U)
  OBVIOUS
<1>3. <<>> \in Seq(U)
  OBVIOUS
<1>4. ASSUME NEW i \in 1..Len(s) PROVE g[i] \in Seq(U)
  <2>1. CASE s[i] \in T
    BY <2>1, <1>1, <1>2
  <2>2. CASE s[i] \notin T
    BY <2>2, <1>1, <1>3
  <2> QED BY <2>1, <2>2
<1>5. DOMAIN g = 1..Len(s) /\ g = [i \in 1..Len(s) |-> g[i]]
  BY <1>1
<1>6. g \in Seq(Seq(U))
  BY <1>1, <1>4, <1>5, IsASeq
<1>7. ASSUME NEW i \in DOMAIN s PROVE ToSet(g[i]) = {s[i]} \cap T
  <2>1. CASE s[i] \in T
    <3>1. g[i] = <<s[i]>>
      BY <2>1
    <3>2. ToSet(<<s[i]>>) = {s[i]}
      BY ToSetIs
    <3> QED BY <3>1, <3>2, <2>1
  <2>2. CASE s[i] \notin T
    <3>1. g[i] = <<>>
      BY <2>2
    <3>2. ToSet(<<>>) = {}
      BY ToSetIs
    <3> QED BY <3>1, <3>2, <2>2
  <2> QED BY <2>1, <2>2
<1>8. ValuesIn(g) = ToSet(s) \cap T
  <2>1. ToSet(s) = {s[i] : i \in DOMAIN s}
    BY ToSetIs
  <2>2. DOMAIN g = DOMAIN s
    BY <1>1, <1>5
  <2>3. ASSUME NEW x \in ValuesIn(g) PROVE x \in ToSet(s) \cap T
    <3>1. PICK i \in DOMAIN s : x \in ToSet(g[i])
      BY <2>2, <2>3 DEF ValuesIn
    <3> QED BY <3>1, <2>1, <1>7
  <2>4. ASSUME NEW x \in ToSet(s) \cap T PROVE x \in ValuesIn(g)
    <3>1. PICK i \in DOMAIN s : x = s[i]
      BY <2>1, <2>4
    <3>2. x \in ToSet(g[i])
      BY <3>1, <2>4, <1>7
    <3> QED BY <3>1, <3>2, <2>2 DEF ValuesIn
  <2> QED BY <2>3, <2>4
<1> QED BY <1>6, <1>8, FlattenValues

-----------------------------------------------------------------------------
\* AsSeq lists every element of a finite set once.

LEMMA AsSeqLists ==
  ASSUME NEW S, IsFiniteSet(S)
  PROVE  /\ AsSeq(S) \in Seq(S)
         /\ Len(AsSeq(S)) = Cardinality(S)
         /\ ToSet(AsSeq(S)) = S
         /\ \A i, j \in DOMAIN AsSeq(S) : AsSeq(S)[i] = AsSeq(S)[j] => i = j
<1> DEFINE n == Cardinality(S)
           V == SUBSET S
           Pick(v) == CHOOSE x \in v : TRUE
           After(v, i) == v \ {Pick(v)}
           Step == {<<i, v, After(v, i)>> : i \in 1..n, v \in V}
           Leaves(g) == g = [i \in 0..n |-> IF i = 0 THEN S ELSE After(g[i - 1], i)]
           left == CHOOSE g : Leaves(g)
<1>1. AsSeq(S) = [i \in 1..n |-> Pick(left[i - 1])]
  BY DEF AsSeq
<1>2. n \in Nat /\ n = Cardinality(S)
  BY FS_CardinalityType
<1>3. S \in V /\ \A v \in V, i \in 1..n : After(v, i) \in V
  OBVIOUS
<1>4. \A v : v # {} => Pick(v) \in v
  OBVIOUS
<1>5. \A v, i : After(v, i) = v \ {Pick(v)}
  OBVIOUS
<1> HIDE DEF n, V, Pick, After
<1>6. \A i \in 1..n, v \in V : \E w \in V : <<i, v, w>> \in Step
  BY <1>3
<1>7. PICK f : Follows(f, n, V, S, Step)
  <2> HIDE DEF Step
  <2> QED BY <1>2, <1>3, <1>6, Recursion
<1>8. /\ f \in [0..n -> V] /\ f[0] = S
      /\ \A i \in 1..n : <<i, f[i - 1], f[i]>> \in Step
  <2> HIDE DEF Step
  <2> QED BY <1>7 DEF Follows
<1>9. ASSUME NEW i \in 1..n PROVE f[i] = After(f[i - 1], i)
  <2>1. i - 1 \in 0..n BY <1>2
  <2>2. f[i - 1] \in V BY <2>1, <1>8
  <2> QED BY <2>2, <1>8
<1>10. Leaves(f)
  <2>1. ASSUME NEW i \in 0..n PROVE f[i] = IF i = 0 THEN S ELSE After(f[i - 1], i)
    <3>1. i = 0 \/ i \in 1..n BY <1>2
    <3> QED BY <3>1, <1>8, <1>9
  <2>2. f = [i \in 0..n |-> f[i]]
    BY <1>8
  <2> QED BY <2>1, <2>2
<1>11. Leaves(left)
  <2> HIDE DEF Leaves
  <2> QED BY <1>10
<1> HIDE DEF left
<1>12. left[0] = S /\ \A i \in 1..n : left[i] = left[i - 1] \ {Pick(left[i - 1])}
  BY <1>11, <1>2, <1>5
<1> HIDE DEF Leaves
<1> DEFINE p == [i \in 1..n |-> Pick(left[i - 1])]
           T == {k \in 0..n : /\ left[k] = S \ {p[i] : i \in 1..k}
                              /\ IsFiniteSet(left[k]) /\ Cardinality(left[k]) = n - k
                              /\ \A i \in 1..k : p[i] \in S
                              /\ \A i, j \in 1..k : p[i] = p[j] => i = j}
<1>13. 0 \in T
  <2> HIDE DEF p
  <2>1. 1..0 = {} /\ 0 \in 0..n
    BY <1>2
  <2>2. {p[i] : i \in 1..0} = {}
    BY <2>1
  <2>3. left[0] = S \ {p[i] : i \in 1..0}
    BY <2>2, <1>12
  <2>4. IsFiniteSet(left[0]) /\ Cardinality(left[0]) = n - 0
    BY <1>2, <1>12
  <2> QED BY <2>1, <2>3, <2>4
<1>14. ASSUME NEW k \in 0..(n - 1), k \in T PROVE k + 1 \in T
  <2>1. k + 1 \in 1..n /\ (k + 1) - 1 = k /\ k + 1 \in 0..n /\ n - k # 0
    BY <1>2
  <2>2. /\ left[k] = S \ {p[i] : i \in 1..k}
        /\ IsFiniteSet(left[k]) /\ Cardinality(left[k]) = n - k
        /\ \A i \in 1..k : p[i] \in S
        /\ \A i, j \in 1..k : p[i] = p[j] => i = j
    BY <1>14
  <2>3. p[k + 1] = Pick(left[k]) /\ left[k + 1] = left[k] \ {p[k + 1]}
    BY <2>1, <1>12
  <2>4. left[k] # {}
    BY <2>1, <2>2, FS_EmptySet
  <2>5. p[k + 1] \in left[k]
    BY <2>3, <2>4, <1>4
  <2> HIDE DEF p
  <2>6. IsFiniteSet(left[k + 1]) /\ Cardinality(left[k + 1]) = n - (k + 1)
    <3>1. IsFiniteSet(left[k + 1]) /\ Cardinality(left[k + 1]) = Cardinality(left[k]) - 1
      <4>1. IsFiniteSet(left[k]) /\ p[k + 1] \in left[k]
        BY <2>2, <2>5
      <4>2. \A v, x : IsFiniteSet(v) /\ x \in v =>
                         IsFiniteSet(v \ {x}) /\ Cardinality(v \ {x}) = Cardinality(v) - 1
        BY FS_RemoveElement
      <4>3. /\ IsFiniteSet(left[k] \ {p[k + 1]})
            /\ Cardinality(left[k] \ {p[k + 1]}) = Cardinality(left[k]) - 1
        BY <4>1, <4>2
      <4> QED BY <4>3, <2>3
    <3> QED BY <3>1, <2>2, <2>1, <1>2
  <2>7. 1..(k + 1) = (1..k) \cup {k + 1} /\ k + 1 \notin 1..k
    BY <2>1, <1>2
  <2>8. left[k + 1] = S \ {p[i] : i \in 1..(k + 1)}
    BY <2>2, <2>3, <2>7
  <2>9. p[k + 1] \in S /\ \A i \in 1..k : p[i] # p[k + 1]
    BY <2>2, <2>5
  <2>10. \A i \in 1..(k + 1) : p[i] \in S
    BY <2>2, <2>7, <2>9
  <2>11. \A i, j \in 1..(k + 1) : p[i] = p[j] => i = j
    BY <2>2, <2>7, <2>9
  <2> QED BY <2>1, <2>6, <2>8, <2>10, <2>11
<1>15. n \in T
  <2> HIDE DEF T
  <2>1. 0..n \subseteq T
    BY <1>2, <1>13, <1>14, UpTo
  <2> QED BY <2>1, <1>2
<1>16. /\ left[n] = S \ {p[i] : i \in 1..n}
       /\ IsFiniteSet(left[n]) /\ Cardinality(left[n]) = 0
       /\ \A i \in 1..n : p[i] \in S
       /\ \A i, j \in 1..n : p[i] = p[j] => i = j
  <2> HIDE DEF p
  <2>1. n - n = 0
    BY <1>2
  <2> QED BY <1>15, <2>1
<1>17. left[n] = {}
  BY <1>16, FS_EmptySet
<1>18. AsSeq(S) = p /\ DOMAIN p = 1..n /\ p = [i \in 1..n |-> p[i]]
  BY <1>1
<1> HIDE DEF p
<1>19. p \in Seq(S) /\ Len(p) = n
  BY <1>2, <1>16, <1>18, IsASeq
<1>20. ToSet(p) = S
  <2>1. ToSet(p) = {p[i] : i \in 1..n}
    BY <1>18, ToSetIs
  <2> QED BY <2>1, <1>16, <1>17
<1> QED BY <1>2, <1>16, <1>18, <1>19, <1>20
-----------------------------------------------------------------------------
\* The values of some sets in turn: all of them, none twice within a set, and
\* those of an earlier set first.

LEMMA InTurnLists ==
  ASSUME NEW n \in Nat, NEW U, NEW sets \in [1..n -> SUBSET U],
         \A k \in 1..n : IsFiniteSet(sets[k])
  PROVE  /\ InTurn(sets) \in Seq(U)
         /\ ToSet(InTurn(sets)) = UNION {sets[k] : k \in 1..n}
         /\ \A p, q \in DOMAIN InTurn(sets) : p < q =>
              \E i, j \in 1..n : /\ InTurn(sets)[p] \in sets[i]
                                 /\ InTurn(sets)[q] \in sets[j]
                                 /\ \/ i < j
                                    \/ i = j /\ InTurn(sets)[p] # InTurn(sets)[q]
<1> DEFINE g == [k \in 1..n |-> AsSeq(sets[k])]
<1>1. InTurn(sets) = FlattenSeq(g)
  <2>1. DOMAIN sets = 1..n
    OBVIOUS
  <2> QED BY <2>1 DEF InTurn
<1>2. ASSUME NEW k \in 1..n
      PROVE  /\ AsSeq(sets[k]) \in Seq(U) /\ ToSet(AsSeq(sets[k])) = sets[k]
             /\ \A a, b \in DOMAIN AsSeq(sets[k]) : AsSeq(sets[k])[a] = AsSeq(sets[k])[b] => a = b
  <2> SUFFICES ASSUME NEW S, S = sets[k]
               PROVE  /\ AsSeq(S) \in Seq(U) /\ ToSet(AsSeq(S)) = S
                      /\ \A a, b \in DOMAIN AsSeq(S) : AsSeq(S)[a] = AsSeq(S)[b] => a = b
    OBVIOUS
  <2>1. IsFiniteSet(S) /\ S \subseteq U
    OBVIOUS
  <2>2. /\ AsSeq(S) \in Seq(S) /\ ToSet(AsSeq(S)) = S
        /\ \A a, b \in DOMAIN AsSeq(S) : AsSeq(S)[a] = AsSeq(S)[b] => a = b
    BY <2>1, AsSeqLists
  <2> HIDE <2>1
  <2>3. AsSeq(S) \in Seq(U)
    BY <2>1, <2>2
  <2> QED BY <2>2, <2>3
<1>3. DOMAIN g = 1..n /\ g = [k \in 1..n |-> g[k]] /\ \A k \in 1..n : g[k] = AsSeq(sets[k])
  OBVIOUS
<1> HIDE DEF g
<1>4. \A k \in 1..n : g[k] \in Seq(U) /\ ToSet(g[k]) = sets[k]
  BY <1>2, <1>3
<1>5. g \in Seq(Seq(U))
  BY <1>3, <1>4, IsASeq
<1>6. FlattenSeq(g) \in Seq(U) /\ ToSet(FlattenSeq(g)) = ValuesIn(g)
  BY <1>5, FlattenValues
<1>7. ValuesIn(g) = UNION {sets[k] : k \in 1..n}
  BY <1>3, <1>4 DEF ValuesIn
<1>8. ASSUME NEW p \in DOMAIN FlattenSeq(g), NEW q \in DOMAIN FlattenSeq(g), p < q
      PROVE  \E i, j \in 1..n : /\ FlattenSeq(g)[p] \in sets[i]
                                /\ FlattenSeq(g)[q] \in sets[j]
                                /\ i < j \/ (i = j /\ FlattenSeq(g)[p] # FlattenSeq(g)[q])
  <2> SUFFICES ASSUME NEW x, x = FlattenSeq(g)[p], NEW y, y = FlattenSeq(g)[q]
               PROVE  \E i, j \in 1..n : /\ x \in sets[i] /\ y \in sets[j]
                                         /\ i < j \/ (i = j /\ x # y)
    OBVIOUS
  <2>1. InOrder(g, x, y)
    BY <1>5, <1>8, FlattenOrder
  <2>2. PICK i \in 1..n, j \in 1..n : \E a \in DOMAIN g[i], b \in DOMAIN g[j] :
          x = g[i][a] /\ y = g[j][b] /\ (i < j \/ (i = j /\ a < b))
    BY <2>1, <1>3 DEF InOrder
  <2>3. PICK a \in DOMAIN g[i], b \in DOMAIN g[j] :
          x = g[i][a] /\ y = g[j][b] /\ (i < j \/ (i = j /\ a < b))
    BY <2>2
  <2>4. x \in sets[i] /\ y \in sets[j]
    BY <2>3, <1>4, ToSetIs
  <2>5. i = j /\ a < b => x # y
    <3> SUFFICES ASSUME i = j, a < b, x = y PROVE FALSE
      OBVIOUS
    <3>1. a \in DOMAIN g[i] /\ b \in DOMAIN g[i] /\ g[i][a] = g[i][b]
      BY <2>3
    <3>2. a = b
      BY <3>1, <1>2, <1>3
    <3>3. g[i] \in Seq(U)
      BY <1>4
    <3>4. a \in Nat
      BY <3>1, <3>3
    <3> QED BY <3>2, <3>4
  <2> QED BY <2>3, <2>4, <2>5
<1> QED BY <1>1, <1>6, <1>7, <1>8

-----------------------------------------------------------------------------
\* Total, one number at a time.  V is closed under the additions made.

Sums(f, s, V) ==
  /\ f \in [0..Len(s) -> V]
  /\ f[0] = 0
  /\ \A i \in 1..Len(s) : f[i] = f[i - 1] + s[i]
  /\ Total(s) = f[Len(s)]

LEMMA TotalSteps ==
  ASSUME NEW V, 0 \in V, NEW s \in Seq(V), \A v, w \in V : v + w \in V
  PROVE  \E f : Sums(f, s, V)
<1> DEFINE n == Len(s)
           After(v, i) == v + s[i]
           Step == {<<i, v, After(v, i)>> : i \in 1..n, v \in V}
           Grows(g) == g = [i \in 0..n |-> IF i = 0 THEN 0 ELSE After(g[i - 1], i)]
           chosen == CHOOSE g : Grows(g)
<1>1. Total(s) = chosen[n]
  BY DEF Total
<1>2. n \in Nat /\ n = Len(s) /\ \A i \in 1..n : s[i] \in V
  OBVIOUS
<1>3. \A v \in V, i \in 1..n : After(v, i) \in V
  BY <1>2
<1>4. \A v, i : After(v, i) = v + s[i]
  OBVIOUS
<1> HIDE DEF n, After
<1>6. \A i \in 1..n, v \in V : \E w \in V : <<i, v, w>> \in Step
  BY <1>3
<1>7. PICK f : Follows(f, n, V, 0, Step)
  <2> HIDE DEF Step
  <2> QED BY <1>2, <1>6, Recursion
<1>8. /\ f \in [0..n -> V] /\ f[0] = 0
      /\ \A i \in 1..n : <<i, f[i - 1], f[i]>> \in Step
  <2> HIDE DEF Step
  <2> QED BY <1>7 DEF Follows
<1>9. ASSUME NEW i \in 1..n PROVE f[i] = After(f[i - 1], i)
  <2>1. i - 1 \in 0..n BY <1>2
  <2>2. f[i - 1] \in V BY <2>1, <1>8
  <2> QED BY <2>2, <1>8
<1>10. Grows(f)
  <2>1. ASSUME NEW i \in 0..n PROVE f[i] = IF i = 0 THEN 0 ELSE After(f[i - 1], i)
    <3>1. i = 0 \/ i \in 1..n BY <1>2
    <3> QED BY <3>1, <1>8, <1>9
  <2>2. f = [i \in 0..n |-> f[i]]
    BY <1>8
  <2> QED BY <2>1, <2>2
<1>11. Grows(chosen)
  <2> HIDE DEF Grows
  <2> QED BY <1>10
<1> HIDE DEF chosen
<1>12. chosen[0] = 0 /\ \A i \in 1..n : chosen[i] = After(chosen[i - 1], i)
  BY <1>11, <1>2
<1> HIDE DEF Grows, Step
<1> DEFINE T == {k \in 0..n : chosen[k] = f[k]}
<1>13. 0 \in T
  BY <1>2, <1>8, <1>12
<1>14. ASSUME NEW k \in 0..(n - 1), k \in T PROVE k + 1 \in T
  <2>1. k + 1 \in 1..n /\ (k + 1) - 1 = k /\ k + 1 \in 0..n
    BY <1>2
  <2>2. chosen[k + 1] = After(chosen[k], k + 1) /\ f[k + 1] = After(f[k], k + 1)
    BY <2>1, <1>9, <1>12
  <2> QED BY <2>1, <2>2, <1>14
<1>15. n \in T
  <2> HIDE DEF T
  <2>1. 0..n \subseteq T
    BY <1>2, <1>13, <1>14, UpTo
  <2> QED BY <2>1, <1>2
<1>16. Total(s) = f[n]
  BY <1>1, <1>15
<1>17. \A i \in 1..n : f[i] = f[i - 1] + s[i]
  BY <1>9, <1>4
<1> QED BY <1>2, <1>8, <1>16, <1>17 DEF Sums
-----------------------------------------------------------------------------
\* Finite sets, and the largest of some numbers.

LEMMA SeqFinite ==
  ASSUME NEW U, NEW s \in Seq(U)
  PROVE  IsFiniteSet(ToSet(s)) /\ ToSet(s) \subseteq U
<1>1. Len(s) \in Nat /\ DOMAIN s = 1..Len(s) /\ \A i \in 1..Len(s) : s[i] \in U
  OBVIOUS
<1>2. ToSet(s) = {s[i] : i \in 1..Len(s)}
  BY <1>1, ToSetIs
<1> DEFINE f == [i \in 1..Len(s) |-> s[i]]
<1>3. f \in Surjection(1..Len(s), ToSet(s))
  BY <1>2 DEF Surjection
<1>4. IsFiniteSet(ToSet(s))
  <2> HIDE DEF f
  <2> QED BY <1>1, <1>3, FS_NatSurjection DEF ExistsSurjection
<1> QED BY <1>1, <1>2, <1>4

LEMMA ImageFinite ==
  ASSUME NEW S, IsFiniteSet(S), NEW f, DOMAIN f = S
  PROVE  IsFiniteSet({f[x] : x \in S})
<1> DEFINE T == {f[x] : x \in S}
           g == [x \in S |-> f[x]]
<1>1. g \in Surjection(S, T)
  BY DEF Surjection
<1> HIDE DEF T, g
<1>2. IsFiniteSet(T)
  BY <1>1, FS_Surjection
<1> QED BY <1>2 DEF T

LEMMA MaxOf ==
  ASSUME NEW n \in Nat, NEW S \in SUBSET (0..n), S # {}
  PROVE  Max(S) \in S /\ \A y \in S : Max(S) >= y
<1> DEFINE below == {n - y : y \in S}
<1>1. below \in SUBSET Nat /\ below # {}
  <2>1. \A y \in S : n - y \in Nat
    OBVIOUS
  <2> QED BY <2>1
<1>2. PICK x \in below : \A y \in below : x <= y
  BY <1>1, LeastElement
<1>3. PICK m \in S : x = n - m
  OBVIOUS
<1>4. ASSUME NEW y \in S PROVE m >= y
  <2>1. x <= n - y
    BY <1>2
  <2> QED BY <2>1, <1>3
<1>5. \E z \in S : \A y \in S : z >= y
  BY <1>4
<1> QED BY <1>5, Zenon DEF Max

\* A finite set of naturals has a bound, so it has a largest element.
LEMMA FiniteMax ==
  ASSUME NEW S \in SUBSET Nat, IsFiniteSet(S), S # {}
  PROVE  Max(S) \in S /\ \A y \in S : Max(S) >= y
<1> DEFINE h == AsSeq(S)
           n == Cardinality(S)
           T == {k \in 0..n : \E b \in Nat : \A i \in 1..k : h[i] <= b}
<1>1. /\ h \in Seq(S) /\ Len(h) = n /\ ToSet(h) = S /\ n \in Nat /\ DOMAIN h = 1..n
  BY AsSeqLists, FS_CardinalityType
<1> HIDE DEF h, n
<1>2. \A i \in 1..n : h[i] \in Nat
  <2>1. \A i \in 1..n : h[i] \in S
    BY <1>1
  <2> QED BY <2>1
<1>3. 0 \in T
  <2>1. 1..0 = {} /\ 0 \in 0..n /\ 0 \in Nat
    BY <1>1
  <2> QED BY <2>1
<1>4. ASSUME NEW k \in 0..(n - 1), k \in T PROVE k + 1 \in T
  <2>1. k + 1 \in 1..n /\ k + 1 \in 0..n /\ 1..(k + 1) = (1..k) \cup {k + 1}
    BY <1>1
  <2>2. PICK b \in Nat : \A i \in 1..k : h[i] <= b
    BY <1>4
  <2>3. \A i \in 1..k : h[i] \in Nat
    BY <1>1, <1>2
  <2>4. b + h[k + 1] \in Nat /\ \A i \in 1..(k + 1) : h[i] <= b + h[k + 1]
    BY <2>1, <2>2, <2>3, <1>2
  <2> QED BY <2>1, <2>4
<1>5. n \in T
  <2> HIDE DEF T
  <2>1. 0..n \subseteq T
    BY <1>1, <1>3, <1>4, UpTo
  <2> QED BY <2>1, <1>1
<1>6. PICK b \in Nat : \A i \in 1..n : h[i] <= b
  BY <1>5
<1>7. S \in SUBSET (0..b)
  <2>1. \A y \in S : \E i \in 1..n : y = h[i]
    BY <1>1, ToSetIs
  <2> QED BY <2>1, <1>6
<1> QED BY <1>7, MaxOf

\* A function on an initial segment is a sequence.
LEMMA SegmentIsSeq ==
  ASSUME NEW S, NEW n \in Nat, NEW f \in [1..n -> S]
  PROVE  f \in Seq(S) /\ Len(f) = n
OBVIOUS

\* A list that holds the sets one after the other, each element of a set once.
Arranges(s, sets) ==
  /\ \A x : x \in ToSet(s) <=> \E k \in DOMAIN sets : x \in sets[k]
  /\ \A p, q \in DOMAIN s : p < q =>
       \E i, j \in DOMAIN sets : /\ s[p] \in sets[i]
                                /\ s[q] \in sets[j]
                                /\ \/ i < j
                                   \/ i = j /\ s[p] # s[q]

LEMMA InTurnArranges ==
  ASSUME NEW n \in Nat, NEW U, NEW sets \in [1..n -> SUBSET U],
         \A k \in 1..n : IsFiniteSet(sets[k])
  PROVE  InTurn(sets) \in Seq(U) /\ Arranges(InTurn(sets), sets)
<1>1. DOMAIN sets = 1..n
  OBVIOUS
<1>2. PICK all : all = UNION {sets[k] : k \in 1..n}
  OBVIOUS
<1>3. \A x : x \in all <=> \E k \in 1..n : x \in sets[k]
  BY <1>2
<1>4. PICK s : s = InTurn(sets)
  OBVIOUS
<1>5. ToSet(s) = all
  BY <1>2, <1>4, InTurnLists
<1>6. \A p, q \in DOMAIN s : p < q =>
        \E i, j \in 1..n : /\ s[p] \in sets[i]
                           /\ s[q] \in sets[j]
                           /\ \/ i < j
                              \/ i = j /\ s[p] # s[q]
  BY <1>4, InTurnLists
<1>7. s \in Seq(U)
  BY <1>4, InTurnLists
<1>8. Arranges(s, sets)
  BY <1>1, <1>3, <1>5, <1>6 DEF Arranges
<1> QED BY <1>4, <1>7, <1>8

\* What Where selects of a list, when T holds the values of the list that pass.
LEMMA Selected ==
  ASSUME NEW s, s \in Seq(ToSet(s)), NEW T, NEW r,
         r = FlattenSeq([i \in DOMAIN s |-> IF s[i] \in T THEN <<s[i]>> ELSE <<>>])
  PROVE  /\ r \in Seq(ToSet(s)) /\ ToSet(r) = ToSet(s) \cap T
         /\ r \in Seq(ToSet(r)) /\ DOMAIN r = 1..Len(r) /\ Len(r) \in Nat
<1> DEFINE U == ToSet(s)
<1>1. \A g : g = [i \in DOMAIN s |-> IF s[i] \in T THEN <<s[i]>> ELSE <<>>]
        => FlattenSeq(g) \in Seq(U) /\ ToSet(FlattenSeq(g)) = ToSet(s) \cap T
  <2>1. s \in Seq(U)
    OBVIOUS
  <2> HIDE DEF U
  <2> QED BY <2>1, Selection
<1>5. r \in Seq(U) /\ ToSet(r) = ToSet(s) \cap T
  BY <1>1
<1> HIDE DEF U
<1>6. DOMAIN r = 1..Len(r) /\ Len(r) \in Nat /\ r \in [1..Len(r) -> U]
  BY <1>5, LenProperties
<1>7. r \in [1..Len(r) -> ToSet(r)]
  BY <1>6, ToSetIs
<1>8. r \in Seq(ToSet(r))
  BY <1>6, <1>7, SegmentIsSeq
<1> QED BY <1>5, <1>6, <1>8 DEF U
-----------------------------------------------------------------------------
\* Counting the elements of a list that are in a set.

Hits(s, T) == {i \in DOMAIN s : s[i] \in T}

LEMMA HitsFinite ==
  ASSUME NEW U, NEW s \in Seq(U), NEW T
  PROVE  IsFiniteSet(Hits(s, T)) /\ Cardinality(Hits(s, T)) \in Nat
<1>1. DOMAIN s = 1..Len(s) /\ Len(s) \in Nat
  OBVIOUS
<1>2. IsFiniteSet(1..Len(s))
  BY <1>1, FS_Interval
<1>3. Hits(s, T) \in SUBSET (1..Len(s))
  BY <1>1 DEF Hits
<1> HIDE DEF Hits
<1>4. IsFiniteSet(Hits(s, T))
  BY <1>2, <1>3, FS_Subset
<1> QED BY <1>4, FS_CardinalityType

\* The hits in some sequences are at least as many as the sequences with one.
LEMMA FlatAtLeast ==
  ASSUME NEW U, NEW s \in Seq(Seq(U)), NEW E, NEW I \in SUBSET DOMAIN s,
         \A i \in I : \E a \in DOMAIN s[i] : s[i][a] \in E
  PROVE  Cardinality(I) <= Cardinality(Hits(FlattenSeq(s), E))
<1> DEFINE n == Len(s)
<1>1. n \in Nat /\ DOMAIN s = 1..n /\ \A i \in 1..n : s[i] \in Seq(U)
  OBVIOUS
<1>2. PICK f : Joins(f, s, U)
  BY FlattenSteps
<1>3. /\ f \in [0..n -> Seq(U)] /\ f[0] = <<>> /\ FlattenSeq(s) = f[n]
      /\ \A i \in 1..n : f[i] = f[i - 1] \o s[i]
  BY <1>2 DEF Joins
<1> HIDE DEF n
<1> DEFINE Some(k) == I \cap 1..k
           T == {k \in 0..n : Cardinality(Some(k)) <= Cardinality(Hits(f[k], E))}
<1>4. \A k \in 0..n : IsFiniteSet(Some(k)) /\ Cardinality(Some(k)) \in Nat
  <2> SUFFICES ASSUME NEW k \in 0..n
               PROVE  IsFiniteSet(Some(k)) /\ Cardinality(Some(k)) \in Nat
    OBVIOUS
  <2>1. IsFiniteSet(1..k) /\ Some(k) \in SUBSET (1..k)
    BY <1>1, FS_Interval
  <2>2. IsFiniteSet(Some(k))
    BY <2>1, FS_Subset
  <2> QED BY <2>2, FS_CardinalityType
<1>5. 0 \in T
  <2>1. Some(0) = {} /\ Hits(f[0], E) = {}
    BY <1>3 DEF Hits
  <2>2. Cardinality(Some(0)) = 0 /\ Cardinality(Hits(f[0], E)) = 0
    BY <2>1, FS_EmptySet
  <2> QED BY <2>2, <1>1
<1>6. ASSUME NEW k \in 0..(n - 1), k \in T PROVE k + 1 \in T
  <2>1. k + 1 \in 1..n /\ (k + 1) - 1 = k /\ k + 1 \in 0..n /\ k \in 0..n /\ k \in Nat
    BY <1>1
  <2> DEFINE u == f[k]
             v == s[k + 1]
             w == f[k + 1]
  <2>2. u \in Seq(U) /\ v \in Seq(U) /\ w = u \o v /\ w \in Seq(U)
    BY <2>1, <1>1, <1>3
  <2>3. /\ Len(u) \in Nat /\ DOMAIN u = 1..Len(u) /\ Len(v) \in Nat /\ DOMAIN v = 1..Len(v)
        /\ DOMAIN w = 1..(Len(u) + Len(v))
        /\ \A x \in 1..Len(u) : w[x] = u[x]
        /\ \A x \in 1..Len(v) : w[Len(u) + x] = v[x]
    <3> HIDE DEF u, v, w
    <3> QED BY <2>2
  <2>4. Cardinality(Some(k)) <= Cardinality(Hits(u, E))
    BY <1>6
  <2>5. /\ IsFiniteSet(Some(k)) /\ IsFiniteSet(Some(k + 1))
        /\ Cardinality(Some(k)) \in Nat
    BY <1>4, <2>1
  <2> HIDE DEF u, v, w
  <2>6. /\ IsFiniteSet(Hits(u, E)) /\ Cardinality(Hits(u, E)) \in Nat
        /\ IsFiniteSet(Hits(w, E)) /\ Cardinality(Hits(w, E)) \in Nat
    BY <2>2, HitsFinite
  <2>7. Hits(u, E) \subseteq Hits(w, E) /\ \A i \in Hits(u, E) : i \in 1..Len(u)
    BY <2>3 DEF Hits
  <2>8. CASE k + 1 \notin I
    <3>1. Some(k + 1) = Some(k)
      BY <2>1, <2>8
    <3>2. Cardinality(Hits(u, E)) <= Cardinality(Hits(w, E))
      BY <2>6, <2>7, FS_Subset
    <3> HIDE DEF Some
    <3>3. Cardinality(Some(k + 1)) <= Cardinality(Hits(w, E))
      BY <2>4, <2>5, <2>6, <3>1, <3>2
    <3> QED BY <3>3, <2>1 DEF w
  <2>9. CASE k + 1 \in I
    <3>1. Some(k + 1) = Some(k) \cup {k + 1} /\ k + 1 \notin Some(k)
      BY <2>1, <2>9
    <3>2. Cardinality(Some(k + 1)) = Cardinality(Some(k)) + 1
      <4> HIDE DEF Some
      <4> QED BY <3>1, <2>5, FS_AddElement
    <3>3. PICK a \in DOMAIN v : v[a] \in E
      BY <2>9 DEF v
    <3>4. /\ Len(u) + a \in Hits(w, E) /\ Len(u) + a \notin Hits(u, E)
      BY <3>3, <2>3, <2>7 DEF Hits
    <3>5. Cardinality(Hits(u, E) \cup {Len(u) + a}) = Cardinality(Hits(u, E)) + 1
      BY <3>4, <2>6, FS_AddElement
    <3>6. Hits(u, E) \cup {Len(u) + a} \in SUBSET Hits(w, E)
      BY <3>4, <2>7
    <3>7. Cardinality(Hits(u, E) \cup {Len(u) + a}) <= Cardinality(Hits(w, E))
      BY <3>6, <2>6, FS_Subset
    <3> HIDE DEF Some
    <3>8. Cardinality(Some(k + 1)) <= Cardinality(Hits(w, E))
      BY <2>4, <2>5, <2>6, <3>2, <3>5, <3>7
    <3> QED BY <3>8, <2>1 DEF w
  <2> QED BY <2>8, <2>9
<1>7. n \in T
  <2> HIDE DEF T
  <2>1. 0..n \subseteq T
    BY <1>1, <1>5, <1>6, UpTo
  <2> QED BY <2>1, <1>1
<1>8. Some(n) = I
  BY <1>1
<1> QED BY <1>3, <1>7, <1>8

\* Where keeps as many elements as pass the test.
LEMMA SelectedLength ==
  ASSUME NEW s, s \in Seq(ToSet(s)), NEW T, NEW r,
         r = FlattenSeq([i \in DOMAIN s |-> IF s[i] \in T THEN <<s[i]>> ELSE <<>>])
  PROVE  Len(r) = Cardinality(Hits(s, T))
<1> DEFINE U == ToSet(s)
           n == Len(s)
<1>1. n \in Nat /\ DOMAIN s = 1..n /\ \A i \in 1..n : s[i] \in U
  BY ToSetIs
<1>2. PICK g : g = [i \in DOMAIN s |-> IF s[i] \in T THEN <<s[i]>> ELSE <<>>]
  OBVIOUS
<1> HIDE DEF n, U
<1>3. /\ DOMAIN g = 1..n
      /\ \A i \in 1..n : g[i] \in Seq(U) /\ Len(g[i]) = IF s[i] \in T THEN 1 ELSE 0
  <2> SUFFICES ASSUME NEW i \in 1..n
               PROVE  g[i] \in Seq(U) /\ Len(g[i]) = IF s[i] \in T THEN 1 ELSE 0
    BY <1>1, <1>2
  <2>1. CASE s[i] \in T
    <3>1. g[i] = <<s[i]>> /\ s[i] \in U
      BY <1>1, <1>2, <2>1
    <3> QED BY <3>1, <2>1
  <2>2. CASE s[i] \notin T
    <3>1. g[i] = <<>>
      BY <1>1, <1>2, <2>2
    <3> QED BY <3>1, <2>2
  <2> QED BY <2>1, <2>2
<1>4. g \in Seq(Seq(U)) /\ Len(g) = n
  <2>1. g \in [1..n -> Seq(U)]
    BY <1>1, <1>2, <1>3
  <2> QED BY <2>1, <1>1, SegmentIsSeq
<1>5. PICK f : Joins(f, g, U)
  BY <1>4, FlattenSteps
<1>6. /\ f \in [0..n -> Seq(U)] /\ f[0] = <<>> /\ FlattenSeq(g) = f[n]
      /\ \A i \in 1..n : f[i] = f[i - 1] \o g[i]
  BY <1>4, <1>5 DEF Joins
<1> DEFINE Some(k) == {i \in 1..k : s[i] \in T}
           S == {k \in 0..n : IsFiniteSet(Some(k)) /\ Cardinality(Some(k)) = Len(f[k])}
<1>7. 0 \in S
  <2>1. Some(0) = {} /\ Len(f[0]) = 0
    BY <1>6
  <2> QED BY <2>1, <1>1, FS_EmptySet
<1>8. ASSUME NEW k \in 0..(n - 1), k \in S PROVE k + 1 \in S
  <2>1. k + 1 \in 1..n /\ (k + 1) - 1 = k /\ k + 1 \in 0..n /\ k \in 0..n /\ k \in Nat
    BY <1>1
  <2>2. f[k] \in Seq(U) /\ g[k + 1] \in Seq(U) /\ f[k + 1] = f[k] \o g[k + 1]
    BY <2>1, <1>3, <1>6
  <2>3. Len(f[k + 1]) = Len(f[k]) + IF s[k + 1] \in T THEN 1 ELSE 0
    <3>1. \A u, v \in Seq(U) : Len(u \o v) = Len(u) + Len(v)
      OBVIOUS
    <3>2. Len(f[k + 1]) = Len(f[k]) + Len(g[k + 1])
      BY <3>1, <2>2
    <3> QED BY <3>2, <2>1, <1>3
  <2>4. IsFiniteSet(Some(k)) /\ Cardinality(Some(k)) = Len(f[k]) /\ Len(f[k]) \in Nat
    BY <1>8, <2>2
  <2>5. CASE s[k + 1] \in T
    <3>1. Some(k + 1) = Some(k) \cup {k + 1} /\ k + 1 \notin Some(k)
      BY <2>1, <2>5
    <3> HIDE DEF Some
    <3>2. IsFiniteSet(Some(k + 1)) /\ Cardinality(Some(k + 1)) = Cardinality(Some(k)) + 1
      <4>1. PICK x, A : x = k + 1 /\ A = Some(k)
        OBVIOUS
      <4>2. IsFiniteSet(A \cup {x}) /\ Cardinality(A \cup {x}) = Cardinality(A) + 1
        BY <4>1, <3>1, <2>4, FS_AddElement
      <4> QED BY <4>1, <4>2, <3>1
    <3> QED BY <3>2, <2>1, <2>3, <2>4, <2>5
  <2>6. CASE s[k + 1] \notin T
    <3>1. Some(k + 1) = Some(k)
      BY <2>1, <2>6
    <3> HIDE DEF Some
    <3> QED BY <3>1, <2>1, <2>3, <2>4, <2>6
  <2> QED BY <2>5, <2>6
<1>9. n \in S
  <2> HIDE DEF S
  <2>1. 0..n \subseteq S
    BY <1>1, <1>7, <1>8, UpTo
  <2> QED BY <2>1, <1>1
<1>10. Hits(s, T) = Some(n)
  BY <1>1 DEF Hits
<1> QED BY <1>2, <1>6, <1>9, <1>10

\* A total of naturals is one, and the total of ones is their number.
LEMMA TotalNat ==
  ASSUME NEW s \in Seq(Nat)
  PROVE  /\ Total(s) \in Nat
         /\ (\A i \in 1..Len(s) : s[i] = 1) => Total(s) = Len(s)
<1>1. PICK f : Sums(f, s, Nat)
  BY TotalSteps
<1> DEFINE n == Len(s)
<1>2. /\ f \in [0..n -> Nat] /\ f[0] = 0 /\ Total(s) = f[n]
      /\ \A i \in 1..n : f[i] = f[i - 1] + s[i]
  BY <1>1 DEF Sums
<1>3. n \in Nat
  OBVIOUS
<1> HIDE DEF n
<1>4. ASSUME \A i \in 1..n : s[i] = 1 PROVE f[n] = n
  <2> DEFINE T == {k \in 0..n : f[k] = k}
  <2>1. 0 \in T
    BY <1>2, <1>3
  <2>2. ASSUME NEW k \in 0..(n - 1), k \in T PROVE k + 1 \in T
    <3>1. k + 1 \in 1..n /\ (k + 1) - 1 = k /\ k + 1 \in 0..n /\ f[k] = k
      BY <1>3, <2>2
    <3> QED BY <3>1, <1>2, <1>4
  <2> HIDE DEF T
  <2>3. 0..n \subseteq T
    BY <1>3, <2>1, <2>2, UpTo
  <2> QED BY <2>3, <1>3 DEF T
<1> QED BY <1>2, <1>3, <1>4 DEF n

LEMMA MinOfTwo ==
  ASSUME NEW a \in Nat, NEW b \in Nat
  PROVE  Min({a, b}) = IF a <= b THEN a ELSE b
BY DEF Min
\* A sequence of some values is one of its own values.
LEMMA SeqOwn ==
  ASSUME NEW U, NEW s \in Seq(U)
  PROVE  s \in Seq(ToSet(s)) /\ ToSet(s) \subseteq U
<1>1. DOMAIN s = 1..Len(s) /\ Len(s) \in Nat /\ s = [i \in 1..Len(s) |-> s[i]]
  OBVIOUS
<1>2. s \in [1..Len(s) -> ToSet(s)]
  BY <1>1, ToSetIs
<1>3. s \in Seq(ToSet(s))
  BY <1>1, <1>2, SegmentIsSeq
<1> QED BY <1>3, SeqFinite
\* A sum, against parts of a finite set, one for each position.  No number more
\* than its part, and no two parts with an element in common: the sum is no more
\* than the set.  No number less than its part, and every element in some part:
\* it is no less.
PartsUpTo(B, U, k) == {x \in U : \E i \in 1..k : x \in B[i]}

LEMMA PartsGrow ==
  ASSUME NEW U, IsFiniteSet(U), NEW n \in Nat, NEW B, NEW k \in 0..(n - 1),
         B[k + 1] \in SUBSET U
  PROVE  /\ PartsUpTo(B, U, k + 1) = PartsUpTo(B, U, k) \cup B[k + 1]
         /\ IsFiniteSet(PartsUpTo(B, U, k)) /\ IsFiniteSet(PartsUpTo(B, U, k + 1))
         /\ IsFiniteSet(B[k + 1])
         /\ Cardinality(PartsUpTo(B, U, k + 1)) \in Nat
         /\ Cardinality(PartsUpTo(B, U, k)) \in Nat /\ Cardinality(B[k + 1]) \in Nat
         /\ Cardinality(PartsUpTo(B, U, k + 1))
              <= Cardinality(PartsUpTo(B, U, k)) + Cardinality(B[k + 1])
         /\ PartsUpTo(B, U, k) \cap B[k + 1] = {} =>
              Cardinality(PartsUpTo(B, U, k + 1))
                = Cardinality(PartsUpTo(B, U, k)) + Cardinality(B[k + 1])
<1>1. PICK P, Q, C : P = PartsUpTo(B, U, k) /\ Q = PartsUpTo(B, U, k + 1) /\ C = B[k + 1]
  OBVIOUS
<1>2. Q = P \cup C
  <2>1. 1..(k + 1) = 1..k \cup {k + 1}
    OBVIOUS
  <2> QED BY <1>1, <2>1 DEF PartsUpTo
<1>3. P \in SUBSET U /\ Q \in SUBSET U /\ C \in SUBSET U
  BY <1>1 DEF PartsUpTo
<1>4. IsFiniteSet(P) /\ IsFiniteSet(Q) /\ IsFiniteSet(C)
  BY <1>3, FS_Subset
<1>5. Cardinality(P) \in Nat /\ Cardinality(Q) \in Nat /\ Cardinality(C) \in Nat
  BY <1>4, FS_CardinalityType
<1>6. Cardinality(Q) = Cardinality(P) + Cardinality(C) - Cardinality(P \cap C)
  BY <1>2, <1>4, FS_Union
<1>7. Cardinality(P \cap C) \in Nat
  <2>1. IsFiniteSet(P \cap C)
    BY <1>4, FS_Intersection
  <2> QED BY <2>1, FS_CardinalityType
<1>8. P \cap C = {} => Cardinality(P \cap C) = 0
  BY FS_EmptySet
<1> QED BY <1>1, <1>2, <1>4, <1>5, <1>6, <1>7, <1>8

LEMMA TotalWithin ==
  ASSUME NEW s \in Seq(Nat), NEW U, IsFiniteSet(U), NEW B,
         \A i \in 1..Len(s) : B[i] \in SUBSET U /\ s[i] <= Cardinality(B[i]),
         \A i, j \in 1..Len(s) : i # j => B[i] \cap B[j] = {}
  PROVE  Total(s) <= Cardinality(U)
<1>1. PICK f : Sums(f, s, Nat)
  BY TotalSteps
<1> DEFINE n == Len(s)
<1>2. /\ f \in [0..n -> Nat] /\ f[0] = 0 /\ Total(s) = f[n]
      /\ \A i \in 1..n : f[i] = f[i - 1] + s[i]
  BY <1>1 DEF Sums
<1>3. n \in Nat /\ \A i \in 1..n : s[i] \in Nat
  OBVIOUS
<1>4. \A i \in 1..n : B[i] \in SUBSET U /\ s[i] <= Cardinality(B[i])
  OBVIOUS
<1>5. \A i, j \in 1..n : i # j => B[i] \cap B[j] = {}
  OBVIOUS
<1> HIDE DEF n
<1> DEFINE T == {k \in 0..n : f[k] <= Cardinality(PartsUpTo(B, U, k))}
<1>6. 0 \in T
  <2>1. PartsUpTo(B, U, 0) = {}
    BY DEF PartsUpTo
  <2>2. Cardinality(PartsUpTo(B, U, 0)) = 0
    BY <2>1, FS_EmptySet
  <2> QED BY <1>2, <1>3, <2>2
<1>7. ASSUME NEW k \in 0..(n - 1), k \in T PROVE k + 1 \in T
  <2>1. k + 1 \in 1..n /\ (k + 1) - 1 = k /\ k + 1 \in 0..n /\ k \in 0..n /\ k \in Nat
    BY <1>3
  <2>2. f[k + 1] = f[k] + s[k + 1] /\ f[k] \in Nat /\ s[k + 1] \in Nat
    BY <1>2, <1>3, <2>1
  <2>3. f[k] <= Cardinality(PartsUpTo(B, U, k)) /\ s[k + 1] <= Cardinality(B[k + 1])
    BY <1>4, <1>7, <2>1
  <2>4. PartsUpTo(B, U, k) \cap B[k + 1] = {}
    <3>1. \A i \in 1..k : i \in 1..n /\ i # k + 1
      BY <1>3, <2>1
    <3> QED BY <1>5, <2>1, <3>1 DEF PartsUpTo
  <2>5. B[k + 1] \in SUBSET U
    BY <1>4, <2>1
  <2>6. PICK c, p, q : /\ c = Cardinality(B[k + 1])
                       /\ p = Cardinality(PartsUpTo(B, U, k))
                       /\ q = Cardinality(PartsUpTo(B, U, k + 1))
    OBVIOUS
  <2>7. q = p + c /\ p \in Nat /\ c \in Nat
    BY <1>3, <2>4, <2>5, <2>6, PartsGrow
  <2>8. f[k + 1] <= q
    BY <2>2, <2>3, <2>6, <2>7
  <2> QED BY <2>1, <2>6, <2>8
<1>8. n \in T
  <2> HIDE DEF T
  <2>1. 0..n \subseteq T
    BY <1>3, <1>6, <1>7, UpTo
  <2> QED BY <2>1, <1>3
<1>9. PartsUpTo(B, U, n) \in SUBSET U
  BY DEF PartsUpTo
<1>10. Cardinality(PartsUpTo(B, U, n)) <= Cardinality(U)
  BY <1>9, FS_Subset
<1>11. Cardinality(PartsUpTo(B, U, n)) \in Nat /\ Cardinality(U) \in Nat
  BY <1>9, FS_Subset, FS_CardinalityType
<1> QED BY <1>2, <1>3, <1>8, <1>10, <1>11

LEMMA TotalCovers ==
  ASSUME NEW s \in Seq(Nat), NEW U, IsFiniteSet(U), NEW B,
         \A i \in 1..Len(s) : B[i] \in SUBSET U /\ Cardinality(B[i]) <= s[i],
         \A x \in U : \E i \in 1..Len(s) : x \in B[i]
  PROVE  Cardinality(U) <= Total(s)
<1>1. PICK f : Sums(f, s, Nat)
  BY TotalSteps
<1> DEFINE n == Len(s)
<1>2. /\ f \in [0..n -> Nat] /\ f[0] = 0 /\ Total(s) = f[n]
      /\ \A i \in 1..n : f[i] = f[i - 1] + s[i]
  BY <1>1 DEF Sums
<1>3. n \in Nat /\ \A i \in 1..n : s[i] \in Nat
  OBVIOUS
<1>4. \A i \in 1..n : B[i] \in SUBSET U /\ Cardinality(B[i]) <= s[i]
  OBVIOUS
<1>5. PartsUpTo(B, U, n) = U
  BY DEF PartsUpTo
<1> HIDE DEF n
<1> DEFINE T == {k \in 0..n : Cardinality(PartsUpTo(B, U, k)) <= f[k]}
<1>6. 0 \in T
  <2>1. PartsUpTo(B, U, 0) = {}
    BY DEF PartsUpTo
  <2>2. Cardinality(PartsUpTo(B, U, 0)) = 0
    BY <2>1, FS_EmptySet
  <2> QED BY <1>2, <1>3, <2>2
<1>7. ASSUME NEW k \in 0..(n - 1), k \in T PROVE k + 1 \in T
  <2>1. k + 1 \in 1..n /\ (k + 1) - 1 = k /\ k + 1 \in 0..n /\ k \in 0..n /\ k \in Nat
    BY <1>3
  <2>2. f[k + 1] = f[k] + s[k + 1] /\ f[k] \in Nat /\ s[k + 1] \in Nat
    BY <1>2, <1>3, <2>1
  <2>3. Cardinality(PartsUpTo(B, U, k)) <= f[k] /\ Cardinality(B[k + 1]) <= s[k + 1]
    BY <1>4, <1>7, <2>1
  <2>4. B[k + 1] \in SUBSET U
    BY <1>4, <2>1
  <2>5. PICK c, p, q : /\ c = Cardinality(B[k + 1])
                       /\ p = Cardinality(PartsUpTo(B, U, k))
                       /\ q = Cardinality(PartsUpTo(B, U, k + 1))
    OBVIOUS
  <2>6. q <= p + c /\ p \in Nat /\ c \in Nat /\ q \in Nat
    BY <1>3, <2>4, <2>5, PartsGrow
  <2>7. q <= f[k + 1]
    BY <2>2, <2>3, <2>5, <2>6
  <2> QED BY <2>1, <2>5, <2>7
<1>8. n \in T
  <2> HIDE DEF T
  <2>1. 0..n \subseteq T
    BY <1>3, <1>6, <1>7, UpTo
  <2> QED BY <2>1, <1>3
<1> QED BY <1>2, <1>5, <1>8
=============================================================================
