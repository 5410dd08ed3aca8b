-------------------------- MODULE StationStats_proofs --------------------------
(***************************************************************************)
(* Proofs about the statistics, for any stations, kinds and numbers of        *)
(* observations.                                                           *)
(*                                                                         *)
(* The score is one of numbers (Raw): a few counts of the rows, each ratio of     *)
(* which is the count times the weight of one of so many observations.  What     *)
(* one more observation does to the counts (CountMore) and what the counts do     *)
(* to the score (RawEnds, RawQueues, RawFuel, RawNoFuel) are shown apart.  The    *)
(* costs of unknown and of known queues, each a product of ratios, are ratios     *)
(* of simple counts (Uncertainty, QueueTerm), so all terms move one way.  Only    *)
(* an observation without fuel may raise the sum, as it makes the share of those   *)
(* without service smaller, but then the sum is negative and the score 0.        *)
(***************************************************************************)
EXTENDS StationStats, FiniteSetTheorems, TLAPS

\* What one of n observations adds to a ratio; a ratio, 0 if there is none.
Weight(n) == Unit \div n
Share(a, n) == IF n = 0 THEN 0 ELSE a * Weight(n)

\* The score before it is clamped, from numbers of observations: n in all, f with
\* fuel, k of them with a known queue, q with a queue, b with a bad one, v with a
\* very bad one, u without service; s is the sum of the severities.
Raw(n, f, k, q, s, b, v, u) ==
  20 * Parts(Share(f, n))
    - (14 * (Share(q, k) * Share(s, k) * Share(k, f))
         + 4 * Parts(Share(b, k))
         + 3 * Parts(Share(v, k))
         + 4 * (MaxQueueSeverity * Unit * (Share(f, n) * (Unit - Share(k, f)))))
    - 6 * Parts(Share(u, n))

\* The numbers fit together.
Consistent(n, f, k, q, s, b, v, u) ==
  /\ n \in 1..MaxObservations /\ f \in 0..n /\ k \in 0..f /\ q \in 0..k /\ u \in 0..n
  /\ b \in 0..q /\ v \in 0..q /\ s \in Nat /\ q <= s /\ (q = 0 => s = 0)

\* The numbers of the rows of an hour, and its score before it is clamped.
Unavailable == {kind \in Kinds : kind.unavailable}
Severities(rows) ==
  Queues(rows, 1) + Queues(rows, 2) + Queues(rows, 3)
    + Queues(rows, 4) + Queues(rows, 5) + Queues(rows, 6)

RawOf(rows) ==
  Raw(CountIf(rows, Kinds), CountIf(rows, HasFuel), Queues(rows, 0), Queues(rows, 1),
      Severities(rows), Queues(rows, 3), Queues(rows, 5), CountIf(rows, Unavailable))

ConsistentRows(rows) ==
  Consistent(CountIf(rows, Kinds), CountIf(rows, HasFuel), Queues(rows, 0), Queues(rows, 1),
             Severities(rows), Queues(rows, 3), Queues(rows, 5), CountIf(rows, Unavailable))

\* The rows of an hour are within the bound.
Bounded(rows) ==
  /\ rows \in [Kinds -> Nat]
  /\ IsFiniteSet(Each(rows)) /\ Cardinality(Each(rows)) <= MaxObservations

\* The types of the statistics; the rows of the hour are within the bound.
IInv ==
  /\ registered \in SUBSET Stations /\ IsFiniteSet(registered)
  /\ observed \in [Groups -> [Kinds -> Nat]]
  /\ listed \in Seq(Stations)
  /\ IF listed = <<>> THEN asked = NULL ELSE asked \in Hours
  /\ IsFiniteSet(AllRows) /\ Cardinality(AllRows) <= MaxObservations

-----------------------------------------------------------------------------
(* Arithmetic *)

\* Products of natural numbers are monotone.
LEMMA TimesMonotone ==
  ASSUME NEW a \in Nat, NEW b \in Nat, NEW c \in Nat, NEW d \in Nat, a <= b, c <= d
  PROVE  a * c \in Nat /\ b * d \in Nat /\ a * c <= b * d
<1>1. a * c <= b * c
  BY SMT
<1>2. b * c <= b * d
  BY SMT
<1>3. a * c \in Nat /\ b * c \in Nat /\ b * d \in Nat
  BY SMT
<1> QED
  BY <1>1, <1>2, <1>3

\* A product is 0 only if a factor is.
LEMMA ZeroProduct ==
  ASSUME NEW a \in Nat, NEW b \in Nat, a * b = 0
  PROVE  a = 0 \/ b = 0
  BY SMT

\* A number that is a multiple of the divisor is divided without remainder.
LEMMA ExactDivision ==
  ASSUME NEW n \in Nat \ {0}, NEW m \in Nat
  PROVE  (m * n) \div n = m
  BY SMT

\* n observations weigh a Unit.
LEMMA WeightIs ==
  ASSUME NEW n \in 1..MaxObservations
  PROVE  Weight(n) \in Nat \ {0} /\ Weight(n) * n = Unit
<1>1. n \in Nat \ {0} /\ Unit \in Nat \ {0} /\ Unit % n = 0
  BY StatsAssumption
<1>2. Weight(n) \in Nat /\ Weight(n) * n = Unit
  BY <1>1 DEF Weight
<1>3. Weight(n) # 0
  BY <1>1, <1>2
<1> QED
  BY <1>2, <1>3

\* The ratios are exact.
LEMMA RatioIs ==
  ASSUME NEW a \in Nat, NEW n \in 0..MaxObservations
  PROVE  /\ Ratio(a, n) = IF n = 0 THEN NULL ELSE Share(a, n)
         /\ Share(a, n) \in Nat
         /\ SafeRatio(Ratio(a, n)) = Share(a, n)
<1>1. CASE n = 0
  BY <1>1 DEF Ratio, Share, SafeRatio
<1>2. CASE n # 0
  <2> DEFINE w == Weight(n)
  <2>1. n \in Nat \ {0} /\ w \in Nat /\ w * n = Unit
    BY <1>2, WeightIs, StatsAssumption
  <2> HIDE DEF w
  <2>2. a * w \in Nat
    BY <2>1
  <2>3. a * Unit = (a * w) * n
    BY <2>1
  <2>4. (a * Unit) \div n = a * w
    BY <2>1, <2>2, <2>3, ExactDivision
  <2>5. a * w # NULL
    BY <2>2 DEF NULL
  <2> QED
    BY <1>2, <2>2, <2>4, <2>5 DEF Ratio, Share, SafeRatio, w
<1> QED
  BY <1>1, <1>2

\* Among more observations each weighs less.
LEMMA WeightFalls ==
  ASSUME NEW n \in Nat, n + 1 \in 1..MaxObservations, n # 0
  PROVE  Weight(n + 1) <= Weight(n)
<1> DEFINE x == Weight(n)
           y == Weight(n + 1)
<1>1. x \in Nat /\ y \in Nat /\ x * n = Unit /\ y * (n + 1) = Unit /\ Unit \in Nat
  BY WeightIs, StatsAssumption
<1> HIDE DEF x, y
<1>2. y * n <= x * n
  BY <1>1
<1>3. y <= x
  BY <1>1, <1>2
<1> QED
  BY <1>3 DEF x, y

\* The share of a part that does not grow falls, the share of one that grows rises.
LEMMA ShareMoves ==
  ASSUME NEW a \in Nat, NEW n \in Nat, a <= n, n + 1 \in 1..MaxObservations
  PROVE  /\ Share(a, n + 1) <= Share(a, n)
         /\ Share(a, n) <= Share(a + 1, n + 1)
<1>1. CASE n = 0
  <2>1. Share(a, n + 1) = 0 /\ Share(a, n) = 0
    BY <1>1, WeightIs DEF Share
  <2>2. Share(a + 1, n + 1) \in Nat
    BY RatioIs
  <2> QED
    BY <2>1, <2>2
<1>2. CASE n # 0
  <2> DEFINE x == Weight(n)
             y == Weight(n + 1)
  <2>0. n \in 1..MaxObservations
    BY <1>2, StatsAssumption
  <2>1. x \in Nat /\ y \in Nat /\ x * n = Unit /\ y * (n + 1) = Unit /\ y <= x
    BY <1>2, <2>0, WeightIs, WeightFalls
  <2> HIDE DEF x, y
  <2>2. a * y <= a * x
    BY <2>1
  <2>3. x - y \in Nat /\ (x - y) * n = y
    BY <2>1
  <2>4. (x - y) * a <= (x - y) * n
    BY <2>3
  <2>5. a * x <= (a + 1) * y
    BY <2>1, <2>3, <2>4
  <2>6. n + 1 # 0
    OBVIOUS
  <2> QED
    BY <1>2, <2>2, <2>5, <2>6 DEF Share, x, y
<1> QED
  BY <1>1, <1>2

\* A share is a Unit if the part is the whole, and nothing if the part is.
LEMMA ShareEnds ==
  ASSUME NEW n \in 0..MaxObservations, NEW a \in 0..n
  PROVE  /\ Share(a, n) \in 0..Unit
         /\ Share(a, n) = Unit <=> a = n /\ n # 0
         /\ Share(a, n) = 0 <=> a = 0
<1>1. CASE n = 0
  BY <1>1, StatsAssumption DEF Share
<1>2. CASE n # 0
  <2> DEFINE w == Weight(n)
  <2>1. w \in Nat \ {0} /\ w * n = Unit
    BY <1>2, WeightIs
  <2> HIDE DEF w
  <2>2. a * w \in Nat /\ (a * w = 0 <=> a = 0)
    BY <2>1
  <2>3. a * w + (n - a) * w = Unit /\ (n - a) * w \in Nat /\ ((n - a) * w = 0 <=> n - a = 0)
    BY <2>1
  <2> QED
    BY <1>2, <2>2, <2>3 DEF Share, w
<1> QED
  BY <1>1, <1>2
-----------------------------------------------------------------------------
(* The score of numbers *)

\* The terms of the score, of which all but the first are taken off.
LEMMA Terms ==
  ASSUME NEW n, NEW f, NEW k, NEW q, NEW s, NEW b, NEW v, NEW u,
         Consistent(n, f, k, q, s, b, v, u)
  PROVE  /\ Share(f, n) \in 0..Unit /\ Share(k, f) \in 0..Unit /\ Share(u, n) \in 0..Unit
         /\ Share(q, k) \in 0..Unit /\ Share(b, k) \in 0..Unit /\ Share(v, k) \in 0..Unit
         /\ Share(s, k) \in Nat
         /\ Share(q, k) * Share(s, k) * Share(k, f) \in Nat
         /\ Share(f, n) * (Unit - Share(k, f)) \in Nat
<1>1. /\ n \in 0..MaxObservations /\ f \in 0..n /\ k \in 0..f /\ u \in 0..n
      /\ q \in 0..k /\ b \in 0..k /\ v \in 0..k /\ s \in Nat
      /\ f \in 0..MaxObservations /\ k \in 0..MaxObservations
  BY StatsAssumption DEF Consistent
<1>2. /\ Share(f, n) \in 0..Unit /\ Share(k, f) \in 0..Unit /\ Share(u, n) \in 0..Unit
      /\ Share(q, k) \in 0..Unit /\ Share(b, k) \in 0..Unit /\ Share(v, k) \in 0..Unit
  BY <1>1, ShareEnds
<1>3. Share(s, k) \in Nat
  BY <1>1, RatioIs
<1>4. ASSUME NEW x \in Nat, NEW y \in Nat, NEW z \in Nat
      PROVE  x * y * z \in Nat
  OBVIOUS
<1>5. ASSUME NEW x \in 0..Unit, NEW y \in 0..Unit
      PROVE  x * (Unit - y) \in Nat
  BY StatsAssumption
<1>6. Share(q, k) * Share(s, k) * Share(k, f) \in Nat
  <2>1. Share(q, k) \in Nat /\ Share(k, f) \in Nat
    BY <1>2, StatsAssumption
  <2> QED
    BY <1>3, <1>4, <2>1
<1>7. Share(f, n) * (Unit - Share(k, f)) \in Nat
  BY <1>2, <1>5
<1> QED
  BY <1>2, <1>3, <1>6, <1>7

\* Parts are multiples of one number, and monotone.
LEMMA PartsAre ==
  /\ \A a \in Nat : Parts(a) \in Nat
  /\ \A a, c \in Nat : a <= c <=> Parts(a) <= Parts(c)
  /\ Parts(0) = 0
  /\ One = 20 * Parts(Unit)
<1> DEFINE p == MaxQueueSeverity * Unit * Unit
<1>1. p \in Nat \ {0}
  BY StatsAssumption DEF MaxQueueSeverity
<1>2. One = 20 * (p * Unit)
  BY StatsAssumption DEF One, MaxQueueSeverity
<1>3. \A a : Parts(a) = p * a
  BY DEF Parts
<1> HIDE DEF p
<1>4. \A a \in Nat : p * a \in Nat
  BY <1>1
<1>5. ASSUME NEW a \in Nat, NEW c \in Nat
      PROVE  a <= c <=> p * a <= p * c
  BY <1>1
<1>6. p * 0 = 0
  BY <1>1
<1> QED
  BY <1>2, <1>3, <1>4, <1>5, <1>6

\* The score is at most 1, and 1 only if nothing is wrong; it is nothing without fuel.
LEMMA RawEnds ==
  ASSUME NEW n, NEW f, NEW k, NEW q, NEW s, NEW b, NEW v, NEW u,
         Consistent(n, f, k, q, s, b, v, u)
  PROVE  /\ Raw(n, f, k, q, s, b, v, u) \in Int
         /\ Raw(n, f, k, q, s, b, v, u) <= One
         /\ Raw(n, f, k, q, s, b, v, u) = One <=> f = n /\ k = f /\ q = 0 /\ u = 0
         /\ f = 0 => Raw(n, f, k, q, s, b, v, u) <= 0
<1> DEFINE F == Share(f, n)
           C == Share(k, f)
           U == Share(u, n)
           Q == Share(q, k)
           S == Share(s, k)
           T == Q * S * C
           X == F * (Unit - C)
           PF == Parts(F)
           PU == Parts(U)
           PB == Parts(Share(b, k))
           PV == Parts(Share(v, k))
           DX == MaxQueueSeverity * Unit * X
           raw == Raw(n, f, k, q, s, b, v, u)
<1>1. /\ F \in 0..Unit /\ C \in 0..Unit /\ U \in 0..Unit /\ Q \in 0..Unit /\ S \in Nat
      /\ T \in Nat /\ X \in Nat /\ Share(b, k) \in 0..Unit /\ Share(v, k) \in 0..Unit
  BY Terms
<1>2. /\ PF \in Nat /\ PU \in Nat /\ PB \in Nat /\ PV \in Nat
      /\ PF <= Parts(Unit) /\ Parts(Unit) \in Nat /\ One = 20 * Parts(Unit)
      /\ PF = Parts(Unit) <=> F = Unit
      /\ PF = 0 <=> F = 0
      /\ PU = 0 <=> U = 0
      /\ PB = 0 <=> Share(b, k) = 0
      /\ PV = 0 <=> Share(v, k) = 0
  <2> HIDE DEF F, U
  <2>1. /\ F \in Nat /\ U \in Nat /\ Share(b, k) \in Nat /\ Share(v, k) \in Nat
        /\ Unit \in Nat /\ F <= Unit
    BY <1>1, StatsAssumption
  <2>2. ASSUME NEW x \in Nat
        PROVE  Parts(x) = 0 <=> x = 0
    <3>1. Parts(x) \in Nat /\ Parts(0) = 0 /\ 0 \in Nat /\ (x <= 0 <=> Parts(x) <= Parts(0))
      BY PartsAre
    <3> QED
      BY <3>1
  <2>3. Parts(F) \in Nat /\ Parts(Unit) \in Nat
        /\ (F <= Unit <=> Parts(F) <= Parts(Unit))
        /\ (Unit <= F <=> Parts(Unit) <= Parts(F))
    BY <2>1, PartsAre
  <2>4. Parts(F) <= Parts(Unit) /\ (Parts(F) = Parts(Unit) <=> F = Unit)
    BY <2>1, <2>3
  <2> QED
    BY <2>1, <2>2, <2>3, <2>4, PartsAre
<1>3. DX \in Nat /\ (DX = 0 <=> X = 0)
  <2> HIDE DEF X
  <2>1. MaxQueueSeverity * Unit \in Nat \ {0}
    BY StatsAssumption DEF MaxQueueSeverity
  <2> QED
    BY <1>1, <2>1, ZeroProduct
<1>4. raw = 20 * PF - (14 * T + 4 * PB + 3 * PV + 4 * DX) - 6 * PU
  BY DEF Raw
<1>5. /\ n \in 0..MaxObservations /\ f \in 0..n /\ k \in 0..f /\ u \in 0..n
      /\ f \in 0..MaxObservations /\ k \in 0..MaxObservations
      /\ q \in 0..k /\ b \in 0..q /\ v \in 0..q /\ b \in 0..k /\ v \in 0..k
      /\ s \in Nat /\ q <= s /\ (q = 0 => s = 0) /\ n # 0
  BY StatsAssumption DEF Consistent
<1>6. /\ F = Unit <=> f = n
      /\ F = 0 <=> f = 0
      /\ C = Unit <=> k = f /\ f # 0
      /\ U = 0 <=> u = 0
      /\ Q = 0 <=> q = 0
      /\ Share(b, k) = 0 <=> b = 0
      /\ Share(v, k) = 0 <=> v = 0
  BY <1>5, ShareEnds
<1>7. s # 0 /\ k # 0 => S # 0
  <2>1. SUFFICES ASSUME s # 0, k # 0, s * Weight(k) = 0
                 PROVE  FALSE
    BY DEF Share
  <2>2. Weight(k) \in Nat \ {0}
    BY <1>5, <2>1, WeightIs
  <2> QED
    BY <1>5, <2>1, <2>2, ZeroProduct
<1>8. q = 0 => T = 0
  <2> HIDE DEF Q, S, C
  <2>1. Q = 0 => Q * S * C = 0
    BY <1>1, StatsAssumption
  <2> QED
    BY <1>6, <2>1
<1>9. T = 0 /\ C = Unit => q = 0
  <2>1. SUFFICES ASSUME Q * S * C = 0, C = Unit, q # 0
                 PROVE  FALSE
    OBVIOUS
  <2>2. k # 0 /\ s # 0
    BY <1>5, <2>1
  <2>3. Q # 0 /\ S # 0
    BY <1>6, <1>7, <2>1, <2>2
  <2> HIDE DEF Q, S, C
  <2>4. Q \in Nat /\ S \in Nat /\ C \in Nat \ {0}
    BY <1>1, <2>1, StatsAssumption
  <2>5. Q * S \in Nat /\ Q * S # 0
    BY <2>3, <2>4, ZeroProduct
  <2> QED
    BY <2>1, <2>4, <2>5, ZeroProduct
<1>10. C = Unit => X = 0
  <2> HIDE DEF F, C
  <2> QED
    BY <1>1, StatsAssumption
<1>11. F # 0 /\ X = 0 => C = Unit
  <2> HIDE DEF F, C
  <2>1. SUFFICES ASSUME F # 0, F * (Unit - C) = 0
                 PROVE  C = Unit
    OBVIOUS
  <2>2. F \in Nat /\ Unit - C \in Nat /\ C \in Int /\ Unit \in Int
    BY <1>1, StatsAssumption
  <2> QED
    BY <2>1, <2>2, ZeroProduct
<1> HIDE DEF F, C, U, Q, S, T, X, PF, PU, PB, PV, DX, raw
<1>12. raw \in Int /\ raw <= One
  BY <1>1, <1>2, <1>3, <1>4
<1>13. f = 0 => raw <= 0
  BY <1>1, <1>2, <1>3, <1>4, <1>6
<1>14. raw = One => f = n /\ k = f /\ q = 0 /\ u = 0
  <2> SUFFICES ASSUME raw = One
               PROVE  f = n /\ k = f /\ q = 0 /\ u = 0
    OBVIOUS
  <2>1. PF = Parts(Unit) /\ T = 0 /\ DX = 0 /\ PU = 0
    BY <1>1, <1>2, <1>3, <1>4
  <2>2. F = Unit /\ X = 0 /\ U = 0 /\ Unit # 0
    BY <1>2, <1>3, <2>1, StatsAssumption
  <2>3. C = Unit
    BY <1>11, <2>2
  <2> QED
    BY <1>6, <1>9, <2>1, <2>2, <2>3
<1>15. f = n /\ k = f /\ q = 0 /\ u = 0 => raw = One
  <2> SUFFICES ASSUME f = n, k = f, q = 0, u = 0
               PROVE  raw = One
    OBVIOUS
  <2>1. b = 0 /\ v = 0
    BY <1>5
  <2>2. PF = Parts(Unit) /\ T = 0 /\ PU = 0 /\ PB = 0 /\ PV = 0
    BY <1>2, <1>6, <1>8, <2>1
  <2>3. DX = 0
    BY <1>3, <1>5, <1>6, <1>10
  <2> QED
    BY <1>2, <1>4, <2>2, <2>3
<1> QED
  BY <1>12, <1>13, <1>14, <1>15 DEF raw

\* Longer queues never raise the score.
LEMMA RawQueues ==
  ASSUME NEW n, NEW f, NEW k, NEW u, NEW q, NEW s, NEW b, NEW v, NEW q2, NEW s2, NEW b2, NEW v2,
         Consistent(n, f, k, q, s, b, v, u), Consistent(n, f, k, q2, s2, b2, v2, u),
         q <= q2, s <= s2, b <= b2, v <= v2
  PROVE  Raw(n, f, k, q2, s2, b2, v2, u) <= Raw(n, f, k, q, s, b, v, u)
<1>1. ASSUME NEW x \in Nat, NEW y \in Nat, x <= y
      PROVE  Share(x, k) \in Nat /\ Share(y, k) \in Nat /\ Share(x, k) <= Share(y, k)
  <2>1. k \in 0..MaxObservations /\ k \in Nat
    BY StatsAssumption DEF Consistent
  <2>2. Share(x, k) \in Nat /\ Share(y, k) \in Nat
    BY <2>1, RatioIs
  <2>3. CASE k = 0
    BY <2>2, <2>3 DEF Share
  <2>4. CASE k # 0
    <3>1. Weight(k) \in Nat
      BY <2>1, <2>4, WeightIs
    <3>2. x * Weight(k) <= y * Weight(k)
      BY <1>1, <3>1, TimesMonotone
    <3> QED
      BY <2>2, <2>4, <3>2 DEF Share
  <2> QED
    BY <2>3, <2>4
<1>2. /\ q \in Nat /\ s \in Nat /\ b \in Nat /\ v \in Nat
      /\ q2 \in Nat /\ s2 \in Nat /\ b2 \in Nat /\ v2 \in Nat
  BY StatsAssumption DEF Consistent
<1> DEFINE C == Share(k, f)
           T == Share(q, k) * Share(s, k) * C
           T2 == Share(q2, k) * Share(s2, k) * C
           A == 20 * Parts(Share(f, n))
           B == 4 * (MaxQueueSeverity * Unit * (Share(f, n) * (Unit - C)))
           D == 6 * Parts(Share(u, n))
<1>3. T \in Nat /\ T2 \in Nat /\ T <= T2
  <2>1. C \in Nat
    BY Terms, StatsAssumption
  <2>2. /\ Share(q, k) \in Nat /\ Share(q2, k) \in Nat /\ Share(q, k) <= Share(q2, k)
        /\ Share(s, k) \in Nat /\ Share(s2, k) \in Nat /\ Share(s, k) <= Share(s2, k)
    BY <1>1, <1>2
  <2>3. /\ Share(q, k) * Share(s, k) \in Nat /\ Share(q2, k) * Share(s2, k) \in Nat
        /\ Share(q, k) * Share(s, k) <= Share(q2, k) * Share(s2, k)
    BY <2>2, TimesMonotone
  <2> HIDE DEF C
  <2> QED
    BY <2>1, <2>3, TimesMonotone
<1>4. ASSUME NEW x \in Nat, NEW y \in Nat, x <= y
      PROVE  Parts(Share(x, k)) \in Nat /\ Parts(Share(y, k)) \in Nat
             /\ Parts(Share(x, k)) <= Parts(Share(y, k))
  BY <1>1, <1>4, PartsAre
<1>5. /\ Parts(Share(b, k)) \in Nat /\ Parts(Share(b2, k)) \in Nat
      /\ Parts(Share(b, k)) <= Parts(Share(b2, k))
      /\ Parts(Share(v, k)) \in Nat /\ Parts(Share(v2, k)) \in Nat
      /\ Parts(Share(v, k)) <= Parts(Share(v2, k))
  BY <1>2, <1>4
<1>6. A \in Int /\ B \in Int /\ D \in Int
  <2>1. /\ Share(f, n) \in Nat /\ Share(u, n) \in Nat
        /\ Share(f, n) * (Unit - C) \in Nat /\ MaxQueueSeverity * Unit \in Nat
    BY Terms, StatsAssumption DEF MaxQueueSeverity
  <2>2. Parts(Share(f, n)) \in Nat /\ Parts(Share(u, n)) \in Nat
    BY <2>1, PartsAre
  <2>3. ASSUME NEW x \in Nat, NEW y \in Nat
        PROVE  4 * (x * y) \in Int
    OBVIOUS
  <2> QED
    BY <2>1, <2>2, <2>3
<1>7. /\ Raw(n, f, k, q, s, b, v, u)
           = A - (14 * T + 4 * Parts(Share(b, k)) + 3 * Parts(Share(v, k)) + B) - D
      /\ Raw(n, f, k, q2, s2, b2, v2, u)
           = A - (14 * T2 + 4 * Parts(Share(b2, k)) + 3 * Parts(Share(v2, k)) + B) - D
  BY DEF Raw
<1> HIDE DEF C, T, T2, A, B, D
<1> QED
  BY <1>3, <1>5, <1>6, <1>7

\* What the unknown queues cost does not depend on how many queues are known beside
\* the number of those that are not.
LEMMA Uncertainty ==
  ASSUME NEW n \in 1..MaxObservations, NEW f \in 0..n, NEW k \in 0..f
  PROVE  Share(f, n) * (Unit - Share(k, f)) = Unit * Share(f - k, n)
<1> DEFINE w == Weight(n)
<1>1. w \in Nat /\ Unit \in Nat /\ n # 0 /\ n \in Nat /\ f \in Nat /\ k \in Nat /\ f - k \in Nat
  BY WeightIs, StatsAssumption
<1>2. Share(f, n) = f * w /\ Share(f - k, n) = (f - k) * w
  BY <1>1 DEF Share
<1>3. f * (Unit - Share(k, f)) = Unit * (f - k)
  <2>1. CASE f = 0
    <3>1. k = 0 /\ Share(k, f) = 0
      BY <1>1, <2>1 DEF Share
    <3> QED
      BY <1>1, <2>1, <3>1
  <2>2. CASE f # 0
    <3> DEFINE x == Weight(f)
    <3>1. f \in 1..MaxObservations
      BY <1>1, <2>2, StatsAssumption
    <3>2. x \in Nat /\ x * f = Unit /\ Share(k, f) = k * x
      BY <2>2, <3>1, WeightIs DEF Share
    <3> HIDE DEF x
    <3>3. f * (Unit - k * x) = f * Unit - k * (x * f)
      BY <1>1, <3>2
    <3>4. f * Unit - k * Unit = Unit * (f - k)
      BY <1>1
    <3> QED
      BY <3>2, <3>3, <3>4
  <2> QED
    BY <2>1, <2>2
<1>4. Unit - Share(k, f) \in Int
  BY <1>1, RatioIs, StatsAssumption
<1> HIDE DEF w
<1>5. ASSUME NEW c \in Int, f * c = Unit * (f - k)
      PROVE  (f * w) * c = Unit * ((f - k) * w)
  <2>1. (f * w) * c = (f * c) * w
    BY <1>1
  <2>2. (Unit * (f - k)) * w = Unit * ((f - k) * w)
    BY <1>1
  <2> QED
    BY <1>5, <2>1, <2>2
<1> QED
  BY <1>2, <1>3, <1>4, <1>5

\* The score with the cost of the unknown queues as a ratio of its own.
LEMMA RawIs ==
  ASSUME NEW n, NEW f, NEW k, NEW q, NEW s, NEW b, NEW v, NEW u,
         Consistent(n, f, k, q, s, b, v, u)
  PROVE  /\ f \in Nat /\ k \in Nat /\ u \in Nat /\ f - k \in Nat
         /\ Share(f, n) \in Nat /\ Share(f - k, n) \in Nat /\ Share(u, n) \in Nat
         /\ Parts(Share(f, n)) \in Nat /\ Parts(Share(f - k, n)) \in Nat
         /\ Parts(Share(u, n)) \in Nat
         /\ Parts(Share(b, k)) \in Nat /\ Parts(Share(v, k)) \in Nat
         /\ Share(q, k) * Share(s, k) * Share(k, f) \in Nat
         /\ Raw(n, f, k, q, s, b, v, u)
              = 20 * Parts(Share(f, n)) - 4 * Parts(Share(f - k, n)) - 6 * Parts(Share(u, n))
                  - (14 * (Share(q, k) * Share(s, k) * Share(k, f))
                       + 4 * Parts(Share(b, k)) + 3 * Parts(Share(v, k)))
<1>1. /\ n \in 1..MaxObservations /\ n \in 0..MaxObservations
      /\ f \in 0..n /\ k \in 0..f /\ f - k \in 0..n /\ f \in Nat /\ k \in Nat /\ u \in Nat
      /\ f - k \in Nat /\ Unit \in Nat
  BY StatsAssumption DEF Consistent
<1>2. /\ Share(f, n) \in Nat /\ Share(f - k, n) \in Nat /\ Share(u, n) \in Nat
      /\ Share(b, k) \in Nat /\ Share(v, k) \in Nat
  <2>1. Share(f, n) \in Nat /\ Share(f - k, n) \in Nat /\ Share(u, n) \in Nat
    BY <1>1, RatioIs
  <2>2. Share(b, k) \in 0..Unit /\ Share(v, k) \in 0..Unit
    BY Terms
  <2> QED
    BY <1>1, <2>1, <2>2
<1>3. /\ Parts(Share(f, n)) \in Nat /\ Parts(Share(f - k, n)) \in Nat
      /\ Parts(Share(u, n)) \in Nat
      /\ Parts(Share(b, k)) \in Nat /\ Parts(Share(v, k)) \in Nat
  BY <1>2, PartsAre
<1> DEFINE T == Share(q, k) * Share(s, k) * Share(k, f)
           X == Share(f, n) * (Unit - Share(k, f))
<1>4. T \in Nat
  BY Terms
<1>5. MaxQueueSeverity * Unit * X = Parts(Share(f - k, n))
  <2>1. X = Unit * Share(f - k, n)
    BY <1>1, Uncertainty
  <2>2. ASSUME NEW x \in Nat
        PROVE  MaxQueueSeverity * Unit * (Unit * x) = Parts(x)
    BY <1>1 DEF Parts, MaxQueueSeverity
  <2> QED
    BY <1>2, <2>1, <2>2
<1>6. Raw(n, f, k, q, s, b, v, u)
        = 20 * Parts(Share(f, n))
            - (14 * T + 4 * Parts(Share(b, k)) + 3 * Parts(Share(v, k))
                 + 4 * (MaxQueueSeverity * Unit * X))
            - 6 * Parts(Share(u, n))
  BY DEF Raw
<1> HIDE DEF T, X
<1>7. Raw(n, f, k, q, s, b, v, u)
        = 20 * Parts(Share(f, n)) - 4 * Parts(Share(f - k, n)) - 6 * Parts(Share(u, n))
            - (14 * T + 4 * Parts(Share(b, k)) + 3 * Parts(Share(v, k)))
  BY <1>3, <1>4, <1>5, <1>6
<1> QED
  BY <1>1, <1>2, <1>3, <1>4, <1>7 DEF T

\* What the known queues cost is in relation to all fuel.
LEMMA QueueTerm ==
  ASSUME NEW f \in 1..MaxObservations, NEW k \in 1..f, NEW q \in Nat, NEW s \in Nat
  PROVE  /\ Share(q, k) \in Nat /\ Unit * Share(s, f) \in Nat
         /\ Share(q, k) * Share(s, k) * Share(k, f) = Share(q, k) * (Unit * Share(s, f))
<1> DEFINE x == Weight(k)
           y == Weight(f)
<1>1. k \in 1..MaxObservations /\ f \in 0..MaxObservations /\ k \in 0..MaxObservations
  BY StatsAssumption
<1>2. x \in Nat /\ y \in Nat /\ x * k = Unit /\ k \in Nat /\ f # 0 /\ k # 0 /\ Unit \in Nat
  BY <1>1, WeightIs, StatsAssumption
<1>3. Share(s, k) = s * x /\ Share(k, f) = k * y /\ Share(s, f) = s * y
  BY <1>2 DEF Share
<1>4. Share(q, k) \in Nat /\ Share(s, f) \in Nat
  BY <1>1, RatioIs
<1> HIDE DEF x, y
<1>5. (s * x) * (k * y) = Unit * (s * y)
  <2>1. (s * x) * (k * y) = (x * k) * (s * y)
    BY <1>2
  <2> QED
    BY <1>2, <2>1
<1>6. ASSUME NEW z \in Nat
      PROVE  z * (s * x) * (k * y) = z * (Unit * (s * y))
  <2>1. z * (s * x) * (k * y) = z * ((s * x) * (k * y))
    BY <1>2
  <2> QED
    BY <1>5, <2>1
<1> QED
  BY <1>2, <1>3, <1>4, <1>6

\* One more observation of fuel without a queue does not lower the score.
LEMMA RawFuel ==
  ASSUME NEW n, NEW f, NEW k, NEW q, NEW s, NEW b, NEW v, NEW u,
         Consistent(n, f, k, q, s, b, v, u),
         Consistent(n + 1, f + 1, k + 1, q, s, b, v, u)
  PROVE  Raw(n, f, k, q, s, b, v, u) <= Raw(n + 1, f + 1, k + 1, q, s, b, v, u)
<1> DEFINE T == Share(q, k) * Share(s, k) * Share(k, f)
           T2 == Share(q, k + 1) * Share(s, k + 1) * Share(k + 1, f + 1)
<1>1. /\ n \in Nat /\ f \in Nat /\ k \in Nat /\ q \in Nat /\ s \in Nat
      /\ b \in Nat /\ v \in Nat /\ u \in Nat /\ f - k \in Nat
      /\ f <= n /\ k <= f /\ q <= k /\ b <= k /\ v <= k /\ u <= n /\ f - k <= n
      /\ n + 1 \in 1..MaxObservations /\ f + 1 \in 1..MaxObservations
      /\ k + 1 \in 1..MaxObservations /\ k + 1 \in 1..(f + 1)
      /\ (f + 1) - (k + 1) = f - k
      /\ q = 0 => s = 0
  BY StatsAssumption DEF Consistent
<1>2. /\ Share(f, n) <= Share(f + 1, n + 1)
      /\ Share(f - k, n + 1) <= Share(f - k, n)
      /\ Share(u, n + 1) <= Share(u, n)
      /\ Share(b, k + 1) <= Share(b, k)
      /\ Share(v, k + 1) <= Share(v, k)
      /\ Share(q, k + 1) <= Share(q, k)
  BY <1>1, ShareMoves
<1>3. T \in Nat /\ T2 \in Nat
  BY RawIs
<1>4. T2 <= T
  <2>1. CASE k = 0
    <3>1. q = 0 /\ s = 0
      BY <1>1, <2>1
    <3>2. Share(q, k + 1) = 0 /\ Share(s, k + 1) \in Nat /\ Share(k + 1, f + 1) \in Nat
      BY <1>1, <3>1, WeightIs, RatioIs DEF Share
    <3>3. ASSUME NEW x \in Nat, NEW y \in Nat
          PROVE  0 * x * y = 0
      OBVIOUS
    <3>4. T2 = 0
      BY <3>2, <3>3
    <3> QED
      BY <1>3, <3>4
  <2>2. CASE k # 0
    <3>1. /\ f \in 1..MaxObservations /\ k \in 1..f /\ f # 0
      BY <1>1, <2>2, StatsAssumption
    <3>2. /\ Share(q, k) \in Nat /\ Unit * Share(s, f) \in Nat
          /\ T = Share(q, k) * (Unit * Share(s, f))
          /\ Share(q, k + 1) \in Nat /\ Unit * Share(s, f + 1) \in Nat
          /\ T2 = Share(q, k + 1) * (Unit * Share(s, f + 1))
      BY <1>1, <3>1, QueueTerm
    <3>3. Share(s, f + 1) <= Share(s, f) /\ Share(s, f + 1) \in Nat /\ Share(s, f) \in Nat
      <4>1. Weight(f + 1) <= Weight(f) /\ Weight(f + 1) \in Nat /\ Weight(f) \in Nat
        BY <1>1, <3>1, WeightFalls, WeightIs
      <4>2. s * Weight(f + 1) <= s * Weight(f)
        BY <1>1, <4>1, TimesMonotone
      <4>3. f + 1 # 0 /\ s * Weight(f + 1) \in Nat /\ s * Weight(f) \in Nat
        BY <1>1, <4>1
      <4> QED
        BY <3>1, <4>2, <4>3 DEF Share
    <3>4. Unit * Share(s, f + 1) <= Unit * Share(s, f)
      BY <3>3, TimesMonotone, StatsAssumption
    <3> HIDE DEF T, T2
    <3> QED
      BY <1>2, <3>2, <3>4, TimesMonotone
  <2> QED
    BY <2>1, <2>2
<1>5. /\ Parts(Share(f, n)) <= Parts(Share(f + 1, n + 1))
      /\ Parts(Share(f - k, n + 1)) <= Parts(Share(f - k, n))
      /\ Parts(Share(u, n + 1)) <= Parts(Share(u, n))
      /\ Parts(Share(b, k + 1)) <= Parts(Share(b, k))
      /\ Parts(Share(v, k + 1)) <= Parts(Share(v, k))
  <2>1. /\ Share(f, n) \in Nat /\ Share(f - k, n) \in Nat /\ Share(u, n) \in Nat
        /\ Share(b, k) \in Nat /\ Share(v, k) \in Nat
        /\ Share(f + 1, n + 1) \in Nat /\ Share(f - k, n + 1) \in Nat
        /\ Share(u, n + 1) \in Nat /\ Share(b, k + 1) \in Nat /\ Share(v, k + 1) \in Nat
    <3>1. n \in 0..MaxObservations /\ n + 1 \in 0..MaxObservations
          /\ k \in 0..MaxObservations /\ k + 1 \in 0..MaxObservations /\ f + 1 \in Nat
      BY <1>1, StatsAssumption
    <3> QED
      BY <1>1, <3>1, RatioIs
  <2> QED
    BY <1>2, <2>1, PartsAre
<1>6. /\ Parts(Share(f, n)) \in Nat /\ Parts(Share(f - k, n)) \in Nat
      /\ Parts(Share(u, n)) \in Nat /\ Parts(Share(b, k)) \in Nat /\ Parts(Share(v, k)) \in Nat
      /\ Raw(n, f, k, q, s, b, v, u)
           = 20 * Parts(Share(f, n)) - 4 * Parts(Share(f - k, n)) - 6 * Parts(Share(u, n))
               - (14 * T + 4 * Parts(Share(b, k)) + 3 * Parts(Share(v, k)))
  BY RawIs
<1>7. /\ Parts(Share(f + 1, n + 1)) \in Nat /\ Parts(Share(f - k, n + 1)) \in Nat
      /\ Parts(Share(u, n + 1)) \in Nat
      /\ Parts(Share(b, k + 1)) \in Nat /\ Parts(Share(v, k + 1)) \in Nat
      /\ Raw(n + 1, f + 1, k + 1, q, s, b, v, u)
           = 20 * Parts(Share(f + 1, n + 1)) - 4 * Parts(Share(f - k, n + 1))
               - 6 * Parts(Share(u, n + 1))
               - (14 * T2 + 4 * Parts(Share(b, k + 1)) + 3 * Parts(Share(v, k + 1)))
  <2> HIDE DEF T2
  <2>1. (f + 1) - (k + 1) = f - k
    BY <1>1
  <2> QED
    BY <2>1, RawIs DEF T2
<1> HIDE DEF T, T2
<1> QED
  BY <1>3, <1>4, <1>5, <1>6, <1>7

\* One more observation without fuel, and perhaps without service, does not raise a
\* score that is not negative, nor one that is above 0.
LEMMA RawNoFuel ==
  ASSUME NEW n, NEW f, NEW k, NEW q, NEW s, NEW b, NEW v, NEW u, NEW u2,
         Consistent(n, f, k, q, s, b, v, u), Consistent(n + 1, f, k, q, s, b, v, u2), u <= u2
  PROVE  \/ Raw(n + 1, f, k, q, s, b, v, u2) <= Raw(n, f, k, q, s, b, v, u)
         \/ Raw(n + 1, f, k, q, s, b, v, u2) <= 0
<1> DEFINE x == Weight(n)
           y == Weight(n + 1)
           p == MaxQueueSeverity * Unit * Unit
           g == 20 * f - 4 * (f - k) - 6 * u
           g2 == 20 * f - 4 * (f - k) - 6 * u2
           R == 14 * (Share(q, k) * Share(s, k) * Share(k, f))
                  + 4 * Parts(Share(b, k)) + 3 * Parts(Share(v, k))
<1>1. /\ n \in Nat /\ n # 0 /\ f \in Nat /\ k \in Nat /\ u \in Nat /\ u2 \in Nat /\ f - k \in Nat
      /\ n \in 1..MaxObservations /\ n + 1 \in 1..MaxObservations /\ n + 1 # 0
  BY StatsAssumption DEF Consistent
<1>2. x \in Nat /\ y \in Nat /\ y <= x
  BY <1>1, WeightIs, WeightFalls
<1>3. p \in Nat
  BY StatsAssumption DEF MaxQueueSeverity
<1>4. R \in Nat
  <2>1. ASSUME NEW a \in Nat, NEW c \in Nat, NEW d \in Nat
        PROVE  14 * a + 4 * c + 3 * d \in Nat
    OBVIOUS
  <2>2. /\ Share(q, k) * Share(s, k) * Share(k, f) \in Nat
        /\ Parts(Share(b, k)) \in Nat /\ Parts(Share(v, k)) \in Nat
    BY RawIs
  <2> QED
    BY <2>1, <2>2
<1>5. g \in Int /\ g2 \in Int /\ g2 <= g
  BY <1>1
<1>6. ASSUME NEW a \in Nat
      PROVE  Parts(Share(a, n)) = p * (a * x) /\ Parts(Share(a, n + 1)) = p * (a * y)
  BY <1>1 DEF Parts, Share
<1>7. /\ Raw(n, f, k, q, s, b, v, u)
           = 20 * (p * (f * x)) - 4 * (p * ((f - k) * x)) - 6 * (p * (u * x)) - R
      /\ Raw(n + 1, f, k, q, s, b, v, u2)
           = 20 * (p * (f * y)) - 4 * (p * ((f - k) * y)) - 6 * (p * (u2 * y)) - R
  BY <1>1, <1>6, RawIs
<1> HIDE DEF x, y, p, R
<1>8. ASSUME NEW w \in Nat, NEW z \in Nat
      PROVE  20 * (p * (f * w)) - 4 * (p * ((f - k) * w)) - 6 * (p * (z * w))
               = (p * w) * (20 * f - 4 * (f - k) - 6 * z)
  <2>1. p * (f * w) = (p * w) * f /\ p * ((f - k) * w) = (p * w) * (f - k)
        /\ p * (z * w) = (p * w) * z /\ p * w \in Nat
    BY <1>1, <1>3
  <2>2. ASSUME NEW h \in Nat
        PROVE  20 * (h * f) - 4 * (h * (f - k)) - 6 * (h * z)
                 = h * (20 * f - 4 * (f - k) - 6 * z)
    BY <1>1
  <2> QED
    BY <2>1, <2>2
<1>9. /\ Raw(n, f, k, q, s, b, v, u) = (p * x) * g - R
      /\ Raw(n + 1, f, k, q, s, b, v, u2) = (p * y) * g2 - R
  BY <1>1, <1>2, <1>7, <1>8
<1> HIDE DEF g, g2
<1>10. p * x \in Nat /\ p * y \in Nat /\ p * y <= p * x
  BY <1>2, <1>3, TimesMonotone
<1>11. (p * y) * g2 <= (p * y) * g
  BY <1>5, <1>10
<1>12. CASE 0 <= g
  <2>1. (p * y) * g <= (p * x) * g
    BY <1>5, <1>10, <1>12
  <2>2. (p * y) * g2 \in Int /\ (p * y) * g \in Int /\ (p * x) * g \in Int
    BY <1>5, <1>10
  <2> QED
    BY <1>4, <1>9, <1>11, <2>1, <2>2
<1>13. CASE g < 0
  <2>1. (p * y) * g <= 0
    BY <1>5, <1>10, <1>13
  <2>2. (p * y) * g2 \in Int /\ (p * y) * g \in Int
    BY <1>5, <1>10
  <2> QED
    BY <1>4, <1>9, <1>11, <2>1, <2>2
<1> QED
  BY <1>5, <1>12, <1>13

\* Clamping keeps the order and the ends.
LEMMA Clamped ==
  /\ \A r \in Int : ClampScore(r) \in 0..One
  /\ \A r \in Int : r <= One => (ClampScore(r) = One <=> r = One)
  /\ \A r \in Int : r <= 0 => ClampScore(r) = 0
  /\ \A r, t \in Int : r <= t \/ r <= 0 => ClampScore(r) <= ClampScore(t)
<1>1. One \in Nat \ {0}
  BY StatsAssumption DEF One, MaxQueueSeverity
<1> QED
  BY <1>1 DEF ClampScore, AtMost
-----------------------------------------------------------------------------
(* The counts *)

\* A row is the pair of its kind and its number.
LEMMA EachIs ==
  ASSUME NEW rows \in [Kinds -> Nat]
  PROVE  /\ \A kind \in Kinds : \A i \in 1..rows[kind] : <<kind, i>> \in Each(rows)
         /\ \A row \in Each(rows) :
              row = <<row[1], row[2]>> /\ row[1] \in Kinds /\ row[2] \in 1..rows[row[1]]
<1>1. \A kind \in Kinds : \A i \in 1..rows[kind] : <<kind, i>> \in Each(rows)
  BY DEF Each
<1>2. ASSUME NEW row \in Each(rows)
      PROVE  row = <<row[1], row[2]>> /\ row[1] \in Kinds /\ row[2] \in 1..rows[row[1]]
  <2>1. PICK kind \in Kinds : row \in {kind} \X (1..rows[kind])
    BY DEF Each
  <2> QED
    BY <2>1
<1> QED
  BY <1>1, <1>2

\* The counts are numbers of observations; of more kinds there are more.
LEMMA CountNumbers ==
  ASSUME NEW rows, Bounded(rows), NEW K, NEW L, K \cap Kinds \subseteq L
  PROVE  /\ CountIf(rows, K) \in 0..MaxObservations
         /\ CountIf(rows, K) <= CountIf(rows, L)
<1> DEFINE E == Each(rows)
           A == {row \in E : row[1] \in K}
           B == {row \in E : row[1] \in L}
<1>1. IsFiniteSet(E) /\ Cardinality(E) \in Nat /\ Cardinality(E) <= MaxObservations
  BY FS_CardinalityType DEF Bounded
<1>2. A \subseteq B
  BY EachIs DEF Bounded
<1> HIDE DEF E
<1>3. /\ IsFiniteSet(A) /\ Cardinality(A) <= Cardinality(E)
      /\ IsFiniteSet(B) /\ Cardinality(B) <= Cardinality(E)
  <2>1. A \in SUBSET E /\ B \in SUBSET E
    OBVIOUS
  <2> HIDE DEF A, B
  <2> QED
    BY <1>1, <2>1, FS_Subset
<1> HIDE DEF A, B
<1>4. Cardinality(A) \in Nat /\ Cardinality(A) <= Cardinality(B)
  BY <1>2, <1>3, FS_Subset, FS_CardinalityType
<1> QED
  BY <1>1, <1>3, <1>4, StatsAssumption DEF CountIf, A, B, E

\* Two counts are the same only if the rows are.
LEMMA CountSame ==
  ASSUME NEW rows, Bounded(rows), NEW K, NEW L, K \subseteq L, L \subseteq Kinds
  PROVE  CountIf(rows, K) = CountIf(rows, L) <=> \A kind \in L : rows[kind] > 0 => kind \in K
<1> DEFINE E == Each(rows)
           A == {row \in E : row[1] \in K}
           B == {row \in E : row[1] \in L}
<1>1. IsFiniteSet(E) /\ rows \in [Kinds -> Nat]
  BY DEF Bounded
<1>2. A \subseteq B /\ B \in SUBSET E
  OBVIOUS
<1>3. ASSUME \A kind \in L : rows[kind] > 0 => kind \in K
      PROVE  A = B
  <2>1. ASSUME NEW row \in E, row[1] \in L
        PROVE  row[1] \in K
    <3>1. row[1] \in Kinds /\ row[2] \in 1..rows[row[1]] /\ rows[row[1]] \in Nat
      BY <1>1, EachIs
    <3> QED
      BY <1>3, <2>1, <3>1
  <2> QED
    BY <2>1
<1>4. ASSUME A = B, NEW kind \in L, rows[kind] > 0
      PROVE  kind \in K
  <2>1. <<kind, 1>> \in E
    <3>1. kind \in Kinds /\ rows[kind] \in Nat
      BY <1>1
    <3>2. 1 \in 1..rows[kind]
      BY <1>4, <3>1
    <3> QED
      BY <1>1, <3>1, <3>2, EachIs
  <2>2. <<kind, 1>>[1] \in L
    OBVIOUS
  <2>3. <<kind, 1>> \in A
    BY <1>4, <2>1, <2>2
  <2> QED
    BY <2>3
<1>5. IsFiniteSet(B) /\ (Cardinality(A) = Cardinality(B) => A = B)
  <2> HIDE DEF A, B, E
  <2>1. IsFiniteSet(B)
    BY <1>1, <1>2, FS_Subset
  <2> QED
    BY <1>2, <2>1, FS_Subset
<1>6. CountIf(rows, K) = Cardinality(A) /\ CountIf(rows, L) = Cardinality(B)
  BY DEF CountIf
<1> HIDE DEF A, B
<1> QED
  BY <1>3, <1>4, <1>5, <1>6

\* Nothing is counted only if there is nothing.
LEMMA CountNone ==
  ASSUME NEW rows, Bounded(rows), NEW L, L \subseteq Kinds
  PROVE  CountIf(rows, L) = 0 <=> \A kind \in L : rows[kind] = 0
<1>1. CountIf(rows, {}) = 0
  <2>1. {row \in Each(rows) : row[1] \in {}} = {}
    OBVIOUS
  <2> QED
    BY <2>1, FS_EmptySet DEF CountIf
<1>2. CountIf(rows, {}) = CountIf(rows, L) <=> \A kind \in L : rows[kind] > 0 => kind \in {}
  BY CountSame
<1>3. \A kind \in L : rows[kind] \in Nat
  BY DEF Bounded
<1> QED
  BY <1>1, <1>2, <1>3

\* One more row of a kind counts once among its kinds.
LEMMA CountMore ==
  ASSUME NEW rows \in [Kinds -> Nat], IsFiniteSet(Each(rows)), NEW kind \in Kinds,
         NEW more \in [Kinds -> Nat], more[kind] = rows[kind] + 1,
         \A other \in Kinds : other # kind => more[other] = rows[other],
         NEW K
  PROVE  /\ Each(more) = Each(rows) \cup {<<kind, rows[kind] + 1>>}
         /\ IsFiniteSet(Each(more))
         /\ Cardinality(Each(more)) = Cardinality(Each(rows)) + 1
         /\ CountIf(rows, K) \in Nat
         /\ CountIf(more, K) = CountIf(rows, K) + (IF kind \in K THEN 1 ELSE 0)
<1> DEFINE new == <<kind, rows[kind] + 1>>
<1>1. more \in [Kinds -> Nat] /\ more[kind] = rows[kind] + 1 /\ rows[kind] \in Nat
      /\ \A other \in Kinds : other # kind => more[other] = rows[other]
  OBVIOUS
<1>2. Each(more) = Each(rows) \cup {new}
  <2>1. ASSUME NEW row \in Each(more)
        PROVE  row \in Each(rows) \cup {new}
    <3>1. row = <<row[1], row[2]>> /\ row[1] \in Kinds /\ row[2] \in 1..more[row[1]]
      BY <1>1, EachIs
    <3>2. CASE row[1] = kind /\ row[2] = rows[kind] + 1
      BY <3>1, <3>2
    <3>3. CASE ~(row[1] = kind /\ row[2] = rows[kind] + 1)
      <4>1. row[2] \in 1..rows[row[1]]
        BY <1>1, <3>1, <3>3
      <4>2. <<row[1], row[2]>> \in Each(rows)
        BY <3>1, <4>1, EachIs
      <4> QED
        BY <3>1, <4>2
    <3> QED
      BY <3>2, <3>3
  <2>2. ASSUME NEW row \in Each(rows)
        PROVE  row \in Each(more)
    <3>1. row = <<row[1], row[2]>> /\ row[1] \in Kinds /\ row[2] \in 1..rows[row[1]]
      BY EachIs
    <3>2. row[2] \in 1..more[row[1]]
      BY <1>1, <3>1
    <3>3. <<row[1], row[2]>> \in Each(more)
      BY <1>1, <3>1, <3>2, EachIs
    <3> QED
      BY <3>1, <3>3
  <2>3. new \in Each(more)
    <3>1. rows[kind] + 1 \in 1..more[kind]
      BY <1>1
    <3> QED
      BY <1>1, <3>1, EachIs
  <2> QED
    BY <2>1, <2>2, <2>3
<1>3. new \notin Each(rows)
  <2> SUFFICES ASSUME new \in Each(rows)
               PROVE  FALSE
    OBVIOUS
  <2>1. new[1] = kind /\ new[2] = rows[kind] + 1 /\ new[2] \in 1..rows[new[1]]
    BY EachIs
  <2> QED
    BY <1>1, <2>1
<1>4. /\ IsFiniteSet(Each(more))
      /\ Cardinality(Each(more)) = Cardinality(Each(rows)) + 1
  <2> HIDE DEF new
  <2>1. /\ IsFiniteSet(Each(rows) \cup {new})
        /\ Cardinality(Each(rows) \cup {new}) = Cardinality(Each(rows)) + 1
    BY <1>3, FS_AddElement
  <2> QED
    BY <1>2, <2>1
<1>5. /\ CountIf(rows, K) \in Nat
      /\ CountIf(more, K) = CountIf(rows, K) + (IF kind \in K THEN 1 ELSE 0)
  <2> DEFINE A == {row \in Each(rows) : row[1] \in K}
             B == {row \in Each(more) : row[1] \in K}
  <2>1. IsFiniteSet(A) /\ Cardinality(A) \in Nat
    <3>1. A \in SUBSET Each(rows)
      OBVIOUS
    <3> HIDE DEF A
    <3> QED
      BY <3>1, FS_Subset, FS_CardinalityType
  <2>2. new[1] = kind /\ new \notin A
    BY <1>3
  <2>3. CASE kind \in K
    <3>1. B = A \cup {new}
      BY <1>2, <2>2, <2>3
    <3> HIDE DEF A, B, new
    <3>2. Cardinality(B) = Cardinality(A) + 1
      BY <2>1, <2>2, <3>1, FS_AddElement
    <3> QED
      BY <2>1, <2>3, <3>2 DEF CountIf, A, B
  <2>4. CASE kind \notin K
    <3>1. B = A
      BY <1>2, <2>2, <2>4
    <3> HIDE DEF A, B, new
    <3>2. Cardinality(B) = Cardinality(A) + 0
      BY <2>1, <3>1
    <3> QED
      BY <2>1, <2>4, <3>2 DEF CountIf, A, B
  <2> QED
    BY <2>3, <2>4
<1> QED
  BY <1>1, <1>2, <1>4, <1>5

-----------------------------------------------------------------------------
(* The score of rows *)

\* The numbers of an hour fit together, as soon as there is one observation.
LEMMA NumbersFit ==
  ASSUME NEW rows, Bounded(rows), CountIf(rows, Kinds) # 0
  PROVE  ConsistentRows(rows)
<1>1. /\ Queued(0) \subseteq HasFuel /\ HasFuel \subseteq Kinds /\ Unavailable \subseteq Kinds
      /\ Queued(1) \subseteq Queued(0)
  BY StatsAssumption DEF Queued, HasFuel, Unavailable, Observation, NULL
<1>2. \A i \in 2..6 : Queued(i) \subseteq Queued(1)
  BY StatsAssumption DEF Queued, HasFuel, Observation, NULL
<1>3. /\ CountIf(rows, HasFuel) <= CountIf(rows, Kinds)
      /\ CountIf(rows, Unavailable) <= CountIf(rows, Kinds)
      /\ Queues(rows, 0) <= CountIf(rows, HasFuel)
      /\ Queues(rows, 1) <= Queues(rows, 0)
      /\ \A i \in 2..6 : Queues(rows, i) <= Queues(rows, 1)
  BY <1>1, <1>2, CountNumbers DEF Queues
<1>4. /\ CountIf(rows, Kinds) \in 0..MaxObservations
      /\ CountIf(rows, HasFuel) \in 0..MaxObservations
      /\ CountIf(rows, Unavailable) \in 0..MaxObservations
      /\ \A i \in 0..6 : Queues(rows, i) \in 0..MaxObservations
  BY CountNumbers DEF Queues
<1> QED
  BY <1>3, <1>4, StatsAssumption DEF ConsistentRows, Consistent, Severities

\* The score of an hour is that of its numbers.
LEMMA ScoreIs ==
  ASSUME NEW rows, Bounded(rows)
  PROVE  /\ CountIf(rows, Kinds) = 0 => ScoreOf(rows).score = NULL
         /\ CountIf(rows, Kinds) # 0 =>
              ScoreOf(rows).score = ClampScore(RawOf(rows)) /\ RawOf(rows) \in Int
         /\ ScoreOf(rows).confidence
              = 7 * AtMost(CountIf(rows, Kinds), FullSample) * Unit
                  + 3 * FullSample * Share(Queues(rows, 0), CountIf(rows, HasFuel))
<1> DEFINE n == CountIf(rows, Kinds)
           f == CountIf(rows, HasFuel)
           k == Queues(rows, 0)
           q == Queues(rows, 1)
           s == Severities(rows)
           b == Queues(rows, 3)
           v == Queues(rows, 5)
           u == CountIf(rows, Unavailable)
           stats == HourlyStats(rows)
           raw == 20 * Parts(stats.fuel_available_ratio)
                    - CalculateTotalQueuePenalty(stats) - CalculateServicePenalty(stats)
<1>1. /\ n \in 0..MaxObservations /\ f \in 0..MaxObservations /\ k \in 0..MaxObservations
      /\ n \in Nat /\ f \in Nat /\ k \in Nat /\ q \in Nat /\ s \in Nat
      /\ b \in Nat /\ v \in Nat /\ u \in Nat
  <2>1. \A i \in 0..6 : Queues(rows, i) \in 0..MaxObservations
    BY CountNumbers DEF Queues
  <2>2. \A i \in 0..6 : Queues(rows, i) \in Nat
    BY <2>1, StatsAssumption
  <2>3. n \in 0..MaxObservations /\ f \in 0..MaxObservations /\ u \in 0..MaxObservations
    BY CountNumbers
  <2> QED
    BY <2>1, <2>2, <2>3, StatsAssumption DEF Severities
<1>2. /\ stats.observations_count = n
      /\ stats.fuel_available_ratio = Ratio(f, n)
      /\ stats.queue_data_coverage_when_fuel = Ratio(k, f)
      /\ stats.queue_probability_when_known = Ratio(q, k)
      /\ stats.bad_queue_probability_when_known = Ratio(b, k)
      /\ stats.very_bad_queue_probability_when_known = Ratio(v, k)
      /\ stats.avg_queue_severity_when_fuel = Ratio(s, k)
      /\ stats.service_unavailable_ratio = Ratio(u, n)
  BY DEF HourlyStats, QueueProbability, Severities, Unavailable
<1> HIDE DEF n, f, k, q, s, b, v, u, stats
<1>3. /\ Ratio(f, n) = IF n = 0 THEN NULL ELSE Share(f, n)
      /\ SafeRatio(Ratio(u, n)) = Share(u, n)
      /\ SafeRatio(Ratio(k, f)) = Share(k, f)
      /\ SafeRatio(Ratio(b, k)) = Share(b, k)
      /\ SafeRatio(Ratio(v, k)) = Share(v, k)
      /\ Ratio(q, k) = IF k = 0 THEN NULL ELSE Share(q, k)
      /\ Ratio(s, k) = IF k = 0 THEN NULL ELSE Share(s, k)
      /\ Share(f, n) \in Nat /\ Share(q, k) \in Nat /\ Share(s, k) \in Nat /\ Share(k, f) \in Nat
  BY <1>1, RatioIs
<1>4. CalculateQueuePenalty(stats) = Share(q, k) * Share(s, k) * Share(k, f)
  <2>1. CASE k = 0
    <3>1. Share(q, k) = 0 /\ Share(s, k) = 0 /\ 0 * 0 * Share(k, f) = 0
      BY <1>3, <2>1 DEF Share
    <3> QED
      BY <1>2, <1>3, <2>1, <3>1 DEF CalculateQueuePenalty
  <2>2. CASE k # 0
    <3>1. Share(q, k) # NULL /\ Share(s, k) # NULL
      BY <1>3 DEF NULL
    <3> QED
      BY <1>2, <1>3, <2>2, <3>1 DEF CalculateQueuePenalty
  <2> QED
    BY <2>1, <2>2
<1>5. ScoreOf(rows).confidence = 7 * AtMost(n, FullSample) * Unit + 3 * FullSample * Share(k, f)
  BY <1>2, <1>3 DEF ScoreOf, CalcScore, CalculateConfidence, stats
<1>6. n = 0 => ScoreOf(rows).score = NULL
  BY <1>2 DEF ScoreOf, CalcScore, stats
<1>7. ASSUME n # 0
      PROVE  ScoreOf(rows).score = ClampScore(RawOf(rows)) /\ RawOf(rows) \in Int
  <2>1. stats.fuel_available_ratio = Share(f, n) /\ Share(f, n) # NULL
    BY <1>2, <1>3, <1>7 DEF NULL
  <2>2. ScoreOf(rows).score = ClampScore(raw)
    BY <1>2, <1>7, <2>1 DEF ScoreOf, CalcScore, stats
  <2>3. CalculateQueueUncertaintyPenalty(stats)
          = MaxQueueSeverity * Unit * (Share(f, n) * (Unit - Share(k, f)))
    BY <1>2, <1>3, <2>1 DEF CalculateQueueUncertaintyPenalty
  <2>4. raw = Raw(n, f, k, q, s, b, v, u)
    BY <1>2, <1>3, <1>4, <2>1, <2>3
       DEF Raw, CalculateTotalQueuePenalty, CalculateServicePenalty
  <2>5. Raw(n, f, k, q, s, b, v, u) = RawOf(rows)
    BY DEF RawOf, n, f, k, q, s, b, v, u
  <2>6. RawOf(rows) \in Int
    BY <1>7, NumbersFit, RawEnds DEF RawOf, ConsistentRows, n
  <2> QED
    BY <2>2, <2>4, <2>5, <2>6
<1> QED
  BY <1>5, <1>6, <1>7 DEF n, f, k
-----------------------------------------------------------------------------
(* The states *)

\* The rows of a group are some of all rows.
LEMMA GroupBounded ==
  ASSUME IInv, NEW group \in Groups
  PROVE  Bounded(observed[group])
<1> DEFINE E == Each(observed[group])
           f == [row \in E |-> <<group, row>>]
<1>1. f \in Injection(E, AllRows)
  <2>1. \A row \in E : <<group, row>> \in AllRows
    BY DEF AllRows
  <2>2. f \in [E -> AllRows]
    BY <2>1
  <2>3. ASSUME NEW x \in E, NEW y \in E, f[x] = f[y]
        PROVE  x = y
    BY <2>3
  <2> QED
    BY <2>2, <2>3 DEF Injection, IsInjective
<1>2. IsFiniteSet(E) /\ Cardinality(E) <= Cardinality(AllRows)
  <2> HIDE DEF E, f
  <2> QED
    BY <1>1, FS_Injection DEF IInv
<1>3. Cardinality(E) \in Nat /\ Cardinality(AllRows) \in Nat
  BY <1>2, FS_CardinalityType DEF IInv
<1>4. observed[group] \in [Kinds -> Nat] /\ Cardinality(AllRows) <= MaxObservations
  BY DEF IInv
<1> QED
  BY <1>2, <1>3, <1>4, StatsAssumption DEF Bounded

\* And so they are after a step.
LEMMA GroupBoundedNext == IInv' => (\A group \in Groups : Bounded(observed[group]))'
<1>1. IInv => \A group \in Groups : Bounded(observed[group])
  BY GroupBounded
<1> QED
  BY <1>1, PTL

\* An observation is one more row.
LEMMA ObserveIs ==
  ASSUME IInv, NEW group \in Groups, NEW kind \in Kinds, Observe(group, kind)
  PROVE  /\ observed' \in [Groups -> [Kinds -> Nat]]
         /\ observed'[group] = [observed[group] EXCEPT ![kind] = @ + 1]
         /\ \A other \in Groups : other # group => observed'[other] = observed[other]
         /\ AllRows' = AllRows \cup {<<group, <<kind, observed[group][kind] + 1>>>>}
<1> DEFINE more == [observed[group] EXCEPT ![kind] = @ + 1]
           new == <<kind, observed[group][kind] + 1>>
<1>1. observed \in [Groups -> [Kinds -> Nat]] /\ observed' = [observed EXCEPT ![group] = more]
  BY DEF IInv, Observe
<1>2. Bounded(observed[group])
  BY GroupBounded
<1>3. more \in [Kinds -> Nat] /\ Each(more) = Each(observed[group]) \cup {new}
  <2>1. observed[group] \in [Kinds -> Nat] /\ IsFiniteSet(Each(observed[group]))
    BY <1>2 DEF Bounded
  <2>2. /\ more \in [Kinds -> Nat] /\ more[kind] = observed[group][kind] + 1
        /\ \A other \in Kinds : other # kind => more[other] = observed[group][other]
    BY <2>1
  <2> HIDE DEF more
  <2> QED
    BY <2>1, <2>2, CountMore
<1>4. /\ observed' \in [Groups -> [Kinds -> Nat]] /\ observed'[group] = more
      /\ \A other \in Groups : other # group => observed'[other] = observed[other]
  <2> HIDE DEF more
  <2> QED
    BY <1>1, <1>3
<1>5. AllRows' = UNION {{id} \X Each(observed'[id]) : id \in Groups}
  BY DEF AllRows
<1> HIDE DEF more, new
<1>6. ASSUME NEW row \in AllRows'
      PROVE  row \in AllRows \cup {<<group, new>>}
  <2>1. PICK id \in Groups : row \in {id} \X Each(observed'[id])
    BY <1>5
  <2>2. CASE id = group
    <3>1. row \in {group} \X (Each(observed[group]) \cup {new})
      BY <1>3, <1>4, <2>1, <2>2
    <3>2. row \in {group} \X Each(observed[group]) \/ row = <<group, new>>
      BY <3>1
    <3> QED
      BY <3>2 DEF AllRows
  <2>3. CASE id # group
    BY <1>4, <2>1, <2>3 DEF AllRows
  <2> QED
    BY <2>2, <2>3
<1>7. ASSUME NEW row \in AllRows
      PROVE  row \in AllRows'
  <2>1. PICK id \in Groups : row \in {id} \X Each(observed[id])
    BY DEF AllRows
  <2>2. row \in {id} \X Each(observed'[id])
    BY <1>3, <1>4, <2>1
  <2> QED
    BY <1>5, <2>2
<1>8. <<group, new>> \in AllRows'
  BY <1>3, <1>4, <1>5
<1>9. AllRows' = AllRows \cup {<<group, new>>}
  BY <1>6, <1>7, <1>8
<1> QED
  BY <1>4, <1>9 DEF more, new

LEMMA InitInv == Init => IInv
<1> SUFFICES ASSUME Init
             PROVE  IInv
  OBVIOUS
<1>1. /\ registered = {} /\ listed = <<>> /\ asked = NULL
      /\ observed = [group \in Groups |-> NoRows] /\ NoRows \in [Kinds -> Nat]
  BY DEF Init, NoRows
<1>2. \A group \in Groups : Each(observed[group]) = {}
  BY <1>1 DEF Each, NoRows
<1>3. AllRows = {}
  BY <1>2 DEF AllRows
<1> QED
  BY <1>1, <1>3, FS_EmptySet, StatsAssumption DEF IInv

LEMMA NextInv == IInv /\ [Next]_vars => IInv'
<1> SUFFICES ASSUME IInv, [Next]_vars
             PROVE  IInv'
  OBVIOUS
<1>1. ASSUME UNCHANGED observed
      PROVE  AllRows' = AllRows
  BY <1>1 DEF AllRows
<1>2. ASSUME NEW station \in Stations, Register(station)
      PROVE  IInv'
  <2>1. registered' = registered \cup {station} /\ UNCHANGED <<observed, listed, asked>>
    BY <1>2 DEF Register
  <2>2. registered' \in SUBSET Stations /\ IsFiniteSet(registered')
    BY <2>1, FS_AddElement DEF IInv
  <2> QED
    BY <1>1, <2>1, <2>2 DEF IInv
<1>3. ASSUME NEW group \in Groups, NEW kind \in Kinds, Observe(group, kind),
             Cardinality(AllRows) < MaxObservations
      PROVE  IInv'
  <2>1. UNCHANGED <<registered, listed, asked>>
    BY <1>3 DEF Observe
  <2> DEFINE new == <<group, <<kind, observed[group][kind] + 1>>>>
  <2>2. observed' \in [Groups -> [Kinds -> Nat]] /\ AllRows' = AllRows \cup {new}
    BY <1>3, ObserveIs
  <2> HIDE DEF new
  <2>3. /\ IsFiniteSet(AllRows \cup {new})
        /\ Cardinality(AllRows \cup {new})
             = IF new \in AllRows THEN Cardinality(AllRows) ELSE Cardinality(AllRows) + 1
    BY FS_AddElement DEF IInv
  <2>4. Cardinality(AllRows) \in Nat
    BY FS_CardinalityType DEF IInv
  <2>5. Cardinality(AllRows \cup {new}) <= MaxObservations
    BY <1>3, <2>3, <2>4, StatsAssumption
  <2> QED
    BY <2>1, <2>2, <2>3, <2>5 DEF IInv
<1>4. CASE ListStations
  <2>1. /\ listed' \in Ascending(registered) /\ asked' \in Hours
        /\ registered # {} /\ UNCHANGED <<registered, observed>>
    BY <1>4 DEF ListStations
  <2>2. Cardinality(registered) \in Nat /\ Cardinality(registered) # 0
    BY <2>1, FS_CardinalityType, FS_EmptySet DEF IInv
  <2>3. listed' \in [1..Cardinality(registered) -> Stations]
    BY <2>1 DEF Ascending, IInv
  <2>4. listed' \in Seq(Stations) /\ listed' # <<>>
    BY <2>2, <2>3
  <2> QED
    BY <1>1, <2>1, <2>4 DEF IInv
<1>5. CASE ShowStations
  BY <1>1, <1>5 DEF ShowStations, IInv
<1>6. CASE UNCHANGED vars
  BY <1>1, <1>6 DEF vars, IInv
<1> QED
  BY <1>2, <1>3, <1>4, <1>5, <1>6 DEF Next

\* The types, and the bound on the rows.
THEOREM TypeCorrect == Spec => []IInv
  BY InitInv, NextInv, PTL DEF Spec
-----------------------------------------------------------------------------
(* The properties *)

\* What FuelState says of the kinds with fuel.
LEMMA FuelIs ==
  ASSUME NEW kind \in Kinds
  PROVE  /\ kind \in HasFuel <=> FuelState(kind) = "has_fuel"
         /\ kind \in HasFuel => kind \notin Unavailable
         /\ \A i \in 0..6 : kind \in Queued(i) <=> kind \in HasFuel /\ kind.severity >= i
         /\ kind.severity \in Int
         /\ kind.severity = NULL \/ kind.severity >= 0
  BY StatsAssumption DEF HasFuel, Unavailable, Queued, FuelState, Observation, NULL

\* The confidence is full if the sample is and all queues are known.
LEMMA ConfidenceEnds ==
  ASSUME NEW rows, Bounded(rows)
  PROVE  /\ ScoreOf(rows).confidence \in 0..Full
         /\ ScoreOf(rows).confidence = Full
              <=> /\ CountIf(rows, Kinds) >= FullSample
                  /\ Queues(rows, 0) = CountIf(rows, HasFuel) /\ CountIf(rows, HasFuel) # 0
<1> DEFINE n == CountIf(rows, Kinds)
           f == CountIf(rows, HasFuel)
           k == Queues(rows, 0)
           m == AtMost(n, FullSample)
           C == Share(k, f)
<1>1. n \in 0..MaxObservations /\ f \in 0..MaxObservations /\ k \in 0..f
  <2>1. Queued(0) \subseteq HasFuel
    BY DEF Queued
  <2> QED
    BY <2>1, CountNumbers DEF Queues
<1>2. C \in 0..Unit /\ (C = Unit <=> k = f /\ f # 0)
  <2> HIDE DEF k, f
  <2> QED
    BY <1>1, ShareEnds
<1>3. ScoreOf(rows).confidence = 7 * m * Unit + 3 * FullSample * C
  BY ScoreIs
<1> HIDE DEF n, f, k, C
<1>4. /\ m \in Nat /\ m <= FullSample /\ (m = FullSample <=> n >= FullSample)
      /\ C \in Nat /\ C <= Unit /\ Unit \in Nat \ {0} /\ FullSample \in Nat \ {0}
  <2>1. n \in Nat
    BY <1>1, StatsAssumption
  <2> QED
    BY <1>2, <2>1, StatsAssumption DEF AtMost
<1> HIDE DEF m
<1>5. /\ 7 * m * Unit = 7 * (m * Unit) /\ 3 * FullSample * C = 3 * (FullSample * C)
      /\ Full = 10 * (FullSample * Unit)
      /\ m * Unit \in Nat /\ FullSample * C \in Nat /\ FullSample * Unit \in Nat
  BY <1>4 DEF Full
<1>6. m * Unit <= FullSample * Unit /\ FullSample * C <= FullSample * Unit
  BY <1>4, TimesMonotone
<1>7. m * Unit = FullSample * Unit <=> m = FullSample
  BY <1>4
<1>8. FullSample * C = FullSample * Unit <=> C = Unit
  BY <1>4
<1>9. /\ ScoreOf(rows).confidence \in 0..Full
      /\ ScoreOf(rows).confidence = Full <=> n >= FullSample /\ C = Unit
  BY <1>3, <1>4, <1>5, <1>6, <1>7, <1>8
<1> QED
  BY <1>2, <1>9 DEF n, f, k

\* The ends of the score and of the confidence, for the rows of an hour.
LEMMA Calibrated ==
  ASSUME NEW rows, Bounded(rows), NEW seen, seen = {kind \in Kinds : rows[kind] > 0},
         NEW fuel, fuel = {kind \in seen : FuelState(kind) = "has_fuel"}
  PROVE  /\ ScoreOf(rows).score = NULL <=> seen = {}
         /\ seen # {} =>
              /\ ScoreOf(rows).score \in 0..One
              /\ ScoreOf(rows).score = One
                   <=> \A kind \in seen : kind \in fuel /\ kind.severity = 0
              /\ fuel = {} => ScoreOf(rows).score = 0
         /\ ScoreOf(rows).confidence \in 0..Full
         /\ ScoreOf(rows).confidence = Full <=>
              /\ CountIf(rows, Kinds) >= FullSample
              /\ fuel # {} /\ \A kind \in fuel : kind.severity # NULL
<1> DEFINE n == CountIf(rows, Kinds)
           f == CountIf(rows, HasFuel)
           k == Queues(rows, 0)
           q == Queues(rows, 1)
           u == CountIf(rows, Unavailable)
<1>1. /\ HasFuel \subseteq Kinds /\ Unavailable \subseteq Kinds
      /\ Queued(0) \subseteq HasFuel /\ Queued(1) \subseteq HasFuel
  BY DEF HasFuel, Unavailable, Queued
<1>2. \A kind \in Kinds : rows[kind] \in Nat /\ (kind \in seen <=> rows[kind] # 0)
  BY DEF Bounded
<1>3. n = 0 <=> seen = {}
  BY <1>2, CountNone
<1>4. f = 0 <=> fuel = {}
  <2>1. f = 0 <=> \A kind \in HasFuel : rows[kind] = 0
    BY <1>1, CountNone
  <2> QED
    BY <1>1, <1>2, <2>1, FuelIs
<1>5. f = n <=> \A kind \in seen : kind \in fuel
  <2>1. f = n <=> \A kind \in Kinds : rows[kind] > 0 => kind \in HasFuel
    BY <1>1, CountSame
  <2> QED
    BY <2>1, FuelIs
<1>6. k = f <=> \A kind \in fuel : kind.severity # NULL
  <2>1. k = f <=> \A kind \in HasFuel : rows[kind] > 0 => kind \in Queued(0)
    BY <1>1, CountSame DEF Queues
  <2>2. \A kind \in HasFuel : kind \in Queued(0) <=> kind.severity # NULL
    BY <1>1, FuelIs DEF NULL
  <2> QED
    BY <1>1, <2>1, <2>2, FuelIs
<1>7. q = 0 <=> \A kind \in fuel : kind.severity < 1
  <2>1. q = 0 <=> \A kind \in Queued(1) : rows[kind] = 0
    BY <1>1, CountNone DEF Queues
  <2>2. \A kind \in HasFuel : kind \in Queued(1) <=> ~(kind.severity < 1)
    BY <1>1, FuelIs
  <2> QED
    BY <1>1, <1>2, <2>1, <2>2, FuelIs
<1>8. (\A kind \in seen : kind \in fuel) => u = 0
  <2>1. u = 0 <=> \A kind \in Unavailable : rows[kind] = 0
    BY <1>1, CountNone
  <2> QED
    BY <1>1, <1>2, <2>1, FuelIs
<1>9. f = n /\ k = f /\ q = 0 /\ u = 0
        <=> \A kind \in seen : kind \in fuel /\ kind.severity = 0
  <2>1. ASSUME NEW kind \in fuel
        PROVE  kind.severity = 0 <=> kind.severity # NULL /\ kind.severity < 1
    BY FuelIs DEF NULL
  <2> HIDE DEF n, f, k, q, u
  <2>2. ASSUME f = n, k = f, q = 0, NEW kind \in seen
        PROVE  kind \in fuel /\ kind.severity = 0
    BY <1>5, <1>6, <1>7, <2>1, <2>2
  <2>3. ASSUME \A kind \in seen : kind \in fuel /\ kind.severity = 0
        PROVE  f = n /\ k = f /\ q = 0 /\ u = 0
    <3>1. \A kind \in fuel : kind.severity = 0
      BY <2>3
    <3> QED
      BY <1>5, <1>6, <1>7, <1>8, <2>1, <2>3, <3>1
  <2> QED
    BY <2>2, <2>3
<1>10. ASSUME n # 0
       PROVE  /\ ScoreOf(rows).score \in 0..One
              /\ ScoreOf(rows).score = One <=> f = n /\ k = f /\ q = 0 /\ u = 0
              /\ f = 0 => ScoreOf(rows).score = 0
  <2>1. ConsistentRows(rows)
    BY <1>10, NumbersFit
  <2>2. /\ RawOf(rows) \in Int /\ RawOf(rows) <= One
        /\ RawOf(rows) = One <=> f = n /\ k = f /\ q = 0 /\ u = 0
        /\ f = 0 => RawOf(rows) <= 0
    BY <2>1, RawEnds DEF RawOf, ConsistentRows
  <2>3. ScoreOf(rows).score = ClampScore(RawOf(rows))
    BY <1>10, ScoreIs
  <2> HIDE DEF n, f, k, q, u
  <2> QED
    BY <2>2, <2>3, Clamped
<1>13. /\ ScoreOf(rows).confidence \in 0..Full
       /\ ScoreOf(rows).confidence = Full <=> n >= FullSample /\ k = f /\ f # 0
  BY ConfidenceEnds
<1>14. n = 0 => ScoreOf(rows).score = NULL
  BY ScoreIs
<1>15. \A x \in 0..One : x # NULL
  BY DEF NULL
<1> HIDE DEF n, f, k, q, u
<1> QED
  BY <1>3, <1>4, <1>6, <1>9, <1>10, <1>13, <1>14, <1>15 DEF n

\* The ends of the score are where they belong, for any observations (calc_score).
THEOREM ScoresAreCalibrated == Spec => []ScoreCalibrated
<1>1. ASSUME IInv
      PROVE  ScoreCalibrated
  <2> SUFFICES ASSUME NEW rows \in {observed[group] : group \in Groups}
               PROVE  ScoreCalibrated!(rows)
    BY DEF ScoreCalibrated
  <2>1. Bounded(rows)
    BY <1>1, GroupBounded
  <2> QED
    BY <2>1, Calibrated
<1> QED
  BY <1>1, TypeCorrect, PTL

\* An observation with a longer queue in place of one with a shorter.
LEMMA LongerQueue ==
  ASSUME NEW rows, Bounded(rows), NEW kind \in Kinds, NEW other \in Kinds,
         rows[kind] > 0,
         FuelState(kind) = "has_fuel", FuelState(other) = "has_fuel",
         0 <= kind.severity, kind.severity < other.severity
  PROVE  ScoreOf([rows EXCEPT ![kind] = @ - 1, ![other] = @ + 1]).score <= ScoreOf(rows).score
<1> DEFINE base == [rows EXCEPT ![kind] = @ - 1]
           changed == [base EXCEPT ![other] = @ + 1]
<1>1. /\ rows \in [Kinds -> Nat] /\ IsFiniteSet(Each(rows))
      /\ Cardinality(Each(rows)) <= MaxObservations
  BY DEF Bounded
<1>2. kind # other
  BY FuelIs
<1>3. base \in [Kinds -> Nat] /\ base[kind] = rows[kind] - 1 /\ rows[kind] \in Nat
      /\ \A id \in Kinds : id # kind => base[id] = rows[id]
  BY <1>1
<1>4. /\ changed \in [Kinds -> Nat] /\ changed[other] = base[other] + 1
      /\ \A id \in Kinds : id # other => changed[id] = base[id]
  <2> HIDE DEF base
  <2> QED
    BY <1>3
<1>5. [rows EXCEPT ![kind] = @ - 1, ![other] = @ + 1] = changed
  BY <1>1, <1>2
<1>6. IsFiniteSet(Each(base))
  <2>1. ASSUME NEW row \in Each(base)
        PROVE  row \in Each(rows)
    <3>1. row = <<row[1], row[2]>> /\ row[1] \in Kinds /\ row[2] \in 1..base[row[1]]
      BY <1>3, EachIs
    <3>2. row[2] \in 1..rows[row[1]]
      BY <1>1, <1>3, <3>1
    <3> QED
      BY <1>1, <3>1, <3>2, EachIs
  <2> QED
    BY <1>1, <2>1, FS_Subset
<1> HIDE DEF base
<1> HIDE DEF changed
<1>7. ASSUME NEW K
      PROVE  /\ Cardinality(Each(rows)) = Cardinality(Each(base)) + 1
             /\ CountIf(base, K) \in Nat
             /\ CountIf(rows, K) = CountIf(base, K) + (IF kind \in K THEN 1 ELSE 0)
  BY <1>1, <1>3, <1>6, CountMore
<1>8. ASSUME NEW K
      PROVE  /\ IsFiniteSet(Each(changed)) /\ Cardinality(Each(changed)) = Cardinality(Each(base)) + 1
             /\ CountIf(changed, K) = CountIf(base, K) + (IF other \in K THEN 1 ELSE 0)
  BY <1>3, <1>4, <1>6, CountMore
<1>9. Bounded(changed)
  BY <1>1, <1>4, <1>7, <1>8 DEF Bounded
<1>10. /\ kind \in HasFuel /\ other \in HasFuel
       /\ kind \notin Unavailable /\ other \notin Unavailable
       /\ kind \in Queued(0) /\ other \in Queued(0)
       /\ \A i \in 1..6 : kind \in Queued(i) => other \in Queued(i)
  BY FuelIs
<1>11. /\ CountIf(changed, Kinds) = CountIf(rows, Kinds)
       /\ CountIf(changed, HasFuel) = CountIf(rows, HasFuel)
       /\ Queues(changed, 0) = Queues(rows, 0)
       /\ CountIf(changed, Unavailable) = CountIf(rows, Unavailable)
  BY <1>7, <1>8, <1>10 DEF Queues
<1>12. ASSUME NEW i \in 1..6
       PROVE  /\ Queues(rows, i) \in Nat /\ Queues(changed, i) \in Nat
              /\ Queues(rows, i) <= Queues(changed, i)
  <2> DEFINE K == Queued(i)
  <2>1. CountIf(rows, K) \in Nat /\ CountIf(changed, K) \in Nat
    BY <1>9, CountNumbers, StatsAssumption
  <2>2. CountIf(base, K) \in Nat
    BY <1>7
  <2>3. kind \in K => other \in K
    BY <1>10
  <2> HIDE DEF K
  <2>4. CountIf(rows, K) <= CountIf(changed, K)
    BY <1>7, <1>8, <2>2, <2>3
  <2> QED
    BY <2>1, <2>4 DEF Queues, K
<1>13. Severities(rows) <= Severities(changed)
  BY <1>12 DEF Severities
<1>14. CountIf(rows, Kinds) # 0
  BY <1>1, CountNone
<1>15. ConsistentRows(rows) /\ ConsistentRows(changed)
  BY <1>9, <1>11, <1>14, NumbersFit
<1>16. RawOf(changed) <= RawOf(rows)
  <2>1. /\ Queues(rows, 1) <= Queues(changed, 1)
        /\ Queues(rows, 3) <= Queues(changed, 3)
        /\ Queues(rows, 5) <= Queues(changed, 5)
    BY <1>12
  <2> QED
    BY <1>11, <1>13, <1>15, <2>1, RawQueues DEF RawOf, ConsistentRows
<1>17. /\ ScoreOf(rows).score = ClampScore(RawOf(rows)) /\ RawOf(rows) \in Int
       /\ ScoreOf(changed).score = ClampScore(RawOf(changed)) /\ RawOf(changed) \in Int
  BY <1>9, <1>11, <1>14, ScoreIs
<1>18. ScoreOf(changed).score <= ScoreOf(rows).score
  BY <1>16, <1>17, Clamped
<1> QED
  BY <1>5, <1>18

\* A longer queue never raises the score (calc_score, the penalties of queues).
THEOREM LongerQueuesCost == Spec => []QueuesCost
<1>1. ASSUME IInv
      PROVE  QueuesCost
  <2> SUFFICES ASSUME NEW rows \in {observed[group] : group \in Groups}, NEW kind \in HasFuel,
                      rows[kind] > 0, NEW other \in HasFuel,
                      0 <= kind.severity, kind.severity < other.severity
               PROVE  ScoreOf([rows EXCEPT ![kind] = @ - 1, ![other] = @ + 1]).score
                        <= ScoreOf(rows).score
    BY DEF QueuesCost
  <2>1. Bounded(rows)
    BY <1>1, GroupBounded
  <2>2. /\ kind \in Kinds /\ FuelState(kind) = "has_fuel"
        /\ other \in Kinds /\ FuelState(other) = "has_fuel"
    BY DEF HasFuel
  <2> QED
    BY <2>1, <2>2, LongerQueue
<1> QED
  BY <1>1, TypeCorrect, PTL

\* The view has at most one row of a station and an hour.
LEMMA RowOfGroup ==
  ASSUME NEW station \in Stations, NEW hour \in Hours
  PROVE  LET row == [station |-> station, hour |-> hour,
                     stats |-> HourlyStats(observed[<<station, hour>>])]
         IN  {other \in View : other.station = station /\ other.hour = hour}
               = IF Observed(<<station, hour>>) THEN {row} ELSE {}
<1> DEFINE row == [station |-> station, hour |-> hour,
                   stats |-> HourlyStats(observed[<<station, hour>>])]
<1>1. <<station, hour>> \in Groups
  BY DEF Groups
<1>2. ASSUME NEW other \in View, other.station = station, other.hour = hour
      PROVE  other = row /\ Observed(<<station, hour>>)
  <2>1. PICK group \in Groups :
          /\ Observed(group)
          /\ other = [station |-> group[1], hour |-> group[2], stats |-> HourlyStats(observed[group])]
    BY DEF View
  <2>2. group = <<station, hour>>
    BY <1>2, <2>1 DEF Groups
  <2> QED
    BY <2>1, <2>2
<1>3. ASSUME Observed(<<station, hour>>)
      PROVE  row \in View /\ row.station = station /\ row.hour = hour
  BY <1>1, <1>3 DEF View
<1> HIDE DEF row
<1>4. {other \in View : other.station = station /\ other.hour = hour}
        = IF Observed(<<station, hour>>) THEN {row} ELSE {}
  BY <1>2, <1>3
<1> QED
  BY <1>4 DEF row

\* The statistics that a station of the list gets from the rows, in any order.
LEMMA FoundIs ==
  ASSUME IInv, NEW list \in InAnyOrder(SpotRows(listed, asked)), NEW k \in DOMAIN listed
  PROVE  StatsForSpot(listed, list)[k]
           = IF Observed(<<listed[k], asked>>)
               THEN {HourlyStats(observed[<<listed[k], asked>>])} ELSE {}
<1> DEFINE id == listed[k]
           R == SpotRows(listed, asked)
           D == DOMAIN list
           h == HourlyStats(observed[<<id, asked>>])
           row == [station |-> id, hour |-> asked, stats |-> h]
<1>1. id \in Stations /\ asked \in Hours
  BY DEF IInv
<1>2. /\ \A j \in D : list[j] \in R
      /\ \A other \in R : \E j \in D : list[j] = other
      /\ \A i, j \in D : list[i] = list[j] => i = j
      /\ D \subseteq Int
  BY DEF InAnyOrder, Bijection, Injection, Surjection, IsInjective
<1>3. {other \in R : other.station = id} = IF Observed(<<id, asked>>) THEN {row} ELSE {}
  <2>1. {other \in R : other.station = id}
          = {other \in View : other.station = id /\ other.hour = asked}
    BY DEF SpotRows
  <2> QED
    BY <1>1, <2>1, RowOfGroup
<1>4. StatsForSpot(listed, list)[k] = {StatDict(list)[i] : i \in {id} \cap DOMAIN StatDict(list)}
  BY DEF StatsForSpot
<1>5. DOMAIN StatDict(list) = {list[j].station : j \in D}
  BY DEF StatDict
<1>6. CASE ~Observed(<<id, asked>>)
  <2>1. id \notin DOMAIN StatDict(list)
    <3> HIDE DEF id, R
    <3> QED
      BY <1>2, <1>3, <1>5, <1>6
  <2> QED
    BY <1>4, <1>6, <2>1
<1>7. CASE Observed(<<id, asked>>)
  <2> HIDE DEF id, R, row
  <2>1. PICK j \in D : list[j] = row
    BY <1>2, <1>3, <1>7
  <2>2. row.station = id
    BY <1>3, <1>7
  <2>3. \A i \in D : list[i].station = id => i = j
    BY <1>2, <1>3, <1>7, <2>1
  <2>4. (CHOOSE i \in D : /\ list[i].station = id
                          /\ \A l \in D : l > i => list[l].station # id) = j
    <3>1. \A l \in D : l > j => list[l].station # id
      BY <1>2, <2>3
    <3> QED
      BY <2>1, <2>2, <2>3, <3>1
  <2>5. id \in DOMAIN StatDict(list)
    BY <1>5, <2>1, <2>2
  <2>6. StatDict(list)[id] = list[j].stats
    BY <2>4, <2>5 DEF StatDict
  <2>7. list[j].stats = h
    BY <2>1 DEF row
  <2> HIDE DEF h
  <2>8. StatsForSpot(listed, list)[k] = {h}
    BY <1>4, <2>5, <2>6, <2>7
  <2> QED
    BY <1>7, <2>8 DEF h, id
<1> QED
  BY <1>6, <1>7

\* In whatever order the rows come, the map shows the score of the station's own page
\* for the hour, and nothing where that has none (get_stations_stats_for_spot and its
\* join by stat_dict, against get_station_hourly_stats).
THEOREM MapIsTruthful == Spec => []MapTruthful
<1>1. ASSUME IInv
      PROVE  MapTruthful
  <2> SUFFICES ASSUME NEW list \in InAnyOrder(SpotRows(listed, asked)), NEW k \in DOMAIN listed
               PROVE  LET shown == Shown(listed, list)
                          page == {entry \in GetStationStats(listed[k]) : entry.hour = asked}
                      IN  /\ shown[k].id = listed[k]
                          /\ {entry.score : entry \in page} = {shown[k].score} \ {Unscored}
    BY DEF MapTruthful
  <2> DEFINE id == listed[k]
             h == HourlyStats(observed[<<id, asked>>])
             row == [station |-> id, hour |-> asked, stats |-> h]
             page == {entry \in GetStationStats(id) : entry.hour = asked}
             found == StatsForSpot(listed, list)[k]
  <2>1. id \in Stations /\ asked \in Hours
    BY <1>1 DEF IInv
  <2>2. Shown(listed, list)[k] = [id |-> id, score |-> JoinedScore(found)]
    BY DEF Shown
  <2>3. found = IF Observed(<<id, asked>>) THEN {h} ELSE {}
    BY <1>1, FoundIs
  <2>4. {other \in View : other.station = id /\ other.hour = asked}
          = IF Observed(<<id, asked>>) THEN {row} ELSE {}
    BY <2>1, RowOfGroup
  <2>5. {entry.score : entry \in page}
          = {CalcScore(other.stats) :
               other \in {other \in View : other.station = id /\ other.hour = asked}}
    <3> DEFINE R == {other \in View : other.station = id /\ other.hour = asked}
    <3>1. ASSUME NEW entry \in page
          PROVE  \E other \in R : entry.score = CalcScore(other.stats)
      BY DEF GetStationStats, StationHourlyStats
    <3>2. ASSUME NEW other \in R
          PROVE  \E entry \in page : entry.score = CalcScore(other.stats)
      <4>1. /\ [hour |-> other.hour, score |-> CalcScore(other.stats)] \in GetStationStats(id)
            /\ other.hour = asked
        BY DEF GetStationStats, StationHourlyStats
      <4> QED
        BY <4>1
    <3> HIDE DEF R, page
    <3>3. {entry.score : entry \in page} = {CalcScore(other.stats) : other \in R}
      BY <3>1, <3>2
    <3> QED
      BY <3>3 DEF R
  <2>6. CalcScore(h) # Unscored
    <3>1. ScoreOf(observed[<<id, asked>>]).confidence \in 0..Full
      <4>1. Bounded(observed[<<id, asked>>])
        BY <1>1, <2>1, GroupBounded DEF Groups
      <4> QED
        BY <4>1, ConfidenceEnds
    <3>2. CalcScore(h).confidence # NULL
      BY <3>1 DEF ScoreOf, NULL
    <3> QED
      BY <3>2 DEF Unscored
  <2>7. row.stats = h
    OBVIOUS
  <2> HIDE DEF id, h, row, page, found
  <2>8. CASE Observed(<<id, asked>>)
    <3>1. JoinedScore(found) = CalcScore(h)
      BY <2>3, <2>8 DEF JoinedScore
    <3>2. {entry.score : entry \in page} = {CalcScore(h)}
      BY <2>4, <2>5, <2>7, <2>8
    <3> QED
      BY <2>2, <2>6, <3>1, <3>2 DEF id, page
  <2>9. CASE ~Observed(<<id, asked>>)
    <3>1. JoinedScore(found) = Unscored
      BY <2>3, <2>9 DEF JoinedScore
    <3>2. {entry.score : entry \in page} = {}
      BY <2>4, <2>5, <2>9
    <3> QED
      BY <2>2, <3>1, <3>2 DEF id, page
  <2> QED
    BY <2>8, <2>9
<1> QED
  BY <1>1, TypeCorrect, PTL

\* What one more observation of an hour that has some does to its score.
LEMMA OneMore ==
  ASSUME NEW rows, Bounded(rows), NEW more, Bounded(more), NEW kind \in Kinds,
         more[kind] = rows[kind] + 1,
         \A other \in Kinds : other # kind => more[other] = rows[other],
         rows # NoRows
  PROVE  /\ FuelState(kind) = "has_fuel" /\ kind.severity = 0
              => ScoreOf(more).score >= ScoreOf(rows).score
         /\ FuelState(kind) = "no_fuel" => ScoreOf(more).score <= ScoreOf(rows).score
<1> DEFINE n == CountIf(rows, Kinds)
           f == CountIf(rows, HasFuel)
           k == Queues(rows, 0)
           q == Queues(rows, 1)
           s == Severities(rows)
           b == Queues(rows, 3)
           v == Queues(rows, 5)
           u == CountIf(rows, Unavailable)
           u2 == CountIf(more, Unavailable)
<1>1. rows \in [Kinds -> Nat] /\ IsFiniteSet(Each(rows)) /\ more \in [Kinds -> Nat]
  BY DEF Bounded
<1>2. ASSUME NEW K
      PROVE  /\ CountIf(rows, K) \in Nat
             /\ CountIf(more, K) = CountIf(rows, K) + (IF kind \in K THEN 1 ELSE 0)
  BY <1>1, CountMore
<1>3. n # 0
  <2>1. PICK other \in Kinds : rows[other] # 0
    <3>1. NoRows \in [Kinds -> Nat] /\ \A other \in Kinds : NoRows[other] = 0
      BY DEF NoRows
    <3> QED
      BY <1>1, <3>1
  <2> QED
    BY <2>1, CountNone
<1>4. CountIf(more, Kinds) = n + 1 /\ n \in Nat
  BY <1>2
<1>5. ConsistentRows(rows) /\ ConsistentRows(more)
  BY <1>3, <1>4, NumbersFit
<1>6. /\ ScoreOf(rows).score = ClampScore(RawOf(rows)) /\ RawOf(rows) \in Int
      /\ ScoreOf(more).score = ClampScore(RawOf(more)) /\ RawOf(more) \in Int
  BY <1>3, <1>4, ScoreIs
<1>7. /\ Consistent(n, f, k, q, s, b, v, u) /\ RawOf(rows) = Raw(n, f, k, q, s, b, v, u)
  BY <1>5 DEF ConsistentRows, RawOf
<1>8. u <= u2 /\ (kind \notin Unavailable => u2 = u)
  BY <1>2
<1>9. ASSUME kind \in HasFuel, kind.severity = 0
      PROVE  RawOf(rows) <= RawOf(more)
  <2>1. kind \notin Unavailable /\ kind \in Queued(0) /\ \A i \in 1..6 : kind \notin Queued(i)
    BY <1>9, FuelIs
  <2>2. CountIf(more, HasFuel) = f + 1 /\ Queues(more, 0) = k + 1 /\ u2 = u
    BY <1>2, <1>8, <1>9, <2>1 DEF Queues
  <2>3. ASSUME NEW i \in 1..6
        PROVE  Queues(more, i) = Queues(rows, i)
    BY <1>2, <2>1 DEF Queues
  <2>4. Queues(more, 1) = q /\ Queues(more, 3) = b /\ Queues(more, 5) = v /\ Severities(more) = s
    BY <2>3 DEF Severities
  <2> HIDE DEF n, f, k, q, s, b, v, u
  <2>5. /\ Consistent(n + 1, f + 1, k + 1, q, s, b, v, u)
        /\ RawOf(more) = Raw(n + 1, f + 1, k + 1, q, s, b, v, u)
    BY <1>4, <1>5, <2>2, <2>4 DEF ConsistentRows, RawOf
  <2> QED
    BY <1>7, <2>5, RawFuel
<1>10. ASSUME kind \notin HasFuel
       PROVE  RawOf(more) <= RawOf(rows) \/ RawOf(more) <= 0
  <2>1. \A i \in 0..6 : kind \notin Queued(i)
    BY <1>10, FuelIs
  <2>2. CountIf(more, HasFuel) = f
    BY <1>2, <1>10
  <2>3. ASSUME NEW i \in 0..6
        PROVE  Queues(more, i) = Queues(rows, i)
    BY <1>2, <2>1 DEF Queues
  <2>4. /\ Queues(more, 0) = k /\ Queues(more, 1) = q /\ Queues(more, 3) = b
        /\ Queues(more, 5) = v /\ Severities(more) = s
    BY <2>3 DEF Severities
  <2> HIDE DEF n, f, k, q, s, b, v, u
  <2>5. /\ Consistent(n + 1, f, k, q, s, b, v, u2)
        /\ RawOf(more) = Raw(n + 1, f, k, q, s, b, v, u2)
    BY <1>4, <1>5, <2>2, <2>4 DEF ConsistentRows, RawOf
  <2> HIDE DEF u2
  <2> QED
    BY <1>7, <1>8, <2>5, RawNoFuel
<1> HIDE DEF n, f, k, q, s, b, v, u, u2
<1>11. ASSUME FuelState(kind) = "has_fuel", kind.severity = 0
       PROVE  ScoreOf(more).score >= ScoreOf(rows).score
  <2>1. RawOf(rows) <= RawOf(more)
    BY <1>9, <1>11, FuelIs
  <2>2. ClampScore(RawOf(rows)) <= ClampScore(RawOf(more))
    BY <1>6, <2>1, Clamped
  <2>3. ClampScore(RawOf(rows)) \in 0..One /\ ClampScore(RawOf(more)) \in 0..One
    BY <1>6, Clamped
  <2> QED
    BY <1>6, <2>2, <2>3
<1>12. ASSUME FuelState(kind) = "no_fuel"
       PROVE  ScoreOf(more).score <= ScoreOf(rows).score
  <2>1. RawOf(more) <= RawOf(rows) \/ RawOf(more) <= 0
    BY <1>10, <1>12, FuelIs
  <2> QED
    BY <1>6, <2>1, Clamped
<1> QED
  BY <1>11, <1>12

\* Fuel without a queue never lowers the score of an hour, no fuel never raises it,
\* although both change what the penalties are taken from (calc_score).
THEOREM EvidenceIsCounted == Spec => EvidenceCounts
<1>1. ASSUME IInv, IInv', [Next]_vars
      PROVE  [EvidenceStep]_vars
  <2> SUFFICES ASSUME NEW group \in Groups, NEW kind \in Kinds, Next,
                      observed'[group][kind] > observed[group][kind], Observed(group)
               PROVE  LET before == ScoreOf(observed[group]).score
                          after == ScoreOf(observed'[group]).score
                      IN  /\ FuelState(kind) = "has_fuel" /\ kind.severity = 0 => after >= before
                          /\ FuelState(kind) = "no_fuel" => after <= before
    BY <1>1 DEF EvidenceStep
  <2>1. observed[group] \in [Kinds -> Nat] /\ ~(observed[group][kind] > observed[group][kind])
    BY <1>1 DEF IInv
  <2>2. PICK id \in Groups, other \in Kinds : Observe(id, other)
    BY <2>1 DEF Next, Register, ListStations, ShowStations
  <2>3. /\ observed'[id] = [observed[id] EXCEPT ![other] = @ + 1]
        /\ \A gr \in Groups : gr # id => observed'[gr] = observed[gr]
    BY <1>1, <2>2, ObserveIs
  <2>4. id = group
    BY <2>1, <2>3
  <2>5. other = kind
    BY <2>1, <2>3, <2>4
  <2>6. /\ observed'[group][kind] = observed[group][kind] + 1
        /\ \A ki \in Kinds : ki # kind => observed'[group][ki] = observed[group][ki]
    BY <2>1, <2>3, <2>4, <2>5
  <2>7. Bounded(observed[group])
    BY <1>1, GroupBounded
  <2>8. Bounded(observed'[group])
    BY <1>1, GroupBoundedNext
  <2>9. observed[group] # NoRows
    BY DEF Observed
  <2> QED
    BY <2>6, <2>7, <2>8, <2>9, OneMore
<1> QED
  BY <1>1, TypeCorrect, PTL DEF Spec, EvidenceCounts
=============================================================================
