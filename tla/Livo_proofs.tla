----------------------------- MODULE Livo_proofs -----------------------------
(***************************************************************************)
(* Preprocess: the times that the mapper gets, and that features share no  *)
(* point.                                                                  *)
(*                                                                         *)
(* What the handlers keep of a scan is an ascending sequence of its        *)
(* positions (Ascends, KeptAscends), whatever the set they test; the times *)
(* are functions by recursion along the points (AviaSteps, YawSteps).      *)
(* With features, give_feature goes over a line by runs of points, and a   *)
(* point can come twice only if the run it is in overlaps what came        *)
(* before.  FeatureInv says that it does not: whatever has become a        *)
(* feature is of a line before, or before the run that is still open on    *)
(* this one (Past).                                                        *)
(*                                                                         *)
(* LivoMapper: each point goes into one update (CutInv), states have the   *)
(* times they stand for (TimeInv), and with both, points are published     *)
(* once (PubInv) and moved once (MoveInv).  Every kind of update is first  *)
(* brought to one form (UpdateBy is that of a LIO update), so that an      *)
(* invariant is shown once per form; each layer rests on the one before.   *)
(***************************************************************************)
EXTENDS Preprocess, LivoMapper, TLAPS, NaturalsInduction, SequenceTheorems, FiniteSetTheorems,
        WellFoundedInduction

-----------------------------------------------------------------------------
(* Recursive functions over 0 .. m, and induction over it *)

LEMMA NatMin ==
  ASSUME NEW T, T \subseteq Nat, T # {}
  PROVE  \E m \in T : \A j \in T : m <= j
<1> DEFINE R == OpToRel(<, Nat)
<1>1. IsWellFoundedOn(R, Nat)
  BY NatLessThanWellFounded
<1>2. \A k, m \in Nat : k < m => <<k, m>> \in R
  BY DEF OpToRel
<1> HIDE DEF R
<1>3. PICK m \in T : \A k \in T : ~ (<<k, m>> \in R)
  BY <1>1, WFMin
<1>4. \A k \in T : m <= k
  <2> SUFFICES ASSUME NEW k \in T PROVE m <= k
    OBVIOUS
  <2>1. ~(k < m) /\ k \in Nat /\ m \in Nat
    BY <1>2, <1>3
  <2> QED
    BY <2>1
<1> QED
  BY <1>4

\* Induction up to m
LEMMA UpTo ==
  ASSUME NEW m \in Nat, NEW T, 0 \in T, \A k \in 1 .. m : k - 1 \in T => k \in T
  PROVE  \A k \in 0 .. m : k \in T
<1> DEFINE U == {k \in 0 .. m : k \notin T}
<1>1. ASSUME U # {}
      PROVE  FALSE
  <2>1. PICK k \in U : \A j \in U : k <= j
    <3>1. U \subseteq Nat
      OBVIOUS
    <3> HIDE DEF U
    <3> QED
      BY <1>1, <3>1, NatMin
  <2>2. k \in 1 .. m /\ k - 1 \in 0 .. m /\ ~(k <= k - 1)
    BY <2>1
  <2>3. k - 1 \in T
    BY <2>1, <2>2
  <2> QED
    BY <2>1, <2>2, <2>3
<1> QED
  BY <1>1

\* What a function is that is built up to m from e by the steps s
Built(f, m, e, s) == f[0] = e /\ \A k \in 1 .. m : f[k] = s[k][f[k - 1]]

LEMMA Recursion ==
  ASSUME NEW m \in Nat, NEW S, NEW e \in S, NEW s \in [1 .. m -> [S -> S]]
  PROVE  \E f \in [0 .. m -> S] : Built(f, m, e, s)
<1> DEFINE T == {k \in 0 .. m : \E f \in [0 .. k -> S] : Built(f, k, e, s)}
<1>1. 0 \in T
  <2>1. [k \in 0 .. 0 |-> e] \in [0 .. 0 -> S] /\ Built([k \in 0 .. 0 |-> e], 0, e, s)
    BY DEF Built
  <2> QED
    BY <2>1
<1>2. ASSUME NEW k \in 1 .. m, k - 1 \in T
      PROVE  k \in T
  <2>1. PICK g \in [0 .. k - 1 -> S] : Built(g, k - 1, e, s)
    BY <1>2
  <2> DEFINE f == [n \in 0 .. k |-> IF n = k THEN s[k][g[k - 1]] ELSE g[n]]
  <2>2. g[k - 1] \in S
    BY <2>1
  <2>3. s[k][g[k - 1]] \in S
    BY <2>2
  <2>4. f \in [0 .. k -> S]
    BY <2>1, <2>3
  <2>5. \A n \in 0 .. k - 1 : n \in 0 .. k /\ n # k /\ f[n] = g[n]
    OBVIOUS
  <2>6. 0 \in 0 .. k - 1 /\ k \in 0 .. k /\ k - 1 \in 0 .. k - 1
    OBVIOUS
  <2>7. f[k] = s[k][g[k - 1]]
    BY <2>6
  <2> HIDE DEF f
  <2>8. ASSUME NEW n \in 1 .. k
        PROVE  f[n] = s[n][f[n - 1]]
    <3>1. CASE n = k
      BY <3>1, <2>5, <2>6, <2>7
    <3>2. CASE n # k
      <4>1. n \in 1 .. k - 1 /\ n \in 0 .. k - 1 /\ n - 1 \in 0 .. k - 1
        BY <3>2
      <4> QED
        BY <4>1, <2>1, <2>5 DEF Built
    <3> QED
      BY <3>1, <3>2
  <2>9. Built(f, k, e, s)
    BY <2>1, <2>5, <2>6, <2>8 DEF Built
  <2> QED
    BY <2>4, <2>9
<1>3. \A k \in 1 .. m : k - 1 \in T => k \in T
  BY <1>2
<1> HIDE DEF T
<1>4. \A k \in 0 .. m : k \in T
  BY <1>1, <1>3, UpTo
<1>5. m \in T
  BY <1>4
<1> QED
  BY <1>5 DEF T

LEMMA LeastOf ==
  ASSUME NEW T, T \subseteq Nat, T # {}
  PROVE  Min(T) \in T /\ \A k \in T : Min(T) <= k
<1>1. \E m \in T : \A k \in T : m <= k
  BY NatMin
<1> QED
  BY <1>1 DEF Min

LEMMA MostOf ==
  ASSUME NEW b \in Nat, NEW T, T \subseteq 0 .. b, T # {}
  PROVE  Max(T) \in T /\ \A k \in T : k <= Max(T)
<1> DEFINE U == {b - k : k \in T}
<1>1. U \subseteq Nat /\ U # {}
  <2>1. PICK k \in T : k \in 0 .. b
    OBVIOUS
  <2>2. \A j \in 0 .. b : b - j \in Nat
    OBVIOUS
  <2>3. b - k \in U
    OBVIOUS
  <2> QED
    BY <2>2, <2>3
<1>2. PICK u \in U : \A j \in U : u <= j
  <2> HIDE DEF U
  <2> QED
    BY <1>1, NatMin
<1>3. PICK m \in T : u = b - m
  OBVIOUS
<1>4. \A k \in T : b - k \in U /\ k \in 0 .. b /\ m \in 0 .. b
  BY <1>3
<1>5. ASSUME NEW k \in T PROVE k <= m
  <2>1. b - m <= b - k /\ k \in 0 .. b /\ m \in 0 .. b
    BY <1>2, <1>3, <1>4
  <2> HIDE DEF U
  <2> QED
    BY <2>1
<1>6. \E w \in T : \A k \in T : w >= k
  BY <1>3, <1>4, <1>5
<1>7. Max(T) \in T /\ \A k \in T : Max(T) >= k
  BY <1>6 DEF Max
<1>8. \A k \in T : k \in Nat
  BY <1>4
<1> QED
  BY <1>7, <1>8

-----------------------------------------------------------------------------
(* The positions of a scan that a handler keeps *)

\* Positions up to b, all in S, one after the other
Ascends(q, b, S) ==
  /\ q \in Seq(Nat)
  /\ \A m \in 1 .. Len(q) : q[m] \in 1 .. b /\ q[m] \in S
  /\ \A m, n \in 1 .. Len(q) : m < n => q[m] < q[n]

\* What is kept up to each position
KeptBy(u, n, S) ==
  /\ u \in [0 .. n -> Seq(Nat)]
  /\ u[0] = << >> /\ Kept(n, S) = u[n]
  /\ \A k \in 1 .. n : u[k] = IF k \in S THEN Append(u[k - 1], k) ELSE u[k - 1]

LEMMA KeptSteps ==
  ASSUME NEW n \in Nat, NEW S
  PROVE  \E u : KeptBy(u, n, S)
<1> DEFINE Q == Seq(Nat)
           s == [k \in 1 .. n |-> [q \in Q |-> IF k \in S THEN Append(q, k) ELSE q]]
           E(f) == f = [k \in 0 .. n |->
                          IF k = 0 THEN << >>
                          ELSE IF k \in S THEN Append(f[k - 1], k) ELSE f[k - 1]]
<1>1. << >> \in Q
  BY EmptySeq
<1>2. s \in [1 .. n -> [Q -> Q]]
  <2>1. ASSUME NEW k \in 1 .. n, NEW q \in Q
        PROVE  (IF k \in S THEN Append(q, k) ELSE q) \in Q
    BY AppendProperties
  <2> HIDE DEF Q
  <2> QED
    BY <2>1
<1>3. PICK f \in [0 .. n -> Q] : Built(f, n, << >>, s)
  <2> HIDE DEF Q, s
  <2> QED
    BY <1>1, <1>2, Recursion
<1>4. ASSUME NEW k \in 1 .. n
      PROVE  f[k] = IF k \in S THEN Append(f[k - 1], k) ELSE f[k - 1]
  <2>1. k - 1 \in 0 .. n /\ f[k - 1] \in Q
    OBVIOUS
  <2>2. f[k] = s[k][f[k - 1]]
    BY <1>3 DEF Built
  <2> HIDE DEF Q
  <2> QED
    BY <2>1, <2>2
<1>5. f[0] = << >>
  BY <1>3 DEF Built
<1>6. E(f)
  <2>1. f = [k \in 0 .. n |-> f[k]]
    OBVIOUS
  <2>2. \A k \in 0 .. n : f[k] = IF k = 0 THEN << >>
                          ELSE IF k \in S THEN Append(f[k - 1], k) ELSE f[k - 1]
    <3>1. \A k \in 0 .. n : k = 0 \/ k \in 1 .. n
      OBVIOUS
    <3> HIDE DEF Q, s
    <3> QED
      BY <1>4, <1>5, <3>1
  <2> QED
    BY <2>1, <2>2
<1> DEFINE F == CHOOSE g : E(g)
<1>7. Kept(n, S) = F[n]
  BY Zenon DEF Kept
<1>8. E(F)
  <2> HIDE DEF E
  <2> QED
    BY <1>6
<1> HIDE DEF F
<1>9. F[0] = << >> /\ \A k \in 1 .. n :
        F[k] = IF k \in S THEN Append(F[k - 1], k) ELSE F[k - 1]
  <2>1. 0 \in 0 .. n /\ \A k \in 1 .. n : k \in 0 .. n /\ k # 0
    OBVIOUS
  <2> QED
    BY <1>8, <2>1
<1> DEFINE T == {k \in 0 .. n : F[k] \in Q}
<1>10. \A k \in 0 .. n : k \in T
  <2>1. 0 \in T
    <3>1. F[0] \in Q /\ 0 \in 0 .. n
      BY <1>1, <1>9
    <3> HIDE DEF Q
    <3> QED
      BY <3>1
  <2>2. ASSUME NEW k \in 1 .. n, k - 1 \in T PROVE k \in T
    <3>1. F[k - 1] \in Seq(Nat)
      BY <2>2
    <3>2. Append(F[k - 1], k) \in Seq(Nat)
      BY <3>1, AppendProperties
    <3>3. F[k] \in Seq(Nat)
      BY <1>9, <3>1, <3>2
    <3> QED
      BY <3>3
  <2> HIDE DEF T
  <2> QED
    BY <2>1, <2>2, UpTo
<1>11. F \in [0 .. n -> Seq(Nat)]
  <2>1. F = [k \in 0 .. n |-> F[k]]
    BY <1>8, Zenon
  <2> QED
    BY <1>10, <2>1
<1>12. KeptBy(F, n, S)
  BY <1>7, <1>9, <1>11 DEF KeptBy
<1> QED
  BY <1>12

LEMMA KeptAscends ==
  ASSUME NEW n \in Nat, NEW S
  PROVE  Ascends(Kept(n, S), n, S)
<1>0. PICK u : KeptBy(u, n, S)
  BY KeptSteps
<1>1. /\ u \in [0 .. n -> Seq(Nat)]
      /\ u[0] = << >> /\ Kept(n, S) = u[n]
      /\ \A k \in 1 .. n : u[k] = IF k \in S THEN Append(u[k - 1], k) ELSE u[k - 1]
  BY <1>0 DEF KeptBy
<1> DEFINE T == {k \in 0 .. n : Ascends(u[k], k, S)}
<1>2. 0 \in T
  <2>1. Len(u[0]) = 0 /\ u[0] \in Seq(Nat)
    BY <1>1
  <2> QED
    BY <2>1 DEF Ascends
<1>3. ASSUME NEW k \in 1 .. n, k - 1 \in T PROVE k \in T
  <2> DEFINE q == u[k - 1]
  <2>1. Ascends(q, k - 1, S) /\ u[k] = IF k \in S THEN Append(q, k) ELSE q
    BY <1>1, <1>3
  <2>2. q \in Seq(Nat) /\ Len(q) \in Nat
    BY <2>1 DEF Ascends
  <2> HIDE DEF q
  <2>3. ASSUME NEW m \in 1 .. Len(q)
        PROVE  q[m] \in 1 .. k /\ q[m] < k /\ q[m] \in S
    BY <2>1, <2>3 DEF Ascends
  <2>4. CASE k \notin S
    <3>1. Ascends(q, k, S)
      BY <2>1, <2>3 DEF Ascends
    <3> QED
      BY <2>1, <2>4, <3>1
  <2>5. CASE k \in S
    <3> DEFINE r == Append(q, k)
    <3>1. /\ r \in Seq(Nat) /\ Len(r) = Len(q) + 1 /\ r[Len(q) + 1] = k
          /\ \A m \in 1 .. Len(q) : r[m] = q[m]
      BY <2>2, AppendProperties
    <3> HIDE DEF r
    <3>2. \A m \in 1 .. Len(r) : m \in 1 .. Len(q) \/ m = Len(q) + 1
      BY <2>2, <3>1
    <3>3. ASSUME NEW m \in 1 .. Len(r) PROVE r[m] \in 1 .. k /\ r[m] \in S
      <4>1. CASE m \in 1 .. Len(q)
        BY <2>3, <3>1, <4>1
      <4>2. CASE m = Len(q) + 1
        BY <2>5, <3>1, <4>2
      <4> QED
        BY <3>2, <4>1, <4>2
    <3>4. ASSUME NEW m \in 1 .. Len(r), NEW j \in 1 .. Len(r), m < j
          PROVE  r[m] < r[j]
      <4>1. m \in 1 .. Len(q)
        BY <2>2, <3>1, <3>4
      <4>2. CASE j \in 1 .. Len(q)
        BY <2>1, <3>1, <3>4, <4>1, <4>2 DEF Ascends
      <4>3. CASE j = Len(q) + 1
        BY <2>3, <3>1, <4>1, <4>3
      <4> QED
        BY <3>2, <4>2, <4>3
    <3>5. Ascends(r, k, S)
      BY <3>1, <3>3, <3>4 DEF Ascends
    <3>6. u[k] = r
      BY <2>1, <2>5 DEF r
    <3> QED
      BY <3>5, <3>6
  <2> QED
    BY <2>4, <2>5
<1> HIDE DEF T
<1>4. \A k \in 0 .. n : k \in T
  BY <1>2, <1>3, UpTo
<1> QED
  BY <1>1, <1>4 DEF T

-----------------------------------------------------------------------------
(* The times of a Livox scan *)

\* The curvature of point k after one of last
AviaNext(points, k, last) ==
  IF points[k].line >= N_SCANS THEN 0
  ELSE IF points[k].time - last < Ms /\ -(points[k].time - last) < Ms THEN points[k].time
  ELSE IF k = 1 THEN 0 ELSE last + Step

AviaBy(c, points) ==
  /\ c \in [0 .. Len(points) -> Int]
  /\ c[0] = 0 /\ AviaTimes(points) = [k \in 1 .. Len(points) |-> c[k]]
  /\ \A k \in 1 .. Len(points) : c[k] = AviaNext(points, k, c[k - 1])

LEMMA PointTypes ==
  ASSUME NEW points \in Seq(Points)
  PROVE  /\ Len(points) \in Nat
         /\ \A k \in 1 .. Len(points) : points[k].time \in Nat /\ points[k].line \in Nat
<1>1. ASSUME NEW k \in 1 .. Len(points)
      PROVE  points[k].time \in Nat /\ points[k].line \in Nat
  <2>1. points[k] \in Points
    OBVIOUS
  <2> QED
    BY <2>1 DEF Points
<1> QED
  BY <1>1

LEMMA AviaSteps ==
  ASSUME NEW points \in Seq(Points)
  PROVE  \E c : AviaBy(c, points)
<1> DEFINE L == Len(points)
           s == [k \in 1 .. L |-> [q \in Int |-> AviaNext(points, k, q)]]
           E(f) == f = [k \in 0 .. L |->
                          IF k = 0 \/ points[k].line >= N_SCANS THEN 0
                          ELSE LET d == points[k].time - f[k - 1] IN
                               IF d < Ms /\ -d < Ms THEN points[k].time
                               ELSE IF k = 1 THEN 0 ELSE f[k - 1] + Step]
<1>1. L \in Nat /\ 0 \in Int
      /\ \A k \in 1 .. L : points[k].time \in Nat /\ points[k].line \in Nat
  BY PointTypes
<1>2. s \in [1 .. L -> [Int -> Int]]
  <2>1. ASSUME NEW k \in 1 .. L, NEW q \in Int
        PROVE  AviaNext(points, k, q) \in Int
    BY <1>1, TimesAssumption DEF AviaNext
  <2> QED
    BY <2>1
<1>3. PICK f \in [0 .. L -> Int] : Built(f, L, 0, s)
  <2> HIDE DEF L, s
  <2> QED
    BY <1>1, <1>2, Recursion
<1>4. ASSUME NEW k \in 1 .. L
      PROVE  f[k] = AviaNext(points, k, f[k - 1])
  <2>1. k - 1 \in 0 .. L /\ f[k - 1] \in Int
    BY <1>1
  <2>2. f[k] = s[k][f[k - 1]]
    BY <1>3 DEF Built
  <2> QED
    BY <2>1, <2>2
<1>5. f[0] = 0
  BY <1>3 DEF Built
<1>6. E(f)
  <2>1. f = [k \in 0 .. L |-> f[k]]
    OBVIOUS
  <2>2. \A k \in 0 .. L : f[k] = IF k = 0 \/ points[k].line >= N_SCANS THEN 0
                          ELSE LET d == points[k].time - f[k - 1] IN
                               IF d < Ms /\ -d < Ms THEN points[k].time
                               ELSE IF k = 1 THEN 0 ELSE f[k - 1] + Step
    <3>1. \A k \in 0 .. L : k = 0 \/ k \in 1 .. L
      BY <1>1
    <3> HIDE DEF L, s
    <3> QED
      BY <1>4, <1>5, <3>1 DEF AviaNext
  <2> QED
    BY <2>1, <2>2
<1> DEFINE F == CHOOSE g : E(g)
<1>7. AviaTimes(points) = [k \in 1 .. L |-> F[k]]
  BY Zenon DEF AviaTimes
<1>8. E(F)
  <2> HIDE DEF E
  <2> QED
    BY <1>6
<1> HIDE DEF F
<1>9. F[0] = 0 /\ \A k \in 1 .. L : F[k] = AviaNext(points, k, F[k - 1])
  <2>1. 0 \in 0 .. L /\ \A k \in 1 .. L : k \in 0 .. L /\ k # 0
    BY <1>1
  <2> QED
    BY <1>8, <2>1 DEF AviaNext
<1> DEFINE T == {k \in 0 .. L : F[k] \in Int}
<1>10. \A k \in 0 .. L : k \in T
  <2>1. 0 \in T
    BY <1>1, <1>9
  <2>2. ASSUME NEW k \in 1 .. L, k - 1 \in T PROVE k \in T
    <3>1. F[k - 1] \in Int
      BY <2>2
    <3>2. AviaNext(points, k, F[k - 1]) \in Int
      BY <3>1, <1>1, TimesAssumption DEF AviaNext
    <3> QED
      BY <1>9, <3>2
  <2> HIDE DEF T, L
  <2> QED
    BY <1>1, <2>1, <2>2, UpTo
<1>11. F \in [0 .. L -> Int]
  <2>1. F = [k \in 0 .. L |-> F[k]]
    BY <1>8, Zenon
  <2> QED
    BY <1>10, <2>1
<1> HIDE DEF E, s, T
<1>12. AviaBy(F, points)
  BY <1>7, <1>9, <1>11 DEF AviaBy
<1> QED
  BY <1>12

\* No two points of a Livox scan as far as 1 ms apart
Gapless(points) ==
  /\ points[1].time < Ms
  /\ \A k \in 1 .. Len(points) - 1 : points[k + 1].time - points[k].time < Ms

LEMMA AviaTimesRight ==
  ASSUME NEW points \in Seq(Points), InOrder(points)
  PROVE  /\ DOMAIN AviaTimes(points) = 1 .. Len(points)
         /\ \A k \in 1 .. Len(points) :
              AviaTimes(points)[k] \in Nat /\ AviaTimes(points)[k] <= points[k].time
         /\ AllValid(points) =>
              /\ \A k \in 1 .. Len(points) - 1 : AviaTimes(points)[k] <= AviaTimes(points)[k + 1]
              /\ Gapless(points) =>
                   \A k \in 1 .. Len(points) : AviaTimes(points)[k] = points[k].time
<1> DEFINE L == Len(points)
           time(k) == points[k].time
           valid(k) == points[k].line < N_SCANS
<1>0. PICK c : AviaBy(c, points)
  BY AviaSteps
<1>1. /\ c \in [0 .. L -> Int] /\ c[0] = 0
      /\ AviaTimes(points) = [k \in 1 .. L |-> c[k]]
      /\ \A k \in 1 .. L : c[k] = AviaNext(points, k, c[k - 1])
  BY <1>0 DEF AviaBy
<1>2. /\ L \in Nat /\ Ms \in Nat /\ Step \in Nat /\ Step < Ms /\ N_SCANS \in Nat
      /\ \A k \in 1 .. L : time(k) \in Nat /\ points[k].line \in Nat
  BY PointTypes, TimesAssumption, CountsAssumption
<1>3. \A k \in 2 .. L : k \in 1 .. L /\ k - 1 \in 1 .. L /\ time(k - 1) <= time(k)
  <2> SUFFICES ASSUME NEW k \in 2 .. L
               PROVE  k \in 1 .. L /\ k - 1 \in 1 .. L /\ time(k - 1) <= time(k)
    OBVIOUS
  <2> DEFINE p == k - 1
  <2>1. p \in 1 .. L - 1 /\ p \in 1 .. L /\ p + 1 = k /\ k \in 1 .. L
    BY <1>2
  <2> HIDE DEF p
  <2>2. points[p].time <= points[p + 1].time
    BY <2>1 DEF InOrder
  <2> QED
    BY <2>1, <2>2 DEF p
<1>4. \A k \in 1 .. L : c[k] = IF ~valid(k) THEN 0
                       ELSE IF time(k) - c[k - 1] < Ms /\ -(time(k) - c[k - 1]) < Ms THEN time(k)
                       ELSE IF k = 1 THEN 0 ELSE c[k - 1] + Step
  BY <1>1, <1>2 DEF AviaNext
<1> HIDE DEF L, time, valid
\* A point is not dated after it was measured.
<1> DEFINE Early(k) == c[k] \in Nat /\ (k >= 1 => c[k] <= time(k))
           T == {k \in 0 .. L : Early(k)}
<1>5. \A k \in 0 .. L : k \in T
  <2>1. Early(0)
    BY <1>1
  <2>2. ASSUME NEW k \in 1 .. L, Early(k - 1) PROVE Early(k)
    <3> DEFINE last == c[k - 1]
    <3>1. /\ last \in Nat /\ time(k) \in Nat /\ last <= time(k)
          /\ c[k] = IF ~valid(k) THEN 0
                    ELSE IF time(k) - last < Ms /\ -(time(k) - last) < Ms THEN time(k)
                    ELSE IF k = 1 THEN 0 ELSE last + Step
      <4>1. CASE k = 1
        BY <4>1, <1>1, <1>2, <1>4
      <4>2. CASE k # 1
        <5>1. k \in 2 .. L /\ k - 1 >= 1 /\ k - 1 \in 1 .. L
          BY <4>2, <1>2
        <5>2. last <= time(k - 1) /\ time(k - 1) <= time(k) /\ time(k - 1) \in Nat
              /\ time(k) \in Nat /\ last \in Nat
          BY <5>1, <1>2, <1>3, <2>2
        <5>3. last <= time(k)
          BY <5>2
        <5> QED
          BY <1>4, <5>2, <5>3
      <4> QED
        BY <4>1, <4>2
    <3> HIDE DEF last
    <3> QED
      BY <1>2, <3>1
  <2> HIDE DEF Early
  <2>3. 0 \in T
    BY <2>1, <1>2
  <2>4. \A k \in 1 .. L : k - 1 \in T => k \in T
    BY <2>2
  <2> HIDE DEF T
  <2> QED
    BY <1>2, <2>3, <2>4, UpTo
<1>6. \A k \in 1 .. L : c[k] \in Nat /\ c[k] <= time(k) /\ c[k - 1] \in Nat
  <2> SUFFICES ASSUME NEW k \in 1 .. L
               PROVE  c[k] \in Nat /\ c[k] <= time(k) /\ c[k - 1] \in Nat
    OBVIOUS
  <2>1. k \in 0 .. L /\ k - 1 \in 0 .. L /\ k >= 1
    BY <1>2
  <2> QED
    BY <1>5, <2>1
<1> HIDE DEF T
\* None goes back.
<1>7. ASSUME AllValid(points), NEW k \in 2 .. L
      PROVE  c[k - 1] <= c[k]
  <2>1. /\ k \in 1 .. L /\ k - 1 \in 1 .. L /\ time(k - 1) <= time(k) /\ k # 1
        /\ time(k) \in Nat /\ time(k - 1) \in Nat
        /\ c[k - 1] <= time(k - 1) /\ c[k - 1] \in Nat
    BY <1>2, <1>3, <1>6
  <2>2. valid(k)
    BY <1>7, <2>1 DEF AllValid, valid, L
  <2>3. c[k] = IF time(k) - c[k - 1] < Ms /\ -(time(k) - c[k - 1]) < Ms THEN time(k)
               ELSE c[k - 1] + Step
    BY <1>4, <2>1, <2>2
  <2> QED
    BY <1>2, <2>1, <2>3
\* Without a gap they are the true times.
<1>8. ASSUME AllValid(points), Gapless(points)
      PROVE  \A k \in 1 .. L : c[k] = time(k)
  <2> DEFINE Right(k) == k >= 1 => c[k] = time(k)
             R == {k \in 0 .. L : Right(k)}
  <2>1. Right(0)
    OBVIOUS
  <2>2. ASSUME NEW k \in 1 .. L, Right(k - 1) PROVE Right(k)
    <3> DEFINE last == c[k - 1]
    <3>1. time(k) - last < Ms /\ last <= time(k) /\ last \in Nat /\ time(k) \in Nat
      <4>1. CASE k = 1
        <5>1. time(1) < Ms
          BY <1>8 DEF Gapless, time
        <5> QED
          BY <4>1, <5>1, <1>1, <1>2
      <4>2. CASE k # 1
        <5> DEFINE p == k - 1
        <5>1. k \in 2 .. L /\ p >= 1 /\ p \in 1 .. L - 1 /\ p + 1 = k /\ p \in 1 .. L
          BY <4>2, <1>2
        <5>2. last = time(p) /\ time(p) <= time(k) /\ time(p) \in Nat /\ time(k) \in Nat
          BY <2>2, <5>1, <1>2, <1>3
        <5> HIDE DEF p, last
        <5>3. time(p + 1) - time(p) < Ms
          BY <1>8, <5>1 DEF Gapless, time, L
        <5> QED
          BY <5>1, <5>2, <5>3
      <4> QED
        BY <4>1, <4>2
    <3>2. valid(k)
      BY <1>8 DEF AllValid, valid, L
    <3>3. c[k] = IF time(k) - last < Ms /\ -(time(k) - last) < Ms THEN time(k)
                 ELSE IF k = 1 THEN 0 ELSE last + Step
      BY <1>4, <3>2
    <3> DEFINE t == time(k)
    <3>4. t - last < Ms /\ last <= t /\ last \in Nat /\ t \in Nat /\ Ms \in Nat /\ 0 < Ms
      BY <1>2, <3>1
    <3>5. c[k] = IF t - last < Ms /\ -(t - last) < Ms THEN t
                 ELSE IF k = 1 THEN 0 ELSE last + Step
      BY <3>3
    <3> HIDE DEF last, t
    <3>6. t - last < Ms /\ -(t - last) < Ms
      BY <3>4
    <3>7. c[k] = t
      BY <3>5, <3>6
    <3> QED
      BY <3>7 DEF t
  <2> HIDE DEF Right
  <2>a. 0 \in R
    BY <2>1, <1>2
  <2>b. ASSUME NEW k \in 1 .. L, k - 1 \in R PROVE k \in R
    <3>1. Right(k - 1)
      BY <2>b
    <3>2. Right(k)
      BY <2>2, <3>1
    <3>3. k \in 0 .. L
      BY <1>2
    <3> QED
      BY <3>2, <3>3
  <2> HIDE DEF R
  <2>3. 0 \in R /\ \A k \in 1 .. L : k - 1 \in R => k \in R
    BY <2>a, <2>b
  <2>4. \A k \in 0 .. L : k \in R
    BY <1>2, <2>3, UpTo
  <2>5. \A k \in 1 .. L : k \in 0 .. L /\ k >= 1
    BY <1>2
  <2> QED
    BY <2>4, <2>5 DEF R, Right
<1> DEFINE t == AviaTimes(points)
<1>9. DOMAIN t = 1 .. L /\ \A k \in 1 .. L : t[k] = c[k]
  BY <1>1
<1> HIDE DEF t
<1>10. ASSUME AllValid(points), NEW k \in 1 .. L - 1
       PROVE  t[k] <= t[k + 1]
  <2> DEFINE n == k + 1
  <2>1. n \in 2 .. L /\ n - 1 = k /\ n \in 1 .. L /\ k \in 1 .. L
    BY <1>2
  <2> HIDE DEF n
  <2>2. c[n - 1] <= c[n]
    BY <1>7, <1>10, <2>1
  <2>3. t[k] <= t[n]
    BY <1>9, <2>1, <2>2
  <2> QED
    BY <2>3 DEF n
<1> QED
  BY <1>6, <1>8, <1>9, <1>10 DEF t, L, time

-----------------------------------------------------------------------------
(* Times from the direction *)

LEMMA Divides ==
  ASSUME NEW a \in Int, NEW b \in Nat \ {0}
  PROVE  a % b \in 0 .. b - 1 /\ \E q \in Int : a = b * q + (a % b)
<1>1. a % b \in 0 .. b - 1
  OBVIOUS
<1>2. a \div b \in Int /\ a = b * (a \div b) + (a % b)
  OBVIOUS
<1> QED
  BY <1>1, <1>2

LEMMA YawRange ==
  ASSUME NEW p, p.time \in Nat
  PROVE  Yaw(p) \in 0 .. Turn - 1 /\ Yaw(p) \in Int
<1>1. Turn \in Nat \ {0}
  BY TimesAssumption
<1>2. Turn - p.time \in Int
  BY <1>1
<1>3. (Turn - p.time) % Turn \in 0 .. Turn - 1
  BY <1>1, <1>2, Divides
<1> QED
  BY <1>1, <1>3 DEF Yaw

LEMMA Multiples ==
  ASSUME NEW b \in Nat \ {0}, NEW q \in Int
  PROVE  /\ b * q \in Int
         /\ q >= 2 => b * q >= 2 * b
         /\ q <= -1 => b * q <= -b
         /\ q = 0 => b * q = 0
         /\ q = 1 => b * q = b
         /\ q = 2 => b * q = 2 * b
  OBVIOUS
LEMMA Distributes ==
  ASSUME NEW b \in Nat, NEW q \in Int, NEW p \in Int
  PROVE  b * (q - p) = b * q - b * p
  OBVIOUS

\* What is between two directions: the time between them, if that is less than
\* a revolution; one revolution less, if it is less than two.
Between(fp, yaw) == IF yaw <= fp THEN fp - yaw ELSE fp - yaw + Turn

LEMMA BetweenRight ==
  ASSUME NEW p \in Points, NEW q \in Points, q.time - p.time \in 0 .. 2 * Turn - 1
  PROVE  /\ Between(Yaw(p), Yaw(q)) \in 0 .. Turn - 1
         /\ q.time - p.time \in {Between(Yaw(p), Yaw(q)), Between(Yaw(p), Yaw(q)) + Turn}
<1> DEFINE a == p.time
           b == q.time
           u == Yaw(p)
           v == Yaw(q)
<1>1. a \in Nat /\ b \in Nat /\ Turn \in Nat \ {0} /\ b - a \in 0 .. 2 * Turn - 1
  BY TimesAssumption DEF Points
<1>2. u \in 0 .. Turn - 1 /\ \E m \in Int : Turn - a = Turn * m + u
  <2>1. Turn - a \in Int /\ u = (Turn - a) % Turn
    BY <1>1 DEF Yaw
  <2> HIDE DEF u, a
  <2> QED
    BY <1>1, <2>1, Divides
<1>3. v \in 0 .. Turn - 1 /\ \E m \in Int : Turn - b = Turn * m + v
  <2>1. Turn - b \in Int /\ v = (Turn - b) % Turn
    BY <1>1 DEF Yaw
  <2> HIDE DEF v, b
  <2> QED
    BY <1>1, <2>1, Divides
<1>4. PICK m \in Int : Turn - a = Turn * m + u
  BY <1>2
<1>5. PICK n \in Int : Turn - b = Turn * n + v
  BY <1>3
<1> HIDE DEF a, b, u, v
<1> DEFINE k == m - n
           w == Turn * k
<1>6. w = Turn * m - Turn * n /\ k \in Int
  BY <1>1, Distributes
<1>7. /\ w \in Int
      /\ k >= 2 => w >= 2 * Turn
      /\ k <= -1 => w <= -Turn
      /\ k = 0 => w = 0
      /\ k = 1 => w = Turn
      /\ k = 2 => w = 2 * Turn
  <2> HIDE DEF k
  <2> QED
    BY <1>1, <1>6, Multiples
<1> DEFINE c == Turn * m
           d == Turn * n
<1>8. c \in Int /\ d \in Int
  BY <1>1, Multiples
<1>9. w = c - d /\ Turn - a = c + u /\ Turn - b = d + v
  BY <1>4, <1>5, <1>6
<1> HIDE DEF c, d, w
<1>10. b - a = w + (u - v)
  BY <1>1, <1>2, <1>3, <1>7, <1>8, <1>9
<1>11. \/ u >= v /\ (w = 0 \/ w = Turn)
       \/ u < v /\ (w = Turn \/ w = 2 * Turn)
  <2>1. k <= -1 \/ k = 0 \/ k = 1 \/ k = 2 \/ k >= 3
    BY <1>6
  <2>2. k >= 3 => w >= 3 * Turn
    <3> SUFFICES ASSUME k >= 3 PROVE w >= 3 * Turn
      OBVIOUS
    <3>1. k - 1 >= 2 /\ k - 1 \in Int
      BY <1>6
    <3>2. Turn * (k - 1) >= 2 * Turn /\ Turn * (k - 1) = Turn * k - Turn * 1
      BY <1>1, <1>6, <3>1, Multiples, Distributes
    <3>3. w = Turn * k
      BY DEF w
    <3> DEFINE x == Turn * k
               y == Turn * (k - 1)
    <3>4. y >= 2 * Turn /\ y = x - Turn /\ w = x /\ x \in Int
      BY <1>1, <1>7, <3>2, <3>3
    <3> HIDE DEF x, y
    <3> QED
      BY <1>1, <3>4
  <2> HIDE DEF k
  <2> QED
    BY <1>1, <1>2, <1>3, <1>7, <1>10, <2>1, <2>2
<1>12. Between(u, v) \in 0 .. Turn - 1
       /\ b - a \in {Between(u, v), Between(u, v) + Turn}
  BY <1>1, <1>2, <1>3, <1>7, <1>10, <1>11 DEF Between
<1> QED
  BY <1>12 DEF a, b, u, v

\* The points before k on its line
EarlierOn(points, k) == {m \in 1 .. k - 1 : points[m].line = points[k].line}

\* The time of point k after those of last
YawNext(points, k, last) ==
  IF FirstOfLine(points, k) THEN 0
  ELSE LET angle == Between(Yaw(points[Min(EarlierOn(points, k))]), Yaw(points[k]))
       IN  IF angle < last[Max(EarlierOn(points, k))] THEN angle + Turn ELSE angle

LEMMA BeforeThere ==
  ASSUME NEW points, NEW k \in Nat, ~FirstOfLine(points, k), k >= 1
  PROVE  /\ Max(EarlierOn(points, k)) \in EarlierOn(points, k)
         /\ \A m \in EarlierOn(points, k) : m <= Max(EarlierOn(points, k))
         /\ Min(EarlierOn(points, k)) \in EarlierOn(points, k)
         /\ \A m \in EarlierOn(points, k) : Min(EarlierOn(points, k)) <= m
<1>1. EarlierOn(points, k) # {} /\ EarlierOn(points, k) \subseteq 0 .. k
      /\ EarlierOn(points, k) \subseteq Nat
  BY DEF FirstOfLine, EarlierOn
<1> QED
  BY <1>1, LeastOf, MostOf

LEMMA YawSteps ==
  ASSUME NEW points \in Seq(Points)
  PROVE  /\ DOMAIN YawTimes(points) = 1 .. Len(points)
         /\ \A k \in 1 .. Len(points) : YawTimes(points)[k] = YawNext(points, k, YawTimes(points))
<1> DEFINE L == Len(points)
           E(f) == f = [k \in 1 .. L |->
             IF FirstOfLine(points, k) THEN 0
             ELSE LET before == {m \in 1 .. k - 1 : points[m].line = points[k].line}
                      fp     == Yaw(points[Min(before)])
                      yaw    == Yaw(points[k])
                      angle  == IF yaw <= fp THEN fp - yaw ELSE fp - yaw + Turn
                  IN  IF angle < f[Max(before)] THEN angle + Turn ELSE angle]
           G(f, n) == f = [k \in 1 .. n |-> YawNext(points, k, f)]
           T == {n \in 0 .. L : \E f : G(f, n)}
<1>1. L \in Nat
  OBVIOUS
<1>2. 0 \in T
  <2>1. G([k \in 1 .. 0 |-> 0], 0)
    OBVIOUS
  <2> HIDE DEF G
  <2> QED
    BY <1>1, <2>1
<1>3. ASSUME NEW n \in 1 .. L, n - 1 \in T PROVE n \in T
  <2>1. PICK g : G(g, n - 1)
    BY <1>3
  <2> DEFINE f == [k \in 1 .. n |-> YawNext(points, k, g)]
  <2>2. ASSUME NEW k \in 1 .. n PROVE YawNext(points, k, f) = YawNext(points, k, g)
    <3>1. CASE FirstOfLine(points, k)
      BY <3>1 DEF YawNext
    <3>2. CASE ~FirstOfLine(points, k)
      <4> DEFINE m == Max(EarlierOn(points, k))
      <4>1. m \in EarlierOn(points, k)
        BY <3>2, BeforeThere
      <4> HIDE DEF m
      <4>2. m \in 1 .. n - 1 /\ m \in 1 .. n
        BY <4>1 DEF EarlierOn
      <4>3. g[m] = YawNext(points, m, g)
        BY <2>1, <4>2
      <4>4. f[m] = g[m]
        BY <4>2, <4>3
      <4> HIDE DEF f
      <4> QED
        BY <4>4 DEF YawNext, m
    <3> QED
      BY <3>1, <3>2
  <2>3. G(f, n)
    <3>1. f = [k \in 1 .. n |-> f[k]]
      OBVIOUS
    <3>2. \A k \in 1 .. n : f[k] = YawNext(points, k, g)
      OBVIOUS
    <3> HIDE DEF f
    <3>3. \A k \in 1 .. n : f[k] = YawNext(points, k, f)
      BY <2>2, <3>2
    <3> QED
      BY <3>1, <3>3
  <2> HIDE DEF f, G
  <2> QED
    BY <2>3
<1>4. \A n \in 0 .. L : n \in T
  <2> HIDE DEF T
  <2> QED
    BY <1>1, <1>2, <1>3, UpTo
<1>5. PICK g : G(g, L)
  <2>1. L \in T
    BY <1>1, <1>4
  <2> HIDE DEF G, L
  <2> QED
    BY <2>1
<1>6. \A f : E(f) <=> G(f, L)
  <2> SUFFICES ASSUME NEW f PROVE E(f) <=> G(f, L)
    OBVIOUS
  <2>1. \A k \in 1 .. L : YawNext(points, k, f) =
             IF FirstOfLine(points, k) THEN 0
             ELSE LET before == {m \in 1 .. k - 1 : points[m].line = points[k].line}
                      fp     == Yaw(points[Min(before)])
                      yaw    == Yaw(points[k])
                      angle  == IF yaw <= fp THEN fp - yaw ELSE fp - yaw + Turn
                  IN  IF angle < f[Max(before)] THEN angle + Turn ELSE angle
    BY Zenon DEF YawNext, EarlierOn, Between
  <2> HIDE DEF L
  <2> QED
    BY <2>1, Zenon
<1>7. YawTimes(points) = CHOOSE f : E(f)
  BY Zenon DEF YawTimes
<1>8. E(YawTimes(points))
  <2>1. E(g)
    BY <1>5, <1>6
  <2> HIDE DEF E, G
  <2> QED
    BY <1>7, <2>1
<1> DEFINE c == YawTimes(points)
<1>9. G(c, L)
  <2> HIDE DEF E, G
  <2> QED
    BY <1>6, <1>8
<1> HIDE DEF c
<1> QED
  BY <1>9, Zenon DEF c

\* A line seen in each revolution, for less than two
OnLine(points, k) == {m \in 1 .. Len(points) : points[m].line = points[k].line}
Since(points, k, m) == points[m].time - points[Min(OnLine(points, k))].time
Seen(points, k) ==
  /\ \A m \in OnLine(points, k) \ {Min(OnLine(points, k))} :
       points[m].time - points[Max({x \in OnLine(points, k) : x < m})].time \in 0 .. Turn - 1
  /\ \A m \in OnLine(points, k) : Since(points, k, m) < 2 * Turn

LEMMA YawTimesTrue ==
  ASSUME NEW points \in Seq(Points), NEW k \in 1 .. Len(points), Seen(points, k)
  PROVE  YawTimes(points)[k] = Since(points, k, k)
<1> DEFINE L == Len(points)
           c == YawTimes(points)
           mine == OnLine(points, k)
           first == Min(mine)
           since(m) == Since(points, k, m)
<1>1. L \in Nat /\ \A m \in 1 .. L : points[m].time \in Nat /\ points[m] \in Points
  BY PointTypes
<1>2. \A m \in 1 .. L : c[m] = YawNext(points, m, c)
  BY YawSteps
<1>3. k \in mine /\ mine \subseteq 1 .. L /\ mine \subseteq Nat
  BY <1>1 DEF OnLine
<1>4. first \in mine /\ \A m \in mine : first <= m
  <2> HIDE DEF mine
  <2> QED
    BY <1>3, LeastOf
<1>5. first \in 1 .. L /\ points[first].time \in Nat
  BY <1>1, <1>3, <1>4
<1>6. \A m \in mine : m \in 1 .. L /\ since(m) = points[m].time - points[first].time
                      /\ points[m].time \in Nat /\ since(m) \in Int
  BY <1>1, <1>3, <1>5 DEF Since
<1> DEFINE Good(n) == \A m \in mine : m <= n => c[m] = since(m) /\ since(m) \in Nat
           T == {n \in 0 .. L : Good(n)}
<1>7. Good(0)
  BY <1>6
<1>8. ASSUME NEW n \in 1 .. L, Good(n - 1) PROVE Good(n)
  <2>1. CASE n \notin mine
    <3>1. \A m \in mine : m <= n => m <= n - 1
      BY <1>6, <2>1
    <3> QED
      BY <1>8, <3>1
  <2>2. ASSUME n \in mine PROVE c[n] = since(n) /\ since(n) \in Nat
    <3>1. CASE n = first
      <4>1. FirstOfLine(points, n)
        <5>1. ASSUME NEW m \in 1 .. n - 1, points[m].line = points[n].line PROVE FALSE
          <6>1. m \in mine
            BY <1>1, <1>4, <5>1, <3>1 DEF OnLine
          <6> QED
            BY <1>4, <3>1, <5>1, <6>1
        <5> QED
          BY <5>1 DEF FirstOfLine
      <4>2. c[n] = 0
        BY <1>2, <4>1 DEF YawNext
      <4>3. since(n) = 0
        BY <1>5, <1>6, <2>2, <3>1
      <4> QED
        BY <4>2, <4>3
    <3>2. CASE n # first
      <4> DEFINE b == EarlierOn(points, n)
                 p == Max(b)
                 angle == Between(Yaw(points[Min(b)]), Yaw(points[n]))
      <4>1. b = {x \in mine : x < n}
        BY <1>1, <2>2 DEF EarlierOn, OnLine
      <4>2. first \in b
        <5>1. first <= n /\ first \in 1 .. L /\ first \in mine
          BY <1>4, <1>5, <2>2
        <5> HIDE DEF first, mine, b
        <5>2. first < n
          BY <5>1, <3>2, <1>1
        <5> QED
          BY <5>1, <5>2, <4>1
      <4>3. ~FirstOfLine(points, n) /\ n \in Nat /\ n >= 1
        BY <4>2, <1>8 DEF EarlierOn, FirstOfLine
      <4>4. p \in b /\ Min(b) \in b /\ \A m \in b : Min(b) <= m
        BY <4>3, BeforeThere
      <4>5. Min(b) = first
        <5>1. Min(b) <= first /\ first <= Min(b) /\ Min(b) \in Nat /\ first \in Nat
          <6> HIDE DEF b, mine
          <6> QED
            BY <4>1, <4>2, <4>4, <1>3, <1>4
        <5> QED
          BY <5>1
      <4>6. p \in mine /\ p < n /\ p <= n - 1
        <5> HIDE DEF b, p, mine
        <5>1. p \in mine /\ p < n
          BY <4>1, <4>4
        <5> QED
          BY <5>1, <1>6
      <4>7. c[p] = since(p) /\ since(p) \in Nat
        BY <1>8, <4>6
      <4>8. points[n].time - points[p].time \in 0 .. Turn - 1
        <5>1. points[n].time - points[Max({x \in mine : x < n})].time \in 0 .. Turn - 1
          BY <2>2, <3>2 DEF Seen
        <5> QED
          BY <4>1, <5>1
      <4>9. since(n) < 2 * Turn
        BY <2>2 DEF Seen
      <4>10. Turn \in Nat
        BY TimesAssumption
      <4>11. /\ since(n) \in 0 .. 2 * Turn - 1
             /\ since(n) >= since(p) /\ since(n) < since(p) + Turn
             /\ since(n) = points[n].time - points[first].time
        <5> DEFINE tn == points[n].time
                   tp == points[p].time
                   tf == points[first].time
        <5>1. /\ tn \in Nat /\ tp \in Nat /\ tf \in Nat
              /\ since(n) = tn - tf /\ since(p) = tp - tf
          BY <1>5, <1>6, <2>2, <4>6
        <5>2. since(p) >= 0 /\ tn - tp >= 0 /\ tn - tp < Turn /\ since(n) < 2 * Turn
          BY <4>7, <4>8, <4>9, <4>10, <5>1
        <5> HIDE DEF tn, tp, tf, since
        <5>3. /\ since(n) \in 0 .. 2 * Turn - 1
              /\ since(n) >= since(p) /\ since(n) < since(p) + Turn
          BY <5>1, <5>2, <4>10
        <5> QED
          BY <5>1, <5>3 DEF tn, tf
      <4>12. angle \in 0 .. Turn - 1 /\ since(n) \in {angle, angle + Turn}
        <5>1. points[first] \in Points /\ points[n] \in Points
          BY <1>1, <1>5
        <5>2. points[n].time - points[first].time \in 0 .. 2 * Turn - 1
          BY <4>11
        <5> QED
          BY <5>1, <5>2, <4>5, <4>11, BetweenRight
      <4>13. c[n] = IF angle < c[p] THEN angle + Turn ELSE angle
        BY <1>2, <4>3 DEF YawNext
      <4> HIDE DEF angle, since, p
      <4> QED
        BY <4>7, <4>10, <4>11, <4>12, <4>13
    <3> QED
      BY <3>1, <3>2
  <2>3. CASE n \in mine
    <3>1. \A m \in mine : m <= n => m <= n - 1 \/ m = n
      BY <1>6
    <3> HIDE DEF since, mine, c
    <3> QED
      BY <1>8, <2>2, <2>3, <3>1
  <2> QED
    BY <2>1, <2>3
<1> HIDE DEF Good
<1>9. 0 \in T /\ \A n \in 1 .. L : n - 1 \in T => n \in T
  BY <1>1, <1>7, <1>8
<1> HIDE DEF T
<1>10. \A n \in 0 .. L : n \in T
  BY <1>1, <1>9, UpTo
<1>11. Good(k)
  BY <1>10 DEF T
<1> QED
  BY <1>3, <1>6, <1>11 DEF Good

-----------------------------------------------------------------------------
(* What the handlers make of a scan when they extract no features *)

AScan == [points : Seq(Points), timed : BOOLEAN]

\* Each entry is one point, no two of the same.
EachOnce(surf, b) ==
  /\ \A n \in DOMAIN surf : \E k \in 1 .. b : surf[n].of = {k}
  /\ \A m, n \in DOMAIN surf : m # n => surf[m].of \cap surf[n].of = {}

LEMMA EntriesRight ==
  ASSUME NEW b \in Nat, NEW S, NEW q, Ascends(q, b, S), NEW c
  PROVE  /\ DOMAIN Entries(q, c) = 1 .. Len(q) /\ Len(Entries(q, c)) = Len(q)
         /\ Len(q) \in Nat
         /\ \A n \in 1 .. Len(q) : /\ q[n] \in 1 .. b
                                   /\ Entries(q, c)[n].of = {q[n]}
                                   /\ Entries(q, c)[n].curvature = c[q[n]]
         /\ EachOnce(Entries(q, c), b)
<1>1. Len(q) \in Nat /\ \A n \in 1 .. Len(q) : q[n] \in 1 .. b /\ q[n] \in Nat
  BY DEF Ascends
<1>2. /\ DOMAIN Entries(q, c) = 1 .. Len(q) /\ Len(Entries(q, c)) = Len(q)
      /\ \A n \in 1 .. Len(q) : /\ Entries(q, c)[n].of = {q[n]}
                                /\ Entries(q, c)[n].curvature = c[q[n]]
  BY <1>1 DEF Entries, Entry
<1>3. ASSUME NEW m \in 1 .. Len(q), NEW n \in 1 .. Len(q), m # n
      PROVE  q[m] # q[n]
  <2>1. m < n \/ n < m
    BY <1>3, <1>1
  <2>2. q[m] < q[n] \/ q[n] < q[m]
    BY <2>1 DEF Ascends
  <2>3. q[m] \in Nat /\ q[n] \in Nat
    BY <1>1
  <2> QED
    BY <2>2, <2>3
<1>4. EachOnce(Entries(q, c), b)
  <2> DEFINE f == Entries(q, c)
  <2>1. DOMAIN f = 1 .. Len(q) /\ Len(f) = Len(q) /\ \A n \in 1 .. Len(q) : f[n].of = {q[n]}
    BY <1>2
  <2> HIDE DEF f
  <2>2. EachOnce(f, b)
    BY <1>1, <1>3, <2>1 DEF EachOnce
  <2> QED
    BY <2>2 DEF f
<1> QED
  BY <1>1, <1>2, <1>4

LEMMA EveryNthAscends ==
  ASSUME NEW s \in AScan
  PROVE  Ascends(EveryNth(s), Len(s.points), Nth(s)) /\ Len(s.points) \in Nat
<1>1. Len(s.points) \in Nat
  BY DEF AScan
<1> QED
  BY <1>1, KeptAscends DEF EveryNth

\* The scan was kept as it is, with some times.
LEMMA SurfKept ==
  ASSUME NEW s \in AScan, lidar_type \in LidarTypes, lidar_type # "PANDAR128",
         NEW surf \in Surf(s), s.points # << >>
  PROVE  \E q, S, c : /\ Ascends(q, Len(s.points), S) /\ surf = Entries(q, c)
                      /\ lidar_type = "AVIA" => c = AviaTimes(s.points)
                      /\ lidar_type = "VELO16" /\ ~given_offset_time(s) => c = YawTimes(s.points)
<1>1. Len(s.points) \in Nat
  BY DEF AScan
<1>2. CASE lidar_type = "AVIA"
  <2>1. surf = avia_handler(s)
    BY <1>2 DEF Surf
  <2> DEFINE valid == {k \in DOMAIN s.points : s.points[k].line < N_SCANS}
             nth == {k \in valid : Cardinality({m \in valid : m <= k}) % point_filter_num = 0}
             S == {k \in nth : ~s.points[k].near}
             q == Kept(Len(s.points), S)
  <2>2. surf = Entries(q, AviaTimes(s.points))
    BY <2>1, Zenon DEF avia_handler
  <2>3. Ascends(q, Len(s.points), S)
    BY <1>1, KeptAscends
  <2> HIDE DEF q, S
  <2> QED
    BY <1>2, <2>2, <2>3
<1>3. CASE lidar_type = "L515"
  <2>1. surf = l515_handler(s)
    BY <1>3 DEF Surf
  <2> QED
    BY <1>3, <2>1, EveryNthAscends, Zenon DEF l515_handler
<1>4. CASE lidar_type = "OUST64"
  <2>1. surf = oust64_handler(s)
    BY <1>4 DEF Surf
  <2> QED
    BY <1>4, <2>1, EveryNthAscends, Zenon DEF oust64_handler
<1>5. CASE lidar_type = "XT32"
  <2>1. surf = xt32_handler(s)
    BY <1>5 DEF Surf
  <2> QED
    BY <1>5, <2>1, EveryNthAscends, Zenon DEF xt32_handler
<1>6. CASE lidar_type = "VELO16"
  <2>1. surf = velodyne_handler(s)
    BY <1>6 DEF Surf
  <2>2. CASE given_offset_time(s)
    <3>1. surf = Entries(EveryNth(s), Stamps(s))
      BY <2>1, <2>2, Zenon DEF velodyne_handler
    <3> QED
      BY <1>6, <2>2, <3>1, EveryNthAscends, Zenon
  <2>3. CASE ~given_offset_time(s)
    <3> DEFINE S == {k \in Nth(s) : ~FirstOfLine(s.points, k)}
               q == Kept(Len(s.points), S)
    <3>1. surf = Entries(q, YawTimes(s.points))
      BY <2>1, <2>3, Zenon DEF velodyne_handler
    <3>2. Ascends(q, Len(s.points), S)
      BY <1>1, KeptAscends
    <3> HIDE DEF q, S
    <3> QED
      BY <1>6, <3>1, <3>2
  <2> QED
    BY <2>2, <2>3
<1> QED
  BY <1>2, <1>3, <1>4, <1>5, <1>6, TypesAssumption

LEMMA SortedRight ==
  ASSUME NEW s \in AScan, NEW surf \in Pandar128_handler(s)
  PROVE  /\ Len(surf) \in Nat /\ DOMAIN surf = 1 .. Len(surf)
         /\ EachOnce(surf, Len(s.points))
         /\ \A n \in 1 .. Len(surf) - 1 : surf[n].curvature <= surf[n + 1].curvature
<1> DEFINE got == Entries(EveryNth(s), Stamps(s))
<1>1. PICK p \in [DOMAIN got -> DOMAIN got] :
        /\ \A m, n \in DOMAIN got : m # n => p[m] # p[n]
        /\ \A n \in 1 .. Len(got) - 1 : got[p[n]].curvature <= got[p[n + 1]].curvature
        /\ surf = [n \in DOMAIN got |-> got[p[n]]]
  BY DEF Pandar128_handler
<1>2. /\ Len(got) \in Nat /\ DOMAIN got = 1 .. Len(got) /\ EachOnce(got, Len(s.points))
  BY EveryNthAscends, EntriesRight
<1> HIDE DEF got
<1>3. Len(surf) = Len(got) /\ DOMAIN surf = 1 .. Len(got)
      /\ \A n \in 1 .. Len(got) : surf[n] = got[p[n]] /\ p[n] \in 1 .. Len(got)
  BY <1>1, <1>2
<1>4. EachOnce(surf, Len(s.points))
  <2>1. ASSUME NEW n \in DOMAIN surf
        PROVE  \E k \in 1 .. Len(s.points) : surf[n].of = {k}
    <3>1. p[n] \in DOMAIN got /\ surf[n] = got[p[n]]
      BY <1>2, <1>3
    <3> QED
      BY <1>2, <3>1 DEF EachOnce
  <2>2. ASSUME NEW m \in DOMAIN surf, NEW n \in DOMAIN surf, m # n
        PROVE  surf[m].of \cap surf[n].of = {}
    <3>1. p[m] # p[n]
      BY <1>1, <1>2, <1>3, <2>2
    <3>2. /\ p[n] \in DOMAIN got /\ surf[n] = got[p[n]]
          /\ p[m] \in DOMAIN got /\ surf[m] = got[p[m]]
      BY <1>2, <1>3
    <3>3. got[p[m]].of \cap got[p[n]].of = {}
      BY <1>2, <3>1, <3>2 DEF EachOnce
    <3> QED
      BY <3>2, <3>3
  <2> QED
    BY <2>1, <2>2 DEF EachOnce
<1>5. ASSUME NEW n \in 1 .. Len(surf) - 1
      PROVE  surf[n].curvature <= surf[n + 1].curvature
  <2>1. n \in 1 .. Len(got) - 1 /\ n \in 1 .. Len(got) /\ n + 1 \in 1 .. Len(got)
    BY <1>2, <1>3
  <2> QED
    BY <1>1, <1>3, <2>1
<1> QED
  BY <1>2, <1>3, <1>4, <1>5

LEMMA SurfEachOnce ==
  ASSUME NEW s \in AScan, lidar_type \in LidarTypes, NEW surf \in Surf(s)
  PROVE  EachOnce(surf, Len(s.points))
<1>1. Len(s.points) \in Nat
  BY DEF AScan
<1>2. CASE lidar_type = "PANDAR128"
  <2>1. surf \in Pandar128_handler(s)
    BY <1>2 DEF Surf
  <2> QED
    BY <2>1, SortedRight
<1>3. CASE lidar_type # "PANDAR128" /\ s.points # << >>
  <2>1. PICK q, S, c : Ascends(q, Len(s.points), S) /\ surf = Entries(q, c)
    BY <1>3, SurfKept
  <2> QED
    BY <1>1, <2>1, EntriesRight
<1>4. CASE lidar_type # "PANDAR128" /\ s.points = << >>
  <2>1. Len(s.points) = 0 /\ DOMAIN s.points = {}
    BY <1>4
  <2>2. \A S, c : DOMAIN Entries(Kept(Len(s.points), S), c) = {}
    <3> SUFFICES ASSUME NEW S, NEW c PROVE DOMAIN Entries(Kept(Len(s.points), S), c) = {}
      OBVIOUS
    <3> DEFINE q == Kept(Len(s.points), S)
    <3>1. Ascends(q, 0, S)
      BY <2>1, KeptAscends
    <3>2. Len(q) = 0
      BY <3>1 DEF Ascends
    <3> HIDE DEF q
    <3> QED
      BY <3>1, <3>2, EntriesRight DEF q
  <2>3. DOMAIN surf = {}
    BY <1>4, <2>2, TypesAssumption
       DEF Surf, avia_handler, l515_handler, oust64_handler, velodyne_handler, xt32_handler, EveryNth
  <2> QED
    BY <2>3 DEF EachOnce
<1> QED
  BY <1>2, <1>3, <1>4

-----------------------------------------------------------------------------
(* The points that have become features: of the lines before, and of those   *)
(* give_feature has been over on this one, which end before the run it is in *)

Past(points, ln, q, d) ==
  {k \in 1 .. Len(points) : points[k].line < ln} \cup {q[m] : m \in {x \in 1 .. Len(q) : x < d}}

LineOf(points, ln) == {k \in 1 .. Len(points) : points[k].line = ln}

LEMMA PastGrows ==
  ASSUME NEW points \in Seq(Points), NEW ln \in Nat, NEW q,
         Ascends(q, Len(points), LineOf(points, ln))
  PROVE  /\ \A d, e \in Nat : d <= e => Past(points, ln, q, d) \subseteq Past(points, ln, q, e)
         /\ \A m \in 1 .. Len(q) : \A d \in Nat :
              /\ d <= m => q[m] \notin Past(points, ln, q, d)
              /\ m < d => q[m] \in Past(points, ln, q, d)
         /\ \A d \in Nat : \A r : Past(points, ln, q, d) \subseteq Past(points, ln + 1, r, 0)
         /\ \A r : Past(points, ln, r, 0) \subseteq Past(points, ln + 1, r, 0)
<1>1. /\ Len(q) \in Nat
      /\ \A m \in 1 .. Len(q) : q[m] \in LineOf(points, ln) /\ q[m] \in Nat
      /\ \A m, n \in 1 .. Len(q) : m < n => q[m] < q[n]
  BY DEF Ascends
<1>2. \A k \in 1 .. Len(points) : points[k].line \in Nat
  BY PointTypes
<1>3. ASSUME NEW d \in Nat, NEW e \in Nat, d <= e
      PROVE  Past(points, ln, q, d) \subseteq Past(points, ln, q, e)
  <2>1. \A x \in 1 .. Len(q) : x < d => x < e
    BY <1>1, <1>3
  <2> QED
    BY <2>1 DEF Past
<1>4. ASSUME NEW m \in 1 .. Len(q), NEW d \in Nat, d <= m
      PROVE  q[m] \notin Past(points, ln, q, d)
  <2>1. q[m] \in 1 .. Len(points) /\ points[q[m]].line = ln
    BY <1>1 DEF LineOf
  <2>2. ASSUME NEW x \in 1 .. Len(q), x < d, q[x] = q[m] PROVE FALSE
    <3>1. x < m
      BY <1>1, <1>4, <2>2
    <3>2. q[x] < q[m] /\ q[m] \in Nat
      BY <1>1, <3>1
    <3> QED
      BY <2>2, <3>2
  <2> QED
    BY <2>1, <2>2 DEF Past
<1>5. ASSUME NEW m \in 1 .. Len(q), NEW d \in Nat, m < d
      PROVE  q[m] \in Past(points, ln, q, d)
  BY <1>5 DEF Past
<1>6. ASSUME NEW d \in Nat, NEW r
      PROVE  Past(points, ln, q, d) \subseteq Past(points, ln + 1, r, 0)
  <2>1. \A k \in 1 .. Len(points) : points[k].line < ln => points[k].line < ln + 1
    BY <1>2
  <2>2. ASSUME NEW m \in 1 .. Len(q)
        PROVE  q[m] \in 1 .. Len(points) /\ points[q[m]].line < ln + 1
    BY <1>1 DEF LineOf
  <2> QED
    BY <2>1, <2>2 DEF Past
<1>7. ASSUME NEW r
      PROVE  Past(points, ln, r, 0) \subseteq Past(points, ln + 1, r, 0)
  <2>1. \A k \in 1 .. Len(points) : points[k].line < ln => points[k].line < ln + 1
    BY <1>2
  <2>2. ~ \E x \in 1 .. Len(r) : x < 0
    <3>1. \A x \in 1 .. Len(r) : x >= 1
      BY SMT
    <3> QED
      BY <3>1, SMT
  <2> QED
    BY <2>1 DEF Past
<1> QED
  BY <1>3, <1>4, <1>5, <1>6, <1>7

AnEntry == [of : SUBSET Nat, curvature : Int]

\* All features are of points of P, none of two.
Apart(surf, corn, P) ==
  /\ surf \in Seq(AnEntry) /\ corn \in Seq(Nat)
  /\ \A n \in 1 .. Len(surf) : surf[n].of \subseteq P
  /\ \A n \in 1 .. Len(corn) : corn[n] \in P
  /\ \A m, n \in 1 .. Len(surf) : m # n => surf[m].of \cap surf[n].of = {}
  /\ \A m \in 1 .. Len(surf) : \A n \in 1 .. Len(corn) : corn[n] \notin surf[m].of
  /\ \A m, n \in 1 .. Len(corn) : m # n => corn[m] # corn[n]

LEMMA ApartMore ==
  ASSUME NEW surf, NEW corn, NEW P, Apart(surf, corn, P), NEW Q, P \subseteq Q
  PROVE  Apart(surf, corn, Q)
  BY DEF Apart

LEMMA ApartSurf ==
  ASSUME NEW surf, NEW corn, NEW P, Apart(surf, corn, P), NEW Q, P \subseteq Q,
         NEW e \in AnEntry, e.of \subseteq Q, e.of \cap P = {}
  PROVE  Apart(Append(surf, e), corn, Q)
<1> DEFINE r == Append(surf, e)
           L == Len(surf)
<1>1. /\ surf \in Seq(AnEntry) /\ corn \in Seq(Nat) /\ L \in Nat
      /\ \A n \in 1 .. L : surf[n].of \subseteq P
      /\ \A n \in 1 .. Len(corn) : corn[n] \in P
      /\ \A m, n \in 1 .. L : m # n => surf[m].of \cap surf[n].of = {}
      /\ \A m \in 1 .. L : \A n \in 1 .. Len(corn) : corn[n] \notin surf[m].of
      /\ \A m, n \in 1 .. Len(corn) : m # n => corn[m] # corn[n]
  BY DEF Apart
<1>2. /\ r \in Seq(AnEntry) /\ Len(r) = L + 1 /\ r[L + 1] = e
      /\ \A n \in 1 .. L : r[n] = surf[n]
  BY <1>1, AppendProperties
<1>3. \A n \in 1 .. Len(r) : n \in 1 .. L \/ n = L + 1
  BY <1>1, <1>2
<1> HIDE DEF r, L
<1>4. ASSUME NEW m \in 1 .. Len(r), NEW n \in 1 .. Len(r), m # n
      PROVE  r[m].of \cap r[n].of = {}
  <2>1. CASE m \in 1 .. L /\ n \in 1 .. L
    BY <1>1, <1>2, <1>4, <2>1
  <2>2. CASE m \in 1 .. L /\ n = L + 1
    BY <1>1, <1>2, <2>2
  <2>3. CASE m = L + 1 /\ n \in 1 .. L
    BY <1>1, <1>2, <2>3
  <2> QED
    BY <1>3, <1>4, <2>1, <2>2, <2>3
<1>5. \A n \in 1 .. Len(r) : r[n].of \subseteq Q
  BY <1>1, <1>2, <1>3
<1>6. \A m \in 1 .. Len(r) : \A n \in 1 .. Len(corn) : corn[n] \notin r[m].of
  BY <1>1, <1>2, <1>3
<1>7. \A n \in 1 .. Len(corn) : corn[n] \in Q
  BY <1>1
<1> QED
  BY <1>1, <1>2, <1>4, <1>5, <1>6, <1>7 DEF Apart, r

LEMMA ApartCorn ==
  ASSUME NEW surf, NEW corn, NEW P, Apart(surf, corn, P), NEW Q, P \subseteq Q,
         NEW k \in Nat, k \in Q, k \notin P
  PROVE  Apart(surf, Append(corn, k), Q)
<1> DEFINE r == Append(corn, k)
           L == Len(corn)
<1>1. /\ surf \in Seq(AnEntry) /\ corn \in Seq(Nat) /\ L \in Nat
      /\ \A n \in 1 .. Len(surf) : surf[n].of \subseteq P
      /\ \A n \in 1 .. L : corn[n] \in P
      /\ \A m, n \in 1 .. Len(surf) : m # n => surf[m].of \cap surf[n].of = {}
      /\ \A m \in 1 .. Len(surf) : \A n \in 1 .. L : corn[n] \notin surf[m].of
      /\ \A m, n \in 1 .. L : m # n => corn[m] # corn[n]
  BY DEF Apart
<1>2. /\ r \in Seq(Nat) /\ Len(r) = L + 1 /\ r[L + 1] = k
      /\ \A n \in 1 .. L : r[n] = corn[n]
  BY <1>1, AppendProperties
<1>3. \A n \in 1 .. Len(r) : n \in 1 .. L \/ n = L + 1
  BY <1>1, <1>2
<1> HIDE DEF r, L
<1>4. ASSUME NEW m \in 1 .. Len(r), NEW n \in 1 .. Len(r), m # n
      PROVE  r[m] # r[n]
  <2>1. CASE m \in 1 .. L /\ n \in 1 .. L
    BY <1>1, <1>2, <1>4, <2>1
  <2>2. CASE m \in 1 .. L /\ n = L + 1
    BY <1>1, <1>2, <2>2
  <2>3. CASE m = L + 1 /\ n \in 1 .. L
    BY <1>1, <1>2, <2>3
  <2> QED
    BY <1>3, <1>4, <2>1, <2>2, <2>3
<1>5. \A n \in 1 .. Len(r) : r[n] \in Q
  BY <1>1, <1>2, <1>3
<1>6. \A m \in 1 .. Len(surf) : \A n \in 1 .. Len(r) : r[n] \notin surf[m].of
  BY <1>1, <1>2, <1>3
<1>7. \A n \in 1 .. Len(surf) : surf[n].of \subseteq Q
  BY <1>1
<1> QED
  BY <1>1, <1>2, <1>4, <1>5, <1>6, <1>7 DEF Apart, r

-----------------------------------------------------------------------------
(* The line that give_feature works on, and the mean of a run *)

LEMMA LineAscends ==
  ASSUME scan \in AScan, line \in Nat, Extracts, lidar_type \in LidarTypes
  PROVE  Ascends(pl, Len(scan.points), LineOf(scan.points, line))
<1> DEFINE L == Len(scan.points)
<1>1. L \in Nat /\ DOMAIN scan.points = 1 .. L
  BY DEF AScan
<1>2. ASSUME NEW q, NEW S, S \subseteq LineOf(scan.points, line), q = Kept(L, S)
      PROVE  Ascends(q, L, LineOf(scan.points, line))
  <2>1. Ascends(q, L, S)
    BY <1>1, <1>2, KeptAscends
  <2> QED
    BY <1>2, <2>1 DEF Ascends
<1>3. CASE lidar_type = "AVIA"
  <2> DEFINE S == {k \in DOMAIN scan.points : LET p == scan.points[k] IN
                         k > 1 /\ p.line = line /\ p.good /\ ~p.near}
  <2>1. S \subseteq LineOf(scan.points, line)
    BY <1>1 DEF LineOf
  <2>2. pl = Kept(L, S)
    <3>1. pl = avia_line(scan, line)
      BY <1>3 DEF pl
    <3> QED
      BY <3>1, Zenon DEF avia_line
  <2> HIDE DEF S
  <2> QED
    BY <1>2, <2>1, <2>2
<1>4. CASE lidar_type = "OUST64"
  <2> DEFINE S == {k \in DOMAIN scan.points : scan.points[k].line = line /\ ~scan.points[k].near}
  <2>1. S \subseteq LineOf(scan.points, line)
    BY <1>1 DEF LineOf
  <2>2. pl = Kept(L, S)
    <3>1. pl = oust64_line(scan, line)
      BY <1>4 DEF pl
    <3> QED
      BY <3>1, Zenon DEF oust64_line
  <2> HIDE DEF S
  <2> QED
    BY <1>2, <2>1, <2>2
<1>5. CASE lidar_type \in {"VELO16", "XT32"}
  <2> DEFINE S == {k \in DOMAIN scan.points :
                         /\ scan.points[k].line = line
                         /\ given_offset_time(scan) \/ ~FirstOfLine(scan.points, k)}
  <2>1. S \subseteq LineOf(scan.points, line)
    BY <1>1 DEF LineOf
  <2>2. pl = Kept(L, S)
    <3>1. pl = velodyne_line(scan, line)
      BY <1>5 DEF pl, xt32_line
    <3> QED
      BY <3>1, Zenon DEF velodyne_line
  <2> HIDE DEF S
  <2> QED
    BY <1>2, <2>1, <2>2
<1> QED
  BY <1>3, <1>4, <1>5, TypesAssumption DEF Extracts

LEMMA CurvatureInt ==
  ASSUME scan \in AScan
  PROVE  \A k \in 1 .. Len(scan.points) : Curvature(scan)[k] \in Int
<1>1. scan.points \in Seq(Points) /\ Len(scan.points) \in Nat /\ scan.timed \in BOOLEAN
  BY DEF AScan
<1>2. ASSUME NEW k \in 1 .. Len(scan.points)
      PROVE  Stamps(scan)[k] \in Int
  <2>1. scan.points[k].time \in Nat
    BY <1>1, PointTypes
  <2> QED
    BY <2>1 DEF Stamps, Stamp
<1>3. ASSUME NEW k \in 1 .. Len(scan.points)
      PROVE  YawTimes(scan.points)[k] \in Int
  <2> DEFINE points == scan.points
             b == Min(EarlierOn(points, k))
             angle == Between(Yaw(points[b]), Yaw(points[k]))
  <2>1. YawTimes(points)[k] = YawNext(points, k, YawTimes(points))
    BY <1>1, YawSteps
  <2>2. CASE FirstOfLine(points, k)
    BY <2>1, <2>2 DEF YawNext
  <2>3. CASE ~FirstOfLine(points, k)
    <3>1. b \in 1 .. Len(points)
      <4>1. b \in EarlierOn(points, k)
        BY <1>1, <2>3, BeforeThere
      <4> HIDE DEF b
      <4> QED
        BY <1>1, <4>1 DEF EarlierOn
    <3> HIDE DEF b
    <3>2. Yaw(points[b]) \in Int /\ Yaw(points[k]) \in Int /\ Turn \in Int
      <4>1. points[b].time \in Nat /\ points[k].time \in Nat
        BY <1>1, <3>1, PointTypes
      <4>2. Yaw(points[b]) \in Int /\ Yaw(points[k]) \in Int
        BY <4>1, YawRange
      <4> QED
        BY <4>2, TimesAssumption
    <3>3. angle \in Int /\ angle + Turn \in Int
      BY <3>2 DEF Between
    <3>4. YawTimes(points)[k] \in {angle, angle + Turn}
      BY <2>1, <2>3 DEF YawNext, b
    <3> HIDE DEF angle
    <3> QED
      BY <3>3, <3>4
  <2> QED
    BY <2>2, <2>3
<1> QED
  BY <1>2, <1>3 DEF Curvature

\* The sums of a run
SumBy(u, first, m, c) ==
  /\ u \in [0 .. m -> Int] /\ u[0] = 0
  /\ \A n \in 1 .. m : u[n] = u[n - 1] + c[pl[first + n - 1]]

LEMMA MeanSteps ==
  ASSUME NEW first \in Nat, NEW next \in Nat, first < next, NEW c,
         \A n \in first .. next - 1 : c[pl[n]] \in Int
  PROVE  \E u : /\ SumBy(u, first, next - first, c)
                /\ Mean(first, next, c).curvature = u[next - first] \div (next - first)
<1> DEFINE m == next - first
           s == [n \in 1 .. m |-> [x \in Int |-> x + c[pl[first + n - 1]]]]
           E(f) == f = [n \in 0 .. m |-> IF n = 0 THEN 0 ELSE f[n - 1] + c[pl[first + n - 1]]]
<1>1. m \in Nat /\ \A n \in 1 .. m : first + n - 1 \in first .. next - 1
  OBVIOUS
<1>2. \A n \in 1 .. m : c[pl[first + n - 1]] \in Int
  BY <1>1
<1> HIDE DEF m
<1>3. s \in [1 .. m -> [Int -> Int]] /\ 0 \in Int
  BY <1>2
<1>4. PICK f \in [0 .. m -> Int] : Built(f, m, 0, s)
  <2> HIDE DEF s
  <2> QED
    BY <1>1, <1>3, Recursion
<1>5. f[0] = 0 /\ \A n \in 1 .. m : f[n] = f[n - 1] + c[pl[first + n - 1]]
  <2>1. \A n \in 1 .. m : n - 1 \in 0 .. m /\ f[n - 1] \in Int
    BY <1>1
  <2>2. f[0] = 0 /\ \A n \in 1 .. m : f[n] = s[n][f[n - 1]]
    BY <1>4 DEF Built
  <2> QED
    BY <2>1, <2>2
<1>6. E(f)
  <2>1. f = [n \in 0 .. m |-> f[n]]
    OBVIOUS
  <2>2. \A n \in 0 .. m : f[n] = IF n = 0 THEN 0 ELSE f[n - 1] + c[pl[first + n - 1]]
    <3>1. \A n \in 0 .. m : n = 0 \/ n \in 1 .. m
      BY <1>1
    <3> QED
      BY <1>5, <3>1
  <2> QED
    BY <2>1, <2>2
<1> DEFINE F == CHOOSE g : E(g)
<1>7. Mean(first, next, c).curvature = F[m] \div m
  BY Zenon DEF Mean, m
<1>8. E(F)
  <2> HIDE DEF E
  <2> QED
    BY <1>6
<1> HIDE DEF F
<1>9. F[0] = 0 /\ \A n \in 1 .. m : F[n] = F[n - 1] + c[pl[first + n - 1]]
  <2>1. 0 \in 0 .. m /\ \A n \in 1 .. m : n \in 0 .. m /\ n # 0
    BY <1>1
  <2> QED
    BY <1>8, <2>1
<1> DEFINE T == {n \in 0 .. m : F[n] \in Int}
<1>10. \A n \in 0 .. m : n \in T
  <2>1. 0 \in T
    BY <1>1, <1>9
  <2>2. ASSUME NEW n \in 1 .. m, n - 1 \in T PROVE n \in T
    BY <1>2, <1>9, <2>2
  <2> HIDE DEF T
  <2> QED
    BY <1>1, <2>1, <2>2, UpTo
<1>11. F \in [0 .. m -> Int]
  <2>1. F = [n \in 0 .. m |-> F[n]]
    BY <1>8, Zenon
  <2> QED
    BY <1>10, <2>1
<1> HIDE DEF E, s, T
<1>12. SumBy(F, first, m, c)
  BY <1>9, <1>11 DEF SumBy
<1> QED
  BY <1>7, <1>12 DEF m

\* A mean of whole times; of one point, that point's.
LEMMA MeanRight ==
  ASSUME NEW first \in Nat, NEW next \in Nat, first < next, NEW c,
         \A n \in first .. next - 1 : c[pl[n]] \in Int
  PROVE  /\ Mean(first, next, c).of = {pl[n] : n \in first .. next - 1}
         /\ Mean(first, next, c).curvature \in Int
         /\ next = first + 1 => Mean(first, next, c).curvature = c[pl[first]]
<1>1. Mean(first, next, c).of = {pl[n] : n \in first .. next - 1}
  BY Zenon DEF Mean
<1>2. PICK u : /\ SumBy(u, first, next - first, c)
               /\ Mean(first, next, c).curvature = u[next - first] \div (next - first)
  BY MeanSteps
<1> DEFINE m == next - first
<1>3. m \in Nat \ {0} /\ u[m] \in Int /\ u[0] = 0
  BY <1>2 DEF SumBy
<1>4. u[m] \div m \in Int
  <2> DEFINE w == u[m]
  <2>1. w \in Int
    BY <1>3
  <2> HIDE DEF w, m
  <2> QED
    BY <1>3, <2>1
<1>5. ASSUME next = first + 1
      PROVE  u[m] \div m = c[pl[first]]
  <2>1. m = 1 /\ 1 \in 1 .. m /\ first \in first .. next - 1 /\ first + 1 - 1 = first
    BY <1>5
  <2>2. u[1] = u[1 - 1] + c[pl[first + 1 - 1]]
    BY <1>2, <2>1 DEF SumBy
  <2>3. u[1] = c[pl[first]] /\ c[pl[first]] \in Int
    BY <1>3, <2>1, <2>2
  <2> DEFINE w == u[1]
  <2>4. w \in Int /\ w \div 1 = w
    <3>1. w \in Int
      BY <2>3
    <3> HIDE DEF w
    <3> QED
      BY <3>1
  <2> QED
    BY <2>1, <2>3, <2>4
<1> QED
  BY <1>1, <1>2, <1>4, <1>5

-----------------------------------------------------------------------------
(* The invariant *)

ScanInv ==
  /\ lidar_type \in LidarTypes /\ feature_enabled \in BOOLEAN
  /\ scan \in AScan /\ (lidar_type = "AVIA" => InOrder(scan.points))
  /\ line \in Nat

StageInv ==
  /\ pc = "idle" => pl_surf = << >> /\ pl_corn = << >>
  /\ pc \in {"idle", "done"} \/ Extracts
  /\ pc = "done" /\ ~Extracts => pl_surf \in Surf(scan) /\ pl_corn = << >>
  /\ pc \in {"surf", "edge", "small"} => last_surface = NoSurface /\ Heads # {}
  /\ pc = "emit" => i \in 1 .. N + 1 /\ last_surface \in 0 .. i - 1

\* Where the points that may still become features begin
Upto == IF pc # "emit" THEN 0 ELSE IF last_surface = NoSurface THEN i ELSE last_surface

\* The entries that are one point have its time.
Dated(surf, times) ==
  \A n \in 1 .. Len(surf) : \A k : surf[n].of = {k} => surf[n].curvature = times[k]

FeatureInv ==
  Extracts => /\ Apart(pl_surf, pl_corn, Past(scan.points, line, pl, Upto))
              /\ Dated(pl_surf, Curvature(scan))

PreprocessInv == ScanInv /\ StageInv /\ FeatureInv

LEMMA NoneApart == \A P, c : Apart(<< >>, << >>, P) /\ Dated(<< >>, c)
<1>1. Len(<< >>) = 0 /\ << >> \in Seq(AnEntry) /\ << >> \in Seq(Nat)
  BY EmptySeq
<1>2. \A n \in 1 .. 0 : FALSE
  OBVIOUS
<1> QED
  BY <1>1, <1>2 DEF Apart, Dated

LEMMA NoScanIsScan == NoScan \in AScan /\ InOrder(NoScan.points)
<1>1. Len(<< >>) = 0 /\ << >> \in Seq(Points)
  BY EmptySeq
<1> QED
  BY <1>1 DEF NoScan, AScan, InOrder

LEMMA PreprocessStart == PreprocessInit => PreprocessInv
<1> SUFFICES ASSUME PreprocessInit PROVE PreprocessInv
  OBVIOUS
<1>1. ScanInv
  BY NoScanIsScan DEF PreprocessInit, ScanInv
<1>2. StageInv
  BY DEF PreprocessInit, StageInv
<1>3. FeatureInv
  BY NoneApart DEF PreprocessInit, FeatureInv
<1> QED
  BY <1>1, <1>2, <1>3 DEF PreprocessInv

LEMMA SameScan ==
  ASSUME UNCHANGED <<params, scan>>
  PROVE  /\ Extracts' <=> Extracts
         /\ Surf(scan)' = Surf(scan)
         /\ Curvature(scan)' = Curvature(scan)
         /\ lidar_type' = lidar_type /\ feature_enabled' = feature_enabled
         /\ UNCHANGED line => pl' = pl /\ N' = N /\ Heads' = Heads
<1>1. lidar_type' = lidar_type /\ feature_enabled' = feature_enabled /\ scan' = scan
  BY DEF params
<1>2. Extracts' <=> Extracts
  BY <1>1 DEF Extracts
<1>3. Surf(scan)' = Surf(scan)
  BY <1>1 DEF Surf
<1>4. Curvature(scan)' = Curvature(scan)
  BY <1>1 DEF Curvature
<1>5. ASSUME line' = line PROVE pl' = pl /\ N' = N /\ Heads' = Heads
  <2>1. pl' = pl
    BY <1>1, <1>5 DEF pl
  <2>2. N' = N
    BY <2>1 DEF N
  <2> QED
    BY <1>1, <2>1, <2>2 DEF Heads, Flat
<1> QED
  BY <1>1, <1>2, <1>3, <1>4, <1>5

LEMMA ProcessInv ==
  ASSUME PreprocessInv, pc = "idle", NEW s \in Scans(lidar_type, feature_enabled), process(s)
  PROVE  PreprocessInv'
<1> USE DEF PreprocessInv
<1>1. /\ lidar_type' = lidar_type /\ feature_enabled' = feature_enabled /\ line' = line
      /\ scan' = s /\ pl_corn' = << >>
      /\ lidar_type \in LidarTypes /\ feature_enabled \in BOOLEAN /\ line \in Nat
  BY DEF process, params, ScanInv, StageInv
<1>2. s \in AScan /\ (lidar_type = "AVIA" => InOrder(s.points))
  BY <1>1, ScansAssumption DEF AScan
<1>3. Extracts' <=> Extracts
  BY <1>1 DEF Extracts
<1>4. ScanInv'
  BY <1>1, <1>2 DEF ScanInv
<1>5. CASE Extracts
  <2>1. pl_surf' = << >> /\ pc' = "line"
    BY <1>5 DEF process
  <2>2. StageInv'
    BY <1>1, <1>3, <1>5, <2>1 DEF StageInv
  <2>3. FeatureInv'
    BY <1>1, <2>1, NoneApart DEF FeatureInv
  <2> QED
    BY <1>4, <2>2, <2>3
<1>6. CASE ~Extracts
  <2>1. pl_surf' \in Surf(s) /\ pc' = "done"
    BY <1>6 DEF process
  <2>2. Surf(scan)' = Surf(s)
    BY <1>1 DEF Surf
  <2>3. StageInv'
    BY <1>1, <1>3, <1>6, <2>1, <2>2 DEF StageInv
  <2>4. FeatureInv'
    BY <1>3, <1>6 DEF FeatureInv
  <2> QED
    BY <1>4, <2>3, <2>4
<1> QED
  BY <1>5, <1>6

LEMMA TakenInv == ASSUME PreprocessInv, Taken PROVE PreprocessInv'
<1> USE DEF PreprocessInv
<1>1. /\ lidar_type' = lidar_type /\ feature_enabled' = feature_enabled /\ line' = 0
      /\ scan' = NoScan /\ pl_surf' = << >> /\ pl_corn' = << >> /\ pc' = "idle"
      /\ lidar_type \in LidarTypes /\ feature_enabled \in BOOLEAN
  BY DEF Taken, params, ScanInv
<1>2. ScanInv'
  BY <1>1, NoScanIsScan DEF ScanInv
<1>3. StageInv'
  BY <1>1 DEF StageInv
<1>4. FeatureInv'
  BY <1>1, NoneApart DEF FeatureInv
<1> QED
  BY <1>2, <1>3, <1>4

\* What the invariant says of a line
LEMMA OfLine ==
  ASSUME PreprocessInv, Extracts
  PROVE  /\ Ascends(pl, Len(scan.points), LineOf(scan.points, line))
         /\ Len(scan.points) \in Nat /\ scan.points \in Seq(Points) /\ line \in Nat
         /\ N = Len(pl) /\ N \in Nat
         /\ Apart(pl_surf, pl_corn, Past(scan.points, line, pl, Upto))
         /\ Dated(pl_surf, Curvature(scan))
<1>1. ScanInv /\ FeatureInv
  BY DEF PreprocessInv
<1>2. Ascends(pl, Len(scan.points), LineOf(scan.points, line))
  BY <1>1, LineAscends DEF ScanInv
<1>3. N = Len(pl) /\ N \in Nat
  BY <1>2 DEF N, Ascends
<1> QED
  BY <1>1, <1>2, <1>3 DEF ScanInv, FeatureInv, AScan

\* The next line begins after all features.
LEMMA NextPast ==
  ASSUME PreprocessInv, Extracts, UNCHANGED <<params, scan, pl_surf, pl_corn>>,
         line' = line + 1, pc' # "emit"
  PROVE  FeatureInv'
<1>1. /\ Ascends(pl, Len(scan.points), LineOf(scan.points, line))
      /\ Len(scan.points) \in Nat /\ scan.points \in Seq(Points) /\ line \in Nat
      /\ Apart(pl_surf, pl_corn, Past(scan.points, line, pl, Upto))
      /\ Dated(pl_surf, Curvature(scan))
  BY OfLine
<1>2. Upto \in Nat /\ Upto' = 0
  <2>1. pc = "emit" => i \in 1 .. N + 1 /\ last_surface \in 0 .. i - 1
    BY DEF PreprocessInv, StageInv
  <2> QED
    BY <2>1, OfLine DEF Upto
<1> DEFINE P == Past(scan.points, line, pl, Upto)
           Q == Past(scan.points, line + 1, pl', 0)
<1>3. P \subseteq Q
  BY <1>1, <1>2, PastGrows
<1>4. Past(scan.points, line, pl, Upto)' = Q
  BY <1>2
<1> HIDE DEF P, Q
<1>5. Apart(pl_surf, pl_corn, Q)
  BY <1>1, <1>3, ApartMore DEF P
<1>6. pl_surf' = pl_surf /\ pl_corn' = pl_corn /\ Curvature(scan)' = Curvature(scan)
  BY SameScan
<1> QED
  BY <1>1, <1>4, <1>5, <1>6 DEF FeatureInv

LEMMA NextLineInv == ASSUME PreprocessInv, NextLine PROVE PreprocessInv'
<1>0. UNCHANGED <<params, scan, pl_surf, pl_corn>> /\ pc = "line"
  BY DEF NextLine
<1>1. /\ Extracts' <=> Extracts
      /\ Surf(scan)' = Surf(scan)
      /\ Curvature(scan)' = Curvature(scan)
      /\ lidar_type' = lidar_type /\ feature_enabled' = feature_enabled
      /\ scan' = scan /\ pl_surf' = pl_surf /\ pl_corn' = pl_corn
      /\ UNCHANGED line => pl' = pl /\ N' = N /\ Heads' = Heads
  BY <1>0, SameScan
<1>2. Extracts /\ ScanInv /\ FeatureInv /\ Upto = 0
  BY <1>0 DEF PreprocessInv, StageInv, Upto
<1>3. /\ Ascends(pl, Len(scan.points), LineOf(scan.points, line))
      /\ Len(scan.points) \in Nat /\ scan.points \in Seq(Points) /\ line \in Nat
      /\ Apart(pl_surf, pl_corn, Past(scan.points, line, pl, 0))
      /\ Dated(pl_surf, Curvature(scan))
  BY <1>2, OfLine
<1>4. CASE line = N_SCANS /\ pc' = "done" /\ UNCHANGED <<line, last_surface>>
  <2>1. ScanInv'
    BY <1>1, <1>2, <1>4 DEF ScanInv
  <2>2. StageInv'
    BY <1>1, <1>2, <1>4 DEF StageInv
  <2>3. FeatureInv'
    <3>1. Upto' = 0 /\ pl' = pl /\ line' = line
      BY <1>1, <1>4 DEF Upto
    <3> QED
      BY <1>1, <1>3, <3>1 DEF FeatureInv
  <2> QED
    BY <2>1, <2>2, <2>3 DEF PreprocessInv
<1>5. CASE line' = line + 1 /\ pc' \in {"line", "lost"}
  <2>1. ScanInv'
    BY <1>1, <1>2, <1>5 DEF ScanInv
  <2>2. StageInv'
    BY <1>1, <1>2, <1>5 DEF StageInv
  <2>3. FeatureInv'
    BY <1>0, <1>2, <1>5, NextPast
  <2> QED
    BY <2>1, <2>2, <2>3 DEF PreprocessInv
<1>6. CASE Heads # {} /\ pc' = "surf" /\ last_surface' = NoSurface /\ UNCHANGED line
  <2>1. ScanInv'
    BY <1>1, <1>2, <1>6 DEF ScanInv
  <2>2. StageInv'
    BY <1>1, <1>2, <1>6 DEF StageInv
  <2>3. FeatureInv'
    <3>1. Upto' = 0 /\ pl' = pl /\ line' = line
      BY <1>1, <1>6 DEF Upto
    <3> QED
      BY <1>1, <1>3, <3>1 DEF FeatureInv
  <2> QED
    BY <2>1, <2>2, <2>3 DEF PreprocessInv
<1>7. \/ line = N_SCANS /\ pc' = "done" /\ UNCHANGED <<line, last_surface>>
      \/ line' = line + 1 /\ pc' \in {"line", "lost"}
      \/ Heads # {} /\ pc' = "surf" /\ last_surface' = NoSurface /\ UNCHANGED line
  BY DEF NextLine
<1> QED
  BY <1>4, <1>5, <1>6, <1>7

\* The three loops before the last one give no feature.
LEMMA LoopsInv ==
  ASSUME PreprocessInv, pc \in {"surf", "edge", "small"},
         UNCHANGED <<params, scan, pl_surf, pl_corn, line, last_surface>>,
         pc' \in {"surf", "edge", "small", "lost"} \/ (pc' = "emit" /\ i' = head)
  PROVE  PreprocessInv'
<1>1. /\ Extracts' <=> Extracts
      /\ Surf(scan)' = Surf(scan)
      /\ Curvature(scan)' = Curvature(scan)
      /\ lidar_type' = lidar_type /\ feature_enabled' = feature_enabled
      /\ scan' = scan /\ pl_surf' = pl_surf /\ pl_corn' = pl_corn /\ line' = line
      /\ pl' = pl /\ N' = N /\ Heads' = Heads /\ last_surface' = last_surface
  BY SameScan
<1>2. Extracts /\ ScanInv /\ Upto = 0 /\ last_surface = NoSurface /\ Heads # {}
  BY DEF PreprocessInv, StageInv, Upto
<1>3. /\ Ascends(pl, Len(scan.points), LineOf(scan.points, line))
      /\ Len(scan.points) \in Nat /\ scan.points \in Seq(Points) /\ line \in Nat
      /\ N = Len(pl) /\ N \in Nat
      /\ Apart(pl_surf, pl_corn, Past(scan.points, line, pl, 0))
      /\ Dated(pl_surf, Curvature(scan))
  BY <1>2, OfLine
<1>4. head \in 1 .. N
  <2>1. Heads \subseteq Nat /\ Heads \subseteq 1 .. N
    BY <1>3 DEF Heads
  <2>2. head \in Heads
    BY <1>2, <2>1, LeastOf DEF head
  <2> QED
    BY <2>1, <2>2
<1>5. ScanInv'
  BY <1>1, <1>2 DEF ScanInv
<1>6. StageInv'
  <2>1. pc' = "emit" => i' \in 1 .. N' + 1 /\ last_surface' \in 0 .. i' - 1
    BY <1>1, <1>2, <1>3, <1>4 DEF NoSurface
  <2>2. (Heads # {})' /\ (last_surface = NoSurface)'
    BY <1>1, <1>2
  <2> QED
    BY <1>1, <1>2, <2>1, <2>2 DEF StageInv
<1>7. FeatureInv'
  <2>1. Upto' \in Nat
    BY <1>1, <1>2, <1>3, <1>4 DEF Upto, NoSurface
  <2> DEFINE P == Past(scan.points, line, pl, 0)
             Q == Past(scan.points, line, pl, Upto')
  <2>2. P \subseteq Q
    <3>1. 0 <= Upto'
      BY <2>1
    <3> QED
      BY <1>3, <2>1, <3>1, PastGrows
  <2>3. Past(scan.points, line, pl, Upto)' = Q
    BY <1>1
  <2> HIDE DEF P, Q
  <2>4. Apart(pl_surf, pl_corn, Q)
    BY <1>3, <2>2, ApartMore DEF P
  <2> QED
    BY <1>1, <1>3, <2>3, <2>4 DEF FeatureInv
<1> QED
  BY <1>5, <1>6, <1>7 DEF PreprocessInv

LEMMA DatedMore ==
  ASSUME NEW surf \in Seq(AnEntry), NEW c, Dated(surf, c), NEW e \in AnEntry,
         \A k : e.of = {k} => e.curvature = c[k]
  PROVE  Dated(Append(surf, e), c)
<1> DEFINE r == Append(surf, e)
           L == Len(surf)
<1>1. /\ r \in Seq(AnEntry) /\ Len(r) = L + 1 /\ r[L + 1] = e /\ L \in Nat
      /\ \A n \in 1 .. L : r[n] = surf[n]
  BY AppendProperties
<1>2. \A n \in 1 .. Len(r) : n \in 1 .. L \/ n = L + 1
  BY <1>1
<1>3. \A n \in 1 .. L : \A k : surf[n].of = {k} => surf[n].curvature = c[k]
  BY DEF Dated
<1> HIDE DEF r, L
<1>4. \A n \in 1 .. Len(r) : \A k : r[n].of = {k} => r[n].curvature = c[k]
  BY <1>1, <1>2, <1>3
<1> QED
  BY <1>4 DEF Dated, r

\* Where give_feature is, in its last loop
LEMMA Emitting ==
  ASSUME PreprocessInv, pc = "emit", i <= N
  PROVE  /\ i \in 1 .. N /\ last_surface \in 0 .. i - 1 /\ N = Len(pl) /\ N \in Nat
         /\ Upto = (IF last_surface = NoSurface THEN i ELSE last_surface) /\ Upto \in 1 .. i
         /\ \A n \in 1 .. N : /\ pl[n] \in Nat /\ Curvature(scan)[pl[n]] \in Int
                              /\ pl[n] \in 1 .. Len(scan.points)
         /\ \A m, n \in 1 .. N : m < n => pl[m] < pl[n]
<1>1. Extracts /\ ScanInv /\ i \in 1 .. N + 1 /\ last_surface \in 0 .. i - 1
  BY DEF PreprocessInv, StageInv
<1>2. /\ Ascends(pl, Len(scan.points), LineOf(scan.points, line))
      /\ N = Len(pl) /\ N \in Nat /\ scan \in AScan
  BY <1>1, OfLine DEF ScanInv
<1>3. \A n \in 1 .. N : pl[n] \in 1 .. Len(scan.points)
  BY <1>2 DEF Ascends
<1>4. \A m, n \in 1 .. N : m < n => pl[m] < pl[n]
  BY <1>2 DEF Ascends
<1>5. \A n \in 1 .. N : Curvature(scan)[pl[n]] \in Int
  BY <1>2, <1>3, CurvatureInt
<1>6. i \in 1 .. N
  BY <1>1, <1>2
<1>7. Upto = (IF last_surface = NoSurface THEN i ELSE last_surface)
  BY DEF Upto
<1>8. Upto \in 1 .. i
  BY <1>1, <1>6, <1>7 DEF NoSurface
<1> QED
  BY <1>1, <1>2, <1>3, <1>4, <1>5, <1>6, <1>7, <1>8

\* A step of the last loop: what remains to be shown of it
LEMMA EmitInv ==
  ASSUME PreprocessInv, pc = "emit", i <= N, UNCHANGED <<params, scan, pc, line>>,
         i' = i + 1, last_surface' \in 0 .. i,
         Apart(pl_surf', pl_corn', Past(scan.points, line, pl, Upto')),
         Dated(pl_surf', Curvature(scan))
  PROVE  PreprocessInv'
<1>1. /\ Extracts' <=> Extracts
      /\ Curvature(scan)' = Curvature(scan)
      /\ lidar_type' = lidar_type /\ feature_enabled' = feature_enabled
      /\ scan' = scan /\ line' = line /\ pl' = pl /\ N' = N /\ pc' = "emit"
  BY SameScan
<1>2. Extracts /\ ScanInv
  BY DEF PreprocessInv, StageInv
<1>3. i \in 1 .. N /\ N \in Nat
  BY Emitting
<1>4. ScanInv'
  BY <1>1, <1>2 DEF ScanInv
<1>5. StageInv'
  <2>1. i' \in 1 .. N' + 1 /\ last_surface' \in 0 .. i' - 1
    BY <1>1, <1>3
  <2> QED
    BY <1>1, <1>2, <2>1 DEF StageInv
<1>6. FeatureInv'
  BY <1>1 DEF FeatureInv
<1> QED
  BY <1>4, <1>5, <1>6 DEF PreprocessInv

LEMMA EmitPlaneInv == ASSUME PreprocessInv, EmitPlane PROVE PreprocessInv'
<1> DEFINE first == IF last_surface = NoSurface THEN i ELSE last_surface
           full == i = first + point_filter_num - 1
           e == Entry(pl[i], Curvature(scan))
           P == Past(scan.points, line, pl, first)
           Q == Past(scan.points, line, pl, i + 1)
<1>1. /\ pc = "emit" /\ i <= N /\ i' = i + 1 /\ UNCHANGED <<params, scan, pc, line>>
      /\ pl_surf' = IF full THEN Append(pl_surf, e) ELSE pl_surf
      /\ last_surface' = IF full THEN NoSurface ELSE first
      /\ pl_corn' = pl_corn
  BY DEF EmitPlane
<1>2. /\ i \in 1 .. N /\ N = Len(pl) /\ N \in Nat /\ Upto = first /\ first \in 1 .. i
      /\ pl[i] \in Nat /\ Curvature(scan)[pl[i]] \in Int
  BY <1>1, Emitting
<1>3. Extracts
  BY <1>1 DEF PreprocessInv, StageInv
<1>4. /\ Ascends(pl, Len(scan.points), LineOf(scan.points, line))
      /\ scan.points \in Seq(Points) /\ line \in Nat
      /\ Apart(pl_surf, pl_corn, P) /\ Dated(pl_surf, Curvature(scan))
  BY <1>2, <1>3, OfLine
<1>5. CASE full
  <2>1. last_surface' = 0 /\ pl_surf' = Append(pl_surf, e) /\ Upto' = i + 1
    BY <1>1, <1>2, <1>5 DEF NoSurface, Upto
  <2>2. first \in Nat /\ i + 1 \in Nat /\ first <= i + 1 /\ first <= i /\ i < i + 1
    <3>1. first \in 1 .. i /\ i \in 1 .. N /\ N \in Nat
      BY <1>2
    <3> HIDE DEF first
    <3> QED
      BY <3>1
  <2>3. P \subseteq Q /\ pl[i] \notin P /\ pl[i] \in Q
    <3> HIDE DEF first
    <3> QED
      BY <1>2, <1>4, <2>2, PastGrows
  <2>4. e \in AnEntry /\ e.of = {pl[i]} /\ e.curvature = Curvature(scan)[pl[i]]
    BY <1>2 DEF Entry, AnEntry
  <2>5. Apart(Append(pl_surf, e), pl_corn, Q)
    <3>1. e.of \subseteq Q /\ e.of \cap P = {}
      BY <2>3, <2>4
    <3> HIDE DEF e, P, Q
    <3> QED
      BY <1>4, <2>3, <2>4, <3>1, ApartSurf
  <2>6. Dated(Append(pl_surf, e), Curvature(scan))
    <3>1. \A k : e.of = {k} => e.curvature = Curvature(scan)[k]
      BY <2>4
    <3>2. pl_surf \in Seq(AnEntry)
      BY <1>4 DEF Apart
    <3> HIDE DEF e
    <3> QED
      BY <1>4, <2>4, <3>1, <3>2, DatedMore
  <2>7. last_surface' \in 0 .. i
    BY <1>2, <2>1
  <2> HIDE DEF e
  <2> QED
    BY <1>1, <2>1, <2>5, <2>6, <2>7, EmitInv
<1>6. CASE ~full
  <2>1. last_surface' = first /\ pl_surf' = pl_surf
    BY <1>1, <1>6
  <2>2. Upto' = first /\ last_surface' \in 0 .. i
    <3> HIDE DEF first
    <3> QED
      BY <1>1, <1>2, <2>1 DEF NoSurface, Upto
  <2>3. Apart(pl_surf', pl_corn', Past(scan.points, line, pl, Upto'))
        /\ Dated(pl_surf', Curvature(scan))
    BY <1>1, <1>4, <2>1, <2>2
  <2> QED
    BY <1>1, <2>2, <2>3, EmitInv
<1> QED
  BY <1>5, <1>6

LEMMA EmitOtherInv == ASSUME PreprocessInv, EmitOther PROVE PreprocessInv'
<1> DEFINE e == Mean(last_surface, i, Curvature(scan))
           P == Past(scan.points, line, pl, Upto)
           R == Past(scan.points, line, pl, i)
           Q == Past(scan.points, line, pl, i + 1)
<1>1. /\ pc = "emit" /\ i <= N /\ i' = i + 1 /\ UNCHANGED <<params, scan, pc, line>>
      /\ pl_corn' \in {pl_corn, Append(pl_corn, pl[i])}
      /\ pl_surf' = IF last_surface = NoSurface THEN pl_surf ELSE Append(pl_surf, e)
      /\ last_surface' = NoSurface
  BY DEF EmitOther
<1>2. /\ i \in 1 .. N /\ N = Len(pl) /\ N \in Nat /\ Upto \in 1 .. i
      /\ Upto = (IF last_surface = NoSurface THEN i ELSE last_surface)
      /\ last_surface \in 0 .. i - 1
      /\ \A n \in 1 .. N : pl[n] \in Nat /\ Curvature(scan)[pl[n]] \in Int
      /\ \A m, n \in 1 .. N : m < n => pl[m] < pl[n]
  BY <1>1, Emitting
<1>3. Extracts
  BY <1>1 DEF PreprocessInv, StageInv
<1>4. /\ Ascends(pl, Len(scan.points), LineOf(scan.points, line))
      /\ scan.points \in Seq(Points) /\ line \in Nat
      /\ Apart(pl_surf, pl_corn, P) /\ Dated(pl_surf, Curvature(scan))
  BY <1>3, OfLine
<1>5. Upto' = i + 1 /\ last_surface' \in 0 .. i
  BY <1>1, <1>2 DEF NoSurface, Upto
<1>6. P \subseteq R /\ R \subseteq Q
  <2>1. Upto \in Nat /\ i \in Nat /\ i + 1 \in Nat /\ Upto <= i /\ i <= i + 1
    BY <1>2
  <2> QED
    BY <1>4, <2>1, PastGrows
<1>7. pl[i] \in Q /\ pl[i] \notin R /\ pl[i] \in Nat
  <2>1. i \in Nat /\ i + 1 \in Nat /\ i <= i /\ i < i + 1 /\ i \in 1 .. Len(pl)
    BY <1>2
  <2> QED
    BY <1>2, <1>4, <2>1, PastGrows
<1>8. Apart(pl_surf', pl_corn, R) /\ Dated(pl_surf', Curvature(scan))
  <2>1. CASE last_surface = NoSurface
    BY <1>1, <1>4, <1>6, <2>1, ApartMore
  <2>2. CASE last_surface # NoSurface
    <3> DEFINE c == Curvature(scan)
    <3>0. last_surface \in 1 .. i - 1 /\ last_surface \in Nat /\ i \in Nat /\ last_surface < i
          /\ Upto = last_surface
      BY <1>2, <2>2 DEF NoSurface
    <3>1. \A n \in last_surface .. i - 1 : n \in 1 .. N /\ n \in 1 .. Len(pl)
      BY <1>2, <3>0
    <3>2. \A n \in last_surface .. i - 1 : c[pl[n]] \in Int
      BY <1>2, <3>1
    <3> HIDE DEF c
    <3>3. /\ e.of = {pl[n] : n \in last_surface .. i - 1}
          /\ e.curvature \in Int
          /\ i = last_surface + 1 => e.curvature = c[pl[last_surface]]
      BY <3>0, <3>2, MeanRight DEF c
    <3>4. e \in AnEntry
      <4>1. e = [of |-> e.of, curvature |-> e.curvature]
        BY DEF Mean
      <4>2. e.of \subseteq Nat
        BY <1>2, <3>1, <3>3
      <4> HIDE DEF e
      <4> QED
        BY <3>3, <4>1, <4>2 DEF AnEntry
    <3> HIDE DEF e
    <3>5. \A n \in last_surface .. i - 1 : pl[n] \in R /\ pl[n] \notin P
      <4> SUFFICES ASSUME NEW n \in last_surface .. i - 1 PROVE pl[n] \in R /\ pl[n] \notin P
        OBVIOUS
      <4>1. n \in 1 .. Len(pl) /\ n < i /\ Upto <= n /\ Upto \in Nat /\ i \in Nat
        BY <1>2, <3>0, <3>1
      <4> QED
        BY <1>4, <4>1, PastGrows
    <3>6. e.of \subseteq R /\ e.of \cap P = {}
      BY <3>3, <3>5
    <3>7. Apart(Append(pl_surf, e), pl_corn, R)
      <4> HIDE DEF P, R
      <4> QED
        BY <1>4, <1>6, <3>4, <3>6, ApartSurf
    <3>8. ASSUME NEW k, e.of = {k} PROVE e.curvature = c[k]
      <4>1. last_surface \in last_surface .. i - 1 /\ i - 1 \in last_surface .. i - 1
        BY <3>0
      <4>2. pl[last_surface] = k /\ pl[i - 1] = k
        BY <3>3, <3>8, <4>1
      <4>3. ~(last_surface < i - 1)
        <5>1. last_surface \in 1 .. N /\ i - 1 \in 1 .. N
          BY <3>1, <4>1
        <5>2. ~(pl[last_surface] < pl[i - 1])
          BY <1>2, <4>2, <5>1
        <5> QED
          BY <1>2, <5>1, <5>2
      <4>4. i = last_surface + 1
        BY <3>0, <4>3
      <4> QED
        BY <3>3, <4>2, <4>4
    <3>9. Dated(Append(pl_surf, e), Curvature(scan))
      <4>1. pl_surf \in Seq(AnEntry)
        BY <1>4 DEF Apart
      <4> QED
        BY <1>4, <3>4, <3>8, <4>1, DatedMore DEF c
    <3> QED
      BY <1>1, <2>2, <3>7, <3>9
  <2> QED
    BY <2>1, <2>2
<1> HIDE DEF P, Q, R
<1>9. Apart(pl_surf', pl_corn', Q)
  <2>1. CASE pl_corn' = pl_corn
    BY <1>6, <1>8, <2>1, ApartMore
  <2>2. CASE pl_corn' = Append(pl_corn, pl[i])
    <3>1. Apart(pl_surf', Append(pl_corn, pl[i]), Q)
      BY <1>6, <1>7, <1>8, ApartCorn
    <3> QED
      BY <2>2, <3>1
  <2> QED
    BY <1>1, <2>1, <2>2
<1> QED
  BY <1>1, <1>5, <1>8, <1>9, EmitInv DEF Q

LEMMA EmitDoneInv == ASSUME PreprocessInv, EmitDone PROVE PreprocessInv'
<1>1. /\ UNCHANGED <<params, scan, pl_surf, pl_corn>> /\ pc = "emit"
      /\ line' = line + 1 /\ pc' = "line"
  BY DEF EmitDone
<1>2. /\ Extracts' <=> Extracts
      /\ lidar_type' = lidar_type /\ feature_enabled' = feature_enabled
      /\ scan' = scan
  BY <1>1, SameScan
<1>3. Extracts /\ ScanInv
  BY <1>1 DEF PreprocessInv, StageInv
<1>4. ScanInv'
  BY <1>1, <1>2, <1>3 DEF ScanInv
<1>5. StageInv'
  BY <1>1, <1>2, <1>3 DEF StageInv
<1>6. FeatureInv'
  BY <1>1, <1>3, NextPast
<1> QED
  BY <1>4, <1>5, <1>6 DEF PreprocessInv

LEMMA StutterInv == ASSUME PreprocessInv, UNCHANGED preprocessVars PROVE PreprocessInv'
<1>1. /\ UNCHANGED <<params, scan>> /\ line' = line /\ pl_surf' = pl_surf /\ pl_corn' = pl_corn
      /\ pc' = pc /\ i' = i /\ last_surface' = last_surface
  BY DEF preprocessVars
<1>2. /\ Extracts' <=> Extracts
      /\ Surf(scan)' = Surf(scan)
      /\ Curvature(scan)' = Curvature(scan)
      /\ lidar_type' = lidar_type /\ feature_enabled' = feature_enabled
      /\ scan' = scan /\ pl' = pl /\ N' = N /\ Heads' = Heads
  BY <1>1, SameScan
<1>3. ScanInv'
  BY <1>1, <1>2 DEF PreprocessInv, ScanInv
<1>4. StageInv'
  BY <1>1, <1>2 DEF PreprocessInv, StageInv
<1>5. FeatureInv'
  <2>1. Upto' = Upto
    BY <1>1 DEF Upto
  <2> QED
    BY <1>1, <1>2, <2>1 DEF PreprocessInv, FeatureInv
<1> QED
  BY <1>3, <1>4, <1>5 DEF PreprocessInv

LEMMA PreprocessStep == PreprocessInv /\ [PreprocessNext]_preprocessVars => PreprocessInv'
<1> SUFFICES ASSUME PreprocessInv, [PreprocessNext]_preprocessVars PROVE PreprocessInv'
  OBVIOUS
<1>1. ASSUME pc = "idle", NEW s \in Scans(lidar_type, feature_enabled), process(s)
      PROVE  PreprocessInv'
  BY <1>1, ProcessInv
<1>2. CASE Taken
  BY <1>2, TakenInv
<1>3. CASE NextLine
  BY <1>3, NextLineInv
<1>4. CASE SurfDone
  BY <1>4, LoopsInv DEF SurfDone, lineVars
<1>5. CASE SurfNone
  BY <1>5, LoopsInv DEF SurfNone, lineVars
<1>6. ASSUME pc = "surf", NEW e, SurfPlane(e) PROVE PreprocessInv'
  <2>1. /\ UNCHANGED <<params, scan, pl_surf, pl_corn, line, last_surface>>
        /\ pc' \in {"surf", "lost"}
    BY <1>6 DEF SurfPlane, lineVars
  <2> QED
    BY <1>6, <2>1, LoopsInv
<1>7. CASE Edge
  <2>1. /\ UNCHANGED <<params, scan, pl_surf, pl_corn, line, last_surface>>
        /\ pc = "edge" /\ pc' \in {"edge", "small"}
    BY <1>7 DEF Edge, lineVars
  <2> QED
    BY <2>1, LoopsInv
<1>8. CASE SmallPlane
  <2>1. /\ UNCHANGED <<params, scan, pl_surf, pl_corn, line, last_surface>>
        /\ pc = "small" /\ (pc' = "small" \/ (pc' = "emit" /\ i' = head))
    BY <1>8 DEF SmallPlane, lineVars
  <2> QED
    BY <2>1, LoopsInv
<1>9. CASE EmitPlane
  BY <1>9, EmitPlaneInv
<1>10. CASE EmitOther
  BY <1>10, EmitOtherInv
<1>11. CASE EmitDone
  BY <1>11, EmitDoneInv
<1>12. CASE UNCHANGED preprocessVars
  BY <1>12, StutterInv
<1> QED
  BY <1>1, <1>2, <1>3, <1>4, <1>5, <1>6, <1>7, <1>8, <1>9, <1>10, <1>11, <1>12
     DEF PreprocessNext

LEMMA PreprocessInvariant == PreprocessSpec => []PreprocessInv
  BY PreprocessStart, PreprocessStep, PTL DEF PreprocessSpec

-----------------------------------------------------------------------------
(* What the mapper gets of a scan *)

\* Neighbours in order are all in order.
LEMMA AllInOrder ==
  ASSUME NEW b \in Nat, NEW t, \A k \in 1 .. b : t[k] \in Nat,
         \A k \in 1 .. b - 1 : t[k] <= t[k + 1],
         NEW m \in 1 .. b
  PROVE  \A n \in 1 .. b : m <= n => t[m] <= t[n]
<1> DEFINE Good(n) == n \in 1 .. b /\ m <= n => t[m] <= t[n]
           T == {n \in 0 .. b : Good(n)}
<1>1. Good(0)
  OBVIOUS
<1>2. ASSUME NEW n \in 1 .. b, Good(n - 1) PROVE Good(n)
  <2>1. CASE m = n
    BY <2>1
  <2>2. CASE m < n
    <3> DEFINE p == n - 1
    <3>1. p \in 1 .. b - 1 /\ p \in 1 .. b /\ p + 1 = n /\ m <= p
      BY <2>2
    <3> HIDE DEF p
    <3>2. t[m] <= t[p] /\ t[p] <= t[p + 1]
      BY <1>2, <3>1 DEF p
    <3> QED
      BY <3>1, <3>2
  <2> QED
    BY <2>1, <2>2
<1> HIDE DEF Good
<1>3. 0 \in T /\ \A n \in 1 .. b : n - 1 \in T => n \in T
  BY <1>1, <1>2
<1> HIDE DEF T
<1>4. \A n \in 0 .. b : n \in T
  BY <1>3, UpTo
<1> QED
  BY <1>4 DEF T, Good

LEMMA UsableTimes ==
  ASSUME PreprocessInv
  PROVE  TimesUsable
<1> SUFFICES ASSUME pc = "done", ~Extracts
             PROVE  TimesUsable
  BY DEF TimesUsable
<1> DEFINE points == scan.points
           at == [k \in DOMAIN pl_surf |-> pl_surf[k].curvature]
<1>1. /\ lidar_type \in LidarTypes /\ scan \in AScan /\ pl_surf \in Surf(scan)
      /\ lidar_type = "AVIA" => InOrder(points)
  BY DEF PreprocessInv, ScanInv, StageInv
<1>2. CASE lidar_type = "PANDAR128"
  <2>1. pl_surf \in Pandar128_handler(scan)
    BY <1>1, <1>2 DEF Surf
  <2>2. /\ Len(pl_surf) \in Nat /\ DOMAIN pl_surf = 1 .. Len(pl_surf)
        /\ \A n \in 1 .. Len(pl_surf) - 1 : pl_surf[n].curvature <= pl_surf[n + 1].curvature
    BY <1>1, <2>1, SortedRight
  <2>3. Len(at) = Len(pl_surf) /\ \A k \in 1 .. Len(pl_surf) : at[k] = pl_surf[k].curvature
    BY <2>2
  <2>4. \A k \in 1 .. Len(at) - 1 : at[k] <= at[k + 1]
    <3>1. \A k \in 1 .. Len(pl_surf) - 1 : k \in 1 .. Len(pl_surf) /\ k + 1 \in 1 .. Len(pl_surf)
      BY <2>2
    <3> HIDE DEF at
    <3> QED
      BY <2>2, <2>3, <3>1
  <2> HIDE DEF at
  <2> QED
    BY <1>2, <2>4 DEF TimesUsable, at
<1>3. CASE lidar_type = "AVIA" /\ points # << >>
  <2> DEFINE t == AviaTimes(points)
  <2>1. PICK q, S : Ascends(q, Len(points), S) /\ pl_surf = Entries(q, t)
    BY <1>1, <1>3, SurfKept
  <2>2. points \in Seq(Points) /\ Len(points) \in Nat
    BY <1>1 DEF AScan
  <2>3. /\ DOMAIN t = 1 .. Len(points)
        /\ \A k \in 1 .. Len(points) : t[k] \in Nat /\ t[k] <= points[k].time
        /\ AllValid(points) =>
              /\ \A k \in 1 .. Len(points) - 1 : t[k] <= t[k + 1]
              /\ Gapless(points) => \A k \in 1 .. Len(points) : t[k] = points[k].time
    BY <1>1, <1>3, <2>2, AviaTimesRight
  <2> HIDE DEF t
  <2>4. /\ DOMAIN pl_surf = 1 .. Len(q) /\ Len(q) \in Nat
        /\ \A n \in 1 .. Len(q) : /\ q[n] \in 1 .. Len(points)
                                  /\ pl_surf[n].of = {q[n]} /\ pl_surf[n].curvature = t[q[n]]
    BY <2>1, <2>2, EntriesRight
  <2>5. Len(at) = Len(q) /\ DOMAIN at = 1 .. Len(q) /\ \A n \in 1 .. Len(q) : at[n] = t[q[n]]
    BY <2>4
  <2> HIDE DEF at
  <2>6. ASSUME AllValid(points), NEW n \in 1 .. Len(at) - 1
        PROVE  at[n] <= at[n + 1]
    <3>1. n \in 1 .. Len(q) /\ n + 1 \in 1 .. Len(q) /\ n < n + 1
      BY <2>4, <2>5
    <3>2. q[n] < q[n + 1] /\ q[n] \in 1 .. Len(points) /\ q[n + 1] \in 1 .. Len(points)
      BY <2>1, <2>4, <3>1 DEF Ascends
    <3>3. q[n] <= q[n + 1]
      BY <3>2
    <3>4. t[q[n]] <= t[q[n + 1]]
      BY <2>2, <2>3, <2>6, <3>2, <3>3, AllInOrder
    <3> QED
      BY <2>5, <3>1, <3>4
  <2>7. \A n \in DOMAIN at : \A m \in pl_surf[n].of : at[n] <= points[m].time
    BY <2>3, <2>4, <2>5
  <2>8. ASSUME AllValid(points), Gapless(points), NEW n \in DOMAIN at, NEW m \in pl_surf[n].of
        PROVE  at[n] = points[m].time
    BY <2>3, <2>4, <2>5, <2>8
  <2>9. /\ lidar_type = "PANDAR128" \/ (lidar_type = "AVIA" /\ AllValid(scan.points)) =>
             \A k \in 1 .. Len(at) - 1 : at[k] <= at[k + 1]
        /\ \A k \in DOMAIN at : \A m \in pl_surf[k].of : at[k] <= scan.points[m].time
        /\ /\ AllValid(scan.points)
           /\ scan.points[1].time < Ms
           /\ \A k \in 1 .. Len(scan.points) - 1 : scan.points[k + 1].time - scan.points[k].time < Ms
           => \A k \in DOMAIN at : \A m \in pl_surf[k].of : at[k] = scan.points[m].time
    BY <1>3, <2>6, <2>7, <2>8 DEF Gapless
  <2> QED
    BY <2>9, Zenon DEF TimesUsable, at
<1>4. CASE lidar_type = "AVIA" /\ points = << >>
  <2>1. DOMAIN pl_surf = {} /\ Len(pl_surf) = 0
    <3> DEFINE valid == {k \in DOMAIN points : points[k].line < N_SCANS}
               nth == {k \in valid : Cardinality({m \in valid : m <= k}) % point_filter_num = 0}
               S == {k \in nth : ~points[k].near}
               q == Kept(Len(points), S)
    <3>1. pl_surf = avia_handler(scan)
      BY <1>1, <1>4 DEF Surf
    <3>2. pl_surf = Entries(q, AviaTimes(points))
      BY <3>1, Zenon DEF avia_handler
    <3>3. Len(points) = 0 /\ Ascends(q, 0, S)
      BY <1>4, KeptAscends
    <3> HIDE DEF q, S
    <3>4. Len(q) = 0
      BY <3>3 DEF Ascends
    <3> QED
      BY <3>2, <3>3, <3>4, EntriesRight
  <2>2. DOMAIN at = {} /\ Len(at) = 0
    BY <2>1
  <2> HIDE DEF at
  <2>3. /\ \A k \in 1 .. Len(at) - 1 : FALSE
        /\ \A k \in DOMAIN at : FALSE
    BY <2>2
  <2> QED
    BY <2>3, Zenon DEF TimesUsable, at
<1>5. CASE lidar_type \notin {"PANDAR128", "AVIA"}
  BY <1>5 DEF TimesUsable
<1> QED
  BY <1>2, <1>3, <1>4, <1>5

\* A Livox scan's points are never dated after they were measured, with gaps of
\* any length, and whatever points are kept; if all lines are configured they
\* are in time order (as are a Pandar128's), and without a gap of 1 ms their
\* times are true.
THEOREM TimesAreUsable == PreprocessSpec => []TimesUsable
<1>1. PreprocessInv => TimesUsable
  BY UsableTimes
<1> QED
  BY <1>1, PreprocessInvariant, PTL

LEMMA RightYawTimes ==
  ASSUME PreprocessInv
  PROVE  YawTimesRight
<1> SUFFICES ASSUME pc = "done", ~given_offset_time(scan),
                    lidar_type = "VELO16" \/ (lidar_type = "XT32" /\ feature_enabled),
                    NEW n \in DOMAIN pl_surf, Cardinality(pl_surf[n].of) = 1,
                    NEW k, k = CHOOSE m \in pl_surf[n].of : TRUE,
                    Seen(scan.points, k)
             PROVE  pl_surf[n].curvature = Since(scan.points, k, k)
  BY ZenonT(60) DEF YawTimesRight, Seen, Since, OnLine
<1> DEFINE points == scan.points
<1>1. scan \in AScan /\ points \in Seq(Points) /\ Len(points) \in Nat /\ lidar_type \in LidarTypes
  BY DEF PreprocessInv, ScanInv, AScan
<1>2. \E m \in 1 .. Len(points) : pl_surf[n].of = {m} /\ pl_surf[n].curvature = YawTimes(points)[m]
  <2>1. CASE Extracts
    <3>1. /\ Apart(pl_surf, pl_corn, Past(points, line, pl, Upto))
          /\ Dated(pl_surf, Curvature(scan))
          /\ Ascends(pl, Len(points), LineOf(points, line))
      BY <2>1, OfLine
    <3>2. Past(points, line, pl, Upto) \subseteq 1 .. Len(points)
      BY <3>1 DEF Past, Ascends
    <3>3. n \in 1 .. Len(pl_surf) /\ pl_surf[n].of \subseteq 1 .. Len(points)
      BY <3>1, <3>2 DEF Apart
    <3>4. IsFiniteSet(pl_surf[n].of)
      <4> DEFINE b == Len(points)
      <4>0. b \in Nat
        BY <1>1
      <4> HIDE DEF b
      <4>1. IsFiniteSet(1 .. b)
        BY ONLY <4>0, FS_Interval
      <4> QED
        BY <3>3, <4>1, FS_Subset DEF b
    <3>5. PICK m : pl_surf[n].of = {m}
      BY <3>4, FS_Singleton
    <3>6. pl_surf[n].curvature = Curvature(scan)[m]
      BY <3>1, <3>3, <3>5 DEF Dated
    <3>7. Curvature(scan) = YawTimes(points)
      BY DEF Curvature
    <3> QED
      BY <3>3, <3>5, <3>6, <3>7
  <2>2. CASE ~Extracts
    <3>1. pl_surf \in Surf(scan) /\ lidar_type = "VELO16"
      BY <2>2 DEF PreprocessInv, StageInv, Extracts
    <3>2. points # << >>
      <4>1. SUFFICES ASSUME points = << >> PROVE FALSE
        OBVIOUS
      <4>2. pl_surf = velodyne_handler(scan)
        BY <3>1 DEF Surf
      <4>3. pl_surf = << >>
        BY <4>1, <4>2 DEF velodyne_handler
      <4> QED
        BY <4>3
    <3>3. PICK q, S : Ascends(q, Len(points), S) /\ pl_surf = Entries(q, YawTimes(points))
      BY <1>1, <3>1, <3>2, SurfKept
    <3>4. /\ DOMAIN pl_surf = 1 .. Len(q)
          /\ \A m \in 1 .. Len(q) : /\ q[m] \in 1 .. Len(points)
                                    /\ pl_surf[m].of = {q[m]}
                                    /\ pl_surf[m].curvature = YawTimes(points)[q[m]]
      BY <1>1, <3>3, EntriesRight
    <3> QED
      BY <3>4
  <2> QED
    BY <2>1, <2>2
<1>3. k \in 1 .. Len(points) /\ pl_surf[n].curvature = YawTimes(points)[k]
  BY <1>2
<1> QED
  BY <1>1, <1>3, YawTimesTrue

\* For any directions the lidar may start in, any number of lines and points:
\* the time since the first point of the line, found from the directions alone.
THEOREM YawTimesAreRight == PreprocessSpec => []YawTimesRight
<1>1. PreprocessInv => YawTimesRight
  BY RightYawTimes
<1> QED
  BY <1>1, PreprocessInvariant, PTL

LEMMA Distinct ==
  ASSUME NEW q \in Seq(Nat), \A m, n \in 1 .. Len(q) : m # n => q[m] # q[n]
  PROVE  Cardinality(ToSet(q)) = Len(q)
<1> DEFINE D == 1 .. Len(q)
           S == ToSet(q)
<1>1. Len(q) \in Nat /\ DOMAIN q = D /\ q \in [D -> S]
  BY DEF ToSet
<1>2. S = {q[m] : m \in D}
  BY <1>1 DEF ToSet
<1>3. IsFiniteSet(D) /\ Cardinality(D) = Len(q)
  <2>1. IsFiniteSet(D) /\ Cardinality(D) = IF 1 > Len(q) THEN 0 ELSE Len(q) - 1 + 1
    BY <1>1, FS_Interval
  <2> QED
    BY <1>1, <2>1
<1>4. q \in Bijection(D, S)
  BY <1>1, <1>2 DEF Bijection, Injection, Surjection, IsInjective
<1>5. ExistsBijection(D, S)
  BY <1>4 DEF ExistsBijection
<1> HIDE DEF D, S
<1>6. Cardinality(S) = Cardinality(D)
  BY <1>3, <1>5, FS_Bijection
<1> QED
  BY <1>3, <1>6 DEF S

LEMMA FeaturesApart ==
  ASSUME PreprocessInv
  PROVE  OneFeatureEach
<1>1. CASE Extracts
  <2>1. Apart(pl_surf, pl_corn, Past(scan.points, line, pl, Upto))
    BY <1>1 DEF PreprocessInv, FeatureInv
  <2>2. /\ pl_surf \in Seq(AnEntry) /\ pl_corn \in Seq(Nat)
        /\ DOMAIN pl_surf = 1 .. Len(pl_surf) /\ DOMAIN pl_corn = 1 .. Len(pl_corn)
    BY <2>1 DEF Apart
  <2>3. Cardinality(ToSet(pl_corn)) = Len(pl_corn)
    BY <2>1, <2>2, Distinct DEF Apart
  <2>4. \A m, n \in DOMAIN pl_surf : m # n => pl_surf[m].of \cap pl_surf[n].of = {}
    BY <2>1, <2>2 DEF Apart
  <2>5. \A n \in DOMAIN pl_surf : pl_surf[n].of \cap ToSet(pl_corn) = {}
    BY <2>1, <2>2 DEF Apart, ToSet
  <2> QED
    BY <2>3, <2>4, <2>5 DEF OneFeatureEach
<1>2. CASE ~Extracts
  <2>1. pl_corn = << >>
    BY <1>2 DEF PreprocessInv, StageInv
  <2>2. Len(pl_corn) = 0 /\ ToSet(pl_corn) = {} /\ Cardinality(ToSet(pl_corn)) = 0
    <3>1. Len(pl_corn) = 0 /\ ToSet(pl_corn) = {}
      BY <2>1 DEF ToSet
    <3> QED
      BY <3>1, FS_EmptySet
  <2>3. \A m, n \in DOMAIN pl_surf : m # n => pl_surf[m].of \cap pl_surf[n].of = {}
    <3>1. CASE pc = "idle"
      BY <3>1 DEF PreprocessInv, StageInv
    <3>2. CASE pc # "idle"
      <4>1. pl_surf \in Surf(scan) /\ scan \in AScan /\ lidar_type \in LidarTypes
        BY <1>2, <3>2 DEF PreprocessInv, StageInv, ScanInv
      <4>2. EachOnce(pl_surf, Len(scan.points))
        BY <4>1, SurfEachOnce
      <4> QED
        BY <4>2 DEF EachOnce
    <3> QED
      BY <3>1, <3>2
  <2> QED
    BY <2>2, <2>3 DEF OneFeatureEach
<1> QED
  BY <1>1, <1>2

\* Whatever the geometry of a line and however long it is: the features of a
\* scan share no point.
THEOREM FeaturesShareNoPoint == PreprocessSpec => []OneFeatureEach
<1>1. PreprocessInv => OneFeatureEach
  BY FeaturesApart
<1> QED
  BY <1>1, PreprocessInvariant, PTL

-----------------------------------------------------------------------------
(* What loops pick from a sequence *)

Associated(x, y, z) == (x \o y) \o z = x \o (y \o z)
LEMMA Associates ==
  ASSUME NEW S, NEW x \in Seq(S), NEW y \in Seq(S), NEW z \in Seq(S)
  PROVE  Associated(x, y, z)
BY ConcatAssociative DEF Associated

\* The positions from a + 1 to b
Stretch(q, a, b) ==
  q \in Seq(Nat) /\ Len(q) = b - a /\ \A m \in 1 .. b - a : q[m] = a + m

LEMMA KeptInterval ==
  ASSUME NEW n \in Nat, NEW S, NEW a \in 0 .. n, NEW b \in a .. n,
         S \cap (1 .. n) = a + 1 .. b
  PROVE  Stretch(Kept(n, S), a, b)
<1>0. PICK u : KeptBy(u, n, S)
  BY KeptSteps
<1>1. /\ u \in [0 .. n -> Seq(Nat)]
      /\ u[0] = << >> /\ Kept(n, S) = u[n]
      /\ \A k \in 1 .. n : u[k] = IF k \in S THEN Append(u[k - 1], k) ELSE u[k - 1]
  BY <1>0 DEF KeptBy
<1> DEFINE Size(k) == IF k <= a THEN 0 ELSE IF k <= b THEN k - a ELSE b - a
           Good(k) == Len(u[k]) = Size(k) /\ \A m \in 1 .. Size(k) : u[k][m] = a + m
           T == {k \in 0 .. n : Good(k)}
<1>2. 0 \in T
  BY <1>1
<1>3. ASSUME NEW k \in 1 .. n, k - 1 \in T
      PROVE  k \in T
  <2> DEFINE q == u[k - 1]
  <2>1. q \in Seq(Nat) /\ Len(q) \in Nat /\ Good(k - 1)
    BY <1>1, <1>3
  <2>2. CASE k \in a + 1 .. b
    <3>1. u[k] = Append(q, k) /\ Size(k - 1) = k - 1 - a /\ Size(k) = k - a
      <4>1. k \in S
        BY <2>2
      <4>2. u[k] = Append(q, k)
        BY <1>1, <4>1
      <4>3. Size(k - 1) = k - 1 - a
        BY <2>2
      <4>4. Size(k) = k - a
        BY <2>2
      <4> QED
        BY <4>2, <4>3, <4>4
    <3> HIDE DEF q
    <3>2. Len(q) = k - 1 - a /\ \A m \in 1 .. k - 1 - a : q[m] = a + m
      BY <2>1, <3>1 DEF q
    <3>3. /\ Len(Append(q, k)) = Len(q) + 1
          /\ \A m \in 1 .. Len(q) : Append(q, k)[m] = q[m]
          /\ Append(q, k)[Len(q) + 1] = k
      BY <2>1, AppendProperties
    <3>4. \A m \in 1 .. k - a : Append(q, k)[m] = a + m
      <4> SUFFICES ASSUME NEW m \in 1 .. k - a PROVE Append(q, k)[m] = a + m
        OBVIOUS
      <4>1. CASE m = k - a
        BY <3>2, <3>3, <4>1
      <4>2. CASE m # k - a
        <5>1. m \in 1 .. Len(q)
          BY <3>2, <4>2
        <5> QED
          BY <3>2, <3>3, <5>1
      <4> QED
        BY <4>1, <4>2
    <3>5. Good(k)
      BY <2>2, <3>1, <3>2, <3>3, <3>4
    <3> HIDE DEF Good
    <3> QED
      BY <3>5
  <2>3. CASE k \notin a + 1 .. b
    <3>1. u[k] = q /\ Size(k) = Size(k - 1)
      <4>1. k \notin S
        BY <2>3
      <4>2. u[k] = q
        BY <1>1, <4>1
      <4>3. Size(k) = Size(k - 1)
        BY <2>3
      <4> QED
        BY <4>2, <4>3
    <3>2. Good(k)
      <4> HIDE DEF Size
      <4> QED
        BY <2>1, <3>1
    <3> HIDE DEF Good
    <3> QED
      BY <3>2
  <2> QED
    BY <2>2, <2>3
<1> HIDE DEF T
<1>4. n \in T
  BY <1>2, <1>3, UpTo
<1> QED
  BY <1>1, <1>4 DEF T, Stretch

\* What is selected is there, in the same order.
LEMMA SelectRight ==
  ASSUME NEW S, NEW s \in Seq(S), NEW P
  PROVE  /\ Select(s, P) \in Seq(S)
         /\ \A m \in 1 .. Len(Select(s, P)) :
              /\ Kept(Len(s), P)[m] \in 1 .. Len(s) /\ Kept(Len(s), P)[m] \in P
              /\ Select(s, P)[m] = s[Kept(Len(s), P)[m]]
         /\ \A m, n \in 1 .. Len(Select(s, P)) :
              m < n => Kept(Len(s), P)[m] < Kept(Len(s), P)[n]
<1> DEFINE q == Kept(Len(s), P)
           r == Select(s, P)
<1>1. Ascends(q, Len(s), P)
  BY KeptAscends
<1> HIDE DEF q
<1>2. q \in Seq(Nat) /\ Len(q) \in Nat /\ DOMAIN q = 1 .. Len(q)
  BY <1>1 DEF Ascends
<1>3. r = [n \in 1 .. Len(q) |-> s[q[n]]]
  BY <1>2 DEF Select, q
<1> HIDE DEF r
<1>4. r \in Seq(S) /\ Len(r) = Len(q)
  <2>1. \A m \in 1 .. Len(q) : s[q[m]] \in S
    BY <1>1 DEF Ascends
  <2> QED
    BY <1>2, <1>3, <2>1
<1>5. \A m \in 1 .. Len(r) : q[m] \in 1 .. Len(s) /\ q[m] \in P /\ r[m] = s[q[m]]
  BY <1>1, <1>3, <1>4 DEF Ascends
<1>6. \A m, n \in 1 .. Len(r) : m < n => q[m] < q[n]
  BY <1>1, <1>4 DEF Ascends
<1> QED
  BY <1>4, <1>5, <1>6 DEF q, r

LEMMA SelectInterval ==
  ASSUME NEW S, NEW s \in Seq(S), NEW P, NEW a \in 0 .. Len(s), NEW b \in a .. Len(s),
         P \cap (1 .. Len(s)) = a + 1 .. b
  PROVE  Select(s, P) = SubSeq(s, a + 1, b)
<1> DEFINE q == Kept(Len(s), P)
           r == Select(s, P)
           t == SubSeq(s, a + 1, b)
<1>1. /\ q \in Seq(Nat) /\ Len(q) = b - a
      /\ \A m \in 1 .. b - a : q[m] = a + m
  <2>1. Len(s) \in Nat
    OBVIOUS
  <2>2. Stretch(Kept(Len(s), P), a, b)
    BY <2>1, KeptInterval
  <2> QED
    BY <2>2 DEF Stretch
<1>2. DOMAIN q = 1 .. b - a
  BY <1>1
<1> HIDE DEF q
<1>3. r \in Seq(S) /\ r = [n \in 1 .. b - a |-> s[q[n]]] /\ Len(r) = b - a
  <2>1. r = [n \in 1 .. b - a |-> s[q[n]]]
    BY <1>2 DEF Select, q
  <2>2. r \in Seq(S)
    BY SelectRight
  <2> HIDE DEF r
  <2> QED
    BY <2>1, <2>2
<1> HIDE DEF r
<1>4. /\ t \in Seq(S) /\ Len(t) = b - a
      /\ \A m \in 1 .. b - a : t[m] = s[a + m]
  <2>1. \A k \in a + 1 .. b : s[k] \in S
    OBVIOUS
  <2>2. /\ t \in Seq(S) /\ Len(t) = IF a + 1 <= b THEN b - (a + 1) + 1 ELSE 0
        /\ \A m \in 1 .. b - (a + 1) + 1 : t[m] = s[(a + 1) + m - 1]
    BY <2>1, SubSeqProperties, a + 1 \in Int, b \in Int
  <2> HIDE DEF t
  <2> QED
    BY <2>2
<1> HIDE DEF t
<1>5. \A m \in 1 .. b - a : r[m] = t[m]
  BY <1>1, <1>3, <1>4
<1>6. r = t
  BY <1>3, <1>4, <1>5, SeqEqual
<1> QED
  BY <1>6 DEF r, t

LEMMA LeadingRight ==
  ASSUME NEW n \in Nat, NEW P
  PROVE  /\ Leading(n, P) \in 0 .. n
         /\ \A k \in 1 .. Leading(n, P) : k \in P
         /\ Leading(n, P) < n => Leading(n, P) + 1 \notin P
<1> DEFINE T == {m \in 0 .. n : 1 .. m \subseteq P}
           m == Max(T)
<1>1. Leading(n, P) = m
  BY DEF Leading
<1>2. T # {} /\ T \subseteq 0 .. n
  <2>1. 1 .. 0 = {}
    OBVIOUS
  <2> QED
    BY <2>1
<1>3. m \in T /\ \A k \in T : k <= m
  <2> HIDE DEF T
  <2> QED
    BY <1>2, MostOf
<1>4. m \in 0 .. n /\ 1 .. m \subseteq P
  BY <1>3
<1> HIDE DEF m
<1>5. ASSUME m < n, m + 1 \in P PROVE FALSE
  <2>1. m + 1 \in T
    BY <1>4, <1>5
  <2> QED
    BY <1>3, <1>4, <2>1
<1> QED
  BY <1>1, <1>4, <1>5

\* What is joined up to each sequence
JoinedBy(u, seqs, S) ==
  /\ \A k \in 0 .. Len(seqs) : u[k] \in Seq(S)
  /\ u[0] = << >> /\ Joined(seqs) = u[Len(seqs)]
  /\ \A k \in 1 .. Len(seqs) : u[k] = u[k - 1] \o seqs[k]

LEMMA JoinedSteps ==
  ASSUME NEW S, NEW seqs \in Seq(Seq(S))
  PROVE  \E u : JoinedBy(u, seqs, S)
<1> DEFINE Q == Seq(S)
           n == Len(seqs)
           s == [k \in 1 .. n |-> [q \in Q |-> q \o seqs[k]]]
           E(f) == f = [k \in 0 .. n |-> IF k = 0 THEN << >> ELSE f[k - 1] \o seqs[k]]
<1>0. n \in Nat /\ \A k \in 1 .. n : seqs[k] \in Q
  <2>1. seqs \in Seq(Q)
    OBVIOUS
  <2> HIDE DEF Q
  <2> QED
    BY <2>1
<1>1. << >> \in Q
  BY EmptySeq
<1>2. s \in [1 .. n -> [Q -> Q]]
  <2>1. ASSUME NEW k \in 1 .. n, NEW q \in Q
        PROVE  q \o seqs[k] \in Q
    BY <1>0, ConcatProperties
  <2> HIDE DEF Q
  <2> QED
    BY <2>1
<1>3. PICK f \in [0 .. n -> Q] : Built(f, n, << >>, s)
  <2> HIDE DEF Q, s, n
  <2> QED
    BY <1>0, <1>1, <1>2, Recursion
<1>4. ASSUME NEW k \in 1 .. n
      PROVE  f[k] = f[k - 1] \o seqs[k]
  <2> HIDE DEF Q, n
  <2>1. k - 1 \in 0 .. n /\ f[k - 1] \in Q
    BY <1>0
  <2>2. f[k] = s[k][f[k - 1]]
    BY <1>3 DEF Built
  <2> QED
    BY <2>1, <2>2
<1>5. f[0] = << >>
  BY <1>3 DEF Built
<1> HIDE DEF n
<1>6. E(f)
  <2>1. f = [k \in 0 .. n |-> f[k]]
    OBVIOUS
  <2>2. \A k \in 0 .. n : f[k] = IF k = 0 THEN << >> ELSE f[k - 1] \o seqs[k]
    <3>1. \A k \in 0 .. n : k = 0 \/ k \in 1 .. n
      BY <1>0
    <3> HIDE DEF Q, s
    <3> QED
      BY <1>4, <1>5, <3>1
  <2> QED
    BY <2>1, <2>2
<1> DEFINE F == CHOOSE g : E(g)
<1>7. Joined(seqs) = F[n]
  BY Zenon DEF Joined, n
<1>8. E(F)
  <2> HIDE DEF E
  <2> QED
    BY <1>6
<1> HIDE DEF F
<1>9. F[0] = << >> /\ \A k \in 1 .. n : F[k] = F[k - 1] \o seqs[k]
  <2>1. 0 \in 0 .. n /\ \A k \in 1 .. n : k \in 0 .. n /\ k # 0
    BY <1>0
  <2> QED
    BY <1>8, <2>1
<1> DEFINE T == {k \in 0 .. n : F[k] \in Q}
<1>10. \A k \in 0 .. n : k \in T
  <2>1. 0 \in T
    <3>1. F[0] \in Q /\ 0 \in 0 .. n
      BY <1>0, <1>1, <1>9
    <3> HIDE DEF Q
    <3> QED
      BY <3>1
  <2>2. ASSUME NEW k \in 1 .. n, k - 1 \in T PROVE k \in T
    <3>1. F[k - 1] \in Q /\ seqs[k] \in Q
      BY <1>0, <2>2
    <3>2. F[k - 1] \o seqs[k] \in Q
      BY <3>1, ConcatProperties
    <3> HIDE DEF Q
    <3>3. F[k] \in Q
      BY <1>9, <3>2
    <3>4. k \in 0 .. n
      BY <1>0
    <3> QED
      BY <3>3, <3>4
  <2> HIDE DEF T
  <2> QED
    BY <1>0, <2>1, <2>2, UpTo
<1>11. \A k \in 0 .. n : F[k] \in Q
  <2> HIDE DEF Q
  <2> QED
    BY <1>10
<1>12. JoinedBy(F, seqs, S)
  BY <1>7, <1>9, <1>11 DEF JoinedBy, n
<1> QED
  BY <1>12

LEMMA JoinedIsSeq ==
  ASSUME NEW S, NEW seqs \in Seq(Seq(S))
  PROVE  Joined(seqs) \in Seq(S)
<1>1. PICK u : JoinedBy(u, seqs, S)
  BY JoinedSteps
<1>2. Len(seqs) \in 0 .. Len(seqs)
  OBVIOUS
<1> QED
  BY <1>1, <1>2 DEF JoinedBy

\* There is one way to join.
LEMMA JoinedUnique ==
  ASSUME NEW S, NEW seqs \in Seq(Seq(S)), NEW w, w[0] = << >>,
         \A k \in 1 .. Len(seqs) : w[k] = w[k - 1] \o seqs[k]
  PROVE  Joined(seqs) = w[Len(seqs)]
<1>1. PICK u : JoinedBy(u, seqs, S)
  BY JoinedSteps
<1> DEFINE n == Len(seqs)
           T == {k \in 0 .. n : u[k] = w[k]}
<1>2. n \in Nat
  OBVIOUS
<1>3. 0 \in T
  BY <1>1, <1>2 DEF JoinedBy
<1>4. ASSUME NEW k \in 1 .. n, k - 1 \in T PROVE k \in T
  <2>1. u[k] = u[k - 1] \o seqs[k] /\ w[k] = w[k - 1] \o seqs[k]
    BY <1>1 DEF JoinedBy
  <2>2. u[k - 1] = w[k - 1] /\ k \in 0 .. n
    BY <1>2, <1>4
  <2> QED
    BY <2>1, <2>2
<1> HIDE DEF T
<1>5. \A k \in 1 .. n : k - 1 \in T => k \in T
  BY <1>4
<1> HIDE DEF n
<1>6. \A k \in 0 .. n : k \in T
  BY <1>2, <1>3, <1>5, UpTo
<1>7. n \in T
  BY <1>2, <1>6
<1> QED
  BY <1>1, <1>7 DEF JoinedBy, T, n

LEMMA JoinedAppend ==
  ASSUME NEW S, NEW seqs \in Seq(Seq(S)), NEW s \in Seq(S)
  PROVE  Joined(Append(seqs, s)) = Joined(seqs) \o s
<1>1. PICK u : JoinedBy(u, seqs, S)
  BY JoinedSteps
<1> DEFINE n == Len(seqs)
           all == Append(seqs, s)
           w == [k \in 0 .. n + 1 |-> IF k = n + 1 THEN u[n] \o s ELSE u[k]]
<1>2. /\ all \in Seq(Seq(S)) /\ Len(all) = n + 1 /\ n \in Nat
      /\ all[n + 1] = s /\ \A k \in 1 .. n : all[k] = seqs[k]
  <2> DEFINE Q == Seq(S)
  <2> HIDE DEF Q
  <2> QED
    BY AppendProperties DEF Q
<1>3. w[0] = << >> /\ w[n + 1] = u[n] \o s /\ \A k \in 0 .. n : w[k] = u[k]
  <2>1. u[0] = << >>
    BY <1>1 DEF JoinedBy
  <2> HIDE DEF n
  <2> QED
    BY <1>2, <2>1
<1>0. \A k \in 1 .. n : u[k] = u[k - 1] \o seqs[k]
  BY <1>1 DEF JoinedBy
<1> HIDE DEF w, all, n
<1>4. ASSUME NEW k \in 1 .. n + 1 PROVE w[k] = w[k - 1] \o all[k]
  <2>1. CASE k = n + 1
    <3>0. n \in Nat
      BY <1>2
    <3>1. k - 1 = n /\ n \in 0 .. n
      BY <2>1, <3>0
    <3>2. w[k - 1] = u[n]
      BY <1>3, <3>1
    <3> QED
      BY <1>2, <1>3, <2>1, <3>2
  <2>2. CASE k # n + 1
    <3>1. k \in 1 .. n /\ k \in 0 .. n /\ k - 1 \in 0 .. n
      BY <1>2, <2>2
    <3>2. w[k] = u[k] /\ w[k - 1] = u[k - 1] /\ all[k] = seqs[k]
      BY <1>2, <1>3, <3>1
    <3>3. u[k] = u[k - 1] \o seqs[k]
      BY <1>0, <3>1
    <3> QED
      BY <3>2, <3>3
  <2> QED
    BY <2>1, <2>2
<1>5. Joined(all) = w[n + 1]
  BY <1>2, <1>3, <1>4, JoinedUnique
<1> QED
  BY <1>1, <1>3, <1>5 DEF JoinedBy, all, n

LEMMA JoinedSplit ==
  ASSUME NEW S, NEW seqs \in Seq(Seq(S)), NEW m \in 0 .. Len(seqs)
  PROVE  Joined(seqs) = Joined(SubSeq(seqs, 1, m)) \o Joined(SubSeq(seqs, m + 1, Len(seqs)))
<1>1. PICK u : JoinedBy(u, seqs, S)
  BY JoinedSteps
<1> DEFINE n == Len(seqs)
           a == SubSeq(seqs, 1, m)
           b == SubSeq(seqs, m + 1, n)
           Q == Seq(S)
<1>2. n \in Nat /\ m \in Nat /\ m <= n /\ seqs \in Seq(Q)
  OBVIOUS
<1>3. /\ a \in Seq(Q) /\ Len(a) = m /\ \A k \in 1 .. m : a[k] = seqs[k]
      /\ b \in Seq(Q) /\ Len(b) = n - m /\ \A k \in 1 .. n - m : b[k] = seqs[m + k]
  <2> HIDE DEF Q, n
  <2>1. \A k \in 1 .. Len(seqs) : seqs[k] \in Q
    BY <1>2
  <2>2. \A k \in 1 .. m : seqs[k] \in Q
    BY <1>2, <2>1 DEF n
  <2>3. \A k \in m + 1 .. n : seqs[k] \in Q
    BY <1>2, <2>1 DEF n
  <2>4. /\ a \in Seq(Q) /\ Len(a) = (IF 1 <= m THEN m - 1 + 1 ELSE 0)
        /\ \A k \in 1 .. m - 1 + 1 : a[k] = seqs[1 + k - 1]
    BY <1>2, <2>2, SubSeqProperties, 1 \in Int, m \in Int
  <2>5. /\ b \in Seq(Q) /\ Len(b) = (IF m + 1 <= n THEN n - (m + 1) + 1 ELSE 0)
        /\ \A k \in 1 .. n - (m + 1) + 1 : b[k] = seqs[(m + 1) + k - 1]
    BY <1>2, <2>3, SubSeqProperties, m + 1 \in Int, n \in Int
  <2> HIDE DEF a, b
  <2>6. Len(a) = m /\ \A k \in 1 .. m : a[k] = seqs[k]
    BY <1>2, <2>4
  <2>7. Len(b) = n - m /\ \A k \in 1 .. n - m : b[k] = seqs[m + k]
    BY <1>2, <2>5
  <2> QED
    BY <2>4, <2>5, <2>6, <2>7
<1>4. Joined(a) = u[m]
  <2>1. u[0] = << >> /\ \A k \in 1 .. Len(a) : u[k] = u[k - 1] \o a[k]
    <3>1. u[0] = << >> /\ \A k \in 1 .. n : u[k] = u[k - 1] \o seqs[k]
      BY <1>1 DEF JoinedBy
    <3>2. \A k \in 1 .. m : k \in 1 .. n
      BY <1>2
    <3> HIDE DEF a, n
    <3> QED
      BY <1>3, <3>1, <3>2
  <2>2. Joined(a) = u[Len(a)]
    <3> HIDE DEF a
    <3> QED
      BY <1>3, <2>1, JoinedUnique DEF Q
  <2> QED
    BY <1>3, <2>2
<1>5. PICK v : JoinedBy(v, b, S)
  <2> HIDE DEF b
  <2> QED
    BY <1>3, JoinedSteps DEF Q
<1> HIDE DEF a, b
<1>6. /\ v[0] = << >> /\ Joined(b) = v[n - m]
      /\ \A k \in 0 .. n - m : v[k] \in Q
      /\ \A k \in 1 .. n - m : v[k] = v[k - 1] \o b[k]
  BY <1>3, <1>5 DEF JoinedBy
<1>7. \A k \in 0 .. n : u[k] \in Q
  BY <1>1 DEF JoinedBy
<1>8. \A k \in 1 .. n : u[k] = u[k - 1] \o seqs[k] /\ seqs[k] \in Q
  <2>1. \A k \in 1 .. n : u[k] = u[k - 1] \o seqs[k]
    BY <1>1 DEF JoinedBy
  <2> HIDE DEF Q
  <2>2. \A k \in 1 .. n : seqs[k] \in Q
    BY <1>2
  <2> QED
    BY <2>1, <2>2
<1> HIDE DEF Q, n
<1> DEFINE T == {k \in 0 .. n - m : u[m + k] = u[m] \o v[k]}
<1>9. 0 \in T
  <2>1. u[m] \in Q /\ m + 0 = m
    <3>1. m \in 0 .. n /\ m + 0 = m
      BY <1>2
    <3> QED
      BY <1>7, <3>1
  <2>2. u[m] \o << >> = u[m]
    BY <2>1, ConcatEmptySeq DEF Q
  <2> QED
    BY <1>2, <1>6, <2>1, <2>2, 0 \in 0 .. n - m
<1>10. ASSUME NEW k \in 1 .. n - m, k - 1 \in T PROVE k \in T
  <2>1. /\ m + k \in 1 .. n /\ (m + k) - 1 = m + (k - 1) /\ k \in 0 .. n - m
        /\ k - 1 \in 0 .. n - m /\ m \in 0 .. n
    BY <1>2
  <2>2. u[m + k] = u[m + (k - 1)] \o seqs[m + k] /\ seqs[m + k] \in Q
    <3>1. u[m + k] = u[(m + k) - 1] \o seqs[m + k] /\ seqs[m + k] \in Q
      BY <1>8, <2>1
    <3> QED
      BY <2>1, <3>1
  <2>3. u[m + (k - 1)] = u[m] \o v[k - 1]
    BY <1>10
  <2>4. v[k] = v[k - 1] \o seqs[m + k] /\ v[k - 1] \in Q /\ u[m] \in Q
    BY <1>3, <1>6, <1>7, <2>1
  <2>5. (u[m] \o v[k - 1]) \o seqs[m + k] = u[m] \o (v[k - 1] \o seqs[m + k])
    <3> DEFINE x == u[m]
               y == v[k - 1]
               z == seqs[m + k]
    <3>1. x \in Seq(S) /\ y \in Seq(S) /\ z \in Seq(S)
      BY <2>2, <2>4 DEF Q
    <3> HIDE DEF x, y, z
    <3>2. Associated(x, y, z)
      BY <3>1, Associates
    <3> QED
      BY <3>2 DEF Associated, x, y, z
  <2> QED
    BY <2>1, <2>2, <2>3, <2>4, <2>5
<1> HIDE DEF T
<1>11. n - m \in T
  <2>1. n - m \in Nat /\ n - m \in 0 .. n - m
    BY <1>2
  <2>2. \A k \in 0 .. n - m : k \in T
    BY <1>9, <1>10, <2>1, UpTo
  <2> QED
    BY <2>1, <2>2
<1>12. u[m + (n - m)] = u[m] \o v[n - m] /\ m + (n - m) = n
  <2>1. u[m + (n - m)] = u[m] \o v[n - m]
    BY <1>11 DEF T
  <2> QED
    BY <1>2, <2>1
<1> QED
  BY <1>1, <1>4, <1>6, <1>12 DEF JoinedBy, a, b, n

-----------------------------------------------------------------------------
(* LivoMapper: scans, and how an image cuts them *)

Pt == [time : Nat, curvature : Int]
Scan == [beg : Nat, points : Seq(Pt)]

\* A scan as preprocessing leaves it: points in the order of their times
ScanRight(sc) ==
  /\ sc \in Scan /\ sc.points # << >>
  /\ \A k \in 1 .. Len(sc.points) : /\ sc.points[k].curvature \in 0 .. ScanLen - 1
                                      /\ sc.points[k].time = sc.beg + sc.points[k].curvature
  /\ \A j, k \in 1 .. Len(sc.points) :
       j < k => sc.points[j].curvature < sc.points[k].curvature

\* The times of the points of each scan
ScanTimes(scans) == [n \in DOMAIN scans |-> Times(scans[n].points)]

LEMMA TimesRight ==
  ASSUME NEW P, \A p \in P : p.time \in Nat, NEW s \in Seq(P)
  PROVE  /\ Times(s) \in Seq(Nat) /\ Len(Times(s)) = Len(s)
         /\ \A n \in 1 .. Len(s) : Times(s)[n] = s[n].time
<1>1. Len(s) \in Nat /\ \A n \in 1 .. Len(s) : s[n].time \in Nat
  OBVIOUS
<1>2. [n \in 1 .. Len(s) |-> s[n].time] \in Seq(Nat)
  BY <1>1
<1> QED
  BY <1>1, <1>2 DEF Times

LEMMA TimesConcat ==
  ASSUME NEW P, \A p \in P : p.time \in Nat, NEW s \in Seq(P), NEW t \in Seq(P)
  PROVE  Times(s \o t) = Times(s) \o Times(t)
<1> DEFINE st == s \o t
           l == Times(st)
           a == Times(s)
           b == Times(t)
           r == a \o b
<1>1. /\ st \in Seq(P) /\ Len(st) = Len(s) + Len(t) /\ Len(s) \in Nat /\ Len(t) \in Nat
      /\ \A k \in 1 .. Len(s) + Len(t) : st[k] = IF k <= Len(s) THEN s[k] ELSE t[k - Len(s)]
  BY ConcatProperties
<1>2. /\ a \in Seq(Nat) /\ Len(a) = Len(s) /\ \A n \in 1 .. Len(s) : a[n] = s[n].time
      /\ b \in Seq(Nat) /\ Len(b) = Len(t) /\ \A n \in 1 .. Len(t) : b[n] = t[n].time
  BY TimesRight
<1> HIDE DEF st
<1>3. l \in Seq(Nat) /\ Len(l) = Len(st) /\ \A n \in 1 .. Len(st) : l[n] = st[n].time
  BY <1>1, TimesRight
<1> HIDE DEF l, a, b
<1>4. /\ r \in Seq(Nat) /\ Len(r) = Len(a) + Len(b)
      /\ \A k \in 1 .. Len(a) + Len(b) : r[k] = IF k <= Len(a) THEN a[k] ELSE b[k - Len(a)]
  BY <1>2, ConcatProperties
<1> HIDE DEF r
<1>5. \A k \in 1 .. Len(l) : l[k] = r[k]
  <2> SUFFICES ASSUME NEW k \in 1 .. Len(s) + Len(t) PROVE l[k] = r[k]
    BY <1>1, <1>3
  <2>1. CASE k <= Len(s)
    <3>1. k \in 1 .. Len(s) /\ k \in 1 .. Len(st)
      BY <1>1, <2>1
    <3>2. st[k] = s[k]
      BY <1>1, <2>1
    <3>3. r[k] = a[k] /\ a[k] = s[k].time
      BY <1>2, <1>4, <2>1, <3>1
    <3>4. l[k] = st[k].time
      BY <1>3, <3>1
    <3> QED
      BY <3>2, <3>3, <3>4
  <2>2. CASE ~(k <= Len(s))
    <3>1. k - Len(s) \in 1 .. Len(t)
      BY <1>1, <2>2
    <3> QED
      BY <1>1, <1>2, <1>3, <1>4, <2>2, <3>1
  <2> QED
    BY <2>1, <2>2
<1>6. Len(l) = Len(r)
  BY <1>1, <1>2, <1>3, <1>4
<1> QED
  BY <1>3, <1>4, <1>5, <1>6, SeqEqual DEF l, r, a, b, st

LEMMA TimesSub ==
  ASSUME NEW P, \A p \in P : p.time \in Nat, NEW s \in Seq(P),
         NEW a \in 0 .. Len(s), NEW b \in a .. Len(s)
  PROVE  Times(SubSeq(s, a + 1, b)) = SubSeq(Times(s), a + 1, b)
<1> DEFINE t == SubSeq(s, a + 1, b)
           u == Times(s)
           l == Times(t)
           r == SubSeq(u, a + 1, b)
<1>1. Len(s) \in Nat /\ \A k \in 1 .. Len(s) : s[k] \in P
  OBVIOUS
<1>2. t \in Seq(P) /\ Len(t) = b - a /\ \A k \in 1 .. b - a : t[k] = s[a + k]
  <2>1. \A k \in a + 1 .. b : s[k] \in P
    BY <1>1
  <2>2. /\ t \in Seq(P) /\ Len(t) = IF a + 1 <= b THEN b - (a + 1) + 1 ELSE 0
        /\ \A k \in 1 .. b - (a + 1) + 1 : t[k] = s[(a + 1) + k - 1]
    BY <2>1, SubSeqProperties, a + 1 \in Int, b \in Int
  <2> HIDE DEF t
  <2> QED
    BY <2>2
<1>3. u \in Seq(Nat) /\ Len(u) = Len(s) /\ \A n \in 1 .. Len(s) : u[n] = s[n].time
  BY TimesRight
<1> HIDE DEF t, u
<1>4. l \in Seq(Nat) /\ Len(l) = Len(t) /\ \A n \in 1 .. Len(t) : l[n] = t[n].time
  BY <1>2, TimesRight
<1>5. r \in Seq(Nat) /\ Len(r) = b - a /\ \A k \in 1 .. b - a : r[k] = u[a + k]
  <2>1. \A k \in a + 1 .. b : u[k] \in Nat
    BY <1>1, <1>3
  <2>2. /\ r \in Seq(Nat) /\ Len(r) = IF a + 1 <= b THEN b - (a + 1) + 1 ELSE 0
        /\ \A k \in 1 .. b - (a + 1) + 1 : r[k] = u[(a + 1) + k - 1]
    BY <2>1, SubSeqProperties, a + 1 \in Int, b \in Int
  <2> HIDE DEF r
  <2> QED
    BY <2>2
<1> HIDE DEF l, r
<1>6. \A k \in 1 .. Len(l) : l[k] = r[k]
  <2> SUFFICES ASSUME NEW k \in 1 .. b - a PROVE l[k] = r[k]
    BY <1>2, <1>4
  <2>1. a + k \in 1 .. Len(s)
    BY <1>1
  <2> QED
    BY <1>2, <1>3, <1>4, <1>5, <2>1
<1>7. Len(l) = Len(r)
  BY <1>2, <1>4, <1>5
<1> QED
  BY <1>4, <1>5, <1>6, <1>7, SeqEqual DEF l, r, t, u

\* The points of a scan taken to another time are at their times still.
LEMMA FromRight ==
  ASSUME NEW sc, ScanRight(sc), NEW P, NEW time \in Int
  PROVE  /\ From(sc, P, time) \in Seq({p \in Pt : p.time = time + p.curvature})
         /\ Times(From(sc, P, time)) = Times(Select(sc.points, P))
<1> DEFINE s == Select(sc.points, P)
           At == {p \in Pt : p.time = time + p.curvature}
           f == From(sc, P, time)
<1>1. sc.points \in Seq(Pt) /\ sc.beg \in Nat
  BY DEF ScanRight, Scan
<1>2. s \in Seq(Pt) /\ \A m \in 1 .. Len(s) : \E k \in 1 .. Len(sc.points) : s[m] = sc.points[k]
  BY <1>1, SelectRight
<1>3. DOMAIN s = 1 .. Len(s) /\ Len(s) \in Nat
  BY <1>2
<1>4. f = [n \in 1 .. Len(s) |-> [s[n] EXCEPT !.curvature = @ + sc.beg - time]]
  BY <1>3 DEF From
<1> HIDE DEF s, f
<1>5. ASSUME NEW n \in 1 .. Len(s)
      PROVE  [s[n] EXCEPT !.curvature = @ + sc.beg - time] \in At
             /\ [s[n] EXCEPT !.curvature = @ + sc.beg - time].time = s[n].time
  <2>1. s[n] \in Pt /\ s[n].time = sc.beg + s[n].curvature /\ s[n].curvature \in Int
    <3>1. PICK k \in 1 .. Len(sc.points) : s[n] = sc.points[k]
      BY <1>2
    <3>2. sc.points[k] \in Pt
      BY <1>1
    <3>3. sc.points[k].time = sc.beg + sc.points[k].curvature
      BY DEF ScanRight
    <3>4. sc.points[k].curvature \in Int
      BY <3>2 DEF Pt
    <3> QED
      BY <3>1, <3>2, <3>3, <3>4
  <2> DEFINE p == [s[n] EXCEPT !.curvature = @ + sc.beg - time]
  <2>2. p = [time |-> s[n].time, curvature |-> s[n].curvature + sc.beg - time]
    BY <2>1 DEF Pt
  <2>3. s[n].curvature + sc.beg - time \in Int /\ s[n].time \in Nat
    BY <1>1, <2>1 DEF Pt
  <2>4. p \in Pt /\ p.time = s[n].time /\ p.curvature = s[n].curvature + sc.beg - time
    BY <2>2, <2>3 DEF Pt
  <2>5. p.time = time + p.curvature
    BY <1>1, <2>1, <2>4
  <2> HIDE DEF p
  <2>6. p \in At /\ p.time = s[n].time
    BY <2>4, <2>5
  <2> QED
    BY <2>6 DEF p
<1>6. f \in Seq(At) /\ Len(f) = Len(s)
  <2> HIDE DEF At
  <2> QED
    BY <1>3, <1>4, <1>5
<1>7. \A n \in 1 .. Len(s) : f[n].time = s[n].time
  BY <1>4, <1>5
<1>8. Times(f) = Times(s)
  <2>1. Times(f) = [n \in 1 .. Len(s) |-> f[n].time]
    BY <1>6, Zenon DEF Times
  <2>2. Times(s) = [n \in 1 .. Len(s) |-> s[n].time]
    BY Zenon DEF Times
  <2> QED
    BY <1>7, <2>1, <2>2
<1> QED
  BY <1>6, <1>8 DEF f, s

LEMMA BeforeIsPrefix ==
  ASSUME NEW sc, ScanRight(sc), NEW img \in Int
  PROVE  \E m \in 0 .. Len(sc.points) :
           /\ Before(sc, img) \cap (1 .. Len(sc.points)) = 0 + 1 .. m
           /\ (DOMAIN sc.points \ Before(sc, img)) \cap (1 .. Len(sc.points))
                = m + 1 .. Len(sc.points)
<1> DEFINE pts == sc.points
           n == Len(pts)
           B == Before(sc, img)
           m == Leading(n, B)
<1>1. pts \in Seq(Pt) /\ n \in Nat /\ DOMAIN pts = 1 .. n /\ sc.beg \in Nat
  <2>1. pts \in Seq(Pt) /\ sc.beg \in Nat
    BY DEF ScanRight, Scan
  <2> QED
    BY <2>1
<1>2. \A k \in 1 .. n : pts[k].curvature \in Int
  BY DEF ScanRight
<1>3. \A k \in 1 .. n : k \in B <=> pts[k].curvature < img - sc.beg
  BY <1>1 DEF Before
<1>4. \A j, k \in 1 .. n : j < k => pts[j].curvature < pts[k].curvature
  BY DEF ScanRight
<1>5. B \subseteq 1 .. n
  BY <1>1 DEF Before
<1> HIDE DEF B, n, pts
<1>6. m \in 0 .. n /\ (\A k \in 1 .. m : k \in B) /\ (m < n => m + 1 \notin B)
  BY <1>1, LeadingRight
<1> HIDE DEF m
<1>7. \A k \in 1 .. n : k \in B <=> k <= m
  <2> SUFFICES ASSUME NEW k \in 1 .. n PROVE k \in B <=> k <= m
    OBVIOUS
  <2>1. CASE k <= m
    BY <1>6, <2>1
  <2>2. CASE ~(k <= m)
    <3>1. m + 1 \in 1 .. n /\ m + 1 \notin B /\ (m + 1 = k \/ m + 1 < k)
      BY <1>1, <1>6, <2>2
    <3>2. CASE m + 1 = k
      BY <2>2, <3>1, <3>2
    <3>3. CASE m + 1 < k
      <4>1. /\ ~(pts[m + 1].curvature < img - sc.beg)
            /\ pts[m + 1].curvature < pts[k].curvature
            /\ pts[m + 1].curvature \in Int /\ pts[k].curvature \in Int
        BY <1>2, <1>3, <1>4, <3>1, <3>3
      <4>2. ~(pts[k].curvature < img - sc.beg)
        BY <1>1, <4>1
      <4> QED
        BY <1>3, <2>2, <4>2
    <3> QED
      BY <3>1, <3>2, <3>3
  <2> QED
    BY <2>1, <2>2
<1>8. B \cap (1 .. n) = 0 + 1 .. m
  BY <1>1, <1>6, <1>7
<1>9. ((1 .. n) \ B) \cap (1 .. n) = m + 1 .. n
  BY <1>1, <1>6, <1>7
<1> QED
  BY <1>1, <1>6, <1>8, <1>9 DEF B, n, pts

\* Of one scan: what is before an image and what is not are the whole.
LEMMA ScanCut ==
  ASSUME NEW sc, ScanRight(sc), NEW img \in Int, NEW a \in Int, NEW b \in Int
  PROVE  /\ Times(From(sc, Before(sc, img), a))
              \o Times(From(sc, DOMAIN sc.points \ Before(sc, img), b))
              = Times(sc.points)
         /\ sc.beg + ScanLen <= img =>
              /\ Times(From(sc, Before(sc, img), a)) = Times(sc.points)
              /\ From(sc, DOMAIN sc.points \ Before(sc, img), b) = << >>
<1> DEFINE pts == sc.points
           n == Len(pts)
           B == Before(sc, img)
           A == DOMAIN pts \ B
           t == Times(pts)
<1>1. pts \in Seq(Pt) /\ n \in Nat /\ DOMAIN pts = 1 .. n /\ sc.beg \in Nat
  <2>1. pts \in Seq(Pt) /\ sc.beg \in Nat
    BY DEF ScanRight, Scan
  <2> QED
    BY <2>1
<1>2. \A p \in Pt : p.time \in Nat
  BY DEF Pt
<1>3. PICK m \in 0 .. n : B \cap (1 .. n) = 0 + 1 .. m /\ A \cap (1 .. n) = m + 1 .. n
  BY BeforeIsPrefix
<1>4. /\ Times(From(sc, B, a)) = Times(Select(pts, B))
      /\ Times(From(sc, A, b)) = Times(Select(pts, A))
  BY FromRight
<1>5. From(sc, A, b) = << >> <=> Len(Select(pts, A)) = 0
  <2>1. Select(pts, A) \in Seq(Pt)
    BY <1>1, SelectRight
  <2>2. /\ DOMAIN From(sc, A, b) = 1 .. Len(Select(pts, A))
        /\ From(sc, A, b) \in Seq({p \in Pt : p.time = b + p.curvature})
    <3>1. DOMAIN From(sc, A, b) = DOMAIN Select(pts, A)
      BY DEF From
    <3>2. DOMAIN Select(pts, A) = 1 .. Len(Select(pts, A))
      BY <2>1
    <3>3. From(sc, A, b) \in Seq({p \in Pt : p.time = b + p.curvature})
      BY FromRight
    <3> QED
      BY <3>1, <3>2, <3>3
  <2> DEFINE f == From(sc, A, b)
             l == Len(Select(pts, A))
             Q == {p \in Pt : p.time = b + p.curvature}
  <2>3. f \in Seq(Q) /\ DOMAIN f = 1 .. l /\ l \in Nat
    BY <2>1, <2>2
  <2> HIDE DEF f, l, Q
  <2>4. Len(f) = l
    BY <2>3
  <2>5. f = << >> <=> l = 0
    BY <2>3, <2>4
  <2> QED
    BY <2>5 DEF f, l
<1> HIDE DEF A, B
<1>6. Select(pts, B) = SubSeq(pts, 0 + 1, m) /\ Select(pts, A) = SubSeq(pts, m + 1, n)
  <2>1. Select(pts, B) = SubSeq(pts, 0 + 1, m)
    <3>1. 0 \in 0 .. Len(pts) /\ m \in 0 .. Len(pts) /\ B \cap (1 .. Len(pts)) = 0 + 1 .. m
      BY <1>1, <1>3
    <3> HIDE DEF pts
    <3> QED
      BY <1>1, <3>1, SelectInterval
  <2>2. Select(pts, A) = SubSeq(pts, m + 1, n)
    <3>1. m \in 0 .. Len(pts) /\ n \in m .. Len(pts) /\ A \cap (1 .. Len(pts)) = m + 1 .. n
      BY <1>1, <1>3
    <3> HIDE DEF pts, n
    <3> QED
      BY <1>1, <3>1, SelectInterval
  <2> QED
    BY <2>1, <2>2
<1>7. t \in Seq(Nat) /\ Len(t) = n
  BY <1>1, <1>2, TimesRight
<1>8. /\ Times(Select(pts, B)) = SubSeq(t, 1, m)
      /\ Times(Select(pts, A)) = SubSeq(t, m + 1, n)
  <2> HIDE DEF n, pts
  <2>0. n = Len(pts)
    BY DEF n
  <2>1. 0 \in 0 .. Len(pts) /\ m \in 0 .. Len(pts) /\ m \in 0 .. n /\ n \in m .. Len(pts) /\ 0 + 1 = 1
    BY <1>1, <1>3, <2>0
  <2>2. Times(SubSeq(pts, 0 + 1, m)) = SubSeq(t, 0 + 1, m)
    BY <1>1, <1>2, <2>1, TimesSub
  <2>3. Times(SubSeq(pts, m + 1, n)) = SubSeq(t, m + 1, n)
    BY <1>1, <1>2, <2>1, TimesSub
  <2> QED
    BY <1>6, <2>1, <2>2, <2>3
<1>9. SubSeq(t, 1, m) \o SubSeq(t, m + 1, n) = t
  <2> HIDE DEF t, n, pts
  <2>1. 1 \in 1 .. Len(t) + 1 /\ m \in 1 - 1 .. Len(t) /\ n \in m .. Len(t)
    BY <1>1, <1>3, <1>7
  <2>2. SubSeq(t, 1, m) \o SubSeq(t, m + 1, n) = SubSeq(t, 1, n)
    BY <1>7, <2>1, ConcatAdjacentSubSeq
  <2>3. SubSeq(t, 1, Len(t)) = t
    BY <1>7, SubSeqFull
  <2> QED
    BY <1>7, <2>2, <2>3
<1>10. ASSUME sc.beg + ScanLen <= img
       PROVE  /\ Times(From(sc, B, a)) = t
              /\ From(sc, A, b) = << >>
  <2>1. \A k \in 1 .. n : k \in B
    <3>1. \A k \in 1 .. n : pts[k].curvature < img - sc.beg
      <4>1. \A k \in 1 .. n : pts[k].curvature \in 0 .. ScanLen - 1
        BY DEF ScanRight
      <4>2. ScanLen \in Nat
        BY ClockAssumption
      <4> HIDE DEF pts, n
      <4> QED
        BY <1>1, <1>10, <4>1, <4>2
    <3> QED
      BY <1>1, <3>1 DEF Before, B
  <2>2. m = n
    <3> HIDE DEF n, pts
    <3>1. CASE n = 0
      BY <1>3, <3>1
    <3>2. CASE n # 0
      <4>1. n \in B \cap (1 .. n)
        BY <1>1, <2>1, <3>2
      <4> QED
        BY <1>1, <1>3, <4>1
    <3> QED
      BY <3>1, <3>2
  <2>3. SubSeq(t, 1, m) = t
    BY <1>7, <2>2, SubSeqFull
  <2>4. Len(Select(pts, A)) = 0
    <3>1. n < m + 1 /\ n \in Int /\ m + 1 \in Int
      BY <1>1, <2>2
    <3>2. SubSeq(pts, m + 1, n) = << >>
      BY <3>1, SubSeqEmpty
    <3>3. Select(pts, A) = << >>
      BY <1>6, <3>2
    <3>4. Len(<< >>) = 0
      OBVIOUS
    <3> QED
      BY <3>3, <3>4
  <2> QED
    BY <1>4, <1>5, <1>8, <2>3, <2>4
<1> QED
  BY <1>4, <1>8, <1>9, <1>10 DEF A, B

\* Scans that are buffered: one after the other, and before the next one
Buffered(scans, clock) ==
  /\ scans \in Seq(Scan)
  /\ \A n \in 1 .. Len(scans) : ScanRight(scans[n]) /\ scans[n].beg + ScanLen <= clock
  /\ \A m, n \in 1 .. Len(scans) : m < n => scans[m].beg + ScanLen <= scans[n].beg

PtsAt(base) == {p \in Pt : p.time = base + p.curvature}

LEMMA ScanTimesRight ==
  ASSUME NEW b \in Seq(Scan)
  PROVE  /\ ScanTimes(b) \in Seq(Seq(Nat)) /\ Len(ScanTimes(b)) = Len(b)
         /\ \A n \in 1 .. Len(b) : ScanTimes(b)[n] = Times(b[n].points)
<1>1. Len(b) \in Nat /\ DOMAIN b = 1 .. Len(b) /\ \A n \in 1 .. Len(b) : b[n] \in Scan
  OBVIOUS
<1>2. \A n \in 1 .. Len(b) : Times(b[n].points) \in Seq(Nat)
  <2> SUFFICES ASSUME NEW n \in 1 .. Len(b) PROVE Times(b[n].points) \in Seq(Nat)
    OBVIOUS
  <2>1. b[n].points \in Seq(Pt) /\ \A p \in Pt : p.time \in Nat
    BY <1>1 DEF Scan, Pt
  <2> QED
    BY <2>1, TimesRight
<1> DEFINE Q == Seq(Nat)
<1>3. \A n \in 1 .. Len(b) : Times(b[n].points) \in Q
  BY <1>2
<1> HIDE DEF Q
<1>4. ScanTimes(b) = [n \in 1 .. Len(b) |-> Times(b[n].points)]
  BY <1>1 DEF ScanTimes
<1>5. ScanTimes(b) \in Seq(Q) /\ Len(ScanTimes(b)) = Len(b)
  BY <1>1, <1>3, <1>4
<1> QED
  BY <1>4, <1>5 DEF Q

LEMMA ScanTimesAppend ==
  ASSUME NEW b \in Seq(Scan), NEW s \in Scan
  PROVE  Joined(ScanTimes(Append(b, s))) = Joined(ScanTimes(b)) \o Times(s.points)
<1> DEFINE c == Append(b, s)
           x == ScanTimes(b)
           y == ScanTimes(c)
           t == Times(s.points)
           Q == Seq(Nat)
           z == Append(x, t)
<1>1. /\ c \in Seq(Scan) /\ Len(c) = Len(b) + 1 /\ c[Len(b) + 1] = s /\ Len(b) \in Nat
      /\ \A n \in 1 .. Len(b) : c[n] = b[n]
  BY AppendProperties
<1>2. t \in Q
  <2>1. s.points \in Seq(Pt) /\ \A p \in Pt : p.time \in Nat
    BY DEF Scan, Pt
  <2> QED
    BY <2>1, TimesRight
<1>3. x \in Seq(Q) /\ Len(x) = Len(b) /\ \A n \in 1 .. Len(b) : x[n] = Times(b[n].points)
  BY ScanTimesRight
<1> HIDE DEF c
<1>4. y \in Seq(Q) /\ Len(y) = Len(c) /\ \A n \in 1 .. Len(c) : y[n] = Times(c[n].points)
  BY <1>1, ScanTimesRight
<1> HIDE DEF x, y, t, Q
<1>5. /\ z \in Seq(Q) /\ Len(z) = Len(x) + 1 /\ z[Len(x) + 1] = t
      /\ \A n \in 1 .. Len(x) : z[n] = x[n]
  BY <1>2, <1>3, AppendProperties
<1>6. y = z
  <2> HIDE DEF z
  <2>1. Len(y) = Len(z)
    BY <1>1, <1>3, <1>4, <1>5
  <2>2. \A n \in 1 .. Len(y) : y[n] = z[n]
    <3> SUFFICES ASSUME NEW n \in 1 .. Len(b) + 1 PROVE y[n] = z[n]
      BY <1>1, <1>4
    <3>1. CASE n = Len(b) + 1
      <4>1. y[n] = Times(c[n].points) /\ c[n] = s
        BY <1>1, <1>4, <3>1
      <4>2. z[n] = t
        BY <1>3, <1>5, <3>1
      <4> QED
        BY <4>1, <4>2 DEF t
    <3>2. CASE n # Len(b) + 1
      <4>1. n \in 1 .. Len(b) /\ n \in 1 .. Len(c)
        BY <1>1, <3>2
      <4>2. y[n] = Times(c[n].points) /\ c[n] = b[n]
        BY <1>1, <1>4, <4>1
      <4>3. z[n] = x[n] /\ x[n] = Times(b[n].points)
        BY <1>3, <1>5, <4>1
      <4> QED
        BY <4>2, <4>3
    <3> QED
      BY <3>1, <3>2
  <2> QED
    BY <1>4, <1>5, <2>1, <2>2, SeqEqual
<1>7. Joined(Append(x, t)) = Joined(x) \o t
  BY <1>2, <1>3, JoinedAppend DEF Q
<1> QED
  BY <1>6, <1>7 DEF c, x, y, t

LEMMA ScanTimesRest ==
  ASSUME NEW b \in Seq(Scan), NEW m \in 0 .. Len(b)
  PROVE  ScanTimes(SubSeq(b, m + 1, Len(b))) = SubSeq(ScanTimes(b), m + 1, Len(b))
<1> DEFINE c == SubSeq(b, m + 1, Len(b))
           x == ScanTimes(b)
           y == ScanTimes(c)
           Q == Seq(Nat)
           l == Len(b)
           z == SubSeq(x, m + 1, l)
<1>0. l \in Nat /\ m \in Nat /\ m <= l /\ \A k \in 1 .. l : b[k] \in Scan
  OBVIOUS
<1>1. c \in Seq(Scan) /\ Len(c) = l - m /\ \A k \in 1 .. l - m : c[k] = b[m + k]
  <2> HIDE DEF l
  <2>0. l = Len(b)
    BY DEF l
  <2>1. \A k \in m + 1 .. l : b[k] \in Scan
    BY <1>0
  <2>2. /\ SubSeq(b, m + 1, l) \in Seq(Scan)
        /\ Len(SubSeq(b, m + 1, l)) = IF m + 1 <= l THEN l - (m + 1) + 1 ELSE 0
        /\ \A k \in 1 .. l - (m + 1) + 1 : SubSeq(b, m + 1, l)[k] = b[(m + 1) + k - 1]
    BY <1>0, <2>1, SubSeqProperties, m + 1 \in Int, l \in Int
  <2>3. c = SubSeq(b, m + 1, l)
    BY <2>0
  <2> HIDE DEF c
  <2> QED
    BY <1>0, <2>2, <2>3
<1>3. x \in Seq(Q) /\ Len(x) = l /\ \A n \in 1 .. l : x[n] = Times(b[n].points)
  BY ScanTimesRight
<1> HIDE DEF c
<1>4. y \in Seq(Q) /\ Len(y) = Len(c) /\ \A n \in 1 .. Len(c) : y[n] = Times(c[n].points)
  BY <1>1, ScanTimesRight
<1> HIDE DEF x, y, Q, l
<1>5. z \in Seq(Q) /\ Len(z) = l - m /\ \A k \in 1 .. l - m : z[k] = x[m + k]
  <2>1. \A k \in m + 1 .. l : x[k] \in Q
    BY <1>0, <1>3
  <2>2. /\ z \in Seq(Q) /\ Len(z) = IF m + 1 <= l THEN l - (m + 1) + 1 ELSE 0
        /\ \A k \in 1 .. l - (m + 1) + 1 : z[k] = x[(m + 1) + k - 1]
    BY <1>0, <2>1, SubSeqProperties, m + 1 \in Int, l \in Int
  <2> HIDE DEF z
  <2> QED
    BY <1>0, <2>2
<1> HIDE DEF z
<1>6. Len(y) = Len(z)
  BY <1>1, <1>4, <1>5
<1>7. \A n \in 1 .. Len(y) : y[n] = z[n]
  <2> SUFFICES ASSUME NEW n \in 1 .. l - m PROVE y[n] = z[n]
    BY <1>1, <1>4
  <2>1. m + n \in 1 .. l /\ n \in 1 .. Len(c)
    BY <1>0, <1>1
  <2>2. y[n] = Times(c[n].points) /\ c[n] = b[m + n]
    BY <1>1, <1>4, <2>1
  <2>3. z[n] = x[m + n] /\ x[m + n] = Times(b[m + n].points)
    BY <1>3, <1>5, <2>1
  <2> QED
    BY <2>2, <2>3
<1>8. y = z
  BY <1>4, <1>5, <1>6, <1>7, SeqEqual
<1> QED
  BY <1>8 DEF c, x, y, z, l

LEMMA BufferedRest ==
  ASSUME NEW b, NEW clock \in Nat, Buffered(b, clock), NEW m \in 0 .. Len(b)
  PROVE  /\ Buffered(SubSeq(b, m + 1, Len(b)), clock)
         /\ Len(SubSeq(b, m + 1, Len(b))) = Len(b) - m
         /\ \A k \in 1 .. Len(b) - m : SubSeq(b, m + 1, Len(b))[k] = b[m + k]
<1> DEFINE c == SubSeq(b, m + 1, Len(b))
           l == Len(b)
<1>0. l \in Nat /\ m \in Nat /\ m <= l /\ \A k \in 1 .. l : b[k] \in Scan
  <2>1. b \in Seq(Scan)
    BY DEF Buffered
  <2> QED
    BY <2>1
<1>1. c \in Seq(Scan) /\ Len(c) = l - m /\ \A k \in 1 .. l - m : c[k] = b[m + k]
  <2> HIDE DEF l
  <2>0. l = Len(b)
    BY DEF l
  <2>1. \A k \in m + 1 .. l : b[k] \in Scan
    BY <1>0
  <2>2. /\ SubSeq(b, m + 1, l) \in Seq(Scan)
        /\ Len(SubSeq(b, m + 1, l)) = IF m + 1 <= l THEN l - (m + 1) + 1 ELSE 0
        /\ \A k \in 1 .. l - (m + 1) + 1 : SubSeq(b, m + 1, l)[k] = b[(m + 1) + k - 1]
    BY <1>0, <2>1, SubSeqProperties, m + 1 \in Int, l \in Int
  <2>3. c = SubSeq(b, m + 1, l)
    BY <2>0
  <2> HIDE DEF c
  <2> QED
    BY <1>0, <2>2, <2>3
<1>2. \A n \in 1 .. l : ScanRight(b[n]) /\ b[n].beg + ScanLen <= clock
  BY DEF Buffered
<1>3. \A j, n \in 1 .. l : j < n => b[j].beg + ScanLen <= b[n].beg
  BY DEF Buffered
<1> HIDE DEF c, l
<1>4. ASSUME NEW n \in 1 .. l - m
      PROVE  m + n \in 1 .. l
  BY <1>0
<1>5. \A n \in 1 .. Len(c) : ScanRight(c[n]) /\ c[n].beg + ScanLen <= clock
  BY <1>1, <1>2, <1>4
<1>6. \A j, n \in 1 .. Len(c) : j < n => c[j].beg + ScanLen <= c[n].beg
  <2> SUFFICES ASSUME NEW j \in 1 .. l - m, NEW n \in 1 .. l - m, j < n
               PROVE  c[j].beg + ScanLen <= c[n].beg
    BY <1>1
  <2>1. m + j \in 1 .. l /\ m + n \in 1 .. l /\ m + j < m + n
    BY <1>0
  <2> QED
    BY <1>1, <1>3, <2>1
<1> QED
  BY <1>1, <1>5, <1>6 DEF Buffered, c, l

LEMMA BufferedAppend ==
  ASSUME NEW b, NEW clock \in Nat, Buffered(b, clock), NEW s, ScanRight(s), s.beg = clock
  PROVE  Buffered(Append(b, s), clock + ScanLen)
<1> DEFINE c == Append(b, s)
           l == Len(b)
<1>1. b \in Seq(Scan) /\ s \in Scan /\ ScanLen \in Nat
  BY ClockAssumption DEF Buffered, ScanRight
<1>2. /\ c \in Seq(Scan) /\ Len(c) = l + 1 /\ c[l + 1] = s /\ l \in Nat
      /\ \A n \in 1 .. l : c[n] = b[n]
  BY <1>1, AppendProperties
<1>3. \A n \in 1 .. l : ScanRight(b[n]) /\ b[n].beg + ScanLen <= clock /\ b[n].beg \in Nat
  <2>1. \A n \in 1 .. l : ScanRight(b[n]) /\ b[n].beg + ScanLen <= clock
    BY DEF Buffered
  <2> QED
    BY <2>1 DEF ScanRight, Scan
<1>4. \A j, n \in 1 .. l : j < n => b[j].beg + ScanLen <= b[n].beg
  BY DEF Buffered
<1> HIDE DEF c, l
<1>5. \A n \in 1 .. l + 1 : n \in 1 .. l \/ n = l + 1
  BY <1>2
<1>6. \A n \in 1 .. l + 1 : ScanRight(c[n]) /\ c[n].beg + ScanLen <= clock + ScanLen
  <2> SUFFICES ASSUME NEW n \in 1 .. l + 1
               PROVE  ScanRight(c[n]) /\ c[n].beg + ScanLen <= clock + ScanLen
    OBVIOUS
  <2>1. CASE n = l + 1
    BY <1>1, <1>2, <2>1
  <2>2. CASE n \in 1 .. l
    <3>1. ScanRight(c[n]) /\ c[n].beg + ScanLen <= clock /\ c[n].beg \in Nat
      BY <1>2, <1>3, <2>2
    <3> QED
      BY <1>1, <3>1
  <2> QED
    BY <1>5, <2>1, <2>2
<1>7. \A j, n \in 1 .. l + 1 : j < n => c[j].beg + ScanLen <= c[n].beg
  <2> SUFFICES ASSUME NEW j \in 1 .. l + 1, NEW n \in 1 .. l + 1, j < n
               PROVE  c[j].beg + ScanLen <= c[n].beg
    OBVIOUS
  <2>1. j \in 1 .. l
    BY <1>2
  <2>2. CASE n = l + 1
    BY <1>2, <1>3, <2>1, <2>2
  <2>3. CASE n \in 1 .. l
    BY <1>2, <1>4, <2>1, <2>3
  <2> QED
    BY <1>5, <2>2, <2>3
<1> QED
  BY <1>2, <1>6, <1>7 DEF Buffered, c

\* What an image cuts off the buffered scans, and what it leaves
LEMMA CutRight ==
  ASSUME NEW clock \in Nat, Buffered(lid_raw_data_buffer, clock), NEW img \in Int,
         LastUpdate \in Int
  PROVE  /\ ScansUpTo(img) \in 0 .. Len(lid_raw_data_buffer)
         /\ CutBefore(img) \in Seq(PtsAt(LastUpdate))
         /\ CutAfter(img) \in Seq(PtsAt(img))
         /\ Times(CutBefore(img)) \o Times(CutAfter(img))
              = Joined(SubSeq(ScanTimes(lid_raw_data_buffer), 1, ScansUpTo(img)))
<1> DEFINE b == lid_raw_data_buffer
           l == Len(b)
           K == ScansUpTo(img)
           L == LastUpdate
           bef == [n \in 1 .. K |-> From(b[n], Before(b[n], img), L)]
           aft == [n \in 1 .. K |-> From(b[n], (DOMAIN b[n].points) \ Before(b[n], img), img)]
           all == SubSeq(ScanTimes(b), 1, K)
           QB == Seq(PtsAt(L))
           QA == Seq(PtsAt(img))
           QT == Seq(Nat)
<1>1. b \in Seq(Scan) /\ l \in Nat /\ DOMAIN b = 1 .. l /\ ScanLen \in Nat
  BY ClockAssumption DEF Buffered
<1>2. /\ \A n \in 1 .. l : ScanRight(b[n]) /\ b[n].beg \in Nat
      /\ \A m, n \in 1 .. l : m < n => b[m].beg + ScanLen <= b[n].beg
  BY DEF Buffered, ScanRight, Scan
<1>3. /\ K \in 0 .. l
      /\ \A k \in 1 .. K : b[k].beg <= img
  <2> DEFINE P == {k \in DOMAIN b : b[k].beg <= img}
  <2>1. K = Leading(l, P)
    BY DEF ScansUpTo
  <2>2. Leading(l, P) \in 0 .. l /\ \A k \in 1 .. Leading(l, P) : k \in P
    BY <1>1, LeadingRight
  <2> HIDE DEF K
  <2> QED
    BY <2>1, <2>2
<1>4. /\ CutBefore(img) = Joined(bef) /\ CutAfter(img) = Joined(aft)
  BY DEF CutBefore, CutAfter
<1> HIDE DEF b, l, K, L, QB, QA, QT
<1>5. \A n \in 1 .. K : n \in 1 .. l /\ ScanRight(b[n])
  BY <1>1, <1>2, <1>3
<1>6. ASSUME NEW n \in 1 .. K
      PROVE  /\ bef[n] \in QB /\ aft[n] \in QA
             /\ Times(bef[n]) \o Times(aft[n]) = Times(b[n].points)
             /\ n < K => aft[n] = << >> /\ Times(bef[n]) = Times(b[n].points)
  <2>1. bef[n] = From(b[n], Before(b[n], img), L)
        /\ aft[n] = From(b[n], (DOMAIN b[n].points) \ Before(b[n], img), img)
    OBVIOUS
  <2>2. ScanRight(b[n]) /\ L \in Int
    BY <1>5 DEF L
  <2> DEFINE sc == b[n]
             x == bef[n]
             y == aft[n]
             t == Times(sc.points)
  <2>a. /\ x = From(sc, Before(sc, img), L)
        /\ y = From(sc, DOMAIN sc.points \ Before(sc, img), img)
        /\ ScanRight(sc)
    BY <2>1, <2>2
  <2> HIDE DEF bef, aft, sc, x, y
  <2>3. bef[n] \in QB /\ aft[n] \in QA
    BY <2>a, <2>2, FromRight DEF QB, QA, PtsAt, x, y
  <2>b. /\ Times(x) \o Times(y) = t
        /\ sc.beg + ScanLen <= img => Times(x) = t /\ y = << >>
    BY <2>a, <2>2, ScanCut
  <2>4. Times(bef[n]) \o Times(aft[n]) = Times(b[n].points)
    BY <2>b DEF x, y, sc
  <2>5. ASSUME n < K PROVE aft[n] = << >> /\ Times(bef[n]) = Times(b[n].points)
    <3>1. n + 1 \in 1 .. K /\ n + 1 \in 1 .. l /\ n \in 1 .. l /\ n < n + 1
      BY <1>1, <1>3, <2>5
    <3>2. b[n].beg + ScanLen <= b[n + 1].beg /\ b[n + 1].beg <= img /\ b[n].beg \in Nat
          /\ b[n + 1].beg \in Nat
      BY <1>2, <1>3, <3>1
    <3>3. b[n].beg + ScanLen <= img
      BY <1>1, <3>2
    <3> QED
      BY <2>b, <3>3 DEF x, y, sc
  <2> QED
    BY <2>3, <2>4, <2>5
<1>7. bef \in Seq(QB) /\ Len(bef) = K /\ aft \in Seq(QA) /\ Len(aft) = K
  <2>1. K \in Nat
    BY <1>1, <1>3
  <2>2. \A n \in 1 .. K : From(b[n], Before(b[n], img), L) \in QB
    BY <1>6
  <2>3. \A n \in 1 .. K : From(b[n], (DOMAIN b[n].points) \ Before(b[n], img), img) \in QA
    BY <1>6
  <2> QED
    BY <2>1, <2>2, <2>3
<1>8. /\ all \in Seq(QT) /\ Len(all) = K
      /\ \A n \in 1 .. K : all[n] = Times(b[n].points)
  <2> DEFINE x == ScanTimes(b)
  <2>1. x \in Seq(QT) /\ Len(x) = l /\ \A n \in 1 .. l : x[n] = Times(b[n].points)
    BY <1>1, ScanTimesRight DEF l, QT
  <2> HIDE DEF x
  <2>2. \A k \in 1 .. K : x[k] \in QT
    BY <1>1, <1>5, <2>1
  <2>3. K \in Nat
    BY <1>1, <1>3
  <2>4. /\ all \in Seq(QT) /\ Len(all) = (IF 1 <= K THEN K - 1 + 1 ELSE 0)
        /\ \A k \in 1 .. K - 1 + 1 : all[k] = x[1 + k - 1]
    BY <2>2, <2>3, SubSeqProperties, 1 \in Int, K \in Int DEF x
  <2> HIDE DEF all
  <2>5. Len(all) = K /\ \A k \in 1 .. K : all[k] = x[k]
    BY <2>3, <2>4
  <2> QED
    BY <1>5, <2>1, <2>4, <2>5
<1> HIDE DEF bef, aft, all
<1>9. PICK u : JoinedBy(u, bef, PtsAt(L))
  BY <1>7, JoinedSteps DEF QB
<1>10. PICK v : JoinedBy(v, aft, PtsAt(img))
  BY <1>7, JoinedSteps DEF QA
<1>11. PICK w : JoinedBy(w, all, Nat)
  BY <1>8, JoinedSteps DEF QT
<1>12. /\ \A k \in 0 .. K : u[k] \in QB /\ v[k] \in QA /\ w[k] \in QT
       /\ u[0] = << >> /\ v[0] = << >> /\ w[0] = << >>
       /\ Joined(bef) = u[K] /\ Joined(aft) = v[K] /\ Joined(all) = w[K]
       /\ \A k \in 1 .. K : /\ u[k] = u[k - 1] \o bef[k]
                            /\ v[k] = v[k - 1] \o aft[k]
                            /\ w[k] = w[k - 1] \o all[k]
  BY <1>7, <1>8, <1>9, <1>10, <1>11 DEF JoinedBy, QB, QA, QT
<1>13. /\ \A p \in PtsAt(L) : p.time \in Nat
       /\ \A p \in PtsAt(img) : p.time \in Nat
  BY DEF PtsAt, Pt
<1>14. Times(<< >>) = << >>
  <2>1. Times(<< >>) \in Seq(Nat) /\ Len(Times(<< >>)) = Len(<< >>)
    BY <1>13, EmptySeq, TimesRight
  <2> HIDE DEF QT
  <2> QED
    BY <2>1, EmptySeq
<1>15. ASSUME NEW k \in 1 .. K
       PROVE  Times(u[k]) = Times(u[k - 1]) \o Times(bef[k])
  <2>0. k - 1 \in 0 .. K /\ k \in 0 .. K
    BY <1>1, <1>3
  <2>1. u[k] = u[k - 1] \o bef[k]
    BY <1>12
  <2> DEFINE x == u[k - 1]
             y == bef[k]
  <2>2. x \in QB /\ y \in QB
    BY <1>6, <1>12, <2>0
  <2> HIDE DEF x, y
  <2>3. Times(x \o y) = Times(x) \o Times(y)
    BY <1>13, <2>2, TimesConcat DEF QB
  <2> QED
    BY <2>1, <2>3 DEF x, y
<1> DEFINE T == {k \in 0 .. K : k < K => Times(u[k]) = w[k] /\ v[k] = << >>}
<1>16. 0 \in T
  BY <1>3, <1>12, <1>14
<1>17. ASSUME NEW k \in 1 .. K, k - 1 \in T PROVE k \in T
  <2> SUFFICES ASSUME k < K PROVE Times(u[k]) = w[k] /\ v[k] = << >>
    BY <1>1, <1>3
  <2>1. Times(u[k - 1]) = w[k - 1] /\ v[k - 1] = << >>
    <3>1. k - 1 < K
      BY <1>1, <1>3
    <3> QED
      BY <1>17, <3>1
  <2>2. aft[k] = << >> /\ Times(bef[k]) = all[k]
    BY <1>6, <1>8
  <2>3. Times(u[k]) = w[k]
    BY <1>12, <1>15, <2>1, <2>2
  <2>4. v[k] = << >> \o << >>
    BY <1>12, <2>1, <2>2
  <2>5. << >> \o << >> = << >>
    BY EmptySeq, ConcatEmptySeq
  <2> QED
    BY <2>3, <2>4, <2>5
<1> HIDE DEF T
<1>18. \A k \in 0 .. K : k \in T
  <2>1. K \in Nat
    BY <1>1, <1>3
  <2> QED
    BY <1>16, <1>17, <2>1, UpTo
<1>19. Times(u[K]) \o Times(v[K]) = w[K]
  <2>1. CASE K = 0
    <3>1. Times(u[K]) = << >> /\ Times(v[K]) = << >> /\ w[K] = << >>
      BY <1>12, <1>14, <2>1
    <3>2. << >> \o << >> = << >>
      BY EmptySeq, ConcatEmptySeq
    <3> QED
      BY <3>1, <3>2
  <2>2. CASE K # 0
    <3>1. K \in 1 .. K /\ K - 1 \in 0 .. K /\ K - 1 < K
      BY <1>1, <1>3, <2>2
    <3>2. Times(u[K - 1]) = w[K - 1] /\ v[K - 1] = << >>
      BY <1>18, <3>1 DEF T
    <3>3. Times(u[K]) = w[K - 1] \o Times(bef[K])
      BY <1>15, <3>1, <3>2
    <3>4. v[K] = aft[K]
      <4>1. v[K] = << >> \o aft[K] /\ aft[K] \in QA
        BY <1>6, <1>12, <3>1, <3>2
      <4> QED
        BY <4>1, ConcatEmptySeq DEF QA
    <3>5. w[K] = w[K - 1] \o all[K] /\ all[K] = Times(bef[K]) \o Times(aft[K])
      BY <1>6, <1>8, <1>12, <3>1
    <3> DEFINE x == w[K - 1]
               y == Times(bef[K])
               z == Times(aft[K])
    <3>6. x \in Seq(Nat) /\ y \in Seq(Nat) /\ z \in Seq(Nat)
      <4>1. bef[K] \in QB /\ aft[K] \in QA /\ x \in QT
        BY <1>6, <1>12, <3>1
      <4> QED
        BY <1>13, <4>1, TimesRight DEF QB, QA, QT
    <3> HIDE DEF x, y, z
    <3>7. Associated(x, y, z)
      BY <3>6, Associates
    <3>8. (x \o y) \o z = x \o (y \o z)
      BY <3>7 DEF Associated
    <3> QED
      BY <3>3, <3>4, <3>5, <3>8 DEF x, y, z
  <2> QED
    BY <2>1, <2>2
<1>20. K \in 0 .. K
  BY <1>1, <1>3
<1> QED
  BY <1>3, <1>4, <1>12, <1>19, <1>20 DEF bef, aft, all, b, l, K, L, QB, QA

-----------------------------------------------------------------------------
(* LivoMapper: the inductive invariant of CutOnce *)

Used == [time : Nat, at : Int]

TypeRight ==
  /\ settings \in Settings /\ lidarClock \in Nat
  /\ used \in Seq(Used) /\ pcl_proc_next \in Seq(Pt) /\ img_time_buffer \in Seq(Nat)
  /\ last_lio_update_time \in Int /\ last_prop_end_time \in Int /\ updates \in Nat
  /\ init_iter_num \in Nat /\ imu_buffer \in Seq(Nat) /\ imuClock \in Nat /\ imgClock \in Nat

CutInv ==
  /\ TypeRight
  /\ Buffered(lid_raw_data_buffer, lidarClock)
  /\ received = Times(used) \o Times(pcl_proc_next) \o Joined(ScanTimes(lid_raw_data_buffer))
  /\ updates > 0 => ~imu_need_init /\ pcl_proc_next \in Seq(PtsAt(last_prop_end_time))
  /\ slam_mode_ # "LIVO" => pcl_proc_next = << >>
  /\ (slam_mode_ = "LIVO" /\ lio_vio_flg = "LIO" /\ ~imu_need_init) =>
       img_time_buffer # << >> /\ last_prop_end_time = Head(img_time_buffer)


LEMMA SettingsAre ==
  ASSUME settings \in Settings
  PROVE  /\ settings.img_en \in BOOLEAN /\ settings.imu_en \in BOOLEAN
         /\ settings.img_en => settings.imu_en
         /\ settings.pcd_save_interval \in Int
BY ParameterAssumption

LEMMA CutInvInit == Init => CutInv
<1> SUFFICES ASSUME Init PROVE CutInv
  OBVIOUS
<1>1. /\ settings \in Settings /\ lidarClock = 0 /\ used = << >> /\ pcl_proc_next = << >>
      /\ img_time_buffer = << >> /\ last_lio_update_time = -1 /\ last_prop_end_time = 0
      /\ updates = 0 /\ init_iter_num = 1 /\ imu_buffer = << >> /\ imuClock = 0 /\ imgClock = 0
      /\ lid_raw_data_buffer = << >> /\ received = << >> /\ lio_vio_flg = "WAIT"
  BY DEF Init, readParameters, ImuProcessInit, MembersInit
<1>2. TypeRight
  BY <1>1 DEF TypeRight
<1>3. Buffered(<< >>, 0)
  <2>1. << >> \in Seq(Scan) /\ Len(<< >>) = 0
    OBVIOUS
  <2> QED
    BY <2>1 DEF Buffered
<1>4. Times(<< >>) = << >>
  <2>1. << >> \in Seq(Pt) /\ \A p \in Pt : p.time \in Nat
    BY DEF Pt
  <2>2. Times(<< >>) \in Seq(Nat) /\ Len(Times(<< >>)) = Len(<< >>)
    BY <2>1, TimesRight
  <2> QED
    BY <2>2, EmptySeq
<1>5. Joined(ScanTimes(<< >>)) = << >>
  <2>1. << >> \in Seq(Scan) /\ Len(<< >>) = 0
    OBVIOUS
  <2>2. ScanTimes(<< >>) \in Seq(Seq(Nat)) /\ Len(ScanTimes(<< >>)) = 0
    BY <2>1, ScanTimesRight
  <2>3. PICK u : JoinedBy(u, ScanTimes(<< >>), Nat)
    BY <2>2, JoinedSteps
  <2> QED
    BY <2>2, <2>3 DEF JoinedBy
<1>6. << >> \o << >> = << >>
  BY EmptySeq, ConcatEmptySeq
<1> QED
  BY <1>1, <1>2, <1>3, <1>4, <1>5, <1>6 DEF CutInv

cutVars == <<settings, lidarClock, lid_raw_data_buffer, received, used, pcl_proc_next, updates,
             imu_need_init, last_prop_end_time, lio_vio_flg, img_time_buffer,
             last_lio_update_time, init_iter_num, imu_buffer, imuClock, imgClock>>

LEMMA CutInvSame ==
  ASSUME CutInv, UNCHANGED cutVars
  PROVE  CutInv'
BY DEF CutInv, TypeRight, cutVars, slam_mode_

\* The scan that a callback buffers
LEMMA ScanOfRight ==
  ASSUME lidarClock \in Nat, NEW cloud \in Clouds, cloud # << >>
  PROVE  /\ ScanRight(ScanOf(cloud)) /\ ScanOf(cloud).beg = lidarClock
         /\ Times(ScanOf(cloud).points) = [n \in DOMAIN cloud |-> lidarClock + cloud[n]]
<1> DEFINE s == ScanOf(cloud)
           l == Len(cloud)
           pts == [n \in 1 .. l |-> [time |-> lidarClock + cloud[n], curvature |-> cloud[n]]]
<1>1. /\ ScanLen \in Nat \ {0} /\ cloud \in Seq(0 .. ScanLen - 1)
      /\ \A k \in 1 .. Len(cloud) - 1 : cloud[k] < cloud[k + 1]
  BY ClockAssumption
<1>2. l \in Nat /\ l > 0 /\ DOMAIN cloud = 1 .. l /\ \A n \in 1 .. l : cloud[n] \in 0 .. ScanLen - 1
  BY <1>1, EmptySeq
<1>3. s.beg = lidarClock /\ s.points = pts /\ s = [beg |-> lidarClock, points |-> pts]
  BY <1>2 DEF ScanOf
<1>4. \A j, k \in 1 .. l : j < k => cloud[j] < cloud[k]
  <2> SUFFICES ASSUME NEW j \in 1 .. l PROVE \A k \in 1 .. l : j < k => cloud[j] < cloud[k]
    OBVIOUS
  <2> HIDE DEF l
  <2> DEFINE T == {k \in 0 .. l : j < k => cloud[j] < cloud[k]}
  <2>1. 0 \in T
    BY <1>2
  <2>2. ASSUME NEW k \in 1 .. l, k - 1 \in T PROVE k \in T
    <3> SUFFICES ASSUME j < k PROVE cloud[j] < cloud[k]
      BY <1>2
    <3>1. k - 1 \in 1 .. l /\ cloud[k - 1] < cloud[k]
      <4>1. k - 1 \in 1 .. Len(cloud) - 1
        BY <1>2 DEF l
      <4>2. cloud[k - 1] < cloud[(k - 1) + 1]
        BY <1>1, <4>1
      <4>3. (k - 1) + 1 = k /\ k - 1 \in 1 .. l
        BY <1>2
      <4> QED
        BY <4>2, <4>3
    <3>2. CASE j = k - 1
      BY <3>1, <3>2
    <3>3. CASE j # k - 1
      <4>1. j < k - 1
        BY <1>2, <3>3
      <4>2. cloud[j] < cloud[k - 1]
        BY <2>2, <4>1
      <4>3. cloud[j] \in Int /\ cloud[k] \in Int /\ cloud[k - 1] \in Int
        BY <1>1, <1>2, <3>1
      <4> QED
        BY <3>1, <4>2, <4>3
    <3> QED
      BY <3>2, <3>3
  <2> HIDE DEF T
  <2>3. \A k \in 0 .. l : k \in T
    BY <1>2, <2>1, <2>2, UpTo
  <2> QED
    BY <1>2, <2>3 DEF T
<1>5. \A n \in 1 .. l : pts[n].time = lidarClock + cloud[n] /\ pts[n].curvature = cloud[n] /\ pts[n] \in Pt
  <2> SUFFICES ASSUME NEW n \in 1 .. l
               PROVE  pts[n].time = lidarClock + cloud[n] /\ pts[n].curvature = cloud[n] /\ pts[n] \in Pt
    OBVIOUS
  <2>1. cloud[n] \in Nat
    BY <1>1, <1>2
  <2>2. lidarClock + cloud[n] \in Nat
    BY <2>1
  <2> QED
    BY <2>1, <2>2 DEF Pt
<1>6. pts \in Seq(Pt) /\ Len(pts) = l
  BY <1>2, <1>5
<1>7. Times(pts) = [n \in DOMAIN cloud |-> lidarClock + cloud[n]]
  <2>1. Times(pts) = [n \in 1 .. l |-> pts[n].time]
    BY <1>6, Zenon DEF Times
  <2> HIDE DEF pts
  <2> QED
    BY <1>2, <1>5, <2>1
<1> HIDE DEF pts, l, s
<1>8. s \in Scan /\ s.points # << >>
  <2>1. pts # << >>
    BY <1>2, <1>6
  <2> QED
    BY <1>3, <1>6, <2>1 DEF Scan
<1>9. /\ \A k \in 1 .. Len(s.points) : /\ s.points[k].curvature \in 0 .. ScanLen - 1
                                      /\ s.points[k].time = s.beg + s.points[k].curvature
      /\ \A j, k \in 1 .. Len(s.points) :
           j < k => s.points[j].curvature < s.points[k].curvature
  BY <1>2, <1>3, <1>4, <1>5, <1>6
<1> QED
  BY <1>3, <1>7, <1>8, <1>9 DEF ScanRight, s

LEMMA CutInvPush ==
  ASSUME CutInv, NEW cloud \in Clouds, cloud # << >>, PushScan(cloud),
         lidarClock' = lidarClock + ScanLen,
         UNCHANGED <<settings, used, pcl_proc_next, updates,
             imu_need_init, last_prop_end_time, lio_vio_flg, img_time_buffer,
             last_lio_update_time, init_iter_num, imu_buffer, imuClock, imgClock>>
  PROVE  CutInv'
<1> DEFINE b == lid_raw_data_buffer
           s == ScanOf(cloud)
           t == [n \in DOMAIN cloud |-> lidarClock + cloud[n]]
           x == Times(used) \o Times(pcl_proc_next)
           y == Joined(ScanTimes(b))
<1>1. /\ TypeRight /\ Buffered(b, lidarClock) /\ received = x \o y
      /\ lidarClock \in Nat /\ used \in Seq(Used) /\ pcl_proc_next \in Seq(Pt) /\ ScanLen \in Nat
  BY ClockAssumption DEF CutInv, TypeRight
<1>2. ScanRight(s) /\ s.beg = lidarClock /\ Times(s.points) = t
  BY <1>1, ScanOfRight
<1>3. b' = Append(b, s) /\ received' = received \o t
  BY DEF PushScan
<1>4. Buffered(Append(b, s), lidarClock + ScanLen)
  <2> HIDE DEF s, b
  <2> QED
    BY <1>1, <1>2, BufferedAppend
<1>5. b \in Seq(Scan) /\ s \in Scan
  BY <1>1, <1>2 DEF Buffered, ScanRight
<1>6. Joined(ScanTimes(Append(b, s))) = y \o t
  <2> HIDE DEF s, b, t
  <2>1. Joined(ScanTimes(Append(b, s))) = Joined(ScanTimes(b)) \o Times(s.points)
    BY <1>5, ScanTimesAppend
  <2> QED
    BY <1>2, <2>1
<1>7. x \in Seq(Nat) /\ y \in Seq(Nat) /\ t \in Seq(Nat)
  <2>1. Times(used) \in Seq(Nat) /\ Times(pcl_proc_next) \in Seq(Nat)
    <3>1. (\A p \in Used : p.time \in Nat) /\ \A p \in Pt : p.time \in Nat
      BY DEF Used, Pt
    <3> QED
      BY <1>1, <3>1, TimesRight
  <2>2. x \in Seq(Nat)
    BY <2>1, ConcatProperties
  <2>3. ScanTimes(b) \in Seq(Seq(Nat))
    BY <1>5, ScanTimesRight
  <2>4. y \in Seq(Nat)
    BY <2>3, JoinedIsSeq
  <2>5. s.points \in Seq(Pt)
    BY <1>5 DEF Scan
  <2>6. Times(s.points) \in Seq(Nat)
    <3>1. \A p \in Pt : p.time \in Nat
      BY DEF Pt
    <3> QED
      BY <2>5, <3>1, TimesRight
  <2> QED
    BY <1>2, <2>2, <2>4, <2>6
<1>8. (x \o y) \o t = x \o (y \o t)
  <2> HIDE DEF x, y, t
  <2>1. Associated(x, y, t)
    BY <1>7, Associates
  <2> QED
    BY <2>1 DEF Associated
<1>9. received' = x \o Joined(ScanTimes(b'))
  BY <1>1, <1>3, <1>6, <1>8
<1>10. x' = x
  OBVIOUS
<1>11. Buffered(b', lidarClock') /\ lidarClock' \in Nat
  BY <1>1, <1>3, <1>4
<1> HIDE DEF b, s, t, x, y
<1>12. /\ updates > 0 => ~imu_need_init /\ pcl_proc_next \in Seq(PtsAt(last_prop_end_time))
       /\ slam_mode_ # "LIVO" => pcl_proc_next = << >>
       /\ (slam_mode_ = "LIVO" /\ lio_vio_flg = "LIO" /\ ~imu_need_init) =>
            img_time_buffer # << >> /\ last_prop_end_time = Head(img_time_buffer)
  BY DEF CutInv
<1>13. TypeRight'
  BY <1>1, <1>11 DEF TypeRight
<1>14. slam_mode_' = slam_mode_
  BY DEF slam_mode_
<1>15. received' = (Times(used) \o Times(pcl_proc_next) \o Joined(ScanTimes(lid_raw_data_buffer)))'
  BY <1>9, <1>10 DEF x, b
<1>16. Buffered(lid_raw_data_buffer, lidarClock)'
  BY <1>11 DEF b
<1> QED
  BY <1>12, <1>13, <1>14, <1>15, <1>16 DEF CutInv


\* Points placed in the world: where an update put them, and what it publishes
Placed(pts, time) == [n \in 1 .. Len(pts) |-> [time |-> pts[n].time, at |-> time]]

LEMMA PlacedRight ==
  ASSUME NEW pts \in Seq(Pt), NEW time \in Int
  PROVE  /\ Placed(pts, time) \in Seq(Used) /\ Len(Placed(pts, time)) = Len(pts)
         /\ \A n \in 1 .. Len(pts) : Placed(pts, time)[n] = [time |-> pts[n].time, at |-> time]
         /\ Times(Placed(pts, time)) = Times(pts)
<1> DEFINE r == Placed(pts, time)
<1>1. Len(pts) \in Nat /\ \A n \in 1 .. Len(pts) : [time |-> pts[n].time, at |-> time] \in Used
  <2>1. \A n \in 1 .. Len(pts) : pts[n] \in Pt
    OBVIOUS
  <2>2. \A n \in 1 .. Len(pts) : pts[n].time \in Nat
    BY <2>1 DEF Pt
  <2> QED
    BY <2>2 DEF Used
<1>2. r = [n \in 1 .. Len(pts) |-> [time |-> pts[n].time, at |-> time]]
  BY DEF Placed
<1> HIDE DEF r
<1>3. r \in Seq(Used) /\ Len(r) = Len(pts)
  <2> DEFINE l == Len(pts)
             At(n) == [time |-> pts[n].time, at |-> time]
  <2>1. l \in Nat /\ (\A n \in 1 .. l : At(n) \in Used) /\ r = [n \in 1 .. l |-> At(n)]
    BY <1>1, <1>2
  <2> HIDE DEF l, At
  <2>2. r \in Seq(Used) /\ Len(r) = l
    BY <2>1
  <2> QED
    BY <2>2 DEF l
<1>4. \A n \in 1 .. Len(pts) : r[n] = [time |-> pts[n].time, at |-> time]
  BY <1>2
<1>5. Times(r) = Times(pts)
  <2>1. Times(r) = [n \in 1 .. Len(pts) |-> r[n].time]
    BY <1>3, Zenon DEF Times
  <2>2. \A n \in 1 .. Len(pts) : r[n].time = pts[n].time
    <3> SUFFICES ASSUME NEW n \in 1 .. Len(pts) PROVE r[n].time = pts[n].time
      OBVIOUS
    <3>1. r[n] = [time |-> pts[n].time, at |-> time]
      BY <1>4
    <3> QED
      BY <3>1
  <2>3. Times(pts) = [n \in 1 .. Len(pts) |-> pts[n].time]
    BY Zenon DEF Times
  <2> QED
    BY <2>1, <2>2, <2>3
<1> QED
  BY <1>3, <1>4, <1>5 DEF r

LEMMA UseRight ==
  ASSUME used \in Seq(Used), NEW pts \in Seq(Pt), NEW end \in Int, Use(pts, end)
  PROVE  /\ used' = used \o Placed(pts, end)
         /\ used' \in Seq(Used)
         /\ Times(used') = Times(used) \o Times(pts)
<1>1. used' = used \o Placed(pts, end)
  BY DEF Use, Placed
<1> DEFINE r == Placed(pts, end)
<1>2. r \in Seq(Used) /\ Times(r) = Times(pts)
  BY PlacedRight
<1>3. \A p \in Used : p.time \in Nat
  BY DEF Used
<1> HIDE DEF r
<1>4. used \o r \in Seq(Used)
  BY <1>2, ConcatProperties
<1>5. Times(used \o r) = Times(used) \o Times(r)
  BY <1>2, <1>3, TimesConcat
<1> QED
  BY <1>1, <1>2, <1>4, <1>5 DEF r

LEMMA TailIs ==
  ASSUME NEW S, NEW s \in Seq(S), s # << >>
  PROVE  Tail(s) = SubSeq(s, 1 + 1, Len(s)) /\ Head(s) = s[1] /\ 1 \in 0 .. Len(s)
<1> DEFINE r == SubSeq(s, 1 + 1, Len(s))
           l == Len(s)
<1>1. l \in Nat /\ l > 0 /\ \A k \in 1 .. l : s[k] \in S
  BY EmptySeq
<1>2. r \in Seq(S) /\ Len(r) = l - 1 /\ \A k \in 1 .. l - 1 : r[k] = s[1 + k]
  <2>1. \A k \in 1 + 1 .. l : s[k] \in S
    BY <1>1
  <2> HIDE DEF l
  <2>2. /\ SubSeq(s, 1 + 1, l) \in Seq(S)
        /\ Len(SubSeq(s, 1 + 1, l)) = IF 1 + 1 <= l THEN l - (1 + 1) + 1 ELSE 0
        /\ \A k \in 1 .. l - (1 + 1) + 1 : SubSeq(s, 1 + 1, l)[k] = s[(1 + 1) + k - 1]
    BY <1>1, <2>1, SubSeqProperties, 1 + 1 \in Int, l \in Int
  <2>3. r = SubSeq(s, 1 + 1, l)
    BY DEF l
  <2> HIDE DEF r
  <2> QED
    BY <1>1, <2>2, <2>3
<1> HIDE DEF r
<1>3. Tail(s) \in Seq(S) /\ Len(Tail(s)) = l - 1 /\ \A k \in 1 .. l - 1 : Tail(s)[k] = s[k + 1]
  BY HeadTailProperties
<1>4. \A k \in 1 .. Len(r) : Tail(s)[k] = r[k]
  <2> SUFFICES ASSUME NEW k \in 1 .. l - 1 PROVE Tail(s)[k] = r[k]
    BY <1>2
  <2>1. 1 + k = k + 1
    BY <1>1
  <2> QED
    BY <1>2, <1>3, <2>1
<1>5. Tail(s) = r
  BY <1>2, <1>3, <1>4, SeqEqual
<1>6. Head(s) = s[1]
  BY HeadTailProperties
<1> QED
  BY <1>1, <1>5, <1>6 DEF r, l

LEMMA JoinedFirst ==
  ASSUME NEW S, NEW seqs \in Seq(Seq(S)), seqs # << >>
  PROVE  Joined(SubSeq(seqs, 1, 1)) = seqs[1]
<1> DEFINE Q == Seq(S)
           r == SubSeq(seqs, 1, 1)
<1>1. Len(seqs) \in Nat /\ Len(seqs) > 0 /\ seqs \in Seq(Q) /\ seqs[1] \in Q
  BY EmptySeq
<1>2. r \in Seq(Q) /\ Len(r) = 1 /\ r[1] = seqs[1]
  <2> HIDE DEF Q
  <2>1. \A k \in 1 .. 1 : seqs[k] \in Q
    BY <1>1
  <2>2. /\ r \in Seq(Q) /\ Len(r) = IF 1 <= 1 THEN 1 - 1 + 1 ELSE 0
        /\ \A k \in 1 .. 1 - 1 + 1 : r[k] = seqs[1 + k - 1]
    BY <2>1, SubSeqProperties
  <2> HIDE DEF r
  <2> QED
    BY <2>2
<1> HIDE DEF r
<1>3. PICK u : JoinedBy(u, r, S)
  BY <1>2, JoinedSteps
<1>4. u[0] = << >> /\ u[1] = u[1 - 1] \o r[1] /\ Joined(r) = u[1]
  <2>1. Len(r) = 1 /\ 1 \in 1 .. 1
    BY <1>2
  <2>2. u[0] = << >> /\ Joined(r) = u[Len(r)] /\ \A k \in 1 .. Len(r) : u[k] = u[k - 1] \o r[k]
    BY <1>3 DEF JoinedBy
  <2>3. \A k \in 1 .. 1 : u[k] = u[k - 1] \o r[k]
    BY <2>1, <2>2
  <2> QED
    BY <2>1, <2>2, <2>3
<1>5. u[1] = << >> \o seqs[1]
  <2>1. 1 - 1 = 0
    OBVIOUS
  <2> QED
    BY <1>2, <1>4, <2>1
<1>6. << >> \o seqs[1] = seqs[1]
  BY <1>1, ConcatEmptySeq
<1> QED
  BY <1>4, <1>5, <1>6 DEF r

\* Two ways to put five sequences together
SameJoined(a, b, c, d, e) == (a \o b) \o ((c \o d) \o e) = ((a \o (b \o c)) \o d) \o e
LEMMA Regroup ==
  ASSUME NEW S, NEW a \in Seq(S), NEW b \in Seq(S), NEW c \in Seq(S), NEW d \in Seq(S),
         NEW e \in Seq(S)
  PROVE  SameJoined(a, b, c, d, e)
<1> DEFINE ab == a \o b
           cd == c \o d
<1>1. ab \in Seq(S) /\ cd \in Seq(S)
  BY ConcatProperties
<1>3. Associated(a, b, c)
  BY Associates
<1> HIDE DEF ab, cd
<1>4. Associated(ab, cd, e) /\ Associated(ab, c, d)
  BY <1>1, Associates
<1> QED
  BY <1>3, <1>4, Zenon DEF ab, cd, Associated, SameJoined

\* What the IMU makes of an update
LEMMA Process2Cut ==
  ASSUME NEW samples \in Seq(Nat), NEW pts, NEW end \in Int, Process2(samples, pts, end),
         last_prop_end_time \in Int, LastUpdate \in Int, updates \in Nat, init_iter_num \in Nat
  PROVE  /\ last_prop_end_time' \in Int /\ last_lio_update_time' \in Int /\ updates' \in Nat
         /\ init_iter_num' \in Nat
         /\ imu_need_init => updates' = updates
         /\ (imu_need_init /\ ~imu_need_init') => last_prop_end_time' = end
         /\ ~imu_need_init => ~imu_need_init' /\ last_prop_end_time' = end
<1>1. CASE imu_need_init
  <2>1. IMU_init(samples, end) /\ last_lio_update_time' = LastUpdate
    BY <1>1 DEF Process2
  <2> DEFINE n == init_iter_num + Len(samples)
  <2>2. updates' = updates
    BY <2>1 DEF IMU_init
  <2>3. CASE samples = << >>
    BY <1>1, <2>1, <2>2, <2>3 DEF IMU_init
  <2>4. CASE samples # << >>
    <3>1. /\ imu_need_init' = (n <= MAX_INI_COUNT)
          /\ last_prop_end_time' = IF n > MAX_INI_COUNT THEN end ELSE 0
          /\ init_iter_num' = n
      BY <2>1, <2>4 DEF IMU_init
    <3>2. last_prop_end_time' \in Int
      BY <3>1
    <3>3. ~imu_need_init' => last_prop_end_time' = end
      <4>1. (~(n <= MAX_INI_COUNT)) => n > MAX_INI_COUNT
        <5>1. n \in Nat /\ MAX_INI_COUNT \in Nat
          BY ParameterAssumption
        <5> HIDE DEF n
        <5> QED
          BY <5>1
      <4> QED
        BY <3>1, <4>1
    <3>4. init_iter_num' \in Nat
      BY <3>1
    <3> QED
      BY <1>1, <2>1, <2>2, <3>2, <3>3, <3>4
  <2> QED
    BY <2>3, <2>4
<1>2. CASE ~imu_need_init
  <2>1. UndistortPcl(samples, pts, end)
    BY <1>2, Zenon DEF Process2
  <2>2. /\ last_prop_end_time' = end /\ last_lio_update_time' = end /\ updates' = updates + 1
        /\ imu_need_init' = imu_need_init /\ init_iter_num' = init_iter_num
    BY <2>1, Zenon DEF UndistortPcl
  <2> QED
    BY <1>2, <2>2
<1> QED
  BY <1>1, <1>2


LEMMA SubRight ==
  ASSUME NEW S, NEW s \in Seq(S), NEW a \in 0 .. Len(s), NEW b \in a .. Len(s)
  PROVE  /\ SubSeq(s, a + 1, b) \in Seq(S) /\ Len(SubSeq(s, a + 1, b)) = b - a
         /\ \A k \in 1 .. b - a : SubSeq(s, a + 1, b)[k] = s[a + k] /\ a + k \in 1 .. Len(s)
<1> DEFINE r == SubSeq(s, a + 1, b)
<1>1. Len(s) \in Nat /\ \A k \in 1 .. Len(s) : s[k] \in S
  OBVIOUS
<1>2. \A k \in a + 1 .. b : s[k] \in S
  BY <1>1
<1>3. /\ r \in Seq(S) /\ Len(r) = IF a + 1 <= b THEN b - (a + 1) + 1 ELSE 0
      /\ \A k \in 1 .. b - (a + 1) + 1 : r[k] = s[(a + 1) + k - 1]
  BY <1>2, SubSeqProperties, a + 1 \in Int, b \in Int
<1> HIDE DEF r
<1>4. Len(r) = b - a /\ \A k \in 1 .. b - a : r[k] = s[a + k] /\ a + k \in 1 .. Len(s)
  BY <1>1, <1>3
<1> QED
  BY <1>3, <1>4 DEF r

LEMMA AppendKeepsHead ==
  ASSUME NEW S, NEW s \in Seq(S), NEW t \in S
  PROVE  /\ Append(s, t) \in Seq(S)
         /\ s # << >> => Append(s, t) # << >> /\ Head(Append(s, t)) = Head(s)
<1> DEFINE r == Append(s, t)
<1>1. /\ r \in Seq(S) /\ Len(r) = Len(s) + 1 /\ Len(s) \in Nat
      /\ \A n \in 1 .. Len(s) : r[n] = s[n]
  BY AppendProperties
<1> HIDE DEF r
<1>2. ASSUME s # << >> PROVE r # << >> /\ Head(r) = Head(s)
  <2>1. Len(s) # 0 /\ 1 \in 1 .. Len(s)
    BY <1>1, <1>2, EmptySeq
  <2>2. r # << >>
    BY <1>1, <2>1
  <2>3. Head(r) = r[1] /\ Head(s) = s[1]
    BY <1>1, <1>2, <2>2, HeadTailProperties
  <2> QED
    BY <1>1, <2>1, <2>2, <2>3
<1> QED
  BY <1>1, <1>2 DEF r

LEMMA LastUpdateRight ==
  ASSUME CutInv, lid_raw_data_buffer # << >>
  PROVE  /\ LastUpdate \in Int
         /\ lid_raw_data_buffer \in Seq(Scan) /\ Len(lid_raw_data_buffer) \in Nat \ {0}
         /\ Head(lid_raw_data_buffer) = lid_raw_data_buffer[1]
         /\ ScanRight(lid_raw_data_buffer[1])
         /\ lid_raw_data_buffer[1].beg \in Nat /\ lid_raw_data_buffer[1].points \in Seq(Pt)
<1> DEFINE b == lid_raw_data_buffer
<1>1. b \in Seq(Scan) /\ b # << >> /\ \A n \in 1 .. Len(b) : ScanRight(b[n])
  BY DEF CutInv, Buffered
<1>2. Len(b) \in Nat \ {0} /\ Head(b) = b[1] /\ b[1] \in Scan /\ ScanRight(b[1])
  BY <1>1, EmptySeq, HeadTailProperties
<1>3. b[1].beg \in Nat /\ b[1].points \in Seq(Pt)
  BY <1>2 DEF Scan
<1>4. LastUpdate \in Int
  BY <1>2, <1>3 DEF LastUpdate, CutInv, TypeRight
<1> QED
  BY <1>1, <1>2, <1>3, <1>4

LEMMA SamplesRight ==
  ASSUME imu_buffer \in Seq(Nat), NEW time \in Int
  PROVE  /\ SamplesUpTo(time) \in 0 .. Len(imu_buffer)
         /\ \A k \in 1 .. SamplesUpTo(time) : imu_buffer[k] <= time
         /\ SamplesUpTo(time) < Len(imu_buffer) => imu_buffer[SamplesUpTo(time) + 1] > time
<1> DEFINE P == {k \in DOMAIN imu_buffer : imu_buffer[k] <= time}
           m == SamplesUpTo(time)
           l == Len(imu_buffer)
<1>1. m = Leading(l, P)
  BY DEF SamplesUpTo
<1>2. l \in Nat /\ DOMAIN imu_buffer = 1 .. l /\ \A k \in 1 .. l : imu_buffer[k] \in Nat
  OBVIOUS
<1> HIDE DEF m, l
<1>3. /\ m \in 0 .. l /\ \A k \in 1 .. m : k \in P
      /\ m < l => m + 1 \notin P
  <2> HIDE DEF P
  <2> QED
    BY <1>1, <1>2, LeadingRight
<1>4. m < l => imu_buffer[m + 1] > time
  <2> SUFFICES ASSUME m < l PROVE imu_buffer[m + 1] > time
    OBVIOUS
  <2>1. m + 1 \in 1 .. l
    BY <1>2, <1>3
  <2>2. ~(imu_buffer[m + 1] <= time)
    BY <1>2, <1>3, <2>1
  <2> QED
    BY <1>2, <2>1, <2>2
<1> QED
  BY <1>2, <1>3, <1>4 DEF m, l

-----------------------------------------------------------------------------
(* LivoMapper: every step keeps CutInv *)

LEMMA CutInvLidar == CutInv /\ (livox_pcl_cbk \/ standard_pcl_cbk) => CutInv'
<1> SUFFICES ASSUME CutInv, livox_pcl_cbk \/ standard_pcl_cbk PROVE CutInv'
  OBVIOUS
<1>1. PICK cloud \in Clouds :
        /\ lidarClock' = lidarClock + ScanLen
        /\ IF cloud = << >> THEN UNCHANGED <<lidarIn, received>> ELSE PushScan(cloud)
  BY DEF livox_pcl_cbk, standard_pcl_cbk
<1>2. /\ UNCHANGED <<settings, used, pcl_proc_next, updates, imu_need_init, last_prop_end_time,
                     lio_vio_flg, img_time_buffer, last_lio_update_time>>
      /\ UNCHANGED <<init_iter_num, imu_buffer, imuClock, imgClock>>
  BY DEF livox_pcl_cbk, standard_pcl_cbk, imgIn, meas, imuProcess, history, node
<1>3. CASE cloud # << >>
  BY <1>1, <1>2, <1>3, CutInvPush
<1>4. CASE cloud = << >>
  <2>1. lid_raw_data_buffer' = lid_raw_data_buffer /\ received' = received
    BY <1>1, <1>4 DEF lidarIn
  <2>2. lidarClock' \in Nat /\ lidarClock <= lidarClock' /\ lidarClock \in Nat
    <3>1. ScanLen \in Nat /\ lidarClock \in Nat
      BY ClockAssumption DEF CutInv, TypeRight
    <3> QED
      BY <1>1, <3>1
  <2>3. Buffered(lid_raw_data_buffer, lidarClock')
    <3> DEFINE b == lid_raw_data_buffer
    <3>1. b \in Seq(Scan) /\ ScanLen \in Nat
      BY ClockAssumption DEF CutInv, Buffered
    <3>2. /\ \A n \in 1 .. Len(b) : ScanRight(b[n]) /\ b[n].beg + ScanLen <= lidarClock
          /\ \A m, n \in 1 .. Len(b) : m < n => b[m].beg + ScanLen <= b[n].beg
      BY DEF CutInv, Buffered
    <3>3. \A n \in 1 .. Len(b) : b[n].beg \in Nat
      <4>1. \A n \in 1 .. Len(b) : b[n] \in Scan
        BY <3>1
      <4> QED
        BY <4>1 DEF Scan
    <3>4. \A n \in 1 .. Len(b) : b[n].beg + ScanLen <= lidarClock'
      BY <2>2, <3>1, <3>2, <3>3
    <3> QED
      BY <3>1, <3>2, <3>4 DEF Buffered
  <2>4. TypeRight'
    BY <1>2, <2>2 DEF CutInv, TypeRight
  <2> QED
    BY <1>2, <2>1, <2>3, <2>4 DEF CutInv, slam_mode_
<1> QED
  BY <1>3, <1>4

LEMMA CutInvSensors == CutInv /\ (imu_cbk \/ img_cbk \/ imu_prop_callback \/ savePCD) => CutInv'
<1> SUFFICES ASSUME CutInv, imu_cbk \/ img_cbk \/ imu_prop_callback \/ savePCD PROVE CutInv'
  OBVIOUS
<1>1. CASE imu_cbk
  <2>1. PICK t \in imuClock + 1 .. imuClock + ImuStep :
          imuClock' = t /\ (imu_buffer' = imu_buffer \/ imu_buffer' = Append(imu_buffer, t))
    BY <1>1 DEF imu_cbk
  <2>2. imuClock' \in Nat /\ imu_buffer' \in Seq(Nat)
    <3>1. imuClock \in Nat /\ ImuStep \in Nat /\ imu_buffer \in Seq(Nat)
      BY ClockAssumption DEF CutInv, TypeRight
    <3>2. t \in Nat
      BY <3>1
    <3> QED
      BY <2>1, <3>1, <3>2
  <2>3. UNCHANGED <<settings, lidarClock, lid_raw_data_buffer, received, used, pcl_proc_next,
             updates, imu_need_init, last_prop_end_time, lio_vio_flg, img_time_buffer,
             last_lio_update_time, init_iter_num, imgClock>>
    BY <1>1 DEF imu_cbk, lidarIn, imgIn, meas, imuProcess, history, node, clocks
  <2>4. TypeRight'
    BY <2>2, <2>3 DEF CutInv, TypeRight
  <2> QED
    BY <2>3, <2>4 DEF CutInv, slam_mode_
<1>2. CASE img_cbk
  <2>1. PICK t \in imgClock + 1 .. Horizon :
          /\ imgClock' = t
          /\ img_time_buffer' = img_time_buffer \/ img_time_buffer' = Append(img_time_buffer, t)
    BY <1>2 DEF img_cbk, imgIn
  <2>2. t \in Nat /\ imgClock' \in Nat
    <3>1. imgClock \in Nat /\ Horizon \in Nat
      BY ClockAssumption DEF CutInv, TypeRight
    <3> QED
      BY <2>1, <3>1
  <2>3. /\ img_time_buffer' \in Seq(Nat)
        /\ img_time_buffer # << >> =>
             img_time_buffer' # << >> /\ Head(img_time_buffer') = Head(img_time_buffer)
    <3> DEFINE s == img_time_buffer
               r == Append(s, t)
    <3>1. s \in Seq(Nat)
      BY DEF CutInv, TypeRight
    <3>2. r \in Seq(Nat) /\ (s # << >> => r # << >> /\ Head(r) = Head(s))
      BY <2>2, <3>1, AppendKeepsHead
    <3>3. img_time_buffer' = s \/ img_time_buffer' = r
      BY <2>1
    <3> HIDE DEF r
    <3> QED
      BY <3>1, <3>2, <3>3
  <2>4. UNCHANGED <<settings, lidarClock, lid_raw_data_buffer, received, used, pcl_proc_next,
             updates, imu_need_init, last_prop_end_time, lio_vio_flg, imu_buffer, imuClock,
             last_lio_update_time, init_iter_num>>
    BY <1>2 DEF img_cbk, lidarIn, meas, imuProcess, history, node, clocks
  <2>5. TypeRight'
    BY <2>2, <2>3, <2>4 DEF CutInv, TypeRight
  <2> QED
    BY <2>3, <2>4, <2>5 DEF CutInv, slam_mode_
<1>3. CASE imu_prop_callback
  BY <1>3, CutInvSame DEF imu_prop_callback, cutVars, clocks, lidarIn, imgIn, meas, imuProcess,
     history, node
<1>4. CASE savePCD
  BY <1>4, CutInvSame DEF savePCD, cutVars, clocks, lidarIn, imgIn, meas, imuProcess, history
<1> QED
  BY <1>1, <1>2, <1>3, <1>4

LEMMA CutInvThrow == CutInv /\ ThrowImage => CutInv'
<1> SUFFICES ASSUME CutInv, ThrowImage PROVE CutInv'
  OBVIOUS
<1>1. /\ lid_raw_data_buffer # << >> /\ lio_vio_flg \in {"WAIT", "VIO"}
      /\ img_time_buffer' = Tail(img_time_buffer) /\ last_lio_update_time' = LastUpdate
  BY DEF ThrowImage, HasData
<1>2. img_time_buffer # << >>
  BY SettingsAre DEF ThrowImage, HasData, slam_mode_, CutInv, TypeRight
<1>3. img_time_buffer' \in Seq(Nat) /\ last_lio_update_time' \in Int
  BY <1>1, <1>2, LastUpdateRight, HeadTailProperties DEF CutInv, TypeRight
<1>4. UNCHANGED <<settings, lidarClock, lid_raw_data_buffer, received, used, pcl_proc_next,
             updates, imu_need_init, last_prop_end_time, lio_vio_flg, imu_buffer, imuClock,
             imgClock, init_iter_num>>
  BY DEF ThrowImage, clocks, lidarIn, imuProcess, history, node
<1>5. TypeRight'
  BY <1>3, <1>4 DEF CutInv, TypeRight
<1>6. lio_vio_flg' # "LIO"
  BY <1>1, <1>4
<1> QED
  BY <1>4, <1>5, <1>6 DEF CutInv, slam_mode_

LEMMA CutInvSyncVio == CutInv /\ SyncVio => CutInv'
<1> SUFFICES ASSUME CutInv, SyncVio PROVE CutInv'
  OBVIOUS
<1>1. /\ slam_mode_ = "LIVO" /\ lio_vio_flg = "LIO" /\ lio_vio_flg' = "VIO"
      /\ img_time_buffer' = Tail(img_time_buffer)
      /\ IF imu_need_init
           THEN UNCHANGED <<last_lio_update_time, last_prop_end_time>>
           ELSE last_lio_update_time' = Image /\ last_prop_end_time' = Image
  BY DEF SyncVio
<1>2. img_time_buffer # << >>
  BY SettingsAre DEF SyncVio, HasData, slam_mode_, CutInv, TypeRight
<1>3. img_time_buffer' \in Seq(Nat) /\ Image \in Nat
  BY <1>1, <1>2, HeadTailProperties DEF CutInv, TypeRight, Image
<1>4. UNCHANGED <<settings, lidarClock, lid_raw_data_buffer, received, used, pcl_proc_next,
             updates, imu_need_init, imu_buffer, imuClock, imgClock, init_iter_num>>
  BY DEF SyncVio, clocks, lidarIn, node
<1>5. last_prop_end_time' = last_prop_end_time /\ last_lio_update_time' \in Int
  BY <1>1, <1>3 DEF CutInv, TypeRight, Image
<1>6. TypeRight'
  BY <1>3, <1>4, <1>5 DEF CutInv, TypeRight
<1> QED
  BY <1>1, <1>4, <1>5, <1>6 DEF CutInv, slam_mode_


\* The points that are used, in whatever way they are taken from the buffers
LEMMA TimesUsed ==
  ASSUME CutInv
  PROVE  /\ Times(used) \in Seq(Nat) /\ Times(pcl_proc_next) \in Seq(Nat)
         /\ ScanTimes(lid_raw_data_buffer) \in Seq(Seq(Nat))
         /\ Len(ScanTimes(lid_raw_data_buffer)) = Len(lid_raw_data_buffer)
         /\ \A n \in 1 .. Len(lid_raw_data_buffer) :
              ScanTimes(lid_raw_data_buffer)[n] = Times(lid_raw_data_buffer[n].points)
<1>1. (\A p \in Used : p.time \in Nat) /\ \A p \in Pt : p.time \in Nat
  BY DEF Used, Pt
<1>2. used \in Seq(Used) /\ pcl_proc_next \in Seq(Pt) /\ lid_raw_data_buffer \in Seq(Scan)
  BY DEF CutInv, TypeRight, Buffered
<1>3. Times(used) \in Seq(Nat) /\ Times(pcl_proc_next) \in Seq(Nat)
  BY <1>1, <1>2, TimesRight
<1> QED
  BY <1>2, <1>3, ScanTimesRight

LEMMA CutInvSyncLio == CutInv /\ SyncLio => CutInv'
<1> SUFFICES ASSUME CutInv, SyncLio PROVE CutInv'
  OBVIOUS
<1> DEFINE b == lid_raw_data_buffer
           K == ScansUpTo(Image)
           popped == SamplesUpTo(Image)
           samples == Select(imu_buffer, {k \in 1 .. popped : imu_buffer[k] > LastUpdate})
           CB == CutBefore(Image)
           CA == CutAfter(Image)
           pts == pcl_proc_next \o CB
           rest == SubSeq(b, K + 1, Len(b))
           X == ScanTimes(b)
<1>1. /\ slam_mode_ = "LIVO" /\ b # << >>
      /\ imu_buffer' = SubSeq(imu_buffer, popped + 1, Len(imu_buffer))
      /\ Use(pts, Image) /\ Process2(samples, pts, Image)
      /\ pcl_proc_next' = CA /\ b' = rest /\ lio_vio_flg' = "LIO"
      /\ UNCHANGED <<settings, lidarClock, received, img_time_buffer, imuClock, imgClock>>
  BY DEF SyncLio, HasData, imgIn, node, clocks
<1>2. img_time_buffer # << >> /\ img_time_buffer \in Seq(Nat) /\ Image \in Nat /\ Image \in Int
  <2>1. img_time_buffer # << >> /\ img_time_buffer \in Seq(Nat)
    BY SettingsAre DEF SyncLio, HasData, slam_mode_, CutInv, TypeRight
  <2> QED
    BY <2>1, HeadTailProperties DEF Image
<1>3. LastUpdate \in Int /\ lidarClock \in Nat /\ Buffered(b, lidarClock)
  BY <1>1, LastUpdateRight DEF CutInv, TypeRight
<1>4. /\ K \in 0 .. Len(b) /\ CB \in Seq(PtsAt(LastUpdate)) /\ CA \in Seq(PtsAt(Image))
      /\ Times(CB) \o Times(CA) = Joined(SubSeq(X, 1, K))
  <2>1. Buffered(lid_raw_data_buffer, lidarClock) /\ lidarClock \in Nat
    BY <1>3
  <2> HIDE DEF K, CB, CA, X, b
  <2> QED
    BY <1>2, <1>3, <2>1, CutRight DEF K, CB, CA, X, b
<1>5. CB \in Seq(Pt) /\ CA \in Seq(Pt)
  <2> HIDE DEF CB, CA
  <2>1. (\A p \in PtsAt(LastUpdate) : p \in Pt) /\ \A p \in PtsAt(Image) : p \in Pt
    BY DEF PtsAt
  <2>2. Len(CB) \in Nat /\ CB = [n \in 1 .. Len(CB) |-> CB[n]] /\ \A n \in 1 .. Len(CB) : CB[n] \in Pt
    BY <1>4, <2>1
  <2>3. Len(CA) \in Nat /\ CA = [n \in 1 .. Len(CA) |-> CA[n]] /\ \A n \in 1 .. Len(CA) : CA[n] \in Pt
    BY <1>4, <2>1
  <2>4. CB \in Seq(Pt)
    BY <2>2
  <2>5. CA \in Seq(Pt)
    BY <2>3
  <2> QED
    BY <2>4, <2>5
<1>6. pts \in Seq(Pt) /\ used \in Seq(Used) /\ pcl_proc_next \in Seq(Pt)
  BY <1>5, ConcatProperties DEF CutInv, TypeRight
<1>7. used' \in Seq(Used) /\ Times(used') = Times(used) \o (Times(pcl_proc_next) \o Times(CB))
  <2>1. \A p \in Pt : p.time \in Nat
    BY DEF Pt
  <2>2. Times(pts) = Times(pcl_proc_next) \o Times(CB)
    BY <1>5, <1>6, <2>1, TimesConcat
  <2>3. Use(pts, Image)
    BY <1>1
  <2> HIDE DEF pts
  <2>4. used' \in Seq(Used) /\ Times(used') = Times(used) \o Times(pts)
    BY <1>2, <1>6, <2>3, UseRight
  <2> QED
    BY <2>2, <2>4
<1>8. Buffered(rest, lidarClock) /\ ScanTimes(rest) = SubSeq(X, K + 1, Len(b))
  <2>1. b \in Seq(Scan)
    BY <1>3 DEF Buffered
  <2> HIDE DEF b, K, X
  <2>2. Buffered(SubSeq(b, K + 1, Len(b)), lidarClock)
    BY <1>3, <1>4, BufferedRest
  <2>3. ScanTimes(SubSeq(b, K + 1, Len(b))) = SubSeq(ScanTimes(b), K + 1, Len(b))
    BY <1>4, <2>1, ScanTimesRest
  <2> QED
    BY <2>2, <2>3 DEF X
<1>9. received' = (Times(used') \o Times(CA)) \o Joined(ScanTimes(rest))
  <2> DEFINE u == Times(used)
             w == Times(pcl_proc_next)
             c == Times(CB)
             d == Times(CA)
             e == Joined(SubSeq(X, K + 1, Len(b)))
  <2>1. X \in Seq(Seq(Nat)) /\ Len(X) = Len(b) /\ u \in Seq(Nat) /\ w \in Seq(Nat)
    BY TimesUsed
  <2>2. Joined(X) = (c \o d) \o e
    <3> HIDE DEF X, K, CB, CA, b
    <3>1. K \in 0 .. Len(X)
      BY <1>4, <2>1
    <3>2. Joined(X) = Joined(SubSeq(X, 1, K)) \o Joined(SubSeq(X, K + 1, Len(X)))
      BY <2>1, <3>1, JoinedSplit
    <3> QED
      BY <1>4, <2>1, <3>2
  <2>3. c \in Seq(Nat) /\ d \in Seq(Nat) /\ e \in Seq(Nat)
    <3>1. \A p \in Pt : p.time \in Nat
      BY DEF Pt
    <3>2. c \in Seq(Nat) /\ d \in Seq(Nat)
      <4> HIDE DEF CB, CA
      <4> QED
        BY <1>5, <3>1, TimesRight
    <3>3. SubSeq(X, K + 1, Len(b)) \in Seq(Seq(Nat))
      <4> DEFINE Q == Seq(Nat)
      <4>1. X \in Seq(Q) /\ K \in 0 .. Len(X) /\ Len(b) \in K .. Len(X)
        BY <1>4, <2>1
      <4> HIDE DEF X, Q, K, b
      <4>2. SubSeq(X, K + 1, Len(b)) \in Seq(Q)
        BY <4>1, SubRight
      <4> QED
        BY <4>2 DEF Q
    <3>4. e \in Seq(Nat)
      BY <3>3, JoinedIsSeq
    <3> QED
      BY <3>2, <3>4
  <2>4. received = (u \o w) \o Joined(X)
    BY DEF CutInv
  <2> HIDE DEF u, w, c, d, e, X
  <2>a. u \in Seq(Nat) /\ w \in Seq(Nat) /\ c \in Seq(Nat) /\ d \in Seq(Nat) /\ e \in Seq(Nat)
    BY <2>1, <2>3
  <2>5. (u \o w) \o ((c \o d) \o e) = ((u \o (w \o c)) \o d) \o e
    <3>1. SameJoined(u, w, c, d, e)
      BY <2>a, Regroup
    <3> QED
      BY <3>1 DEF SameJoined
  <2>6. received' = ((u \o (w \o c)) \o d) \o e
    BY <1>1, <2>2, <2>4, <2>5
  <2> QED
    BY <1>7, <1>8, <2>6 DEF u, w, c, d, e
<1>10. imu_buffer' \in Seq(Nat) /\ samples \in Seq(Nat)
  <2>1. imu_buffer \in Seq(Nat) /\ popped \in 0 .. Len(imu_buffer)
    <3>1. imu_buffer \in Seq(Nat)
      BY DEF CutInv, TypeRight
    <3> QED
      BY <1>2, <3>1, SamplesRight
  <2>2. samples \in Seq(Nat)
    BY <2>1, SelectRight
  <2> HIDE DEF popped
  <2>3. SubSeq(imu_buffer, popped + 1, Len(imu_buffer)) \in Seq(Nat)
    <3>1. Len(imu_buffer) \in popped .. Len(imu_buffer)
      BY <2>1
    <3> QED
      BY <2>1, <3>1, SubRight
  <2> QED
    BY <1>1, <2>2, <2>3 DEF popped
<1>11. /\ last_prop_end_time' \in Int /\ last_lio_update_time' \in Int /\ updates' \in Nat
       /\ init_iter_num' \in Nat
       /\ imu_need_init => updates' = updates
       /\ (imu_need_init /\ ~imu_need_init') => last_prop_end_time' = Image
       /\ ~imu_need_init => ~imu_need_init' /\ last_prop_end_time' = Image
  <2>1. last_prop_end_time \in Int /\ updates \in Nat /\ init_iter_num \in Nat
    BY DEF CutInv, TypeRight
  <2> HIDE DEF pts, samples
  <2> QED
    BY <1>1, <1>2, <1>3, <1>10, <2>1, Process2Cut
<1> HIDE DEF b, K, popped, samples, CB, CA, pts, rest, X
<1>12. TypeRight'
  BY <1>1, <1>2, <1>5, <1>7, <1>10, <1>11 DEF CutInv, TypeRight
<1>13. Buffered(lid_raw_data_buffer, lidarClock)'
  BY <1>1, <1>8 DEF b
<1>14. received' = (Times(used) \o Times(pcl_proc_next) \o Joined(ScanTimes(lid_raw_data_buffer)))'
  BY <1>1, <1>9 DEF b
<1>15. updates' > 0 => ~imu_need_init' /\ pcl_proc_next' \in Seq(PtsAt(last_prop_end_time'))
  <2> SUFFICES ASSUME updates' > 0
               PROVE  ~imu_need_init' /\ pcl_proc_next' \in Seq(PtsAt(last_prop_end_time'))
    OBVIOUS
  <2>1. ~imu_need_init
    BY <1>11 DEF CutInv
  <2> QED
    BY <1>1, <1>4, <1>11, <2>1
<1>16. slam_mode_' = "LIVO"
  BY <1>1 DEF slam_mode_
<1>17. ~imu_need_init' => img_time_buffer' # << >> /\ last_prop_end_time' = Head(img_time_buffer')
  BY <1>1, <1>2, <1>11 DEF Image
<1> QED
  BY <1>12, <1>13, <1>14, <1>15, <1>16, <1>17 DEF CutInv


\* A whole scan is used.
LEMMA WholeScan ==
  ASSUME CutInv, lid_raw_data_buffer # << >>, pcl_proc_next = << >>, NEW end \in Int,
         Use(Head(lid_raw_data_buffer).points, end), received' = received,
         lid_raw_data_buffer' = Tail(lid_raw_data_buffer), pcl_proc_next' = pcl_proc_next,
         lidarClock' = lidarClock
  PROVE  /\ used' \in Seq(Used)
         /\ Buffered(lid_raw_data_buffer, lidarClock)'
         /\ received' = (Times(used) \o Times(pcl_proc_next) \o Joined(ScanTimes(lid_raw_data_buffer)))'
<1> DEFINE b == lid_raw_data_buffer
           pts == b[1].points
           rest == Tail(b)
           X == ScanTimes(b)
           u == Times(used)
           c == Times(pts)
           e == Joined(ScanTimes(rest))
<1>1. /\ b \in Seq(Scan) /\ Len(b) \in Nat \ {0} /\ Head(b) = b[1] /\ pts \in Seq(Pt)
  BY LastUpdateRight
<1>2. used' \in Seq(Used) /\ Times(used') = u \o c
  <2>1. used \in Seq(Used)
    BY DEF CutInv, TypeRight
  <2>2. Use(pts, end)
    BY <1>1
  <2> HIDE DEF pts
  <2> QED
    BY <1>1, <2>1, <2>2, UseRight
<1>3. rest = SubSeq(b, 1 + 1, Len(b)) /\ 1 \in 0 .. Len(b)
  <2> HIDE DEF b
  <2>1. b # << >>
    BY DEF b
  <2> QED
    BY <1>1, <2>1, TailIs
<1>4. Buffered(rest, lidarClock)
  <2>1. Buffered(b, lidarClock) /\ lidarClock \in Nat
    BY DEF CutInv, TypeRight
  <2> HIDE DEF b, rest
  <2> QED
    BY <1>3, <2>1, BufferedRest
<1>5. X \in Seq(Seq(Nat)) /\ Len(X) = Len(b) /\ X[1] = c /\ u \in Seq(Nat)
  <2>1. 1 \in 1 .. Len(b)
    BY <1>1
  <2>2. /\ u \in Seq(Nat) /\ X \in Seq(Seq(Nat)) /\ Len(X) = Len(b)
        /\ \A n \in 1 .. Len(b) : X[n] = Times(b[n].points)
    BY TimesUsed
  <2> QED
    BY <2>1, <2>2
<1>6. Joined(X) = c \o e
  <2>1. ScanTimes(rest) = SubSeq(X, 1 + 1, Len(b))
    <3> HIDE DEF rest, b
    <3> QED
      BY <1>1, <1>3, ScanTimesRest DEF X
  <2> HIDE DEF X, b, rest, c
  <2>2. X # << >> /\ 1 \in 0 .. Len(X)
    BY <1>1, <1>5, EmptySeq
  <2>3. Joined(SubSeq(X, 1, 1)) = X[1]
    BY <1>5, <2>2, JoinedFirst
  <2>4. Joined(X) = Joined(SubSeq(X, 1, 1)) \o Joined(SubSeq(X, 1 + 1, Len(X)))
    BY <1>5, <2>2, JoinedSplit
  <2> QED
    BY <1>5, <2>1, <2>3, <2>4
<1>7. c \in Seq(Nat) /\ e \in Seq(Nat)
  <2>1. \A p \in Pt : p.time \in Nat
    BY DEF Pt
  <2>2. c \in Seq(Nat)
    <3> HIDE DEF pts
    <3> QED
      BY <1>1, <2>1, TimesRight
  <2>3. rest \in Seq(Scan)
    BY <1>4 DEF Buffered
  <2>4. ScanTimes(rest) \in Seq(Seq(Nat))
    <3> HIDE DEF rest
    <3> QED
      BY <2>3, ScanTimesRight
  <2>5. e \in Seq(Nat)
    BY <2>4, JoinedIsSeq
  <2> QED
    BY <2>2, <2>5
<1>8. Times(<< >>) = << >>
  <2>1. << >> \in Seq(Pt) /\ \A p \in Pt : p.time \in Nat
    BY DEF Pt
  <2>2. Times(<< >>) \in Seq(Nat) /\ Len(Times(<< >>)) = Len(<< >>)
    BY <2>1, TimesRight
  <2> QED
    BY <2>2, EmptySeq
<1>9. received = (u \o << >>) \o (c \o e)
  BY <1>6, <1>8 DEF CutInv
<1> HIDE DEF b, pts, rest, X, u, c, e
<1>10. u \o << >> = u
  BY <1>5, ConcatEmptySeq
<1>11. u \o (c \o e) = (u \o c) \o e
  <2>1. u \in Seq(Nat) /\ c \in Seq(Nat) /\ e \in Seq(Nat)
    BY <1>5, <1>7
  <2>2. Associated(u, c, e)
    BY <2>1, Associates
  <2> QED
    BY <2>2 DEF Associated
<1>12. u \o c \in Seq(Nat)
  BY <1>5, <1>7, ConcatProperties
<1>13. (u \o c) \o << >> = u \o c
  <2> DEFINE uc == u \o c
  <2> HIDE DEF uc
  <2>1. uc \in Seq(Nat)
    BY <1>12 DEF uc
  <2>2. uc \o << >> = uc
    BY <2>1, ConcatEmptySeq
  <2> QED
    BY <2>2 DEF uc
<1>14. received' = (Times(used') \o Times(<< >>)) \o e
  BY <1>2, <1>8, <1>9, <1>10, <1>11, <1>13
<1> QED
  BY <1>2, <1>4, <1>14 DEF b, rest, e

LEMMA ScanEnd ==
  ASSUME CutInv, lid_raw_data_buffer # << >>, NEW sc, sc = Head(lid_raw_data_buffer)
  PROVE  /\ Last(sc.points) = sc.points[Len(sc.points)]
         /\ Last(sc.points).curvature \in 0 .. ScanLen - 1
         /\ sc.beg + Last(sc.points).curvature \in Nat
<1>1. ScanRight(sc) /\ sc.beg \in Nat /\ sc.points \in Seq(Pt)
  BY LastUpdateRight
<1>2. ScanLen \in Nat /\ sc.points # << >>
  BY <1>1, ClockAssumption DEF ScanRight
<1>3. Len(sc.points) \in 1 .. Len(sc.points)
  BY <1>1, <1>2, EmptySeq
<1>4. sc.points[Len(sc.points)].curvature \in 0 .. ScanLen - 1
  BY <1>1, <1>3 DEF ScanRight
<1> QED
  BY <1>1, <1>2, <1>4 DEF Last

LEMMA CutInvSyncOnlyLio == CutInv /\ SyncOnlyLio => CutInv'
<1> SUFFICES ASSUME CutInv, SyncOnlyLio PROVE CutInv'
  OBVIOUS
<1> DEFINE sc == Head(lid_raw_data_buffer)
           end == sc.beg + Last(sc.points).curvature
           popped == SamplesUpTo(end)
           samples == SubSeq(imu_buffer, 1, popped)
<1>1. /\ slam_mode_ = "ONLY_LIO" /\ lid_raw_data_buffer # << >>
      /\ imu_buffer' = SubSeq(imu_buffer, popped + 1, Len(imu_buffer))
      /\ Use(sc.points, end) /\ Process2(samples, sc.points, end)
      /\ lid_raw_data_buffer' = Tail(lid_raw_data_buffer)
      /\ UNCHANGED <<settings, lidarClock, received, img_time_buffer, imuClock, imgClock,
                     pcl_proc_next>>
  BY DEF SyncOnlyLio, HasData, imgIn, node, clocks
<1>2. end \in Nat /\ end \in Int /\ LastUpdate \in Int
  <2> HIDE DEF sc
  <2>1. end \in Nat
    BY <1>1, ScanEnd DEF sc
  <2> QED
    BY <1>1, <2>1, LastUpdateRight
<1>3. imu_buffer' \in Seq(Nat) /\ samples \in Seq(Nat)
  <2> HIDE DEF end
  <2>1. imu_buffer \in Seq(Nat)
    BY DEF CutInv, TypeRight
  <2>2. popped \in 0 .. Len(imu_buffer)
    BY <1>2, <2>1, SamplesRight
  <2>3. Len(imu_buffer) \in Nat
    BY <2>1
  <2> HIDE DEF popped
  <2>4. SubSeq(imu_buffer, popped + 1, Len(imu_buffer)) \in Seq(Nat)
    <3>1. Len(imu_buffer) \in popped .. Len(imu_buffer)
      BY <2>2, <2>3
    <3> QED
      BY <2>1, <2>2, <3>1, SubRight
  <2>5. SubSeq(imu_buffer, 0 + 1, popped) \in Seq(Nat)
    <3>1. 0 \in 0 .. Len(imu_buffer) /\ popped \in 0 .. Len(imu_buffer)
      BY <2>2, <2>3
    <3> QED
      BY <2>1, <3>1, SubRight
  <2>6. 0 + 1 = 1
    OBVIOUS
  <2> QED
    BY <1>1, <2>4, <2>5, <2>6 DEF popped
<1>4. /\ last_prop_end_time' \in Int /\ last_lio_update_time' \in Int /\ updates' \in Nat
      /\ init_iter_num' \in Nat
      /\ imu_need_init => updates' = updates
      /\ ~imu_need_init => ~imu_need_init'
  <2>1. last_prop_end_time \in Int /\ updates \in Nat /\ init_iter_num \in Nat
    BY DEF CutInv, TypeRight
  <2> HIDE DEF samples, end, sc
  <2> QED
    BY <1>1, <1>2, <1>3, <2>1, Process2Cut
<1>5. pcl_proc_next = << >>
  BY <1>1 DEF CutInv
<1>6. /\ used' \in Seq(Used)
      /\ Buffered(lid_raw_data_buffer, lidarClock)'
      /\ received' = (Times(used) \o Times(pcl_proc_next) \o Joined(ScanTimes(lid_raw_data_buffer)))'
  <2> HIDE DEF end
  <2> QED
    BY <1>1, <1>2, <1>5, WholeScan
<1>7. TypeRight'
  BY <1>1, <1>3, <1>4, <1>6 DEF CutInv, TypeRight
<1>8. updates' > 0 => ~imu_need_init' /\ pcl_proc_next' \in Seq(PtsAt(last_prop_end_time'))
  <2> SUFFICES ASSUME updates' > 0
               PROVE  ~imu_need_init' /\ pcl_proc_next' \in Seq(PtsAt(last_prop_end_time'))
    OBVIOUS
  <2>1. ~imu_need_init
    BY <1>4 DEF CutInv
  <2>2. << >> \in Seq(PtsAt(last_prop_end_time'))
    BY EmptySeq
  <2> QED
    BY <1>1, <1>4, <1>5, <2>1, <2>2
<1>9. slam_mode_' = "ONLY_LIO"
  BY <1>1 DEF slam_mode_
<1> HIDE DEF sc, end, popped, samples
<1> QED
  BY <1>1, <1>5, <1>6, <1>7, <1>8, <1>9 DEF CutInv

LEMMA CutInvSyncLo == CutInv /\ SyncLo => CutInv'
<1> SUFFICES ASSUME CutInv, SyncLo PROVE CutInv'
  OBVIOUS
<1> DEFINE sc == Head(lid_raw_data_buffer)
           end == sc.beg + Last(sc.points).curvature
<1>1. /\ slam_mode_ = "ONLY_LO" /\ lid_raw_data_buffer # << >>
      /\ last_lio_update_time' = end /\ Use(sc.points, last_lio_update_time')
      /\ lid_raw_data_buffer' = Tail(lid_raw_data_buffer)
      /\ UNCHANGED <<settings, lidarClock, received, img_time_buffer, imuClock, imgClock,
                     pcl_proc_next, imu_buffer, updates, imu_need_init, init_iter_num,
                     last_prop_end_time>>
  BY DEF SyncLo, Forward_without_imu, HasData, imgIn, node, clocks
<1>2. end \in Nat /\ end \in Int
  <2> HIDE DEF sc
  <2>1. end \in Nat
    BY <1>1, ScanEnd DEF sc
  <2> QED
    BY <2>1
<1>3. pcl_proc_next = << >>
  BY <1>1 DEF CutInv
<1>4. /\ used' \in Seq(Used)
      /\ Buffered(lid_raw_data_buffer, lidarClock)'
      /\ received' = (Times(used) \o Times(pcl_proc_next) \o Joined(ScanTimes(lid_raw_data_buffer)))'
  <2> HIDE DEF end
  <2>1. Use(sc.points, end)
    BY <1>1
  <2> QED
    BY <1>1, <1>2, <1>3, <2>1, WholeScan
<1>5. TypeRight'
  BY <1>1, <1>2, <1>4 DEF CutInv, TypeRight
<1>6. slam_mode_' = "ONLY_LO"
  BY <1>1 DEF slam_mode_
<1> HIDE DEF sc, end
<1> QED
  BY <1>1, <1>3, <1>4, <1>5, <1>6 DEF CutInv

LEMMA CutInvNext == CutInv /\ [Next]_vars => CutInv'
<1>1. CutInv /\ UNCHANGED vars => CutInv'
  BY CutInvSame DEF vars, cutVars, clocks, lidarIn, imgIn, meas, imuProcess, history, node
<1> QED
  BY <1>1, CutInvLidar, CutInvSensors, CutInvThrow, CutInvSyncLio, CutInvSyncVio,
     CutInvSyncOnlyLio, CutInvSyncLo DEF Next

LEMMA CutInvHolds == Spec => []CutInv
BY CutInvInit, CutInvNext, PTL DEF Spec

\* Every point of the lidar goes into exactly one LIO update, in order, in every
\* mode and for every series of scans, samples and images; points that an image
\* leaves over have their own times as offsets to it.
THEOREM PointsAreCutOnce == Spec => []CutOnce
<1>1. CutInv => CutOnce
  <2> SUFFICES ASSUME CutInv PROVE CutOnce
    OBVIOUS
  <2>1. updates > 0 => \A n \in DOMAIN pcl_proc_next :
          pcl_proc_next[n].time = last_prop_end_time + pcl_proc_next[n].curvature
    <3> SUFFICES ASSUME updates > 0, NEW n \in DOMAIN pcl_proc_next
                 PROVE  pcl_proc_next[n].time = last_prop_end_time + pcl_proc_next[n].curvature
      OBVIOUS
    <3>1. pcl_proc_next[n] \in PtsAt(last_prop_end_time)
      BY DEF CutInv
    <3> QED
      BY <3>1 DEF PtsAt
  <2> QED
    BY <2>1 DEF CutInv, CutOnce, ScanTimes
<1> QED
  BY <1>1, CutInvHolds, PTL

-----------------------------------------------------------------------------
(* LivoMapper: sequences of times *)

Ascending(s) == \A m, n \in DOMAIN s : m < n => s[m] < s[n]
AllUpTo(s, x) == \A n \in DOMAIN s : s[n] <= x
AllAbove(s, x) == \A n \in DOMAIN s : x < s[n]

LEMMA AscendingAppend ==
  ASSUME NEW s \in Seq(Nat), Ascending(s), NEW x \in Int, AllUpTo(s, x), NEW t \in Nat, x < t
  PROVE  /\ Append(s, t) \in Seq(Nat) /\ Ascending(Append(s, t)) /\ AllUpTo(Append(s, t), t)
         /\ \A y : AllAbove(s, y) /\ y < t => AllAbove(Append(s, t), y)
<1> DEFINE r == Append(s, t)
<1>1. /\ r \in Seq(Nat) /\ Len(r) = Len(s) + 1 /\ Len(s) \in Nat /\ r[Len(s) + 1] = t
      /\ \A n \in 1 .. Len(s) : r[n] = s[n] /\ s[n] \in Nat
  BY AppendProperties
<1>2. DOMAIN r = 1 .. Len(s) + 1 /\ DOMAIN s = 1 .. Len(s)
  BY <1>1
<1> HIDE DEF r
<1>3. \A n \in 1 .. Len(s) + 1 : n \in 1 .. Len(s) \/ n = Len(s) + 1
  BY <1>1
<1>4. AllUpTo(r, t)
  BY <1>1, <1>2, <1>3 DEF AllUpTo
<1>5. Ascending(r)
  <2> SUFFICES ASSUME NEW m \in 1 .. Len(s) + 1, NEW n \in 1 .. Len(s) + 1, m < n
               PROVE  r[m] < r[n]
    BY <1>2 DEF Ascending
  <2>1. m \in 1 .. Len(s) /\ r[m] = s[m]
    BY <1>1
  <2>2. CASE n = Len(s) + 1
    <3>1. s[m] <= x
      BY <1>2, <2>1 DEF AllUpTo
    <3>2. r[n] = t /\ s[m] \in Nat
      BY <1>1, <2>1, <2>2
    <3> QED
      BY <2>1, <3>1, <3>2
  <2>3. CASE n \in 1 .. Len(s)
    BY <1>1, <1>2, <2>1, <2>3 DEF Ascending
  <2> QED
    BY <1>3, <2>2, <2>3
<1>6. \A y : AllAbove(s, y) /\ y < t => AllAbove(r, y)
  BY <1>1, <1>2, <1>3 DEF AllAbove
<1> QED
  BY <1>1, <1>4, <1>5, <1>6 DEF r

LEMMA AscendingSub ==
  ASSUME NEW s \in Seq(Nat), Ascending(s), NEW a \in 0 .. Len(s), NEW b \in a .. Len(s)
  PROVE  /\ SubSeq(s, a + 1, b) \in Seq(Nat) /\ Ascending(SubSeq(s, a + 1, b))
         /\ \A x : AllUpTo(s, x) => AllUpTo(SubSeq(s, a + 1, b), x)
         /\ \A x : AllAbove(s, x) => AllAbove(SubSeq(s, a + 1, b), x)
<1> DEFINE r == SubSeq(s, a + 1, b)
<1>1. /\ r \in Seq(Nat) /\ Len(r) = b - a
      /\ \A k \in 1 .. b - a : r[k] = s[a + k] /\ a + k \in 1 .. Len(s)
  BY SubRight
<1> HIDE DEF r
<1>2. DOMAIN s = 1 .. Len(s) /\ DOMAIN r = 1 .. b - a
  BY <1>1
<1>3. Ascending(r)
  <2> SUFFICES ASSUME NEW m \in 1 .. b - a, NEW n \in 1 .. b - a, m < n PROVE r[m] < r[n]
    BY <1>2 DEF Ascending
  <2>1. a + m < a + n
    OBVIOUS
  <2> QED
    BY <1>1, <1>2, <2>1 DEF Ascending
<1>4. \A x : AllUpTo(s, x) => AllUpTo(r, x)
  BY <1>1, <1>2 DEF AllUpTo
<1>5. \A x : AllAbove(s, x) => AllAbove(r, x)
  BY <1>1, <1>2 DEF AllAbove
<1> QED
  BY <1>1, <1>3, <1>4, <1>5 DEF r

LEMMA AscendingTail ==
  ASSUME NEW s \in Seq(Nat), Ascending(s), s # << >>
  PROVE  /\ Tail(s) \in Seq(Nat) /\ Ascending(Tail(s)) /\ Head(s) \in Nat /\ AllAbove(Tail(s), Head(s))
         /\ \A x : AllUpTo(s, x) => AllUpTo(Tail(s), x) /\ Head(s) <= x
         /\ \A x : AllAbove(s, x) => AllAbove(Tail(s), x) /\ x < Head(s)
<1> DEFINE r == SubSeq(s, 1 + 1, Len(s))
<1>1. Tail(s) = r /\ Head(s) = s[1] /\ 1 \in 0 .. Len(s) /\ Len(s) \in 1 .. Len(s)
      /\ 1 \in DOMAIN s /\ s[1] \in Nat
  BY TailIs, EmptySeq
<1>2. /\ r \in Seq(Nat) /\ Ascending(r)
      /\ \A x : AllUpTo(s, x) => AllUpTo(r, x)
      /\ \A x : AllAbove(s, x) => AllAbove(r, x)
  BY <1>1, AscendingSub
<1>3. /\ r \in Seq(Nat) /\ Len(r) = Len(s) - 1
      /\ \A k \in 1 .. Len(s) - 1 : r[k] = s[1 + k] /\ 1 + k \in 1 .. Len(s)
  BY <1>1, SubRight
<1> HIDE DEF r
<1>4. AllAbove(r, s[1])
  <2> SUFFICES ASSUME NEW k \in 1 .. Len(s) - 1 PROVE s[1] < r[k]
    BY <1>3 DEF AllAbove
  <2> DEFINE h == 1 + k
  <2>1. 1 < h /\ h \in DOMAIN s /\ 1 \in DOMAIN s /\ r[k] = s[h]
    BY <1>3
  <2> HIDE DEF h
  <2> QED
    BY <1>1, <2>1 DEF Ascending
<1>5. \A x : (AllUpTo(s, x) => s[1] <= x) /\ (AllAbove(s, x) => x < s[1])
  BY <1>1 DEF AllUpTo, AllAbove
<1> QED
  BY <1>1, <1>2, <1>4, <1>5

-----------------------------------------------------------------------------
(* LivoMapper: the time a state is carried on *)

LEMMA StepsRight ==
  ASSUME NEW v \in Seq(Nat), v # << >>, NEW beg \in Int, Ascending(v)
  PROVE  \E a \in 0 .. Len(v) - 1 :
           /\ Stretch(Steps(v, beg), a, Len(v) - 1)
           /\ a > 0 => v[a + 1] < beg
           /\ \A k \in a + 1 .. Len(v) - 1 : v[k + 1] >= beg
<1> DEFINE n == Len(v) - 1
           S == {k \in 1 .. n : v[k + 1] >= beg}
           P == {k \in 1 .. n : v[k + 1] < beg}
           a == Leading(n, P)
<1>1. n \in Nat /\ DOMAIN v = 1 .. n + 1 /\ \A k \in 1 .. n + 1 : v[k] \in Nat
  BY EmptySeq
<1>2. Steps(v, beg) = Kept(n, S)
  BY DEF Steps
<1> HIDE DEF n
<1>3. a \in 0 .. n /\ (\A k \in 1 .. a : k \in P) /\ (a < n => a + 1 \notin P)
  <2> HIDE DEF P
  <2> QED
    BY <1>1, LeadingRight
<1> HIDE DEF a
<1>4. \A k \in 1 .. n : v[k + 1] \in Nat /\ k + 1 \in 1 .. n + 1
  BY <1>1
<1>5. \A k \in 1 .. n : k \in S <=> k > a
  <2> SUFFICES ASSUME NEW k \in 1 .. n PROVE v[k + 1] >= beg <=> k > a
    OBVIOUS
  <2>1. CASE k <= a
    <3>1. v[k + 1] < beg
      BY <1>1, <1>3, <2>1
    <3> QED
      BY <1>1, <1>3, <1>4, <2>1, <3>1
  <2>2. CASE k > a
    <3>1. a + 1 \in 1 .. n /\ a + 1 \notin P
      BY <1>1, <1>3, <2>2
    <3>2. v[(a + 1) + 1] >= beg
      BY <1>4, <3>1
    <3>3. v[(a + 1) + 1] <= v[k + 1]
      <4>1. CASE k = a + 1
        BY <1>4, <4>1
      <4>2. CASE k # a + 1
        <5>1. (a + 1) + 1 < k + 1
          BY <1>1, <1>3, <2>2, <4>2
        <5>2. (a + 1) + 1 \in DOMAIN v /\ k + 1 \in DOMAIN v
          BY <1>1, <1>4, <3>1
        <5>3. v[(a + 1) + 1] < v[k + 1]
          BY <5>1, <5>2 DEF Ascending
        <5> QED
          BY <1>4, <3>1, <5>3
      <4> QED
        BY <4>1, <4>2
    <3> QED
      BY <1>4, <2>2, <3>1, <3>2, <3>3
  <2> QED
    BY <1>1, <1>3, <2>1, <2>2
<1>6. S \cap (1 .. n) = a + 1 .. n
  <2> HIDE DEF S
  <2>1. ASSUME NEW k \in a + 1 .. n PROVE k \in S \cap (1 .. n)
    <3>1. k \in 1 .. n /\ k > a
      BY <1>1, <1>3
    <3> QED
      BY <1>5, <3>1
  <2>2. ASSUME NEW k \in S \cap (1 .. n) PROVE k \in a + 1 .. n
    <3>1. k \in 1 .. n /\ k > a
      BY <1>5
    <3> QED
      BY <1>1, <1>3, <3>1
  <2> QED
    BY <2>1, <2>2
<1>7. \A k \in a + 1 .. n : v[k + 1] >= beg
  BY <1>1, <1>3, <1>5
<1>8. a > 0 => v[a + 1] < beg
  BY <1>1, <1>3
<1> HIDE DEF S, P
<1>9. Stretch(Kept(n, S), a, n)
  <2>1. a \in 0 .. n /\ n \in a .. n
    BY <1>1, <1>3
  <2> QED
    BY <1>1, <1>6, <2>1, KeptInterval
<1> QED
  BY <1>2, <1>3, <1>7, <1>8, <1>9 DEF n

\* The sum up to each step
ElapsedBy(u, v, beg, end) ==
  /\ u \in [0 .. Len(Steps(v, beg)) -> Int]
  /\ u[0] = 0 /\ Elapsed(v, beg, end) = u[Len(Steps(v, beg))]
  /\ \A k \in 1 .. Len(Steps(v, beg)) : u[k] = u[k - 1] + Dt(v, Steps(v, beg)[k], beg, end)

LEMMA ElapsedSteps ==
  ASSUME NEW v \in Seq(Nat), v # << >>, NEW beg \in Int, NEW end \in Int, Ascending(v)
  PROVE  \E u : ElapsedBy(u, v, beg, end)
<1> DEFINE q == Steps(v, beg)
           l == Len(q)
           D == [k \in 1 .. l |-> Dt(v, q[k], beg, end)]
           s == [k \in 1 .. l |-> [x \in Int |-> x + D[k]]]
           E(f) == f = [k \in 0 .. l |-> IF k = 0 THEN 0 ELSE f[k - 1] + Dt(v, q[k], beg, end)]
<1>1. PICK a \in 0 .. Len(v) - 1 : Stretch(q, a, Len(v) - 1)
  BY StepsRight
<1>2. /\ Len(v) \in Nat \ {0} /\ \A k \in 1 .. Len(v) : v[k] \in Nat
  BY EmptySeq
<1>3. /\ l \in Nat /\ l = Len(v) - 1 - a
      /\ \A k \in 1 .. l : q[k] = a + k
  BY <1>1, <1>2 DEF Stretch
<1> HIDE DEF q, l
<1>4. \A k \in 1 .. l : q[k] \in 1 .. Len(v) - 1 /\ v[q[k]] \in Nat /\ v[q[k] + 1] \in Nat
  <2> SUFFICES ASSUME NEW k \in 1 .. l
               PROVE  q[k] \in 1 .. Len(v) - 1 /\ v[q[k]] \in Nat /\ v[q[k] + 1] \in Nat
    OBVIOUS
  <2>1. q[k] = a + k /\ a + k \in 1 .. Len(v) - 1
    BY <1>2, <1>3
  <2>2. a + k \in 1 .. Len(v) /\ (a + k) + 1 \in 1 .. Len(v)
    BY <1>2, <2>1
  <2> QED
    BY <1>2, <2>1, <2>2
<1>5. \A k \in 1 .. l : Dt(v, q[k], beg, end) \in Int
  <2> SUFFICES ASSUME NEW k \in 1 .. l PROVE Dt(v, q[k], beg, end) \in Int
    OBVIOUS
  <2> DEFINE p == q[k]
             x == v[p]
             y == v[p + 1]
  <2>1. p \in 1 .. Len(v) - 1 /\ x \in Nat /\ y \in Nat
    BY <1>4
  <2>2. Dt(v, p, beg, end) = CASE x < beg -> y - beg
                              [] x >= beg /\ p < Len(v) - 1 -> y - x
                              [] x >= beg /\ p = Len(v) - 1 -> end - x
    BY DEF Dt
  <2> HIDE DEF p, x, y
  <2>3. p < Len(v) - 1 \/ p = Len(v) - 1
    BY <1>2, <2>1
  <2>4. x < beg \/ x >= beg
    BY <2>1
  <2>5. Dt(v, p, beg, end) \in Int
    <3>1. CASE x < beg
      <4>1. ~(x >= beg)
        BY <2>1, <3>1
      <4>2. Dt(v, p, beg, end) = y - beg
        BY <2>2, <3>1, <4>1
      <4> QED
        BY <2>1, <4>2
    <3>2. CASE x >= beg /\ p < Len(v) - 1
      <4>1. ~(x < beg) /\ p # Len(v) - 1
        BY <1>2, <2>1, <3>2
      <4>2. Dt(v, p, beg, end) = y - x
        BY <2>2, <3>2, <4>1
      <4> QED
        BY <2>1, <4>2
    <3>3. CASE x >= beg /\ p = Len(v) - 1
      <4>1. ~(x < beg) /\ ~(p < Len(v) - 1)
        BY <1>2, <2>1, <3>3
      <4>2. Dt(v, p, beg, end) = end - x
        BY <2>2, <3>3, <4>1
      <4> QED
        BY <2>1, <4>2
    <3> QED
      BY <2>3, <2>4, <3>1, <3>2, <3>3
  <2> QED
    BY <2>5 DEF p
<1>6. s \in [1 .. l -> [Int -> Int]]
  <2>1. \A k \in 1 .. l : D[k] \in Int
    BY <1>5
  <2> HIDE DEF D
  <2> QED
    BY <2>1
<1>7. PICK f \in [0 .. l -> Int] : Built(f, l, 0, s)
  <2> DEFINE Q == Int
  <2> HIDE DEF s
  <2>1. l \in Nat /\ 0 \in Q /\ s \in [1 .. l -> [Q -> Q]]
    BY <1>3, <1>6
  <2> HIDE DEF Q
  <2>2. \E f \in [0 .. l -> Q] : Built(f, l, 0, s)
    BY <2>1, Recursion
  <2> QED
    BY <2>2 DEF Q
<1>8. f[0] = 0 /\ \A k \in 1 .. l : f[k] = f[k - 1] + Dt(v, q[k], beg, end)
  <2>1. f[0] = 0 /\ \A k \in 1 .. l : f[k] = s[k][f[k - 1]]
    BY <1>7 DEF Built
  <2>2. ASSUME NEW k \in 1 .. l PROVE f[k] = f[k - 1] + Dt(v, q[k], beg, end)
    <3>1. f[k - 1] \in Int
      <4>1. k - 1 \in 0 .. l
        BY <1>3
      <4> QED
        BY <1>7, <4>1
    <3>2. s[k][f[k - 1]] = f[k - 1] + D[k]
      BY <3>1
    <3>3. D[k] = Dt(v, q[k], beg, end)
      OBVIOUS
    <3> QED
      BY <2>1, <3>2, <3>3
  <2> QED
    BY <2>1, <2>2
<1> HIDE DEF s, D
<1>9. E(f)
  <2>1. f = [k \in 0 .. l |-> f[k]]
    OBVIOUS
  <2>2. \A k \in 0 .. l : f[k] = IF k = 0 THEN 0 ELSE f[k - 1] + Dt(v, q[k], beg, end)
    <3>1. \A k \in 0 .. l : k = 0 \/ k \in 1 .. l
      BY <1>3
    <3> QED
      BY <1>8, <3>1
  <2> QED
    BY <2>1, <2>2
<1> DEFINE F == CHOOSE g : E(g)
<1>10. Elapsed(v, beg, end) = F[l]
  BY Zenon DEF Elapsed, q, l
<1>11. E(F)
  <2> HIDE DEF E
  <2> QED
    BY <1>9
<1> HIDE DEF F
<1>12. F[0] = 0 /\ \A k \in 1 .. l : F[k] = F[k - 1] + Dt(v, q[k], beg, end)
  <2>1. 0 \in 0 .. l /\ \A k \in 1 .. l : k \in 0 .. l /\ k # 0
    BY <1>3
  <2> QED
    BY <1>11, <2>1
<1> DEFINE T == {k \in 0 .. l : F[k] \in Int}
<1>13. \A k \in 0 .. l : k \in T
  <2>1. 0 \in T
    BY <1>3, <1>12
  <2>2. ASSUME NEW k \in 1 .. l, k - 1 \in T PROVE k \in T
    <3> DEFINE d == Dt(v, q[k], beg, end)
    <3>1. F[k - 1] \in Int /\ d \in Int /\ F[k] = F[k - 1] + d
      BY <1>5, <1>12, <2>2
    <3> HIDE DEF d
    <3>2. k \in 0 .. l
      BY <1>3
    <3> QED
      BY <3>1, <3>2
  <2> HIDE DEF T
  <2> QED
    BY <1>3, <2>1, <2>2, UpTo
<1>14. F \in [0 .. l -> Int]
  <2>1. F = [k \in 0 .. l |-> IF k = 0 THEN 0 ELSE F[k - 1] + Dt(v, q[k], beg, end)]
    BY <1>11
  <2>2. DOMAIN F = 0 .. l /\ F = [k \in DOMAIN F |-> F[k]]
    BY <2>1
  <2>3. \A k \in 0 .. l : F[k] \in Int
    BY <1>13
  <2> QED
    BY <2>2, <2>3
<1>15. ElapsedBy(F, v, beg, end)
  BY <1>10, <1>12, <1>14 DEF ElapsedBy, q, l
<1> QED
  BY <1>15

LEMMA ElapsedIsInt ==
  ASSUME NEW v \in Seq(Nat), v # << >>, NEW beg \in Int, NEW end \in Int, Ascending(v)
  PROVE  Elapsed(v, beg, end) \in Int /\ Len(Steps(v, beg)) \in Nat
<1>1. PICK u : ElapsedBy(u, v, beg, end)
  BY ElapsedSteps
<1>2. PICK a \in 0 .. Len(v) - 1 : Stretch(Steps(v, beg), a, Len(v) - 1)
  BY StepsRight
<1>3. Len(Steps(v, beg)) \in Nat
  BY <1>2 DEF Stretch
<1>4. Len(Steps(v, beg)) \in 0 .. Len(Steps(v, beg))
  BY <1>3
<1> QED
  BY <1>1, <1>3, <1>4 DEF ElapsedBy

\* With two steps or more, the state is carried on by exactly the time between
\* two updates.
LEMMA ElapsedRight ==
  ASSUME NEW v \in Seq(Nat), v # << >>, NEW beg \in Int, NEW end \in Int, Ascending(v),
         v[1] <= beg, Len(Steps(v, beg)) >= 2
  PROVE  Elapsed(v, beg, end) = end - beg
<1> DEFINE q == Steps(v, beg)
           n == Len(v) - 1
<1>1. PICK a \in 0 .. n :
        /\ Stretch(q, a, n)
        /\ a > 0 => v[a + 1] < beg
        /\ \A k \in a + 1 .. n : v[k + 1] >= beg
  BY StepsRight
<1>2. PICK u : ElapsedBy(u, v, beg, end)
  BY ElapsedSteps
<1>3. n \in Nat /\ Len(v) = n + 1 /\ \A k \in 1 .. n + 1 : v[k] \in Nat
  BY EmptySeq
<1> HIDE DEF n
<1>4. a \in Nat /\ n - a >= 2 /\ Len(q) = n - a /\ \A m \in 1 .. n - a : q[m] = a + m
  BY <1>1, <1>3 DEF Stretch
<1>5. /\ u[0] = 0 /\ Elapsed(v, beg, end) = u[n - a]
      /\ \A m \in 1 .. n - a : u[m] = u[m - 1] + Dt(v, a + m, beg, end)
  BY <1>2, <1>4 DEF ElapsedBy
<1>6. \A m \in 1 .. n - a : /\ a + m \in 1 .. n /\ v[a + m] \in Nat /\ v[a + m + 1] \in Nat
                            /\ v[a + m + 1] >= beg
  <2> SUFFICES ASSUME NEW m \in 1 .. n - a
               PROVE  /\ a + m \in 1 .. n /\ v[a + m] \in Nat /\ v[a + m + 1] \in Nat
                      /\ v[a + m + 1] >= beg
    OBVIOUS
  <2>1. a + m \in a + 1 .. n /\ a + m \in 1 .. n + 1 /\ a + m + 1 \in 1 .. n + 1 /\ a + m \in 1 .. n
    BY <1>3, <1>4
  <2> QED
    BY <1>1, <1>3, <2>1
<1>7. \A m \in 1 .. n - a : /\ (a + m < n /\ v[a + m] >= beg) => Dt(v, a + m, beg, end) = v[a + m + 1] - v[a + m]
                            /\ (a + m = n /\ v[a + m] >= beg) => Dt(v, a + m, beg, end) = end - v[a + m]
                            /\ v[a + m] < beg => Dt(v, a + m, beg, end) = v[a + m + 1] - beg
  <2> SUFFICES ASSUME NEW m \in 1 .. n - a
               PROVE  /\ (a + m < n /\ v[a + m] >= beg) => Dt(v, a + m, beg, end) = v[a + m + 1] - v[a + m]
                      /\ (a + m = n /\ v[a + m] >= beg) => Dt(v, a + m, beg, end) = end - v[a + m]
                      /\ v[a + m] < beg => Dt(v, a + m, beg, end) = v[a + m + 1] - beg
    OBVIOUS
  <2> DEFINE p == a + m
             x == v[p]
             y == v[p + 1]
             t == Dt(v, p, beg, end)
  <2>1. x \in Nat /\ p \in 1 .. n
    BY <1>6
  <2>2. t = CASE x < beg -> y - beg
              [] x >= beg /\ p < Len(v) - 1 -> y - x
              [] x >= beg /\ p = Len(v) - 1 -> end - x
    BY DEF Dt
  <2>3. Len(v) - 1 = n
    BY <1>3
  <2> HIDE DEF p, x, y, t
  <2>4. (p < n /\ x >= beg) => ~(x < beg) /\ ~(p = n)
    BY <1>3, <2>1
  <2>5. (p = n /\ x >= beg) => ~(x < beg) /\ ~(p < n)
    BY <1>3, <2>1
  <2>6. x < beg => ~(x >= beg)
    BY <2>1
  <2>7. /\ (p < n /\ x >= beg) => t = y - x
        /\ (p = n /\ x >= beg) => t = end - x
        /\ x < beg => t = y - beg
    BY <2>2, <2>3, <2>4, <2>5, <2>6
  <2> QED
    BY <2>7 DEF p, x, y, t
<1> DEFINE T == {m \in 0 .. n - a : (1 <= m /\ m < n - a) => u[m] = v[a + m + 1] - beg}
<1>8. 0 \in T
  BY <1>4
<1>9. ASSUME NEW m \in 1 .. n - a, m - 1 \in T PROVE m \in T
  <2> SUFFICES ASSUME m < n - a PROVE u[m] = v[a + m + 1] - beg
    BY <1>4
  <2>1. CASE m = 1
    <3>1. u[1] = 0 + Dt(v, a + 1, beg, end)
      <4>1. 1 \in 1 .. n - a /\ 1 - 1 = 0
        BY <1>4
      <4> QED
        BY <1>5, <4>1
    <3>2. Dt(v, a + 1, beg, end) = v[a + 1 + 1] - beg
      <4>1. a + 1 < n /\ 1 \in 1 .. n - a
        BY <1>3, <1>4, <2>1
      <4>2. v[a + 1] \in Nat /\ v[a + 1 + 1] \in Nat
        BY <1>6, <4>1
      <4>3. CASE v[a + 1] < beg
        BY <1>7, <4>1, <4>3
      <4>4. CASE ~(v[a + 1] < beg)
        <5>1. a = 0
          BY <1>1, <1>4, <4>4
        <5>2. v[a + 1] = beg
          BY <4>2, <4>4, <5>1
        <5>3. v[a + 1] >= beg
          BY <4>2, <5>2
        <5>4. Dt(v, a + 1, beg, end) = v[a + 1 + 1] - v[a + 1]
          BY <1>7, <4>1, <5>3
        <5> QED
          BY <5>2, <5>4
      <4> QED
        BY <4>3, <4>4
    <3>3. v[a + 1 + 1] \in Nat
      BY <1>6, <2>1
    <3> QED
      BY <2>1, <3>1, <3>2, <3>3
  <2>2. CASE m # 1
    <3>1. m - 1 \in 1 .. n - a /\ m - 1 < n - a /\ 1 <= m - 1 /\ a + (m - 1) + 1 = a + m /\ a + m < n
      BY <1>3, <1>4, <2>2
    <3>2. u[m - 1] = v[a + m] - beg
      BY <1>9, <3>1
    <3>3. v[a + m] >= beg
      <4>1. v[a + (m - 1) + 1] >= beg
        BY <1>6, <3>1
      <4> QED
        BY <3>1, <4>1
    <3>4. u[m] = (v[a + m] - beg) + (v[a + m + 1] - v[a + m])
      BY <1>5, <1>7, <3>1, <3>2, <3>3
    <3>5. v[a + m] \in Nat /\ v[a + m + 1] \in Nat
      BY <1>6
    <3> DEFINE x == v[a + m]
               y == v[a + m + 1]
    <3>6. x \in Nat /\ y \in Nat /\ beg \in Int /\ u[m] = (x - beg) + (y - x)
      BY <3>4, <3>5
    <3> HIDE DEF x, y
    <3>7. u[m] = y - beg
      BY <3>6
    <3> QED
      BY <3>7 DEF y
  <2> QED
    BY <2>1, <2>2
<1> HIDE DEF T
<1>10. \A m \in 0 .. n - a : m \in T
  <2>1. n - a \in Nat
    BY <1>3, <1>4
  <2> DEFINE l == n - a
  <2>2. l \in Nat /\ \A m \in 1 .. l : m - 1 \in T => m \in T
    BY <1>9, <2>1
  <2> HIDE DEF l
  <2>3. \A m \in 0 .. l : m \in T
    BY <1>8, <2>2, UpTo
  <2> QED
    BY <2>3 DEF l
<1>11. u[n - a] = end - beg
  <2> DEFINE m == n - a
  <2>1. m - 1 \in 0 .. n - a /\ 1 <= m - 1 /\ m - 1 < n - a /\ a + (m - 1) + 1 = n /\ m \in 1 .. n - a
        /\ m - 1 \in 1 .. n - a /\ a + m = n
    BY <1>3, <1>4
  <2>2. u[m - 1] = v[n] - beg
    BY <1>10, <2>1 DEF T
  <2>3. v[n] >= beg /\ v[n] \in Nat
    <3>1. v[a + (m - 1) + 1] >= beg /\ v[a + (m - 1) + 1] \in Nat
      BY <1>6, <2>1
    <3> QED
      BY <2>1, <3>1
  <2>4. Dt(v, a + m, beg, end) = end - v[a + m]
    BY <1>7, <2>1, <2>3
  <2>5. u[m] = u[m - 1] + Dt(v, a + m, beg, end)
    BY <1>5, <2>1
  <2>6. u[m] = (v[n] - beg) + (end - v[n])
    BY <2>1, <2>2, <2>4, <2>5
  <2> HIDE DEF m
  <2>7. u[m] = end - beg
    BY <2>3, <2>6
  <2> QED
    BY <2>7 DEF m
<1> QED
  BY <1>5, <1>11

-----------------------------------------------------------------------------
(* LivoMapper: the inductive invariant of StatesAtTheirTimes *)

\* The samples come in order; those that are buffered are after the last one used.
ImuInv ==
  /\ imu_buffer \in Seq(Nat) /\ imuClock \in Nat
  /\ Ascending(imu_buffer) /\ AllUpTo(imu_buffer, imuClock)
  /\ last_imu \in Nat /\ last_imu <= imuClock /\ AllAbove(imu_buffer, last_imu)
  /\ newest_imu \in Nat /\ newest_imu <= imuClock /\ AllUpTo(imu_buffer, newest_imu)
  /\ prop_imu_buffer \in Seq(Nat)
  /\ imu_need_init => prop_imu_buffer = << >>
  /\ prop_imu_buffer # << >> => prop_imu_buffer[Len(prop_imu_buffer)] = newest_imu

\* So do the images; those that are buffered are after those published.
ImgInv ==
  /\ img_time_buffer \in Seq(Nat) /\ imgClock \in Nat
  /\ Ascending(img_time_buffer) /\ AllUpTo(img_time_buffer, imgClock)
  /\ images \in Seq(Nat) /\ Ascending(images) /\ AllUpTo(images, imgClock)
  /\ \A n \in DOMAIN images : AllAbove(img_time_buffer, images[n])

\* What one update leaves for the next
UpdateInv ==
  /\ slam_mode_ # "LIVO" => pcl_w_wait_pub = << >> /\ visual = NoFrame
  /\ slam_mode_ = "LIVO" =>
       /\ pcl_w_wait_pub # << >> => lio_vio_flg = "LIO" /\ updates > 0
       /\ lio_vio_flg = "LIO" => is_first_frame
  /\ visual # NoFrame => is_first_frame
  /\ (settings.imu_en /\ path # << >>) => updates > 0
  /\ (settings.imu_en /\ updates > 0) =>
       last_lio_update_time = last_prop_end_time /\ last_prop_end_time \in Nat

FilterType ==
  /\ _state \in Int /\ latest_ekf \in [state : Int, time : Int]
  /\ imu_propagate \in Int /\ last_t_from_lidar_end_time \in Int /\ time_last_scan \in Int

\* The filter is where the last update ended, the propagation at the newest sample.
StateInv ==
  /\ ~imu_need_init => /\ _state = last_prop_end_time
                       /\ last_imu <= last_prop_end_time
                       /\ last_prop_end_time <= newest_imu
  /\ latest_ekf.state = latest_ekf.time /\ latest_ekf.time <= newest_imu
  /\ ~state_update_flg => imu_propagate = latest_ekf.time + last_t_from_lidar_end_time
  /\ odom.state = odom.stamp

PathInv ==
  /\ path \in Seq(Nat) /\ Ascending(path)
  /\ slam_mode_ = "LIVO" => AllUpTo(path, last_prop_end_time)
  /\ slam_mode_ = "ONLY_LIO" =>
       \A m \in DOMAIN path : /\ path[m] < lidarClock
                              /\ \A n \in DOMAIN lid_raw_data_buffer :
                                   path[m] < lid_raw_data_buffer[n].beg

FrameInv ==
  /\ pcl_w_wait_pub # << >> => \A n \in DOMAIN _pv_list : _pv_list[n].at = last_prop_end_time
  /\ visual # NoFrame =>
       /\ visual.state = visual.image
       /\ \A n \in DOMAIN visual.pv : visual.pv[n].at = visual.image
       /\ visual.img_time = visual.image - _first_lidar_time

TimeInv ==
  /\ CutInv /\ ImuInv /\ ImgInv /\ UpdateInv /\ FilterType
  /\ (settings.imu_en /\ ~starved) => StateInv /\ PathInv /\ FrameInv

LEMMA TimeInvInit == Init => TimeInv
<1> SUFFICES ASSUME Init PROVE TimeInv
  OBVIOUS
<1>1. /\ imu_buffer = << >> /\ imuClock = 0 /\ last_imu = 0 /\ newest_imu = 0
      /\ prop_imu_buffer = << >> /\ img_time_buffer = << >> /\ imgClock = 0 /\ images = << >>
      /\ pcl_w_wait_pub = << >> /\ visual = NoFrame /\ lio_vio_flg = "WAIT" /\ path = << >>
      /\ updates = 0 /\ _state = 0 /\ latest_ekf = [state |-> 0, time |-> 0]
      /\ imu_propagate = 0 /\ last_t_from_lidar_end_time = 0 /\ last_prop_end_time = 0
      /\ odom = [stamp |-> 0, state |-> 0] /\ lidarClock = 0 /\ _pv_list = << >>
      /\ time_last_scan = -1
  BY DEF Init, ImuProcessInit, MembersInit
<1>2. << >> \in Seq(Nat) /\ DOMAIN << >> = {}
  BY EmptySeq
<1>3. ImuInv
  BY <1>1, <1>2 DEF ImuInv, Ascending, AllUpTo, AllAbove
<1>4. ImgInv
  BY <1>1, <1>2 DEF ImgInv, Ascending, AllUpTo, AllAbove
<1>5. UpdateInv
  BY <1>1 DEF UpdateInv
<1>6. FilterType /\ StateInv
  BY <1>1 DEF FilterType, StateInv
<1>7. PathInv /\ FrameInv
  BY <1>1, <1>2 DEF PathInv, FrameInv, Ascending, AllUpTo
<1> QED
  BY <1>3, <1>4, <1>5, <1>6, <1>7, CutInvInit DEF TimeInv

\* What an update takes of the samples, and what it leaves
PoppedBy(samples, rest, time) ==
  /\ samples \in Seq(Nat)
  /\ v_imu(samples) \in Seq(Nat) /\ v_imu(samples) # << >> /\ Ascending(v_imu(samples))
  /\ v_imu(samples)[1] = last_imu
  /\ Last(v_imu(samples)) \in Nat /\ Last(v_imu(samples)) <= imuClock
  /\ samples # << >> => /\ Last(v_imu(samples)) = Last(samples)
                        /\ Last(samples) <= time
  /\ samples = << >> => Last(v_imu(samples)) = last_imu
  /\ rest \in Seq(Nat) /\ Ascending(rest) /\ AllUpTo(rest, imuClock) /\ AllUpTo(rest, newest_imu)
  /\ AllAbove(rest, Last(v_imu(samples))) /\ AllAbove(rest, last_imu)

LEMMA PoppedRight ==
  ASSUME ImuInv, NEW time \in Int, NEW P, P \subseteq 1 .. SamplesUpTo(time)
  PROVE  PoppedBy(Select(imu_buffer, P),
                  SubSeq(imu_buffer, SamplesUpTo(time) + 1, Len(imu_buffer)), time)
<1> DEFINE b == imu_buffer
           l == Len(b)
           K == SamplesUpTo(time)
           q == Kept(l, P)
           s == Select(b, P)
           r == SubSeq(b, K + 1, l)
           v == v_imu(s)
<1>1. /\ b \in Seq(Nat) /\ l \in Nat /\ DOMAIN b = 1 .. l /\ \A k \in 1 .. l : b[k] \in Nat
      /\ Ascending(b) /\ AllUpTo(b, imuClock) /\ AllUpTo(b, newest_imu) /\ AllAbove(b, last_imu)
      /\ last_imu \in Nat /\ last_imu <= imuClock /\ imuClock \in Nat /\ newest_imu \in Nat
  <2>1. b \in Seq(Nat)
    BY DEF ImuInv
  <2> QED
    BY <2>1 DEF ImuInv
<1>2. K \in 0 .. l /\ \A k \in 1 .. K : b[k] <= time
  BY <1>1, SamplesRight
<1>3. /\ s \in Seq(Nat)
      /\ \A m \in 1 .. Len(s) : q[m] \in 1 .. l /\ q[m] \in P /\ s[m] = b[q[m]]
      /\ \A m, n \in 1 .. Len(s) : m < n => q[m] < q[n]
  BY <1>1, SelectRight
<1> HIDE DEF q, s, l, K
<1>4. Len(s) \in Nat
  BY <1>3
<1>5. \A m \in 1 .. Len(s) : /\ s[m] \in Nat /\ s[m] <= time /\ s[m] <= imuClock
                             /\ last_imu < s[m] /\ q[m] <= K
  <2> SUFFICES ASSUME NEW m \in 1 .. Len(s)
               PROVE  /\ s[m] \in Nat /\ s[m] <= time /\ s[m] <= imuClock
                      /\ last_imu < s[m] /\ q[m] <= K
    OBVIOUS
  <2>1. q[m] \in 1 .. l /\ s[m] = b[q[m]] /\ q[m] \in 1 .. K
    BY <1>3 DEF K
  <2>2. q[m] <= K
    BY <1>1, <1>2, <2>1
  <2> QED
    BY <1>1, <1>2, <2>1, <2>2 DEF AllUpTo, AllAbove
<1>6. \A m, n \in 1 .. Len(s) : m < n => s[m] < s[n]
  <2> SUFFICES ASSUME NEW m \in 1 .. Len(s), NEW n \in 1 .. Len(s), m < n PROVE s[m] < s[n]
    OBVIOUS
  <2>1. q[m] \in 1 .. l /\ q[n] \in 1 .. l /\ q[m] < q[n] /\ s[m] = b[q[m]] /\ s[n] = b[q[n]]
    BY <1>3
  <2> QED
    BY <1>1, <2>1 DEF Ascending
<1>7. /\ v \in Seq(Nat) /\ Len(v) = 1 + Len(s) /\ v[1] = last_imu
      /\ \A k \in 1 .. Len(s) : v[k + 1] = s[k]
  <2> DEFINE o == <<last_imu>>
  <2>1. o \in Seq(Nat) /\ Len(o) = 1 /\ o[1] = last_imu
    BY <1>1
  <2>2. v = o \o s
    BY DEF v_imu
  <2> HIDE DEF o, v
  <2>3. /\ o \o s \in Seq(Nat) /\ Len(o \o s) = Len(o) + Len(s)
        /\ \A k \in 1 .. Len(o) + Len(s) : (o \o s)[k] = IF k <= Len(o) THEN o[k] ELSE s[k - Len(o)]
    BY <1>3, <2>1, ConcatProperties
  <2>4. v \in Seq(Nat) /\ Len(v) = 1 + Len(s)
    BY <2>1, <2>2, <2>3
  <2>5. \A k \in 1 .. 1 + Len(s) : v[k] = IF k <= 1 THEN o[k] ELSE s[k - 1]
    BY <2>1, <2>2, <2>3
  <2>6. v[1] = last_imu
    BY <1>4, <2>1, <2>5
  <2>7. \A k \in 1 .. Len(s) : v[k + 1] = s[k]
    <3> SUFFICES ASSUME NEW k \in 1 .. Len(s) PROVE v[k + 1] = s[k]
      OBVIOUS
    <3>1. k + 1 \in 1 .. 1 + Len(s) /\ ~(k + 1 <= 1) /\ (k + 1) - 1 = k
      BY <1>4
    <3> QED
      BY <2>5, <3>1
  <2> QED
    BY <2>4, <2>6, <2>7
<1> HIDE DEF v
<1>8. v # << >> /\ DOMAIN v = 1 .. 1 + Len(s) /\ Last(v) = v[1 + Len(s)]
  BY <1>4, <1>7 DEF Last
<1>9. Ascending(v)
  <2> SUFFICES ASSUME NEW m \in 1 .. 1 + Len(s), NEW n \in 1 .. 1 + Len(s), m < n
               PROVE  v[m] < v[n]
    BY <1>8 DEF Ascending
  <2>1. n - 1 \in 1 .. Len(s) /\ v[(n - 1) + 1] = s[n - 1] /\ (n - 1) + 1 = n
    <3>1. n - 1 \in 1 .. Len(s) /\ (n - 1) + 1 = n
      BY <1>4
    <3> QED
      BY <1>7, <3>1
  <2>2. CASE m = 1
    BY <1>5, <1>7, <2>1, <2>2
  <2>3. CASE m # 1
    <3>1. m - 1 \in 1 .. Len(s) /\ v[(m - 1) + 1] = s[m - 1] /\ (m - 1) + 1 = m /\ m - 1 < n - 1
      BY <1>4, <1>7, <2>3
    <3> QED
      BY <1>6, <2>1, <3>1
  <2> QED
    BY <2>2, <2>3
<1>10. s # << >> => /\ Last(v) = Last(s) /\ Last(s) <= time /\ Last(v) \in Nat
                    /\ Last(v) <= imuClock /\ Len(s) \in 1 .. Len(s) /\ Last(s) = s[Len(s)]
  <2> SUFFICES ASSUME s # << >>
               PROVE  /\ Last(v) = Last(s) /\ Last(s) <= time /\ Last(v) \in Nat
                      /\ Last(v) <= imuClock /\ Len(s) \in 1 .. Len(s) /\ Last(s) = s[Len(s)]
    OBVIOUS
  <2>1. Len(s) \in 1 .. Len(s) /\ Last(s) = s[Len(s)] /\ 1 + Len(s) = Len(s) + 1
    <3>1. Len(s) # 0
      BY <1>3, EmptySeq
    <3> QED
      BY <1>4, <3>1 DEF Last
  <2> QED
    BY <1>5, <1>7, <1>8, <2>1
<1>11. s = << >> => Last(v) = last_imu
  <2>1. Len(<< >>) = 0 /\ 1 + 0 = 1
    OBVIOUS
  <2> QED
    BY <1>7, <1>8, <2>1
<1>12. /\ r \in Seq(Nat) /\ Ascending(r) /\ AllUpTo(r, imuClock) /\ AllUpTo(r, newest_imu)
       /\ AllAbove(r, last_imu)
  <2>1. K \in 0 .. Len(b) /\ Len(b) \in K .. Len(b)
    BY <1>1, <1>2 DEF l
  <2>2. r = SubSeq(b, K + 1, Len(b))
    BY DEF l
  <2> HIDE DEF r, b
  <2> QED
    BY <1>1, <2>1, <2>2, AscendingSub
<1>13. /\ DOMAIN r = 1 .. l - K
       /\ \A k \in 1 .. l - K : r[k] = b[K + k] /\ K + k \in 1 .. l
  <2>1. K \in 0 .. Len(b) /\ Len(b) \in K .. Len(b) /\ l = Len(b)
    BY <1>1, <1>2 DEF l
  <2>2. r = SubSeq(b, K + 1, Len(b))
    BY DEF l
  <2> HIDE DEF r, b
  <2>3. /\ r \in Seq(Nat) /\ Len(r) = Len(b) - K
        /\ \A k \in 1 .. Len(b) - K : r[k] = b[K + k] /\ K + k \in 1 .. Len(b)
    <3> DEFINE S == Nat
               e == Len(b)
    <3>1. b \in Seq(S) /\ K \in 0 .. Len(b) /\ e \in K .. Len(b)
      BY <1>1, <2>1
    <3> HIDE DEF S, e
    <3>2. /\ SubSeq(b, K + 1, e) \in Seq(S) /\ Len(SubSeq(b, K + 1, e)) = e - K
          /\ \A k \in 1 .. e - K : SubSeq(b, K + 1, e)[k] = b[K + k] /\ K + k \in 1 .. Len(b)
      BY <3>1, SubRight
    <3> QED
      BY <2>2, <3>2 DEF S, e
  <2> QED
    BY <2>1, <2>3
<1> HIDE DEF r
<1>14. AllAbove(r, Last(v))
  <2>1. CASE s = << >>
    BY <1>11, <1>12, <2>1
  <2>2. CASE s # << >>
    <3> SUFFICES ASSUME NEW k \in 1 .. l - K PROVE Last(v) < r[k]
      BY <1>13 DEF AllAbove
    <3> DEFINE m == Len(s)
    <3>1. m \in 1 .. Len(s) /\ Last(v) = s[m]
      BY <1>10, <2>2
    <3>2. s[m] = b[q[m]] /\ q[m] \in 1 .. l /\ q[m] <= K
      BY <1>3, <1>5, <3>1
    <3>3. r[k] = b[K + k] /\ K + k \in 1 .. l /\ q[m] < K + k
      <4>1. r[k] = b[K + k] /\ K + k \in 1 .. l
        BY <1>13
      <4>2. K \in Nat /\ k \in Nat /\ 0 < k
        BY <1>1, <1>2
      <4> DEFINE g == q[m]
      <4>3. g \in Nat /\ g <= K
        BY <1>1, <3>2
      <4> HIDE DEF g
      <4>4. g < K + k
        BY <4>2, <4>3
      <4> QED
        BY <4>1, <4>4 DEF g
    <3> DEFINE g == q[m]
               h == K + k
    <3>4. g \in DOMAIN b /\ h \in DOMAIN b /\ g < h
      BY <1>1, <3>2, <3>3
    <3> HIDE DEF g, h
    <3>5. b[g] < b[h]
      BY <1>1, <3>4 DEF Ascending
    <3> QED
      BY <3>1, <3>2, <3>3, <3>5 DEF g, h
  <2> QED
    BY <2>1, <2>2
<1>15. Last(v) \in Nat /\ Last(v) <= imuClock
  <2>1. CASE s = << >>
    BY <1>1, <1>11, <2>1
  <2>2. CASE s # << >>
    BY <1>10, <2>2
  <2> QED
    BY <2>1, <2>2
<1> HIDE DEF b
<1>16. PoppedBy(s, r, time)
  BY <1>3, <1>7, <1>8, <1>9, <1>10, <1>11, <1>12, <1>14, <1>15 DEF PoppedBy, v
<1> QED
  BY <1>16 DEF s, r, b, K, l


\* What a LIO update is, in either mode
UpdateBy(samples, pts, end) ==
  /\ settings.imu_en /\ imu_buffer # << >> /\ lid_raw_data_buffer # << >>
  /\ end \in Nat /\ end <= newest_imu /\ pts \in Seq(Pt)
  /\ PoppedBy(samples, imu_buffer', end)
  /\ Use(pts, end) /\ Process2(samples, pts, end) /\ handleFirstFrame(LastUpdate)
  /\ lio_vio_flg' = "LIO"
  /\ UNCHANGED <<clocks, last_timestamp_lidar, received, imgIn, propagation, node>>
  /\ \/ /\ slam_mode_ = "LIVO" /\ lio_vio_flg \in {"WAIT", "VIO"}
        /\ img_time_buffer # << >> /\ end = Image /\ LastUpdate < end
        /\ (updates > 0 /\ LastUpdate = last_prop_end_time) =>
             pts \in Seq(PtsAt(last_prop_end_time))
     \/ /\ slam_mode_ = "ONLY_LIO" /\ pts = Head(lid_raw_data_buffer).points
        /\ end = Head(lid_raw_data_buffer).beg + Last(Head(lid_raw_data_buffer).points).curvature
        /\ lid_raw_data_buffer' = Tail(lid_raw_data_buffer)

LEMMA NewestRight ==
  ASSUME ImuInv, imu_buffer # << >>, NEW end \in Int, end <= Last(imu_buffer)
  PROVE  end <= newest_imu
<1>1. imu_buffer \in Seq(Nat) /\ newest_imu \in Nat /\ AllUpTo(imu_buffer, newest_imu)
  BY DEF ImuInv
<1>2. Len(imu_buffer) \in DOMAIN imu_buffer
  BY <1>1, EmptySeq
<1>3. Last(imu_buffer) <= newest_imu /\ Last(imu_buffer) \in Nat
  BY <1>1, <1>2 DEF Last, AllUpTo
<1> QED
  BY <1>1, <1>3

LEMMA SyncLioIsUpdate ==
  ASSUME CutInv, ImuInv, SyncLio
  PROVE  \E samples, pts, end : UpdateBy(samples, pts, end)
<1> DEFINE popped == SamplesUpTo(Image)
           P == {k \in 1 .. popped : imu_buffer[k] > LastUpdate}
           samples == Select(imu_buffer, P)
           pts == pcl_proc_next \o CutBefore(Image)
<1>1. /\ slam_mode_ = "LIVO" /\ lid_raw_data_buffer # << >> /\ lio_vio_flg \in {"WAIT", "VIO"}
      /\ LastUpdate < Image /\ Image <= Last(imu_buffer)
      /\ imu_buffer' = SubSeq(imu_buffer, popped + 1, Len(imu_buffer))
      /\ Use(pts, Image) /\ handleFirstFrame(LastUpdate) /\ Process2(samples, pts, Image)
      /\ lio_vio_flg' = "LIO"
      /\ UNCHANGED <<clocks, last_timestamp_lidar, received, imgIn, propagation, node>>
  BY DEF SyncLio, HasData
<1>2. /\ settings.imu_en /\ imu_buffer # << >> /\ img_time_buffer # << >>
      /\ img_time_buffer \in Seq(Nat)
  BY SettingsAre DEF SyncLio, HasData, slam_mode_, CutInv, TypeRight
<1>3. Image \in Nat /\ Image \in Int
  BY <1>2, HeadTailProperties DEF Image
<1>4. PoppedBy(samples, imu_buffer', Image)
  <2>1. P \subseteq 1 .. SamplesUpTo(Image)
    OBVIOUS
  <2> HIDE DEF P
  <2>2. PoppedBy(samples, SubSeq(imu_buffer, popped + 1, Len(imu_buffer)), Image)
    BY <1>3, <2>1, PoppedRight
  <2> HIDE DEF samples, popped
  <2> QED
    BY <1>1, <2>2
<1>5. pts \in Seq(Pt)
  <2> DEFINE CB == CutBefore(Image)
             C == PtsAt(LastUpdate)
  <2>1. lidarClock \in Nat /\ Buffered(lid_raw_data_buffer, lidarClock) /\ LastUpdate \in Int
        /\ pcl_proc_next \in Seq(Pt)
    BY <1>1, LastUpdateRight DEF CutInv, TypeRight
  <2>2. CB \in Seq(C)
    BY <1>3, <2>1, CutRight
  <2>3. \A p \in C : p \in Pt
    BY DEF PtsAt
  <2> HIDE DEF CB, C
  <2>4. Len(CB) \in Nat /\ CB = [n \in 1 .. Len(CB) |-> CB[n]] /\ \A n \in 1 .. Len(CB) : CB[n] \in Pt
    BY <2>2, <2>3
  <2>5. CB \in Seq(Pt)
    BY <2>4
  <2>6. pcl_proc_next \o CB \in Seq(Pt)
    BY <2>1, <2>5, ConcatProperties
  <2> QED
    BY <2>6 DEF CB
<1>8. (updates > 0 /\ LastUpdate = last_prop_end_time) =>
        pts \in Seq(PtsAt(last_prop_end_time))
  <2> SUFFICES ASSUME updates > 0, LastUpdate = last_prop_end_time
               PROVE  pts \in Seq(PtsAt(last_prop_end_time))
    OBVIOUS
  <2>1. /\ lidarClock \in Nat /\ Buffered(lid_raw_data_buffer, lidarClock) /\ LastUpdate \in Int
        /\ pcl_proc_next \in Seq(PtsAt(last_prop_end_time))
    BY <1>1, LastUpdateRight DEF CutInv, TypeRight
  <2>2. CutBefore(Image) \in Seq(PtsAt(last_prop_end_time))
    BY <1>3, <2>1, CutRight
  <2> QED
    BY <2>1, <2>2, ConcatProperties
<1>6. Image <= newest_imu
  BY <1>1, <1>2, <1>3, NewestRight
<1> HIDE DEF samples, pts
<1>7. UpdateBy(samples, pts, Image)
  BY <1>1, <1>2, <1>3, <1>4, <1>5, <1>6, <1>8 DEF UpdateBy
<1> QED
  BY <1>7

LEMMA SyncOnlyLioIsUpdate ==
  ASSUME CutInv, ImuInv, SyncOnlyLio
  PROVE  \E samples, pts, end : UpdateBy(samples, pts, end)
<1> DEFINE sc == Head(lid_raw_data_buffer)
           pts == sc.points
           end == sc.beg + Last(sc.points).curvature
           popped == SamplesUpTo(end)
           samples == SubSeq(imu_buffer, 1, popped)
<1>1. /\ slam_mode_ = "ONLY_LIO" /\ lid_raw_data_buffer # << >>
      /\ end <= Last(imu_buffer)
      /\ imu_buffer' = SubSeq(imu_buffer, popped + 1, Len(imu_buffer))
      /\ Use(pts, end) /\ handleFirstFrame(LastUpdate) /\ Process2(samples, pts, end)
      /\ lid_raw_data_buffer' = Tail(lid_raw_data_buffer)
      /\ lio_vio_flg' = "LIO"
      /\ UNCHANGED <<clocks, last_timestamp_lidar, received, imgIn, propagation, node>>
  BY DEF SyncOnlyLio, HasData
<1>2. settings.imu_en /\ imu_buffer # << >>
  BY SettingsAre DEF SyncOnlyLio, HasData, slam_mode_, CutInv, TypeRight
<1>3. end \in Nat /\ end \in Int /\ pts \in Seq(Pt)
  <2>1. pts \in Seq(Pt)
    BY <1>1, LastUpdateRight
  <2> HIDE DEF sc
  <2>2. end \in Nat
    BY <1>1, ScanEnd DEF sc
  <2> QED
    BY <2>1, <2>2
<1> HIDE DEF end
<1>4. PoppedBy(samples, imu_buffer', end)
  <2> DEFINE P == 1 .. popped
  <2>1. imu_buffer \in Seq(Nat) /\ popped \in 0 .. Len(imu_buffer) /\ Len(imu_buffer) \in Nat
    <3>1. imu_buffer \in Seq(Nat)
      BY DEF ImuInv
    <3> QED
      BY <1>3, <3>1, SamplesRight
  <2>2. PoppedBy(Select(imu_buffer, P), SubSeq(imu_buffer, popped + 1, Len(imu_buffer)), end)
    BY <1>3, PoppedRight
  <2>3. Select(imu_buffer, P) = samples
    <3>1. 0 \in 0 .. Len(imu_buffer) /\ P \cap (1 .. Len(imu_buffer)) = 0 + 1 .. popped
          /\ popped \in 0 .. Len(imu_buffer)
      <4> HIDE DEF popped
      <4> QED
        BY <2>1
    <3> HIDE DEF P, popped
    <3>2. Select(imu_buffer, P) = SubSeq(imu_buffer, 0 + 1, popped)
      BY <2>1, <3>1, SelectInterval
    <3>3. 0 + 1 = 1
      OBVIOUS
    <3> QED
      BY <3>2, <3>3 DEF popped
  <2> HIDE DEF P, samples, popped
  <2> QED
    BY <1>1, <2>2, <2>3
<1>5. end <= newest_imu
  BY <1>1, <1>2, <1>3, NewestRight
<1> HIDE DEF samples, popped
<1>6. UpdateBy(samples, pts, end)
  BY <1>1, <1>2, <1>3, <1>4, <1>5 DEF UpdateBy, end
<1> QED
  BY <1>6

\* An update while the IMU is being initialised
LEMMA InitDoes ==
  ASSUME NEW samples, NEW pts, NEW end \in Int, Process2(samples, pts, end), imu_need_init,
         init_iter_num \in Nat, samples \in Seq(Nat)
  PROVE  /\ UNCHANGED <<lidar_map_inited, ekf, clouds, results, updates, starved>>
         /\ last_lio_update_time' = LastUpdate
         /\ samples = << >> => UNCHANGED <<imu_need_init, last_imu, last_prop_end_time, _state>>
         /\ samples # << >> => last_imu' = Last(samples)
         /\ (samples # << >> /\ ~imu_need_init') => last_prop_end_time' = end /\ _state' = end
         /\ (samples # << >> /\ imu_need_init') => _state' = _state
<1> DEFINE n == init_iter_num + Len(samples)
<1>1. /\ IMU_init(samples, end) /\ last_lio_update_time' = LastUpdate
      /\ UNCHANGED <<lidar_map_inited, ekf, clouds, results>>
  BY DEF Process2
<1>2. UNCHANGED <<updates, starved>>
  BY <1>1 DEF IMU_init
<1>3. samples = << >> => UNCHANGED <<imu_need_init, last_imu, last_prop_end_time, _state>>
  BY <1>1 DEF IMU_init
<1>4. samples # << >> =>
        /\ last_imu' = Last(samples) /\ imu_need_init' = (n <= MAX_INI_COUNT)
        /\ last_prop_end_time' = IF n > MAX_INI_COUNT THEN end ELSE 0
        /\ _state' = IF n > MAX_INI_COUNT THEN end ELSE _state
  BY <1>1 DEF IMU_init
<1>5. n \in Nat /\ MAX_INI_COUNT \in Nat
  BY ParameterAssumption
<1> HIDE DEF n
<1>6. n > MAX_INI_COUNT <=> ~(n <= MAX_INI_COUNT)
  BY <1>5
<1> QED
  BY <1>1, <1>2, <1>3, <1>4, <1>6

\* An update of the filter
LEMMA UpdateDoes ==
  ASSUME NEW samples, NEW pts, NEW end, Process2(samples, pts, end), ~imu_need_init
  PROVE  /\ _state' = _state + Elapsed(v_imu(samples), last_prop_end_time, end)
         /\ last_imu' = Last(v_imu(samples))
         /\ last_prop_end_time' = end /\ last_lio_update_time' = end /\ updates' = updates + 1
         /\ starved' = (starved \/ Len(Steps(v_imu(samples), last_prop_end_time)) < 2)
         /\ ~imu_need_init'
         /\ handleLIO(pts)
<1>1. UndistortPcl(samples, pts, end) /\ handleLIO(pts)
  BY Zenon DEF Process2
<1> QED
  BY <1>1, Zenon DEF UndistortPcl


-----------------------------------------------------------------------------
(* LivoMapper: every step keeps the order of the samples and the images *)

LEMMA ImuInvUpdate ==
  ASSUME CutInv, ImuInv, NEW samples, NEW pts, NEW end, UpdateBy(samples, pts, end)
  PROVE  ImuInv'
<1> DEFINE v == v_imu(samples)
<1>1. /\ imuClock' = imuClock /\ newest_imu' = newest_imu /\ prop_imu_buffer' = prop_imu_buffer
      /\ PoppedBy(samples, imu_buffer', end) /\ Process2(samples, pts, end) /\ end \in Int
  BY DEF UpdateBy, clocks, propagation
<1>2. samples \in Seq(Nat)
  BY <1>1 DEF PoppedBy
<1>3. last_imu' = last_imu \/ last_imu' = Last(v)
  <2>1. CASE imu_need_init
    <3>1. init_iter_num \in Nat
      BY DEF CutInv, TypeRight
    <3>2. \/ samples = << >> /\ last_imu' = last_imu
          \/ samples # << >> /\ last_imu' = Last(samples)
      BY <1>1, <1>2, <2>1, <3>1, InitDoes
    <3> QED
      BY <1>1, <3>2 DEF PoppedBy
  <2>2. CASE ~imu_need_init
    BY <1>1, <2>2, UpdateDoes
  <2> QED
    BY <2>1, <2>2
<1>4. imu_need_init' => prop_imu_buffer = << >>
  <2>1. CASE imu_need_init
    BY <2>1 DEF ImuInv
  <2>2. CASE ~imu_need_init
    BY <1>1, <2>2, UpdateDoes
  <2> QED
    BY <2>1, <2>2
<1>5. /\ imu_buffer' \in Seq(Nat) /\ Ascending(imu_buffer') /\ AllUpTo(imu_buffer', imuClock)
      /\ AllUpTo(imu_buffer', newest_imu)
      /\ AllAbove(imu_buffer', Last(v)) /\ AllAbove(imu_buffer', last_imu)
      /\ Last(v) \in Nat /\ Last(v) <= imuClock
  BY <1>1 DEF PoppedBy
<1> HIDE DEF v
<1>6. last_imu' \in Nat /\ last_imu' <= imuClock /\ AllAbove(imu_buffer', last_imu')
  BY <1>3, <1>5 DEF ImuInv
<1>7. (prop_imu_buffer # << >> => prop_imu_buffer[Len(prop_imu_buffer)] = newest_imu)
      /\ prop_imu_buffer \in Seq(Nat) /\ newest_imu \in Nat /\ newest_imu <= imuClock
      /\ imuClock \in Nat
  BY DEF ImuInv
<1>8. /\ imu_buffer' \in Seq(Nat) /\ imuClock' \in Nat
      /\ Ascending(imu_buffer)' /\ AllUpTo(imu_buffer, imuClock)'
      /\ AllAbove(imu_buffer, last_imu)' /\ AllUpTo(imu_buffer, newest_imu)'
  BY <1>1, <1>5, <1>6, <1>7
<1> QED
  BY <1>1, <1>4, <1>6, <1>7, <1>8 DEF ImuInv

LEMMA ImuInvCallback ==
  ASSUME ImuInv, imu_cbk
  PROVE  ImuInv'
<1>1. PICK t \in imuClock + 1 .. imuClock + ImuStep :
        /\ imuClock' = t
        /\ \/ UNCHANGED <<imu_buffer, prop_imu_buffer, newest_imu>>
           \/ /\ imu_buffer' = Append(imu_buffer, t) /\ newest_imu' = t
              /\ prop_imu_buffer' =
                   IF imu_need_init THEN prop_imu_buffer ELSE Append(prop_imu_buffer, t)
  BY DEF imu_cbk
<1>2. UNCHANGED <<last_imu, imu_need_init>>
  BY DEF imu_cbk, imuProcess
<1>3. t \in Nat /\ imuClock < t /\ imuClock \in Nat
  <2>1. imuClock \in Nat /\ ImuStep \in Nat
    BY ClockAssumption DEF ImuInv
  <2> QED
    BY <1>1, <2>1
<1>4. /\ imu_buffer \in Seq(Nat) /\ Ascending(imu_buffer) /\ AllUpTo(imu_buffer, imuClock)
      /\ last_imu \in Nat /\ last_imu <= imuClock /\ AllAbove(imu_buffer, last_imu)
      /\ newest_imu \in Nat /\ newest_imu <= imuClock /\ AllUpTo(imu_buffer, newest_imu)
      /\ prop_imu_buffer \in Seq(Nat)
      /\ imu_need_init => prop_imu_buffer = << >>
      /\ prop_imu_buffer # << >> => prop_imu_buffer[Len(prop_imu_buffer)] = newest_imu
  BY DEF ImuInv
<1>5. CASE UNCHANGED <<imu_buffer, prop_imu_buffer, newest_imu>>
  <2>1. AllUpTo(imu_buffer, t)
    <3>1. \A n \in DOMAIN imu_buffer : imu_buffer[n] \in Nat
      BY <1>4
    <3> QED
      BY <1>3, <1>4, <3>1 DEF AllUpTo
  <2>2. Ascending(imu_buffer)' /\ AllUpTo(imu_buffer, imuClock)' /\ AllAbove(imu_buffer, last_imu)'
        /\ AllUpTo(imu_buffer, newest_imu)'
    BY <1>1, <1>2, <1>4, <1>5, <2>1
  <2> QED
    BY <1>1, <1>2, <1>3, <1>4, <1>5, <2>2 DEF ImuInv
<1>6. CASE /\ imu_buffer' = Append(imu_buffer, t) /\ newest_imu' = t
           /\ prop_imu_buffer' =
                IF imu_need_init THEN prop_imu_buffer ELSE Append(prop_imu_buffer, t)
  <2>1. /\ Append(imu_buffer, t) \in Seq(Nat) /\ Ascending(Append(imu_buffer, t))
        /\ AllUpTo(Append(imu_buffer, t), t) /\ AllAbove(Append(imu_buffer, t), last_imu)
    <3>1. last_imu < t /\ imuClock \in Int
      BY <1>3, <1>4
    <3> QED
      BY <1>3, <1>4, <3>1, AscendingAppend
  <2>2. /\ Append(prop_imu_buffer, t) \in Seq(Nat)
        /\ Append(prop_imu_buffer, t)[Len(Append(prop_imu_buffer, t))] = t
    BY <1>3, <1>4, AppendProperties
  <2>3. Ascending(imu_buffer)' /\ AllUpTo(imu_buffer, imuClock)' /\ AllAbove(imu_buffer, last_imu)'
        /\ AllUpTo(imu_buffer, newest_imu)' /\ imu_buffer' \in Seq(Nat)
    BY <1>1, <1>2, <1>6, <2>1
  <2>4. /\ prop_imu_buffer' \in Seq(Nat)
        /\ imu_need_init => prop_imu_buffer' = << >>
        /\ prop_imu_buffer' # << >> => prop_imu_buffer'[Len(prop_imu_buffer')] = t
    BY <1>4, <1>6, <2>2
  <2>5. /\ imuClock' \in Nat /\ last_imu' \in Nat /\ last_imu' <= imuClock'
        /\ newest_imu' \in Nat /\ newest_imu' <= imuClock'
    BY <1>1, <1>2, <1>3, <1>4, <1>6
  <2> QED
    BY <1>2, <1>6, <2>3, <2>4, <2>5 DEF ImuInv
<1> QED
  BY <1>1, <1>5, <1>6

\* What is left of the samples for the propagation
LEMMA FreshRight ==
  ASSUME ImuInv, latest_ekf.time \in Int
  PROVE  /\ Fresh \in Seq(Nat)
         /\ Fresh # << >> => Fresh[Len(Fresh)] = newest_imu /\ Last(Fresh) = newest_imu
         /\ (prop_imu_buffer # << >> /\ latest_ekf.time <= newest_imu) => Fresh # << >>
<1> DEFINE p == prop_imu_buffer
           l == Len(p)
           P == {k \in DOMAIN p : p[k] < latest_ekf.time}
           a == Leading(l, P)
           r == SubSeq(p, a + 1, l)
<1>1. p \in Seq(Nat) /\ (p # << >> => p[l] = newest_imu) /\ newest_imu \in Nat
  BY DEF ImuInv
<1>2. l \in Nat /\ DOMAIN p = 1 .. l /\ (p # << >> <=> l > 0)
  BY <1>1, EmptySeq
<1>3. Fresh = r
  BY DEF Fresh
<1>4. a \in 0 .. l /\ \A k \in 1 .. a : k \in P
  <2> HIDE DEF P, l
  <2> QED
    BY <1>2, LeadingRight
<1> HIDE DEF a, r
<1>5. /\ r \in Seq(Nat) /\ Len(r) = l - a
      /\ \A k \in 1 .. l - a : r[k] = p[a + k]
  <2> DEFINE S == Nat
  <2>1. p \in Seq(S) /\ a \in 0 .. Len(p) /\ l \in a .. Len(p)
    BY <1>1, <1>2, <1>4
  <2> HIDE DEF S, l, p
  <2>2. /\ SubSeq(p, a + 1, l) \in Seq(S) /\ Len(SubSeq(p, a + 1, l)) = l - a
        /\ \A k \in 1 .. l - a : SubSeq(p, a + 1, l)[k] = p[a + k] /\ a + k \in 1 .. Len(p)
    BY <2>1, SubRight
  <2> QED
    BY <2>2 DEF S, r
<1> HIDE DEF l, p
<1>6. r # << >> => r[Len(r)] = newest_imu /\ Last(r) = newest_imu
  <2> SUFFICES ASSUME r # << >> PROVE r[Len(r)] = newest_imu /\ Last(r) = newest_imu
    OBVIOUS
  <2>1. l - a \in 1 .. l - a /\ a + (l - a) = l /\ l > 0
    <3>1. Len(r) # 0
      BY <1>5, EmptySeq
    <3> QED
      BY <1>2, <1>4, <1>5, <3>1
  <2>2. r[l - a] = p[l]
    BY <1>5, <2>1
  <2> QED
    BY <1>1, <1>2, <1>5, <2>1, <2>2 DEF Last
<1>7. (p # << >> /\ latest_ekf.time <= newest_imu) => r # << >>
  <2> SUFFICES ASSUME p # << >>, latest_ekf.time <= newest_imu, r = << >> PROVE FALSE
    OBVIOUS
  <2>1. Len(r) = 0
    OBVIOUS
  <2>2. l \in 1 .. a
    BY <1>2, <1>4, <1>5, <2>1
  <2>3. p[l] < latest_ekf.time
    BY <1>4, <2>2 DEF P
  <2> QED
    BY <1>1, <2>3
<1> QED
  BY <1>3, <1>5, <1>6, <1>7 DEF p

LEMMA ImuInvNext == ImuInv /\ CutInv /\ FilterType /\ [Next]_vars => ImuInv'
<1> SUFFICES ASSUME ImuInv, CutInv, FilterType, [Next]_vars PROVE ImuInv'
  OBVIOUS
<1> DEFINE imuVars == <<imu_buffer, imuClock, last_imu, newest_imu, prop_imu_buffer, imu_need_init>>
<1>1. UNCHANGED imuVars => ImuInv'
  BY DEF ImuInv
<1>2. CASE imu_cbk
  BY <1>2, ImuInvCallback
<1>3. CASE SyncLio \/ SyncOnlyLio
  BY <1>3, SyncLioIsUpdate, SyncOnlyLioIsUpdate, ImuInvUpdate
<1>4. CASE imu_prop_callback
  <2>1. /\ UNCHANGED <<imu_buffer, imuClock, last_imu, newest_imu, imu_need_init>>
        /\ prop_imu_buffer' = prop_imu_buffer \/ prop_imu_buffer' = Fresh
        /\ ~imu_need_init
    BY <1>4 DEF imu_prop_callback, clocks, imuProcess
  <2>2. /\ Fresh \in Seq(Nat)
        /\ Fresh # << >> => Fresh[Len(Fresh)] = newest_imu
    BY FreshRight DEF FilterType
  <2> QED
    BY <2>1, <2>2 DEF ImuInv
<1>5. CASE livox_pcl_cbk \/ standard_pcl_cbk \/ img_cbk \/ ThrowImage \/ savePCD
  <2>1. UNCHANGED imuVars
    BY <1>5 DEF livox_pcl_cbk, standard_pcl_cbk, img_cbk, ThrowImage, savePCD, imuProcess,
       propagation, clocks
  <2> QED
    BY <1>1, <2>1
<1>6. CASE SyncVio
  BY <1>1, <1>6 DEF SyncVio, propagation, clocks
<1>7. CASE SyncLo
  BY <1>1, <1>7 DEF SyncLo, propagation, clocks
<1>8. CASE UNCHANGED vars
  BY <1>1, <1>8 DEF vars, imuProcess, propagation, clocks
<1> QED
  BY <1>2, <1>3, <1>4, <1>5, <1>6, <1>7, <1>8 DEF Next

LEMMA ImgInvNext == ImgInv /\ CutInv /\ ImuInv /\ [Next]_vars => ImgInv'
<1> SUFFICES ASSUME ImgInv, CutInv, ImuInv, [Next]_vars PROVE ImgInv'
  OBVIOUS
<1> DEFINE imgVars == <<img_time_buffer, imgClock, images>>
<1>0. UNCHANGED imgVars => ImgInv'
  BY DEF ImgInv
<1>1. /\ img_time_buffer \in Seq(Nat) /\ imgClock \in Nat
      /\ Ascending(img_time_buffer) /\ AllUpTo(img_time_buffer, imgClock)
      /\ images \in Seq(Nat) /\ Ascending(images) /\ AllUpTo(images, imgClock)
      /\ \A n \in DOMAIN images : AllAbove(img_time_buffer, images[n])
  BY DEF ImgInv
<1>2. \A n \in DOMAIN images : images[n] \in Nat
  BY <1>1
<1>3. CASE img_cbk
  <2>1. PICK t \in imgClock + 1 .. Horizon :
          /\ imgClock' = t /\ images' = images
          /\ img_time_buffer' = img_time_buffer \/ img_time_buffer' = Append(img_time_buffer, t)
    BY <1>3 DEF img_cbk, imgIn, history, results
  <2>2. t \in Nat /\ imgClock < t /\ imgClock \in Int
    <3>1. Horizon \in Nat
      BY ClockAssumption
    <3> QED
      BY <1>1, <2>1, <3>1
  <2>3. AllUpTo(images, t) /\ AllUpTo(img_time_buffer, t)
    <3>1. \A n \in DOMAIN img_time_buffer : img_time_buffer[n] \in Nat
      BY <1>1
    <3> QED
      BY <1>1, <1>2, <2>2, <3>1 DEF AllUpTo
  <2> DEFINE r == Append(img_time_buffer, t)
  <2>4. /\ r \in Seq(Nat) /\ Ascending(r) /\ AllUpTo(r, t)
        /\ \A y : AllAbove(img_time_buffer, y) /\ y < t => AllAbove(r, y)
    BY <1>1, <2>2, AscendingAppend
  <2> HIDE DEF r
  <2>5. \A n \in DOMAIN images : AllAbove(r, images[n])
    <3> SUFFICES ASSUME NEW n \in DOMAIN images PROVE AllAbove(r, images[n])
      OBVIOUS
    <3>1. images[n] < t
      BY <1>1, <1>2, <2>2 DEF AllUpTo
    <3> QED
      BY <1>1, <2>4, <3>1
  <2>6. /\ img_time_buffer' \in Seq(Nat) /\ imgClock' \in Nat
        /\ Ascending(img_time_buffer)' /\ AllUpTo(img_time_buffer, imgClock)'
    BY <1>1, <2>1, <2>2, <2>3, <2>4 DEF r
  <2>7. images' \in Seq(Nat) /\ Ascending(images)' /\ AllUpTo(images, imgClock)'
    BY <1>1, <2>1, <2>3
  <2>8. \A n \in DOMAIN images' : AllAbove(img_time_buffer', images'[n])
    <3>1. CASE img_time_buffer' = img_time_buffer
      BY <1>1, <2>1, <3>1
    <3>2. CASE img_time_buffer' = r
      BY <2>1, <2>5, <3>2
    <3> QED
      BY <2>1, <3>1, <3>2 DEF r
  <2> QED
    BY <2>6, <2>7, <2>8 DEF ImgInv
<1>4. CASE ThrowImage \/ SyncVio
  <2>1. /\ imgClock' = imgClock /\ img_time_buffer' = Tail(img_time_buffer)
        /\ images' = images \/ images' = Append(images, Head(img_time_buffer))
    BY <1>4 DEF ThrowImage, SyncVio, handleVIO, publish_img_rgb, clocks, history, results
  <2>2. img_time_buffer # << >>
    BY <1>4, SettingsAre DEF ThrowImage, SyncVio, HasData, slam_mode_, CutInv, TypeRight
  <2> DEFINE b == img_time_buffer
             r == Tail(b)
             h == Head(b)
             s == Append(images, h)
  <2>3. /\ r \in Seq(Nat) /\ Ascending(r) /\ h \in Nat /\ AllAbove(r, h)
        /\ AllUpTo(r, imgClock) /\ h <= imgClock
        /\ \A x : AllAbove(b, x) => AllAbove(r, x) /\ x < h
    BY <1>1, <2>2, AscendingTail
  <2> HIDE DEF r, h
  <2>4. /\ \A n \in DOMAIN images : images[n] < h /\ AllAbove(r, images[n])
    BY <1>1, <2>3
  <2>5. s \in Seq(Nat) /\ Ascending(s) /\ AllUpTo(s, imgClock) /\ \A n \in DOMAIN s : AllAbove(r, s[n])
    <3>1. /\ s \in Seq(Nat) /\ Len(s) = Len(images) + 1 /\ Len(images) \in Nat
          /\ s[Len(images) + 1] = h /\ \A n \in 1 .. Len(images) : s[n] = images[n]
      BY <1>1, <2>3, AppendProperties
    <3>2. DOMAIN s = 1 .. Len(images) + 1 /\ DOMAIN images = 1 .. Len(images)
      BY <1>1, <3>1
    <3> HIDE DEF s
    <3>3. \A n \in 1 .. Len(images) + 1 : n \in 1 .. Len(images) \/ n = Len(images) + 1
      BY <3>1
    <3>4. \A n \in DOMAIN s : s[n] <= imgClock /\ AllAbove(r, s[n])
      <4> SUFFICES ASSUME NEW n \in DOMAIN s PROVE s[n] <= imgClock /\ AllAbove(r, s[n])
        OBVIOUS
      <4>1. CASE n = Len(images) + 1
        BY <2>3, <3>1, <4>1
      <4>2. CASE n \in 1 .. Len(images)
        <5>1. s[n] = images[n] /\ n \in DOMAIN images
          BY <3>1, <3>2, <4>2
        <5>2. images[n] <= imgClock /\ AllAbove(r, images[n])
          BY <1>1, <2>4, <5>1 DEF AllUpTo
        <5> QED
          BY <5>1, <5>2
      <4> QED
        BY <3>2, <3>3, <4>1, <4>2
    <3>5. Ascending(s)
      <4> SUFFICES ASSUME NEW m \in 1 .. Len(images) + 1, NEW n \in 1 .. Len(images) + 1, m < n
                   PROVE  s[m] < s[n]
        BY <3>2 DEF Ascending
      <4>1. m \in 1 .. Len(images) /\ m \in DOMAIN images /\ s[m] = images[m]
        BY <3>1, <3>2
      <4>2. CASE n = Len(images) + 1
        BY <2>4, <3>1, <4>1, <4>2
      <4>3. CASE n \in 1 .. Len(images)
        BY <1>1, <3>1, <3>2, <4>1, <4>3 DEF Ascending
      <4> QED
        BY <3>3, <4>2, <4>3
    <3> QED
      BY <3>1, <3>4, <3>5 DEF AllUpTo
  <2> HIDE DEF s
  <2>6. images' = images \/ images' = s
    BY <2>1 DEF s, h
  <2>7. /\ img_time_buffer' \in Seq(Nat) /\ imgClock' \in Nat
        /\ Ascending(img_time_buffer)' /\ AllUpTo(img_time_buffer, imgClock)'
    BY <1>1, <2>1, <2>3 DEF r
  <2>8. images' \in Seq(Nat) /\ Ascending(images)' /\ AllUpTo(images, imgClock)'
    BY <1>1, <2>1, <2>5, <2>6
  <2>9. \A n \in DOMAIN images' : AllAbove(img_time_buffer', images'[n])
    <3>0. img_time_buffer' = r
      BY <2>1 DEF r
    <3>1. CASE images' = images
      BY <2>4, <3>0, <3>1
    <3>2. CASE images' = s
      BY <2>5, <3>0, <3>2
    <3> QED
      BY <2>6, <3>1, <3>2
  <2> QED
    BY <2>7, <2>8, <2>9 DEF ImgInv
<1>5. CASE SyncLio \/ SyncOnlyLio
  <2>1. PICK samples, pts, end : UpdateBy(samples, pts, end)
    BY <1>5, SyncLioIsUpdate, SyncOnlyLioIsUpdate
  <2>2. img_time_buffer' = img_time_buffer /\ imgClock' = imgClock /\ Process2(samples, pts, end)
    BY <2>1 DEF UpdateBy, imgIn, clocks
  <2>3. images' = images
    BY <2>2 DEF Process2, handleLIO, results
  <2> QED
    BY <1>0, <2>2, <2>3
<1>6. CASE SyncLo
  BY <1>0, <1>6 DEF SyncLo, handleLIO, results, imgIn, clocks
<1>7. CASE livox_pcl_cbk \/ standard_pcl_cbk \/ imu_cbk \/ imu_prop_callback \/ savePCD
  <2>1. UNCHANGED imgVars
    BY <1>7 DEF livox_pcl_cbk, standard_pcl_cbk, imu_cbk, imu_prop_callback, savePCD, imgIn,
       history, results, clocks
  <2> QED
    BY <1>0, <2>1
<1>8. CASE UNCHANGED vars
  BY <1>0, <1>8 DEF vars, imgIn, history, results, clocks
<1> QED
  BY <1>3, <1>4, <1>5, <1>6, <1>7, <1>8 DEF Next

-----------------------------------------------------------------------------
(* LivoMapper: every step keeps what an update leaves for the next *)

\* handleVIO when it does nothing, and when it passes the image on
LEMMA VioDoes ==
  ASSUME handleVIO
  PROVE  /\ pcl_w_wait_pub' = << >>
         /\ pcl_w_wait_pub = << >> => UNCHANGED <<latest_ekf, state_update_flg, visual, images, clouds>>
         /\ pcl_w_wait_pub # << >> =>
              /\ visual' = [image |-> Head(img_time_buffer),
                            img_time |-> last_lio_update_time' - _first_lidar_time,
                            state |-> _state, pv |-> _pv_list]
              /\ latest_ekf' = [state |-> _state, time |-> last_lio_update_time']
              /\ state_update_flg' = TRUE
<1>1. CASE pcl_w_wait_pub = << >>
  BY <1>1 DEF handleVIO, ekf, clouds
<1>2. CASE pcl_w_wait_pub # << >>
  BY <1>2 DEF handleVIO, processFrame, publish_frame_world
<1> QED
  BY <1>1, <1>2

\* So for handleLIO
LEMMA LioDoes ==
  ASSUME NEW feats, handleLIO(feats)
  PROVE  /\ UNCHANGED <<visual, images>>
         /\ \/ UNCHANGED <<ekf, clouds, results>>
            \/ /\ feats # << >>
               /\ latest_ekf' = [state |-> _state', time |-> last_lio_update_time']
               /\ state_update_flg' = TRUE /\ path' = Append(path, _state')
               /\ _pv_list' = transformLidar(feats)
               /\ ~settings.img_en => pcl_w_wait_pub' = pcl_w_wait_pub
<1>1. CASE feats = << >>
  BY <1>1 DEF handleLIO, results
<1>2. CASE feats # << >>
  BY <1>2 DEF handleLIO, UpdateEkf, publish_path, set_posestamp
<1> QED
  BY <1>1, <1>2

LEMMA UpdateInvUpdate ==
  ASSUME CutInv, UpdateInv, NEW samples, NEW pts, NEW end, UpdateBy(samples, pts, end)
  PROVE  UpdateInv'
<1>1. /\ settings.imu_en /\ Process2(samples, pts, end) /\ end \in Nat /\ end \in Int
      /\ lio_vio_flg' = "LIO" /\ is_first_frame' = TRUE /\ settings' = settings
      /\ samples \in Seq(Nat)
      /\ slam_mode_ = "LIVO" => lio_vio_flg # "LIO"
  BY DEF UpdateBy, handleFirstFrame, node, PoppedBy
<1>2. /\ init_iter_num \in Nat /\ updates \in Nat /\ (updates > 0 => ~imu_need_init)
      /\ settings \in Settings
  BY DEF CutInv, TypeRight
<1>3. slam_mode_' = slam_mode_
  BY <1>1 DEF slam_mode_
<1>4. CASE imu_need_init
  <2>1. UNCHANGED <<clouds, results, updates>>
    BY <1>1, <1>2, <1>4, InitDoes
  <2>2. updates = 0
    BY <1>2, <1>4
  <2> QED
    BY <1>1, <1>2, <1>3, <2>1, <2>2 DEF UpdateInv, clouds, results, poseMsgs
<1>5. CASE ~imu_need_init
  <2>1. /\ last_prop_end_time' = end /\ last_lio_update_time' = end /\ updates' = updates + 1
        /\ handleLIO(pts)
    BY <1>1, <1>5, UpdateDoes
  <2>2. updates' > 0
    BY <1>2, <2>1
  <2>3. visual' = visual
    BY <2>1, LioDoes
  <2>4. slam_mode_ # "LIVO" => pcl_w_wait_pub' = << >>
    <3>1. slam_mode_ # "LIVO" => ~settings.img_en /\ pcl_w_wait_pub = << >>
      BY <1>2, SettingsAre DEF slam_mode_, UpdateInv
    <3> QED
      BY <2>1, <3>1, LioDoes DEF clouds
  <2> QED
    BY <1>1, <1>3, <2>1, <2>2, <2>3, <2>4 DEF UpdateInv
<1> QED
  BY <1>4, <1>5

LEMMA UpdateInvNext == UpdateInv /\ ImuInv /\ CutInv /\ [Next]_vars => UpdateInv'
<1> SUFFICES ASSUME UpdateInv, ImuInv, CutInv, [Next]_vars PROVE UpdateInv'
  OBVIOUS
<1> DEFINE updateVars == <<settings, pcl_w_wait_pub, visual, lio_vio_flg, updates, is_first_frame,
                           path, last_lio_update_time, last_prop_end_time>>
<1>0. UNCHANGED updateVars => UpdateInv'
  BY DEF UpdateInv, slam_mode_
<1>1. CASE livox_pcl_cbk \/ standard_pcl_cbk \/ imu_cbk \/ img_cbk \/ imu_prop_callback \/ savePCD
  <2>1. UNCHANGED updateVars
    BY <1>1 DEF livox_pcl_cbk, standard_pcl_cbk, imu_cbk, img_cbk, imu_prop_callback, savePCD,
       clouds, history, results, firstFrame, poseMsgs, meas, imuProcess, node
  <2> QED
    BY <1>0, <2>1
<1>2. CASE UNCHANGED vars
  BY <1>0, <1>2 DEF vars, clouds, history, results, firstFrame, poseMsgs, meas, imuProcess, node
<1>3. CASE SyncLio \/ SyncOnlyLio
  BY <1>3, SyncLioIsUpdate, SyncOnlyLioIsUpdate, UpdateInvUpdate
<1>4. CASE ThrowImage
  <2>1. /\ UNCHANGED <<settings, pcl_w_wait_pub, visual, lio_vio_flg, updates, is_first_frame,
                       path, last_prop_end_time>>
        /\ last_lio_update_time' = LastUpdate
    BY <1>4 DEF ThrowImage, clouds, history, results, firstFrame, poseMsgs, imuProcess, node
  <2>2. last_lio_update_time \in Nat => last_lio_update_time' = last_lio_update_time
    BY <2>1 DEF LastUpdate
  <2>3. (settings.imu_en /\ updates > 0) =>
          last_lio_update_time' = last_prop_end_time /\ last_prop_end_time \in Nat
    BY <2>2 DEF UpdateInv
  <2> QED
    BY <2>1, <2>3 DEF UpdateInv, slam_mode_
<1>5. CASE SyncVio
  <2>1. /\ handleVIO /\ lio_vio_flg' = "VIO" /\ is_first_frame' = TRUE /\ slam_mode_ = "LIVO"
        /\ UNCHANGED <<settings, updates, path>>
        /\ imu_need_init => UNCHANGED <<last_lio_update_time, last_prop_end_time>>
        /\ ~imu_need_init => last_lio_update_time' = Image /\ last_prop_end_time' = Image
    BY <1>5 DEF SyncVio, handleFirstFrame, poseMsgs, node
  <2>2. pcl_w_wait_pub' = << >>
    BY <2>1, VioDoes
  <2>3. Image \in Nat
    <3>1. img_time_buffer # << >> /\ img_time_buffer \in Seq(Nat)
      BY <1>5, SettingsAre DEF SyncVio, HasData, slam_mode_, CutInv, TypeRight
    <3> QED
      BY <3>1, HeadTailProperties DEF Image
  <2>4. updates > 0 => ~imu_need_init
    BY DEF CutInv
  <2>5. slam_mode_' = "LIVO"
    BY <2>1 DEF slam_mode_
  <2> QED
    BY <2>1, <2>2, <2>3, <2>4, <2>5 DEF UpdateInv
<1>6. CASE SyncLo
  <2>1. ~settings.imu_en /\ ~settings.img_en /\ slam_mode_ # "LIVO"
    BY <1>6, SettingsAre DEF SyncLo, slam_mode_, CutInv, TypeRight
  <2>2. \E feats : handleLIO(feats)
    BY <1>6 DEF SyncLo
  <2>3. is_first_frame' = TRUE /\ settings' = settings
    BY <1>6 DEF SyncLo, handleFirstFrame, node
  <2>4. visual' = visual /\ pcl_w_wait_pub' = pcl_w_wait_pub
    BY <2>1, <2>2, LioDoes DEF clouds
  <2> QED
    BY <2>1, <2>3, <2>4 DEF UpdateInv, slam_mode_
<1> QED
  BY <1>1, <1>2, <1>3, <1>4, <1>5, <1>6 DEF Next

LEMMA FilterTypeNext == FilterType /\ ImuInv /\ UpdateInv /\ CutInv /\ [Next]_vars => FilterType'
<1> SUFFICES ASSUME FilterType, ImuInv, UpdateInv, CutInv, [Next]_vars PROVE FilterType'
  OBVIOUS
<1> DEFINE filterVars == <<_state, latest_ekf, imu_propagate, last_t_from_lidar_end_time,
                           time_last_scan>>
<1>0. UNCHANGED filterVars => FilterType'
  BY DEF FilterType
<1>1. CASE livox_pcl_cbk \/ standard_pcl_cbk \/ imu_cbk \/ img_cbk \/ ThrowImage \/ savePCD
  <2>1. UNCHANGED filterVars
    BY <1>1 DEF livox_pcl_cbk, standard_pcl_cbk, imu_cbk, img_cbk, ThrowImage, savePCD,
       filter, ekf, propagation, imuProcess
  <2> QED
    BY <1>0, <2>1
<1>2. CASE UNCHANGED vars
  BY <1>0, <1>2 DEF vars, filter, ekf, propagation, imuProcess
<1>3. CutInv' /\ last_lio_update_time' \in Int
  <2>1. CutInv'
    BY CutInvNext
  <2> QED
    BY <2>1 DEF CutInv, TypeRight
<1>4. CASE SyncLio \/ SyncOnlyLio
  <2>1. PICK samples, pts, end : UpdateBy(samples, pts, end)
    BY <1>4, SyncLioIsUpdate, SyncOnlyLioIsUpdate
  <2>2. /\ Process2(samples, pts, end) /\ end \in Int /\ samples \in Seq(Nat)
        /\ v_imu(samples) \in Seq(Nat) /\ v_imu(samples) # << >> /\ Ascending(v_imu(samples))
        /\ UNCHANGED <<imu_propagate, last_t_from_lidar_end_time>>
    BY <2>1 DEF UpdateBy, PoppedBy, propagation
  <2>3. init_iter_num \in Nat /\ last_prop_end_time \in Int
    BY DEF CutInv, TypeRight
  <2>4. time_last_scan' = time_last_scan
    BY <2>2 DEF Process2, IMU_init, UndistortPcl
  <2>5. CASE imu_need_init
    <3>1. latest_ekf' = latest_ekf /\ (_state' = _state \/ _state' = end)
      BY <2>2, <2>3, <2>5, InitDoes DEF ekf
    <3> QED
      BY <2>2, <2>4, <3>1 DEF FilterType
  <2>6. CASE ~imu_need_init
    <3>1. /\ _state' = _state + Elapsed(v_imu(samples), last_prop_end_time, end)
          /\ handleLIO(pts)
      BY <2>2, <2>6, UpdateDoes
    <3>2. _state' \in Int
      <4>1. Elapsed(v_imu(samples), last_prop_end_time, end) \in Int
        BY <2>2, <2>3, ElapsedIsInt
      <4> QED
        BY <3>1, <4>1 DEF FilterType
    <3>3. latest_ekf' \in [state : Int, time : Int]
      <4>1. \/ latest_ekf' = latest_ekf
            \/ latest_ekf' = [state |-> _state', time |-> last_lio_update_time']
        BY <3>1, LioDoes DEF ekf
      <4> QED
        BY <1>3, <3>2, <4>1 DEF FilterType
    <3> QED
      BY <2>2, <2>4, <3>2, <3>3 DEF FilterType
  <2> QED
    BY <2>5, <2>6
<1>5. CASE SyncVio
  <2>1. /\ handleVIO
        /\ UNCHANGED <<_state, imu_propagate, last_t_from_lidar_end_time, time_last_scan>>
    BY <1>5 DEF SyncVio, filter, propagation
  <2>2. latest_ekf' \in [state : Int, time : Int]
    <3>1. \/ latest_ekf' = latest_ekf
          \/ latest_ekf' = [state |-> _state, time |-> last_lio_update_time']
      BY <2>1, VioDoes
    <3> QED
      BY <1>3, <3>1 DEF FilterType
  <2> QED
    BY <2>1, <2>2 DEF FilterType
<1>6. CASE SyncLo
  <2> DEFINE sc == Head(lid_raw_data_buffer)
  <2>1. /\ Forward_without_imu(sc) /\ handleLIO(sc.points)
        /\ UNCHANGED <<imu_propagate, last_t_from_lidar_end_time>>
    BY <1>6 DEF SyncLo, propagation
  <2>2. sc.beg \in Nat
    BY <1>6, LastUpdateRight DEF SyncLo, HasData
  <2> HIDE DEF sc
  <2>3. _state' \in Int /\ time_last_scan' \in Int
    <3>1. ScanLen \in Nat
      BY ClockAssumption
    <3> QED
      BY <2>1, <2>2, <3>1 DEF Forward_without_imu, FilterType
  <2>4. latest_ekf' \in [state : Int, time : Int]
    <3>1. \/ latest_ekf' = latest_ekf
          \/ latest_ekf' = [state |-> _state', time |-> last_lio_update_time']
      BY <2>1, LioDoes DEF ekf
    <3> QED
      BY <1>3, <2>3, <3>1 DEF FilterType
  <2> QED
    BY <2>1, <2>3, <2>4 DEF FilterType
<1>7. CASE imu_prop_callback
  <2>1. UNCHANGED <<_state, time_last_scan, latest_ekf>>
    BY <1>7 DEF imu_prop_callback, filter, imuProcess, ekf
  <2>2. /\ latest_ekf.time \in Int /\ latest_ekf.state \in Int /\ newest_imu \in Nat
    BY DEF FilterType, ImuInv
  <2>3. CASE prop_imu_buffer = << >>
    BY <1>0, <1>7, <2>1, <2>3 DEF imu_prop_callback
  <2>4. CASE prop_imu_buffer # << >>
    <3> DEFINE last == IF state_update_flg
                         THEN IF Fresh = << >> THEN latest_ekf.time ELSE Last(Fresh)
                         ELSE newest_imu
               t == last - latest_ekf.time
    <3>1. /\ last_t_from_lidar_end_time' = t
          /\ imu_propagate' = IF state_update_flg THEN latest_ekf.state + t
                              ELSE imu_propagate + (t - last_t_from_lidar_end_time)
      BY <1>7, <2>4 DEF imu_prop_callback
    <3>2. last \in Int
      BY <2>2, FreshRight
    <3> HIDE DEF last
    <3> QED
      BY <2>1, <2>2, <3>1, <3>2 DEF FilterType
  <2> QED
    BY <2>3, <2>4
<1> QED
  BY <1>1, <1>2, <1>4, <1>5, <1>6, <1>7 DEF Next

-----------------------------------------------------------------------------
(* LivoMapper: every step keeps the states at their times *)

\* With two samples or more the update takes the filter to its end.
LEMMA StateInvUpdate ==
  ASSUME CutInv, ImuInv, StateInv, NEW samples, NEW pts, NEW end, UpdateBy(samples, pts, end),
         ~starved'
  PROVE  StateInv'
<1> DEFINE v == v_imu(samples)
<1>1. /\ Process2(samples, pts, end) /\ end \in Nat /\ end \in Int /\ end <= newest_imu
      /\ PoppedBy(samples, imu_buffer', end) /\ samples \in Seq(Nat)
      /\ v \in Seq(Nat) /\ v # << >> /\ Ascending(v) /\ v[1] = last_imu
      /\ samples # << >> => Last(v) = Last(samples) /\ Last(samples) <= end
      /\ newest_imu' = newest_imu /\ imu_propagate' = imu_propagate
      /\ last_t_from_lidar_end_time' = last_t_from_lidar_end_time /\ odom' = odom
  BY DEF UpdateBy, PoppedBy, propagation
<1>2. init_iter_num \in Nat /\ last_prop_end_time \in Int
  BY DEF CutInv, TypeRight
<1>3. CASE imu_need_init
  <2>1. /\ UNCHANGED ekf
        /\ samples = << >> => imu_need_init' = imu_need_init
        /\ samples # << >> => last_imu' = Last(samples)
        /\ (samples # << >> /\ ~imu_need_init') => last_prop_end_time' = end /\ _state' = end
    BY <1>1, <1>2, <1>3, InitDoes
  <2>2. ~imu_need_init' => /\ _state' = last_prop_end_time' /\ last_imu' <= last_prop_end_time'
                           /\ last_prop_end_time' <= newest_imu'
    BY <1>1, <1>3, <2>1
  <2> QED
    BY <1>1, <2>1, <2>2 DEF StateInv, ekf
<1>4. CASE ~imu_need_init
  <2>1. /\ _state' = _state + Elapsed(v, last_prop_end_time, end)
        /\ last_imu' = Last(v) /\ last_prop_end_time' = end /\ last_lio_update_time' = end
        /\ starved' = (starved \/ Len(Steps(v, last_prop_end_time)) < 2)
        /\ handleLIO(pts)
    BY <1>1, <1>4, UpdateDoes
  <2>2. last_imu <= last_prop_end_time /\ _state = last_prop_end_time
    BY <1>4 DEF StateInv
  <2> DEFINE n == Len(Steps(v, last_prop_end_time))
  <2>3. n \in Nat /\ n >= 2
    <3>1. n \in Nat
      BY <1>1, <1>2, ElapsedIsInt
    <3>2. ~(n < 2)
      BY <2>1
    <3> QED
      BY <3>1, <3>2
  <2>4. Elapsed(v, last_prop_end_time, end) = end - last_prop_end_time
    BY <1>1, <1>2, <2>2, <2>3, ElapsedRight
  <2>5. _state' = end
    BY <1>1, <1>2, <2>1, <2>2, <2>4
  <2>6. samples # << >>
    <3> SUFFICES ASSUME samples = << >> PROVE FALSE
      OBVIOUS
    <3>1. PICK a \in 0 .. Len(v) - 1 : Stretch(Steps(v, last_prop_end_time), a, Len(v) - 1)
      BY <1>1, <1>2, StepsRight
    <3>2. Len(v) = 1
      <4> DEFINE o == <<last_imu>>
      <4>1. v = o \o << >> /\ o \in Seq({last_imu}) /\ Len(o) = 1
        BY DEF v_imu
      <4> HIDE DEF o, v
      <4>2. o \o << >> = o
        BY <4>1, ConcatEmptySeq
      <4> QED
        BY <4>1, <4>2
    <3> HIDE DEF v
    <3> QED
      BY <2>3, <3>1, <3>2 DEF Stretch
  <2>7. last_imu' <= end
    BY <1>1, <2>1, <2>6
  <2>8. /\ latest_ekf'.state = latest_ekf'.time /\ latest_ekf'.time <= newest_imu
        /\ ~state_update_flg' =>
             imu_propagate = latest_ekf'.time + last_t_from_lidar_end_time
    <3>1. CASE UNCHANGED ekf
      BY <3>1 DEF ekf, StateInv
    <3>2. CASE latest_ekf' = [state |-> _state', time |-> last_lio_update_time']
               /\ state_update_flg' = TRUE
      BY <1>1, <2>1, <2>5, <3>2
    <3> QED
      BY <2>1, <3>1, <3>2, LioDoes
  <2> HIDE DEF n, v
  <2> QED
    BY <1>1, <2>1, <2>5, <2>7, <2>8 DEF StateInv
<1> QED
  BY <1>3, <1>4

\* Nothing has been published while the IMU is being initialised.
LEMMA NothingYet ==
  ASSUME CutInv, UpdateInv, settings.imu_en, imu_need_init
  PROVE  /\ updates = 0 /\ path = << >> /\ pcl_w_wait_pub = << >>
<1>1. updates \in Nat /\ (updates > 0 => ~imu_need_init)
  BY DEF CutInv, TypeRight
<1> QED
  BY <1>1 DEF UpdateInv

\* The pose is appended to the path.
LEMMA PathInvUpdate ==
  ASSUME CutInv, UpdateInv, PathInv, StateInv', NEW samples, NEW pts, NEW end,
         UpdateBy(samples, pts, end)
  PROVE  PathInv'
<1> DEFINE b == lid_raw_data_buffer
<1>1. /\ Process2(samples, pts, end) /\ end \in Nat /\ end \in Int /\ settings.imu_en
      /\ samples \in Seq(Nat) /\ b # << >>
      /\ settings' = settings /\ lidarClock' = lidarClock
      /\ slam_mode_ = "LIVO" => LastUpdate < end
      /\ slam_mode_ = "ONLY_LIO" =>
           b' = Tail(b) /\ end = Head(b).beg + Last(Head(b).points).curvature
  BY DEF UpdateBy, PoppedBy, node, clocks
<1>2. slam_mode_' = slam_mode_
  BY <1>1 DEF slam_mode_
<1>3. init_iter_num \in Nat /\ lidarClock \in Nat /\ Buffered(b, lidarClock)
  BY DEF CutInv, TypeRight
<1>4. CASE imu_need_init
  <2>1. path' = << >>
    BY <1>1, <1>3, <1>4, InitDoes, NothingYet DEF results, poseMsgs
  <2> QED
    BY <2>1, EmptySeq DEF PathInv, Ascending, AllUpTo
<1>5. CASE ~imu_need_init
  <2>1. last_prop_end_time' = end /\ handleLIO(pts) /\ ~imu_need_init'
    BY <1>1, <1>5, UpdateDoes
  <2>2. _state' = end
    BY <2>1 DEF StateInv
  <2>3. path' = path \/ path' = Append(path, end)
    BY <2>1, <2>2, LioDoes DEF results, poseMsgs
  <2>4. path \in Seq(Nat) /\ Ascending(path)
    BY DEF PathInv
  <2>5. CASE slam_mode_ = "LIVO"
    <3>1. \A m \in DOMAIN path : path[m] < end
      <4> SUFFICES ASSUME NEW m \in DOMAIN path PROVE path[m] < end
        OBVIOUS
      <4>1. path # << >> /\ path[m] \in Nat
        BY <2>4
      <4>2. last_lio_update_time = last_prop_end_time /\ last_prop_end_time \in Nat
        BY <1>1, <4>1 DEF UpdateInv
      <4>3. LastUpdate = last_prop_end_time
        BY <4>2 DEF LastUpdate
      <4>4. path[m] <= last_prop_end_time
        BY <2>5 DEF PathInv, AllUpTo
      <4> QED
        BY <1>1, <2>5, <4>1, <4>2, <4>3, <4>4
    <3>2. AllUpTo(path, end - 1) /\ end - 1 \in Int /\ end - 1 < end
      BY <1>1, <2>4, <3>1 DEF AllUpTo
    <3>3. /\ Append(path, end) \in Seq(Nat) /\ Ascending(Append(path, end))
          /\ AllUpTo(Append(path, end), end)
      BY <1>1, <2>4, <3>2, AscendingAppend
    <3>4. AllUpTo(path, end)
      BY <1>1, <2>4, <3>1 DEF AllUpTo
    <3>5. path' \in Seq(Nat) /\ Ascending(path)' /\ AllUpTo(path', end)
      BY <2>3, <2>4, <3>3, <3>4
    <3>6. AllUpTo(path, last_prop_end_time)'
      BY <2>1, <3>5
    <3> QED
      BY <1>2, <2>5, <3>5, <3>6 DEF PathInv
  <2>6. CASE slam_mode_ = "ONLY_LIO"
    <3> DEFINE l == Len(b)
               h == b[1]
    <3>1. /\ b \in Seq(Scan) /\ l \in Nat \ {0} /\ Head(b) = h /\ h.beg \in Nat /\ 1 \in 1 .. l
          /\ DOMAIN b = 1 .. l
      BY <1>1, LastUpdateRight
    <3>2. /\ h.beg <= end /\ end < h.beg + ScanLen /\ ScanLen \in Nat
      <4>1. Last(h.points).curvature \in 0 .. ScanLen - 1
        BY <1>1, <3>1, ScanEnd
      <4>2. ScanLen \in Nat
        BY ClockAssumption
      <4> QED
        BY <1>1, <2>6, <3>1, <4>1, <4>2
    <3>3. /\ h.beg + ScanLen <= lidarClock
          /\ \A k \in 2 .. l : h.beg + ScanLen <= b[k].beg
      BY <1>3, <3>1 DEF Buffered
    <3>4. \A k \in 1 .. l : b[k].beg \in Nat
      <4>1. \A k \in 1 .. l : b[k] \in Scan
        BY <3>1
      <4> HIDE DEF l, b
      <4> QED
        BY <4>1 DEF Scan
    <3>5. \A m \in DOMAIN path : path[m] < end
      <4> SUFFICES ASSUME NEW m \in DOMAIN path PROVE path[m] < end
        OBVIOUS
      <4>1. path[m] \in Nat /\ path[m] < h.beg
        BY <2>4, <2>6, <3>1 DEF PathInv
      <4> QED
        BY <1>1, <3>1, <3>2, <4>1
    <3>6. /\ Len(Tail(b)) = l - 1
          /\ \A k \in 1 .. l - 1 : Tail(b)[k] = b[k + 1] /\ k + 1 \in 2 .. l
      <4>1. /\ Tail(b) \in Seq(Scan) /\ Len(Tail(b)) = l - 1
            /\ \A k \in 1 .. Len(Tail(b)) : Tail(b)[k] = b[k + 1]
        BY <1>1, <3>1, HeadTailProperties
      <4> QED
        BY <3>1, <4>1
    <3>7. /\ end < lidarClock
          /\ \A k \in DOMAIN Tail(b) : end < Tail(b)[k].beg /\ Tail(b)[k].beg \in Nat
      <4>1. end < lidarClock
        BY <1>1, <1>3, <3>1, <3>2, <3>3
      <4>2. \A k \in DOMAIN Tail(b) : end < Tail(b)[k].beg /\ Tail(b)[k].beg \in Nat
        <5> SUFFICES ASSUME NEW k \in DOMAIN Tail(b)
                     PROVE  end < Tail(b)[k].beg /\ Tail(b)[k].beg \in Nat
          OBVIOUS
        <5>1. k \in 1 .. l - 1
          <6>1. Tail(b) \in Seq(Scan)
            BY <1>1, <3>1, HeadTailProperties
          <6> QED
            BY <3>6, <6>1
        <5>2. Tail(b)[k] = b[k + 1] /\ k + 1 \in 2 .. l /\ k + 1 \in 1 .. l
          BY <3>1, <3>6, <5>1
        <5> QED
          BY <1>1, <3>1, <3>2, <3>3, <3>4, <5>2
      <4> QED
        BY <4>1, <4>2
    <3>8. AllUpTo(path, end - 1) /\ end - 1 \in Int /\ end - 1 < end
      BY <1>1, <2>4, <3>5 DEF AllUpTo
    <3>9. /\ Append(path, end) \in Seq(Nat) /\ Ascending(Append(path, end))
          /\ AllUpTo(Append(path, end), end)
      BY <1>1, <2>4, <3>8, AscendingAppend
    <3>10. AllUpTo(path, end)
      BY <1>1, <2>4, <3>5 DEF AllUpTo
    <3>11. path' \in Seq(Nat) /\ Ascending(path)' /\ AllUpTo(path', end)
      BY <2>3, <2>4, <3>9, <3>10
    <3>12. \A m \in DOMAIN path' : /\ path'[m] < lidarClock
                                   /\ \A n \in DOMAIN Tail(b) : path'[m] < Tail(b)[n].beg
      <4> SUFFICES ASSUME NEW m \in DOMAIN path'
                   PROVE  /\ path'[m] < lidarClock
                          /\ \A n \in DOMAIN Tail(b) : path'[m] < Tail(b)[n].beg
        OBVIOUS
      <4>1. path'[m] \in Nat /\ path'[m] <= end
        BY <3>11 DEF AllUpTo
      <4> QED
        BY <1>1, <1>3, <3>7, <4>1
    <3>13. b' = Tail(b)
      BY <1>1, <2>6
    <3> HIDE DEF b
    <3>14. \A m \in DOMAIN path' : /\ path'[m] < lidarClock'
                                   /\ \A n \in DOMAIN b' : path'[m] < b'[n].beg
      BY <1>1, <3>12, <3>13
    <3> QED
      BY <1>2, <2>6, <3>11, <3>14 DEF PathInv, b
  <2> QED
    <3>1. slam_mode_ \in {"LIVO", "ONLY_LIO"}
      BY <1>1 DEF slam_mode_
    <3> QED
      BY <2>5, <2>6, <3>1
<1> QED
  BY <1>4, <1>5

\* The points of the update get its state.
LEMMA FrameInvUpdate ==
  ASSUME CutInv, UpdateInv, FrameInv, StateInv', NEW samples, NEW pts, NEW end,
         UpdateBy(samples, pts, end)
  PROVE  FrameInv'
<1>1. /\ Process2(samples, pts, end) /\ end \in Int /\ settings.imu_en
      /\ samples \in Seq(Nat) /\ pts \in Seq(Pt)
      /\ handleFirstFrame(LastUpdate)
      /\ slam_mode_ = "LIVO" => lio_vio_flg # "LIO"
  BY DEF UpdateBy, PoppedBy
<1>2. init_iter_num \in Nat
  BY DEF CutInv, TypeRight
<1>3. visual # NoFrame => _first_lidar_time' = _first_lidar_time
  BY <1>1 DEF handleFirstFrame, UpdateInv
<1>4. pcl_w_wait_pub = << >>
  BY <1>1 DEF UpdateInv
<1>5. CASE UNCHANGED <<clouds, visual, _pv_list>>
  BY <1>3, <1>4, <1>5 DEF FrameInv, clouds
<1>6. CASE imu_need_init
  BY <1>1, <1>2, <1>5, <1>6, InitDoes DEF results
<1>7. CASE ~imu_need_init
  <2>1. handleLIO(pts) /\ ~imu_need_init' /\ last_prop_end_time' = _state'
    BY <1>1, <1>7, UpdateDoes DEF StateInv
  <2>2. CASE UNCHANGED <<ekf, clouds, results>>
    BY <1>5, <2>2 DEF results
  <2>3. CASE visual' = visual /\ _pv_list' = transformLidar(pts)
    <3>1. _pv_list' = [n \in 1 .. Len(pts) |-> [time |-> pts[n].time, at |-> _state']]
      BY <2>3, Zenon DEF transformLidar
    <3>2. \A n \in DOMAIN _pv_list' : _pv_list'[n].at = last_prop_end_time'
      BY <2>1, <3>1
    <3> QED
      BY <1>3, <2>3, <3>2 DEF FrameInv
  <2> QED
    BY <2>1, <2>2, <2>3, LioDoes
<1> QED
  BY <1>6, <1>7


\* The VIO update of the image that the filter is at
LEMMA TimesVio ==
  ASSUME CutInv, ImuInv, UpdateInv, FilterType, StateInv, PathInv, FrameInv, SyncVio
  PROVE  StateInv' /\ PathInv' /\ FrameInv'
<1>1. /\ slam_mode_ = "LIVO" /\ lio_vio_flg = "LIO" /\ handleVIO
      /\ handleFirstFrame(last_lio_update_time)
      /\ imu_need_init => UNCHANGED <<last_lio_update_time, last_prop_end_time>>
      /\ ~imu_need_init => last_lio_update_time' = Image /\ last_prop_end_time' = Image
      /\ UNCHANGED <<lidarClock, lid_raw_data_buffer, imu_need_init, last_imu, _state,
                     imu_propagate, last_t_from_lidar_end_time, newest_imu, odom, path,
                     _pv_list, settings>>
  BY DEF SyncVio, HasData, clocks, lidarIn, filter, propagation, poseMsgs, node
<1>2. settings.imu_en
  BY <1>1, SettingsAre DEF slam_mode_, CutInv, TypeRight
<1>3. ~imu_need_init => Image = last_prop_end_time
  BY <1>1 DEF CutInv, Image
<1>4. last_prop_end_time' = last_prop_end_time
  BY <1>1, <1>3
<1>5. is_first_frame /\ _first_lidar_time' = _first_lidar_time
  BY <1>1 DEF handleFirstFrame, UpdateInv
<1>6. pcl_w_wait_pub # << >> => ~imu_need_init
  BY <1>2, NothingYet
<1>7. StateInv'
  <2>1. CASE pcl_w_wait_pub = << >>
    BY <1>1, <1>4, <2>1, VioDoes DEF StateInv
  <2>2. CASE pcl_w_wait_pub # << >>
    <3>1. /\ latest_ekf' = [state |-> last_prop_end_time, time |-> last_prop_end_time]
          /\ state_update_flg' = TRUE /\ last_prop_end_time <= newest_imu
      BY <1>1, <1>3, <1>6, <2>2, VioDoes DEF StateInv
    <3> QED
      BY <1>1, <1>4, <3>1 DEF StateInv
  <2> QED
    BY <2>1, <2>2
<1>8. PathInv'
  <2>1. slam_mode_' = slam_mode_
    BY <1>1 DEF slam_mode_
  <2> QED
    BY <1>1, <1>4, <2>1 DEF PathInv
<1>9. FrameInv'
  <2>1. CASE pcl_w_wait_pub = << >>
    BY <1>1, <1>5, <2>1, VioDoes DEF FrameInv
  <2>2. CASE pcl_w_wait_pub # << >>
    <3>1. /\ visual' = [image |-> last_prop_end_time,
                        img_time |-> last_prop_end_time - _first_lidar_time,
                        state |-> last_prop_end_time, pv |-> _pv_list]
      BY <1>1, <1>3, <1>6, <2>2, VioDoes DEF StateInv, Image
    <3>2. \A n \in DOMAIN _pv_list : _pv_list[n].at = last_prop_end_time
      BY <2>2 DEF FrameInv
    <3>3. pcl_w_wait_pub' = << >>
      BY <1>1, VioDoes
    <3> QED
      BY <1>5, <3>1, <3>2, <3>3 DEF FrameInv
  <2> QED
    BY <2>1, <2>2
<1> QED
  BY <1>7, <1>8, <1>9

\* The propagation between the updates ends at the newest sample.
LEMMA StateInvPropagate ==
  ASSUME ImuInv, FilterType, StateInv, imu_prop_callback
  PROVE  StateInv'
<1>1. /\ UNCHANGED <<_state, last_prop_end_time, last_imu, newest_imu, latest_ekf, imu_need_init>>
  BY DEF imu_prop_callback, filter, imuProcess, ekf
<1>2. CASE prop_imu_buffer = << >>
  BY <1>1, <1>2 DEF imu_prop_callback, StateInv, ekf
<1>3. CASE prop_imu_buffer # << >>
  <2> DEFINE last == IF state_update_flg
                       THEN IF Fresh = << >> THEN latest_ekf.time ELSE Last(Fresh)
                       ELSE newest_imu
             t == last - latest_ekf.time
  <2>1. /\ last_t_from_lidar_end_time' = t /\ state_update_flg' = FALSE
        /\ imu_propagate' = IF state_update_flg THEN latest_ekf.state + t
                            ELSE imu_propagate + (t - last_t_from_lidar_end_time)
        /\ odom' = [stamp |-> newest_imu, state |-> imu_propagate']
    BY <1>3 DEF imu_prop_callback
  <2>2. /\ latest_ekf.time \in Int /\ latest_ekf.state \in Int /\ imu_propagate \in Int
        /\ last_t_from_lidar_end_time \in Int /\ newest_imu \in Int
        /\ latest_ekf.state = latest_ekf.time /\ latest_ekf.time <= newest_imu
        /\ ~state_update_flg => imu_propagate = latest_ekf.time + last_t_from_lidar_end_time
    BY DEF FilterType, ImuInv, StateInv
  <2>3. last = newest_imu
    BY <1>3, <2>2, FreshRight
  <2> HIDE DEF last
  <2>4. imu_propagate' = latest_ekf.time + t /\ imu_propagate' = newest_imu
    <3>1. CASE state_update_flg
      BY <2>1, <2>2, <2>3, <3>1
    <3>2. CASE ~state_update_flg
      BY <2>1, <2>2, <2>3, <3>2
    <3> QED
      BY <3>1, <3>2
  <2> HIDE DEF t
  <2> QED
    BY <1>1, <2>1, <2>4 DEF StateInv
<1> QED
  BY <1>2, <1>3

\* A scan begins after those before it.
LEMMA PathInvLidar ==
  ASSUME CutInv, PathInv, livox_pcl_cbk \/ standard_pcl_cbk
  PROVE  PathInv'
<1> DEFINE b == lid_raw_data_buffer
<1>1. PICK cloud \in Clouds :
        /\ lidarClock' = lidarClock + ScanLen
        /\ IF cloud = << >> THEN UNCHANGED <<lidarIn, received>> ELSE PushScan(cloud)
  BY DEF livox_pcl_cbk, standard_pcl_cbk
<1>2. UNCHANGED <<path, last_prop_end_time, settings>>
  BY DEF livox_pcl_cbk, standard_pcl_cbk, history, results, poseMsgs, imuProcess, node
<1>3. slam_mode_' = slam_mode_
  BY <1>2 DEF slam_mode_
<1>4. lidarClock \in Nat /\ ScanLen \in Nat \ {0} /\ b \in Seq(Scan)
  BY ClockAssumption DEF CutInv, TypeRight, Buffered
<1>5. path \in Seq(Nat)
  BY DEF PathInv
<1>6. ASSUME slam_mode_ = "ONLY_LIO"
      PROVE  \A m \in DOMAIN path : /\ path[m] < lidarClock'
                                    /\ \A n \in DOMAIN b' : path[m] < b'[n].beg
  <2> SUFFICES ASSUME NEW m \in DOMAIN path
               PROVE  /\ path[m] < lidarClock'
                      /\ \A n \in DOMAIN b' : path[m] < b'[n].beg
    OBVIOUS
  <2>1. path[m] \in Nat /\ path[m] < lidarClock /\ \A n \in DOMAIN b : path[m] < b[n].beg
    BY <1>5, <1>6 DEF PathInv
  <2>2. path[m] < lidarClock'
    BY <1>1, <1>4, <2>1
  <2>3. CASE b' = b
    BY <2>1, <2>2, <2>3
  <2>4. CASE b' = Append(b, ScanOf(cloud))
    <3>1. ScanOf(cloud).beg = lidarClock
      BY DEF ScanOf
    <3> DEFINE s == ScanOf(cloud)
    <3> HIDE DEF s, b
    <3>2. \A n \in DOMAIN Append(b, s) : \/ n \in DOMAIN b /\ Append(b, s)[n] = b[n]
                                         \/ Append(b, s)[n] = s
      <4>1. DOMAIN Append(b, s) = 1 .. Len(b) + 1 /\ DOMAIN b = 1 .. Len(b) /\ Len(b) \in Nat
        BY <1>4
      <4>2. \A n \in 1 .. Len(b) + 1 : Append(b, s)[n] = IF n = Len(b) + 1 THEN s ELSE b[n]
        BY <1>4
      <4> QED
        BY <4>1, <4>2
    <3> QED
      BY <2>1, <2>2, <2>4, <3>1, <3>2 DEF s
  <2> QED
    BY <1>1, <2>3, <2>4 DEF PushScan, lidarIn
<1> QED
  BY <1>2, <1>3, <1>6 DEF PathInv

StatesInv == StateInv /\ PathInv /\ FrameInv

LEMMA StatesInvNext ==
  ASSUME CutInv, ImuInv, UpdateInv, FilterType, StatesInv, [Next]_vars, settings.imu_en, ~starved'
  PROVE  StatesInv'
<1> DEFINE stateVars == <<imu_need_init, _state, last_prop_end_time, last_imu, latest_ekf,
                          state_update_flg, imu_propagate, last_t_from_lidar_end_time, odom>>
           pathVars == <<path, settings, last_prop_end_time, lidarClock, lid_raw_data_buffer>>
           frameVars == <<pcl_w_wait_pub, _pv_list, last_prop_end_time, visual,
                          _first_lidar_time>>
<1>1. UNCHANGED <<stateVars, newest_imu>> => StateInv'
  BY DEF StateInv, StatesInv
<1>2. UNCHANGED pathVars => PathInv'
  BY DEF PathInv, StatesInv, slam_mode_
<1>3. UNCHANGED frameVars => FrameInv'
  BY DEF FrameInv, StatesInv
<1>4. CASE img_cbk \/ ThrowImage \/ savePCD \/ UNCHANGED vars
  <2>1. UNCHANGED <<stateVars, newest_imu>>
    BY <1>4 DEF img_cbk, ThrowImage, savePCD, vars, imuProcess, filter, ekf, propagation
  <2>2. UNCHANGED pathVars /\ UNCHANGED frameVars
    BY <1>4 DEF img_cbk, ThrowImage, savePCD, vars, imuProcess, lidarIn, clocks, node, history,
       results, poseMsgs, firstFrame, clouds
  <2> QED
    BY <1>1, <1>2, <1>3, <2>1, <2>2 DEF StatesInv
<1>5. CASE livox_pcl_cbk \/ standard_pcl_cbk
  <2>1. UNCHANGED <<stateVars, newest_imu>> /\ UNCHANGED frameVars
    BY <1>5 DEF livox_pcl_cbk, standard_pcl_cbk, imuProcess, filter, ekf, propagation, history,
       results, firstFrame, clouds
  <2> QED
    BY <1>1, <1>3, <1>5, <2>1, PathInvLidar DEF StatesInv
<1>6. CASE imu_cbk
  <2>1. UNCHANGED stateVars /\ UNCHANGED pathVars /\ UNCHANGED frameVars
    BY <1>6 DEF imu_cbk, imuProcess, filter, ekf, lidarIn, node, history, results, poseMsgs,
       firstFrame, clouds
  <2>2. newest_imu' \in Nat /\ newest_imu <= newest_imu' /\ newest_imu \in Nat
    <3>1. \E t \in imuClock + 1 .. imuClock + ImuStep : newest_imu' = newest_imu \/ newest_imu' = t
      BY <1>6 DEF imu_cbk
    <3>2. imuClock \in Nat /\ newest_imu \in Nat /\ newest_imu <= imuClock /\ ImuStep \in Nat
      BY ClockAssumption DEF ImuInv
    <3> QED
      BY <3>1, <3>2
  <2>3. last_prop_end_time \in Int /\ latest_ekf.time \in Int
    BY DEF CutInv, TypeRight, FilterType
  <2>4. StateInv'
    BY <2>1, <2>2, <2>3 DEF StateInv, StatesInv
  <2> QED
    BY <1>2, <1>3, <2>1, <2>4 DEF StatesInv
<1>7. CASE imu_prop_callback
  <2>1. UNCHANGED pathVars /\ UNCHANGED frameVars
    BY <1>7 DEF imu_prop_callback, lidarIn, node, history, results, poseMsgs, firstFrame, clouds,
       clocks, imuProcess
  <2> QED
    BY <1>2, <1>3, <1>7, <2>1, StateInvPropagate DEF StatesInv
<1>8. CASE SyncLio \/ SyncOnlyLio
  <2>1. PICK samples, pts, end : UpdateBy(samples, pts, end)
    BY <1>8, SyncLioIsUpdate, SyncOnlyLioIsUpdate
  <2>2. StateInv'
    BY <2>1, StateInvUpdate DEF StatesInv
  <2> QED
    BY <2>1, <2>2, PathInvUpdate, FrameInvUpdate DEF StatesInv
<1>9. CASE SyncVio
  BY <1>9, TimesVio DEF StatesInv
<1>10. CASE SyncLo
  BY <1>10, SettingsAre DEF SyncLo, slam_mode_, CutInv, TypeRight
<1> QED
  BY <1>4, <1>5, <1>6, <1>7, <1>8, <1>9, <1>10 DEF Next

\* The settings stay, and so does a filter that once had too few samples.
LEMMA StaysStarved == CutInv /\ ImuInv /\ [Next]_vars => settings' = settings /\ (starved => starved')
<1> SUFFICES ASSUME CutInv, ImuInv, [Next]_vars PROVE settings' = settings /\ (starved => starved')
  OBVIOUS
<1>1. CASE SyncLio \/ SyncOnlyLio
  <2>1. PICK samples, pts, end : UpdateBy(samples, pts, end)
    BY <1>1, SyncLioIsUpdate, SyncOnlyLioIsUpdate
  <2>2. settings' = settings /\ Process2(samples, pts, end) /\ end \in Int /\ samples \in Seq(Nat)
    BY <2>1 DEF UpdateBy, PoppedBy, node
  <2>3. init_iter_num \in Nat
    BY DEF CutInv, TypeRight
  <2>4. CASE imu_need_init
    BY <2>2, <2>3, <2>4, InitDoes
  <2>5. CASE ~imu_need_init
    BY <2>2, <2>5, UpdateDoes
  <2> QED
    BY <2>4, <2>5
<1>2. CASE livox_pcl_cbk \/ standard_pcl_cbk \/ imu_cbk \/ img_cbk \/ imu_prop_callback
           \/ ThrowImage \/ SyncVio \/ SyncLo \/ savePCD \/ UNCHANGED vars
  <2>1. UNCHANGED <<settings, starved>>
    BY <1>2 DEF livox_pcl_cbk, standard_pcl_cbk, imu_cbk, img_cbk, imu_prop_callback,
       ThrowImage, SyncVio, SyncLo, savePCD, vars, node, history
  <2> QED
    BY <2>1
<1> QED
  BY <1>1, <1>2 DEF Next

LEMMA TimeInvNext == TimeInv /\ [Next]_vars => TimeInv'
<1> SUFFICES ASSUME TimeInv, [Next]_vars PROVE TimeInv'
  OBVIOUS
<1>1. CutInv /\ ImuInv /\ ImgInv /\ UpdateInv /\ FilterType
      /\ ((settings.imu_en /\ ~starved) => StatesInv)
  BY DEF TimeInv, StatesInv
<1>2. CutInv' /\ ImuInv' /\ ImgInv' /\ UpdateInv' /\ FilterType'
  BY <1>1, CutInvNext, ImuInvNext, ImgInvNext, UpdateInvNext, FilterTypeNext
<1>3. settings' = settings /\ (starved => starved')
  BY <1>1, StaysStarved
<1>4. (settings'.imu_en /\ ~starved') => StatesInv'
  BY <1>1, <1>3, StatesInvNext
<1> QED
  BY <1>2, <1>4 DEF TimeInv, StatesInv

LEMMA TimeInvHolds == Spec => []TimeInv
BY TimeInvInit, TimeInvNext, PTL DEF Spec

\* Every state is published for its own time, however samples, images, updates and
\* the timer interleave: as long as each update has two samples, the filter is where
\* the last update ended, the odometry between the updates where its stamp is, and a
\* VIO update gets the state, the points and the time of its image.
THEOREM StatesHaveTheirTimes == Spec => []StatesAtTheirTimes
<1>1. TimeInv => StatesAtTheirTimes
  <2> SUFFICES ASSUME TimeInv, settings.imu_en, ~starved
               PROVE  /\ \A m, n \in DOMAIN path : m < n => path[m] < path[n]
                      /\ odom.state = odom.stamp
                      /\ ~imu_need_init => _state = last_prop_end_time
                      /\ \A m, n \in DOMAIN images : m < n => images[m] < images[n]
                      /\ visual # NoFrame =>
                           /\ visual.state = visual.image
                           /\ \A p \in Range(visual.pv) : p.at = visual.image
                           /\ visual.img_time = visual.image - _first_lidar_time
    BY DEF StatesAtTheirTimes
  <2>1. StateInv /\ PathInv /\ FrameInv /\ ImgInv
    BY DEF TimeInv
  <2>2. \A p \in Range(visual.pv) : \E n \in DOMAIN visual.pv : p = visual.pv[n]
    BY DEF Range
  <2> QED
    BY <2>1, <2>2 DEF StateInv, PathInv, FrameInv, ImgInv, Ascending
<1> QED
  BY <1>1, TimeInvHolds, PTL

-----------------------------------------------------------------------------
(* Sequences of points placed in the world *)

Rising(s) == \A m, n \in DOMAIN s : m < n => s[m].time < s[n].time
Under(s, t) == \A m \in DOMAIN s, n \in DOMAIN t : s[m].time < t[n].time
Among(s, u) == \A m \in DOMAIN s : \E n \in DOMAIN u : s[m].time = u[n].time
Within(s, u) == \A m \in DOMAIN s : \E n \in DOMAIN u : s[m] = u[n]

PartsOf(c, a, b) ==
  /\ c \in Seq(Used) /\ Len(c) = Len(a) + Len(b) /\ Len(a) \in Nat
  /\ \A k \in DOMAIN c : \/ k \in DOMAIN a /\ c[k] = a[k]
                         \/ /\ k - Len(a) \in DOMAIN b /\ c[k] = b[k - Len(a)] /\ Len(a) < k
  /\ \A k \in DOMAIN a : k \in DOMAIN c /\ c[k] = a[k] /\ k \in Nat /\ k <= Len(a)
  /\ \A k \in DOMAIN b : k + Len(a) \in DOMAIN c /\ c[k + Len(a)] = b[k] /\ k \in Nat /\ 1 <= k

LEMMA PartsRight ==
  ASSUME NEW a \in Seq(Used), NEW b \in Seq(Used)
  PROVE  PartsOf(a \o b, a, b)
<1> DEFINE c == a \o b
<1>1. /\ c \in Seq(Used) /\ Len(c) = Len(a) + Len(b) /\ Len(a) \in Nat /\ Len(b) \in Nat
      /\ \A k \in 1 .. Len(a) + Len(b) : c[k] = IF k <= Len(a) THEN a[k] ELSE b[k - Len(a)]
  BY ConcatProperties
<1>2. DOMAIN c = 1 .. Len(a) + Len(b) /\ DOMAIN a = 1 .. Len(a) /\ DOMAIN b = 1 .. Len(b)
  BY <1>1
<1> HIDE DEF c
<1>3. ASSUME NEW k \in DOMAIN c
      PROVE  \/ k \in DOMAIN a /\ c[k] = a[k]
             \/ /\ k - Len(a) \in DOMAIN b /\ c[k] = b[k - Len(a)] /\ Len(a) < k
  BY <1>1, <1>2
<1>4. ASSUME NEW k \in DOMAIN a
      PROVE  k \in DOMAIN c /\ c[k] = a[k] /\ k \in Nat /\ k <= Len(a)
  BY <1>1, <1>2
<1>5. ASSUME NEW k \in DOMAIN b
      PROVE  k + Len(a) \in DOMAIN c /\ c[k + Len(a)] = b[k] /\ k \in Nat /\ 1 <= k
  <2>1. k + Len(a) \in 1 .. Len(a) + Len(b) /\ ~(k + Len(a) <= Len(a)) /\ (k + Len(a)) - Len(a) = k
        /\ k \in Nat /\ 1 <= k
    BY <1>1, <1>2
  <2> QED
    BY <1>1, <1>2, <2>1
<1> QED
  BY <1>1, <1>3, <1>4, <1>5 DEF PartsOf, c

LEMMA JoinRising ==
  ASSUME NEW a \in Seq(Used), NEW b \in Seq(Used)
  PROVE  Rising(a \o b) <=> Rising(a) /\ Rising(b) /\ Under(a, b)
<1> DEFINE c == a \o b
<1>1. PartsOf(c, a, b)
  BY PartsRight
<1> HIDE DEF c
<1>2. ASSUME Rising(a), Rising(b), Under(a, b), NEW m \in DOMAIN c, NEW n \in DOMAIN c, m < n
      PROVE  c[m].time < c[n].time
  <2>1. /\ \/ m \in DOMAIN a /\ c[m] = a[m]
           \/ m - Len(a) \in DOMAIN b /\ c[m] = b[m - Len(a)] /\ Len(a) < m
        /\ \/ n \in DOMAIN a /\ c[n] = a[n]
           \/ n - Len(a) \in DOMAIN b /\ c[n] = b[n - Len(a)] /\ Len(a) < n
        /\ m \in Nat /\ n \in Nat /\ Len(a) \in Nat
        /\ n \in DOMAIN a => n <= Len(a)
    BY <1>1 DEF PartsOf
  <2>2. CASE m \in DOMAIN a /\ c[m] = a[m] /\ n \in DOMAIN a /\ c[n] = a[n]
    BY <1>2, <2>2 DEF Rising
  <2>3. CASE m \in DOMAIN a /\ c[m] = a[m] /\ n - Len(a) \in DOMAIN b /\ c[n] = b[n - Len(a)]
    BY <1>2, <2>3 DEF Under
  <2>4. CASE Len(a) < m /\ n \in DOMAIN a
    BY <1>2, <2>1, <2>4
  <2>5. CASE /\ m - Len(a) \in DOMAIN b /\ c[m] = b[m - Len(a)]
             /\ n - Len(a) \in DOMAIN b /\ c[n] = b[n - Len(a)]
    <3>1. m - Len(a) < n - Len(a)
      BY <1>2, <2>1
    <3> QED
      BY <1>2, <2>5, <3>1 DEF Rising
  <2> QED
    BY <2>1, <2>2, <2>3, <2>4, <2>5
<1>3. ASSUME Rising(c), NEW m \in DOMAIN a, NEW n \in DOMAIN a, m < n
      PROVE  a[m].time < a[n].time
  <2>1. m \in DOMAIN c /\ c[m] = a[m] /\ n \in DOMAIN c /\ c[n] = a[n]
    BY <1>1 DEF PartsOf
  <2> QED
    BY <1>3, <2>1 DEF Rising
<1>4. ASSUME Rising(c), NEW m \in DOMAIN b, NEW n \in DOMAIN b, m < n
      PROVE  b[m].time < b[n].time
  <2>1. /\ m + Len(a) \in DOMAIN c /\ c[m + Len(a)] = b[m] /\ n + Len(a) \in DOMAIN c
        /\ c[n + Len(a)] = b[n] /\ m \in Nat /\ n \in Nat /\ Len(a) \in Nat
    BY <1>1 DEF PartsOf
  <2>2. m + Len(a) < n + Len(a)
    BY <1>4, <2>1
  <2> QED
    BY <1>4, <2>1, <2>2 DEF Rising
<1>5. ASSUME Rising(c), NEW m \in DOMAIN a, NEW n \in DOMAIN b
      PROVE  a[m].time < b[n].time
  <2>1. /\ m \in DOMAIN c /\ c[m] = a[m] /\ n + Len(a) \in DOMAIN c
        /\ c[n + Len(a)] = b[n] /\ m \in Nat /\ n \in Nat /\ Len(a) \in Nat /\ m <= Len(a) /\ 1 <= n
    BY <1>1 DEF PartsOf
  <2>2. m < n + Len(a)
    BY <2>1
  <2> QED
    BY <1>5, <2>1, <2>2 DEF Rising
<1> QED
  BY <1>2, <1>3, <1>4, <1>5 DEF Rising, Under, c

LEMMA JoinKeeps ==
  ASSUME NEW a \in Seq(Used), NEW b \in Seq(Used)
  PROVE  /\ a \o b \in Seq(Used)
         /\ \A x : Under(x, a) /\ Under(x, b) => Under(x, a \o b)
         /\ \A x : Under(a, x) /\ Under(b, x) => Under(a \o b, x)
         /\ \A u : Among(a, u) /\ Among(b, u) => Among(a \o b, u)
         /\ \A u : Within(a, u) /\ Within(b, u) => Within(a \o b, u)
         /\ \A x : Among(x, a) => Among(x, a \o b)
         /\ \A x : Among(x, b) => Among(x, a \o b)
         /\ \A x : Within(x, a) => Within(x, a \o b)
         /\ \A x : Within(x, b) => Within(x, a \o b)
<1> DEFINE c == a \o b
<1>1. PartsOf(c, a, b)
  BY PartsRight
<1> HIDE DEF c
<1>2. /\ c \in Seq(Used)
      /\ \A k \in DOMAIN c : (\E m \in DOMAIN a : c[k] = a[m]) \/ (\E m \in DOMAIN b : c[k] = b[m])
      /\ \A m \in DOMAIN a : \E k \in DOMAIN c : c[k] = a[m]
      /\ \A m \in DOMAIN b : \E k \in DOMAIN c : c[k] = b[m]
  BY <1>1 DEF PartsOf
<1>3. /\ \A x : Under(x, a) /\ Under(x, b) => Under(x, c)
      /\ \A x : Under(a, x) /\ Under(b, x) => Under(c, x)
  BY <1>2 DEF Under
<1>4. \A u : Among(a, u) /\ Among(b, u) => Among(c, u)
  <2> SUFFICES ASSUME NEW u, Among(a, u), Among(b, u), NEW k \in DOMAIN c
               PROVE  \E n \in DOMAIN u : c[k].time = u[n].time
    BY DEF Among
  <2>1. CASE \E m \in DOMAIN a : c[k] = a[m]
    BY <2>1 DEF Among
  <2>2. CASE \E m \in DOMAIN b : c[k] = b[m]
    BY <2>2 DEF Among
  <2> QED
    BY <1>2, <2>1, <2>2
<1>5. \A u : Within(a, u) /\ Within(b, u) => Within(c, u)
  <2> SUFFICES ASSUME NEW u, Within(a, u), Within(b, u), NEW k \in DOMAIN c
               PROVE  \E n \in DOMAIN u : c[k] = u[n]
    BY DEF Within
  <2>1. CASE \E m \in DOMAIN a : c[k] = a[m]
    BY <2>1 DEF Within
  <2>2. CASE \E m \in DOMAIN b : c[k] = b[m]
    BY <2>2 DEF Within
  <2> QED
    BY <1>2, <2>1, <2>2
<1>6. /\ \A x : Among(x, a) => Among(x, c)
      /\ \A x : Among(x, b) => Among(x, c)
  BY <1>2 DEF Among
<1>7. /\ \A x : Within(x, a) => Within(x, c)
      /\ \A x : Within(x, b) => Within(x, c)
  BY <1>2 DEF Within
<1> QED
  BY <1>2, <1>3, <1>4, <1>5, <1>6, <1>7 DEF c

LEMMA AmongUnder ==
  ASSUME NEW s, NEW u, NEW n, Among(s, u), Under(u, n)
  PROVE  Under(s, n)
BY DEF Among, Under

\* A selection of them
LEMMA SelectKeeps ==
  ASSUME NEW s \in Seq(Used), NEW P
  PROVE  /\ Select(s, P) \in Seq(Used)
         /\ Rising(s) => Rising(Select(s, P))
         /\ \A x : Under(x, s) => Under(x, Select(s, P))
         /\ \A u : Among(s, u) => Among(Select(s, P), u)
         /\ \A u : Within(s, u) => Within(Select(s, P), u)
<1> DEFINE r == Select(s, P)
           q == Kept(Len(s), P)
<1>1. /\ r \in Seq(Used)
      /\ \A m \in 1 .. Len(r) : q[m] \in 1 .. Len(s) /\ q[m] \in P /\ r[m] = s[q[m]]
      /\ \A m, n \in 1 .. Len(r) : m < n => q[m] < q[n]
  <2> DEFINE S == Used
  <2>1. s \in Seq(S)
    OBVIOUS
  <2> HIDE DEF S
  <2>2. /\ r \in Seq(S)
        /\ \A m \in 1 .. Len(r) : q[m] \in 1 .. Len(s) /\ q[m] \in P /\ r[m] = s[q[m]]
        /\ \A m, n \in 1 .. Len(r) : m < n => q[m] < q[n]
    BY <2>1, SelectRight
  <2> QED
    BY <2>2 DEF S
<1> HIDE DEF r, q
<1>2. DOMAIN r = 1 .. Len(r) /\ DOMAIN s = 1 .. Len(s)
  BY <1>1
<1>3. \A m \in DOMAIN r : \E n \in DOMAIN s : r[m] = s[n]
  BY <1>1, <1>2
<1>4. Rising(s) => Rising(r)
  <2> SUFFICES ASSUME Rising(s), NEW m \in DOMAIN r, NEW n \in DOMAIN r, m < n
               PROVE  r[m].time < r[n].time
    BY DEF Rising
  <2>1. q[m] \in DOMAIN s /\ q[n] \in DOMAIN s /\ q[m] < q[n] /\ r[m] = s[q[m]] /\ r[n] = s[q[n]]
    BY <1>1, <1>2
  <2> QED
    BY <2>1 DEF Rising
<1>5. \A x : Under(x, s) => Under(x, r)
  BY <1>3 DEF Under
<1>6. \A u : Among(s, u) => Among(r, u)
  BY <1>3 DEF Among
<1>7. \A u : Within(s, u) => Within(r, u)
  BY <1>3 DEF Within
<1> QED
  BY <1>1, <1>4, <1>5, <1>6, <1>7 DEF r

-----------------------------------------------------------------------------
(* LivoMapper: the inductive invariant of PublishedOnce *)

\* The points come in order.
Arrived ==
  /\ received \in Seq(Nat) /\ Ascending(received)
  /\ \A n \in DOMAIN received : received[n] < lidarClock

\* So they are published, and wait to be; each is one that an update used.
InLine(shown, wait, next, all) ==
  /\ shown \in Seq(Used) /\ wait \in Seq(Used) /\ next \in Seq(Used)
  /\ Rising(shown) /\ Rising(wait) /\ Rising(next)
  /\ Under(shown, wait) /\ Under(shown, next) /\ Under(wait, next)
  /\ Among(shown, all) /\ Among(wait, all) /\ Among(next, all)

Ordered ==
  /\ InLine(published, pcl_wait_pub, pcl_w_wait_pub, used)
  /\ ~settings.img_en => pcl_wait_pub = << >>

InPlace ==
  /\ Within(published, used) /\ Within(pcl_wait_pub, used) /\ Within(pcl_w_wait_pub, used)
  /\ Within(_pv_list, used)

Files ==
  /\ saved \in Seq(Used) /\ pcl_wait_save \in Seq(Used)
  /\ running => saved \o pcl_wait_save = published
  /\ (~running /\ settings.pcd_save_interval < 0) => saved = published

PubInv ==
  /\ Arrived /\ Ordered /\ Files /\ _pv_list \in Seq(Used)
  /\ (settings.imu_en /\ ~starved) => InPlace

LEMMA PubInvInit == Init => PubInv
<1> SUFFICES ASSUME Init PROVE PubInv
  OBVIOUS
<1>1. /\ received = << >> /\ published = << >> /\ pcl_wait_pub = << >> /\ pcl_w_wait_pub = << >>
      /\ _pv_list = << >> /\ saved = << >> /\ pcl_wait_save = << >>
  BY DEF Init
<1>2. << >> \in Seq(Nat) /\ << >> \in Seq(Used) /\ DOMAIN << >> = {} /\ << >> \o << >> = << >>
  BY EmptySeq, ConcatEmptySeq
<1>3. Arrived
  BY <1>1, <1>2 DEF Arrived, Ascending
<1>4. Ordered
  BY <1>1, <1>2 DEF Ordered, InLine, Rising, Under, Among
<1>5. Files
  BY <1>1, <1>2 DEF Files
<1>6. InPlace
  BY <1>1, <1>2 DEF InPlace, Within
<1> QED
  BY <1>1, <1>2, <1>3, <1>4, <1>5, <1>6 DEF PubInv


LEMMA UsedRises == CutInv /\ Arrived => used \in Seq(Used) /\ Rising(used)
<1> SUFFICES ASSUME CutInv, Arrived PROVE used \in Seq(Used) /\ Rising(used)
  OBVIOUS
<1> DEFINE t == Times(used)
           x == Times(pcl_proc_next)
           y == Joined(ScanTimes(lid_raw_data_buffer))
<1>1. used \in Seq(Used) /\ received = t \o x \o y
  BY DEF CutInv, TypeRight
<1>2. /\ t \in Seq(Nat) /\ Len(t) = Len(used)
      /\ \A n \in 1 .. Len(used) : t[n] = used[n].time
  <2>1. \A p \in Used : p.time \in Nat
    BY DEF Used
  <2> QED
    BY <1>1, <2>1, TimesRight
<1>3. x \in Seq(Nat) /\ y \in Seq(Nat)
  <2>1. x \in Seq(Nat) /\ ScanTimes(lid_raw_data_buffer) \in Seq(Seq(Nat))
    BY TimesUsed
  <2> QED
    BY <2>1, JoinedIsSeq
<1> HIDE DEF t, x, y
<1>4. /\ t \o x \in Seq(Nat) /\ Len(t \o x) = Len(t) + Len(x)
      /\ \A k \in 1 .. Len(t) + Len(x) : (t \o x)[k] = IF k <= Len(t) THEN t[k] ELSE x[k - Len(t)]
  BY <1>2, <1>3, ConcatProperties
<1> DEFINE z == t \o x
<1>5. z \in Seq(Nat) /\ Len(z) = Len(t) + Len(x) /\ \A k \in 1 .. Len(t) : z[k] = t[k]
  BY <1>2, <1>3, <1>4
<1>6. received = z \o y
  BY <1>1
<1> HIDE DEF z
<1>7. /\ z \o y \in Seq(Nat) /\ Len(z \o y) = Len(z) + Len(y)
      /\ \A k \in 1 .. Len(z) + Len(y) : (z \o y)[k] = IF k <= Len(z) THEN z[k] ELSE y[k - Len(z)]
  <2>1. z \in Seq(Nat) /\ y \in Seq(Nat)
    BY <1>3, <1>5
  <2> QED
    BY <2>1, ConcatProperties
<1>8. \A k \in 1 .. Len(used) : k \in DOMAIN received /\ received[k] = used[k].time
  <2> SUFFICES ASSUME NEW k \in 1 .. Len(used)
               PROVE  k \in DOMAIN received /\ received[k] = used[k].time
    OBVIOUS
  <2>1. /\ Len(t) \in Nat /\ Len(x) \in Nat /\ Len(y) \in Nat /\ Len(z) = Len(t) + Len(x)
        /\ k \in 1 .. Len(t)
    BY <1>2, <1>3, <1>5
  <2>2. k \in 1 .. Len(z) + Len(y) /\ k <= Len(z)
    BY <2>1
  <2>3. received[k] = z[k] /\ z[k] = t[k] /\ t[k] = used[k].time
    BY <1>2, <1>5, <1>6, <1>7, <2>1, <2>2
  <2>4. DOMAIN received = 1 .. Len(z) + Len(y)
    BY <1>6, <1>7
  <2> QED
    BY <2>2, <2>3, <2>4
<1>9. DOMAIN used = 1 .. Len(used)
  BY <1>1
<1> QED
  BY <1>1, <1>8, <1>9 DEF Arrived, Ascending, Rising

\* The same points, placed with another state
LEMMA SameTimes ==
  ASSUME NEW pts \in Seq(Pt), NEW e \in Int, NEW f \in Int
  PROVE  /\ Placed(pts, e) \in Seq(Used) /\ Placed(pts, f) \in Seq(Used)
         /\ Rising(Placed(pts, e)) => Rising(Placed(pts, f))
         /\ \A x : Under(x, Placed(pts, e)) => Under(x, Placed(pts, f))
         /\ Among(Placed(pts, f), Placed(pts, e))
<1> DEFINE K == Placed(pts, e)
           M == Placed(pts, f)
<1>1. /\ K \in Seq(Used) /\ Len(K) = Len(pts) /\ M \in Seq(Used) /\ Len(M) = Len(pts)
      /\ \A n \in 1 .. Len(pts) : K[n].time = M[n].time
  <2>1. /\ K \in Seq(Used) /\ Len(K) = Len(pts)
        /\ \A n \in 1 .. Len(pts) : K[n] = [time |-> pts[n].time, at |-> e]
    BY PlacedRight
  <2>2. /\ M \in Seq(Used) /\ Len(M) = Len(pts)
        /\ \A n \in 1 .. Len(pts) : M[n] = [time |-> pts[n].time, at |-> f]
    BY PlacedRight
  <2> HIDE DEF K, M
  <2>3. ASSUME NEW n \in 1 .. Len(pts) PROVE K[n].time = M[n].time
    <3> DEFINE a == pts[n].time
    <3>1. K[n] = [time |-> a, at |-> e]
      BY <2>1
    <3>2. M[n] = [time |-> a, at |-> f]
      BY <2>2
    <3> HIDE DEF a
    <3> QED
      BY <3>1, <3>2
  <2> QED
    BY <2>1, <2>2, <2>3
<1> HIDE DEF K, M
<1>2. DOMAIN K = DOMAIN M /\ DOMAIN K = 1 .. Len(pts)
  BY <1>1
<1>3. Rising(K) => Rising(M)
  BY <1>1, <1>2 DEF Rising
<1>4. \A x : Under(x, K) => Under(x, M)
  BY <1>1, <1>2 DEF Under
<1>5. Among(M, K)
  BY <1>1, <1>2 DEF Among
<1> QED
  BY <1>1, <1>3, <1>4, <1>5 DEF K, M

\* Points that are published are kept for the file.
LEMMA SaveMapRight ==
  ASSUME Files, running, NEW new \in Seq(Used), SaveMap(new), UNCHANGED <<running, settings>>,
         published \in Seq(Used)
  PROVE  Files' /\ published' = published \o new
<1> DEFINE save == pcl_wait_save \o new
<1>1. /\ published' = published \o new
      /\ \/ saved' = saved /\ pcl_wait_save' = save
         \/ saved' = saved \o save /\ pcl_wait_save' = << >>
  BY DEF SaveMap
<1>2. saved \in Seq(Used) /\ pcl_wait_save \in Seq(Used) /\ saved \o pcl_wait_save = published
  BY DEF Files
<1>3. save \in Seq(Used) /\ saved \o save \in Seq(Used) /\ << >> \in Seq(Used)
  BY <1>2, ConcatProperties, EmptySeq
<1>4. (saved \o pcl_wait_save) \o new = saved \o save
  <2>1. saved \in Seq(Used) /\ pcl_wait_save \in Seq(Used) /\ new \in Seq(Used)
    BY <1>2
  <2>2. Associated(saved, pcl_wait_save, new)
    BY <2>1, Associates
  <2> QED
    BY <2>2 DEF Associated, save
<1>5. (saved \o save) \o << >> = saved \o save
  BY <1>3, ConcatEmptySeq
<1> HIDE DEF save
<1>6. saved' \in Seq(Used) /\ pcl_wait_save' \in Seq(Used) /\ saved' \o pcl_wait_save' = published'
  BY <1>1, <1>2, <1>3, <1>4, <1>5
<1> QED
  BY <1>1, <1>6 DEF Files

\* The points of an update are after all that wait or have been published.
LEMMA InLineUpdate ==
  ASSUME NEW shown, NEW wait, NEW all \in Seq(Used), InLine(shown, wait, << >>, all),
         NEW pts \in Seq(Pt), NEW e \in Int, NEW f \in Int, Rising(all \o Placed(pts, e))
  PROVE  /\ InLine(shown, wait, << >>, all \o Placed(pts, e))
         /\ InLine(shown, wait, Placed(pts, f), all \o Placed(pts, e))
         /\ wait = << >> => InLine(shown \o Placed(pts, f), << >>, << >>, all \o Placed(pts, e))
<1> DEFINE K == Placed(pts, e)
           M == Placed(pts, f)
<1>1. /\ K \in Seq(Used) /\ M \in Seq(Used)
      /\ Rising(K) => Rising(M)
      /\ \A x : Under(x, K) => Under(x, M)
      /\ Among(M, K)
  BY SameTimes
<1> HIDE DEF K, M
<1>0. all \in Seq(Used) /\ K \in Seq(Used) /\ M \in Seq(Used)
  BY <1>1
<1>2. Rising(all \o K)
  BY DEF K
<1>3. Rising(K) /\ Under(all, K)
  BY <1>0, <1>2, JoinRising
<1>4. /\ \A x : Among(x, all) => Among(x, all \o K)
      /\ \A x : Among(x, K) => Among(x, all \o K)
  BY <1>0, JoinKeeps
<1>5. /\ shown \in Seq(Used) /\ wait \in Seq(Used) /\ << >> \in Seq(Used)
      /\ Rising(shown) /\ Rising(wait) /\ Rising(<< >>)
      /\ Under(shown, wait) /\ Under(shown, << >>) /\ Under(wait, << >>)
      /\ Among(shown, all) /\ Among(wait, all) /\ Among(<< >>, all)
  BY DEF InLine
<1>6. Rising(M) /\ Among(M, all \o K)
  BY <1>1, <1>3, <1>4
<1>7. Under(shown, M) /\ Under(wait, M)
  BY <1>1, <1>3, <1>5, AmongUnder
<1>8. InLine(shown, wait, << >>, all \o K)
  BY <1>4, <1>5 DEF InLine
<1>9. InLine(shown, wait, M, all \o K)
  BY <1>1, <1>4, <1>5, <1>6, <1>7 DEF InLine
<1>10. InLine(shown \o M, << >>, << >>, all \o K)
  <2>0. shown \in Seq(Used) /\ M \in Seq(Used)
    BY <1>1, <1>5
  <2>1. shown \o M \in Seq(Used) /\ Rising(shown \o M)
    BY <2>0, <1>5, <1>6, <1>7, JoinRising, JoinKeeps
  <2>2. Among(shown, all \o K) /\ Among(<< >>, all \o K)
    BY <1>4, <1>5
  <2>3. Among(shown \o M, all \o K)
    BY <1>6, <2>0, <2>2, JoinKeeps
  <2>4. \A x : Under(x, << >>)
    BY EmptySeq DEF Under
  <2> QED
    BY <1>5, <2>1, <2>2, <2>3, <2>4 DEF InLine
<1> QED
  BY <1>8, <1>9, <1>10 DEF K, M

\* Of the points that wait some get a colour; then none waits on.
LEMMA InLineVio ==
  ASSUME NEW shown, NEW wait, NEW next, NEW all, InLine(shown, wait, next, all), NEW P
  PROVE  /\ InLine(shown, wait \o next, << >>, all)
         /\ InLine(shown \o Select(wait \o next, P), << >>, << >>, all)
         /\ \A u : Within(wait, u) /\ Within(next, u) =>
                     Within(wait \o next, u) /\ Within(Select(wait \o next, P), u)
         /\ wait \o next \in Seq(Used) /\ Select(wait \o next, P) \in Seq(Used)
<1> DEFINE w == wait \o next
           c == Select(w, P)
<1>1. /\ shown \in Seq(Used) /\ wait \in Seq(Used) /\ next \in Seq(Used) /\ << >> \in Seq(Used)
      /\ Rising(shown) /\ Rising(wait) /\ Rising(next)
      /\ Under(shown, wait) /\ Under(shown, next) /\ Under(wait, next)
      /\ Among(shown, all) /\ Among(wait, all) /\ Among(next, all)
  BY DEF InLine
<1>2. /\ w \in Seq(Used) /\ Rising(w) /\ Under(shown, w) /\ Among(w, all)
  BY <1>1, JoinRising, JoinKeeps
<1>3. \A u : Within(wait, u) /\ Within(next, u) => Within(w, u)
  BY <1>1, JoinKeeps
<1> HIDE DEF w
<1>4. /\ c \in Seq(Used) /\ Rising(c) /\ Under(shown, c) /\ Among(c, all)
      /\ \A u : Within(w, u) => Within(c, u)
  BY <1>2, SelectKeeps
<1> HIDE DEF c
<1>5. shown \o c \in Seq(Used) /\ Rising(shown \o c) /\ Among(shown \o c, all)
  BY <1>1, <1>4, JoinRising, JoinKeeps
<1>6. Rising(<< >>) /\ Among(<< >>, all) /\ \A x : Under(x, << >>)
  BY EmptySeq DEF Rising, Among, Under
<1>7. InLine(shown, w, << >>, all) /\ InLine(shown \o c, << >>, << >>, all)
  BY <1>1, <1>2, <1>5, <1>6 DEF InLine
<1> QED
  BY <1>2, <1>3, <1>4, <1>7 DEF w, c


LEMMA ArrivedLidar ==
  ASSUME CutInv, Arrived, livox_pcl_cbk \/ standard_pcl_cbk
  PROVE  Arrived'
<1>1. PICK cloud \in Clouds :
        /\ lidarClock' = lidarClock + ScanLen
        /\ IF cloud = << >> THEN UNCHANGED <<lidarIn, received>> ELSE PushScan(cloud)
  BY DEF livox_pcl_cbk, standard_pcl_cbk
<1>2. /\ lidarClock \in Nat /\ ScanLen \in Nat \ {0} /\ cloud \in Seq(0 .. ScanLen - 1)
      /\ received \in Seq(Nat)
  BY ClockAssumption DEF CutInv, TypeRight, Arrived
<1>3. CASE cloud = << >>
  <2>1. \A n \in DOMAIN received : received[n] \in Nat /\ received[n] < lidarClock
    BY <1>2 DEF Arrived
  <2>2. \A n \in DOMAIN received : received[n] < lidarClock + ScanLen
    BY <1>2, <2>1
  <2> QED
    BY <1>1, <1>3, <2>2 DEF Arrived
<1>4. CASE cloud # << >>
  <2> DEFINE t == [n \in DOMAIN cloud |-> lidarClock + cloud[n]]
             s == ScanOf(cloud)
             l == Len(cloud)
             a == Len(received)
             r == received \o t
  <2>1. received' = r
    BY <1>1, <1>4 DEF PushScan
  <2>2. l \in Nat /\ DOMAIN cloud = 1 .. l /\ \A n \in 1 .. l : cloud[n] \in 0 .. ScanLen - 1
    BY <1>2
  <2>3. \A j, k \in 1 .. l : j < k => cloud[j] < cloud[k]
    <3>1. ScanRight(s)
      BY <1>2, <1>4, ScanOfRight
    <3>2. s.points = [n \in 1 .. l |-> [time |-> lidarClock + cloud[n], curvature |-> cloud[n]]]
      BY <2>2 DEF ScanOf
    <3>3. Len(s.points) = l /\ \A n \in 1 .. l : s.points[n].curvature = cloud[n]
      <4> DEFINE p == s.points
      <4>1. p = [n \in 1 .. l |-> [time |-> lidarClock + cloud[n], curvature |-> cloud[n]]]
        BY <3>2
      <4> HIDE DEF p, l
      <4>2. Len(p) = l /\ \A n \in 1 .. l : p[n].curvature = cloud[n]
        BY <2>2, <4>1
      <4> QED
        BY <4>2 DEF p
    <3>4. \A j, k \in 1 .. Len(s.points) :
            j < k => s.points[j].curvature < s.points[k].curvature
      BY <3>1 DEF ScanRight
    <3> HIDE DEF s, l
    <3> QED
      BY <3>3, <3>4
  <2>4. t \in Seq(Nat) /\ Len(t) = l /\ \A n \in 1 .. l : t[n] = lidarClock + cloud[n]
    <3>1. \A n \in 1 .. l : lidarClock + cloud[n] \in Nat
      BY <1>2, <2>2
    <3> HIDE DEF l
    <3> QED
      BY <2>2, <3>1
  <2>5. /\ r \in Seq(Nat) /\ Len(r) = a + l
        /\ \A k \in 1 .. a + l : r[k] = IF k <= a THEN received[k] ELSE t[k - a]
    <3> HIDE DEF t
    <3>1. received \in Seq(Nat) /\ t \in Seq(Nat) /\ Len(t) = l
      BY <1>2, <2>4
    <3> HIDE DEF l
    <3> QED
      BY <3>1, ConcatProperties
  <2>6. /\ a \in Nat /\ DOMAIN received = 1 .. a /\ DOMAIN r = 1 .. a + l
        /\ \A k \in 1 .. a : received[k] \in Nat /\ received[k] < lidarClock
        /\ \A j, k \in 1 .. a : j < k => received[j] < received[k]
    <3> HIDE DEF r
    <3>1. a \in Nat /\ DOMAIN received = 1 .. a /\ DOMAIN r = 1 .. a + l
      BY <1>2, <2>5
    <3>4. \A k \in 1 .. a : received[k] \in Nat
      BY <1>2
    <3> HIDE DEF a
    <3>2. \A k \in 1 .. a : received[k] \in Nat /\ received[k] < lidarClock
      BY <3>1, <3>4 DEF Arrived
    <3>3. \A j, k \in 1 .. a : j < k => received[j] < received[k]
      BY <3>1 DEF Arrived, Ascending
    <3> QED
      BY <3>1, <3>2, <3>3
  <2> HIDE DEF r, t, l, a, s
  <2>7. \A k \in 1 .. a + l : \/ k \in 1 .. a /\ r[k] = received[k]
                              \/ /\ k - a \in 1 .. l /\ r[k] = lidarClock + cloud[k - a] /\ a < k
    <3> SUFFICES ASSUME NEW k \in 1 .. a + l, ~(k \in 1 .. a)
                 PROVE  k - a \in 1 .. l /\ r[k] = lidarClock + cloud[k - a] /\ a < k
      BY <2>2, <2>5, <2>6
    <3>1. k - a \in 1 .. l /\ a < k /\ ~(k <= a)
      BY <2>2, <2>6
    <3> QED
      BY <2>4, <2>5, <3>1
  <2>8. \A k \in DOMAIN r : r[k] < lidarClock + ScanLen
    <3> SUFFICES ASSUME NEW k \in 1 .. a + l PROVE r[k] < lidarClock + ScanLen
      BY <2>6
    <3>1. CASE k \in 1 .. a /\ r[k] = received[k]
      BY <1>2, <2>6, <3>1
    <3>2. CASE k - a \in 1 .. l /\ r[k] = lidarClock + cloud[k - a]
      <4>1. cloud[k - a] \in 0 .. ScanLen - 1
        BY <2>2, <3>2
      <4> QED
        BY <1>2, <3>2, <4>1
    <3> QED
      BY <2>7, <3>1, <3>2
  <2>9. Ascending(r)
    <3> SUFFICES ASSUME NEW j \in 1 .. a + l, NEW k \in 1 .. a + l, j < k PROVE r[j] < r[k]
      BY <2>6 DEF Ascending
    <3>1. CASE k \in 1 .. a /\ r[k] = received[k]
      <4>1. j \in 1 .. a /\ r[j] = received[j]
        BY <2>2, <2>5, <2>6, <3>1
      <4> QED
        BY <2>6, <3>1, <4>1
    <3>2. CASE k - a \in 1 .. l /\ r[k] = lidarClock + cloud[k - a]
      <4>1. cloud[k - a] \in 0 .. ScanLen - 1
        BY <2>2, <3>2
      <4>2. CASE j \in 1 .. a /\ r[j] = received[j]
        BY <1>2, <2>6, <3>2, <4>1, <4>2
      <4>3. CASE j - a \in 1 .. l /\ r[j] = lidarClock + cloud[j - a]
        <5>1. cloud[j - a] < cloud[k - a] /\ cloud[j - a] \in Nat
          <6>1. j - a < k - a
            BY <2>2, <2>6
          <6> QED
            BY <2>2, <2>3, <3>2, <4>3, <6>1
        <5> QED
          BY <1>2, <3>2, <4>1, <4>3, <5>1
      <4> QED
        BY <2>7, <4>2, <4>3
    <3> QED
      BY <2>7, <3>1, <3>2
  <2>10. received' \in Seq(Nat) /\ Ascending(received)'
    BY <2>1, <2>5, <2>9
  <2> QED
    BY <1>1, <2>1, <2>8, <2>10 DEF Arrived
<1> QED
  BY <1>3, <1>4

LEMMA ArrivedNext == CutInv /\ Arrived /\ [Next]_vars => Arrived'
<1> SUFFICES ASSUME CutInv, Arrived, [Next]_vars PROVE Arrived'
  OBVIOUS
<1>1. CASE livox_pcl_cbk \/ standard_pcl_cbk
  BY <1>1, ArrivedLidar
<1>2. CASE imu_cbk \/ img_cbk \/ imu_prop_callback \/ ThrowImage \/ SyncLio \/ SyncVio
           \/ SyncOnlyLio \/ SyncLo \/ savePCD \/ UNCHANGED vars
  <2>1. UNCHANGED <<received, lidarClock>>
    BY <1>2 DEF imu_cbk, img_cbk, imu_prop_callback, ThrowImage, SyncLio, SyncVio, SyncOnlyLio,
       SyncLo, savePCD, vars, clocks
  <2> QED
    BY <2>1 DEF Arrived
<1> QED
  BY <1>1, <1>2 DEF Next

\* What handleLIO does with the points that it is given
LEMMA PointsPlaced ==
  ASSUME NEW pts, handleLIO(pts), pts # << >>
  PROVE  /\ _pv_list' = Placed(pts, _state')
         /\ settings.img_en => /\ pcl_w_wait_pub' = Placed(pts, _state')
                               /\ UNCHANGED <<pcl_wait_pub, pcl_wait_save, saved, published>>
         /\ ~settings.img_en => /\ SaveMap(Placed(pts, _state'))
                                /\ UNCHANGED <<pcl_w_wait_pub, pcl_wait_pub>>
<1>1. CloudWorld(pts) = Placed(pts, _state')
  BY DEF CloudWorld, RGBpointBodyToWorld, Placed
<1>2. transformLidar(pts) = Placed(pts, _state')
  BY DEF transformLidar, Placed
<1>3. /\ _pv_list' = transformLidar(pts)
      /\ settings.img_en => /\ pcl_w_wait_pub' = CloudWorld(pts)
                            /\ UNCHANGED <<pcl_wait_pub, pcl_wait_save, saved, published>>
      /\ ~settings.img_en => /\ SaveMap(CloudWorld(pts))
                             /\ UNCHANGED <<pcl_w_wait_pub, pcl_wait_pub>>
  BY DEF handleLIO
<1> QED
  BY <1>1, <1>2, <1>3

\* An update's points go to the map and to those that are published.
LEMMA PubInvPoints ==
  ASSUME PubInv, CutInv, CutInv', Arrived', _state' \in Int, running, pcl_w_wait_pub = << >>,
         NEW pts \in Seq(Pt), NEW e \in Int, Use(pts, e),
         UNCHANGED <<running, settings>>, starved => starved',
         (settings.imu_en /\ ~starved') => _state' = e \/ UNCHANGED <<clouds, _pv_list>>,
         UNCHANGED <<clouds, _pv_list>> \/ (handleLIO(pts) /\ pts # << >>)
  PROVE  PubInv'
<1> DEFINE K == Placed(pts, e)
           M == Placed(pts, _state')
           U == used \o K
<1>1. /\ Arrived /\ Ordered /\ Files /\ _pv_list \in Seq(Used)
      /\ InLine(published, pcl_wait_pub, << >>, used) /\ used \in Seq(Used)
      /\ published \in Seq(Used) /\ pcl_wait_pub \in Seq(Used)
      /\ ~settings.img_en => pcl_wait_pub = << >>
      /\ (settings.imu_en /\ ~starved) => InPlace
  BY DEF PubInv, Ordered, InLine, CutInv, TypeRight
<1>2. K \in Seq(Used) /\ M \in Seq(Used)
  BY PlacedRight
<1>3. used' = U
  BY <1>1, UseRight
<1>4. Rising(U)
  <2>1. (used \in Seq(Used) /\ Rising(used))'
    BY UsedRises, PTL
  <2> QED
    BY <1>3, <2>1
<1>5. /\ InLine(published, pcl_wait_pub, << >>, U) /\ InLine(published, pcl_wait_pub, M, U)
      /\ pcl_wait_pub = << >> => InLine(published \o M, << >>, << >>, U)
  <2>1. InLine(published, pcl_wait_pub, << >>, used) /\ used \in Seq(Used) /\ Rising(used \o K)
    BY <1>1, <1>4
  <2> QED
    BY <2>1, InLineUpdate
<1> HIDE DEF M, K
<1>6. /\ \A x : Within(x, used) => Within(x, U)
      /\ \A x : Within(x, K) => Within(x, U)
  <2>1. used \in Seq(Used) /\ K \in Seq(Used)
    BY <1>1, <1>2
  <2> QED
    BY <2>1, JoinKeeps
<1> HIDE DEF U
<1>7. ASSUME settings.imu_en, ~starved' PROVE /\ Within(published, U) /\ Within(pcl_wait_pub, U)
                                              /\ Within(pcl_w_wait_pub, U) /\ Within(_pv_list, U)
  BY <1>1, <1>6, <1>7 DEF InPlace
<1>8. CASE UNCHANGED <<clouds, _pv_list>>
  <2>1. UNCHANGED <<published, pcl_wait_pub, pcl_w_wait_pub, saved, pcl_wait_save, _pv_list>>
    BY <1>8 DEF clouds
  <2>2. InLine(published, pcl_wait_pub, pcl_w_wait_pub, used)'
    BY <1>3, <1>5, <2>1
  <2>3. (settings.imu_en /\ ~starved)' => InPlace'
    BY <1>3, <1>7, <2>1 DEF InPlace
  <2>4. Ordered' /\ Files'
    BY <1>1, <2>1, <2>2 DEF Ordered, Files
  <2> QED
    BY <1>1, <2>1, <2>3, <2>4 DEF PubInv
<1>9. CASE handleLIO(pts) /\ pts # << >> /\ ~UNCHANGED <<clouds, _pv_list>>
  <2>1. /\ _pv_list' = M
        /\ settings.img_en => /\ pcl_w_wait_pub' = M
                              /\ UNCHANGED <<pcl_wait_pub, pcl_wait_save, saved, published>>
        /\ ~settings.img_en => /\ SaveMap(M)
                               /\ UNCHANGED <<pcl_w_wait_pub, pcl_wait_pub>>
    BY <1>9, PointsPlaced DEF M
  <2>2. ASSUME settings.imu_en, ~starved' PROVE Within(M, U)
    <3>1. M = K
      BY <1>9, <2>2 DEF M, K
    <3>2. Within(K, K)
      BY DEF Within
    <3> QED
      BY <1>6, <3>1, <3>2
  <2>3. CASE settings.img_en
    <3>1. InLine(published, pcl_wait_pub, pcl_w_wait_pub, used)'
      BY <1>3, <1>5, <2>1, <2>3
    <3>2. (settings.imu_en /\ ~starved)' => InPlace'
      BY <1>3, <1>7, <2>1, <2>2, <2>3 DEF InPlace
    <3>3. Ordered' /\ Files'
      BY <1>1, <2>1, <2>3, <3>1 DEF Ordered, Files
    <3> QED
      BY <1>2, <2>1, <3>2, <3>3 DEF PubInv
  <2>4. CASE ~settings.img_en
    <3>1. Files' /\ published' = published \o M
      BY <1>1, <1>2, <2>1, <2>4, SaveMapRight
    <3>2. InLine(published, pcl_wait_pub, pcl_w_wait_pub, used)'
      BY <1>1, <1>3, <1>5, <2>1, <2>4, <3>1
    <3>3. ASSUME settings.imu_en, ~starved' PROVE Within(published \o M, U)
      <4>1. published \in Seq(Used) /\ M \in Seq(Used) /\ Within(published, U) /\ Within(M, U)
        BY <1>1, <1>2, <1>7, <2>2, <3>3
      <4> QED
        BY <4>1, JoinKeeps
    <3>4. (settings.imu_en /\ ~starved)' => InPlace'
      BY <1>3, <1>7, <2>1, <2>2, <2>4, <3>1, <3>3 DEF InPlace
    <3>5. Ordered'
      BY <1>1, <2>1, <2>4, <3>2 DEF Ordered
    <3> QED
      BY <1>2, <2>1, <3>1, <3>4, <3>5 DEF PubInv
  <2> QED
    BY <2>3, <2>4
<1> QED
  BY <1>8, <1>9


LEMMA PubInvUpdate ==
  ASSUME PubInv, TimeInv, TimeInv', Arrived', starved => starved', SyncLio \/ SyncOnlyLio
  PROVE  PubInv'
<1>1. CutInv /\ CutInv' /\ ImuInv /\ UpdateInv /\ _state' \in Int
  BY DEF TimeInv, FilterType
<1>2. PICK samples, pts, end : UpdateBy(samples, pts, end)
  BY <1>1, SyncLioIsUpdate, SyncOnlyLioIsUpdate
<1>3. /\ Process2(samples, pts, end) /\ end \in Int /\ samples \in Seq(Nat) /\ pts \in Seq(Pt)
      /\ Use(pts, end) /\ UNCHANGED <<running, settings>> /\ settings.imu_en
      /\ slam_mode_ = "LIVO" => lio_vio_flg # "LIO"
  BY <1>2 DEF UpdateBy, PoppedBy, node
<1>4. running
  BY DEF SyncLio, SyncOnlyLio, HasData
<1>5. pcl_w_wait_pub = << >>
  BY <1>1, <1>3 DEF UpdateInv
<1>6. init_iter_num \in Nat
  BY <1>1 DEF CutInv, TypeRight
<1>7. CASE imu_need_init
  <2>1. UNCHANGED <<clouds, _pv_list>>
    BY <1>3, <1>6, <1>7, InitDoes DEF results
  <2> QED
    BY <1>1, <1>3, <1>4, <1>5, <2>1, PubInvPoints
<1>8. CASE ~imu_need_init
  <2>1. handleLIO(pts) /\ ~imu_need_init' /\ last_prop_end_time' = end
    BY <1>3, <1>8, UpdateDoes
  <2>2. UNCHANGED <<clouds, _pv_list>> \/ (handleLIO(pts) /\ pts # << >>)
    BY <2>1 DEF handleLIO, results
  <2>3. (settings.imu_en /\ ~starved') => _state' = end
    BY <1>3, <2>1 DEF TimeInv, StateInv
  <2> QED
    BY <1>1, <1>3, <1>4, <1>5, <2>2, <2>3, PubInvPoints
<1> QED
  BY <1>7, <1>8

LEMMA PubInvLo ==
  ASSUME PubInv, TimeInv, TimeInv', Arrived', starved => starved', SyncLo
  PROVE  PubInv'
<1> DEFINE pts == Head(lid_raw_data_buffer).points
           end == last_lio_update_time'
<1>1. CutInv /\ CutInv' /\ UpdateInv /\ _state' \in Int
  BY DEF TimeInv, FilterType
<1>2. /\ slam_mode_ = "ONLY_LO" /\ running /\ lid_raw_data_buffer # << >>
      /\ Use(pts, end) /\ handleLIO(pts) /\ UNCHANGED <<running, settings>>
  BY DEF SyncLo, HasData, node
<1>3. ~settings.imu_en
  BY <1>1, <1>2, SettingsAre DEF slam_mode_, CutInv, TypeRight
<1>4. pts \in Seq(Pt) /\ end \in Int
  BY <1>1, <1>2, LastUpdateRight DEF CutInv, TypeRight
<1>5. pcl_w_wait_pub = << >>
  BY <1>1, <1>2 DEF UpdateInv
<1> HIDE DEF pts, end
<1>6. UNCHANGED <<clouds, _pv_list>> \/ (handleLIO(pts) /\ pts # << >>)
  BY <1>2 DEF handleLIO, results
<1> QED
  BY <1>1, <1>2, <1>3, <1>4, <1>5, <1>6, PubInvPoints

pubVars == <<published, pcl_wait_pub, pcl_w_wait_pub, saved, pcl_wait_save, _pv_list, used,
             starved, settings, running>>

LEMMA PubInvSame ==
  ASSUME PubInv, Arrived', UNCHANGED pubVars
  PROVE  PubInv'
<1>1. Ordered'
  BY DEF PubInv, pubVars, Ordered
<1>2. Files' /\ (InPlace => InPlace')
  BY DEF PubInv, pubVars, Files, InPlace
<1> QED
  BY <1>1, <1>2 DEF PubInv, pubVars

LEMMA PubInvVio ==
  ASSUME PubInv, TimeInv, Arrived', SyncVio
  PROVE  PubInv'
<1>1. /\ running /\ slam_mode_ = "LIVO" /\ handleVIO
      /\ UNCHANGED <<used, starved, _pv_list, running, settings>>
  BY DEF SyncVio, HasData, node
<1>2. settings.img_en
  BY <1>1, SettingsAre DEF slam_mode_, TimeInv, CutInv, TypeRight
<1>3. CASE UNCHANGED clouds
  BY <1>1, <1>3, PubInvSame DEF pubVars, clouds
<1>4. CASE \E rgb \in Coloured : publish_frame_world(rgb)
  <2> DEFINE all == pcl_wait_pub \o pcl_w_wait_pub
  <2>1. PICK rgb \in Coloured : publish_frame_world(rgb)
    BY <1>4
  <2>2. PICK seen : rgb = << >> \/ rgb = Select(all, seen)
    BY <2>1 DEF Coloured
  <2>3. /\ SaveMap(rgb) /\ pcl_w_wait_pub' = << >>
        /\ rgb # << >> => pcl_wait_pub' = << >>
        /\ rgb = << >> => pcl_wait_pub' = all
    BY <2>1 DEF publish_frame_world
  <2>4. /\ InLine(published, pcl_wait_pub, pcl_w_wait_pub, used) /\ Files /\ _pv_list \in Seq(Used)
        /\ (settings.imu_en /\ ~starved) => InPlace
        /\ published \in Seq(Used)
    BY DEF PubInv, Ordered, InLine
  <2>5. /\ InLine(published, all, << >>, used)
        /\ InLine(published \o Select(all, seen), << >>, << >>, used)
        /\ \A u : Within(pcl_wait_pub, u) /\ Within(pcl_w_wait_pub, u) =>
                    Within(all, u) /\ Within(Select(all, seen), u)
        /\ all \in Seq(Used) /\ Select(all, seen) \in Seq(Used)
    BY <2>4, InLineVio
  <2> HIDE DEF all
  <2>6. rgb \in Seq(Used) /\ << >> \in Seq(Used)
    BY <2>2, <2>5, EmptySeq
  <2>7. Files' /\ published' = published \o rgb
    BY <1>1, <2>3, <2>4, <2>6, SaveMapRight
  <2>8. rgb = << >> => published' = published
    BY <2>4, <2>7, ConcatEmptySeq
  <2>9. InLine(published, pcl_wait_pub, pcl_w_wait_pub, used)'
    <3>1. CASE rgb = << >>
      BY <1>1, <2>3, <2>5, <2>8, <3>1
    <3>2. CASE rgb # << >>
      BY <1>1, <2>2, <2>3, <2>5, <2>7, <3>2
    <3> QED
      BY <3>1, <3>2
  <2>10. ASSUME settings.imu_en, ~starved PROVE InPlace'
    <3>1. /\ Within(published, used) /\ Within(pcl_wait_pub, used)
          /\ Within(pcl_w_wait_pub, used) /\ Within(_pv_list, used)
      BY <2>4, <2>10 DEF InPlace
    <3>2. Within(all, used) /\ Within(Select(all, seen), used)
      BY <2>5, <3>1
    <3>3. Within(<< >>, used)
      BY EmptySeq DEF Within
    <3>4. Within(rgb, used)
      BY <2>2, <3>2, <3>3
    <3>5. Within(published \o rgb, used)
      BY <2>4, <2>6, <3>1, <3>4, JoinKeeps
    <3>6. Within(pcl_wait_pub', used)
      BY <2>3, <3>2, <3>3
    <3> QED
      BY <1>1, <2>3, <2>7, <3>1, <3>3, <3>5, <3>6 DEF InPlace
  <2>11. Ordered'
    BY <1>1, <1>2, <2>9 DEF Ordered
  <2> QED
    BY <1>1, <2>4, <2>7, <2>10, <2>11 DEF PubInv
<1> QED
  BY <1>1, <1>3, <1>4 DEF handleVIO

\* When the node is stopped the rest is written.
LEMMA PubInvStop ==
  ASSUME PubInv, Arrived', savePCD
  PROVE  PubInv'
<1>1. /\ running /\ running' = FALSE
      /\ saved' = IF settings.pcd_save_interval < 0 THEN saved \o pcl_wait_save ELSE saved
      /\ UNCHANGED <<settings, published, pcl_wait_pub, pcl_w_wait_pub, pcl_wait_save, used,
                     starved, _pv_list>>
  BY DEF savePCD, history, results
<1>2. /\ Ordered /\ Files /\ _pv_list \in Seq(Used)
      /\ (settings.imu_en /\ ~starved) => InPlace
  BY DEF PubInv
<1>3. Ordered' /\ (InPlace => InPlace')
  BY <1>1, <1>2 DEF Ordered, InPlace
<1>4. saved \in Seq(Used) /\ pcl_wait_save \in Seq(Used) /\ saved \o pcl_wait_save = published
  BY <1>1, <1>2 DEF Files
<1>5. saved \o pcl_wait_save \in Seq(Used)
  BY <1>4, ConcatProperties
<1>6. Files'
  BY <1>1, <1>4, <1>5 DEF Files
<1> QED
  BY <1>1, <1>2, <1>3, <1>6 DEF PubInv

LEMMA PubInvNext == TimeInv /\ TimeInv' /\ PubInv /\ [Next]_vars => PubInv'
<1> SUFFICES ASSUME TimeInv, TimeInv', PubInv, [Next]_vars PROVE PubInv'
  OBVIOUS
<1>1. Arrived'
  BY ArrivedNext DEF TimeInv, PubInv
<1>2. starved => starved'
  BY StaysStarved DEF TimeInv
<1>3. CASE SyncLio \/ SyncOnlyLio
  BY <1>1, <1>2, <1>3, PubInvUpdate
<1>4. CASE SyncLo
  BY <1>1, <1>2, <1>4, PubInvLo
<1>5. CASE SyncVio
  BY <1>1, <1>5, PubInvVio
<1>6. CASE savePCD
  BY <1>1, <1>6, PubInvStop
<1>7. CASE livox_pcl_cbk \/ standard_pcl_cbk \/ imu_cbk \/ img_cbk \/ imu_prop_callback
           \/ ThrowImage \/ UNCHANGED vars
  <2>1. UNCHANGED pubVars
    BY <1>7 DEF livox_pcl_cbk, standard_pcl_cbk, imu_cbk, img_cbk, imu_prop_callback,
       ThrowImage, vars, pubVars, clouds, history, results, node
  <2> QED
    BY <1>1, <2>1, PubInvSame
<1> QED
  BY <1>3, <1>4, <1>5, <1>6, <1>7 DEF Next

LEMMA PubInvHolds == Spec => []PubInv
BY PubInvInit, PubInvNext, TimeInvHolds, PTL DEF Spec

\* No point is published twice, whichever of them the camera sees and however long
\* clouds wait; it is published, and goes into the map, where the state of its own
\* update placed it.  What was published, and nothing else, is in the files.
THEOREM PointsArePublishedOnce == Spec => []PublishedOnce
<1>1. PubInv => PublishedOnce
  <2> SUFFICES ASSUME PubInv PROVE PublishedOnce
    OBVIOUS
  <2>1. /\ published \in Seq(Used) /\ Rising(published) /\ _pv_list \in Seq(Used)
        /\ (settings.imu_en /\ ~starved) => InPlace
    BY DEF PubInv, Ordered, InLine
  <2>2. IsInjective(published)
    <3> SUFFICES ASSUME NEW m \in DOMAIN published, NEW n \in DOMAIN published,
                        published[m] = published[n], m # n
                 PROVE  FALSE
      BY DEF IsInjective
    <3>1. m \in Nat /\ n \in Nat /\ published[m] \in Used /\ published[n] \in Used
      BY <2>1
    <3>2. m < n \/ n < m
      BY <3>1
    <3>3. published[m].time < published[n].time \/ published[n].time < published[m].time
      BY <2>1, <3>2 DEF Rising
    <3>4. published[m].time \in Nat
      BY <3>1 DEF Used
    <3> QED
      BY <3>3, <3>4
  <2>3. ASSUME settings.imu_en, ~starved PROVE Range(published \o _pv_list) \subseteq Range(used)
    <3>1. Within(published, used) /\ Within(_pv_list, used)
      BY <2>1, <2>3 DEF InPlace
    <3>2. Within(published \o _pv_list, used)
      BY <2>1, <3>1, JoinKeeps
    <3> QED
      BY <3>2 DEF Within, Range
  <2>4. Files
    BY DEF PubInv
  <2> QED
    BY <2>2, <2>3, <2>4 DEF PublishedOnce, Files
<1> QED
  BY <1>1, PubInvHolds, PTL

-----------------------------------------------------------------------------
(* LivoMapper: the backward pass *)

Pose == [beg : Int, offset : Int]

\* The points that the pose head moves, and the pass after it
MovedAt(b, poses, pts, hd) ==
  {j \in 1 .. b.at : \A l \in j .. b.at : pts[l].curvature > poses[hd].offset}
PassStep(b, poses, pts, hd) ==
  [at |-> IF 1 \in MovedAt(b, poses, pts, hd) THEN 1
          ELSE b.at - Cardinality(MovedAt(b, poses, pts, hd)),
   by |-> [j \in 1 .. Len(pts) |->
             IF j \in MovedAt(b, poses, pts, hd) THEN Append(b.by[j], hd) ELSE b.by[j]]]

MovedBy(u, poses, pts) ==
  /\ Moves(poses, pts) = u[Len(poses) - 1].by
  /\ u[0] = Unmoved(pts)
  /\ \A m \in 1 .. Len(poses) - 1 : u[m] = PassStep(u[m - 1], poses, pts, Len(poses) - m)

LEMMA MovedAtFinite ==
  ASSUME NEW b, b.at \in Int, NEW poses, NEW pts, NEW hd
  PROVE  /\ IsFiniteSet(MovedAt(b, poses, pts, hd))
         /\ Cardinality(MovedAt(b, poses, pts, hd)) \in Nat
<1>1. IsFiniteSet(1 .. b.at)
  BY FS_Interval
<1>2. MovedAt(b, poses, pts, hd) \subseteq 1 .. b.at
  BY DEF MovedAt
<1>3. IsFiniteSet(MovedAt(b, poses, pts, hd))
  BY <1>1, <1>2, FS_Subset
<1> QED
  BY <1>3, FS_CardinalityType

LEMMA MovesSteps ==
  ASSUME NEW poses \in Seq(Pose), poses # << >>, NEW pts \in Seq(Pt)
  PROVE  \E u : MovedBy(u, poses, pts)
<1> DEFINE L == Len(poses)
           l == L - 1
           n == Len(pts)
           Q == [at : Int, by : [1 .. n -> Seq(Int)]]
           s == [m \in 1 .. l |-> [b \in Q |-> PassStep(b, poses, pts, L - m)]]
           E(f) == f = [m \in 0 .. l |-> IF m = 0 THEN Unmoved(pts)
                                         ELSE PassStep(f[m - 1], poses, pts, L - m)]
<1>1. L \in Nat \ {0} /\ l \in Nat /\ n \in Nat
  BY EmptySeq
<1>2. ASSUME NEW b \in Q, NEW h \in Int PROVE PassStep(b, poses, pts, h) \in Q
  <2> DEFINE M == MovedAt(b, poses, pts, h)
  <2>1. b.at \in Int /\ \A j \in 1 .. n : b.by[j] \in Seq(Int)
    OBVIOUS
  <2>2. Cardinality(M) \in Nat
    BY <2>1, MovedAtFinite
  <2>3. PassStep(b, poses, pts, h)
          = [at |-> IF 1 \in M THEN 1 ELSE b.at - Cardinality(M),
             by |-> [j \in 1 .. n |-> IF j \in M THEN Append(b.by[j], h) ELSE b.by[j]]]
    BY Zenon DEF PassStep
  <2> HIDE DEF M, n
  <2>4. \A j \in 1 .. n : Append(b.by[j], h) \in Seq(Int)
    BY <2>1, AppendProperties
  <2>5. [j \in 1 .. n |-> IF j \in M THEN Append(b.by[j], h) ELSE b.by[j]]
          \in [1 .. n -> Seq(Int)]
    BY <2>1, <2>4
  <2>6. (IF 1 \in M THEN 1 ELSE b.at - Cardinality(M)) \in Int
    BY <2>1, <2>2
  <2> QED
    BY <2>3, <2>5, <2>6
<1>3. Unmoved(pts) \in Q
  <2>1. << >> \in Seq(Int)
    BY EmptySeq
  <2>2. [j \in 1 .. n |-> << >>] \in [1 .. n -> Seq(Int)]
    BY <2>1
  <2> HIDE DEF n
  <2> QED
    BY <1>1, <2>2 DEF Unmoved, n
<1>4. s \in [1 .. l -> [Q -> Q]]
  <2> HIDE DEF Q
  <2>1. \A m \in 1 .. l : L - m \in Int
    BY <1>1
  <2> HIDE DEF l, L
  <2> QED
    BY <1>2, <2>1
<1>5. PICK f \in [0 .. l -> Q] : Built(f, l, Unmoved(pts), s)
  <2> HIDE DEF s, Q, l
  <2> QED
    BY <1>1, <1>3, <1>4, Recursion
<1>6. f[0] = Unmoved(pts) /\ \A m \in 1 .. l : f[m] = PassStep(f[m - 1], poses, pts, L - m)
  <2>1. f[0] = Unmoved(pts) /\ \A m \in 1 .. l : f[m] = s[m][f[m - 1]]
    BY <1>5 DEF Built
  <2> HIDE DEF Q
  <2>2. ASSUME NEW m \in 1 .. l PROVE f[m] = PassStep(f[m - 1], poses, pts, L - m)
    <3>1. f[m - 1] \in Q
      <4>1. m - 1 \in 0 .. l
        BY <1>1
      <4> HIDE DEF l
      <4> QED
        BY <1>5, <4>1
    <3> HIDE DEF l, L
    <3> QED
      BY <2>1, <3>1
  <2> QED
    BY <2>1, <2>2
<1> HIDE DEF s
<1>7. E(f)
  <2> HIDE DEF Q, l, L
  <2>1. f = [m \in 0 .. l |-> f[m]]
    BY <1>5
  <2>2. \A m \in 0 .. l : m = 0 \/ m \in 1 .. l
    BY <1>1
  <2>3. \A m \in 0 .. l : f[m] = IF m = 0 THEN Unmoved(pts)
                                 ELSE PassStep(f[m - 1], poses, pts, L - m)
    BY <1>6, <2>2
  <2> QED
    BY <2>1, <2>3
<1> DEFINE F == CHOOSE g : E(g)
<1>8. Moves(poses, pts) = F[l].by
  BY Zenon DEF Moves, PassStep, MovedAt
<1>9. E(F)
  <2> HIDE DEF E
  <2> QED
    BY <1>7
<1> HIDE DEF F
<1>10. F[0] = Unmoved(pts) /\ \A m \in 1 .. l : F[m] = PassStep(F[m - 1], poses, pts, L - m)
  <2>1. 0 \in 0 .. l /\ \A m \in 1 .. l : m \in 0 .. l /\ m # 0
    BY <1>1
  <2> HIDE DEF l, L
  <2> QED
    BY <1>9, <2>1
<1>11. MovedBy(F, poses, pts)
  BY <1>8, <1>10 DEF MovedBy
<1> QED
  BY <1>11

\* The last pose from lo on that is before a point
MovedFrom(h, poses, pts, j, lo) ==
  /\ h \in lo .. Len(poses) - 1 /\ pts[j].curvature > poses[h].offset
  /\ \A g \in lo .. Len(poses) - 1 : pts[j].curvature > poses[g].offset => g <= h

\* The pass, when it has come to the pose lo
Pass(b, poses, pts, lo) ==
  /\ b.at \in 1 .. Len(pts) /\ b.by = [j \in 1 .. Len(pts) |-> b.by[j]]
  /\ \A j \in 2 .. Len(pts) :
       \/ /\ j <= b.at /\ b.by[j] = << >>
          /\ \A h \in lo .. Len(poses) - 1 : ~(pts[j].curvature > poses[h].offset)
       \/ b.at < j /\ \E h : MovedFrom(h, poses, pts, j, lo) /\ b.by[j] = <<h>>

\* Points in order: the pose moves those that are after it.
LEMMA MovedAtRight ==
  ASSUME NEW poses, NEW pts \in Seq(Pt), NEW hd, poses[hd].offset \in Int,
         \A j, k \in 1 .. Len(pts) : j < k => pts[j].curvature < pts[k].curvature,
         NEW b, b.at \in 1 .. Len(pts)
  PROVE  /\ \A j \in 1 .. b.at : j \in MovedAt(b, poses, pts, hd)
                                   <=> pts[j].curvature > poses[hd].offset
         /\ \A j \in 1 .. b.at : j \in MovedAt(b, poses, pts, hd) =>
              b.at - Cardinality(MovedAt(b, poses, pts, hd)) < j
         /\ \A j \in 1 .. b.at : j \notin MovedAt(b, poses, pts, hd) =>
              j <= b.at - Cardinality(MovedAt(b, poses, pts, hd))
         /\ b.at - Cardinality(MovedAt(b, poses, pts, hd)) <= b.at
         /\ Cardinality(MovedAt(b, poses, pts, hd)) \in Nat
<1> DEFINE a == b.at
           o == poses[hd].offset
           M == MovedAt(b, poses, pts, hd)
           C == Cardinality(M)
<1>1. /\ Len(pts) \in Nat /\ a \in 1 .. Len(pts) /\ a \in Nat /\ a >= 1 /\ o \in Int
      /\ \A j \in 1 .. Len(pts) : pts[j].curvature \in Int
  <2>1. Len(pts) \in Nat /\ \A j \in 1 .. Len(pts) : pts[j] \in Pt
    OBVIOUS
  <2>2. \A j \in 1 .. Len(pts) : pts[j].curvature \in Int
    BY <2>1 DEF Pt
  <2> QED
    BY <2>1, <2>2
<1>2. IsFiniteSet(M) /\ C \in Nat
  BY <1>1, MovedAtFinite
<1>3. M = {j \in 1 .. a : \A l \in j .. a : pts[l].curvature > o}
  BY DEF MovedAt
<1> HIDE DEF M, C, o, a
<1>4. \A j \in 1 .. a : j \in M <=> pts[j].curvature > o
  <2> SUFFICES ASSUME NEW j \in 1 .. a PROVE j \in M <=> pts[j].curvature > o
    OBVIOUS
  <2>1. j \in M => pts[j].curvature > o
    <3>1. j \in j .. a
      BY <1>1
    <3> QED
      BY <1>3, <3>1
  <2>2. ASSUME pts[j].curvature > o, NEW l \in j .. a PROVE pts[l].curvature > o
    <3>1. j \in 1 .. Len(pts) /\ l \in 1 .. Len(pts)
      BY <1>1
    <3>2. pts[j].curvature < pts[l].curvature \/ l = j
      BY <1>1, <3>1
    <3> QED
      BY <1>1, <2>2, <3>1, <3>2
  <2> QED
    BY <1>3, <2>1, <2>2
<1>5. ASSUME NEW j \in 1 .. a, j \in M PROVE a - C < j
  <2>1. j .. a \subseteq M
    <3> SUFFICES ASSUME NEW l \in j .. a PROVE l \in M
      OBVIOUS
    <3>1. l \in 1 .. a /\ j \in 1 .. Len(pts) /\ l \in 1 .. Len(pts)
      BY <1>1
    <3>2. pts[j].curvature > o /\ (l = j \/ pts[j].curvature < pts[l].curvature)
      BY <1>1, <1>4, <1>5, <3>1
    <3> QED
      BY <1>1, <1>4, <3>1, <3>2
  <2>2. Cardinality(j .. a) <= C /\ Cardinality(j .. a) \in Nat
    BY <1>2, <2>1, FS_Subset, FS_CardinalityType DEF C
  <2>3. Cardinality(j .. a) = a - j + 1
    BY <1>1, FS_Interval
  <2> QED
    BY <1>1, <1>2, <2>2, <2>3
<1>6. ASSUME NEW j \in 1 .. a, j \notin M PROVE j <= a - C
  <2>1. M \subseteq j + 1 .. a
    <3> SUFFICES ASSUME NEW l \in M PROVE l \in j + 1 .. a
      OBVIOUS
    <3>1. l \in 1 .. a /\ j \in 1 .. Len(pts) /\ l \in 1 .. Len(pts)
      BY <1>1, <1>3
    <3>2. ~(pts[j].curvature > o) /\ pts[l].curvature > o
      BY <1>4, <1>6, <3>1
    <3>3. ~(l <= j)
      <4> SUFFICES ASSUME l <= j PROVE FALSE
        OBVIOUS
      <4>1. l = j \/ pts[l].curvature < pts[j].curvature
        BY <1>1, <3>1
      <4> QED
        BY <1>1, <3>1, <3>2, <4>1
    <3> QED
      BY <1>1, <3>1, <3>3
  <2>2. IsFiniteSet(j + 1 .. a) /\ Cardinality(j + 1 .. a) = IF j + 1 > a THEN 0 ELSE a - (j + 1) + 1
    <3>1. j + 1 \in Int /\ a \in Int
      BY <1>1
    <3> QED
      BY <3>1, FS_Interval
  <2>3. C <= Cardinality(j + 1 .. a)
    BY <2>1, <2>2, FS_Subset DEF C
  <2> QED
    BY <1>1, <1>2, <2>2, <2>3
<1>7. a - C <= a
  BY <1>1, <1>2
<1> QED
  BY <1>2, <1>4, <1>5, <1>6, <1>7 DEF M, C, o, a

LEMMA PassStepRight ==
  ASSUME NEW poses \in Seq(Pose), NEW pts \in Seq(Pt),
         \A j, k \in 1 .. Len(pts) : j < k => pts[j].curvature < pts[k].curvature,
         NEW hd \in 1 .. Len(poses) - 1, NEW b, Pass(b, poses, pts, hd + 1)
  PROVE  Pass(PassStep(b, poses, pts, hd), poses, pts, hd)
<1> DEFINE a == b.at
           o == poses[hd].offset
           M == MovedAt(b, poses, pts, hd)
           r == PassStep(b, poses, pts, hd)
           n == Len(pts)
           C == Cardinality(M)
           L == Len(poses)
<1>1. /\ n \in Nat /\ L \in Nat /\ a \in 1 .. n /\ a \in Nat /\ hd \in Nat /\ o \in Int
      /\ \A j \in 1 .. n : pts[j].curvature \in Int
  <2>1. a \in 1 .. n
    BY DEF Pass
  <2>2. n \in Nat /\ L \in Nat /\ \A j \in 1 .. n : pts[j] \in Pt
    OBVIOUS
  <2>3. \A j \in 1 .. n : pts[j].curvature \in Int
    BY <2>2 DEF Pt
  <2>4. poses[hd] \in Pose
    BY <2>2
  <2>5. o \in Int
    BY <2>4 DEF Pose
  <2> QED
    BY <2>1, <2>2, <2>3, <2>5
<1>2. /\ \A j \in 1 .. a : j \in M <=> pts[j].curvature > o
      /\ \A j \in 1 .. a : j \in M => a - C < j
      /\ \A j \in 1 .. a : j \notin M => j <= a - C
      /\ a - C <= a /\ C \in Nat
  <2>1. b.at \in 1 .. Len(pts) /\ poses[hd].offset \in Int
    BY <1>1
  <2> QED
    BY <2>1, MovedAtRight
<1>3. r = [at |-> IF 1 \in M THEN 1 ELSE a - C,
           by |-> [j \in 1 .. n |-> IF j \in M THEN Append(b.by[j], hd) ELSE b.by[j]]]
  BY Zenon DEF PassStep
<1>4. M \subseteq 1 .. a
  BY DEF MovedAt
<1> HIDE DEF a, M, r, C, o
<1>5. r.at = IF 1 \in M THEN 1 ELSE a - C
  BY <1>3
<1>6. r.at \in 1 .. a
  BY <1>1, <1>2, <1>5
<1>7. \A j \in 1 .. n : r.by[j] = IF j \in M THEN Append(b.by[j], hd) ELSE b.by[j]
  BY <1>3
<1>8. r.by = [j \in 1 .. n |-> r.by[j]]
  BY <1>3
<1>9. ASSUME NEW j \in 2 .. n
      PROVE  \/ /\ j <= r.at /\ r.by[j] = << >>
                /\ \A h \in hd .. L - 1 : ~(pts[j].curvature > poses[h].offset)
             \/ r.at < j /\ \E h : MovedFrom(h, poses, pts, j, hd) /\ r.by[j] = <<h>>
  <2>1. j \in 1 .. n /\ \A h \in hd .. L - 1 : h = hd \/ h \in hd + 1 .. L - 1
    BY <1>1
  <2>2. CASE /\ j <= a /\ b.by[j] = << >>
             /\ \A h \in hd + 1 .. L - 1 : ~(pts[j].curvature > poses[h].offset)
    <3>1. j \in 1 .. a /\ 1 \in 1 .. a /\ 1 \in 1 .. n /\ 1 < j
      BY <1>1, <2>2
    <3>2. CASE j \in M
      <4>1. r.at < j
        BY <1>2, <1>5, <3>1, <3>2
      <4>2. r.by[j] = <<hd>>
        <5>1. r.by[j] = Append(<< >>, hd)
          BY <1>7, <2>1, <2>2, <3>2
        <5> QED
          BY <5>1
      <4>3. pts[j].curvature > o /\ hd \in hd .. L - 1
        BY <1>1, <1>2, <3>1, <3>2
      <4>4. MovedFrom(hd, poses, pts, j, hd)
        BY <1>1, <2>1, <2>2, <4>3 DEF MovedFrom, o
      <4> QED
        BY <4>1, <4>2, <4>4
    <3>3. CASE j \notin M
      <4>1. ~(pts[j].curvature > o)
        BY <1>2, <3>1, <3>3
      <4>2. 1 \notin M
        <5>1. pts[1].curvature < pts[j].curvature
          BY <2>1, <3>1
        <5>2. ~(pts[1].curvature > o)
          BY <1>1, <2>1, <3>1, <4>1, <5>1
        <5> QED
          BY <1>2, <3>1, <5>2
      <4>3. j <= r.at
        BY <1>2, <1>5, <3>1, <3>3, <4>2
      <4>4. r.by[j] = << >>
        BY <1>7, <2>1, <2>2, <3>3
      <4> QED
        BY <2>1, <2>2, <4>1, <4>3, <4>4 DEF o
    <3> QED
      BY <3>2, <3>3
  <2>3. CASE a < j /\ \E h : MovedFrom(h, poses, pts, j, hd + 1) /\ b.by[j] = <<h>>
    <3>1. PICK h : MovedFrom(h, poses, pts, j, hd + 1) /\ b.by[j] = <<h>>
      BY <2>3
    <3>2. j \notin M
      BY <1>1, <1>4, <2>3
    <3>3. r.by[j] = <<h>> /\ r.at < j
      BY <1>1, <1>6, <1>7, <2>1, <2>3, <3>1, <3>2
    <3>4. h \in hd .. L - 1 /\ hd <= h
      BY <1>1, <3>1 DEF MovedFrom
    <3>5. MovedFrom(h, poses, pts, j, hd)
      BY <2>1, <3>1, <3>4 DEF MovedFrom
    <3> QED
      BY <3>3, <3>5
  <2> QED
    BY <2>2, <2>3 DEF Pass, a
<1>10. r.at \in 1 .. n
  BY <1>1, <1>6
<1> QED
  BY <1>8, <1>9, <1>10 DEF Pass, r

\* Every point after a pose is moved once, from the last one that it is after.
LEMMA MovesRight ==
  ASSUME NEW poses \in Seq(Pose), poses # << >>, NEW pts \in Seq(Pt), pts # << >>,
         \A j, k \in 1 .. Len(pts) : j < k => pts[j].curvature < pts[k].curvature,
         NEW j \in 2 .. Len(pts),
         NEW f \in 1 .. Len(poses) - 1, pts[j].curvature > poses[f].offset
  PROVE  \E h : MovedFrom(h, poses, pts, j, 1) /\ Moves(poses, pts)[j] = <<h>>
<1> DEFINE L == Len(poses)
           l == L - 1
           n == Len(pts)
<1>1. L \in Nat \ {0} /\ l \in Nat /\ n \in Nat \ {0}
  BY EmptySeq
<1>2. PICK u : MovedBy(u, poses, pts)
  BY MovesSteps
<1> DEFINE T == {m \in 0 .. l : Pass(u[m], poses, pts, L - m)}
<1>3. 0 \in T
  <2>1. u[0] = [at |-> n, by |-> [k \in 1 .. n |-> << >>]]
    BY <1>2, Zenon DEF MovedBy, Unmoved
  <2> HIDE DEF n
  <2>2. u[0].at = n /\ u[0].by = [k \in 1 .. n |-> << >>]
    BY <2>1
  <2>3. \A k \in 2 .. n : k \in 1 .. n /\ k <= n
    BY <1>1
  <2>4. L - 0 .. L - 1 = {}
    BY <1>1
  <2>5. n \in 1 .. n /\ u[0].by = [k \in 1 .. n |-> u[0].by[k]] /\ \A k \in 2 .. n : u[0].by[k] = << >>
    BY <1>1, <2>2, <2>3
  <2>6. Pass(u[0], poses, pts, L - 0)
    BY <2>2, <2>3, <2>4, <2>5 DEF Pass, n
  <2> QED
    BY <1>1, <2>6
<1>4. ASSUME NEW m \in 1 .. l, m - 1 \in T PROVE m \in T
  <2>1. u[m] = PassStep(u[m - 1], poses, pts, L - m)
    BY <1>2 DEF MovedBy
  <2>2. L - m \in 1 .. L - 1 /\ L - (m - 1) = (L - m) + 1 /\ m \in 0 .. l
    BY <1>1
  <2>3. Pass(u[m - 1], poses, pts, (L - m) + 1)
    BY <1>4, <2>2
  <2> DEFINE hd == L - m
  <2>4. hd \in 1 .. Len(poses) - 1 /\ Pass(u[m - 1], poses, pts, hd + 1)
    BY <2>2, <2>3
  <2> HIDE DEF hd
  <2>5. Pass(PassStep(u[m - 1], poses, pts, hd), poses, pts, hd)
    BY <2>4, PassStepRight
  <2> QED
    BY <2>1, <2>2, <2>5 DEF hd
<1>5. l \in T
  <2> HIDE DEF T, l
  <2>1. \A m \in 0 .. l : m \in T
    BY <1>1, <1>3, <1>4, UpTo
  <2> QED
    BY <1>1, <2>1
<1>6. Pass(u[l], poses, pts, 1)
  <2>1. L - l = 1
    BY <1>1
  <2> HIDE DEF l, L
  <2> QED
    BY <1>5, <2>1
<1>7. Moves(poses, pts) = u[l].by
  BY <1>2 DEF MovedBy
<1> QED
  BY <1>6, <1>7 DEF Pass


\* The poses of an update: from f on, those between beg and its end
PosesBy(poses, beg, f) ==
  /\ poses \in Seq(Pose) /\ f \in 1 .. Len(poses) /\ poses[f].offset = 0
  /\ \A k \in f .. Len(poses) : poses[k].beg = beg

LEMMA OffsetIsInt ==
  ASSUME NEW v \in Seq(Nat), NEW beg \in Int, NEW end \in Int, NEW k \in 1 .. Len(v) - 1
  PROVE  Offset(v, k, beg, end) \in Int
<1>1. v[k + 1] \in Nat
  <2>1. k + 1 \in 1 .. Len(v)
    OBVIOUS
  <2> QED
    BY <2>1
<1> QED
  BY <1>1 DEF Offset

LEMMA KeptPoses ==
  ASSUME IMUpose \in Seq(Pose), last_prop_end_time \in Int, NEW v \in Seq(Nat), v # << >>,
         Ascending(v), NEW end \in Int, NEW beg, beg = last_prop_end_time,
         NEW kept, kept = FirstPoses \o [n \in 1 .. Len(Steps(v, beg)) |->
                            [beg |-> beg, offset |-> Offset(v, Steps(v, beg)[n], beg, end)]]
  PROVE  /\ PosesBy(kept, beg, Len(IMUpose) + 1)
         /\ Len(kept) = Len(IMUpose) + 1 + Len(Steps(v, beg)) /\ Len(IMUpose) \in Nat
<1> DEFINE q == Steps(v, beg)
           l == Len(q)
           m == Len(IMUpose)
           x == <<[beg |-> beg, offset |-> 0]>>
           y == [n \in 1 .. l |-> [beg |-> beg, offset |-> Offset(v, q[n], beg, end)]]
           a == IMUpose \o x
<1>1. PICK s \in 0 .. Len(v) - 1 : Stretch(q, s, Len(v) - 1)
  BY StepsRight
<1>2. Len(v) \in Nat \ {0} /\ m \in Nat
  BY EmptySeq
<1>3. l \in Nat /\ \A n \in 1 .. l : q[n] \in 1 .. Len(v) - 1
  <2>1. l = Len(v) - 1 - s /\ \A n \in 1 .. l : q[n] = s + n
    BY <1>1, <1>2 DEF Stretch
  <2> HIDE DEF q, l
  <2>2. l \in Nat
    BY <1>2, <2>1
  <2>3. ASSUME NEW n \in 1 .. l PROVE s + n \in 1 .. Len(v) - 1
    BY <1>2, <2>1
  <2> QED
    BY <2>1, <2>2, <2>3
<1>4. \A n \in 1 .. l : Offset(v, q[n], beg, end) \in Int
  <2> SUFFICES ASSUME NEW n \in 1 .. l PROVE Offset(v, q[n], beg, end) \in Int
    OBVIOUS
  <2> DEFINE k == q[n]
  <2>1. k \in 1 .. Len(v) - 1 /\ beg \in Int
    BY <1>3
  <2> HIDE DEF k
  <2>2. Offset(v, k, beg, end) \in Int
    BY <2>1, OffsetIsInt
  <2> QED
    BY <2>2 DEF k
<1>5. /\ y \in Seq(Pose) /\ Len(y) = l
      /\ \A n \in 1 .. l : y[n].beg = beg
  <2> HIDE DEF q, l
  <2>1. \A n \in 1 .. l : [beg |-> beg, offset |-> Offset(v, q[n], beg, end)] \in Pose
    BY <1>4 DEF Pose
  <2> QED
    BY <1>3, <2>1
<1>6. /\ x \in Seq(Pose) /\ Len(x) = 1 /\ x[1].beg = beg /\ x[1].offset = 0
  BY DEF Pose
<1> HIDE DEF x, y, q, l
<1>7. /\ a \in Seq(Pose) /\ Len(a) = m + Len(x)
      /\ \A k \in 1 .. m + Len(x) : a[k] = IF k <= m THEN IMUpose[k] ELSE x[k - m]
  BY <1>6, ConcatProperties
<1>8. kept = a \o y
  BY DEF FirstPoses, x, y, q, l
<1> HIDE DEF a, m
<1>9. a[m + 1] = x[1] /\ Len(a) = m + 1
  <2>1. m + 1 \in 1 .. m + Len(x) /\ ~(m + 1 <= m) /\ (m + 1) - m = 1
    BY <1>2, <1>6
  <2> QED
    BY <1>6, <1>7, <2>1
<1>10. /\ a \o y \in Seq(Pose) /\ Len(a \o y) = Len(a) + Len(y)
       /\ \A k \in 1 .. Len(a) + Len(y) : (a \o y)[k] = IF k <= Len(a) THEN a[k] ELSE y[k - Len(a)]
  <2>1. a \in Seq(Pose) /\ y \in Seq(Pose)
    BY <1>5, <1>7
  <2> QED
    BY <2>1, ConcatProperties
<1>11. kept \in Seq(Pose) /\ Len(kept) = m + 1 + l
  BY <1>2, <1>5, <1>8, <1>9, <1>10
<1>12. \A k \in 1 .. m + 1 + l : kept[k] = IF k <= m + 1 THEN a[k] ELSE y[k - (m + 1)]
  BY <1>2, <1>3, <1>5, <1>8, <1>9, <1>10
<1>13. kept[m + 1] = x[1] /\ m + 1 \in 1 .. m + 1 + l
  <2>1. m + 1 \in 1 .. m + 1 + l /\ m + 1 <= m + 1
    BY <1>2, <1>3
  <2> QED
    BY <1>9, <1>12, <2>1
<1>14. ASSUME NEW k \in m + 1 .. m + 1 + l PROVE kept[k].beg = beg
  <2>1. CASE k = m + 1
    BY <1>6, <1>13, <2>1
  <2>2. CASE k # m + 1
    <3>1. k \in 1 .. m + 1 + l /\ ~(k <= m + 1) /\ k - (m + 1) \in 1 .. l
      BY <1>2, <1>3, <2>2
    <3> QED
      BY <1>5, <1>12, <3>1
  <2> QED
    BY <2>1, <2>2
<1>15. PosesBy(kept, beg, m + 1)
  BY <1>6, <1>11, <1>13, <1>14 DEF PosesBy
<1> QED
  BY <1>2, <1>11, <1>15 DEF m, l, q

\* The move of a point is from the last pose before it
LastBefore(poses, pts, j) ==
  Moves(poses, pts)[j] =
    <<Max({k \in 1 .. Len(poses) - 1 : poses[k].beg + poses[k].offset < pts[j].time})>>

\* Points with their own times as offsets are moved from the last pose before them.
LEMMA MovedFromLast ==
  ASSUME NEW poses, NEW beg \in Int, NEW f, PosesBy(poses, beg, f), f < Len(poses),
         NEW pts \in Seq(PtsAt(beg)), NEW j \in 2 .. Len(pts), pts[j].curvature > 0,
         \A k, m \in 1 .. Len(pts) : k < m => pts[k].time < pts[m].time
  PROVE  LastBefore(poses, pts, j)
<1> DEFINE c == pts[j].curvature
           B == {k \in 1 .. Len(poses) - 1 : poses[k].beg + poses[k].offset < pts[j].time}
<1>1. /\ poses \in Seq(Pose) /\ Len(poses) \in Nat /\ f \in 1 .. Len(poses) - 1
      /\ poses[f].offset = 0
      /\ \A k \in 1 .. Len(poses) : poses[k] \in Pose
      /\ \A k \in f .. Len(poses) : poses[k].beg = beg
  BY DEF PosesBy
<1>2. \A k \in 1 .. Len(poses) : poses[k].beg \in Int /\ poses[k].offset \in Int
  BY <1>1 DEF Pose
<1>3. /\ Len(pts) \in Nat
      /\ \A k \in 1 .. Len(pts) : pts[k] \in Pt /\ pts[k].time = beg + pts[k].curvature
  BY DEF PtsAt
<1>4. pts \in Seq(Pt) /\ pts # << >>
  <2>1. Len(pts) \in Nat /\ pts = [k \in 1 .. Len(pts) |-> pts[k]]
    OBVIOUS
  <2>2. pts \in Seq(Pt)
    BY <1>3, <2>1
  <2>3. Len(pts) # 0
    BY <1>3
  <2> QED
    BY <2>2, <2>3, EmptySeq
<1>5. \A k \in 1 .. Len(pts) : pts[k].curvature \in Int
  BY <1>3 DEF Pt
<1>6. \A k, m \in 1 .. Len(pts) : k < m => pts[k].curvature < pts[m].curvature
  BY <1>3, <1>5
<1>7. poses # << >> /\ pts[j].curvature > poses[f].offset
  <2>1. Len(poses) # 0
    BY <1>1
  <2> QED
    BY <1>1, <2>1, EmptySeq
<1>8. PICK h : MovedFrom(h, poses, pts, j, 1) /\ Moves(poses, pts)[j] = <<h>>
  BY <1>1, <1>4, <1>6, <1>7, MovesRight
<1>9. /\ h \in 1 .. Len(poses) - 1 /\ c > poses[h].offset
      /\ \A g \in 1 .. Len(poses) - 1 : c > poses[g].offset => g <= h
  BY <1>8 DEF MovedFrom
<1>10. j \in 1 .. Len(pts) /\ c \in Int /\ pts[j].time = beg + c
  BY <1>3, <1>5
<1>11. f <= h
  BY <1>1, <1>7, <1>9
<1>12. h \in B
  <2>1. h \in f .. Len(poses) /\ h \in 1 .. Len(poses)
    BY <1>1, <1>9, <1>11
  <2>2. poses[h].beg = beg /\ poses[h].offset \in Int
    BY <1>1, <1>2, <2>1
  <2> QED
    BY <1>9, <1>10, <2>2
<1>13. ASSUME NEW g \in B PROVE g <= h
  <2>1. g \in 1 .. Len(poses) - 1 /\ poses[g].beg + poses[g].offset < beg + c
    BY <1>10
  <2>2. CASE g < f
    BY <1>1, <1>9, <1>11, <2>1, <2>2
  <2>3. CASE f <= g
    <3>1. g \in f .. Len(poses) /\ g \in 1 .. Len(poses)
      BY <1>1, <2>1, <2>3
    <3>2. poses[g].beg = beg /\ poses[g].offset \in Int
      BY <1>1, <1>2, <3>1
    <3>3. c > poses[g].offset
      BY <1>10, <2>1, <3>2
    <3> QED
      BY <1>9, <2>1, <3>3
  <2> QED
    BY <1>1, <2>1, <2>2, <2>3
<1>14. B \subseteq Int /\ h \in Int
  BY <1>9
<1> HIDE DEF B
<1>15. Max(B) = h
  <2>1. \A g \in B : h >= g
    BY <1>13, <1>14
  <2>2. \E m \in B : \A g \in B : m >= g
    BY <1>12, <2>1
  <2>3. Max(B) \in B /\ \A g \in B : Max(B) >= g
    BY <2>2, Zenon DEF Max
  <2>4. Max(B) <= h /\ Max(B) >= h /\ Max(B) \in Int
    BY <1>12, <1>13, <1>14, <2>3
  <2> QED
    BY <1>14, <2>4
<1> QED
  BY <1>8, <1>15 DEF B, LastBefore

MoveInv == IMUpose \in Seq(Pose) /\ MovedOnce

LEMMA MoveInvSame ==
  ASSUME MoveInv, UNCHANGED <<IMUpose, update, updates, starved, settings>>
  PROVE  MoveInv'
<1>1. slam_mode_' = slam_mode_
  BY DEF slam_mode_
<1> QED
  BY <1>1 DEF MoveInv, MovedOnce

LEMMA MoveInvUpdate ==
  ASSUME CutInv, UpdateInv, MoveInv, (used \in Seq(Used) /\ Rising(used))',
         NEW samples, NEW pts, NEW end, UpdateBy(samples, pts, end)
  PROVE  MoveInv'
<1> DEFINE v == v_imu(samples)
           beg == last_prop_end_time
           kept == FirstPoses \o [n \in 1 .. Len(Steps(v, beg)) |->
                            [beg |-> beg, offset |-> Offset(v, Steps(v, beg)[n], beg, end)]]
           f == Len(IMUpose) + 1
<1>1. /\ Process2(samples, pts, end) /\ end \in Int /\ samples \in Seq(Nat) /\ pts \in Seq(Pt)
      /\ v \in Seq(Nat) /\ v # << >> /\ Ascending(v)
      /\ Use(pts, end) /\ settings' = settings /\ settings.imu_en
  BY DEF UpdateBy, PoppedBy, node
<1>2. /\ last_prop_end_time \in Int /\ updates \in Nat /\ used \in Seq(Used)
      /\ IMUpose \in Seq(Pose)
  BY DEF CutInv, TypeRight, MoveInv
<1>3. slam_mode_' = slam_mode_
  BY <1>1 DEF slam_mode_
<1>4. CASE imu_need_init
  <2>1. UNCHANGED <<IMUpose, update, updates, starved>>
    BY <1>1, <1>4 DEF Process2, IMU_init
  <2> QED
    BY <1>1, <2>1, MoveInvSame
<1>5. CASE ~imu_need_init
  <2>1. UndistortPcl(samples, pts, end)
    BY <1>1, <1>5 DEF Process2
  <2>2. /\ IMUpose' = IF pts = << >> THEN kept ELSE << >>
        /\ update' = [beg |-> beg, end |-> end, points |-> pts, poses |-> kept,
                      moves |-> IF pts = << >> THEN << >> ELSE Moves(kept, pts)]
        /\ updates' = updates + 1
        /\ starved' = (starved \/ Len(Steps(v, beg)) < 2)
    BY <2>1, Zenon DEF UndistortPcl
  <2> HIDE DEF v, kept
  <2>3. PosesBy(kept, beg, f) /\ Len(kept) = f + Len(Steps(v, beg)) /\ Len(IMUpose) \in Nat
    BY <1>1, <1>2, KeptPoses DEF kept
  <2>4. IMUpose' \in Seq(Pose)
    <3>1. << >> \in Seq(Pose)
      BY EmptySeq
    <3> QED
      BY <2>2, <2>3, <3>1 DEF PosesBy
  <2>5. MovedOnce'
    <3> DEFINE B(j) == {k \in 1 .. Len(kept) - 1 :
                          kept[k].beg + kept[k].offset < pts[j].time}
    <3>1. update'.points = pts /\ update'.poses = kept
          /\ update'.moves = IF pts = << >> THEN << >> ELSE Moves(kept, pts)
      BY <2>2
    <3>2. ASSUME slam_mode_ = "LIVO", updates' > 1, ~starved', NEW j \in 2 .. Len(pts),
                 pts[j].curvature > 0
          PROVE  Moves(kept, pts)[j] = <<Max(B(j))>> /\ pts # << >>
      <4>1. updates > 0
        BY <1>2, <2>2, <3>2
      <4>2. last_lio_update_time = last_prop_end_time /\ last_prop_end_time \in Nat
        BY <1>1, <4>1 DEF UpdateInv
      <4>3. LastUpdate = last_prop_end_time
        BY <4>2 DEF LastUpdate
      <4>4. pts \in Seq(PtsAt(beg))
        BY <3>2, <4>1, <4>3 DEF UpdateBy
      <4>5. \A k, m \in 1 .. Len(pts) : k < m => pts[k].time < pts[m].time
        <5> DEFINE K == Placed(pts, end)
        <5>1. used' = used \o K
          BY <1>1, <1>2, UseRight
        <5>2. /\ K \in Seq(Used) /\ Len(K) = Len(pts)
              /\ \A n \in 1 .. Len(pts) : K[n] = [time |-> pts[n].time, at |-> end]
          BY <1>1, PlacedRight
        <5> HIDE DEF K
        <5>3. Rising(used \o K)
          BY <5>1
        <5>4. Rising(K)
          BY <1>2, <5>2, <5>3, JoinRising
        <5>5. DOMAIN K = 1 .. Len(pts)
          BY <5>2
        <5>6. ASSUME NEW n \in 1 .. Len(pts) PROVE K[n].time = pts[n].time
          <6> DEFINE t == pts[n].time
          <6>1. K[n] = [time |-> t, at |-> end]
            BY <5>2
          <6> HIDE DEF t
          <6>2. K[n].time = t
            BY <6>1
          <6> QED
            BY <6>2 DEF t
        <5> QED
          BY <5>4, <5>5, <5>6 DEF Rising
      <4>6. f < Len(kept)
        <5>1. Len(Steps(v, beg)) \in Nat
          BY <1>1, <1>2, ElapsedIsInt
        <5>2. ~(Len(Steps(v, beg)) < 2)
          BY <2>2, <3>2
        <5> QED
          BY <2>3, <5>1, <5>2
      <4>7. pts # << >>
        <5>1. Len(pts) \in Nat /\ Len(pts) # 0
          BY <1>1
        <5> QED
          BY <5>1, EmptySeq
      <4>8. beg \in Int /\ PosesBy(kept, beg, f) /\ pts[j].curvature > 0
        BY <1>2, <2>3, <3>2
      <4> HIDE DEF f, beg
      <4>9. LastBefore(kept, pts, j)
        BY <4>4, <4>5, <4>6, <4>8, MovedFromLast
      <4> QED
        BY <4>7, <4>9 DEF LastBefore
    <3> QED
      BY <1>3, <3>1, <3>2, Zenon DEF MovedOnce
  <2> QED
    BY <2>4, <2>5 DEF MoveInv
<1> QED
  BY <1>4, <1>5

LEMMA MoveInvNext == TimeInv /\ (CutInv /\ Arrived)' /\ MoveInv /\ [Next]_vars => MoveInv'
<1> SUFFICES ASSUME TimeInv, (CutInv /\ Arrived)', MoveInv, [Next]_vars PROVE MoveInv'
  OBVIOUS
<1>1. CutInv /\ ImuInv /\ UpdateInv
  BY DEF TimeInv
<1>2. (used \in Seq(Used) /\ Rising(used))'
  BY UsedRises, PTL
<1>3. CASE SyncLio \/ SyncOnlyLio
  BY <1>1, <1>2, <1>3, SyncLioIsUpdate, SyncOnlyLioIsUpdate, MoveInvUpdate
<1>4. CASE livox_pcl_cbk \/ standard_pcl_cbk \/ imu_cbk \/ img_cbk \/ imu_prop_callback
           \/ ThrowImage \/ SyncVio \/ SyncLo \/ savePCD \/ UNCHANGED vars
  <2>1. UNCHANGED <<IMUpose, update, updates, starved, settings>>
    BY <1>4 DEF livox_pcl_cbk, standard_pcl_cbk, imu_cbk, img_cbk, imu_prop_callback,
       ThrowImage, SyncVio, SyncLo, savePCD, vars, imuProcess, history, node
  <2> QED
    BY <2>1, MoveInvSame
<1> QED
  BY <1>3, <1>4 DEF Next

\* In every update but the first each point is moved exactly once, from the last
\* pose before it, as long as every image has two samples: the backward pass over
\* the poses and the points stays in step, whatever an update without points left.
THEOREM PointsAreMovedOnce == Spec => []MovedOnce
<1>1. Init => MoveInv
  <2> SUFFICES ASSUME Init PROVE MoveInv
    OBVIOUS
  <2>1. IMUpose = << >> /\ updates = 0
    BY DEF Init, ImuProcessInit
  <2>2. << >> \in Seq(Pose)
    BY EmptySeq
  <2> QED
    BY <2>1, <2>2 DEF MoveInv, MovedOnce
<1>2. PubInv => Arrived
  BY DEF PubInv
<1>3. MoveInv => MovedOnce
  BY DEF MoveInv
<1> QED
  BY <1>1, <1>2, <1>3, MoveInvNext, TimeInvHolds, PubInvHolds, CutInvHolds, PTL DEF Spec

=============================================================================
