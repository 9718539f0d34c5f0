--------------------------- MODULE VoxelMap_proofs ---------------------------
(***************************************************************************)
(* The voxel map is consistent for any positions, poses, voxel size and    *)
(* thresholds, and trees of any depth.  The invariant is a statement of    *)
(* each node, NodeRight, which says where in its life the node stands,     *)
(* and one of the tree, Closed: with a node there are the nodes on the way *)
(* to it.  Both need to know what the way down is (PassedShape), a         *)
(* recursive function, so the first section has induction over 0 .. m.     *)
(***************************************************************************)
EXTENDS VoxelMap, TLAPS, NaturalsInduction, SequenceTheorems, WellFoundedInduction

-----------------------------------------------------------------------------
(* Recursive functions over 0 .. m, and induction over it *)

LEMMA NatMin ==
  ASSUME NEW T, T \subseteq Nat, T # {}
  PROVE  \E m \in T : \A k \in T : m <= k
<1> DEFINE R == OpToRel(<, Nat)
<1>1. IsWellFoundedOn(R, Nat)
  BY NatLessThanWellFounded
<1>2. \A k, m \in Nat : k < m => <<k, m>> \in R
  BY DEF OpToRel
<1> HIDE DEF R
<1>3. PICK m \in T : \A k \in T : ~ (<<k, m>> \in R)
  BY <1>1, WFMin
<1>4. \A k \in T : m <= k
  <2> SUFFICES ASSUME NEW k \in T PROVE m <= k
    OBVIOUS
  <2>1. ~(k < m) /\ k \in Nat /\ m \in Nat
    BY <1>2, <1>3
  <2> QED
    BY <2>1
<1> QED
  BY <1>4

\* Induction up to m
LEMMA UpTo ==
  ASSUME NEW m \in Nat, NEW T, 0 \in T, \A i \in 1 .. m : i - 1 \in T => i \in T
  PROVE  \A i \in 0 .. m : i \in T
<1> DEFINE U == {i \in 0 .. m : i \notin T}
<1>1. ASSUME U # {}
      PROVE  FALSE
  <2>1. PICK i \in U : \A k \in U : i <= k
    <3>1. U \subseteq Nat
      OBVIOUS
    <3> HIDE DEF U
    <3> QED
      BY <1>1, <3>1, NatMin
  <2>2. i \in 1 .. m /\ i - 1 \in 0 .. m /\ ~(i <= i - 1)
    BY <2>1
  <2>3. i - 1 \in T
    BY <2>1, <2>2
  <2> QED
    BY <2>1, <2>2, <2>3
<1> QED
  BY <1>1

\* What a function is that is built up to m from e by the steps s
Built(f, m, e, s) == f[0] = e /\ \A i \in 1 .. m : f[i] = s[i][f[i - 1]]

LEMMA Recursion ==
  ASSUME NEW m \in Nat, NEW S, NEW e \in S, NEW s \in [1 .. m -> [S -> S]]
  PROVE  \E f \in [0 .. m -> S] : Built(f, m, e, s)
<1> DEFINE T == {i \in 0 .. m : \E f \in [0 .. i -> S] : Built(f, i, e, s)}
<1>1. 0 \in T
  <2>1. [i \in 0 .. 0 |-> e] \in [0 .. 0 -> S] /\ Built([i \in 0 .. 0 |-> e], 0, e, s)
    BY DEF Built
  <2> QED
    BY <2>1
<1>2. ASSUME NEW i \in 1 .. m, i - 1 \in T
      PROVE  i \in T
  <2>1. PICK g \in [0 .. i - 1 -> S] : Built(g, i - 1, e, s)
    BY <1>2
  <2> DEFINE f == [n \in 0 .. i |-> IF n = i THEN s[i][g[i - 1]] ELSE g[n]]
  <2>2. g[i - 1] \in S
    BY <2>1
  <2>3. s[i][g[i - 1]] \in S
    BY <2>2
  <2>4. f \in [0 .. i -> S]
    BY <2>1, <2>3
  <2>5. \A n \in 0 .. i - 1 : n \in 0 .. i /\ n # i /\ f[n] = g[n]
    OBVIOUS
  <2>6. 0 \in 0 .. i - 1 /\ i \in 0 .. i /\ i - 1 \in 0 .. i - 1
    OBVIOUS
  <2>7. f[i] = s[i][g[i - 1]]
    BY <2>6
  <2> HIDE DEF f
  <2>8. ASSUME NEW n \in 1 .. i
        PROVE  f[n] = s[n][f[n - 1]]
    <3>1. CASE n = i
      BY <3>1, <2>5, <2>6, <2>7
    <3>2. CASE n # i
      <4>1. n \in 1 .. i - 1 /\ n \in 0 .. i - 1 /\ n - 1 \in 0 .. i - 1
        BY <3>2
      <4> QED
        BY <4>1, <2>1, <2>5 DEF Built
    <3> QED
      BY <3>1, <3>2
  <2>9. Built(f, i, e, s)
    BY <2>1, <2>5, <2>6, <2>8 DEF Built
  <2> QED
    BY <2>4, <2>9
<1>3. \A i \in 1 .. m : i - 1 \in T => i \in T
  BY <1>2
<1> HIDE DEF T
<1>4. \A i \in 0 .. m : i \in T
  BY <1>1, <1>3, UpTo
<1>5. m \in T
  BY <1>4
<1> QED
  BY <1>5 DEF T

-----------------------------------------------------------------------------
(* The nodes a point passes *)

Bits == Seq({0, 1})

LEMMA PassedSteps ==
  ASSUME NEW p
  PROVE  /\ Passed(p)[0] = Root(Key(p))
         /\ \A l \in 1 .. MaxLayer : Passed(p)[l] = Leaf(Passed(p)[l - 1], p)
<1> DEFINE S == {<<Key(p), w>> : w \in Bits}
           s == [i \in 1 .. MaxLayer |-> [n \in S |-> Leaf(n, p)]]
           E(f) == f = [l \in 0 .. MaxLayer |-> IF l = 0 THEN Root(Key(p)) ELSE Leaf(f[l - 1], p)]
<1>1. MaxLayer \in Nat
  BY VoxelMapAssumption
<1>2. Root(Key(p)) \in S
  BY EmptySeq DEF Root, Bits
<1>3. ASSUME NEW n \in S
      PROVE  Leaf(n, p) \in S
  <2>1. PICK w \in Bits : n = <<Key(p), w>>
    OBVIOUS
  <2>2. Append(w, IF p > Centre(n) THEN 1 ELSE 0) \in Bits
    BY AppendProperties DEF Bits
  <2> QED
    BY <2>1, <2>2 DEF Leaf
<1>4. s \in [1 .. MaxLayer -> [S -> S]]
  BY <1>3
<1>5. PICK f \in [0 .. MaxLayer -> S] : Built(f, MaxLayer, Root(Key(p)), s)
  <2> HIDE DEF S, s
  <2> QED
    BY <1>1, <1>2, <1>4, Recursion
<1>6. \A l \in 1 .. MaxLayer : l - 1 \in 0 .. MaxLayer /\ f[l - 1] \in S
  BY <1>1
<1>7. \A l \in 1 .. MaxLayer : f[l] = Leaf(f[l - 1], p)
  <2> HIDE DEF S
  <2> QED
    BY <1>5, <1>6 DEF Built
<1>8. E(f)
  <2>1. f[0] = Root(Key(p))
    BY <1>5 DEF Built
  <2>2. f = [l \in 0 .. MaxLayer |-> f[l]]
    OBVIOUS
  <2>3. \A l \in 0 .. MaxLayer : f[l] = IF l = 0 THEN Root(Key(p)) ELSE Leaf(f[l - 1], p)
    <3> HIDE DEF S
    <3> QED
      BY <1>1, <1>7, <2>1
  <2> QED
    BY <2>2, <2>3
<1>9. Passed(p) = CHOOSE g : E(g)
  BY Zenon DEF Passed
<1>10. E(Passed(p))
  <2> HIDE DEF E
  <2> QED
    BY <1>8, <1>9
<1> DEFINE F == Passed(p)
<1>11. F = [l \in 0 .. MaxLayer |-> IF l = 0 THEN Root(Key(p)) ELSE Leaf(F[l - 1], p)]
  BY <1>10
<1> HIDE DEF F
<1>12. 0 \in 0 .. MaxLayer /\ \A l \in 1 .. MaxLayer : l \in 0 .. MaxLayer /\ l # 0
  BY <1>1
<1>13. F[0] = Root(Key(p)) /\ \A l \in 1 .. MaxLayer : F[l] = Leaf(F[l - 1], p)
  BY <1>11, <1>12
<1> QED
  BY <1>13 DEF F

\* One node on each layer, and its path is the start of the paths below it.
LEMMA PassedShape ==
  ASSUME NEW p, NEW l \in 0 .. MaxLayer
  PROVE  /\ Passed(p)[l] = <<Key(p), Passed(p)[l][2]>>
         /\ Passed(p)[l][2] \in Bits
         /\ Len(Passed(p)[l][2]) = l
         /\ \A k \in 0 .. l : SubSeq(Passed(p)[l][2], 1, k) = Passed(p)[k][2]
<1> DEFINE Good(i) == /\ Passed(p)[i] = <<Key(p), Passed(p)[i][2]>>
                      /\ Passed(p)[i][2] \in Bits
                      /\ Len(Passed(p)[i][2]) = i
                      /\ \A k \in 0 .. i : SubSeq(Passed(p)[i][2], 1, k) = Passed(p)[k][2]
           T == {i \in 0 .. MaxLayer : Good(i)}
<1>0. MaxLayer \in Nat
  BY VoxelMapAssumption
<1>1. 0 \in T
  <2>1. Passed(p)[0] = <<Key(p), << >> >>
    BY PassedSteps DEF Root
  <2>2. << >> \in Bits /\ Len(<< >>) = 0 /\ SubSeq(<< >>, 1, 0) = << >>
    BY EmptySeq, SubSeqEmpty DEF Bits
  <2>3. \A k \in 0 .. 0 : k = 0
    OBVIOUS
  <2>4. Passed(p)[0][2] = << >>
    BY <2>1
  <2>5. Good(0)
    BY <2>1, <2>2, <2>3, <2>4
  <2> HIDE DEF Good
  <2> QED
    BY <1>0, <2>5
<1>2. ASSUME NEW i \in 1 .. MaxLayer, i - 1 \in T
      PROVE  i \in T
  <2> DEFINE w == Passed(p)[i - 1][2]
             b == IF p > Centre(Passed(p)[i - 1]) THEN 1 ELSE 0
  <2>1. Passed(p)[i - 1] = <<Key(p), w>> /\ w \in Bits /\ Len(w) = i - 1
    BY <1>2
  <2>2. Passed(p)[i] = <<Key(p), Append(w, b)>>
    BY <2>1, PassedSteps DEF Leaf
  <2>3. b \in {0, 1}
    OBVIOUS
  <2>4. \A k \in 0 .. i - 1 : SubSeq(w, 1, k) = Passed(p)[k][2]
    BY <1>2
  <2> HIDE DEF w, b
  <2>5. /\ Append(w, b) \in Bits /\ Len(Append(w, b)) = i
        /\ \A j \in 1 .. i - 1 : Append(w, b)[j] = w[j]
    BY <2>1, <2>3, AppendProperties DEF Bits
  <2>6. ASSUME NEW k \in 0 .. i
        PROVE  SubSeq(Append(w, b), 1, k) = Passed(p)[k][2]
    <3>1. CASE k = i
      BY <2>2, <2>5, <3>1, SubSeqFull DEF Bits
    <3>2. CASE k # i
      <4>1. k \in 0 .. i - 1 /\ k \in 0 .. Len(w) /\ k \in 0 .. Len(Append(w, b))
        BY <3>2, <2>1, <2>5
      <4> DEFINE u == SubSeq(Append(w, b), 1, k)
                 v == SubSeq(w, 1, k)
      <4>2. u \in Bits /\ v \in Bits /\ Len(u) = k /\ Len(v) = k
        BY <2>1, <2>5, <4>1, SubSeqProperties DEF Bits
      <4>3. \A j \in 1 .. k : u[j] = v[j]
        BY <2>1, <2>5, <4>1, SubSeqProperties DEF Bits
      <4>4. u = v
        <5> HIDE DEF u, v
        <5> QED
          BY <4>2, <4>3, SeqEqual DEF Bits
      <4> QED
        BY <2>4, <4>1, <4>4
    <3> QED
      BY <3>1, <3>2
  <2>7. Passed(p)[i][2] = Append(w, b)
    BY <2>2
  <2>8. Good(i)
    <3> HIDE DEF w, b
    <3> QED
      BY <2>2, <2>5, <2>6, <2>7
  <2> HIDE DEF Good
  <2> QED
    BY <2>8, <1>0
<1>3. \A i \in 1 .. MaxLayer : i - 1 \in T => i \in T
  BY <1>2
<1> HIDE DEF T
<1>4. l \in T
  BY <1>0, <1>1, <1>3, UpTo
<1> QED
  BY <1>4 DEF T

\* The points of a node are some of those its parent has.
LEMMA WithinPoints ==
  ASSUME NEW points \in Seq(Positions), NEW n
  PROVE  /\ Within(points, n) \in Seq(Positions)
         /\ Len(Within(points, n)) <= Len(points)
         /\ Len(Within(points, n)) > 0 => \E p \in Positions : n \in Descent(p)
<1> DEFINE m == Len(points)
           S == Seq(Positions)
           Next1(w, i) == IF n \in Descent(points[i]) THEN Append(w, points[i]) ELSE w
           s == [i \in 1 .. m |-> [w \in S |-> Next1(w, i)]]
           E(f) == f = [i \in 0 .. m |-> IF i = 0 THEN << >>
                                         ELSE IF n \in Descent(points[i])
                                         THEN Append(f[i - 1], points[i]) ELSE f[i - 1]]
<1>1. m \in Nat /\ \A i \in 1 .. m : points[i] \in Positions
  BY LenProperties, ElementOfSeq
<1>2. << >> \in S
  BY EmptySeq
<1>3. ASSUME NEW i \in 1 .. m, NEW w \in S
      PROVE  Next1(w, i) \in S
  BY <1>1, AppendProperties
<1>4. s \in [1 .. m -> [S -> S]]
  BY <1>3
<1>5. PICK f \in [0 .. m -> S] : Built(f, m, << >>, s)
  <2> HIDE DEF S, s, m
  <2> QED
    BY <1>1, <1>2, <1>4, Recursion
<1>6. \A i \in 1 .. m : i - 1 \in 0 .. m /\ f[i - 1] \in S
  <2> HIDE DEF S
  <2> QED
    BY <1>1
<1>7. \A i \in 1 .. m : f[i] = Next1(f[i - 1], i)
  <2> HIDE DEF S, Next1, m
  <2> QED
    BY <1>5, <1>6 DEF Built
<1>8. E(f)
  <2>1. f[0] = << >>
    BY <1>5 DEF Built
  <2>2. f = [i \in 0 .. m |-> f[i]]
    <3> HIDE DEF S, m
    <3> QED
      OBVIOUS
  <2>3. \A i \in 0 .. m : f[i] = IF i = 0 THEN << >>
                                 ELSE IF n \in Descent(points[i])
                                 THEN Append(f[i - 1], points[i]) ELSE f[i - 1]
    <3>1. \A i \in 0 .. m : i # 0 => i \in 1 .. m
      BY <1>1
    <3> HIDE DEF S, m
    <3> QED
      BY <1>7, <2>1, <3>1
  <2> HIDE DEF m
  <2> QED
    BY <2>2, <2>3
<1>9. PICK g : E(g) /\ Within(points, n) = g[m]
  <2>1. Within(points, n) = (CHOOSE g : E(g))[m]
    BY Zenon DEF Within
  <2>2. E(CHOOSE g : E(g))
    <3> HIDE DEF E
    <3> QED
      BY <1>8
  <2> HIDE DEF E
  <2> QED
    BY <2>1, <2>2
<1>10. 0 \in 0 .. m /\ m \in 0 .. m /\ \A i \in 1 .. m : i \in 0 .. m /\ i # 0
  BY <1>1
<1>11. g[0] = << >> /\ \A i \in 1 .. m : g[i] = Next1(g[i - 1], i)
  <2> HIDE DEF m
  <2> QED
    BY <1>9, <1>10
<1> DEFINE Good(i) == /\ g[i] \in S
                      /\ Len(g[i]) <= i
                      /\ Len(g[i]) > 0 => \E p \in Positions : n \in Descent(p)
           T == {i \in 0 .. m : Good(i)}
<1>12. 0 \in T
  <2>1. Good(0)
    BY <1>2, <1>11
  <2> HIDE DEF Good
  <2> QED
    BY <1>10, <2>1
<1>13. ASSUME NEW i \in 1 .. m, i - 1 \in T
       PROVE  i \in T
  <2> DEFINE w == g[i - 1]
  <2>1. w \in S /\ Len(w) <= i - 1 /\ (Len(w) > 0 => \E p \in Positions : n \in Descent(p))
    BY <1>13
  <2>2. g[i] = Next1(w, i)
    BY <1>11
  <2>3. Len(w) \in Nat /\ i \in Int /\ i - 1 \in Int
    BY <1>1, <2>1, LenProperties
  <2> HIDE DEF w
  <2>4. CASE n \in Descent(points[i])
    <3>1. g[i] = Append(w, points[i])
      BY <2>2, <2>4
    <3>2. g[i] \in S /\ Len(g[i]) = Len(w) + 1
      BY <1>1, <2>1, <3>1, AppendProperties
    <3> QED
      BY <1>1, <1>10, <2>1, <2>3, <2>4, <3>2
  <2>5. CASE n \notin Descent(points[i])
    <3>1. g[i] = w
      BY <2>2, <2>5
    <3> QED
      BY <1>10, <2>1, <2>3, <3>1
  <2> QED
    BY <2>4, <2>5
<1>14. \A i \in 1 .. m : i - 1 \in T => i \in T
  BY <1>13
<1>15. m \in T
  <2> HIDE DEF T, m
  <2> QED
    BY <1>1, <1>10, <1>12, <1>14, UpTo
<1> QED
  BY <1>9, <1>15

-----------------------------------------------------------------------------
(* Geometry *)

\* The key of a voxel and the positions in it
LEMMA KeyBounds ==
  ASSUME NEW p \in Int
  PROVE  /\ Key(p) \in Int
         /\ VoxelSize * Key(p) <= p
         /\ p <= VoxelSize * Key(p) + VoxelSize
<1>1. VoxelSize \in Nat /\ VoxelSize > 0
  BY VoxelMapAssumption
<1> DEFINE v == VoxelSize
<1>2. \A a \in Nat : /\ a \div v \in Nat
                     /\ v * (a \div v) <= a /\ a < v * (a \div v) + v
  <2> HIDE DEF v
  <2>1. ASSUME NEW a \in Nat, v \in Nat, v > 0
        PROVE  a \div v \in Nat /\ v * (a \div v) <= a /\ a < v * (a \div v) + v
    BY <2>1
  <2> QED
    BY <1>1, <2>1 DEF v
<1> HIDE DEF v
<1>3. CASE p >= 0
  <2>1. Key(p) = p \div v
    BY <1>1, <1>3 DEF Key, Trunc, v
  <2>2. Key(p) \in Nat /\ v * Key(p) <= p /\ p < v * Key(p) + v
    BY <1>2, <1>3, <2>1
  <2>3. v * Key(p) \in Int
    BY <1>1, <2>2 DEF v
  <2>4. \A x, u \in Int : p < x + u => p <= x + u
    OBVIOUS
  <2>5. p <= v * Key(p) + v
    BY <1>1, <2>2, <2>3, <2>4 DEF v
  <2> QED
    BY <2>2, <2>5 DEF v
<1>4. CASE p < 0
  <2> DEFINE q == (v - p) \div v
  <2>1. v - p \in Nat /\ -(p - v) = v - p /\ p - v < 0
    BY <1>1, <1>4 DEF v
  <2>2. Key(p) = -q
    BY <1>4, <2>1 DEF Key, Trunc, v
  <2>3. q \in Nat /\ v * q <= v - p /\ v - p < v * q + v
    BY <1>2, <2>1
  <2> HIDE DEF q
  <2>4. v \in Int /\ v * (-q) = -(v * q) /\ v * q \in Int
    BY <1>1, <2>3 DEF v
  <2>5. \A x \in Int : x <= v - p /\ v - p < x + v => -x <= p /\ p <= -x + v
    BY <2>4
  <2> DEFINE x == v * q
  <2>6. v * Key(p) = -x /\ x \in Int /\ x <= v - p /\ v - p < x + v
    BY <2>2, <2>3, <2>4
  <2> HIDE DEF x
  <2>7. -x <= p /\ p <= -x + v
    BY <2>5, <2>6
  <2>8. v * Key(p) <= p /\ p <= v * Key(p) + v
    BY <2>6, <2>7
  <2>9. Key(p) \in Int
    BY <2>2, <2>3
  <2> QED
    BY <2>8, <2>9 DEF v
<1> QED
  BY <1>3, <1>4

-----------------------------------------------------------------------------
(* The way down *)

LEMMA PassedAbove ==
  ASSUME NEW p, NEW k \in 0 .. MaxLayer, NEW l \in 0 .. MaxLayer
  PROVE  Above(Passed(p)[k], Passed(p)[l]) <=> k < l
<1> DEFINE u == Passed(p)[k][2]
           w == Passed(p)[l][2]
<1>0. MaxLayer \in Nat
  BY VoxelMapAssumption
<1>1. /\ Passed(p)[k] = <<Key(p), u>> /\ Len(u) = k /\ SubSeq(u, 1, k) = u
      /\ Passed(p)[l] = <<Key(p), w>> /\ Len(w) = l /\ \A j \in 0 .. l : SubSeq(w, 1, j) = Passed(p)[j][2]
  <2>1. k \in 0 .. k
    BY <1>0
  <2> QED
    BY <2>1, PassedShape
<1>2. Passed(p)[k][1] = Passed(p)[l][1]
  BY <1>1
<1>3. ASSUME k < l
      PROVE  IsStrictPrefix(u, w)
  <2>1. k \in 0 .. l /\ k <= l /\ k # l
    BY <1>0, <1>3
  <2>2. SubSeq(w, 1, k) = u
    BY <1>1, <2>1
  <2>3. u # w
    BY <1>1, <2>1
  <2> HIDE DEF u, w
  <2> QED
    BY <1>1, <2>1, <2>2, <2>3 DEF IsStrictPrefix, IsPrefix
<1>4. ASSUME IsStrictPrefix(u, w)
      PROVE  k < l
  <2>1. k <= l /\ u # w
    BY <1>1, <1>4 DEF IsStrictPrefix, IsPrefix
  <2>2. k # l
    BY <2>1
  <2> QED
    BY <1>0, <2>1, <2>2
<1> QED
  BY <1>2, <1>3, <1>4 DEF Above

\* A point comes to rest at a node on its way down.
Rests(map, n) ==
  n \notin DOMAIN map \/ ~map[n].init_octo_ \/ map[n].is_plane_ \/ Layer(n) = MaxLayer

\* UpdateOctoTree comes to rest at one node, with all above it in the map.
LEMMA TargetRight ==
  ASSUME NEW map, NEW p
  PROVE  \E l \in 0 .. MaxLayer :
            /\ Target(map, p) = Passed(p)[l]
            /\ Rests(map, Passed(p)[l])
            /\ \A k \in 0 .. l - 1 : Passed(p)[k] \in DOMAIN map
<1> DEFINE Stop(n) ==
             /\ \/ n \notin DOMAIN map
                \/ ~map[n].init_octo_ \/ map[n].is_plane_ \/ Layer(n) = MaxLayer
             /\ \A a \in Descent(p) :
                   Above(a, n) => /\ a \in DOMAIN map
                                  /\ map[a].init_octo_ /\ ~map[a].is_plane_
           T == {l \in 0 .. MaxLayer : Rests(map, Passed(p)[l])}
<1>0. MaxLayer \in Nat
  BY VoxelMapAssumption
<1>1. PICK l \in T : \A k \in T : l <= k
  <2>1. T \subseteq Nat
    OBVIOUS
  <2>2. MaxLayer \in T
    BY <1>0, PassedShape DEF Rests, Layer
  <2> HIDE DEF T
  <2> QED
    BY <2>1, <2>2, NatMin
<1>2. Passed(p)[l] \in Descent(p)
  BY <1>1 DEF Descent
<1>3. Stop(Passed(p)[l])
  <2>1. ASSUME NEW k \in 0 .. MaxLayer, Above(Passed(p)[k], Passed(p)[l])
        PROVE  /\ Passed(p)[k] \in DOMAIN map
               /\ map[Passed(p)[k]].init_octo_ /\ ~map[Passed(p)[k]].is_plane_
    <3>1. k < l
      BY <1>1, <2>1, PassedAbove
    <3>2. k \notin T
      BY <1>0, <1>1, <3>1
    <3> QED
      BY <3>2 DEF Rests
  <2> QED
    BY <1>1, <2>1 DEF Rests, Descent
<1>4. Target(map, p) = CHOOSE n \in Descent(p) : Stop(n)
  BY Zenon DEF Target
<1>5. Target(map, p) \in Descent(p) /\ Stop(Target(map, p))
  <2> HIDE DEF Stop
  <2> QED
    BY <1>2, <1>3, <1>4
<1>6. PICK j \in 0 .. MaxLayer : Target(map, p) = Passed(p)[j]
  BY <1>5 DEF Descent
<1>7. ASSUME NEW k \in 0 .. j - 1
      PROVE  Passed(p)[k] \in DOMAIN map
  <2>1. k \in 0 .. MaxLayer /\ k < j
    BY <1>0
  <2>2. Passed(p)[k] \in Descent(p) /\ Above(Passed(p)[k], Passed(p)[j])
    BY <2>1, PassedAbove DEF Descent
  <2> QED
    BY <1>5, <1>6, <2>2
<1> QED
  BY <1>5, <1>6, <1>7 DEF Rests

-----------------------------------------------------------------------------
(* Nodes *)

\* Where a node stands: it waits for enough points, or is cut, or takes points, or is
\* frozen.
NodeRight(n, node) ==
  /\ node \in Node
  /\ ~node.init_octo_ => node.update_enable_ /\ Len(node.temp_points_) <= InitNum
  /\ node.init_octo_ /\ node.update_enable_ /\ (node.is_plane_ \/ Layer(n) = MaxLayer)
     => /\ node.points_size_ + node.new_points_ = Len(node.temp_points_)
        /\ node.new_points_ <= UpdateNum
        /\ Len(node.temp_points_) <= MaxPoints

\* A node with the points it is to be fitted to, one more than a waiting node has at most
Unfitted(node) ==
  /\ node \in Node /\ ~node.init_octo_ /\ node.update_enable_
  /\ Len(node.temp_points_) <= InitNum + 1

\* cut_octo_tree and init_octo_tree leave a node as it should be.
LEMMA FittedRight ==
  ASSUME NEW n, NEW node, Unfitted(node), NEW planar
  PROVE  NodeRight(n, Fitted(n, node, planar))
<1>1. /\ node \in Node /\ ~node.init_octo_ /\ node.update_enable_
      /\ Len(node.temp_points_) <= InitNum + 1 /\ Len(node.temp_points_) \in Nat
  BY LenProperties DEF Unfitted, Node
<1>2. InitNum \in Nat /\ UpdateNum \in Nat /\ MaxPoints > InitNum
  BY VoxelMapAssumption
<1>3. CASE Len(node.temp_points_) <= InitNum
  BY <1>1, <1>3 DEF Fitted, NodeRight
<1>4. CASE ~(Len(node.temp_points_) <= InitNum)
  <2> DEFINE fit == [node EXCEPT !.init_octo_ = TRUE, !.new_points_ = 0,
                                 !.points_size_ = Len(node.temp_points_),
                                 !.is_plane_ = n \in planar,
                                 !.octo_state_ = IF n \in planar \/ Layer(n) = MaxLayer
                                                 THEN 0 ELSE 1]
  <2>1. /\ fit \in Node /\ fit.init_octo_
        /\ fit.new_points_ = 0 /\ fit.points_size_ = Len(node.temp_points_)
        /\ fit.temp_points_ = node.temp_points_
    <3> DEFINE b == n \in planar
               t == IF n \in planar \/ Layer(n) = MaxLayer THEN 0 ELSE 1
               c == Len(node.temp_points_)
    <3>1. b \in BOOLEAN /\ t \in {0, 1} /\ c \in Nat
      BY <1>1
    <3>2. fit = [node EXCEPT !.init_octo_ = TRUE, !.new_points_ = 0, !.points_size_ = c,
                             !.is_plane_ = b, !.octo_state_ = t]
      BY Zenon
    <3> HIDE DEF b, t, fit
    <3>3. node = [temp_points_ |-> node.temp_points_, new_points_ |-> node.new_points_,
                  init_octo_ |-> node.init_octo_, update_enable_ |-> node.update_enable_,
                  is_plane_ |-> node.is_plane_, octo_state_ |-> node.octo_state_,
                  points_size_ |-> node.points_size_]
      BY <1>1 DEF Node
    <3> QED
      BY <1>1, <3>1, <3>2, <3>3 DEF Node
  <2>2. Fitted(n, node, planar) =
          IF n \in planar /\ Len(node.temp_points_) > MaxPoints THEN Freeze(fit) ELSE fit
    BY <1>4 DEF Fitted
  <2> HIDE DEF fit
  <2>3. CASE n \in planar /\ Len(node.temp_points_) > MaxPoints
    <3>1. Freeze(fit) \in Node /\ Freeze(fit).init_octo_ /\ ~Freeze(fit).update_enable_
      BY <2>1, EmptySeq DEF Freeze, Node
    <3> QED
      BY <2>2, <2>3, <3>1 DEF NodeRight
  <2>4. CASE ~(n \in planar /\ Len(node.temp_points_) > MaxPoints)
    <3>1. Len(node.temp_points_) <= MaxPoints
      BY <1>1, <1>2, VoxelMapAssumption
    <3>2. Len(node.temp_points_) + 0 = Len(node.temp_points_) /\ 0 <= UpdateNum
      BY <1>1, <1>2
    <3> QED
      BY <2>1, <2>2, <2>4, <3>1, <3>2 DEF NodeRight
  <2> QED
    BY <2>3, <2>4
<1> QED
  BY <1>3, <1>4

\* A node that takes points and the one more it takes
LEMMA RefitRight ==
  ASSUME NEW n, NEW old, NodeRight(n, old), NEW p \in Positions, NEW planar,
         old.init_octo_, old.update_enable_, old.is_plane_ \/ Layer(n) = MaxLayer
  PROVE  NodeRight(n, Refit(n, [old EXCEPT !.new_points_ = @ + 1,
                                           !.temp_points_ = Append(@, p)], planar))
<1> DEFINE node == [old EXCEPT !.new_points_ = @ + 1, !.temp_points_ = Append(@, p)]
           c == Len(old.temp_points_)
<1>1. /\ old \in Node /\ c \in Nat /\ c <= MaxPoints
      /\ old.points_size_ + old.new_points_ = c /\ old.new_points_ <= UpdateNum
  BY LenProperties DEF NodeRight, Node
<1>2. InitNum \in Nat /\ UpdateNum \in Nat /\ MaxPoints > InitNum
  BY VoxelMapAssumption
<1>3. /\ node \in Node /\ node.init_octo_ /\ node.update_enable_
      /\ node.is_plane_ = old.is_plane_ /\ node.points_size_ = old.points_size_
      /\ node.new_points_ = old.new_points_ + 1 /\ Len(node.temp_points_) = c + 1
  <2> DEFINE w == Append(old.temp_points_, p)
             k == old.new_points_ + 1
  <2>1. w \in Seq(Positions) /\ Len(w) = c + 1 /\ k \in Nat
    BY <1>1, AppendProperties DEF Node
  <2>2. node = [old EXCEPT !.new_points_ = k, !.temp_points_ = w]
    OBVIOUS
  <2> HIDE DEF w, k, node, c
  <2>3. /\ node \in Node /\ node.init_octo_ = old.init_octo_
        /\ node.update_enable_ = old.update_enable_
        /\ node.is_plane_ = old.is_plane_ /\ node.points_size_ = old.points_size_
        /\ node.new_points_ = k /\ node.temp_points_ = w
    BY <1>1, <2>1, <2>2 DEF Node
  <2> QED
    BY <2>1, <2>3 DEF k
<1> HIDE DEF node, c
<1> DEFINE refit == IF node.new_points_ > UpdateNum
                    THEN [node EXCEPT !.is_plane_ = n \in planar, !.new_points_ = 0,
                                      !.points_size_ = Len(node.temp_points_)]
                    ELSE node
           full  == IF node.is_plane_ THEN MaxPoints ELSE MaxPoints + 1
<1>4. /\ refit \in Node /\ refit.init_octo_ /\ refit.update_enable_
      /\ Len(refit.temp_points_) = c + 1
      /\ refit.points_size_ + refit.new_points_ = c + 1 /\ refit.new_points_ <= UpdateNum
  <2>1. CASE node.new_points_ > UpdateNum
    <3> DEFINE b == n \in planar
               k == Len(node.temp_points_)
    <3>1. k \in Nat /\ b \in BOOLEAN
      BY <1>1, <1>3
    <3>3. refit = [node EXCEPT !.is_plane_ = b, !.new_points_ = 0, !.points_size_ = k]
      BY <2>1, Zenon
    <3>2. /\ refit \in Node /\ refit.init_octo_ /\ refit.update_enable_
          /\ refit.temp_points_ = node.temp_points_
          /\ refit.points_size_ = Len(node.temp_points_) /\ refit.new_points_ = 0
      <4> HIDE DEF b, k, refit
      <4>1. /\ refit \in Node /\ refit.init_octo_ /\ refit.update_enable_
            /\ refit.temp_points_ = node.temp_points_
            /\ refit.points_size_ = k /\ refit.new_points_ = 0
        BY <1>3, <3>1, <3>3 DEF Node
      <4> QED
        BY <4>1 DEF k
    <3> HIDE DEF refit
    <3> QED
      BY <1>1, <1>2, <1>3, <3>2
  <2>2. CASE ~(node.new_points_ > UpdateNum)
    <3>1. refit = node
      BY <2>2
    <3>2. node.new_points_ \in Nat /\ node.points_size_ \in Nat /\ old.new_points_ \in Nat
      BY <1>1, <1>3 DEF Node
    <3>3. node.points_size_ + node.new_points_ = c + 1 /\ node.new_points_ <= UpdateNum
      BY <1>1, <1>2, <1>3, <2>2, <3>2
    <3> HIDE DEF refit
    <3> QED
      BY <1>3, <3>1, <3>3
  <2> QED
    BY <2>1, <2>2
<1>5. Refit(n, node, planar) = IF c + 1 >= full THEN Freeze(refit) ELSE refit
  BY <1>3 DEF Refit
<1>6. full <= MaxPoints + 1 /\ full \in Int /\ MaxPoints \in Int
  BY <1>2, VoxelMapAssumption
<1> HIDE DEF refit, full
<1>7. CASE c + 1 >= full
  <2>1. Freeze(refit) \in Node /\ Freeze(refit).init_octo_ /\ ~Freeze(refit).update_enable_
    BY <1>4, EmptySeq DEF Freeze, Node
  <2> QED
    BY <1>5, <1>7, <2>1 DEF NodeRight, node
<1>8. CASE ~(c + 1 >= full)
  <2>1. c + 1 <= MaxPoints
    BY <1>1, <1>6, <1>8
  <2> QED
    BY <1>4, <1>5, <1>8, <2>1 DEF NodeRight, node
<1> QED
  BY <1>7, <1>8

-----------------------------------------------------------------------------
(* Trees *)

\* With a node there are the nodes on the way to it.
Closed(map) ==
  \A p \in Positions : \A j \in 0 .. MaxLayer :
     Passed(p)[j] \in DOMAIN map => \A k \in 0 .. j : Passed(p)[k] \in DOMAIN map

MapRight(map) ==
  /\ DOMAIN map \subseteq AllNodes
  /\ \A n \in DOMAIN map : NodeRight(n, map[n])

LEMMA NodesPassed ==
  ASSUME NEW n \in AllNodes
  PROVE  \E p \in Positions : \E l \in 0 .. MaxLayer : n = Passed(p)[l]
  BY DEF AllNodes, Descent

LEMMA PathsAreBits == Paths \subseteq Bits
<1> SUFFICES ASSUME NEW l \in 0 .. MaxLayer, NEW w \in [1 .. l -> {0, 1}]
             PROVE  w \in Seq({0, 1})
  BY DEF Paths, Bits
<1>1. l \in Nat
  BY VoxelMapAssumption
<1> QED
  BY <1>1, SeqDef

\* What lies above a node that a point passes, the point passes too.
LEMMA AbovePassed ==
  ASSUME NEW p, NEW l \in 0 .. MaxLayer, NEW key, NEW path \in Bits,
         Above(<<key, path>>, Passed(p)[l])
  PROVE  Len(path) \in 0 .. l - 1 /\ <<key, path>> = Passed(p)[Len(path)]
<1> DEFINE w == Passed(p)[l][2]
           i == Len(path)
<1>0. MaxLayer \in Nat /\ l \in Nat
  BY VoxelMapAssumption
<1>1. /\ Passed(p)[l] = <<Key(p), w>> /\ Len(w) = l
      /\ \A j \in 0 .. l : SubSeq(w, 1, j) = Passed(p)[j][2]
      /\ w \in Bits
  BY PassedShape
<1>2. i \in Nat /\ SubSeq(path, 1, i) = path
  BY LenProperties, SubSeqFull DEF Bits
<1>3. /\ key = Key(p) /\ i <= l /\ path # w
      /\ SubSeq(path, 1, i) = SubSeq(w, 1, i)
  <2>1. <<key, path>>[1] = key /\ <<key, path>>[2] = path
    OBVIOUS
  <2>2. Passed(p)[l][1] = Key(p)
    BY <1>1
  <2> QED
    BY <1>1, <2>1, <2>2 DEF Above, IsStrictPrefix, IsPrefix
<1> HIDE DEF w, i
<1>4. i # l
  <2> SUFFICES ASSUME i = l PROVE FALSE
    OBVIOUS
  <2>1. SubSeq(w, 1, l) = w
    BY <1>1, SubSeqFull DEF Bits
  <2> QED
    BY <1>2, <1>3, <2>1
<1>5. i \in 0 .. l - 1 /\ i \in 0 .. l /\ i \in 0 .. MaxLayer
  BY <1>0, <1>2, <1>3, <1>4
<1>6. path = Passed(p)[i][2]
  BY <1>1, <1>2, <1>3, <1>5
<1>7. Passed(p)[i] = <<Key(p), Passed(p)[i][2]>>
  BY <1>5, PassedShape
<1> QED
  BY <1>3, <1>5, <1>6, <1>7 DEF i

LEMMA CutMember ==
  ASSUME NEW n, NEW points \in Seq(Positions), NEW planar, NEW m \in Cut(n, points, planar)
  PROVE  m \in AllNodes /\ Above(n, m) /\ (\E path \in Paths : m = <<n[1], path>>)
<1>1. Above(n, m) /\ Len(Within(points, m)) > 0 /\ \E path \in Paths : m = <<n[1], path>>
  BY DEF Cut
<1>2. \E p \in Positions : m \in Descent(p)
  BY <1>1, WithinPoints
<1> QED
  BY <1>1, <1>2 DEF AllNodes

\* The nodes between a node and one that is cut from it are cut from it.
LEMMA CutBetween ==
  ASSUME NEW points \in Seq(Positions), NEW planar, NEW p,
         NEW i \in 0 .. MaxLayer, NEW j \in 0 .. MaxLayer, NEW k \in 0 .. MaxLayer,
         i < k, k < j, Passed(p)[j] \in Cut(Passed(p)[i], points, planar)
  PROVE  Passed(p)[k] \in Cut(Passed(p)[i], points, planar)
<1> DEFINE n == Passed(p)[i]
           a == Passed(p)[k]
           m == Passed(p)[j]
<1>0. MaxLayer \in Nat /\ InitNum \in Nat
  BY VoxelMapAssumption
<1>1. Above(n, a) /\ Above(a, m)
  BY PassedAbove
<1>2. n[1] = Key(p) /\ a = <<Key(p), a[2]>> /\ a[2] \in Bits /\ Len(a[2]) = k
  BY PassedShape
<1>3. a[2] \in Paths
  BY <1>2, LenProperties DEF Paths, Bits
<1>4. a \in {<<n[1], path>> : path \in Paths}
  BY <1>2, <1>3
<1>5. \A b \in {<<n[1], path>> : path \in Paths} :
         Above(b, m) /\ (b = n \/ Above(n, b))
           => Len(Within(points, b)) > InitNum /\ b \notin planar
  BY DEF Cut
<1>6. Len(Within(points, a)) > 0
  <2>1. Len(Within(points, a)) > InitNum
    BY <1>1, <1>4, <1>5
  <2>2. Len(Within(points, a)) \in Nat
    BY WithinPoints, LenProperties
  <2> QED
    BY <1>0, <2>1, <2>2
<1>7. ASSUME NEW b \in {<<n[1], path>> : path \in Paths}, Above(b, a)
      PROVE  Above(b, m)
  <2>1. PICK path \in Paths : b = <<n[1], path>>
    OBVIOUS
  <2>2. path \in Bits
    BY <2>1, PathsAreBits
  <2>3. Len(path) \in 0 .. k - 1 /\ b = Passed(p)[Len(path)]
    <3>1. Above(<<n[1], path>>, Passed(p)[k])
      BY <1>7, <2>1
    <3> QED
      BY <2>1, <2>2, <3>1, AbovePassed
  <2>4. Len(path) \in 0 .. MaxLayer /\ Len(path) < j
    BY <1>0, <2>3
  <2> QED
    BY <2>3, <2>4, PassedAbove
<1> HIDE DEF n, a, m
<1>8. a \in Cut(n, points, planar)
  BY <1>1, <1>4, <1>5, <1>6, <1>7 DEF Cut
<1> QED
  BY <1>8 DEF a, n

\* A new node and the points it is made with
LEMMA FreshWith ==
  ASSUME NEW w \in Seq(Positions), NEW c \in Nat, Len(w) <= InitNum + 1
  PROVE  Unfitted([Fresh EXCEPT !.temp_points_ = w, !.new_points_ = c])
<1> DEFINE f == Fresh
<1>1. f \in Node /\ ~f.init_octo_ /\ f.update_enable_
  BY EmptySeq DEF Fresh, Node
<1> HIDE DEF f
<1> DEFINE g == [f EXCEPT !.temp_points_ = w, !.new_points_ = c]
<1>2. g \in Node /\ ~g.init_octo_ /\ g.update_enable_ /\ g.temp_points_ = w
  BY <1>1 DEF Node
<1> HIDE DEF g
<1>3. Unfitted(g)
  BY <1>2 DEF Unfitted
<1> QED
  BY <1>3 DEF g, f

\* A node that has enough points is fitted and cut.
LEMMA InitTreeRight ==
  ASSUME NEW map, DOMAIN map \subseteq AllNodes, Closed(map),
         NEW n \in DOMAIN map, Unfitted(map[n]),
         \A m \in DOMAIN map : m # n => NodeRight(m, map[m]), NEW planar
  PROVE  MapRight(init_octo_tree(map, n, planar)) /\ Closed(init_octo_tree(map, n, planar))
<1> DEFINE points == map[n].temp_points_
           below == Cut(n, points, planar)
           leaf(m) == [Fresh EXCEPT !.temp_points_ = Within(points, m),
                                    !.new_points_ = Len(Within(points, m))]
           tree == init_octo_tree(map, n, planar)
<1>0. MaxLayer \in Nat /\ InitNum \in Nat
  BY VoxelMapAssumption
<1>1. points \in Seq(Positions) /\ Len(points) <= InitNum + 1 /\ Len(points) \in Nat
  BY LenProperties DEF Unfitted, Node
<1>2. tree = [m \in DOMAIN map \cup below |->
                IF m = n THEN Fitted(n, map[n], planar)
                ELSE IF m \in below THEN Fitted(m, leaf(m), planar) ELSE map[m]]
  BY Zenon DEF init_octo_tree
<1>3. below \subseteq AllNodes
  BY <1>1, CutMember
<1>4. ASSUME NEW m \in below
      PROVE  Unfitted(leaf(m))
  <2> DEFINE w == Within(points, m)
  <2>1. w \in Seq(Positions) /\ Len(w) <= Len(points) /\ Len(w) \in Nat
    BY <1>1, WithinPoints, LenProperties
  <2>2. Len(w) <= InitNum + 1
    BY <1>0, <1>1, <2>1
  <2> HIDE DEF w
  <2> QED
    BY <2>1, <2>2, FreshWith DEF w
<1>5. \A m \in DOMAIN tree : NodeRight(m, tree[m])
  <2> HIDE DEF leaf, below, tree, points
  <2> SUFFICES ASSUME NEW m \in DOMAIN map \cup below
               PROVE  NodeRight(m, tree[m])
    BY <1>2
  <2>1. CASE m = n
    BY <1>2, <2>1, FittedRight
  <2>2. CASE m # n /\ m \in below
    <3>1. tree[m] = Fitted(m, leaf(m), planar)
      BY <1>2, <2>2
    <3> QED
      BY <1>4, <2>2, <3>1, FittedRight
  <2>3. CASE m # n /\ m \notin below
    BY <1>2, <2>3
  <2> QED
    BY <2>1, <2>2, <2>3
<1>6. DOMAIN tree = DOMAIN map \cup below
  <2> HIDE DEF leaf, below, tree
  <2> QED
    BY <1>2
<1>7. MapRight(tree)
  <2> HIDE DEF below, tree
  <2> QED
    BY <1>3, <1>5, <1>6 DEF MapRight
<1>8. ASSUME NEW p \in Positions, NEW j \in 0 .. MaxLayer, NEW k \in 0 .. j,
             Passed(p)[j] \in DOMAIN tree
      PROVE  Passed(p)[k] \in DOMAIN tree
  <2>1. CASE Passed(p)[j] \in DOMAIN map
    <3>1. Passed(p)[k] \in DOMAIN map
      BY <2>1 DEF Closed
    <3> HIDE DEF tree, below
    <3> QED
      BY <1>6, <3>1
  <2>2. CASE Passed(p)[j] \in below
    <3>1. Above(n, Passed(p)[j])
      BY <1>1, <2>2, CutMember
    <3>2. PICK q \in Positions, i \in 0 .. MaxLayer : n = Passed(q)[i]
      BY NodesPassed
    <3>3. n = <<Key(q), n[2]>> /\ n[2] \in Bits /\ Len(n[2]) = i
      BY <3>2, PassedShape
    <3>4. Above(<<Key(q), n[2]>>, Passed(p)[j])
      BY <3>1, <3>3
    <3>5. i \in 0 .. j - 1 /\ n = Passed(p)[i]
      <4>1. Len(n[2]) \in 0 .. j - 1 /\ <<Key(q), n[2]>> = Passed(p)[Len(n[2])]
        BY <3>3, <3>4, AbovePassed
      <4> QED
        BY <3>3, <4>1
    <3>6. i \in 0 .. MaxLayer /\ k \in 0 .. MaxLayer
      BY <1>0, <3>2
    <3>7. CASE k <= i
      <4>1. k \in 0 .. i
        BY <3>6, <3>7
      <4>2. Passed(p)[k] \in DOMAIN map
        BY <3>5, <3>6, <4>1 DEF Closed
      <4> HIDE DEF tree, below
      <4> QED
        BY <1>6, <4>2
    <3>8. CASE k = j
      BY <1>8, <3>8
    <3>9. CASE i < k /\ k < j
      <4>1. Passed(p)[k] \in Cut(Passed(p)[i], points, planar)
        <5> HIDE DEF points
        <5> QED
          BY <1>1, <2>2, <3>5, <3>6, <3>9, CutBetween
      <4>2. Passed(p)[k] \in below
        BY <3>5, <4>1
      <4> HIDE DEF tree, below
      <4> QED
        BY <1>6, <4>2
    <3>10. k <= i \/ k = j \/ (i < k /\ k < j)
      BY <1>0, <3>6
    <3> QED
      BY <3>7, <3>8, <3>9, <3>10
  <2> HIDE DEF tree, below
  <2> QED
    BY <1>6, <1>8, <2>1, <2>2
<1>9. Closed(tree)
  <2> HIDE DEF tree
  <2> QED
    BY <1>8 DEF Closed
<1> QED
  BY <1>7, <1>9

\* A point is added to the tree.
LEMMA UpdateRight ==
  ASSUME NEW map, MapRight(map), Closed(map), NEW p \in Positions, NEW planar
  PROVE  MapRight(UpdateOctoTree(map, p, planar)) /\ Closed(UpdateOctoTree(map, p, planar))
<1> DEFINE n == Target(map, p)
           old == IF n \in DOMAIN map THEN map[n] ELSE Fresh
           node == [old EXCEPT !.new_points_ = @ + 1, !.temp_points_ = Append(@, p)]
           put(new) == [m \in DOMAIN map \cup {n} |-> IF m = n THEN new ELSE map[m]]
<1>0. MaxLayer \in Nat /\ InitNum \in Nat
  BY VoxelMapAssumption
<1>1. UpdateOctoTree(map, p, planar) =
        IF ~old.init_octo_ THEN init_octo_tree(put(node), n, planar)
        ELSE IF old.update_enable_ THEN put(Refit(n, node, planar)) ELSE map
  BY Zenon DEF UpdateOctoTree
<1>2. PICK l \in 0 .. MaxLayer : /\ n = Passed(p)[l]
                                 /\ Rests(map, n)
                                 /\ \A k \in 0 .. l - 1 : Passed(p)[k] \in DOMAIN map
  BY TargetRight
<1>3. n \in AllNodes
  BY <1>2 DEF AllNodes, Descent
<1> HIDE DEF n
<1>4. NodeRight(n, old) /\ (old.init_octo_ => n \in DOMAIN map)
  <2>1. CASE n \in DOMAIN map
    BY <2>1 DEF MapRight
  <2>2. CASE n \notin DOMAIN map
    <3>1. old = Fresh
      BY <2>2
    <3>2. Fresh \in Node /\ ~Fresh.init_octo_ /\ Fresh.update_enable_ /\ Len(Fresh.temp_points_) = 0
      BY EmptySeq DEF Fresh, Node
    <3> HIDE DEF old
    <3> QED
      BY <1>0, <3>1, <3>2 DEF NodeRight
  <2> QED
    BY <2>1, <2>2
<1>5. ASSUME NEW new
      PROVE  /\ DOMAIN put(new) = DOMAIN map \cup {n} /\ put(new)[n] = new
             /\ \A m \in DOMAIN put(new) : m # n => m \in DOMAIN map /\ put(new)[m] = map[m]
  OBVIOUS
<1>6. ASSUME NEW new
      PROVE  DOMAIN put(new) \subseteq AllNodes /\ Closed(put(new))
  <2>1. DOMAIN put(new) \subseteq AllNodes
    BY <1>3 DEF MapRight
  <2>2. ASSUME NEW q \in Positions, NEW j \in 0 .. MaxLayer, NEW k \in 0 .. j,
               Passed(q)[j] \in DOMAIN map \cup {n}
        PROVE  Passed(q)[k] \in DOMAIN map \cup {n}
    <3>1. CASE Passed(q)[j] \in DOMAIN map
      BY <3>1 DEF Closed
    <3>2. CASE Passed(q)[j] = n /\ k # j
      <4>1. k \in 0 .. MaxLayer /\ k < j
        BY <1>0, <3>2
      <4>2. j = l
        BY <1>2, <3>2, PassedShape
      <4>3. Passed(q)[k] = <<Key(q), Passed(q)[k][2]>> /\ Passed(q)[k][2] \in Bits /\ Len(Passed(q)[k][2]) = k
        BY <4>1, PassedShape
      <4>4. Above(Passed(q)[k], Passed(p)[l])
        BY <1>2, <3>2, <4>1, PassedAbove
      <4>5. Above(<<Key(q), Passed(q)[k][2]>>, Passed(p)[l])
        BY <4>3, <4>4
      <4>6. <<Key(q), Passed(q)[k][2]>> = Passed(p)[Len(Passed(q)[k][2])]
        BY <4>3, <4>5, AbovePassed
      <4>7. Passed(q)[k] = Passed(p)[k] /\ k \in 0 .. l - 1
        BY <1>0, <4>1, <4>2, <4>3, <4>6
      <4> QED
        BY <1>2, <4>7
    <3>3. CASE k = j
      BY <2>2, <3>3
    <3> QED
      BY <2>2, <3>1, <3>2, <3>3
  <2>3. DOMAIN put(new) = DOMAIN map \cup {n}
    OBVIOUS
  <2> HIDE DEF put
  <2> QED
    BY <2>1, <2>2, <2>3 DEF Closed
<1> HIDE DEF put
<1>7. CASE ~old.init_octo_
  <2>1. Unfitted(node)
    <3> DEFINE w == Append(old.temp_points_, p)
               k == old.new_points_ + 1
    <3>1. /\ old \in Node /\ ~old.init_octo_ /\ old.update_enable_
          /\ Len(old.temp_points_) <= InitNum /\ Len(old.temp_points_) \in Nat
      BY <1>4, <1>7, LenProperties DEF NodeRight, Node
    <3> HIDE DEF old
    <3>2. w \in Seq(Positions) /\ Len(w) = Len(old.temp_points_) + 1 /\ k \in Nat
      BY <3>1, AppendProperties DEF Node
    <3>3. node = [old EXCEPT !.new_points_ = k, !.temp_points_ = w]
      OBVIOUS
    <3> HIDE DEF w, k, node
    <3>4. /\ node \in Node /\ node.init_octo_ = old.init_octo_
          /\ node.update_enable_ = old.update_enable_ /\ node.temp_points_ = w
      BY <3>1, <3>2, <3>3 DEF Node
    <3> QED
      BY <1>0, <3>1, <3>2, <3>4 DEF Unfitted
  <2> HIDE DEF node, old
  <2> DEFINE mid == put(node)
  <2>2. /\ DOMAIN mid \subseteq AllNodes /\ Closed(mid) /\ n \in DOMAIN mid /\ mid[n] = node
        /\ \A m \in DOMAIN mid : m # n => NodeRight(m, mid[m])
    BY <1>5, <1>6 DEF MapRight
  <2>3. UpdateOctoTree(map, p, planar) = init_octo_tree(mid, n, planar)
    BY <1>1, <1>7
  <2> HIDE DEF mid
  <2>4. MapRight(init_octo_tree(mid, n, planar)) /\ Closed(init_octo_tree(mid, n, planar))
    BY <2>1, <2>2, InitTreeRight
  <2> QED
    BY <2>3, <2>4
<1>8. CASE old.init_octo_ /\ old.update_enable_
  <2>1. n \in DOMAIN map /\ old = map[n]
    BY <1>4, <1>8
  <2>2. old.is_plane_ \/ Layer(n) = MaxLayer
    <3> HIDE DEF old
    <3> QED
      BY <1>2, <1>8, <2>1 DEF Rests
  <2> DEFINE new == Refit(n, node, planar)
  <2>3. NodeRight(n, new)
    <3> HIDE DEF old
    <3> QED
      BY <1>4, <1>8, <2>2, RefitRight
  <2>4. UpdateOctoTree(map, p, planar) = put(new)
    BY <1>1, <1>8
  <2> HIDE DEF new, node, old
  <2>5. MapRight(put(new)) /\ Closed(put(new))
    BY <1>5, <1>6, <2>3 DEF MapRight
  <2> QED
    BY <2>4, <2>5
<1>9. CASE old.init_octo_ /\ ~old.update_enable_
  <2>1. UpdateOctoTree(map, p, planar) = map
    BY <1>1, <1>9
  <2> QED
    BY <2>1
<1> QED
  BY <1>7, <1>8, <1>9

-----------------------------------------------------------------------------
(* The state *)

IInv ==
  /\ MapRight(voxel_map_) /\ Closed(voxel_map_)
  /\ phase \in {"propagate", "estimate", "update", "slide"}
  /\ iterCount \in 0 .. MaxIterations - 1 /\ rematch_num \in 0 .. 1
  /\ {pos_end, propagat, position_last_, last_slide_position} \subseteq Poses \cup {0}

\* The map starts empty.
LEMMA EmptyMap == DOMAIN BuildVoxelMap(<< >>, {}) = {}
<1> DEFINE keys == {k \in {Key(p) : p \in Positions} : Len(Within(<< >>, Root(k))) > 0}
           fit(k) == {Root(k)} \cup (IF Len(Within(<< >>, Root(k))) > InitNum
                                     THEN Cut(Root(k), << >>, {}) ELSE {})
<1>1. DOMAIN BuildVoxelMap(<< >>, {}) = UNION {fit(k) : k \in keys}
  BY DEF BuildVoxelMap
<1>2. \A k : ~(Len(Within(<< >>, Root(k))) > 0)
  <2> SUFFICES ASSUME NEW k PROVE ~(Len(Within(<< >>, Root(k))) > 0)
    OBVIOUS
  <2>1. << >> \in Seq(Positions) /\ Len(<< >>) = 0
    BY EmptySeq
  <2>2. Within(<< >>, Root(k)) \in Seq(Positions) /\ Len(Within(<< >>, Root(k))) <= 0
    BY <2>1, WithinPoints
  <2> QED
    BY <2>2, LenProperties
<1>3. keys = {}
  BY <1>2
<1> HIDE DEF keys, fit
<1>4. UNION {fit(k) : k \in keys} = {}
  BY <1>3
<1> QED
  BY <1>1, <1>4

LEMMA InitInv == Init => IInv
<1> SUFFICES ASSUME Init PROVE IInv
  OBVIOUS
<1>1. DOMAIN voxel_map_ = {}
  BY EmptyMap DEF Init
<1>2. MapRight(voxel_map_) /\ Closed(voxel_map_)
  BY <1>1 DEF MapRight, Closed
<1> QED
  BY <1>2, VoxelMapAssumption DEF Init, IInv

LEMMA EstimationInv == IInv /\ StateEstimation => IInv'
<1> SUFFICES ASSUME IInv, StateEstimation PROVE IInv'
  OBVIOUS
<1>1. PICK useful \in BOOLEAN, converged \in BOOLEAN :
        /\ IF useful THEN pos_end' \in Poses ELSE pos_end' = propagat
        /\ LET rematch == IF converged \/ (rematch_num = 0 /\ iterCount = MaxIterations - 2)
                          THEN rematch_num + 1 ELSE rematch_num
           IN  IF rematch >= 2 \/ iterCount = MaxIterations - 1
               THEN /\ position_last_' = pos_end'
                    /\ phase' = "update"
                    /\ propagat' = pos_end' /\ iterCount' = 0 /\ rematch_num' = 0
               ELSE /\ iterCount' = iterCount + 1 /\ rematch_num' = rematch
                    /\ UNCHANGED <<position_last_, phase, propagat>>
  BY DEF StateEstimation
<1>2. voxel_map_' = voxel_map_ /\ last_slide_position' = last_slide_position
  BY DEF StateEstimation
<1>3. MaxIterations \in Nat /\ MaxIterations > 0
  BY VoxelMapAssumption
<1>4. MapRight(voxel_map_') /\ Closed(voxel_map_')
  BY <1>2 DEF IInv
<1>5. pos_end' \in Poses \cup {0}
  BY <1>1 DEF IInv
<1> DEFINE rematch == IF converged \/ (rematch_num = 0 /\ iterCount = MaxIterations - 2)
                      THEN rematch_num + 1 ELSE rematch_num
<1>6. CASE rematch >= 2 \/ iterCount = MaxIterations - 1
  <2>1. /\ position_last_' = pos_end' /\ phase' = "update"
        /\ propagat' = pos_end' /\ iterCount' = 0 /\ rematch_num' = 0
    BY <1>1, <1>6
  <2> QED
    BY <1>2, <1>3, <1>4, <1>5, <2>1 DEF IInv
<1>7. CASE ~(rematch >= 2 \/ iterCount = MaxIterations - 1)
  <2>1. /\ iterCount' = iterCount + 1 /\ rematch_num' = rematch
        /\ UNCHANGED <<position_last_, phase, propagat>>
    BY <1>1, <1>7
  <2>2. rematch \in 0 .. 1 /\ iterCount + 1 \in 0 .. MaxIterations - 1
    BY <1>3, <1>7 DEF IInv
  <2> HIDE DEF rematch
  <2> QED
    BY <1>2, <1>4, <1>5, <2>1, <2>2 DEF IInv
<1> QED
  BY <1>6, <1>7

LEMMA SlidingInv == IInv /\ mapSliding => IInv'
<1> SUFFICES ASSUME IInv, mapSliding PROVE IInv'
  OBVIOUS
<1>0. MaxLayer \in Nat
  BY VoxelMapAssumption
<1>1. CASE UNCHANGED <<voxel_map_, last_slide_position>>
  BY <1>1 DEF IInv, mapSliding, estimation
<1>2. CASE /\ last_slide_position' = position_last_
           /\ voxel_map_' = [n \in {m \in DOMAIN voxel_map_ :
                                      m[1] \in Key(position_last_) - HalfMapSize
                                               .. Key(position_last_) + HalfMapSize}
                             |-> voxel_map_[n]]
  <2> DEFINE In(k) == k \in Key(position_last_) - HalfMapSize .. Key(position_last_) + HalfMapSize
             next == [n \in {m \in DOMAIN voxel_map_ : In(m[1])} |-> voxel_map_[n]]
  <2>1. voxel_map_' = next
    BY <1>2
  <2> HIDE DEF In
  <2>2. /\ \A n : n \in DOMAIN next <=> n \in DOMAIN voxel_map_ /\ In(n[1])
        /\ \A n \in DOMAIN next : next[n] = voxel_map_[n]
    OBVIOUS
  <2> HIDE DEF next
  <2>3. MapRight(next)
    BY <2>2 DEF IInv, MapRight
  <2>4. ASSUME NEW p \in Positions, NEW j \in 0 .. MaxLayer, NEW k \in 0 .. j,
               Passed(p)[j] \in DOMAIN next
        PROVE  Passed(p)[k] \in DOMAIN next
    <3>1. k \in 0 .. MaxLayer
      BY <1>0
    <3>2. Passed(p)[k] = <<Key(p), Passed(p)[k][2]>> /\ Passed(p)[j] = <<Key(p), Passed(p)[j][2]>>
      BY <3>1, PassedShape
    <3>3. Passed(p)[k][1] = Passed(p)[j][1]
      BY <3>2
    <3>4. Passed(p)[j] \in DOMAIN voxel_map_ /\ In(Passed(p)[j][1])
      BY <2>2, <2>4
    <3>5. Passed(p)[k] \in DOMAIN voxel_map_
      BY <3>4 DEF IInv, Closed
    <3> QED
      BY <2>2, <3>3, <3>4, <3>5
  <2>5. Closed(next)
    BY <2>4 DEF Closed
  <2>6. MapRight(voxel_map_') /\ Closed(voxel_map_')
    BY <2>1, <2>3, <2>5
  <2> QED
    BY <1>2, <2>6 DEF IInv, mapSliding, estimation
<1> QED
  BY <1>1, <1>2 DEF mapSliding

LEMMA NextInv == IInv /\ [Next]_vars => IInv'
<1> SUFFICES ASSUME IInv, [Next]_vars PROVE IInv'
  OBVIOUS
<1>1. CASE Propagate
  BY <1>1, VoxelMapAssumption DEF Propagate, IInv
<1>2. CASE StateEstimation
  BY <1>2, EstimationInv
<1>3. CASE UpdateVoxelMap
  <2>1. PICK p \in Positions, planar \in SUBSET AllNodes :
           voxel_map_' = UpdateOctoTree(voxel_map_, p, planar)
    BY <1>3 DEF UpdateVoxelMap
  <2>2. MapRight(voxel_map_') /\ Closed(voxel_map_')
    BY <2>1, UpdateRight DEF IInv
  <2> QED
    BY <1>3, <2>2 DEF UpdateVoxelMap, IInv, estimation
<1>4. CASE mapSliding
  BY <1>4, SlidingInv
<1>5. CASE UNCHANGED vars
  BY <1>5 DEF IInv, vars
<1> QED
  BY <1>1, <1>2, <1>3, <1>4, <1>5 DEF Next

LEMMA SpecInv == Spec => []IInv
<1> QED
  BY InitInv, NextInv, PTL DEF Spec

-----------------------------------------------------------------------------
(* The theorems *)

\* Every voxel is a node some point passes, with a list of points, and the loop of
\* StateEstimation stays within its bounds.
THEOREM TypeCorrect == Spec => []TypeOK
<1>1. IInv => TypeOK
  <2> SUFFICES ASSUME IInv PROVE TypeOK
    OBVIOUS
  <2>1. \A n \in DOMAIN voxel_map_ : voxel_map_[n] \in Node
    BY DEF IInv, MapRight, NodeRight
  <2> QED
    BY <2>1, VoxelMapAssumption DEF IInv, MapRight, TypeOK
<1> QED
  BY <1>1, SpecInv, PTL

\* cut_octo_tree, the refits and the freezing of UpdateOctoTree neither lose a point
\* nor count one twice, and keep at most max_points_num_.
THEOREM PlanesKeepAccount == Spec => []PlaneAccountsForPoints
<1>1. IInv => PlaneAccountsForPoints
  BY DEF IInv, MapRight, NodeRight, PlaneAccountsForPoints
<1> QED
  BY <1>1, SpecInv, PTL

\* The search on the way down finds a node.
LEMMA CorrespondRight ==
  ASSUME NEW map, Closed(map), NEW p \in Positions, Root(Key(p)) \in DOMAIN map
  PROVE  /\ find_correspond(map, p) \in Descent(p) \cap DOMAIN map
         /\ \A a \in Descent(p) :
               Above(a, find_correspond(map, p)) => map[a].init_octo_ /\ ~map[a].is_plane_
<1> DEFINE Found(n) ==
             /\ \/ ~map[n].init_octo_ \/ map[n].is_plane_ \/ Layer(n) = MaxLayer
                \/ \A m \in Descent(p) \cap DOMAIN map : ~Above(n, m)
             /\ \A a \in Descent(p) : Above(a, n) => map[a].init_octo_ /\ ~map[a].is_plane_
           On(l) == /\ Passed(p)[l] \in DOMAIN map
                    /\ map[Passed(p)[l]].init_octo_ /\ ~map[Passed(p)[l]].is_plane_
                    /\ l < MaxLayer /\ Passed(p)[l + 1] \in DOMAIN map
           T == {l \in 0 .. MaxLayer : ~On(l)}
<1>0. MaxLayer \in Nat
  BY VoxelMapAssumption
<1>1. PICK l \in T : \A k \in T : l <= k
  <2>1. T \subseteq Nat
    OBVIOUS
  <2>2. MaxLayer \in T
    BY <1>0
  <2> HIDE DEF T
  <2> QED
    BY <2>1, <2>2, NatMin
<1>2. l \in 0 .. MaxLayer /\ ~On(l)
  BY <1>1
<1>3. \A k \in 0 .. l - 1 : On(k)
  <2> SUFFICES ASSUME NEW k \in 0 .. l - 1 PROVE On(k)
    OBVIOUS
  <2>1. k \in 0 .. MaxLayer /\ ~(l <= k)
    BY <1>0, <1>2
  <2> HIDE DEF On
  <2> QED
    BY <1>1, <2>1
<1> HIDE DEF T
<1>4. Passed(p)[l] \in DOMAIN map
  <2>1. CASE l = 0
    BY <2>1, PassedSteps
  <2>2. CASE l # 0
    <3>1. l - 1 \in 0 .. l - 1 /\ (l - 1) + 1 = l
      BY <1>2, <2>2
    <3>2. Passed(p)[(l - 1) + 1] \in DOMAIN map
      BY <1>3, <3>1
    <3> QED
      BY <3>1, <3>2
  <2> QED
    BY <2>1, <2>2
<1>5. Found(Passed(p)[l])
  <2>1. ASSUME NEW a \in Descent(p), Above(a, Passed(p)[l])
        PROVE  map[a].init_octo_ /\ ~map[a].is_plane_
    <3>1. PICK k \in 0 .. MaxLayer : a = Passed(p)[k]
      BY DEF Descent
    <3>2. k < l
      BY <1>2, <2>1, <3>1, PassedAbove
    <3>3. k \in 0 .. l - 1
      BY <1>2, <3>1, <3>2
    <3> QED
      BY <1>3, <3>1, <3>3
  <2>2. CASE l < MaxLayer /\ Passed(p)[l + 1] \notin DOMAIN map
    <3>1. ASSUME NEW m \in Descent(p) \cap DOMAIN map, Above(Passed(p)[l], m)
          PROVE  FALSE
      <4>1. PICK j \in 0 .. MaxLayer : m = Passed(p)[j]
        BY DEF Descent
      <4>2. l < j
        BY <1>2, <3>1, <4>1, PassedAbove
      <4>3. l + 1 \in 0 .. j
        BY <1>2, <4>1, <4>2
      <4>4. Passed(p)[l + 1] \in DOMAIN map
        BY <4>1, <4>3 DEF Closed
      <4> QED
        BY <2>2, <4>4
    <3> QED
      BY <2>1, <3>1
  <2>3. CASE ~(l < MaxLayer)
    <3>1. Layer(Passed(p)[l]) = MaxLayer
      BY <1>0, <1>2, <2>3, PassedShape DEF Layer
    <3> QED
      BY <2>1, <3>1
  <2>4. CASE ~map[Passed(p)[l]].init_octo_ \/ map[Passed(p)[l]].is_plane_
    BY <2>1, <2>4
  <2> QED
    BY <1>2, <1>4, <2>2, <2>3, <2>4
<1>6. Passed(p)[l] \in Descent(p) \cap DOMAIN map
  BY <1>2, <1>4 DEF Descent
<1>7. find_correspond(map, p) = CHOOSE n \in Descent(p) \cap DOMAIN map : Found(n)
  BY Zenon DEF find_correspond
<1>8. find_correspond(map, p) \in Descent(p) \cap DOMAIN map /\ Found(find_correspond(map, p))
  <2> HIDE DEF Found
  <2> QED
    BY <1>5, <1>6, <1>7
<1> QED
  BY <1>8

\* The residual search of a position sees the plane find_correspond ends in there.
THEOREM PlanesAreMatched == Spec => []OwnPlaneMatched
<1>1. IInv => OwnPlaneMatched
  <2> SUFFICES ASSUME IInv, NEW p \in Positions, Root(Key(p)) \in DOMAIN voxel_map_,
                      voxel_map_[find_correspond(voxel_map_, p)].is_plane_
               PROVE  find_correspond(voxel_map_, p) \in BuildResidualListOMP(voxel_map_, p)
    BY DEF OwnPlaneMatched
  <2> DEFINE n == find_correspond(voxel_map_, p)
  <2>1. /\ n \in Descent(p) /\ n \in DOMAIN voxel_map_
        /\ \A a \in Descent(p) : Above(a, n) => ~voxel_map_[a].is_plane_
    BY CorrespondRight DEF IInv
  <2>2. voxel_map_[n].is_plane_
    OBVIOUS
  <2> HIDE DEF n
  <2>3. PICK l \in 0 .. MaxLayer : n = Passed(p)[l]
    BY <2>1 DEF Descent
  <2>4. n[1] = Key(p)
    BY <2>3, PassedShape
  <2>5. ASSUME NEW a \in DOMAIN voxel_map_, Above(a, n)
        PROVE  ~voxel_map_[a].is_plane_
    <3>1. PICK q \in Positions, i \in 0 .. MaxLayer : a = Passed(q)[i]
      BY NodesPassed DEF IInv, MapRight
    <3>2. a = <<Key(q), a[2]>> /\ a[2] \in Bits
      BY <3>1, PassedShape
    <3>3. Above(<<Key(q), a[2]>>, Passed(p)[l])
      BY <2>3, <2>5, <3>2
    <3>4. Len(a[2]) \in 0 .. l - 1 /\ <<Key(q), a[2]>> = Passed(p)[Len(a[2])]
      BY <3>2, <3>3, AbovePassed
    <3>5. Len(a[2]) \in 0 .. MaxLayer
      BY <2>3, <3>4, VoxelMapAssumption
    <3>6. a \in Descent(p)
      BY <3>2, <3>4, <3>5 DEF Descent
    <3> QED
      BY <2>1, <2>5, <3>6
  <2>6. n \in build_single_residual(voxel_map_, Key(p))
    BY <2>1, <2>2, <2>4, <2>5 DEF build_single_residual
  <2>7. n \in BuildResidualListOMP(voxel_map_, p)
    BY <2>6 DEF BuildResidualListOMP
  <2> QED
    BY <2>7 DEF n
<1> QED
  BY <1>1, SpecInv, PTL

\* Two positions, one or more voxels apart by their keys
LEMMA Apart ==
  ASSUME NEW p \in Int, NEW q \in Int, NEW h \in Nat, Key(p) + h < Key(q)
  PROVE  q - p >= h * VoxelSize
<1> DEFINE v == VoxelSize
           a == Key(p)
           b == Key(q)
<1>1. v \in Nat /\ a \in Int /\ b \in Int /\ p <= v * a + v /\ v * b <= q
  BY KeyBounds, VoxelMapAssumption
<1>2. a + h + 1 <= b
  BY <1>1
<1> HIDE DEF v, a, b
<1>3. \A d \in Nat : b = (a + h + 1) + d => v * b = ((v * a + v) + h * v) + v * d /\ v * d >= 0
  BY <1>1
<1>4. PICK d \in Nat : b = (a + h + 1) + d
  <2>1. b - (a + h + 1) \in Nat /\ b = (a + h + 1) + (b - (a + h + 1))
    BY <1>1, <1>2
  <2> QED
    BY <2>1
<1>5. v * b = ((v * a + v) + h * v) + v * d /\ v * d >= 0
  BY <1>3, <1>4
<1>6. v * b \in Int /\ v * a + v \in Int /\ h * v \in Int /\ v * d \in Int
  BY <1>1
<1>7. \A x, y, z, w \in Int :
         p <= x /\ w <= q /\ w = (x + y) + z /\ z >= 0 => q - p >= y
  OBVIOUS
<1>8. q - p >= h * v
  BY <1>1, <1>5, <1>6, <1>7
<1> QED
  BY <1>8 DEF v

\* mapSliding deletes no voxel with a point nearer than half_map_size voxels.
THEOREM SlidingKeepsNear == Spec => NearVoxelsKept
<1> DEFINE Kept == \A p \in Positions :
                     /\ Root(Key(p)) \in DOMAIN voxel_map_
                     /\ Root(Key(p)) \notin DOMAIN voxel_map_'
                     => \/ p - position_last_ >= HalfMapSize * VoxelSize
                        \/ position_last_ - p >= HalfMapSize * VoxelSize
<1>1. ASSUME IInv, [Next]_vars
      PROVE  [Kept]_vars
  <2> SUFFICES ASSUME NEW p \in Positions,
                      Root(Key(p)) \in DOMAIN voxel_map_, Root(Key(p)) \notin DOMAIN voxel_map_'
               PROVE  \/ p - position_last_ >= HalfMapSize * VoxelSize
                      \/ position_last_ - p >= HalfMapSize * VoxelSize
    OBVIOUS
  <2>1. CASE UpdateVoxelMap
    <3>1. PICK q \in Positions, planar \in SUBSET AllNodes :
             voxel_map_' = UpdateOctoTree(voxel_map_, q, planar)
      BY <2>1 DEF UpdateVoxelMap
    <3>2. DOMAIN voxel_map_ \subseteq DOMAIN voxel_map_'
      BY <3>1 DEF UpdateOctoTree, init_octo_tree
    <3> QED
      BY <3>2
  <2>2. CASE mapSliding
    <3>1. voxel_map_' # voxel_map_
      OBVIOUS
    <3>2. voxel_map_' = [n \in {m \in DOMAIN voxel_map_ :
                                  m[1] \in Key(position_last_) - HalfMapSize
                                           .. Key(position_last_) + HalfMapSize}
                         |-> voxel_map_[n]]
      BY <2>2, <3>1 DEF mapSliding
    <3>3. Key(p) \notin Key(position_last_) - HalfMapSize .. Key(position_last_) + HalfMapSize
      BY <3>2 DEF Root
    <3>4. p \in Int /\ position_last_ \in Int /\ HalfMapSize \in Nat
      <4>1. position_last_ \in Poses \cup {0}
        BY <1>1 DEF IInv
      <4> QED
        BY <4>1, VoxelMapAssumption
    <3>5. Key(p) \in Int /\ Key(position_last_) \in Int
      BY <3>4, KeyBounds
    <3>6. CASE Key(p) + HalfMapSize < Key(position_last_)
      BY <3>4, <3>6, Apart
    <3>7. CASE Key(position_last_) + HalfMapSize < Key(p)
      BY <3>4, <3>7, Apart
    <3> QED
      BY <3>3, <3>4, <3>5, <3>6, <3>7
  <2>3. CASE voxel_map_' = voxel_map_
    BY <2>3
  <2> QED
    BY <1>1, <2>1, <2>2, <2>3 DEF Next, Propagate, StateEstimation, vars
<1> QED
  BY <1>1, SpecInv, PTL DEF Spec, NearVoxelsKept
=============================================================================
