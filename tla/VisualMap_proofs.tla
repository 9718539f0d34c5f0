-------------------------- MODULE VisualMap_proofs --------------------------
(***************************************************************************)
(* The visual map, for any camera, image, map and limits: the references   *)
(* of points are among their patches, what the scan hits is retrieved,     *)
(* patches stay in the image, and the covariance takes the gain of a state *)
(* that was accepted.                                                      *)
(*                                                                         *)
(* Two invariants carry the first three: MapInv says that the map is a     *)
(* sequence of sound points, SubmapInv that what was retrieved belongs to  *)
(* the frame and to the map.  Each operation of a point turns a sound      *)
(* point into sound ones, and each step of processFrame changes points by  *)
(* those operations only.  That the rays only add to what the voxels of    *)
(* the scan gave is shown by a least cell at which it fails.  GainInv, for *)
(* the last, follows the loop of updateState alone.                        *)
(***************************************************************************)
EXTENDS VisualMap, TLAPS, FiniteSetTheorems, SequenceTheorems, WellFoundedInduction

\* A point whose reference, if it has one, is among its patches
Sound(pt) == pt \in Point /\ (pt.has_ref_patch_ => pt.ref_patch \in pt.obs_)

MapInv == feat_map \in Seq(Point) /\ \A i \in DOMAIN feat_map : Sound(feat_map[i])

-----------------------------------------------------------------------------
(* Least members and bounds *)

LEMMA NatMin ==
  ASSUME NEW T, T \subseteq Nat, T # {}
  PROVE  \E m \in T : \A k \in T : m <= k
<1> DEFINE R == OpToRel(<, Nat)
<1>1. IsWellFoundedOn(R, Nat)
  BY NatLessThanWellFounded
<1>2. \A k, m \in Nat : k < m => <<k, m>> \in R
  BY DEF OpToRel
<1> HIDE DEF R
<1>3. PICK m \in T : \A k \in T : ~ (<<k, m>> \in R)
  BY <1>1, WFMin
<1>4. \A k \in T : m <= k
  <2> SUFFICES ASSUME NEW k \in T PROVE m <= k
    OBVIOUS
  <2>1. ~(k < m) /\ k \in Nat /\ m \in Nat
    BY <1>2, <1>3
  <2> QED
    BY <2>1
<1> QED
  BY <1>4

-----------------------------------------------------------------------------
(* What the operations of a point make of a sound one *)

LEMMA ReferenceObserved ==
  ASSUME NEW pt, Sound(pt), NEW f \in References(pt)
  PROVE  f \in pt.obs_
  BY DEF References, getCloseViewObs, Sound

LEMMA deleteFeatureRefSound ==
  ASSUME NEW pt, Sound(pt), NEW f
  PROVE  /\ Sound(deleteFeatureRef(pt, f)) /\ deleteFeatureRef(pt, f).obs_ = pt.obs_ \ {f}
         /\ deleteFeatureRef(pt, f).pos_ = pt.pos_
<1> DEFINE obs == pt.obs_ \ {f}
           ref == IF pt.ref_patch = f THEN 0 ELSE pt.ref_patch
           has == pt.has_ref_patch_ /\ pt.ref_patch # f
           q == [pos_ |-> pt.pos_, obs_ |-> obs, ref_patch |-> ref, has_ref_patch_ |-> has,
                 is_converged_ |-> pt.is_converged_]
<1>1. /\ pt = [pos_ |-> pt.pos_, obs_ |-> pt.obs_, ref_patch |-> pt.ref_patch,
               has_ref_patch_ |-> pt.has_ref_patch_, is_converged_ |-> pt.is_converged_]
      /\ pt.pos_ \in Sites /\ pt.is_converged_ \in BOOLEAN
      /\ obs \in SUBSET (1..ObsLimit + 1)
  BY DEF Sound, Point
<1>2. has \in BOOLEAN /\ (has => ref \in obs)
  BY DEF Sound
<1>3. ref \in 0..ObsLimit + 1
  BY VisualMapAssumption DEF Sound, Point
<1>4. deleteFeatureRef(pt, f) = [pt EXCEPT !.obs_ = obs, !.ref_patch = ref, !.has_ref_patch_ = has]
  BY Zenon DEF deleteFeatureRef
<1> HIDE DEF obs, ref, has
<1>5. deleteFeatureRef(pt, f) = q
  BY <1>1, <1>4
<1>6. Sound(q)
  BY <1>1, <1>2, <1>3 DEF Sound, Point
<1> QED
  BY <1>5, <1>6 DEF obs

\* There is a number free for another patch.
LEMMA addFrameRefSound ==
  ASSUME NEW pt, Sound(pt), NEW n \in 1..ObsLimit + 1, n \notin pt.obs_
  PROVE  Sound(addFrameRef(pt)) /\ addFrameRef(pt).pos_ = pt.pos_
<1> DEFINE Free(f) == f \notin pt.obs_ /\ \A g \in 1..f - 1 : g \in pt.obs_
           new == CHOOSE f \in 1..ObsLimit + 1 : Free(f)
           q == [pos_ |-> pt.pos_, obs_ |-> pt.obs_ \cup {new}, ref_patch |-> pt.ref_patch,
                 has_ref_patch_ |-> pt.has_ref_patch_, is_converged_ |-> pt.is_converged_]
           T == {f \in 1..ObsLimit + 1 : f \notin pt.obs_}
<1>1. T \subseteq Nat /\ T # {} /\ ObsLimit \in Nat
  BY VisualMapAssumption
<1>2. PICK f \in T : \A g \in T : f <= g
  <2> HIDE DEF T
  <2> QED
    BY <1>1, NatMin
<1>3. Free(f)
  <2> SUFFICES ASSUME NEW g \in 1..f - 1 PROVE g \in pt.obs_
    OBVIOUS
  <2>1. g \in 1..ObsLimit + 1 /\ ~(f <= g)
    BY <1>1
  <2> QED
    BY <1>2, <2>1
<1> HIDE DEF Free
<1>4. new \in 1..ObsLimit + 1
  BY <1>3
<1>5. addFrameRef(pt) = [pt EXCEPT !.obs_ = @ \cup {new}]
  BY DEF addFrameRef, Free
<1> HIDE DEF new
<1>6. /\ pt = [pos_ |-> pt.pos_, obs_ |-> pt.obs_, ref_patch |-> pt.ref_patch,
               has_ref_patch_ |-> pt.has_ref_patch_, is_converged_ |-> pt.is_converged_]
      /\ pt \in Point
  BY DEF Sound, Point
<1>7. addFrameRef(pt) = q
  BY <1>5, <1>6
<1>8. q \in Point
  BY <1>4, <1>6 DEF Point
<1> QED
  BY <1>7, <1>8 DEF Sound

\* Below the limit, or once a patch is deleted, there is one.
LEMMA FreeNumber ==
  ASSUME NEW pt, Sound(pt), ~(Cardinality(pt.obs_) >= ObsLimit)
  PROVE  \E n \in 1..ObsLimit + 1 : n \notin pt.obs_
<1>1. pt.obs_ \in SUBSET (1..ObsLimit + 1) /\ ObsLimit \in Nat
  BY VisualMapAssumption DEF Sound, Point
<1>2. IsFiniteSet(1..ObsLimit + 1) /\ Cardinality(1..ObsLimit + 1) = ObsLimit + 1
  BY <1>1, FS_Interval
<1>3. SUFFICES ASSUME pt.obs_ = 1..ObsLimit + 1 PROVE FALSE
  BY <1>1
<1> QED
  BY <1>1, <1>2, <1>3

LEMMA ObservedSound ==
  ASSUME NEW pt, Sound(pt), NEW r \in Observed(pt)
  PROVE  Sound(r[1])
<1>1. CASE pt.is_converged_
  <2> DEFINE q == [pos_ |-> pt.pos_, obs_ |-> pt.obs_ \cap {pt.ref_patch},
                   ref_patch |-> pt.ref_patch, has_ref_patch_ |-> pt.has_ref_patch_,
                   is_converged_ |-> pt.is_converged_]
  <2>1. r[1] = [pt EXCEPT !.obs_ = @ \cap {pt.ref_patch}]
    BY <1>1 DEF Observed
  <2>2. r[1] = q
    BY <2>1 DEF Sound, Point
  <2>3. Sound(q)
    BY DEF Sound, Point
  <2> QED
    BY <2>2, <2>3
<1>2. CASE ~pt.is_converged_
  <2> DEFINE kept == IF Cardinality(pt.obs_) >= ObsLimit
                       THEN {deleteFeatureRef(pt, f) : f \in pt.obs_} ELSE {pt}
  <2>0. r \in {<<q, FALSE>> : q \in kept} \cup {<<addFrameRef(q), TRUE>> : q \in kept}
    BY <1>2, Zenon DEF Observed
  <2>1. PICK q \in kept : r = <<q, FALSE>> \/ r = <<addFrameRef(q), TRUE>>
    <3> HIDE DEF kept
    <3> QED
      BY <2>0, Zenon
  <2>2. Sound(q) /\ \E n \in 1..ObsLimit + 1 : n \notin q.obs_
    <3>1. CASE Cardinality(pt.obs_) >= ObsLimit
      <4>1. PICK f \in pt.obs_ : q = deleteFeatureRef(pt, f)
        BY <2>1, <3>1
      <4>2. f \in 1..ObsLimit + 1
        BY DEF Sound, Point
      <4> QED
        BY <4>1, <4>2, deleteFeatureRefSound
    <3>2. CASE ~(Cardinality(pt.obs_) >= ObsLimit)
      BY <2>1, <3>2, FreeNumber
    <3> QED
      BY <3>1, <3>2
  <2>3. \A x, b : <<x, b>>[1] = x
    OBVIOUS
  <2>4. r[1] = q \/ r[1] = addFrameRef(q)
    BY <2>1, <2>3, Zenon
  <2> QED
    BY <2>2, <2>4, addFrameRefSound
<1> QED
  BY <1>1, <1>2

LEMMA RescoredSound ==
  ASSUME NEW pt, Sound(pt), NEW r \in Rescored(pt)
  PROVE  Sound(r)
<1>1. CASE r = pt
  BY <1>1
<1>2. CASE r # pt
  <2>1. PICK q \in Reselected(pt), c \in Settles(pt) : r = [q EXCEPT !.is_converged_ = c]
    BY <1>2 DEF Rescored
  <2>2. Sound(q)
    <3>1. CASE q = pt
      BY <3>1
    <3>2. CASE q # pt
      <4>1. PICK f \in pt.obs_ : q = [pt EXCEPT !.ref_patch = f, !.has_ref_patch_ = TRUE]
        BY <2>1, <3>2 DEF Reselected
      <4> DEFINE t == [pos_ |-> pt.pos_, obs_ |-> pt.obs_, ref_patch |-> f,
                       has_ref_patch_ |-> TRUE, is_converged_ |-> pt.is_converged_]
      <4>2. /\ pt = [pos_ |-> pt.pos_, obs_ |-> pt.obs_, ref_patch |-> pt.ref_patch,
                     has_ref_patch_ |-> pt.has_ref_patch_,
                     is_converged_ |-> pt.is_converged_]
            /\ pt \in Point
        BY DEF Sound, Point
      <4>3. q = t
        BY <4>1, <4>2
      <4>4. f \in 0..ObsLimit + 1
        BY <4>2, VisualMapAssumption DEF Point
      <4>5. Sound(t)
        BY <4>2, <4>4 DEF Sound, Point
      <4> QED
        BY <4>3, <4>5
    <3> QED
      BY <3>1, <3>2
  <2> DEFINE t == [pos_ |-> q.pos_, obs_ |-> q.obs_, ref_patch |-> q.ref_patch,
                   has_ref_patch_ |-> q.has_ref_patch_, is_converged_ |-> c]
  <2>3. r = t
    BY <2>1, <2>2 DEF Sound, Point
  <2>4. c \in BOOLEAN
    BY <2>1 DEF Settles
  <2>5. Sound(t)
    BY <2>2, <2>4 DEF Sound, Point
  <2> QED
    BY <2>3, <2>5
<1> QED
  BY <1>1, <1>2

LEMMA VisualPointSound ==
  ASSUME NEW s \in Sites
  PROVE  Sound(VisualPoint(s))
<1>1. {1} \in SUBSET (1..ObsLimit + 1) /\ 0 \in 0..ObsLimit + 1
  BY VisualMapAssumption
<1> QED
  BY <1>1 DEF VisualPoint, Sound, Point

-----------------------------------------------------------------------------
(* What retrieveFromVisualSparseMap finds *)

InView(v) == {i \in DOMAIN feat_map : Visible(v, i)}

LEMMA GridWidth == grid_n_width \in Nat /\ grid_n_width \in 0..grid_n_width
<1>1. Width \in Nat /\ GridSize \in Nat \ {0}
  BY VisualMapAssumption
<1>2. \A w \in Nat, g \in Nat \ {0} : w \div g \in Nat
  OBVIOUS
<1>3. grid_n_width \in Nat
  BY <1>1, <1>2 DEF grid_n_width
<1> QED
  BY <1>3

\* What the rays have found so far
Gathered(acc, v) ==
  /\ acc = [sub |-> acc.sub, added |-> acc.added, found |-> acc.found]
  /\ acc.added \subseteq Sites
  /\ acc.found \subseteq InView(v)

\* A ray adds points in view or the centre of a plane, and drops nothing.
LEMMA CastRayGathers ==
  ASSUME NEW v \in Views, NEW c \in Cells, NEW acc, Gathered(acc, v)
  PROVE  Gathered(CastRay(v, acc, c), v) /\ acc.found \subseteq CastRay(v, acc, c).found
<1> DEFINE hits(s) == \/ LookKey(s) \in acc.sub
                      \/ PointsOf(LookKey(s)) # {}
                      \/ \E t \in PlaneCentres : Key(t) = LookKey(s)
           ray == v.rays[c]
           stops == {n \in DOMAIN ray : hits(ray[n])}
           first == CHOOSE n \in stops : \A m \in stops : n <= m
           k == LookKey(ray[first])
           seen == {i \in PointsOf(k) : Visible(v, i)}
           centre == CHOOSE t \in PlaneCentres : Key(t) = k
           Passes == border_flag(c) \/ stops = {} \/ \E i \in acc.found : Cell(v, Site(i)) = c
<1>1. CastRay(v, acc, c) =
        IF Passes THEN acc
        ELSE IF k \in acc.sub THEN acc
        ELSE IF PointsOf(k) # {}
        THEN [acc EXCEPT !.found = @ \cup seen,
                         !.sub = IF seen # {} THEN @ \cup {k} ELSE @]
        ELSE [acc EXCEPT !.added = @ \cup {centre}]
  BY Zenon DEF CastRay
<1>2. stops # {} => hits(ray[first])
  <2> SUFFICES ASSUME stops # {} PROVE first \in stops
    OBVIOUS
  <2>1. ray \in Seq(Sites)
    BY VisualMapAssumption
  <2>2. stops \subseteq Nat
    BY <2>1
  <2> HIDE DEF stops
  <2>3. \E n \in stops : \A m \in stops : n <= m
    BY <2>2, NatMin
  <2> QED
    BY <2>3
<1> HIDE DEF stops, first
<1>3. seen \subseteq InView(v)
  BY DEF PointsOf, InView
<1>4. ~Passes /\ k \notin acc.sub /\ ~(PointsOf(k) # {}) => centre \in Sites
  BY <1>2, VisualMapAssumption
<1> HIDE DEF seen, centre, k, Passes
<1>5. CASE Passes \/ k \in acc.sub
  BY <1>1, <1>5
<1>6. CASE ~Passes /\ k \notin acc.sub /\ PointsOf(k) # {}
  <2> DEFINE sub == IF seen # {} THEN acc.sub \cup {k} ELSE acc.sub
             t == [sub |-> sub, added |-> acc.added, found |-> acc.found \cup seen]
  <2>1. CastRay(v, acc, c) = [acc EXCEPT !.found = acc.found \cup seen, !.sub = sub]
    BY <1>1, <1>6, Zenon
  <2> HIDE DEF sub
  <2>2. CastRay(v, acc, c) = t
    BY <2>1 DEF Gathered
  <2>3. Gathered(t, v)
    BY <1>3 DEF Gathered
  <2> QED
    BY <2>2, <2>3
<1>7. CASE ~Passes /\ k \notin acc.sub /\ ~(PointsOf(k) # {})
  <2> DEFINE t == [sub |-> acc.sub, added |-> acc.added \cup {centre}, found |-> acc.found]
  <2>1. CastRay(v, acc, c) = [acc EXCEPT !.added = @ \cup {centre}]
    BY <1>1, <1>7
  <2>2. CastRay(v, acc, c) = t
    BY <2>1 DEF Gathered
  <2>3. Gathered(t, v)
    BY <1>4, <1>7 DEF Gathered
  <2> QED
    BY <2>2, <2>3
<1> QED
  BY <1>5, <1>6, <1>7

\* Casts satisfies its equation: there is no least number of rays for which no
\* function does.
LEMMA CastsEquation ==
  ASSUME NEW v, NEW first
  PROVE  Casts(v, first) =
           [n \in 0..grid_n_width |->
              IF n = 0 THEN first ELSE CastRay(v, Casts(v, first)[n - 1], n - 1)]
<1> DEFINE E(f, m) == f = [n \in 0..m |-> IF n = 0 THEN first ELSE CastRay(v, f[n - 1], n - 1)]
           T == {m \in Nat : ~ \E f : E(f, m)}
<1>1. ASSUME T # {}
      PROVE  FALSE
  <2>1. PICK m \in T : \A k \in T : m <= k
    <3>1. T \subseteq Nat
      OBVIOUS
    <3> HIDE DEF T
    <3> QED
      BY <1>1, <3>1, NatMin
  <2>2. m \in Nat /\ ~ \E f : E(f, m)
    BY <2>1
  <2>3. m # 0
    <3>1. E([n \in 0..0 |-> first], 0)
      OBVIOUS
    <3> HIDE DEF E
    <3> QED
      BY <2>2, <3>1
  <2>4. m - 1 \in Nat /\ m - 1 \notin T
    <3>1. m - 1 \in Nat /\ ~(m <= m - 1)
      BY <2>2, <2>3
    <3> HIDE DEF T
    <3> QED
      BY <2>1, <3>1
  <2>5. PICK g : E(g, m - 1)
    <3> HIDE DEF E
    <3> QED
      BY <2>4
  <2> DEFINE f == [n \in 0..m |-> IF n = m THEN CastRay(v, g[m - 1], m - 1) ELSE g[n]]
  <2>6. ASSUME NEW n \in 0..m
        PROVE  f[n] = IF n = 0 THEN first ELSE CastRay(v, f[n - 1], n - 1)
    <3>1. CASE n = m
      <4>1. m - 1 \in 0..m /\ m - 1 # m
        BY <2>2, <2>3
      <4>2. f[m - 1] = g[m - 1]
        BY <4>1
      <4> QED
        BY <2>3, <3>1, <4>2
    <3>2. CASE n = 0 /\ n # m
      <4>1. 0 \in 0..m - 1
        BY <2>4
      <4> QED
        BY <2>5, <3>2, <4>1
    <3>3. CASE n # 0 /\ n # m
      <4>1. n \in 0..m - 1 /\ n - 1 \in 0..m - 1 /\ n - 1 \in 0..m /\ n - 1 # m
        BY <2>2, <3>3
      <4>2. f[n] = g[n] /\ f[n - 1] = g[n - 1]
        BY <3>3, <4>1
      <4>3. g[n] = CastRay(v, g[n - 1], n - 1)
        BY <2>5, <3>3, <4>1
      <4> HIDE DEF f
      <4> QED
        BY <3>3, <4>2, <4>3
    <3> QED
      BY <3>1, <3>2, <3>3
  <2>7. E(f, m)
    <3> DEFINE h == [n \in 0..m |-> IF n = 0 THEN first ELSE CastRay(v, f[n - 1], n - 1)]
    <3>1. \A n \in 0..m : f[n] = h[n]
      BY <2>6
    <3>2. f = [n \in 0..m |-> f[n]] /\ h = [n \in 0..m |-> h[n]]
      OBVIOUS
    <3>3. f = h
      <4> HIDE DEF f, h
      <4> QED
        BY <3>1, <3>2
    <3> HIDE DEF f
    <3> QED
      BY <3>3
  <2> HIDE DEF f, E
  <2> QED
    BY <2>2, <2>7
<1>2. grid_n_width \in Nat
  BY GridWidth
<1>3. \E f : E(f, grid_n_width)
  <2>1. grid_n_width \notin T
    <3> HIDE DEF T
    <3> QED
      BY <1>1
  <2> HIDE DEF E
  <2> QED
    BY <1>2, <2>1
<1> DEFINE W == grid_n_width
<1>4. Casts(v, first) = CHOOSE f : E(f, W)
  BY DEF Casts
<1> HIDE DEF E
<1>5. E(Casts(v, first), W)
  BY <1>3, <1>4
<1> QED
  BY <1>5 DEF E

LEMMA CastsGather ==
  ASSUME NEW v \in Views, NEW first, Gathered(first, v)
  PROVE  \A n \in 0..grid_n_width :
           Gathered(Casts(v, first)[n], v) /\ first.found \subseteq Casts(v, first)[n].found
<1> DEFINE c == Casts(v, first)
           OK(n) == Gathered(c[n], v) /\ first.found \subseteq c[n].found
           T == {n \in 0..grid_n_width : ~OK(n)}
<1>1. grid_n_width \in Nat
  BY GridWidth
<1>2. \A n \in 0..grid_n_width : c[n] = IF n = 0 THEN first ELSE CastRay(v, c[n - 1], n - 1)
  <2>1. c = [n \in 0..grid_n_width |-> IF n = 0 THEN first ELSE CastRay(v, c[n - 1], n - 1)]
    BY CastsEquation
  <2> HIDE DEF c
  <2> QED
    BY <2>1
<1> HIDE DEF c
<1>3. ASSUME T # {}
      PROVE  FALSE
  <2>1. T \subseteq Nat
    BY <1>1
  <2>2. PICK m \in T : \A k \in T : m <= k
    <3> HIDE DEF T
    <3> QED
      BY <1>3, <2>1, NatMin
  <2>3. m \in 0..grid_n_width /\ ~OK(m)
    BY <2>2
  <2>4. m # 0
    <3>1. 0 \in 0..grid_n_width
      BY <1>1
    <3>2. c[0] = first
      BY <1>2, <3>1
    <3> QED
      BY <2>3, <3>2
  <2>5. m - 1 \in 0..grid_n_width /\ m - 1 \in Cells /\ ~(m <= m - 1)
    BY <1>1, <2>3, <2>4 DEF Cells
  <2>6. OK(m - 1)
    BY <2>2, <2>5
  <2>7. c[m] = CastRay(v, c[m - 1], m - 1)
    BY <1>2, <2>3, <2>4
  <2>8. OK(m)
    <3>1. Gathered(c[m], v) /\ c[m - 1].found \subseteq c[m].found
      BY <2>5, <2>6, <2>7, CastRayGathers
    <3> QED
      BY <2>6, <3>1
  <2> QED
    BY <2>3, <2>8
<1> QED
  BY <1>3 DEF c

\* Every point found is in view; a point of a scanned voxel that is in view is
\* found, whatever the rays find.
LEMMA FoundInView ==
  ASSUME NEW v \in Views, NEW scan
  PROVE  /\ Found(v, scan).found \subseteq InView(v)
         /\ Found(v, scan).added \subseteq Sites
         /\ \A i \in InView(v) : Key(Site(i)) \in {LookKey(s) : s \in scan} =>
                                   i \in Found(v, scan).found
<1> DEFINE keys == {LookKey(s) : s \in scan}
           in == {i \in DOMAIN feat_map : Key(Site(i)) \in keys /\ Visible(v, i)}
           first == [sub |-> keys, added |-> {}, found |-> in]
<1>1. Found(v, scan) = IF feat_map = <<>> THEN [first EXCEPT !.sub = {}]
                       ELSE IF raycast_en THEN Casts(v, first)[grid_n_width]
                       ELSE first
  BY DEF Found
<1>2. in \subseteq InView(v) /\ \A i \in InView(v) : Key(Site(i)) \in keys => i \in in
  BY DEF InView
<1> HIDE DEF keys, in
<1>3. Gathered(first, v) /\ first.found = in /\ first.added = {}
  BY <1>2 DEF Gathered
<1>4. CASE feat_map = <<>>
  BY <1>1, <1>2, <1>4 DEF keys
<1>5. CASE feat_map # <<>> /\ raycast_en
  <2>1. grid_n_width \in 0..grid_n_width
    BY GridWidth
  <2> HIDE DEF first
  <2>2. /\ Gathered(Found(v, scan), v)
        /\ first.found \subseteq Found(v, scan).found
    BY <1>1, <1>3, <1>5, <2>1, CastsGather
  <2> QED
    BY <1>2, <1>3, <2>2 DEF Gathered, keys
<1>6. CASE feat_map # <<>> /\ ~raycast_en
  BY <1>1, <1>2, <1>3, <1>6 DEF keys
<1> QED
  BY <1>4, <1>5, <1>6

-----------------------------------------------------------------------------
(* Voxels, cells and pixels *)

\* For a position that is not negative, retrieving looks where inserting files.
LEMMA LookWhereFiled ==
  ASSUME NEW s \in Int, s >= 0
  PROVE  Key(s) = LookKey(s)
<1>1. VoxelSize \in Nat \ {0}
  BY VisualMapAssumption
<1>2. s \div VoxelSize >= 0 /\ s \div VoxelSize \in Int
  BY <1>1
<1>3. LookKey(s) = s \div VoxelSize
  BY <1>2 DEF LookKey
<1>4. Key(s) = s \div VoxelSize
  BY DEF Key, Trunc
<1> QED
  BY <1>3, <1>4

\* The border leaves out the remainder of the image that no cell covers.
LEMMA CellOfGrid ==
  ASSUME NEW v \in Views, NEW s \in Sites, isInFrame(v, s)
  PROVE  Cell(v, s) \in Cells
<1>1. /\ Width \in Nat /\ GridSize \in Nat \ {0} /\ v.px[s] \in Int
      /\ Width % GridSize <= Border
  BY VisualMapAssumption
<1>2. Border <= v.px[s] /\ v.px[s] < Width - Border
  BY DEF isInFrame
<1>3. Border \in Int
  <2>1. patch_size_half \in Nat /\ Levels \in Nat
    BY VisualMapAssumption
  <2>2. 2^Levels \in Int
    BY <2>1, SMT
  <2>3. \A x \in Int : (patch_size_half + 1) * x \in Int
    BY <2>1
  <2> QED
    BY <2>2, <2>3 DEF Border
<1>4. /\ Width % GridSize \in Nat /\ Width = GridSize * (Width \div GridSize) + (Width % GridSize)
      /\ Width \div GridSize \in Int
  <2>1. \A w \in Nat, g \in Nat \ {0} :
          w % g \in Nat /\ w = g * (w \div g) + (w % g) /\ w \div g \in Int
    OBVIOUS
  <2> QED
    BY <1>1, <2>1
<1>5. v.px[s] \in Nat /\ v.px[s] < GridSize * (Width \div GridSize)
  BY <1>1, <1>2, <1>3, <1>4
<1>6. \A x \in Nat, g \in Nat \ {0}, w \in Int : x < g * w => x \div g \in 0..w - 1
  OBVIOUS
<1>7. v.px[s] \div GridSize \in 0..(Width \div GridSize) - 1
  BY <1>1, <1>4, <1>5, <1>6
<1> QED
  BY <1>7 DEF Cell, Cells, grid_n_width

\* 2^n counts the subsets of 1..n, which are subsets of 1..m as well.
LEMMA PowerGrows ==
  ASSUME NEW n \in Nat, NEW m \in Nat, n <= m
  PROVE  2^n \in Nat \ {0} /\ 2^n <= 2^m
<1>1. \A k \in Nat : /\ IsFiniteSet(SUBSET (1..k)) /\ Cardinality(SUBSET (1..k)) = 2^k
                     /\ Cardinality(SUBSET (1..k)) \in Nat
  <2> SUFFICES ASSUME NEW k \in Nat
               PROVE  /\ IsFiniteSet(SUBSET (1..k)) /\ Cardinality(SUBSET (1..k)) = 2^k
                      /\ Cardinality(SUBSET (1..k)) \in Nat
    OBVIOUS
  <2>1. IsFiniteSet(1..k) /\ Cardinality(1..k) = k
    BY FS_Interval
  <2> QED
    BY <2>1, FS_SUBSET, FS_CardinalityType
<1>2. SUBSET (1..n) \in SUBSET (SUBSET (1..m))
  OBVIOUS
<1>3. Cardinality(SUBSET (1..n)) <= Cardinality(SUBSET (1..m))
  BY <1>1, <1>2, FS_Subset
<1>4. Cardinality(SUBSET (1..n)) # 0
  <2>1. SUBSET (1..n) # {}
    OBVIOUS
  <2> QED
    BY <1>1, <2>1, FS_EmptySet
<1> QED
  BY <1>1, <1>3, <1>4

\* A patch of a point in the image, at a level that the border is meant for
LEMMA PatchInside ==
  ASSUME NEW v \in Views, NEW s \in Sites, isInFrame(v, s), NEW l \in 0..Levels
  PROVE  PatchPixels(v.px[s], l) \subseteq 0..Width - 1
<1> DEFINE u == v.px[s]
           h == patch_size_half + 1
           S == 2^l
           T == 2^Levels
<1>1. Width \in Nat /\ u \in Int /\ h \in Nat /\ Levels \in Nat
  BY VisualMapAssumption
<1>2. S \in Nat \ {0} /\ T \in Nat /\ S <= T
  BY <1>1, PowerGrows
<1>3. h * T <= u /\ u < Width - h * T
  BY DEF isInFrame, Border
<1> HIDE DEF u, h, S, T
<1>4. h * S <= h * T /\ h * S \in Nat /\ h * T \in Nat
  BY <1>1, <1>2
<1>5. u \in Nat /\ h * S <= u
  BY <1>1, <1>3, <1>4
<1>6. h * S <= u - (u % S) /\ u % S \in Nat
  BY <1>1, <1>2, <1>5
<1>7. ASSUME NEW n \in -h..h
      PROVE  (u - (u % S)) + n * S \in 0..Width - 1
  <2>1. n \in Int /\ n <= h /\ -h <= n
    BY <1>1
  <2>2. n * S <= h * S /\ -(h * S) <= n * S /\ n * S \in Int
    BY <1>1, <1>2, <2>1
  <2> QED
    BY <1>1, <1>3, <1>4, <1>5, <1>6, <2>2
<1>8. -patch_size_half - 1 = -h /\ patch_size_half + 1 = h
  BY VisualMapAssumption DEF h
<1>9. PatchPixels(u, l) = {(u - (u % S)) + n * S : n \in -h..h}
  BY <1>8 DEF PatchPixels, S
<1> QED
  BY <1>7, <1>9 DEF u

LEMMA SearchLevels ==
  ASSUME NEW D
  PROVE  getBestSearchLevel(D, 2) \in 0..2
<1> DEFINE K == {k \in 0..2 - 1 : D > 3 * 4^k}
<1>1. IsFiniteSet(0..2 - 1) /\ Cardinality(0..2 - 1) = 2
  <2>1. IsFiniteSet(0..1) /\ Cardinality(0..1) = IF 0 > 1 THEN 0 ELSE 1 - 0 + 1
    BY FS_Interval, 0 \in Int, 1 \in Int
  <2>2. 0..2 - 1 = 0..1 /\ (IF 0 > 1 THEN 0 ELSE 1 - 0 + 1) = 2
    OBVIOUS
  <2> QED
    BY <2>1, <2>2
<1>2. K \in SUBSET (0..2 - 1)
  OBVIOUS
<1> HIDE DEF K
<1>3. IsFiniteSet(K) /\ Cardinality(K) <= 2
  BY <1>1, <1>2, FS_Subset
<1>4. Cardinality(K) \in Nat
  BY <1>3, FS_CardinalityType
<1> QED
  BY <1>3, <1>4 DEF getBestSearchLevel, K

-----------------------------------------------------------------------------
(* The steps of processFrame *)

\* What was retrieved belongs to the frame and to the map.
SubmapInv ==
  /\ view \in Views /\ pg \subseteq Sites
  /\ grid_num \subseteq Cells /\ add_from_voxel_map \subseteq Sites
  /\ update_flag \subseteq voxel_points /\ voxel_points \subseteq DOMAIN feat_map
  /\ step = "ekf" => \A i \in voxel_points : isInFrame(view, Site(i))
  /\ ScannedIsRetrieved

LEMMA MapShape ==
  ASSUME MapInv
  PROVE  /\ Len(feat_map) \in Nat /\ DOMAIN feat_map = 1..Len(feat_map)
         /\ \A i \in DOMAIN feat_map : feat_map[i] \in Point /\ Site(i) \in Sites
  BY LenProperties DEF MapInv, Site, Sound, Point

\* Points replaced one by one by sound points
LEMMA PointsReplaced ==
  ASSUME MapInv, NEW new, feat_map' = [i \in DOMAIN feat_map |-> new[i]],
         \A i \in DOMAIN feat_map : Sound(new[i])
  PROVE  /\ MapInv' /\ DOMAIN feat_map' = DOMAIN feat_map
         /\ \A i \in DOMAIN feat_map : feat_map'[i] = new[i]
<1>1. Len(feat_map) \in Nat /\ DOMAIN feat_map = 1..Len(feat_map)
  BY MapShape
<1>2. feat_map' = [i \in 1..Len(feat_map) |-> new[i]]
  BY <1>1
<1>3. \A i \in 1..Len(feat_map) : new[i] \in Point
  BY <1>1 DEF Sound
<1>4. feat_map' \in Seq(Point)
  BY <1>1, <1>2, <1>3, IsASeq
<1> QED
  BY <1>1, <1>2, <1>4 DEF MapInv

\* The choices of a retrieval: the point of each cell, those that may be used,
\* those that are, and their reference patches
Retrieved(pick, depthOk, kept, ref) ==
  LET got   == Found(view, pg)
      cells == {Cell(view, Site(i)) : i \in got.found}
  IN  /\ \A c \in cells : pick[c] \in got.found
      /\ depthOk \subseteq cells /\ kept \subseteq depthOk
      /\ DOMAIN ref = {pick[c] : c \in depthOk}
      /\ \A c \in depthOk : ref[pick[c]] \in References(feat_map[pick[c]])
      /\ feat_map' = [i \in DOMAIN feat_map |->
             IF i \in DOMAIN ref /\ normal_en
             THEN [feat_map[i] EXCEPT !.ref_patch = ref[i], !.has_ref_patch_ = TRUE]
             ELSE feat_map[i]]
      /\ grid_num' = cells
      /\ voxel_points' = {pick[c] : c \in kept}
      /\ add_from_voxel_map' = got.added

LEMMA RetrieveChoices ==
  ASSUME retrieveFromVisualSparseMap
  PROVE  \E pick, depthOk, kept, ref : Retrieved(pick, depthOk, kept, ref)
<1> DEFINE got == Found(view, pg)
           cells == {Cell(view, Site(i)) : i \in got.found}
           picks == {p \in [cells -> got.found] : \A c \in cells : p[c] \in Nearest(view, got.found, c)}
           refsOf(pick, depthOk) == [{pick[c] : c \in depthOk} ->
                                        UNION {feat_map[pick[c]].obs_ : c \in depthOk}]
           Refers(pick, depthOk, kept, ref) ==
             /\ \A c \in depthOk : ref[pick[c]] \in References(feat_map[pick[c]])
             /\ feat_map' = [i \in DOMAIN feat_map |->
                  IF i \in DOMAIN ref /\ normal_en
                  THEN [feat_map[i] EXCEPT !.ref_patch = ref[i], !.has_ref_patch_ = TRUE]
                  ELSE feat_map[i]]
             /\ grid_num' = cells
             /\ voxel_points' = {pick[c] : c \in kept}
             /\ add_from_voxel_map' = got.added
<1>1. \E pick \in picks, depthOk \in SUBSET cells : \E kept \in Matching(depthOk) :
        \E ref \in refsOf(pick, depthOk) : Refers(pick, depthOk, kept, ref)
  BY Zenon DEF retrieveFromVisualSparseMap
<1>2. PICK pick, depthOk, kept, ref :
        /\ pick \in picks /\ depthOk \in SUBSET cells /\ kept \in Matching(depthOk)
        /\ ref \in refsOf(pick, depthOk)
        /\ Refers(pick, depthOk, kept, ref)
  <2> HIDE DEF got, cells, picks, refsOf, Refers
  <2> QED
    BY <1>1, Zenon
<1>3. DOMAIN ref = {pick[c] : c \in depthOk}
  <2> HIDE DEF got, cells, picks, Refers
  <2> QED
    BY <1>2
<1>4. \A c \in cells : pick[c] \in got.found
  <2> HIDE DEF got, Refers, refsOf
  <2>1. pick \in [cells -> got.found]
    BY <1>2
  <2> HIDE DEF cells
  <2> QED
    BY <2>1
<1>5. kept \subseteq depthOk /\ depthOk \subseteq cells
  <2> HIDE DEF got, cells, Refers, refsOf
  <2> QED
    BY <1>2 DEF Matching
<1>6. Refers(pick, depthOk, kept, ref)
  BY <1>2
<1>7. Retrieved(pick, depthOk, kept, ref)
  BY <1>3, <1>4, <1>5, <1>6, Zenon DEF Retrieved
<1> QED
  BY <1>7

LEMMA RetrieveStep ==
  ASSUME MapInv, SubmapInv, retrieveFromVisualSparseMap
  PROVE  MapInv' /\ SubmapInv'
<1>1. PICK pick, depthOk, kept, ref : Retrieved(pick, depthOk, kept, ref)
  BY RetrieveChoices
<1> DEFINE got == Found(view, pg)
           cells == {Cell(view, Site(i)) : i \in got.found}
           new == [i \in DOMAIN feat_map |->
             IF i \in DOMAIN ref /\ normal_en
             THEN [feat_map[i] EXCEPT !.ref_patch = ref[i], !.has_ref_patch_ = TRUE]
             ELSE feat_map[i]]
<1>2. /\ \A c \in cells : pick[c] \in got.found
      /\ depthOk \subseteq cells /\ kept \subseteq depthOk
      /\ DOMAIN ref = {pick[c] : c \in depthOk}
      /\ \A c \in depthOk : ref[pick[c]] \in References(feat_map[pick[c]])
      /\ feat_map' = new
      /\ grid_num' = cells
      /\ voxel_points' = {pick[c] : c \in kept}
      /\ add_from_voxel_map' = got.added
  BY <1>1, Zenon DEF Retrieved
<1>3. /\ step' = "ekf" /\ update_flag' = {} /\ view' = view /\ pg' = pg
      /\ view \in Views /\ pg \subseteq Sites
  BY DEF retrieveFromVisualSparseMap, frame, SubmapInv
<1>4. /\ got.found \subseteq InView(view) /\ got.added \subseteq Sites
      /\ \A i \in InView(view) : Key(Site(i)) \in {LookKey(s) : s \in pg} => i \in got.found
  BY <1>3, FoundInView
<1> HIDE DEF got
<1>5. ASSUME NEW i \in DOMAIN feat_map
      PROVE  /\ Sound(new[i])
             /\ new[i].pos_ = feat_map[i].pos_ /\ new[i].obs_ = feat_map[i].obs_
  <2>1. Sound(feat_map[i]) /\ feat_map[i] \in Point
    BY DEF MapInv, Sound
  <2>2. CASE i \in DOMAIN ref /\ normal_en
    <3>1. PICK c \in depthOk : i = pick[c]
      BY <1>2, <2>2
    <3>2. ref[i] \in feat_map[i].obs_
      BY <1>2, <2>1, <3>1, ReferenceObserved
    <3>3. ref[i] \in 0..ObsLimit + 1
      BY <2>1, <3>2, VisualMapAssumption DEF Point
    <3> DEFINE t == [pos_ |-> feat_map[i].pos_, obs_ |-> feat_map[i].obs_,
                     ref_patch |-> ref[i], has_ref_patch_ |-> TRUE,
                     is_converged_ |-> feat_map[i].is_converged_]
    <3>4. new[i] = [feat_map[i] EXCEPT !.ref_patch = ref[i], !.has_ref_patch_ = TRUE]
      BY <2>2
    <3>5. new[i] = t
      <4> HIDE DEF new
      <4> QED
        BY <2>1, <3>4 DEF Point
    <3>6. Sound(t)
      BY <2>1, <3>2, <3>3 DEF Sound, Point
    <3> HIDE DEF new
    <3> QED
      BY <3>5, <3>6
  <2>3. CASE ~(i \in DOMAIN ref /\ normal_en)
    <3>1. new[i] = feat_map[i]
      BY <2>3
    <3> HIDE DEF new
    <3> QED
      BY <2>1, <3>1
  <2> QED
    BY <2>2, <2>3
<1>6. /\ MapInv' /\ DOMAIN feat_map' = DOMAIN feat_map
      /\ \A i \in DOMAIN feat_map : feat_map'[i] = new[i]
  <2>1. feat_map' = [i \in DOMAIN feat_map |-> new[i]]
    BY <1>2
  <2> HIDE DEF new
  <2> QED
    BY <1>5, <2>1, PointsReplaced
<1> HIDE DEF new
<1>7. \A i \in DOMAIN feat_map :
        /\ feat_map'[i].pos_ = feat_map[i].pos_ /\ feat_map'[i].obs_ = feat_map[i].obs_
        /\ Site(i) \in Sites
  BY <1>5, <1>6, MapShape
<1>8. \A i \in InView(view) : isInFrame(view, Site(i)) /\ i \in DOMAIN feat_map
  BY DEF InView, Visible
<1>9. \A i \in voxel_points' : i \in InView(view)
  BY <1>2, <1>4
<1>10. grid_num' \subseteq Cells
  <2>1. \A i \in got.found : Cell(view, Site(i)) \in Cells
    BY <1>3, <1>4, <1>7, <1>8, CellOfGrid
  <2> QED
    BY <1>2, <2>1
<1>11. \A i \in voxel_points' : isInFrame(view, feat_map'[i].pos_)
  BY <1>7, <1>8, <1>9 DEF Site
<1>12. ASSUME NEW i \in DOMAIN feat_map', feat_map'[i].pos_ \in pg, feat_map'[i].pos_ >= 0,
              feat_map'[i].obs_ # {}, view.front[feat_map'[i].pos_],
              isInFrame(view, feat_map'[i].pos_)
       PROVE  Cell(view, feat_map'[i].pos_) \in grid_num'
  <2>1. i \in DOMAIN feat_map /\ Site(i) = feat_map'[i].pos_ /\ Site(i) \in Sites
    BY <1>6, <1>7 DEF Site
  <2>2. i \in InView(view)
    BY <1>7, <1>12, <2>1 DEF InView, Visible
  <2>3. Key(Site(i)) = LookKey(Site(i))
    BY <1>12, <2>1, LookWhereFiled, VisualMapAssumption
  <2>4. i \in got.found
    BY <1>4, <1>12, <2>1, <2>2, <2>3
  <2> QED
    BY <1>2, <2>1, <2>4
<1>13. ScannedIsRetrieved'
  BY <1>3, <1>12 DEF ScannedIsRetrieved, Visible, Site, isInFrame, Cell
<1> QED
  BY <1>2, <1>3, <1>4, <1>6, <1>8, <1>9, <1>10, <1>11, <1>13
     DEF SubmapInv, Site, isInFrame

LEMMA GenerateStep ==
  ASSUME MapInv, SubmapInv, generateVisualMapPoints
  PROVE  MapInv' /\ SubmapInv'
<1>1. PICK n \in 0..Cardinality({c \in Cells \ grid_num :
                  {t \in pg \cup add_from_voxel_map :
                     isInFrame(view, t) /\ Cell(view, t) = c} # {}}) :
        \E s \in [1..n -> pg \cup add_from_voxel_map] :
          feat_map' = feat_map \o [k \in 1..n |-> VisualPoint(s[k])]
  BY Zenon DEF generateVisualMapPoints
<1>2. PICK s \in [1..n -> pg \cup add_from_voxel_map] :
        feat_map' = feat_map \o [k \in 1..n |-> VisualPoint(s[k])]
  BY <1>1
<1>3. n \in Nat
  <2> DEFINE free == {c \in Cells \ grid_num :
                  {t \in pg \cup add_from_voxel_map :
                     isInFrame(view, t) /\ Cell(view, t) = c} # {}}
  <2>1. IsFiniteSet(Cells)
    <3>1. 0 \in Int /\ grid_n_width - 1 \in Int
      BY GridWidth
    <3> QED
      BY <3>1, FS_Interval DEF Cells
  <2>2. free \in SUBSET Cells
    OBVIOUS
  <2> HIDE DEF free
  <2>3. Cardinality(free) \in Nat
    BY <2>1, <2>2, FS_Subset, FS_CardinalityType
  <2> QED
    BY <1>1, <2>3 DEF free
<1> DEFINE new == [k \in 1..n |-> VisualPoint(s[k])]
<1>4. \A k \in 1..n : s[k] \in Sites
  BY DEF SubmapInv
<1>5. \A k \in 1..n : Sound(new[k]) /\ new[k] \in Point
  BY <1>4, VisualPointSound DEF Sound
<1>6. new \in Seq(Point) /\ Len(new) = n
  <2>1. \A k \in 1..n : VisualPoint(s[k]) \in Point
    BY <1>5
  <2> QED
    BY <1>3, <2>1, IsASeq, LenProperties
<1>7. feat_map \in Seq(Point) /\ Len(feat_map) \in Nat /\ DOMAIN feat_map = 1..Len(feat_map)
  BY MapShape DEF MapInv
<1>8. feat_map' = feat_map \o new
  BY <1>2
<1> HIDE DEF new
<1>9. /\ feat_map' \in Seq(Point) /\ Len(feat_map') = Len(feat_map) + n
      /\ \A i \in 1..Len(feat_map) + n :
           feat_map'[i] = IF i <= Len(feat_map) THEN feat_map[i] ELSE new[i - Len(feat_map)]
  BY <1>6, <1>7, <1>8, ConcatProperties
<1>10. DOMAIN feat_map' = 1..Len(feat_map) + n
  BY <1>9, LenProperties
<1>11. \A i \in DOMAIN feat_map' : Sound(feat_map'[i])
  <2> SUFFICES ASSUME NEW i \in DOMAIN feat_map' PROVE Sound(feat_map'[i])
    OBVIOUS
  <2>1. CASE i <= Len(feat_map)
    BY <1>3, <1>7, <1>9, <1>10, <2>1 DEF MapInv
  <2>2. CASE ~(i <= Len(feat_map))
    <3>1. i - Len(feat_map) \in 1..n
      BY <1>3, <1>7, <1>10, <2>2
    <3> QED
      BY <1>5, <1>9, <1>10, <2>2, <3>1
  <2> QED
    BY <2>1, <2>2
<1>12. DOMAIN feat_map \subseteq DOMAIN feat_map'
  BY <1>3, <1>7, <1>10
<1>13. step' = "points" /\ UNCHANGED <<frame, submap, update_flag>>
  BY DEF generateVisualMapPoints
<1>14. MapInv'
  BY <1>9, <1>11 DEF MapInv
<1>15. SubmapInv'
  BY <1>12, <1>13 DEF SubmapInv, ScannedIsRetrieved, frame, submap
<1> QED
  BY <1>14, <1>15

LEMMA UpdateStep ==
  ASSUME MapInv, SubmapInv, updateVisualMapPoints
  PROVE  MapInv' /\ SubmapInv'
<1>1. PICK new : /\ \A i \in voxel_points : new[i] \in Observed(feat_map[i])
                 /\ feat_map' = [i \in DOMAIN feat_map |->
                                   IF i \in voxel_points THEN new[i][1] ELSE feat_map[i]]
                 /\ update_flag' = {i \in voxel_points : new[i][2]}
  BY DEF updateVisualMapPoints
<1> DEFINE to == [i \in DOMAIN feat_map |-> IF i \in voxel_points THEN new[i][1] ELSE feat_map[i]]
<1>2. \A i \in DOMAIN feat_map : Sound(to[i])
  BY <1>1, ObservedSound DEF MapInv
<1>3. feat_map' = [i \in DOMAIN feat_map |-> to[i]]
  BY <1>1
<1> HIDE DEF to
<1>4. MapInv' /\ DOMAIN feat_map' = DOMAIN feat_map
  BY <1>2, <1>3, PointsReplaced
<1>5. step' = "reference" /\ UNCHANGED <<frame, submap>>
  BY DEF updateVisualMapPoints
<1> QED
  BY <1>1, <1>4, <1>5 DEF SubmapInv, ScannedIsRetrieved, frame, submap

LEMMA ReferenceStep ==
  ASSUME MapInv, SubmapInv, updateReferencePatch
  PROVE  MapInv' /\ SubmapInv'
<1>1. PICK new : /\ \A i \in update_flag : new[i] \in Rescored(feat_map[i])
                 /\ feat_map' = [i \in DOMAIN feat_map |->
                                   IF i \in update_flag THEN new[i] ELSE feat_map[i]]
  BY DEF updateReferencePatch
<1> DEFINE to == [i \in DOMAIN feat_map |-> IF i \in update_flag THEN new[i] ELSE feat_map[i]]
<1>2. \A i \in DOMAIN feat_map : Sound(to[i])
  BY <1>1, RescoredSound DEF MapInv
<1>3. feat_map' = [i \in DOMAIN feat_map |-> to[i]]
  BY <1>1
<1> HIDE DEF to
<1>4. MapInv'
  BY <1>2, <1>3, PointsReplaced
<1>5. /\ step' = "frame" /\ UNCHANGED frame /\ update_flag' = {} /\ grid_num' = {}
      /\ voxel_points' = {} /\ add_from_voxel_map' = {}
  BY DEF updateReferencePatch, resetGrid
<1> QED
  BY <1>4, <1>5 DEF SubmapInv, ScannedIsRetrieved, frame

LEMMA MapInit == Init => MapInv /\ SubmapInv
<1> SUFFICES ASSUME Init PROVE MapInv /\ SubmapInv
  OBVIOUS
<1>1. feat_map = <<>> /\ step = "frame"
  BY DEF Init
<1>2. MapInv
  BY <1>1, EmptySeq DEF MapInv
<1> QED
  BY <1>1, <1>2 DEF Init, SubmapInv, ScannedIsRetrieved

LEMMA MapNext ==
  ASSUME MapInv, SubmapInv, [Next]_vars
  PROVE  MapInv' /\ SubmapInv'
<1>1. CASE retrieveFromVisualSparseMap
  BY <1>1, RetrieveStep
<1>2. CASE generateVisualMapPoints
  BY <1>2, GenerateStep
<1>3. CASE updateVisualMapPoints
  BY <1>3, UpdateStep
<1>4. CASE updateReferencePatch
  BY <1>4, ReferenceStep
<1>5. CASE processFrame
  BY <1>5 DEF processFrame, submap, MapInv, SubmapInv, ScannedIsRetrieved
<1>6. CASE updateFrameState \/ NoPointsToTrack
  BY <1>6 DEF updateFrameState, NoPointsToTrack, frame, submap, MapInv, SubmapInv,
              ScannedIsRetrieved
<1>7. CASE updateState \/ UNCHANGED vars
  <2>1. UNCHANGED <<feat_map, frame, submap, update_flag>>
    BY <1>7 DEF updateState, vars, frame, submap
  <2>2. step' = "ekf" => step = "ekf"
    BY <1>7 DEF updateState, vars
  <2> QED
    BY <2>1, <2>2 DEF frame, submap, MapInv, SubmapInv, ScannedIsRetrieved, Visible, Site
<1> QED
  BY <1>1, <1>2, <1>3, <1>4, <1>5, <1>6, <1>7 DEF Next

-----------------------------------------------------------------------------
(* The loop of updateState *)

Cached(level) == [level |-> level, refs |-> [i \in voxel_points |-> feat_map[i].ref_patch]]

\* The loop's record, with its fields
Loop(e) ==
  /\ e = [level |-> e.level, iteration |-> e.iteration, last_error |-> e.last_error,
          ahead |-> e.ahead, gain |-> e.gain, has_ref_patch_cache |-> e.has_ref_patch_cache,
          H_sub_inv |-> e.H_sub_inv]
  /\ e.level \in Nat /\ e.iteration \in Nat /\ e.last_error \in Nat
  /\ e.has_ref_patch_cache \in BOOLEAN

\* A level is entered with an error that any other undercuts.
Entered(e) == e.iteration = 0 /\ e.last_error = Inf

\* After the first iteration at a level a state was accepted there, and the
\* Jacobians are those of the level and of the points in use.
Underway(e) ==
  /\ e.gain = "accepted"
  /\ inverse_composition_en => e.has_ref_patch_cache /\ e.H_sub_inv = Cached(e.level)

GainInv ==
  /\ Loop(ekf)
  /\ step # "covariance" =>
       \/ Entered(ekf)
       \/ step = "ekf" /\ voxel_points # {} /\ Underway(ekf)
  /\ GainOfAcceptedState

LEMMA GainInit == Init => GainInv
<1> SUFFICES ASSUME Init PROVE GainInv
  OBVIOUS
<1>1. Levels - 1 \in Nat
  BY VisualMapAssumption
<1>2. Loop(ekf) /\ Entered(ekf)
  BY <1>1 DEF Init, Loop, Entered, NoLoop, Inf
<1> QED
  <2>1. step = "frame"
    BY DEF Init
  <2> QED
    BY <1>2, <2>1 DEF GainInv, GainOfAcceptedState

\* The Jacobians that an iteration uses
LEMMA JacobiansOfLevel ==
  ASSUME Loop(ekf), Entered(ekf) \/ Underway(ekf),
         NEW e, e = precomputeReferencePatches(EnterLevel(ekf))
  PROVE  /\ Loop(e) /\ e.level = ekf.level /\ e.iteration = ekf.iteration
         /\ e.last_error = ekf.last_error /\ e.gain = ekf.gain
         /\ inverse_composition_en => e.has_ref_patch_cache /\ e.H_sub_inv = Cached(ekf.level)
<1> DEFINE with(has, cache) ==
             [level |-> ekf.level, iteration |-> ekf.iteration, last_error |-> ekf.last_error,
              ahead |-> ekf.ahead, gain |-> ekf.gain, has_ref_patch_cache |-> has,
              H_sub_inv |-> cache]
<1>1. CASE ~inverse_composition_en
  BY <1>1 DEF precomputeReferencePatches, EnterLevel
<1>2. CASE inverse_composition_en /\ (ekf.iteration = 0 \/ ~ekf.has_ref_patch_cache)
  <2> DEFINE x == EnterLevel(ekf)
  <2>1. x = with(FALSE, ekf.H_sub_inv)
    BY <1>2 DEF EnterLevel, Loop
  <2>2. ~x.has_ref_patch_cache /\ x.level = ekf.level
    BY <2>1
  <2>3. e = precomputeReferencePatches(x)
    OBVIOUS
  <2> HIDE DEF x
  <2>4. e = [x EXCEPT !.has_ref_patch_cache = TRUE, !.H_sub_inv = Cached(ekf.level)]
    BY <1>2, <2>2, <2>3 DEF precomputeReferencePatches, Cached
  <2>5. e = with(TRUE, Cached(ekf.level))
    BY <2>1, <2>4
  <2> QED
    BY <1>2, <2>5 DEF Loop
<1>3. CASE inverse_composition_en /\ ekf.iteration # 0 /\ ekf.has_ref_patch_cache
  BY <1>3 DEF EnterLevel, precomputeReferencePatches, Entered, Underway
<1> QED
  BY <1>1, <1>2, <1>3 DEF Loop

\* An iteration ends with an accepted state: its own, or one before it.
LEMMA IterationAccepted ==
  ASSUME NEW e, Loop(e), Entered(e) \/ e.gain = "accepted", NEW error \in 0 .. 2, NEW converged,
         NEW it, it = Iterate(e, error, converged)
  PROVE  /\ Loop(it.next) /\ it.next.gain = "accepted" /\ it.next.level = e.level
         /\ it.next.has_ref_patch_cache = e.has_ref_patch_cache
         /\ it.next.H_sub_inv = e.H_sub_inv
<1> DEFINE with(i, err, ah, g) ==
             [level |-> e.level, iteration |-> i, last_error |-> err,
              ahead |-> ah, gain |-> g, has_ref_patch_cache |-> e.has_ref_patch_cache,
              H_sub_inv |-> e.H_sub_inv]
<1>1. CASE error <= e.last_error
  <2>1. it.next = [e EXCEPT !.last_error = error, !.ahead = TRUE, !.gain = "accepted",
                            !.iteration = @ + 1]
    BY <1>1 DEF Iterate
  <2>2. it.next = with(e.iteration + 1, error, TRUE, "accepted")
    BY <2>1 DEF Loop
  <2> QED
    BY <2>2 DEF Loop
<1>2. CASE ~(error <= e.last_error)
  <2>1. it.next = [e EXCEPT !.ahead = FALSE]
    BY <1>2 DEF Iterate
  <2>2. it.next = with(e.iteration, e.last_error, FALSE, e.gain)
    BY <2>1 DEF Loop
  <2>3. e.gain = "accepted"
    BY <1>2 DEF Entered, Inf
  <2> QED
    BY <2>2, <2>3 DEF Loop
<1> QED
  BY <1>1, <1>2

LEMMA GainUpdate ==
  ASSUME GainInv, updateState
  PROVE  GainInv'
<1>1. Loop(ekf) /\ (Entered(ekf) \/ Underway(ekf)) /\ step = "ekf" /\ voxel_points # {}
  BY DEF GainInv, updateState
<1>2. UNCHANGED <<feat_map, voxel_points>>
  BY DEF updateState, submap
<1> DEFINE e == precomputeReferencePatches(EnterLevel(ekf))
           it(error, converged) == Iterate(e, error, converged)
<1>3. PICK error \in 0 .. 2, converged \in BOOLEAN :
        LET i == it(error, converged)
            done == i.EKF_end \/ i.next.iteration = MaxIterations
        IN  IF ~done
            THEN ekf' = i.next /\ UNCHANGED <<step, view>>
            ELSE IF ekf.level > 0
            THEN /\ ekf' = [i.next EXCEPT !.level = @ - 1, !.iteration = 0,
                                          !.last_error = Inf, !.ahead = FALSE]
                 /\ UNCHANGED <<step, view>>
            ELSE /\ ekf' = i.next
                 /\ step' = "covariance" /\ UNCHANGED view
  BY DEF updateState
<1> DEFINE n == it(error, converged).next
<1>4. \/ ekf' = n /\ step' = step
      \/ /\ ekf.level > 0 /\ step' = step
         /\ ekf' = [n EXCEPT !.level = @ - 1, !.iteration = 0, !.last_error = Inf,
                             !.ahead = FALSE]
      \/ ~(ekf.level > 0) /\ ekf' = n /\ step' = "covariance"
  <2> HIDE DEF it
  <2> QED
    BY <1>3
<1>5. /\ Loop(e) /\ e.level = ekf.level /\ (Entered(e) \/ e.gain = "accepted")
      /\ inverse_composition_en => e.has_ref_patch_cache /\ e.H_sub_inv = Cached(ekf.level)
  <2> HIDE DEF e
  <2> QED
    BY <1>1, JacobiansOfLevel DEF Entered, Underway, e
<1>6. /\ Loop(n) /\ n.gain = "accepted" /\ n.level = ekf.level
      /\ inverse_composition_en => n.has_ref_patch_cache /\ n.H_sub_inv = Cached(ekf.level)
  <2> HIDE DEF e
  <2> QED
    BY <1>5, IterationAccepted
<1> HIDE DEF n, e
<1>7. CASE ekf' = n /\ step' = step
  BY <1>1, <1>2, <1>6, <1>7 DEF GainInv, Underway, GainOfAcceptedState, Loop, Cached
<1>8. CASE /\ ekf.level > 0 /\ step' = step
           /\ ekf' = [n EXCEPT !.level = @ - 1, !.iteration = 0, !.last_error = Inf,
                               !.ahead = FALSE]
  <2> DEFINE t == [level |-> n.level - 1, iteration |-> 0, last_error |-> Inf,
                   ahead |-> FALSE, gain |-> n.gain,
                   has_ref_patch_cache |-> n.has_ref_patch_cache, H_sub_inv |-> n.H_sub_inv]
  <2>1. ekf' = t
    BY <1>6, <1>8 DEF Loop
  <2>2. Loop(t) /\ Entered(t)
    BY <1>1, <1>6, <1>8 DEF Loop, Entered, Inf
  <2> HIDE DEF t
  <2> QED
    BY <1>1, <1>8, <2>1, <2>2 DEF GainInv, GainOfAcceptedState
<1>9. CASE ~(ekf.level > 0) /\ ekf' = n /\ step' = "covariance"
  <2>1. n.level = 0
    BY <1>1, <1>6, <1>9 DEF Loop
  <2> QED
    BY <1>1, <1>2, <1>6, <1>9, <2>1 DEF GainInv, GainOfAcceptedState, Loop, Cached
<1> QED
  BY <1>4, <1>7, <1>8, <1>9

LEMMA GainNext ==
  ASSUME GainInv, [Next]_vars
  PROVE  GainInv'
<1>1. CASE updateState
  BY <1>1, GainUpdate
<1>2. CASE updateFrameState
  <2> DEFINE t == [level |-> Levels - 1, iteration |-> 0, last_error |-> Inf,
                   ahead |-> FALSE, gain |-> "none",
                   has_ref_patch_cache |-> ekf.has_ref_patch_cache,
                   H_sub_inv |-> ekf.H_sub_inv]
  <2>1. ekf' = t /\ step' = "generate"
    BY <1>2 DEF updateFrameState, NoLoop
  <2>2. Levels - 1 \in Nat
    BY VisualMapAssumption
  <2>3. Loop(t) /\ Entered(t)
    BY <2>2 DEF GainInv, Loop, Entered, Inf
  <2> HIDE DEF t
  <2> QED
    BY <2>1, <2>3 DEF GainInv, GainOfAcceptedState
<1>3. CASE UNCHANGED vars
  BY <1>3 DEF vars, submap, GainInv, GainOfAcceptedState, Loop, Entered, Underway, Cached
<1>4. ASSUME UNCHANGED ekf, step' # "covariance", Entered(ekf)
      PROVE  GainInv'
  <2>1. Loop(ekf) /\ ekf' = ekf
    BY <1>4 DEF GainInv
  <2> QED
    BY <1>4, <2>1 DEF GainInv, GainOfAcceptedState
<1>5. CASE NoPointsToTrack
  BY <1>4, <1>5 DEF NoPointsToTrack, GainInv
<1>6. CASE \/ processFrame \/ retrieveFromVisualSparseMap \/ generateVisualMapPoints
           \/ updateVisualMapPoints \/ updateReferencePatch
  <2>1. step \notin {"ekf", "covariance"} /\ step' # "covariance" /\ UNCHANGED ekf
    BY <1>6, Zenon DEF processFrame, retrieveFromVisualSparseMap, generateVisualMapPoints,
                       updateVisualMapPoints, updateReferencePatch
  <2> QED
    BY <1>4, <2>1 DEF GainInv
<1> QED
  BY <1>1, <1>2, <1>3, <1>5, <1>6 DEF Next

-----------------------------------------------------------------------------
(* Theorems *)

LEMMA MapAlways == Spec => [](MapInv /\ SubmapInv)
  BY MapInit, MapNext, PTL DEF Spec

\* The map is a sequence of points with at most ObsLimit + 1 patches each, and the
\* submap is part of it: every cell that retrieveFromVisualSparseMap marks is one of
\* the grid, although the grid leaves out a remainder of the image.
THEOREM TypeCorrect == Spec => []TypeOK
<1>1. ASSUME MapInv, SubmapInv PROVE TypeOK
  BY <1>1 DEF MapInv, SubmapInv, TypeOK, Point
<1> QED
  BY <1>1, MapAlways, PTL

\* No place that deletes patches (the limit and the convergence in
\* updateVisualMapPoints) leaves ref_patch at a freed one.
THEOREM RefPatchFreedNever == Spec => []RefPatchIsObservation
<1>1. ASSUME MapInv, SubmapInv PROVE RefPatchIsObservation
  BY <1>1 DEF MapInv, RefPatchIsObservation, Sound
<1> QED
  BY <1>1, MapAlways, PTL

\* retrieveFromVisualSparseMap finds every point it should of the voxels that the scan
\* hits, whatever the rays add: its cell is marked, and generateVisualMapPoints makes no
\* second point there.
THEOREM NothingSeenTwice == Spec => []ScannedIsRetrieved
<1>1. ASSUME MapInv, SubmapInv PROVE ScannedIsRetrieved
  BY <1>1 DEF SubmapInv
<1> QED
  BY <1>1, MapAlways, PTL

\* The border of isInFrame is as wide as updateState needs at every level of the
\* pyramid, but for search level 2 at the coarsest.
THEOREM ReadsInsideImage == Spec => []PatchesInImage
<1>1. ASSUME MapInv, SubmapInv PROVE PatchesInImage
  <2> SUFFICES ASSUME step = "ekf", NEW i \in voxel_points, NEW level \in 0..Levels - 1,
                      NEW search_level, search_level = getBestSearchLevel(Growth(view, i), 2),
                      search_level < 2 \/ level < Levels - 1
               PROVE  PatchPixels(view.px[Site(i)], level + search_level) \subseteq 0..Width - 1
    BY DEF PatchesInImage
  <2>1. view \in Views /\ Site(i) \in Sites /\ isInFrame(view, Site(i))
    BY <1>1, MapShape DEF SubmapInv
  <2>2. search_level \in 0..2 /\ Levels \in Nat
    BY SearchLevels, VisualMapAssumption
  <2>3. level + search_level \in 0..Levels
    BY <2>2
  <2> QED
    BY <2>1, <2>3, PatchInside
<1> QED
  BY <1>1, MapAlways, PTL

\* updateState and updateStateInverse leave their loop with the gain of a state they
\* accepted in this frame: the first iteration at a level is accepted, as last_error
\* starts at its bound, and the Jacobians are computed anew with the level.
THEOREM CovarianceTakesAccepted == Spec => []GainOfAcceptedState
<1>1. GainInv => GainOfAcceptedState
  BY DEF GainInv
<1> QED
  BY <1>1, GainInit, GainNext, PTL DEF Spec
=============================================================================
