------------------------------ MODULE VoxelMap ------------------------------
(***************************************************************************)
(* The adaptive voxel map of FAST-LIVO (fast_livo/src/voxel_map.cpp): a    *)
(* hash of root voxels, each an octree that is cut where the points do not *)
(* lie in a plane, and the four calls LIVMapper::handleLIO makes on it for *)
(* a scan: BuildVoxelMap (the first), StateEstimation, UpdateVoxelMap,     *)
(* mapSliding.                                                             *)
(*                                                                         *)
(* Space is one line of integer positions, so a node has two leaves where  *)
(* the code has eight; a node is <<key of its root voxel, path of leaf     *)
(* numbers>>.  What a fit finds (plane or not) and what the filter does    *)
(* with a match are free.  A scan has one point after the first: nothing   *)
(* is read between the points of one scan.                                 *)
(***************************************************************************)
EXTENDS Integers, Sequences, FiniteSets, SequencesExt, FiniteSetsExt

CONSTANTS
    Positions,      \* world positions of points
    Poses,          \* positions of the sensor
    VoxelSize,      \* max_voxel_size_, a multiple of 2^(MaxLayer + 1)
    Metre,          \* a metre in the unit of Positions
    MaxLayer,       \* max_layer_
    InitNum,        \* layer_init_num_, the same for each layer: points_size_threshold_
    UpdateNum,      \* update_size_threshold_
    MaxPoints,      \* max_points_num_
    MaxIterations,  \* max_iterations_
    SlidingThresh,  \* sliding_thresh
    HalfMapSize     \* half_map_size, in voxels

ASSUME VoxelMapAssumption ==
    /\ Positions \subseteq Int /\ Poses \subseteq Int
    /\ VoxelSize \in Nat \ {0} /\ Metre \in Nat \ {0} /\ MaxLayer \in Nat
    /\ InitNum \in Nat \ {0} /\ UpdateNum \in Nat
    /\ MaxPoints \in Nat /\ MaxPoints > InitNum
    /\ MaxIterations \in Nat \ {0} /\ SlidingThresh \in Nat /\ HalfMapSize \in Nat

VARIABLES
    voxel_map_,          \* the nodes there are, and their contents
    phase,               \* the next call of handleLIO
    iterCount, rematch_num,         \* locals of StateEstimation
    pos_end,             \* state_.pos_end, and the propagated one it started from
    propagat,
    position_last_, last_slide_position

vars == <<voxel_map_, phase, iterCount, rematch_num, pos_end,
          propagat, position_last_, last_slide_position>>
estimation == <<iterCount, rematch_num, pos_end, propagat>>

-----------------------------------------------------------------------------
(* Geometry *)

Trunc(a, b) == IF a < 0 THEN -((-a) \div b) ELSE a \div b
\* loc_xyz: the quotient, less one when it is negative, cut to an integer
Key(p) == Trunc(IF p < 0 THEN p - VoxelSize ELSE p, VoxelSize)

Paths == UNION {[1..l -> {0, 1}] : l \in 0..MaxLayer}
Layer(n) == Len(n[2])
Root(k) == <<k, <<>>>>
Above(n, m) == n[1] = m[1] /\ IsStrictPrefix(n[2], m[2])

Quarter(l) == VoxelSize \div (4 * 2^l)
\* voxel_center_ of a node: the root's, moved by quater_length_ at each leaf
Centre(n) ==
    n[1] * VoxelSize + (VoxelSize \div 2)
    + SumSet({(2 * n[2][i] - 1) * Quarter(i - 1) : i \in DOMAIN n[2]})

\* the leaf of a node that a point lies in
Leaf(n, p) == <<n[1], Append(n[2], IF p > Centre(n) THEN 1 ELSE 0)>>
\* the nodes a point passes on its way down, one per layer
Passed(p) ==
    LET node[l \in 0..MaxLayer] == IF l = 0 THEN Root(Key(p)) ELSE Leaf(node[l - 1], p)
    IN  node
Descent(p) == {Passed(p)[l] : l \in 0..MaxLayer}

\* those of some points, in their order, that lie in a node
Within(points, n) ==
    LET upTo[i \in 0..Len(points)] ==
            IF i = 0 THEN <<>>
            ELSE IF n \in Descent(points[i]) THEN Append(upTo[i - 1], points[i])
            ELSE upTo[i - 1]
    IN  upTo[Len(points)]

-----------------------------------------------------------------------------
(* Trees *)

\* An octree node, with what is used of its plane; its leaves are nodes of their own
Node == [temp_points_ : Seq(Positions), new_points_ : Nat, init_octo_ : BOOLEAN,
         update_enable_ : BOOLEAN, is_plane_ : BOOLEAN, octo_state_ : {0, 1}, points_size_ : Nat]

Fresh == [temp_points_ |-> <<>>, new_points_ |-> 0, init_octo_ |-> FALSE,
          update_enable_ |-> TRUE, is_plane_ |-> FALSE, octo_state_ |-> 0, points_size_ |-> 0]

Freeze(node) == [node EXCEPT !.update_enable_ = FALSE, !.temp_points_ = <<>>, !.new_points_ = 0]

\* A node cut_octo_tree or init_octo_tree has looked at
Fitted(n, node, planar) ==
    IF Len(node.temp_points_) <= InitNum THEN node
    ELSE LET fit == [node EXCEPT !.init_octo_ = TRUE, !.new_points_ = 0,
                                 !.points_size_ = Len(node.temp_points_),
                                 !.is_plane_ = n \in planar,
                                 !.octo_state_ = IF n \in planar \/ Layer(n) = MaxLayer
                                                 THEN 0 ELSE 1]
         IN  IF n \in planar /\ Len(node.temp_points_) > MaxPoints THEN Freeze(fit) ELSE fit

\* The nodes under n that hold some of the points once n is fitted and cut: those
\* all of whose ancestors, n among them, are over the threshold and no plane
Cut(n, points, planar) ==
    {m \in {<<n[1], path>> : path \in Paths} :
        /\ Above(n, m)
        /\ Len(Within(points, m)) > 0
        /\ \A a \in {<<n[1], path>> : path \in Paths} :
              Above(a, m) /\ (a = n \/ Above(n, a))
                  => Len(Within(points, a)) > InitNum /\ a \notin planar}

\* init_octo_tree with cut_octo_tree, whose two bodies fit a node alike
init_octo_tree(map, n, planar) ==
    LET points == map[n].temp_points_
        below  == Cut(n, points, planar)
    IN  [m \in DOMAIN map \cup below |->
            IF m = n THEN Fitted(n, map[n], planar)
            ELSE IF m \in below
            THEN Fitted(m, [Fresh EXCEPT !.temp_points_ = Within(points, m),
                                         !.new_points_ = Len(Within(points, m))], planar)
            ELSE map[m]]

\* Where UpdateOctoTree comes to rest: the first node on the way down that is
\* missing, not fitted yet, a plane, or on the last layer
Target(map, p) ==
    CHOOSE n \in Descent(p) :
        /\ \/ n \notin DOMAIN map
           \/ ~map[n].init_octo_ \/ map[n].is_plane_ \/ Layer(n) = MaxLayer
        /\ \A a \in Descent(p) :
              Above(a, n) => /\ a \in DOMAIN map
                             /\ map[a].init_octo_ /\ ~map[a].is_plane_

\* Fault: a refit does not reset new_points_
Refit_KeepNew(n, node, planar) ==
    [node EXCEPT !.is_plane_ = n \in planar, !.points_size_ = Len(node.temp_points_)]

\* The branch of a fitted node that takes points: refit after UpdateNum new ones,
\* freeze when full (a plane one point earlier than a last-layer node)
Refit(n, node, planar) ==
    LET refit  == IF node.new_points_ > UpdateNum
                  THEN [node EXCEPT !.is_plane_ = n \in planar, !.new_points_ = 0,
                                    !.points_size_ = Len(node.temp_points_)]
                  ELSE node
        full   == IF node.is_plane_ THEN MaxPoints ELSE MaxPoints + 1
    IN  IF Len(node.temp_points_) >= full THEN Freeze(refit) ELSE refit

UpdateOctoTree(map, p, planar) ==
    LET n    == Target(map, p)
        old  == IF n \in DOMAIN map THEN map[n] ELSE Fresh
        node == [old EXCEPT !.new_points_ = @ + 1, !.temp_points_ = Append(@, p)]
        put(new) == [m \in DOMAIN map \cup {n} |-> IF m = n THEN new ELSE map[m]]
    IN  IF ~old.init_octo_ THEN init_octo_tree(put(node), n, planar)
        ELSE IF old.update_enable_ THEN put(Refit(n, node, planar))
        ELSE map

find_correspond(map, p) ==
    CHOOSE n \in Descent(p) \cap DOMAIN map :
        /\ \/ ~map[n].init_octo_ \/ map[n].is_plane_ \/ Layer(n) = MaxLayer
           \/ \A m \in Descent(p) \cap DOMAIN map : ~Above(n, m)
        /\ \A a \in Descent(p) : Above(a, n) => map[a].init_octo_ /\ ~map[a].is_plane_

\* build_single_residual goes through all leaves of a root, down to the planes
build_single_residual(map, k) ==
    {n \in DOMAIN map : /\ n[1] = k /\ map[n].is_plane_
                        /\ \A a \in DOMAIN map : Above(a, n) => ~map[a].is_plane_}

\* The voxel BuildResidualListOMP tries next.  loc_xyz counts voxels and
\* voxel_center_ and quater_length_ are metres
NearKey(p) ==
    LET k   == Key(p)
        loc == Metre * (IF p < 0 THEN p - VoxelSize ELSE p)
    IN  IF loc > VoxelSize * (Centre(Root(k)) + Quarter(0)) THEN k + 1
        ELSE IF loc < VoxelSize * (Centre(Root(k)) - Quarter(0)) THEN k - 1 ELSE k

\* Fault: the key is not moved down for a negative position
BuildResidualListOMP_Trunc(map, p) ==
    build_single_residual(map, Trunc(p, VoxelSize)) \cup build_single_residual(map, NearKey(p))

\* The planes a point can be matched with
BuildResidualListOMP(map, p) ==
    IF Root(Key(p)) \notin DOMAIN map THEN {}
    ELSE build_single_residual(map, Key(p)) \cup build_single_residual(map, NearKey(p))

-----------------------------------------------------------------------------
(* The calls of handleLIO *)

AllNodes == UNION {Descent(p) : p \in Positions}

\* The roots filled with some points, and each of them fitted
BuildVoxelMap(points, planar) ==
    LET keys == {k \in {Key(p) : p \in Positions} : Len(Within(points, Root(k))) > 0}
        fit(k) == {Root(k)} \cup (IF Len(Within(points, Root(k))) > InitNum
                                  THEN Cut(Root(k), points, planar) ELSE {})
    IN  [m \in UNION {fit(k) : k \in keys} |->
            Fitted(m, [Fresh EXCEPT !.temp_points_ = Within(points, m),
                                    !.new_points_ = Len(Within(points, m))], planar)]

\* The first scan.  BuildVoxelMap takes its points from feats_down_world_, which nothing
\* fills, so the map starts empty; then the first scan goes through the same calls as
\* every other
Init ==
    /\ voxel_map_ = BuildVoxelMap(<<>>, {})
    /\ phase = "estimate"
    /\ iterCount = 0 /\ rematch_num = 0
    /\ pos_end = 0 /\ propagat = 0 /\ position_last_ = 0 /\ last_slide_position = 0

\* A new scan: the IMU moves the state and StateEstimation begins
Propagate ==
    /\ phase = "propagate"
    /\ propagat' \in Poses /\ pos_end' = propagat'
    /\ iterCount' = 0 /\ rematch_num' = 0
    /\ phase' = "estimate"
    /\ UNCHANGED <<voxel_map_, position_last_, last_slide_position>>

\* One turn of the loop of StateEstimation.  Without a residual the solution is the
\* propagated state less the present one, so the state falls back to it
StateEstimation ==
    /\ phase = "estimate"
    /\ \E p \in Positions, useful, converged \in BOOLEAN :
        /\ useful => BuildResidualListOMP(voxel_map_, p) # {}
        /\ IF useful THEN pos_end' \in Poses
           ELSE pos_end' = propagat /\ converged = (pos_end = propagat)
        /\ LET rematch == IF converged \/ (rematch_num = 0 /\ iterCount = MaxIterations - 2)
                          THEN rematch_num + 1 ELSE rematch_num
           IN  IF rematch >= 2 \/ iterCount = MaxIterations - 1
               THEN /\ position_last_' = pos_end' \* with the update of the covariance
                    /\ phase' = "update"
                    /\ propagat' = pos_end' /\ iterCount' = 0 /\ rematch_num' = 0 \* locals end
               ELSE /\ iterCount' = iterCount + 1 /\ rematch_num' = rematch
                    /\ UNCHANGED <<position_last_, phase, propagat>>
    /\ UNCHANGED <<voxel_map_, last_slide_position>>

UpdateVoxelMap ==
    /\ phase = "update" /\ phase' = "slide"
    /\ \E p \in Positions :
          LET n == Target(voxel_map_, p)
          IN  \E planar \in SUBSET {m \in AllNodes : m = n \/ Above(n, m)} :
                 voxel_map_' = UpdateOctoTree(voxel_map_, p, planar)
    /\ UNCHANGED <<estimation, position_last_, last_slide_position>>

\* Fault: the window lies around the position of the last slide
mapSliding_OldWindow ==
    /\ phase = "slide" /\ phase' = "propagate"
    /\ last_slide_position' = position_last_
    /\ voxel_map_' = [n \in {m \in DOMAIN voxel_map_ :
                                m[1] \in Key(last_slide_position) - HalfMapSize
                                         .. Key(last_slide_position) + HalfMapSize} |-> voxel_map_[n]]
    /\ UNCHANGED <<estimation, position_last_>>

\* mapSliding and clearMemOutOfMap
mapSliding ==
    /\ phase = "slide" /\ phase' = "propagate"
    /\ LET length == IF position_last_ < last_slide_position
                     THEN last_slide_position - position_last_
                     ELSE position_last_ - last_slide_position
           kept   == {n \in DOMAIN voxel_map_ :
                         n[1] \in Key(position_last_) - HalfMapSize
                                  .. Key(position_last_) + HalfMapSize}
       IN  IF length < SlidingThresh THEN UNCHANGED <<voxel_map_, last_slide_position>>
           ELSE /\ last_slide_position' = position_last_
                /\ voxel_map_' = [n \in kept |-> voxel_map_[n]]
    /\ UNCHANGED <<estimation, position_last_>>

Next == Propagate \/ StateEstimation \/ UpdateVoxelMap \/ mapSliding

Spec == Init /\ [][Next]_vars

-----------------------------------------------------------------------------
(* Properties *)

\* The type invariant: every voxel is a node of some octree and counts points.
TypeOK ==
    /\ DOMAIN voxel_map_ \subseteq AllNodes
    /\ \A n \in DOMAIN voxel_map_ : voxel_map_[n] \in Node
    /\ phase \in {"propagate", "estimate", "update", "slide"}
    /\ iterCount \in 0..MaxIterations /\ rematch_num \in 0..1
    /\ {pos_end, propagat} \subseteq Poses \cup {0}

\* The points a plane was fitted to and those it is still waiting to refit with are
\* exactly the points it keeps, at most max_points_num_ of them: neither
\* cut_octo_tree nor a refit or a freeze of UpdateOctoTree loses or counts a point
\* twice.
PlaneAccountsForPoints ==
    \A n \in DOMAIN voxel_map_ :
        LET node == voxel_map_[n]
        IN  node.init_octo_ /\ node.update_enable_ /\ (node.is_plane_ \/ Layer(n) = MaxLayer)
            => /\ node.points_size_ + node.new_points_ = Len(node.temp_points_)
               /\ node.new_points_ <= UpdateNum
               /\ Len(node.temp_points_) <= MaxPoints

\* The node that takes a point and the nodes a point is matched with agree: if
\* find_correspond ends in a plane, the residual search of the same position sees it.
OwnPlaneMatched ==
    \A p \in Positions :
        Root(Key(p)) \in DOMAIN voxel_map_
        => LET n == find_correspond(voxel_map_, p)
           IN  voxel_map_[n].is_plane_ => n \in BuildResidualListOMP(voxel_map_, p)

\* Sliding the map deletes no voxel with a point nearer to the sensor than
\* half_map_size voxels, on either side of the origin.
NearVoxelsKept ==
    [][\A p \in Positions :
          /\ Root(Key(p)) \in DOMAIN voxel_map_
          /\ Root(Key(p)) \notin DOMAIN voxel_map_'
          => \/ p - position_last_ >= HalfMapSize * VoxelSize
             \/ position_last_ - p >= HalfMapSize * VoxelSize]_vars

=============================================================================
