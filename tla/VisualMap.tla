----------------------------- MODULE VisualMap ------------------------------
(***************************************************************************)
(* The visual map of FAST-LIVO (fast_livo/src/vio.cpp, visual_point.cpp):  *)
(* points with the patches they were seen in, kept in a hash of voxels,    *)
(* and VIOManager::processFrame, which for an image retrieves the points   *)
(* in view, updates the state with them, adds points where the image has   *)
(* none, and replaces the patches of those it has.                         *)
(*                                                                         *)
(* Space is a line of integer sites and an image is a row of pixels cut in *)
(* cells.  A camera pose is one of a few views: where each site falls in   *)
(* the image, which sites lie in front, their distance, how much a patch   *)
(* of them has grown, and the sites the ray of a cell passes.  What images *)
(* look like (patch errors, corner scores, the reference score) is free.   *)
(* The mean of a patch is read uninitialised from its second use on, so    *)
(* every order of scores occurs.                                           *)
(***************************************************************************)
EXTENDS Integers, Sequences, FiniteSets

CONSTANTS
    Sites, Views,      \* positions; poses of the camera
    PlaneCentres,      \* sites that are centres of planes of the lidar map
    VoxelSize,
    Width, GridSize,   \* of the image, in pixels
    patch_size_half,   \* half of patch_size
    ObsLimit,          \* 30: observations at which one is given up
    RefMin, ConvMin,   \* 5 and 10: observations a new reference, and convergence, take more than
    Levels,            \* patch_pyrimid_level
    MaxIterations,     \* max_iterations
    normal_en, raycast_en, inverse_composition_en,
    MaxMapPoints       \* bound: points of the map

grid_n_width == Width \div GridSize
Cells == 0..grid_n_width - 1
Border == (patch_size_half + 1) * 2^Levels

ASSUME VisualMapAssumption ==
    /\ Sites \subseteq Int /\ PlaneCentres \subseteq Sites
    /\ VoxelSize \in Nat \ {0} /\ Width \in Nat /\ GridSize \in Nat \ {0}
    /\ patch_size_half \in Nat \ {0}
    /\ Width % GridSize <= Border
    /\ Views \subseteq [px : [Sites -> Int], front : [Sites -> BOOLEAN],
                        dist : [Sites -> Nat], growth : [Sites -> Nat],
                        rays : [Cells -> Seq(Sites)]]
    /\ RefMin \in Nat /\ ConvMin \in Nat /\ RefMin <= ConvMin
    /\ ObsLimit \in Nat /\ ConvMin < ObsLimit
    /\ Levels \in Nat \ {0} /\ MaxIterations \in Nat \ {0}
    /\ normal_en \in BOOLEAN /\ raycast_en \in BOOLEAN /\ MaxMapPoints \in Nat
    /\ inverse_composition_en \in BOOLEAN
    /\ inverse_composition_en => normal_en   \* it reads ref_patch, which only then is set

VARIABLES
    feat_map,       \* the map points, numbered in the order they were added
    step,           \* the next part of processFrame
    view, pg,       \* pose of new_frame_; sites of the scan
    grid_num,       \* cells of TYPE_MAP
    voxel_points, add_from_voxel_map,   \* visual_submap: points in use, centres of planes
    update_flag,    \* points of the submap that took a patch
    ekf             \* the loop of updateState

vars == <<feat_map, step, view, pg, grid_num, voxel_points, add_from_voxel_map, update_flag, ekf>>
frame == <<view, pg>>
submap == <<grid_num, voxel_points, add_from_voxel_map>>

\* A map point: patches are numbers, of which there is one more than ObsLimit
Point == [pos_ : Sites, obs_ : SUBSET (1..ObsLimit + 1), ref_patch : 0..ObsLimit + 1,
          has_ref_patch_ : BOOLEAN, is_converged_ : BOOLEAN]

-----------------------------------------------------------------------------
(* Where things are *)

Trunc(a, b) == IF a < 0 THEN -((-a) \div b) ELSE a \div b

\* Fault: quotients are rounded, not cut
Key_Round(s) == (s + VoxelSize \div 2) \div VoxelSize

\* the voxel insertPointIntoVoxelMap files a point under
Key(s) == Trunc(IF s < 0 THEN s - VoxelSize ELSE s, VoxelSize)

\* the voxel retrieveFromVisualSparseMap looks a position up in: floor, and one less
\* again when that is negative
LookKey(s) == LET f == s \div VoxelSize IN IF f < 0 THEN f - 1 ELSE f

isInFrame(v, s) == Border <= v.px[s] /\ v.px[s] < Width - Border
Cell(v, s) == v.px[s] \div GridSize
border_flag(c) == c \in {0, grid_n_width - 1}

\* The pixels of a patch at u, at a pyramid level: a step of the level apart, with one
\* more on each side for the gradient
PatchPixels(u, level) ==
    {(u - (u % (2^level))) + n * (2^level) : n \in -patch_size_half - 1 .. patch_size_half + 1}

Site(i) == feat_map[i].pos_

\* The determinant of the warp from the reference patch of a point to the image.  With
\* normal_en it is the point's own; else warp_map shares that of the first point with a
\* reference of the same frame.
Growth(v, i) == v.growth[Site(i)]

\* Fault: levels are added without a limit.
getBestSearchLevel_NoMax(D, max_level) == Cardinality({k \in 0..9 : D > 3 * 4^k})

\* A level more for each quartering that brings the determinant to 3 or less
getBestSearchLevel(D, max_level) == Cardinality({k \in 0..max_level - 1 : D > 3 * 4^k})
\* a point a voxel gives to the frame
Visible(v, i) == feat_map[i].obs_ # {} /\ v.front[Site(i)] /\ isInFrame(v, Site(i))

-----------------------------------------------------------------------------
(* retrieveFromVisualSparseMap *)

PointsOf(k) == {i \in DOMAIN feat_map : Key(Site(i)) = k}

\* One ray: it ends at the first sample in a voxel of the scan, a voxel of the map,
\* or a voxel with a plane
CastRay(v, acc, c) ==
    LET hits(s) == \/ LookKey(s) \in acc.sub
                   \/ PointsOf(LookKey(s)) # {}
                   \/ \E t \in PlaneCentres : Key(t) = LookKey(s)
        stops   == {n \in DOMAIN v.rays[c] : hits(v.rays[c][n])}
    IN  IF \/ border_flag(c) \/ stops = {}
           \/ \E i \in acc.found : Cell(v, Site(i)) = c
        THEN acc
        ELSE LET k    == LookKey(v.rays[c][CHOOSE n \in stops : \A m \in stops : n <= m])
                 seen == {i \in PointsOf(k) : Visible(v, i)}
             IN  IF k \in acc.sub THEN acc
                 ELSE IF PointsOf(k) # {}
                 THEN [acc EXCEPT !.found = @ \cup seen,
                                  !.sub = IF seen # {} THEN @ \cup {k} ELSE @]
                 ELSE [acc EXCEPT !.added = @ \cup {CHOOSE t \in PlaneCentres : Key(t) = k}]

\* What is found with the rays of the first 0, 1, ... cells
Casts(v, first) ==
    LET cast[n \in 0..grid_n_width] ==
            IF n = 0 THEN first ELSE CastRay(v, cast[n - 1], n - 1)
    IN  cast

\* The points in view, of the voxels of the scan and then along the rays
Found(v, scan) ==
    LET keys  == {LookKey(s) : s \in scan}
        first == [sub   |-> keys, added |-> {},
                  found |-> {i \in DOMAIN feat_map : Key(Site(i)) \in keys /\ Visible(v, i)}]
    IN  IF feat_map = <<>> THEN [first EXCEPT !.sub = {}]
        ELSE IF raycast_en
        THEN Casts(v, first)[grid_n_width]
        ELSE first

\* The patch that was seen from the closest direction, which may be any; the point is
\* dropped if that is not close enough.
getCloseViewObs(pt) == pt.obs_

\* The patch a point is compared by: without normals that; with them its only one, the
\* reference it has, or any (the one with the least error)
References(pt) ==
    IF ~normal_en THEN getCloseViewObs(pt)
    ELSE IF Cardinality(pt.obs_) = 1 THEN pt.obs_
    ELSE IF pt.has_ref_patch_ THEN {pt.ref_patch} ELSE pt.obs_

\* The cell's points that are nearest to the camera
Nearest(v, found, c) ==
    LET in == {i \in found : Cell(v, Site(i)) = c}
    IN  {i \in in : \A j \in in : v.dist[Site(i)] <= v.dist[Site(j)]}

\* The patches may differ too much, in their correlation (calculateNCC) or in the sum
\* of squared errors: any of the points is dropped.
Matching(cells) == SUBSET cells

retrieveFromVisualSparseMap ==
    /\ step = "retrieve" /\ step' = "ekf"
    /\ LET got      == Found(view, pg)
           cells    == {Cell(view, Site(i)) : i \in got.found}
       IN  \E pick \in {p \in [cells -> got.found] :
                          \A c \in cells : p[c] \in Nearest(view, got.found, c)},
              depthOk \in SUBSET cells :
             \E kept \in Matching(depthOk) :
              \E ref \in [{pick[c] : c \in depthOk} ->
                             UNION {feat_map[pick[c]].obs_ : c \in depthOk}] :
                /\ \A c \in depthOk : ref[pick[c]] \in References(feat_map[pick[c]])
                /\ feat_map' = [i \in DOMAIN feat_map |->
                       IF i \in DOMAIN ref /\ normal_en
                       THEN [feat_map[i] EXCEPT !.ref_patch = ref[i], !.has_ref_patch_ = TRUE]
                       ELSE feat_map[i]]
                /\ grid_num' = cells
                /\ voxel_points' = {pick[c] : c \in kept}
                /\ add_from_voxel_map' = got.added
    /\ update_flag' = {}
    /\ UNCHANGED <<frame, ekf>>

-----------------------------------------------------------------------------
(* computeJacobianAndUpdateEKF: updateState or updateStateInverse, level by level *)

Inf == 3
\* ahead: state is one step past old_state; gain: where the last G was linearised;
\* H_sub_inv: the level and the reference patches that the cached Jacobians are of
NoCache == [level |-> -1, refs |-> << >>]
NoLoop == [level |-> Levels - 1, iteration |-> 0, last_error |-> Inf,
           ahead |-> FALSE, gain |-> "none",
           has_ref_patch_cache |-> FALSE, H_sub_inv |-> NoCache]

\* One iteration, at an image error of the current state
Iterate(e, error, converged) ==
    IF error <= e.last_error
    THEN [next |-> [e EXCEPT !.last_error = error, !.ahead = TRUE, !.gain = "accepted",
                             !.iteration = @ + 1],
          EKF_end |-> converged]
    ELSE [next |-> [e EXCEPT !.ahead = FALSE], EKF_end |-> TRUE]

\* Fault: the Jacobians of the level before are used on.
EnterLevel_KeepCache(e) == e

\* computeJacobianAndUpdateEKF forgets the Jacobians as it enters a level.
EnterLevel(e) ==
    IF inverse_composition_en /\ e.iteration = 0
    THEN [e EXCEPT !.has_ref_patch_cache = FALSE] ELSE e

\* The Jacobians of the reference patches of the points in use
precomputeReferencePatches(e) ==
    IF ~inverse_composition_en \/ e.has_ref_patch_cache THEN e
    ELSE [e EXCEPT !.has_ref_patch_cache = TRUE,
                   !.H_sub_inv = [level |-> e.level,
                                  refs |-> [i \in voxel_points |-> feat_map[i].ref_patch]]]

updateState ==
    /\ step = "ekf" /\ voxel_points # {}
    /\ \E error \in 0..2, converged \in BOOLEAN :
         LET it   == Iterate(precomputeReferencePatches(EnterLevel(ekf)), error, converged)
             done == it.EKF_end \/ it.next.iteration = MaxIterations
         IN  IF ~done
             THEN ekf' = it.next /\ UNCHANGED <<step, view>>
             ELSE IF ekf.level > 0
             THEN /\ ekf' = [it.next EXCEPT !.level = @ - 1, !.iteration = 0,
                                            !.last_error = Inf, !.ahead = FALSE]
                  /\ UNCHANGED <<step, view>>
             ELSE /\ ekf' = it.next
                  /\ step' = "covariance" /\ UNCHANGED view
    /\ UNCHANGED <<feat_map, pg, submap, update_flag>>

\* the covariance is shrunk by the last gain, and the frame takes the new pose
updateFrameState ==
    /\ step = "covariance" /\ step' = "generate"
    /\ view' \in Views
    /\ ekf' = [NoLoop EXCEPT !.has_ref_patch_cache = ekf.has_ref_patch_cache,
                             !.H_sub_inv = ekf.H_sub_inv]
    /\ UNCHANGED <<feat_map, pg, submap, update_flag>>

NoPointsToTrack ==
    /\ step = "ekf" /\ voxel_points = {}
    /\ step' = "generate"
    /\ UNCHANGED <<feat_map, frame, submap, update_flag, ekf>>

-----------------------------------------------------------------------------
(* generateVisualMapPoints *)

VisualPoint(s) == [pos_ |-> s, obs_ |-> {1}, ref_patch |-> 0, has_ref_patch_ |-> FALSE,
                   is_converged_ |-> FALSE]

\* Each cell without a map point, in order, may take one of the sites that fall in it,
\* behind the camera as well.  Few points, no normal or no corner: it takes none
generateVisualMapPoints ==
    /\ step = "generate" /\ step' = "points"
    /\ LET fit(c) == {s \in pg \cup add_from_voxel_map : isInFrame(view, s) /\ Cell(view, s) = c}
           free   == {c \in Cells \ grid_num : fit(c) # {}}
       IN  \E n \in 0..Cardinality(free) :
             \E cell \in [1..n -> free], s \in [1..n -> pg \cup add_from_voxel_map] :
               /\ \A k \in 1..n : s[k] \in fit(cell[k])
               /\ \A j, k \in 1..n : j < k => cell[j] < cell[k]
               /\ Len(feat_map) + n <= MaxMapPoints
               /\ feat_map' = feat_map \o [k \in 1..n |-> VisualPoint(s[k])]
    /\ UNCHANGED <<frame, submap, update_flag, ekf>>

-----------------------------------------------------------------------------
(* updateVisualMapPoints, updateReferencePatch *)

\* Fault: the reference is not reset with the patch it names
deleteFeatureRef_KeepRef(pt, f) == [pt EXCEPT !.obs_ = @ \ {f}]

\* deleteFeatureRef of the patch with the least score, whichever that is
deleteFeatureRef(pt, f) ==
    [pt EXCEPT !.obs_ = @ \ {f},
               !.ref_patch = IF @ = f THEN 0 ELSE @,
               !.has_ref_patch_ = @ /\ pt.ref_patch # f]

\* addFrameRef; patches are numbered with the least number that is free
addFrameRef(pt) ==
    [pt EXCEPT !.obs_ = @ \cup {CHOOSE f \in 1..ObsLimit + 1 :
                                   f \notin pt.obs_ /\ \A g \in 1..f - 1 : g \in pt.obs_}]

\* what may become of a point of the submap: <<point, took a patch>>
Observed(pt) ==
    IF pt.is_converged_ THEN {<<[pt EXCEPT !.obs_ = @ \cap {pt.ref_patch}], FALSE>>}
    ELSE LET kept == IF Cardinality(pt.obs_) >= ObsLimit
                     THEN {deleteFeatureRef(pt, f) : f \in pt.obs_} ELSE {pt}
         IN  {<<q, FALSE>> : q \in kept} \cup {<<addFrameRef(q), TRUE>> : q \in kept}

updateVisualMapPoints ==
    /\ step = "points" /\ step' = "reference"
    /\ \E new \in [voxel_points -> UNION {Observed(feat_map[i]) : i \in voxel_points}] :
          /\ \A i \in voxel_points : new[i] \in Observed(feat_map[i])
          /\ feat_map' = [i \in DOMAIN feat_map |->
                             IF i \in voxel_points THEN new[i][1] ELSE feat_map[i]]
          /\ update_flag' = {i \in voxel_points : new[i][2]}
    /\ UNCHANGED <<frame, submap, ekf>>

\* Any patch may score best; where all scores are NaN the reference stays.
Reselected(pt) ==
    {pt} \cup {[pt EXCEPT !.ref_patch = f, !.has_ref_patch_ = TRUE] : f \in pt.obs_}

\* The plane found for the point may settle its normal.
Settles(pt) == {FALSE} \cup (IF Cardinality(pt.obs_) > ConvMin THEN {TRUE} ELSE {})

Rescored(pt) ==
    IF pt.is_converged_ \/ Cardinality(pt.obs_) <= RefMin THEN {pt}
    ELSE {[q EXCEPT !.is_converged_ = c] : q \in Reselected(pt), c \in Settles(pt)}

\* resetGrid of the next frame, and the reset of its submap: nothing reads them before.
resetGrid == update_flag' = {} /\ grid_num' = {} /\ voxel_points' = {} /\ add_from_voxel_map' = {}

updateReferencePatch ==
    /\ step = "reference" /\ step' = "frame"
    /\ \E new \in [update_flag -> UNION {Rescored(feat_map[i]) : i \in update_flag}] :
          /\ \A i \in update_flag : new[i] \in Rescored(feat_map[i])
          /\ feat_map' = [i \in DOMAIN feat_map |->
                             IF i \in update_flag THEN new[i] ELSE feat_map[i]]
    /\ resetGrid
    /\ UNCHANGED <<frame, ekf>>

-----------------------------------------------------------------------------

Init ==
    /\ feat_map = <<>>
    /\ step = "frame"
    /\ view \in Views /\ pg = {}
    /\ grid_num = {} /\ voxel_points = {} /\ add_from_voxel_map = {} /\ update_flag = {}
    /\ ekf = NoLoop

\* processFrame: resetGrid, and the frame at the pose the lidar left
processFrame ==
    /\ step = "frame" /\ step' = "retrieve"
    /\ view' \in Views
    /\ pg' \in SUBSET Sites
    /\ UNCHANGED <<feat_map, submap, update_flag, ekf>>

Next ==
    \/ processFrame \/ retrieveFromVisualSparseMap
    \/ updateState \/ updateFrameState \/ NoPointsToTrack
    \/ generateVisualMapPoints \/ updateVisualMapPoints \/ updateReferencePatch

Spec == Init /\ [][Next]_vars

-----------------------------------------------------------------------------
(* Properties *)

\* Each part is in its bounds; in particular every cell a visible point falls in is one
\* of the grid, although the grid leaves out a remainder of the image.
TypeOK ==
    /\ feat_map \in Seq(Point)
    /\ grid_num \subseteq Cells
    /\ update_flag \subseteq voxel_points /\ voxel_points \subseteq DOMAIN feat_map

\* The reference patch of a point is one of its patches: none of the three places that
\* delete patches leaves ref_patch at a freed one, whichever patches score best or worst.
RefPatchIsObservation ==
    \A i \in DOMAIN feat_map :
        feat_map[i].has_ref_patch_ => feat_map[i].ref_patch \in feat_map[i].obs_

\* A map point at a site the scan hits again, in front of the camera and in the image,
\* marks its cell, so that no second point is made there: retrieving finds what
\* inserting filed.  Left out are sites with a negative coordinate, which
\* retrieveFromVisualSparseMap looks up one voxel too low.
ScannedIsRetrieved ==
    step = "ekf" =>
        \A i \in DOMAIN feat_map :
            Site(i) \in pg /\ Site(i) >= 0 /\ Visible(view, i)
                => Cell(view, Site(i)) \in grid_num

\* The gain that shrinks the covariance is that of the last state the loop accepted,
\* in this frame: never one of a rejected state, or none.  In the inverse composition
\* it comes from Jacobians of the finest level and of the points in use, not from ones
\* cached at another level or in an earlier frame.
GainOfAcceptedState ==
    step = "covariance" =>
        /\ ekf.gain = "accepted"
        /\ inverse_composition_en =>
               ekf.H_sub_inv = [level |-> 0,
                                refs |-> [i \in voxel_points |-> feat_map[i].ref_patch]]

\* The border keeps every pixel that is read for a point in use inside the image, with
\* the neighbours of the gradient, at the pose it was retrieved with: at each level of
\* the pyramid above its own search level.  Left out is search level 2 at the coarsest
\* level, for which the border is too narrow; nor is a point looked at again when the
\* state moves.
PatchesInImage ==
    step = "ekf" =>
        \A i \in voxel_points, level \in 0..Levels - 1 :
            LET search_level == getBestSearchLevel(Growth(view, i), 2)
            IN  search_level < 2 \/ level < Levels - 1 =>
                    PatchPixels(view.px[Site(i)], level + search_level) \subseteq 0..Width - 1
=============================================================================
