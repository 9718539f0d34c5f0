------------------------------ MODULE Preprocess ------------------------------
(***************************************************************************)
(* The point filters of FAST-LIVO (preprocess.cpp): what the mapper gets   *)
(* of a scan, for each type of lidar, with and without the extraction of   *)
(* features.                                                               *)
(*                                                                         *)
(* A point is its line, its true time (xt32's are absolute, the others'    *)
(* count from the start of the scan), whether it is in the blind zone      *)
(* (near), whether its distance from the lidar's axis is (flat:            *)
(* types[i].range < blind_sqr), and for Livox whether it is good: its tag  *)
(* says so and it differs from the point before it.  What else the         *)
(* geometry decides (do points lie on a plane, is there a jump) is a       *)
(* choice.  Times are integers: Step is the 0.004166667 ms that            *)
(* avia_handler adds, Ms is 1 ms, Turn is a revolution.  Positions count   *)
(* from 1.                                                                 *)
(***************************************************************************)
EXTENDS Integers, Sequences, FiniteSets, FiniteSetsExt, SequencesExt, Selections

CONSTANTS LidarTypes,        \* lidar types considered
          Scans(_, _),       \* the scans that may come, given type and feature_enabled
          N_SCANS,           \* lines of the lidar, as configured
          point_filter_num, group_size,
          Step, Ms, Turn

ASSUME TypesAssumption ==
  LidarTypes \subseteq {"AVIA", "VELO16", "OUST64", "L515", "XT32", "PANDAR128"}
ASSUME CountsAssumption ==
  /\ {N_SCANS, point_filter_num} \subseteq Nat \ {0}
  /\ group_size \in Nat \ {0, 1}
ASSUME TimesAssumption == {Step, Ms, Turn} \subseteq Nat \ {0} /\ Step < Ms

Points == [line : Nat, time : Nat, near : BOOLEAN, flat : BOOLEAN, good : BOOLEAN]

\* A Livox scan is in the order in which it was measured.
InOrder(points) == \A k \in 1 .. Len(points) - 1 : points[k].time <= points[k + 1].time

ASSUME ScansAssumption ==
  \A type \in LidarTypes : \A features \in BOOLEAN : \A s \in Scans(type, features) :
    /\ s \in [points : Seq(Points), timed : BOOLEAN]
    /\ type = "AVIA" => InOrder(s.points)

VARIABLES
  lidar_type, feature_enabled,    \* parameters of the node
  scan,          \* the message being processed: [points, timed]
  pl_surf,       \* points for the mapper: [of, curvature], the positions of the
                 \* points of the scan that the entry is the mean of, and its time
  pl_corn,       \* positions of edge points
  pc,            \* "idle", "line", "surf", "edge", "small", "emit", "done", "lost"
  line,          \* the line give_feature works on
  i,             \* its loop variable
  ftype,         \* types[].ftype along the line
  measured,      \* points whose types[].intersect was computed
  last_state, last_surface

params == <<lidar_type, feature_enabled>>
preprocessVars == <<params, scan, pl_surf, pl_corn, pc, line, i, ftype, measured, last_state,
          last_surface>>

NoScan == [points |-> << >>, timed |-> TRUE]
NoSurface == 0

-----------------------------------------------------------------------------
(* Times *)

\* Fault: a point after a gap keeps the time of the one before it, less a step.
AviaTimes_Back(points) ==
  LET c[k \in 0 .. Len(points)] ==
        IF k = 0 \/ points[k].line >= N_SCANS THEN 0
        ELSE IF points[k].time - c[k - 1] < Ms THEN points[k].time ELSE c[k - 1] - Step
  IN  [k \in 1 .. Len(points) |-> c[k]]

\* avia_handler's curvature: a point 1 ms or more from the one before it is
\* put one step after that one.  A point of a line beyond the configured ones
\* is left at 0, where its successor finds it.
AviaTimes(points) ==
  LET c[k \in 0 .. Len(points)] ==
        IF k = 0 \/ points[k].line >= N_SCANS THEN 0
        ELSE LET d == points[k].time - c[k - 1] IN
             IF d < Ms /\ -d < Ms THEN points[k].time
             ELSE IF k = 1 THEN 0 ELSE c[k - 1] + Step
  IN  [k \in 1 .. Len(points) |-> c[k]]

\* What the message says of a point's time
Stamp(s, k) == IF s.timed THEN s.points[k].time ELSE 0

\* velodyne and xt32 look at the last point to see whether there are times.
given_offset_time(s) == Stamp(s, Len(s.points)) > 0

\* The direction of a point, which goes down as the lidar turns
Yaw(p) == (Turn - p.time) % Turn
FirstOfLine(points, k) == \A m \in 1 .. k - 1 : points[m].line # points[k].line

\* Fault: a line that has come round is not moved to the next revolution.
YawTimes_OneTurn(points) ==
  [k \in 1 .. Len(points) |->
     LET first == CHOOSE m \in 1 .. k :
                    points[m].line = points[k].line /\ FirstOfLine(points, m)
     IN  (Yaw(points[first]) - Yaw(points[k])) % Turn]

\* Without times: the angle since the first point of the line, or a revolution
\* more if that is less than for the line's last point.
YawTimes(points) ==
  LET c[k \in 1 .. Len(points)] ==
        IF FirstOfLine(points, k) THEN 0
        ELSE LET before == {m \in 1 .. k - 1 : points[m].line = points[k].line}
                 fp     == Yaw(points[Min(before)])
                 yaw    == Yaw(points[k])
                 angle  == IF yaw <= fp THEN fp - yaw ELSE fp - yaw + Turn
             IN  IF angle < c[Max(before)] THEN angle + Turn ELSE angle
  IN  c

Stamps(s) == [k \in 1 .. Len(s.points) |-> Stamp(s, k)]

-----------------------------------------------------------------------------
(* Without features: each handler's points *)

Entry(k, curvature) == [of |-> {k}, curvature |-> curvature[k]]
Entries(kept, curvature) == [n \in 1 .. Len(kept) |-> Entry(kept[n], curvature)]

\* Every point_filter_num-th point, if it is not near
Nth(s) == {k \in DOMAIN s.points : (k - 1) % point_filter_num = 0 /\ ~s.points[k].near}
EveryNth(s) == Kept(Len(s.points), Nth(s))

\* Every n-th of the points of configured lines, if it is not near
avia_handler(s) ==
  LET valid == {k \in DOMAIN s.points : s.points[k].line < N_SCANS}
      nth   == {k \in valid : Cardinality({m \in valid : m <= k}) % point_filter_num = 0}
  IN  Entries(Kept(Len(s.points), {k \in nth : ~s.points[k].near}), AviaTimes(s.points))

l515_handler(s) == Entries(EveryNth(s), [k \in 1 .. Len(s.points) |-> 0])

oust64_handler(s) == Entries(EveryNth(s), Stamps(s))

\* Without times the first point of each line is used up.
velodyne_handler(s) ==
  IF s.points = << >> THEN << >>
  ELSE IF given_offset_time(s) THEN Entries(EveryNth(s), Stamps(s))
  ELSE Entries(Kept(Len(s.points), {k \in Nth(s) : ~FirstOfLine(s.points, k)}),
               YawTimes(s.points))

\* Fault: the points are not sorted.
Pandar128_handler_Unsorted(s) == {Entries(EveryNth(s), Stamps(s))}

\* std::sort leaves points of equal times in any order.
Pandar128_handler(s) ==
  LET got    == Entries(EveryNth(s), Stamps(s))
      orders == {p \in [DOMAIN got -> DOMAIN got] :
                   /\ \A m, n \in DOMAIN got : m # n => p[m] # p[n]
                   /\ \A n \in 1 .. Len(got) - 1 :
                        got[p[n]].curvature <= got[p[n + 1]].curvature}
  IN  {[n \in DOMAIN got |-> got[p[n]]] : p \in orders}

\* Its times are absolute.
xt32_handler(s) ==
  Entries(EveryNth(s), [k \in 1 .. Len(s.points) |-> Stamp(s, k) - Stamp(s, 1)])

\* What each handler may make of a scan
Surf(s) ==
  CASE lidar_type = "AVIA"      -> {avia_handler(s)}
    [] lidar_type = "L515"      -> {l515_handler(s)}
    [] lidar_type = "OUST64"    -> {oust64_handler(s)}
    [] lidar_type = "VELO16"    -> {velodyne_handler(s)}
    [] lidar_type = "PANDAR128" -> Pandar128_handler(s)
    [] lidar_type = "XT32"      -> {xt32_handler(s)}

\* l515_handler and Pandar128_handler know no features.
Extracts == feature_enabled /\ lidar_type \notin {"L515", "PANDAR128"}

\* process: a message comes, and the handler of its lidar clears the clouds.
process(s) ==
  /\ scan' = s
  /\ pl_surf' \in IF Extracts THEN {<< >>} ELSE Surf(s)
  /\ pc' = IF Extracts THEN "line" ELSE "done"
  /\ UNCHANGED <<params, pl_corn, line, i, ftype, measured, last_state, last_surface>>

\* The mapper takes the points.  As the next handler clears the clouds, they
\* are forgotten here.
Taken ==
  /\ pc = "done"
  /\ scan' = NoScan
  /\ pl_surf' = << >> /\ pl_corn' = << >>
  /\ pc' = "idle" /\ line' = 0
  /\ UNCHANGED <<params, i, ftype, measured, last_state, last_surface>>

-----------------------------------------------------------------------------
(* With features: the points of each line, and give_feature over them *)

\* pl_buff[j] of each handler, as positions of the scan
avia_line(s, j) ==
  Kept(Len(s.points), {k \in DOMAIN s.points : LET p == s.points[k] IN
                         k > 1 /\ p.line = j /\ p.good /\ ~p.near})
oust64_line(s, j) ==
  Kept(Len(s.points), {k \in DOMAIN s.points : s.points[k].line = j /\ ~s.points[k].near})
velodyne_line(s, j) ==
  Kept(Len(s.points), {k \in DOMAIN s.points :
                         /\ s.points[k].line = j
                         /\ given_offset_time(s) \/ ~FirstOfLine(s.points, k)})
xt32_line(s, j) == velodyne_line(s, j)

pl == CASE lidar_type = "AVIA"   -> avia_line(scan, line)
        [] lidar_type = "OUST64" -> oust64_line(scan, line)
        [] lidar_type = "VELO16" -> velodyne_line(scan, line)
        [] lidar_type = "XT32"   -> xt32_line(scan, line)
Curvature(s) ==
  IF lidar_type \in {"VELO16", "XT32"} /\ ~given_offset_time(s)
    THEN YawTimes(s.points) ELSE Stamps(s)

N == Len(pl)
Flat(k) == scan.points[pl[k]].flat
Heads == {k \in 1 .. N : ~Flat(k)}
head == Min(Heads)

\* The handlers pass over lines of so few points.
Short == N <= (CASE lidar_type = "AVIA" -> 5 [] lidar_type = "OUST64" -> -1 [] OTHER -> 1)

\* The next line.  oust64_handler counts up to 2^32 - 1 on an empty line, and
\* give_feature looks for its first point past the end of a line that is all
\* flat: the program dies, or goes on to the next line with what it read.
NextLine ==
  /\ pc = "line"
  /\ UNCHANGED <<params, scan, pl_surf, pl_corn>>
  /\ \/ /\ line = N_SCANS
        /\ pc' = "done"
        /\ UNCHANGED <<line, i, ftype, measured, last_state, last_surface>>
     \/ /\ line < N_SCANS
        /\ Short \/ Heads = {}
        /\ line' = line + 1
        /\ pc' \in IF Short THEN {"line"} ELSE {"line", "lost"}
        /\ UNCHANGED <<i, ftype, measured, last_state, last_surface>>
     \/ /\ line < N_SCANS
        /\ ~Short /\ Heads # {}
        /\ pc' = "surf" /\ i' = head
        /\ ftype' = [k \in 1 .. N |-> "Nor"] /\ measured' = {}
        /\ last_state' = 0 /\ last_surface' = NoSurface
        /\ UNCHANGED line

\* plane_judge: how far the group that begins at k may reach if it is a plane.
\* It goes on past group_size while the points are close to k, up to the one
\* that is too far, or the end (N + 1); a flat point in it spoils it.
Groups(k) ==
  IF \E m \in k .. k + group_size - 1 : Flat(m) THEN {}
  ELSE {e \in k + group_size .. N + 1 : \A m \in k + group_size .. e : m <= N => ~Flat(m)}

\* plane_judge, when it says no: where it stopped
Stops(k) ==
  LET flats == {m \in k .. N : Flat(m)}
  IN  (IF flats = {} THEN {} ELSE {Min(flats)}) \cup Groups(k)

lineVars == <<params, scan, pl_surf, pl_corn, line>>

\* The loop over the groups of points is over.
SurfDone ==
  /\ pc = "surf" /\ i > N - group_size
  /\ pc' = "edge" /\ i' = head + 3
  /\ UNCHANGED <<lineVars, ftype, measured, last_state, last_surface>>

\* plane_judge = 1: the points up to e are a plane, whose ends may belong to
\* the next one; where two planes meet there may be an edge.  If e is past the
\* end, the write to types[e] is too: it may kill the program.
SurfPlane(e) ==
  /\ i <= N - group_size /\ ~Flat(i)
  /\ e \in Groups(i)
  /\ \E first \in IF last_state = 1 THEN {"Edge_Plane", "Real_Plane"} ELSE {"Poss_Plane"} :
       ftype' = [k \in 1 .. N |-> CASE k = i -> first
                                    [] k = e -> "Poss_Plane"
                                    [] i < k /\ k < e -> "Real_Plane"
                                    [] OTHER -> ftype[k]]
  /\ last_state' = 1
  /\ i' = e
  /\ pc' \in IF e <= N THEN {"surf"} ELSE {"surf", "lost"}
  /\ UNCHANGED <<lineVars, measured, last_surface>>

\* A flat point is passed over; no plane: on after the point where
\* plane_judge stopped.
SurfNone ==
  /\ pc = "surf" /\ i <= N - group_size
  /\ IF Flat(i) THEN i' = i + 1 /\ UNCHANGED last_state
     ELSE /\ \E e \in Stops(i) : i' = e + 1
          /\ last_state' = 0
  /\ UNCHANGED <<lineVars, pc, ftype, measured, last_surface>>

\* Whether there may be a jump between a point and the one before (dir = -1) or
\* after it: not if one of the two points on that side is flat.  Else the ratio
\* of the distances there decides.
edge_jump_judge(k, dir) == ~Flat(k + dir) /\ ~Flat(k + 2 * dir)

\* The loop that looks for jumps and wires among the points outside planes
Edge ==
  /\ pc = "edge"
  /\ UNCHANGED <<lineVars, last_state, last_surface>>
  /\ \/ /\ i > N - 3
        /\ pc' = "small" /\ i' = head + 1
        /\ UNCHANGED <<ftype, measured>>
     \/ /\ i <= N - 3
        /\ i' = i + 1
        /\ UNCHANGED <<pc, ftype, measured>>
     \/ /\ i <= N - 3
        /\ ~Flat(i) /\ ftype[i] \in {"Nor", "Poss_Plane"}
        /\ i' = i + 1
        /\ measured' = measured \cup {i}
        /\ \E t \in {ftype[i]}
             \cup (IF \E dir \in {-1, 1} : edge_jump_judge(i, dir)
                     THEN {"Edge_Jump"} ELSE {})
             \cup (IF ftype[i] = "Nor" THEN {"Wire"} ELSE {}) :
             ftype' = [ftype EXCEPT ![i] = t]
        /\ UNCHANGED pc

\* The loop that takes three points in a straight line for a plane
SmallPlane ==
  /\ pc = "small"
  /\ UNCHANGED <<lineVars, measured, last_state, last_surface>>
  /\ \/ /\ i >= N
        /\ pc' = "emit" /\ i' = head
        /\ UNCHANGED ftype
     \/ /\ i < N
        /\ i' = i + 1
        /\ UNCHANGED <<pc, ftype>>
     \/ /\ i < N
        /\ \A k \in {i - 1, i, i + 1} : ~Flat(k)
        /\ ftype[i] = "Nor" /\ i \in measured
        /\ i' = i + 1
        /\ ftype' = [k \in 1 .. N |->
             IF k \in {i - 1, i, i + 1} /\ ftype[k] = "Nor" THEN "Real_Plane" ELSE ftype[k]]
        /\ UNCHANGED pc

InPlane(k) == ftype[k] \in {"Poss_Plane", "Real_Plane"}

\* The mean of the run of points from first up to, not including, next: its time
\* is cut to a whole number of units.
Mean(first, next, curvature) ==
  LET sum[n \in 0 .. next - first] ==
        IF n = 0 THEN 0 ELSE sum[n - 1] + curvature[pl[first + n - 1]]
  IN  [of |-> {pl[k] : k \in first .. next - 1},
       curvature |-> sum[next - first] \div (next - first)]

\* Fault: a run of plane points that has given its point goes on.
EmitPlane_Keep ==
  /\ pc = "emit" /\ i <= N /\ InPlane(i)
  /\ i' = i + 1
  /\ LET first == IF last_surface = NoSurface THEN i ELSE last_surface
         full  == i = first + point_filter_num - 1
     IN  /\ pl_surf' = IF full THEN Append(pl_surf, Entry(pl[i], Curvature(scan)))
                       ELSE pl_surf
         /\ last_surface' = first
  /\ UNCHANGED <<params, scan, pl_corn, pc, line, ftype, measured, last_state>>

\* A point of a plane: every point_filter_num-th of a run is for the mapper.
EmitPlane ==
  /\ pc = "emit" /\ i <= N /\ InPlane(i)
  /\ i' = i + 1
  /\ LET first == IF last_surface = NoSurface THEN i ELSE last_surface
         full  == i = first + point_filter_num - 1
     IN  /\ pl_surf' = IF full THEN Append(pl_surf, Entry(pl[i], Curvature(scan)))
                       ELSE pl_surf
         /\ last_surface' = IF full THEN NoSurface ELSE first
  /\ UNCHANGED <<params, scan, pl_corn, pc, line, ftype, measured, last_state>>

\* Another point ends the run: what is left of it goes out as its mean.
EmitOther ==
  /\ pc = "emit" /\ i <= N /\ ~InPlane(i)
  /\ i' = i + 1
  /\ pl_corn' = IF ftype[i] \in {"Edge_Jump", "Edge_Plane"} THEN Append(pl_corn, pl[i])
                ELSE pl_corn
  /\ pl_surf' = IF last_surface = NoSurface THEN pl_surf
                ELSE Append(pl_surf, Mean(last_surface, i, Curvature(scan)))
  /\ last_surface' = NoSurface
  /\ UNCHANGED <<params, scan, pc, line, ftype, measured, last_state>>

\* The end of the line; a run that ends with it is dropped.
EmitDone ==
  /\ pc = "emit" /\ i > N
  /\ line' = line + 1 /\ pc' = "line"
  /\ UNCHANGED <<params, scan, pl_surf, pl_corn, i, ftype, measured, last_state, last_surface>>

PreprocessInit ==
  /\ lidar_type \in LidarTypes /\ feature_enabled \in BOOLEAN
  /\ scan = NoScan
  /\ pl_surf = << >> /\ pl_corn = << >>
  /\ pc = "idle" /\ line = 0 /\ i = 0
  /\ ftype = << >> /\ measured = {}
  /\ last_state = 0 /\ last_surface = NoSurface

PreprocessNext ==
  \/ pc = "idle" /\ \E s \in Scans(lidar_type, feature_enabled) : process(s)
  \/ Taken
  \/ NextLine
  \/ SurfDone \/ SurfNone
  \/ pc = "surf" /\ \E e \in 1 .. N + 1 : SurfPlane(e)
  \/ Edge
  \/ SmallPlane
  \/ EmitPlane \/ EmitOther \/ EmitDone

PreprocessSpec == PreprocessInit /\ [][PreprocessNext]_preprocessVars

-----------------------------------------------------------------------------
(* Properties *)

AllValid(points) == \A k \in 1 .. Len(points) : points[k].line < N_SCANS

\* What a Livox scan gives the mapper is never dated after it was measured,
\* whatever packets were lost.  The mapper ends the scan at its last point and
\* undistorts the points in their order without sorting them, so if all lines
\* are configured (or the lidar is a Pandar128, whose handler sorts) they are in
\* time order; and if no gap is as long as 1 ms, they have their true times.
TimesUsable ==
  pc = "done" /\ ~Extracts =>
    LET Time(k) == scan.points[k].time
        at == [k \in DOMAIN pl_surf |-> pl_surf[k].curvature]
    IN  /\ lidar_type = "PANDAR128" \/ (lidar_type = "AVIA" /\ AllValid(scan.points)) =>
             \A k \in 1 .. Len(at) - 1 : at[k] <= at[k + 1]
        /\ lidar_type = "AVIA" =>
             /\ \A k \in DOMAIN at : \A m \in pl_surf[k].of : at[k] <= Time(m)
             /\ /\ AllValid(scan.points)
                /\ Time(1) < Ms
                /\ \A k \in 1 .. Len(scan.points) - 1 : Time(k + 1) - Time(k) < Ms
                => \A k \in DOMAIN at : \A m \in pl_surf[k].of : at[k] = Time(m)

\* Without times in the message the velodyne and xt32 handlers find out when
\* each point was measured, counted from the first point of its line, if the
\* line is seen at least once in each revolution and the scan is shorter than two.
YawTimesRight ==
  pc = "done" /\ ~given_offset_time(scan)
    /\ (lidar_type = "VELO16" \/ (lidar_type = "XT32" /\ feature_enabled)) =>
    \A n \in DOMAIN pl_surf : Cardinality(pl_surf[n].of) = 1 =>
      LET k == CHOOSE m \in pl_surf[n].of : TRUE
          mine == {m \in 1 .. Len(scan.points) : scan.points[m].line = scan.points[k].line}
          Gap(m) == scan.points[m].time - scan.points[Max({x \in mine : x < m})].time
          Since(m) == scan.points[m].time - scan.points[Min(mine)].time
      IN  /\ \A m \in mine \ {Min(mine)} : Gap(m) \in 0 .. Turn - 1
          /\ \A m \in mine : Since(m) < 2 * Turn
          => pl_surf[n].curvature = Since(k)

\* No point goes into two of the features of a scan: a point of the surface is
\* given once, alone or in one mean, and is not an edge as well.
OneFeatureEach ==
  /\ \A m, n \in DOMAIN pl_surf : m # n => pl_surf[m].of \cap pl_surf[n].of = {}
  /\ \A n \in DOMAIN pl_surf : pl_surf[n].of \cap ToSet(pl_corn) = {}
  /\ Cardinality(ToSet(pl_corn)) = Len(pl_corn)
=============================================================================
