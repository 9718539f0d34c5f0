------------------------------ MODULE LivoMapper ------------------------------
(***************************************************************************)
(* LIVMapper from its parameters and callbacks to what it publishes, in    *)
(* the three modes.  With images (LIVO) sync_packages cuts the scans at    *)
(* the time of each image: the points before it go into a LIO update,      *)
(* which the VIO update of the same image follows.  Without, each scan is  *)
(* an update of its own, with the samples up to its end (ONLY_LIO) or      *)
(* without an IMU (ONLY_LO).  Between the updates imu_prop_callback        *)
(* carries the last state on at the rate of the IMU.                       *)
(*                                                                         *)
(* run() and the callbacks are one thread, so a callback, or a             *)
(* sync_packages with the processing it leads to, is one step.  A point    *)
(* is its true time and its curvature, the offset that the code keeps; a   *)
(* state of the filter is the time it has been propagated to, and a point  *)
(* in the world the time of the state that placed it there.  Sensors do    *)
(* not go back in time here (LivMapper has the loop back and the jumps of  *)
(* the IMU); lidar_en, imu_prop_enable, pcd_save_en and dense_map_en are   *)
(* set and exposure_time_init is 0.                                        *)
(***************************************************************************)
EXTENDS Integers, Sequences, FiniteSets, SequencesExt, FiniteSetsExt, Selections

CONSTANTS Horizon,        \* bound: the last point in time
          ScanLen,        \* ticks of a scan
          Clouds,         \* the offsets of the points that preprocessing leaves of a scan
          ImuStep,        \* the IMU's stamps advance by at most this
          ImgGap,         \* images closer than this are dropped (0.02 s)
          Lag,            \* the sensors' data arrive within this of each other
          MAX_INI_COUNT,
          pub_scan_num,
          Settings        \* parameters that the node may start with

ASSUME ClockAssumption ==
  /\ {Horizon, ScanLen, ImuStep, ImgGap} \subseteq Nat \ {0} /\ Lag \in Nat
  /\ \A cloud \in Clouds : /\ cloud \in Seq(0 .. ScanLen - 1)
                            /\ \A k \in 1 .. Len(cloud) - 1 : cloud[k] < cloud[k + 1]
ASSUME ParameterAssumption ==
  /\ MAX_INI_COUNT \in Nat /\ pub_scan_num \in Nat \ {0}
  /\ Settings \subseteq [img_en : BOOLEAN, imu_en : BOOLEAN, lidar_type : {"AVIA", "OTHER"},
                         pcd_save_interval : Int]   \* -1: saved when the node stops
  /\ \A s \in Settings : s.img_en => s.imu_en   \* without samples LIVO reads an empty buffer

VARIABLES
  lidarClock, imuClock, imgClock,     \* what the sensors have sent
  lid_raw_data_buffer,   \* with lid_header_time_buffer: scans [beg, points]
  imu_buffer, img_time_buffer, last_timestamp_lidar, last_timestamp_img,
  lio_vio_flg, last_lio_update_time, pcl_proc_next,      \* LidarMeasures
  imu_need_init, init_iter_num, last_imu, last_prop_end_time, IMUpose, \* ImuProcess
  time_last_scan,        \* also of ImuProcess; -1: b_first_frame
  _state, lidar_map_inited, gravity_align_finished,
  latest_ekf, ekf_finish_once, state_update_flg,  \* latest_ekf_state, _time
  prop_imu_buffer, newest_imu, new_imu, imu_propagate, last_t_from_lidar_end_time,
  pcl_w_wait_pub, pcl_wait_pub, pub_num, pcl_wait_save, scan_wait_num,
  saved,        \* points in the files written so far
  running,      \* rclcpp::ok()
  settings,
  is_first_frame, _first_lidar_time,
  _pv_list,              \* points of the last LIO update, as they went into the map
  odomAftMapped, msg_body_pose, path,
  visual,                \* what the last processFrame of the VIOManager was given
  images,                \* rgb_img: the images published
  received, used, update, updates, starved, odom, published  \* history

clocks == <<lidarClock, imuClock, imgClock>>
lidarIn == <<lid_raw_data_buffer, last_timestamp_lidar>>
imgIn == <<img_time_buffer, last_timestamp_img>>
meas == <<lio_vio_flg, last_lio_update_time, pcl_proc_next>>
imuProcess == <<imu_need_init, init_iter_num, last_imu, last_prop_end_time, IMUpose,
                time_last_scan>>
filter == <<_state, lidar_map_inited, gravity_align_finished>>
ekf == <<latest_ekf, ekf_finish_once, state_update_flg>>
propagation == <<prop_imu_buffer, newest_imu, new_imu, imu_propagate,
                 last_t_from_lidar_end_time, odom>>
clouds == <<pcl_w_wait_pub, pcl_wait_pub, pub_num, pcl_wait_save, scan_wait_num, saved,
            published>>
firstFrame == <<is_first_frame, _first_lidar_time>>
poseMsgs == <<odomAftMapped, msg_body_pose, path>>
results == <<_pv_list, poseMsgs, visual, images>>
history == <<used, update, updates, starved, firstFrame, results>>
node == <<running, settings>>
vars == <<clocks, lidarIn, received, imu_buffer, imgIn, meas, imuProcess, filter, ekf,
          propagation, clouds, history, node>>

NoFrame == [image |-> 0, img_time |-> 0, state |-> 0, pv |-> << >>]
NoUpdate == [beg |-> 0, end |-> 0, points |-> << >>, poses |-> << >>, moves |-> << >>]

\* The parameters: the choice of the sensors and of what is written
readParameters == settings \in Settings

\* initializeComponents
slam_mode_ ==
  IF settings.img_en THEN "LIVO" ELSE IF settings.imu_en THEN "ONLY_LIO" ELSE "ONLY_LO"

\* The callbacks that initializeSubscribersAndPublishers registers; the node
\* listens to every sensor and each callback looks whether it is enabled.
Subscribed ==
  {IF settings.lidar_type = "AVIA" THEN "livox_pcl_cbk" ELSE "standard_pcl_cbk",
   "imu_cbk", "img_cbk", "imu_prop_timer"}

\* ImuProcess(), Reset() and disable_imu()
ImuProcessInit ==
  /\ imu_need_init = settings.imu_en /\ init_iter_num = 1 /\ last_imu = 0
  /\ last_prop_end_time = 0 /\ IMUpose = << >> /\ time_last_scan = -1

\* The members of LIVMapper and of LidarMeasures
MembersInit ==
  /\ lid_raw_data_buffer = << >> /\ imu_buffer = << >> /\ img_time_buffer = << >>
  /\ last_timestamp_lidar = -1 /\ last_timestamp_img = -1
  /\ lio_vio_flg = "WAIT" /\ last_lio_update_time = -1 /\ pcl_proc_next = << >>
  /\ _state = 0 /\ lidar_map_inited = FALSE /\ gravity_align_finished = FALSE
  /\ latest_ekf = [state |-> 0, time |-> 0]
  /\ ekf_finish_once = FALSE /\ state_update_flg = FALSE
  /\ prop_imu_buffer = << >> /\ newest_imu = 0 /\ new_imu = FALSE
  /\ imu_propagate = 0 /\ last_t_from_lidar_end_time = 0

\* The constructor leaves the clouds empty.
Init ==
  /\ readParameters /\ ImuProcessInit /\ MembersInit
  /\ lidarClock = 0 /\ imuClock = 0 /\ imgClock = 0
  /\ pcl_w_wait_pub = << >> /\ pcl_wait_pub = << >> /\ pub_num = 1
  /\ pcl_wait_save = << >> /\ scan_wait_num = 0 /\ saved = << >> /\ published = << >>
  /\ running = TRUE
  /\ received = << >> /\ used = << >> /\ update = NoUpdate /\ updates = 0
  /\ starved = FALSE /\ odom = [stamp |-> 0, state |-> 0]
  /\ is_first_frame = FALSE /\ _first_lidar_time = 0
  /\ _pv_list = << >> /\ visual = NoFrame /\ images = << >>
  /\ odomAftMapped = 0 /\ msg_body_pose = 0 /\ path = << >>

-----------------------------------------------------------------------------
(* The callbacks *)

\* The sensors' data arrive within Lag of each other; a sensor that is not
\* enabled does not count.
InTime(t, others) ==
  /\ t <= Horizon
  /\ \A c \in others : t <= c + Lag
EnabledClocks(own) ==
  (IF "lidar" # own THEN {lidarClock} ELSE {})
    \cup (IF "imu" # own /\ settings.imu_en THEN {imuClock} ELSE {})
    \cup (IF "img" # own /\ settings.img_en THEN {imgClock} ELSE {})

\* The next scan, with the points of a cloud
ScanOf(cloud) ==
  [beg |-> lidarClock,
   points |-> [n \in DOMAIN cloud |-> [time |-> lidarClock + cloud[n], curvature |-> cloud[n]]]]
PushScan(cloud) ==
  /\ lid_raw_data_buffer' = Append(lid_raw_data_buffer, ScanOf(cloud))
  /\ last_timestamp_lidar' = lidarClock
  /\ received' = received \o [n \in DOMAIN cloud |-> lidarClock + cloud[n]]

\* The Livox driver's clouds, with the points that preprocessing left; an empty
\* one is dropped.
livox_pcl_cbk ==
  /\ running /\ "livox_pcl_cbk" \in Subscribed
  /\ InTime(lidarClock + ScanLen, EnabledClocks("lidar"))
  /\ lidarClock' = lidarClock + ScanLen
  /\ \E cloud \in Clouds :
       IF cloud = << >> THEN UNCHANGED <<lidarIn, received>> ELSE PushScan(cloud)
  /\ UNCHANGED <<imuClock, imgClock, imu_buffer, imgIn, meas, imuProcess, filter, ekf,
                 propagation, clouds, history, node>>

\* Other lidars' clouds; an empty one would be buffered as well, and its last
\* point, which it does not have, then read: none here is empty.
standard_pcl_cbk ==
  /\ running /\ "standard_pcl_cbk" \in Subscribed
  /\ InTime(lidarClock + ScanLen, EnabledClocks("lidar"))
  /\ lidarClock' = lidarClock + ScanLen
  /\ \E cloud \in Clouds \ {<< >>} : PushScan(cloud)
  /\ UNCHANGED <<imuClock, imgClock, imu_buffer, imgIn, meas, imuProcess, filter, ekf,
                 propagation, clouds, history, node>>

\* Samples are for the updates and, once the IMU is initialised, for the
\* propagation between them; none before the first scan.
imu_cbk ==
  /\ running /\ settings.imu_en
  /\ \E t \in imuClock + 1 .. imuClock + ImuStep :
       /\ InTime(t, EnabledClocks("imu"))
       /\ imuClock' = t
       /\ IF last_timestamp_lidar < 0
            THEN UNCHANGED <<imu_buffer, prop_imu_buffer, newest_imu, new_imu>>
            ELSE /\ imu_buffer' = Append(imu_buffer, t)
                 /\ prop_imu_buffer' =
                      IF imu_need_init THEN prop_imu_buffer ELSE Append(prop_imu_buffer, t)
                 /\ newest_imu' = t
                 /\ new_imu' = TRUE
  /\ UNCHANGED <<lidarClock, imgClock, lidarIn, received, imgIn, meas, imuProcess, filter, ekf,
                 imu_propagate, last_t_from_lidar_end_time, odom, clouds, history, node>>

\* An image before the first scan, or too close to the last one, is dropped.
img_cbk ==
  /\ running /\ settings.img_en
  /\ \E t \in imgClock + 1 .. Horizon :
       /\ InTime(t, EnabledClocks("img"))
       /\ imgClock' = t
       /\ IF last_timestamp_lidar < 0 \/ t - last_timestamp_img < ImgGap
            THEN UNCHANGED imgIn
            ELSE /\ img_time_buffer' = Append(img_time_buffer, t)
                 /\ last_timestamp_img' = t
  /\ UNCHANGED <<lidarClock, imuClock, lidarIn, received, imu_buffer, meas, imuProcess, filter,
                 ekf, propagation, clouds, history, node>>

\* The samples that are not before the last update
Fresh ==
  LET old == Leading(Len(prop_imu_buffer),
                     {k \in DOMAIN prop_imu_buffer : prop_imu_buffer[k] < latest_ekf.time})
  IN  SubSeq(prop_imu_buffer, old + 1, Len(prop_imu_buffer))

\* Fault: the time since the update is not reset with the state.
imu_prop_callback_KeepTime ==
  /\ running /\ ~imu_need_init /\ new_imu /\ ekf_finish_once
  /\ new_imu' = FALSE
  /\ IF prop_imu_buffer = << >>
       THEN UNCHANGED <<prop_imu_buffer, imu_propagate, last_t_from_lidar_end_time, odom, ekf>>
       ELSE LET t == newest_imu - latest_ekf.time
                start == IF state_update_flg THEN latest_ekf.state ELSE imu_propagate
                at == start + t - last_t_from_lidar_end_time
            IN  /\ prop_imu_buffer' = IF state_update_flg THEN Fresh ELSE prop_imu_buffer
                /\ last_t_from_lidar_end_time' = t
                /\ imu_propagate' = at
                /\ state_update_flg' = FALSE
                /\ odom' = [stamp |-> newest_imu, state |-> at]
                /\ UNCHANGED <<latest_ekf, ekf_finish_once>>
  /\ UNCHANGED <<clocks, lidarIn, received, imu_buffer, imgIn, meas, imuProcess, filter,
                 newest_imu, clouds, history, node>>

\* The timer.  After an update the samples before it are dropped and the others
\* integrated from the updated state; otherwise the newest sample is.
imu_prop_callback ==
  /\ running /\ "imu_prop_timer" \in Subscribed /\ ~imu_need_init /\ new_imu /\ ekf_finish_once
  /\ new_imu' = FALSE
  /\ IF prop_imu_buffer = << >>
       THEN UNCHANGED <<prop_imu_buffer, imu_propagate, last_t_from_lidar_end_time, odom, ekf>>
       ELSE LET last == IF state_update_flg
                          THEN IF Fresh = << >> THEN latest_ekf.time ELSE Last(Fresh)
                          ELSE newest_imu
                t == last - latest_ekf.time
                at == IF state_update_flg THEN latest_ekf.state + t
                      ELSE imu_propagate + (t - last_t_from_lidar_end_time)
            IN  /\ prop_imu_buffer' = IF state_update_flg THEN Fresh ELSE prop_imu_buffer
                /\ last_t_from_lidar_end_time' = t
                /\ imu_propagate' = at
                /\ state_update_flg' = FALSE
                /\ odom' = [stamp |-> newest_imu, state |-> at]
                /\ UNCHANGED <<latest_ekf, ekf_finish_once>>
  /\ UNCHANGED <<clocks, lidarIn, received, imu_buffer, imgIn, meas, imuProcess, filter,
                 newest_imu, clouds, history, node>>

-----------------------------------------------------------------------------
(* ImuProcess::Process2 *)

\* The time the state is carried on between the samples k and k + 1 of v, and
\* the offset of the pose that is then kept; none for a sample before beg.
Steps(v, beg) == Kept(Len(v) - 1, {k \in 1 .. Len(v) - 1 : v[k + 1] >= beg})
Dt(v, k, beg, end) ==
  CASE v[k] < beg                       -> v[k + 1] - beg
    [] v[k] >= beg /\ k < Len(v) - 1    -> v[k + 1] - v[k]
    [] v[k] >= beg /\ k = Len(v) - 1    -> end - v[k]
Elapsed(v, beg, end) ==
  LET sum[n \in 0 .. Len(Steps(v, beg))] ==
        IF n = 0 THEN 0 ELSE sum[n - 1] + Dt(v, Steps(v, beg)[n], beg, end)
  IN  sum[Len(Steps(v, beg))]
Offset(v, k, beg, end) ==
  IF v[k] >= beg /\ k = Len(v) - 1 THEN end - beg ELSE v[k + 1] - beg

Unmoved(pts) == [at |-> Len(pts), by |-> [j \in 1 .. Len(pts) |-> << >>]]

\* Fault: each point is moved from the pose after it.
Moves_FromNext(poses, pts) ==
  LET back[m \in 0 .. Len(poses) - 1] ==
        IF m = 0 THEN Unmoved(pts)
        ELSE LET at    == back[m - 1].at
                 by    == back[m - 1].by
                 next  == Len(poses) - m + 1
                 moved == {j \in 1 .. at :
                             \A l \in j .. at : pts[l].curvature > poses[next].offset}
             IN  [at |-> IF 1 \in moved THEN 1 ELSE at - Cardinality(moved),
                  by |-> [j \in 1 .. Len(pts) |->
                            IF j \in moved THEN Append(by[j], next) ELSE by[j]]]
  IN  back[Len(poses) - 1].by

\* The backward pass: from the last pose and the last point on, a point is
\* moved from each pose that is before it; the pass stays at the first point,
\* and at a point that is not after its pose.  For each point, the poses that
\* moved it.
Moves(poses, pts) ==
  LET back[m \in 0 .. Len(poses) - 1] ==
        IF m = 0 THEN Unmoved(pts)
        ELSE LET at    == back[m - 1].at
                 by    == back[m - 1].by
                 head  == Len(poses) - m
                 moved == {j \in 1 .. at :
                             \A l \in j .. at : pts[l].curvature > poses[head].offset}
             IN  [at |-> IF 1 \in moved THEN 1 ELSE at - Cardinality(moved),
                  by |-> [j \in 1 .. Len(pts) |->
                            IF j \in moved THEN Append(by[j], head) ELSE by[j]]]
  IN  back[Len(poses) - 1].by

\* The samples, with the last one of the update before
v_imu(samples) == <<last_imu>> \o samples

\* The pose at the end of the last update, after those of updates without points
FirstPoses == IMUpose \o <<[beg |-> last_prop_end_time, offset |-> 0]>>

\* A LIO update with the points pts: the state is propagated to end and every
\* point moved there.  Without points the poses are kept for the next update.
UndistortPcl(samples, pts, end) ==
  LET beg == last_prop_end_time
      v == v_imu(samples)
      steps == Steps(v, beg)
      kept == FirstPoses \o [n \in 1 .. Len(steps) |->
                         [beg |-> beg, offset |-> Offset(v, steps[n], beg, end)]]
  IN  /\ _state' = _state + Elapsed(v, beg, end)
      /\ last_imu' = Last(v)
      /\ last_prop_end_time' = end
      /\ last_lio_update_time' = end
      /\ IMUpose' = IF pts = << >> THEN kept ELSE << >>
      /\ update' = [beg |-> beg, end |-> end, points |-> pts, poses |-> kept,
                    moves |-> IF pts = << >> THEN << >> ELSE Moves(kept, pts)]
      /\ updates' = updates + 1
      /\ starved' = (starved \/ Len(steps) < 2)
      /\ UNCHANGED <<imu_need_init, init_iter_num, time_last_scan>>

\* The samples only start the averages; last_lio_update_time stays.
IMU_init(samples, end) ==
  LET n == init_iter_num + Len(samples)
  IN  /\ IF samples = << >>
           THEN UNCHANGED <<imu_need_init, init_iter_num, last_imu, last_prop_end_time>>
           ELSE /\ init_iter_num' = n
                /\ last_imu' = Last(samples)
                /\ imu_need_init' = (n <= MAX_INI_COUNT)
                /\ last_prop_end_time' = IF n > MAX_INI_COUNT THEN end ELSE 0
      /\ _state' = IF samples # << >> /\ n > MAX_INI_COUNT THEN end ELSE _state
      /\ UNCHANGED <<IMUpose, time_last_scan, update, updates, starved>>

-----------------------------------------------------------------------------
(* The updates: handleLIO, handleVIO and what they publish *)

HasData ==
  /\ running /\ lid_raw_data_buffer # << >>
  /\ settings.img_en => img_time_buffer # << >>
  /\ settings.imu_en => imu_buffer # << >>

\* last_lio_update_time starts with the first scan.
LastUpdate ==
  IF last_lio_update_time < 0 THEN Head(lid_raw_data_buffer).beg ELSE last_lio_update_time

\* gravityAlignment, in processImu, turns the state once.
gravityAlignment == gravity_align_finished' = (gravity_align_finished \/ ~imu_need_init')

\* The updated state is what imu_prop_callback starts from.
UpdateEkf ==
  /\ latest_ekf' = [state |-> _state', time |-> last_lio_update_time']
  /\ ekf_finish_once' = TRUE /\ state_update_flg' = TRUE

\* A point placed in the world with the updated state
RGBpointBodyToWorld(pt) == [time |-> pt.time, at |-> _state']
CloudWorld(feats) == [i \in 1 .. Len(feats) |-> RGBpointBodyToWorld(feats[i])]

\* So are those that go into the voxel map.
transformLidar(feats) ==
  [i \in 1 .. Len(feats) |-> [time |-> feats[i].time, at |-> _state']]

\* The pose of the messages
set_posestamp == _state'
publish_odometry == odomAftMapped' = set_posestamp
publish_path == msg_body_pose' = set_posestamp /\ path' = Append(path, set_posestamp)
publish_mavros == msg_body_pose' = set_posestamp

\* run(): the time of the last update when the first data are processed
handleFirstFrame(time) ==
  /\ is_first_frame' = TRUE
  /\ _first_lidar_time' = IF is_first_frame THEN _first_lidar_time ELSE time

\* publish_frame_world, from the published points on: they are kept for the map
\* file, which is written every pcd_save_interval clouds, if that is positive.
SaveMap(pts) ==
  LET interval == settings.pcd_save_interval
      save == pcl_wait_save \o pts
      full == save # << >> /\ interval > 0 /\ scan_wait_num + 1 >= interval
  IN  /\ published' = published \o pts
      /\ pcl_wait_save' = IF full THEN << >> ELSE save
      /\ scan_wait_num' = IF full THEN 0 ELSE scan_wait_num + 1
      /\ saved' = IF full THEN saved \o save ELSE saved

\* Fault: the clouds that were published are kept.
publish_frame_world_Keep(rgb) ==
  /\ pub_num' = IF pub_num = pub_scan_num THEN 1 ELSE pub_num + 1
  /\ SaveMap(rgb)
  /\ pcl_wait_pub' = pcl_wait_pub \o pcl_w_wait_pub
  /\ pcl_w_wait_pub' = << >>

\* With images the coloured points rgb are published.  Clouds of which no point
\* got a colour wait on.
publish_frame_world(rgb) ==
  /\ pub_num' = IF pub_num = pub_scan_num THEN 1 ELSE pub_num + 1
  /\ SaveMap(rgb)
  /\ pcl_wait_pub' = IF rgb # << >> THEN << >> ELSE pcl_wait_pub \o pcl_w_wait_pub
  /\ pcl_w_wait_pub' = << >>

\* The points that may get a colour: those the camera sees, every pub_scan_num
\* clouds.
Coloured ==
  LET all == pcl_wait_pub \o pcl_w_wait_pub IN
  IF pub_num # pub_scan_num THEN {<< >>}
  ELSE {Select(all, seen) : seen \in SUBSET DOMAIN all}

\* handleLIO, given the undistorted points: without any it does nothing.  The
\* pose is published; so are the points, at once when there are no images.
handleLIO(feats) ==
  IF feats = << >>
    THEN UNCHANGED <<lidar_map_inited, ekf, clouds, results>>
    ELSE /\ lidar_map_inited' = TRUE
         /\ UpdateEkf
         /\ publish_odometry /\ publish_path /\ publish_mavros
         /\ _pv_list' = transformLidar(feats)
         /\ UNCHANGED <<visual, images>>
         /\ IF settings.img_en
              THEN /\ pcl_w_wait_pub' = CloudWorld(feats)
                   /\ UNCHANGED <<pcl_wait_pub, pub_num, pcl_wait_save, scan_wait_num, saved,
                                  published>>
              ELSE /\ SaveMap(CloudWorld(feats))
                   /\ UNCHANGED <<pcl_w_wait_pub, pcl_wait_pub, pub_num>>

\* The VIO update gets the image, its time, the state and the points of the map.
processFrame ==
  visual' = [image |-> Head(img_time_buffer),
             img_time |-> last_lio_update_time' - _first_lidar_time,
             state |-> _state, pv |-> _pv_list]

publish_img_rgb == images' = Append(images, Head(img_time_buffer))

\* handleVIO: without points of the LIO update it does nothing.
handleVIO ==
  IF pcl_w_wait_pub = << >>
    THEN UNCHANGED <<ekf, clouds, visual, images>>
    ELSE /\ processFrame
         /\ publish_img_rgb
         /\ latest_ekf' = [state |-> _state, time |-> last_lio_update_time']
         /\ ekf_finish_once' = TRUE /\ state_update_flg' = TRUE
         /\ \E rgb \in Coloured : publish_frame_world(rgb)

\* processImu and the LIO update that it leads to; none while the IMU is being
\* initialised.
Process2(samples, pts, end) ==
  /\ IF imu_need_init
       THEN /\ IMU_init(samples, end)
            /\ last_lio_update_time' = LastUpdate
            /\ UNCHANGED <<lidar_map_inited, ekf, clouds, results>>
       ELSE /\ UndistortPcl(samples, pts, end)
            /\ handleLIO(pts)
  /\ gravityAlignment

\* History: the points of an update that ends at end
Use(pts, end) == used' = used \o [i \in 1 .. Len(pts) |-> [time |-> pts[i].time, at |-> end]]

-----------------------------------------------------------------------------
(* sync_packages and run(), mode LIVO *)

Image == Head(img_time_buffer)

LidNewest ==
  LET s == Last(lid_raw_data_buffer) IN s.beg + Last(s.points).curvature

\* An image not after the last update is thrown away.
ThrowImage ==
  /\ slam_mode_ = "LIVO" /\ HasData /\ lio_vio_flg \in {"WAIT", "VIO"}
  /\ Image <= LastUpdate
  /\ img_time_buffer' = Tail(img_time_buffer)
  /\ last_lio_update_time' = LastUpdate
  /\ UNCHANGED <<clocks, lidarIn, received, imu_buffer, last_timestamp_img, lio_vio_flg,
                 pcl_proc_next, imuProcess, filter, ekf, propagation, clouds, history, node>>

\* How many scans began before the image
ScansUpTo(img) ==
  Leading(Len(lid_raw_data_buffer),
          {k \in DOMAIN lid_raw_data_buffer : lid_raw_data_buffer[k].beg <= img})

\* The points of a scan that are before the image
Before(scan, img) == {k \in DOMAIN scan.points : scan.points[k].curvature < img - scan.beg}

\* Points of a scan, their offsets taken from its begin to another time
From(scan, S, time) ==
  [n \in DOMAIN Select(scan.points, S) |->
     [Select(scan.points, S)[n] EXCEPT !.curvature = @ + scan.beg - time]]

\* Fault: the points left over keep the offset to the last update.
CutAfter_OldBase(img) ==
  Joined([n \in 1 .. ScansUpTo(img) |->
            LET scan == lid_raw_data_buffer[n] IN
            From(scan, (DOMAIN scan.points) \ Before(scan, img), LastUpdate)])

\* Those not before it are left over, their offsets taken to the image.
CutAfter(img) ==
  Joined([n \in 1 .. ScansUpTo(img) |->
            LET scan == lid_raw_data_buffer[n] IN
            From(scan, (DOMAIN scan.points) \ Before(scan, img), img)])

\* Those before it get the offset to the last update.
CutBefore(img) ==
  Joined([n \in 1 .. ScansUpTo(img) |->
            LET scan == lid_raw_data_buffer[n] IN From(scan, Before(scan, img), LastUpdate)])

\* How many samples are popped up to a time
SamplesUpTo(time) ==
  Leading(Len(imu_buffer), {k \in DOMAIN imu_buffer : imu_buffer[k] <= time})

\* The image's scans and samples are there: the points and the samples up to it
\* make a LIO update.
SyncLio ==
  /\ slam_mode_ = "LIVO" /\ HasData /\ lio_vio_flg \in {"WAIT", "VIO"}
  /\ LastUpdate < Image /\ Image <= LidNewest /\ Image <= Last(imu_buffer)
  /\ LET popped == SamplesUpTo(Image)
         samples == Select(imu_buffer, {k \in 1 .. popped : imu_buffer[k] > LastUpdate})
         pts == pcl_proc_next \o CutBefore(Image)
     IN  /\ imu_buffer' = SubSeq(imu_buffer, popped + 1, Len(imu_buffer))
         /\ Use(pts, Image)
         /\ handleFirstFrame(LastUpdate)
         /\ Process2(samples, pts, Image)
  /\ pcl_proc_next' = CutAfter(Image)
  /\ lid_raw_data_buffer' = SubSeq(lid_raw_data_buffer, ScansUpTo(Image) + 1,
                                   Len(lid_raw_data_buffer))
  /\ lio_vio_flg' = "LIO"
  /\ UNCHANGED <<clocks, last_timestamp_lidar, received, imgIn, propagation, node>>

\* The image that the last LIO update was for; its VIO update has no samples.
SyncVio ==
  /\ slam_mode_ = "LIVO" /\ HasData /\ lio_vio_flg = "LIO"
  /\ lio_vio_flg' = "VIO"
  /\ img_time_buffer' = Tail(img_time_buffer)
  /\ IF imu_need_init
       THEN UNCHANGED <<last_lio_update_time, last_prop_end_time>>
       ELSE last_lio_update_time' = Image /\ last_prop_end_time' = Image
  /\ handleFirstFrame(last_lio_update_time)
  /\ handleVIO
  /\ UNCHANGED <<clocks, lidarIn, received, imu_buffer, last_timestamp_img, pcl_proc_next,
                 imu_need_init, init_iter_num, last_imu, IMUpose, time_last_scan, filter,
                 propagation, used, update, updates, starved, poseMsgs, _pv_list, node>>

-----------------------------------------------------------------------------
(* sync_packages and run(), modes ONLY_LIO and ONLY_LO *)

\* The next scan, when samples up to its end have come; one with a single point
\* is never taken.
SyncOnlyLio ==
  /\ slam_mode_ = "ONLY_LIO" /\ HasData
  /\ LET scan == Head(lid_raw_data_buffer)
         end == scan.beg + Last(scan.points).curvature
         popped == SamplesUpTo(end)
     IN  /\ Len(scan.points) > 1 /\ end <= Last(imu_buffer)
         /\ imu_buffer' = SubSeq(imu_buffer, popped + 1, Len(imu_buffer))
         /\ Use(scan.points, end)
         /\ handleFirstFrame(LastUpdate)
         /\ Process2(SubSeq(imu_buffer, 1, popped), scan.points, end)
  /\ lid_raw_data_buffer' = Tail(lid_raw_data_buffer)
  /\ lio_vio_flg' = "LIO"
  /\ UNCHANGED <<clocks, last_timestamp_lidar, received, imgIn, pcl_proc_next, propagation,
                 node>>

\* Without an IMU the state goes on with its velocity, by the time between the
\* beginnings of the scans; the first time by 0.1 s, a scan.
Forward_without_imu(scan) ==
  /\ _state' = _state + (IF time_last_scan < 0 THEN ScanLen ELSE scan.beg - time_last_scan)
  /\ time_last_scan' = scan.beg
  /\ last_lio_update_time' = scan.beg + Last(scan.points).curvature

SyncLo ==
  /\ slam_mode_ = "ONLY_LO" /\ HasData
  /\ LET scan == Head(lid_raw_data_buffer) IN
       /\ Forward_without_imu(scan)
       /\ Use(scan.points, last_lio_update_time')
       /\ handleFirstFrame(last_lio_update_time)
       /\ handleLIO(scan.points)
  /\ lid_raw_data_buffer' = Tail(lid_raw_data_buffer)
  /\ lio_vio_flg' = "LO"
  /\ UNCHANGED <<imu_need_init, init_iter_num, last_imu, last_prop_end_time, IMUpose>>
  /\ gravityAlignment
  /\ UNCHANGED <<clocks, last_timestamp_lidar, received, imu_buffer, imgIn, pcl_proc_next,
                 propagation, update, updates, starved, node>>

\* The node is stopped: savePCD writes what was kept, unless files are written
\* at an interval.
savePCD ==
  /\ running
  /\ running' = FALSE
  /\ saved' = IF settings.pcd_save_interval < 0 THEN saved \o pcl_wait_save ELSE saved
  /\ UNCHANGED <<clocks, lidarIn, received, imu_buffer, imgIn, meas, imuProcess, filter, ekf,
                 propagation, pcl_w_wait_pub, pcl_wait_pub, pub_num, pcl_wait_save,
                 scan_wait_num, published, history, settings>>

Next ==
  \/ livox_pcl_cbk \/ standard_pcl_cbk \/ imu_cbk \/ img_cbk \/ imu_prop_callback
  \/ ThrowImage \/ SyncLio \/ SyncVio \/ SyncOnlyLio \/ SyncLo
  \/ savePCD

Spec == Init /\ [][Next]_vars

-----------------------------------------------------------------------------
(* Properties *)

Times(pts) == [i \in 1 .. Len(pts) |-> pts[i].time]

\* Every point of the lidar goes into exactly one LIO update, in order, in every
\* mode and wherever the images cut the scans; one that is left over for the next update has its
\* own time as offset to the image of this one.
CutOnce ==
  /\ received = Times(used) \o Times(pcl_proc_next)
                  \o Joined([n \in DOMAIN lid_raw_data_buffer |->
                               Times(lid_raw_data_buffer[n].points)])
  /\ updates > 0 => \A n \in DOMAIN pcl_proc_next :
       pcl_proc_next[n].time = last_prop_end_time + pcl_proc_next[n].curvature

\* With images, from the second update on and with at least two samples of the
\* IMU for every image, every point that is after the last update is moved
\* exactly once, from the last pose before it; but the first point of the cloud
\* may be moved from several.  The last pose is where the update ends: no point is
\* moved from it, not even one of a scan that goes on after the image.
MovedOnce ==
  (slam_mode_ = "LIVO" /\ updates > 1 /\ ~starved) =>
    \A j \in 2 .. Len(update.points) :
      LET p == update.points[j]
          before == {k \in 1 .. Len(update.poses) - 1 :
                       update.poses[k].beg + update.poses[k].offset < p.time}
      IN  p.curvature > 0 => update.moves[j] = <<Max(before)>>

\* A state is what it is published as: the odometry at the rate of the IMU has
\* the time of its stamp, however samples, updates and timer interleave; the
\* VIO update of an image gets the state of the time of the image, points that were
\* placed with it and the time since the first scan; path and images do not step back.
StatesAtTheirTimes ==
  (settings.imu_en /\ ~starved) =>
    /\ \A i, j \in DOMAIN path : i < j => path[i] < path[j]
    /\ odom.state = odom.stamp
    /\ ~imu_need_init => _state = last_prop_end_time
    /\ \A i, j \in DOMAIN images : i < j => images[i] < images[j]
    /\ visual # NoFrame =>
         /\ visual.state = visual.image
         /\ \A p \in Range(visual.pv) : p.at = visual.image
         /\ visual.img_time = visual.image - _first_lidar_time

\* No point is published twice, whatever the camera saw and however clouds wait; it
\* is published, and put in the voxel map, where the state of its own update placed
\* it.  All that was published, and nothing else, is in the map files when the node has
\* been stopped, unless they are written at an interval.
PublishedOnce ==
  /\ IsInjective(published)
  /\ (settings.imu_en /\ ~starved) => Range(published \o _pv_list) \subseteq Range(used)
  /\ running => saved \o pcl_wait_save = published
  /\ (~running /\ settings.pcd_save_interval < 0) => saved = published
=============================================================================
