------------------------------ MODULE LivMapper ------------------------------
(***************************************************************************)
(* The input side of fast_livo's LIVMapper in the configuration of         *)
(* mid360.yaml (lidar_en, imu_en, no images: slam_mode_ is ONLY_LIO; no    *)
(* ros_driver_bug_fix, imu_time_offset 0): the callbacks that fill the     *)
(* buffers, sync_packages, which joins a scan with the IMU samples up to   *)
(* its end, and ImuProcess::Process2, which propagates the state over      *)
(* them.  run() calls spin_some and sync_packages in one thread, so a      *)
(* callback, or a sync_packages with the processing it leads to, is one    *)
(* step.                                                                   *)
(*                                                                         *)
(* Times are small positive integers.  A scan keeps the time of its first  *)
(* and of its last point and its size: "none", "one" or "many" points.     *)
(* What the filter computes from a scan is left out; when it runs, and     *)
(* over which stretches of time, is what this module is about.             *)
(***************************************************************************)
EXTENDS Integers, Sequences, SequencesExt, FiniteSetsExt

CONSTANTS Horizon,        \* bound: the last point in time
          ScanLen,        \* longest scan
          Sizes,          \* sizes that scans have
          Jump,           \* the jump of imu_cbk (0.2 s in the code)
          MaxStep,        \* the IMU's stamps advance by at most this
          Lag,            \* the sensors' data arrive within this of each other
          MAX_INI_COUNT,  \* samples that IMU_init averages
          LoopBack        \* may the lidar's clock go back?

ASSUME TimesAssumption ==
  /\ Horizon \in Nat /\ ScanLen \in Nat \ {0}
  /\ Jump \in Nat \ {0} /\ MaxStep \in Nat \ {0} /\ Lag \in Nat
  /\ MAX_INI_COUNT \in Nat
ASSUME SizesAssumption == Sizes \subseteq {"none", "one", "many"}
ASSUME LoopBackAssumption == LoopBack \in BOOLEAN

Time == 1 .. Horizon
Scan == [beg : Time, end : Time, size : {"one", "many"}]
NoScan == [beg |-> 0, end |-> 0, size |-> "none"]
NoFrame == [scan |-> NoScan, beg |-> 0, end |-> 0]

VARIABLES
  lid_raw_data_buffer, lid_header_time_buffer, imu_buffer,
  last_timestamp_lidar, last_timestamp_imu,     \* -1: none yet
  lidar_pushed,
  frame,          \* while lidar_pushed: meas.lidar, lidar_frame_beg_time,
                  \* lidar_frame_end_time
  imu_need_init, init_iter_num,
  last_imu,       \* stamp of ImuProcess::last_imu
  last_prop_end_time,
  lidarClock, imuClock,   \* what the sensors have sent
  done, prop      \* history: the last scan processed, the last propagation

buffers == <<lid_raw_data_buffer, lid_header_time_buffer, imu_buffer,
             last_timestamp_lidar, last_timestamp_imu>>
imuProcess == <<imu_need_init, init_iter_num, last_imu, last_prop_end_time>>
history == <<done, prop>>
vars == <<buffers, lidar_pushed, frame, imuProcess, lidarClock, imuClock, history>>

Init ==
  /\ lid_raw_data_buffer = << >> /\ lid_header_time_buffer = << >> /\ imu_buffer = << >>
  /\ last_timestamp_lidar = -1 /\ last_timestamp_imu = -1
  /\ lidar_pushed = FALSE
  /\ frame = NoFrame
  /\ imu_need_init = TRUE /\ init_iter_num = 1
  /\ last_imu = 0 /\ last_prop_end_time = 0
  /\ lidarClock = 0 /\ imuClock = 0
  /\ done = [scan |-> NoScan, newest |-> 0]
  /\ prop = [beg |-> 0, end |-> 0, samples |-> << >>, dts |-> << >>]

-----------------------------------------------------------------------------
(* The callbacks *)

\* The scans that the driver may publish next: none overlaps the last one,
\* unless the lidar's clock went back.
NextScans ==
  {s \in [beg : Time, end : Time, size : Sizes] :
     /\ s.beg <= s.end /\ s.end <= s.beg + ScanLen
     /\ s.end <= imuClock + Lag
     /\ LoopBack \/ s.beg >= lidarClock}

\* When the time goes back the scans are dropped, but not their header times;
\* a cloud without points is dropped after that.
livox_pcl_cbk ==
  \E s \in NextScans :
    LET kept == IF s.beg < last_timestamp_lidar THEN << >> ELSE lid_raw_data_buffer
    IN  /\ lidarClock' = s.beg + ScanLen
        /\ IF s.size = "none"
             THEN /\ lid_raw_data_buffer' = kept
                  /\ UNCHANGED <<lid_header_time_buffer, last_timestamp_lidar>>
             ELSE /\ lid_raw_data_buffer' = Append(kept, s)
                  /\ lid_header_time_buffer' = Append(lid_header_time_buffer, s.beg)
                  /\ last_timestamp_lidar' = s.beg
        /\ UNCHANGED <<imu_buffer, last_timestamp_imu, lidar_pushed, frame, imuProcess,
                       imuClock, history>>

\* A sample is dropped before the first scan, when its time goes back and when
\* it jumps.
Accepts(t) ==
  /\ last_timestamp_lidar >= 0
  /\ last_timestamp_imu > 0 => t >= last_timestamp_imu /\ t <= last_timestamp_imu + Jump

\* The IMU's next sample, or one that arrives after a later one.
imu_cbk ==
  \E t \in (imuClock + 1 .. imuClock + MaxStep) \cup {last_timestamp_imu - 1} :
    /\ 0 < t /\ t <= lidarClock + Lag
    /\ imuClock' = IF t > imuClock THEN t ELSE imuClock
    /\ IF Accepts(t)
         THEN /\ last_timestamp_imu' = t
              /\ imu_buffer' = Append(imu_buffer, t)
         ELSE UNCHANGED <<last_timestamp_imu, imu_buffer>>
    /\ UNCHANGED <<lid_raw_data_buffer, lid_header_time_buffer, last_timestamp_lidar,
                   lidar_pushed, frame, imuProcess, lidarClock, history>>

-----------------------------------------------------------------------------
(* ImuProcess::Process2, given the samples of the scan and its end *)

\* Fault: the last step ends at its sample, not at the end of the scan.
Dt_ToSample(v, i, end) ==
  IF v[i] < last_prop_end_time THEN v[i + 1] - last_prop_end_time ELSE v[i + 1] - v[i]

\* The time that UndistortPcl propagates between the samples i and i + 1 of v.
Dt(v, i, end) ==
  IF v[i] < last_prop_end_time THEN v[i + 1] - last_prop_end_time
  ELSE IF i = Len(v) - 1 THEN end - v[i]
  ELSE v[i + 1] - v[i]

UndistortPcl(samples, end) ==
  LET v == <<last_imu>> \o samples
      dts == [i \in 1 .. Len(v) - 1 |->
                IF v[i + 1] < last_prop_end_time THEN 0 ELSE Dt(v, i, end)]
  IN  /\ last_imu' = Last(v)
      /\ last_prop_end_time' = end
      /\ prop' = [beg |-> last_prop_end_time, end |-> end, samples |-> samples,
                  dts |-> dts]
      /\ UNCHANGED <<imu_need_init, init_iter_num>>

\* The first samples only start the averages; the filter runs once enough have
\* come.
IMU_init(samples, end) ==
  LET n == init_iter_num + Len(samples)
  IN  IF samples = << >>
        THEN UNCHANGED <<imuProcess, prop>>
        ELSE /\ init_iter_num' = n
             /\ last_imu' = Last(samples)
             /\ imu_need_init' = (n <= MAX_INI_COUNT)
             /\ last_prop_end_time' = IF n > MAX_INI_COUNT THEN end ELSE last_prop_end_time
             /\ UNCHANGED prop

Process2(samples, end) ==
  IF imu_need_init THEN IMU_init(samples, end) ELSE UndistortPcl(samples, end)

-----------------------------------------------------------------------------
(* LIVMapper::sync_packages, case ONLY_LIO *)

\* The scan in hand, or the one at the head of the buffers: its end is the
\* header time at the head plus the offset of its last point.
Frame ==
  IF lidar_pushed THEN frame
  ELSE LET s == Head(lid_raw_data_buffer)
           beg == Head(lid_header_time_buffer)
       IN  [scan |-> s, beg |-> beg, end |-> beg + (s.end - s.beg)]

\* Fault: a scan that waits for its samples is not looked at again.
HasScan_FreshOnly ==
  /\ lid_raw_data_buffer # << >> /\ imu_buffer # << >>
  /\ ~lidar_pushed /\ Head(lid_raw_data_buffer).size = "many"

\* A scan at the head with a single point is never taken.
HasScan ==
  /\ lid_raw_data_buffer # << >> /\ imu_buffer # << >>
  /\ lidar_pushed \/ Head(lid_raw_data_buffer).size = "many"

\* Fault: the scan is used as soon as any sample is there.
ImuCovers_Any(end) == last_timestamp_imu > 0

ImuCovers(end) == last_timestamp_imu >= end

\* The IMU samples up to the end of the scan
SamplesUpTo(end) ==
  Max({n \in 0 .. Len(imu_buffer) : \A i \in 1 .. n : imu_buffer[i] <= end})

\* The scan is taken in hand; its samples have not all come yet.
PushLidar ==
  /\ HasScan /\ ~lidar_pushed /\ ~ImuCovers(Frame.end)
  /\ lidar_pushed' = TRUE
  /\ frame' = Frame
  /\ UNCHANGED <<buffers, imuProcess, lidarClock, imuClock, history>>

\* Fault: the header time stays in its buffer.
SyncScan_KeepHeader ==
  /\ HasScan /\ ImuCovers(Frame.end)
  /\ LET n == SamplesUpTo(Frame.end)
     IN  /\ imu_buffer' = SubSeq(imu_buffer, n + 1, Len(imu_buffer))
         /\ Process2(SubSeq(imu_buffer, 1, n), Frame.end)
  /\ lid_raw_data_buffer' = Tail(lid_raw_data_buffer)
  /\ lidar_pushed' = FALSE
  /\ frame' = NoFrame
  /\ done' = [scan |-> Frame.scan, newest |-> last_timestamp_imu]
  /\ UNCHANGED <<lid_header_time_buffer, last_timestamp_lidar, last_timestamp_imu,
                 lidarClock, imuClock>>

\* The scan and its samples leave the buffers and are processed.
SyncScan ==
  /\ HasScan /\ ImuCovers(Frame.end)
  /\ LET n == SamplesUpTo(Frame.end)
     IN  /\ imu_buffer' = SubSeq(imu_buffer, n + 1, Len(imu_buffer))
         /\ Process2(SubSeq(imu_buffer, 1, n), Frame.end)
  /\ lid_raw_data_buffer' = Tail(lid_raw_data_buffer)
  /\ lid_header_time_buffer' = Tail(lid_header_time_buffer)
  /\ lidar_pushed' = FALSE
  /\ frame' = NoFrame
  /\ done' = [scan |-> Frame.scan, newest |-> last_timestamp_imu]
  /\ UNCHANGED <<last_timestamp_lidar, last_timestamp_imu, lidarClock, imuClock>>

sync_packages == PushLidar \/ SyncScan

Next == livox_pcl_cbk \/ imu_cbk \/ sync_packages

Spec == Init /\ [][Next]_vars

\* run() loops, and the IMU keeps sending.
Fairness == WF_vars(sync_packages) /\ WF_vars(imu_cbk /\ imuClock' > imuClock)

FairSpec == Spec /\ Fairness

-----------------------------------------------------------------------------
(* Properties *)

\* The type invariant; among the rest, no buffered scan is empty.
TypeOK ==
  /\ lid_raw_data_buffer \in Seq(Scan)
  /\ lid_header_time_buffer \in Seq(Time) /\ imu_buffer \in Seq(Nat)
  /\ last_timestamp_lidar \in Time \cup {-1} /\ last_timestamp_imu \in Nat \cup {-1}
  /\ lidar_pushed \in BOOLEAN
  /\ frame.scan \in Scan \cup {NoScan} /\ frame.beg \in Int /\ frame.end \in Int
  /\ imu_need_init \in BOOLEAN /\ init_iter_num \in Nat
  /\ last_imu \in Nat /\ last_prop_end_time \in Int
  /\ lidarClock \in Nat /\ imuClock \in Nat

\* The two buffers that sync_packages pops together go together: each scan is
\* at the place of its own header time.
HeadersMatch ==
  /\ Len(lid_raw_data_buffer) = Len(lid_header_time_buffer)
  /\ \A i \in DOMAIN lid_raw_data_buffer :
       lid_header_time_buffer[i] = lid_raw_data_buffer[i].beg

\* "waiting imu message needs to be larger than _lidar_frame_end_time, make
\* sure complete propagate" (sync_packages): when a scan is processed, samples
\* up to its last point have come.
CompletePropagation == done.newest >= done.scan.end

\* The sums of the first 0, 1, ... members of a sequence
Sums(s) == LET part[i \in 0 .. Len(s)] == IF i = 0 THEN 0 ELSE part[i - 1] + s[i]
           IN  part

\* The filter never propagates backwards and, when at least two samples fall
\* into a scan, exactly from the end of the last scan to the end of this one,
\* whatever samples were dropped and however scans end.
PropagatesToEnd ==
  /\ \A i \in DOMAIN prop.dts : prop.dts[i] >= 0
  /\ Len(prop.samples) >= 2 =>
       Sums(prop.dts)[Len(prop.dts)] = prop.end - prop.beg

\* Two things stop the mapper for good: a scan of a single point at the head of
\* the buffer, and a step of the IMU's stamps of more than Jump, after which
\* every sample is a jump.
Stalled ==
  \/ lid_raw_data_buffer # << >> /\ Head(lid_raw_data_buffer).size = "one"
  \/ last_timestamp_imu > 0 /\ imuClock > last_timestamp_imu

\* Nothing else does: a scan at the head of the buffer is processed in the end.
ScanProcessed ==
  \A b \in Time :
    (lid_raw_data_buffer # << >> /\ Head(lid_raw_data_buffer).beg = b)
      ~> (done.scan.beg >= b \/ Stalled)
=============================================================================
