------------------------------ MODULE PubHandler ------------------------------
(***************************************************************************)
(* livox_ros_driver2 between the SDK and the queues of Lds: PubHandler     *)
(* (comm/pub_handler.cpp), which gathers the packets of each lidar into    *)
(* frames of one publishing interval, CacheIndex (comm/cache_index.cpp),   *)
(* which gives each lidar its place in Lds, and the path of the IMU        *)
(* samples through LidarImuDataQueue to the IMU poll thread.               *)
(*                                                                         *)
(* Threads: the SDK's data thread (OnLivoxLidarPointCloudCallback), the    *)
(* SDK's command thread (GetFreeIndex for a lidar it discovers), the       *)
(* worker RawDataProcess, and Lddc's IMU poll thread.  A point is its time *)
(* stamp and the extrinsics applied to it.  Times count point intervals.   *)
(***************************************************************************)
EXTENDS Integers, Sequences, FiniteSets, SequencesExt

CONSTANTS NLidars,          \* lidars on the network
          Configured,       \* those of the configuration file
          Sampling,         \* those with connect_state = kConnectStateSampling
          kMaxSourceLidar,  \* places in Lds
          DotNum,           \* points of a packet
          Ms,               \* point intervals in a millisecond
          publish_interval_ms,
          PtpOffset,        \* the master clock is ahead of the host's by this
          Wrap,             \* 2^64, the width of time stamps
          Horizon,          \* bound: packet periods
          MaxQueue,         \* bound: packets waiting in raw_packet_queue_
          MaxLost,          \* bound: packets lost on the network
          MaxImu,           \* bound: IMU packets
          ImuHorizon        \* bound: periods in which IMU packets come

Lidars == 0 .. NLidars - 1
NoLidar == -1
NoIndex == -1

ASSUME LidarsAssumption == NLidars \in Nat \ {0} /\ Configured \cup Sampling \subseteq Lidars
ASSUME ClockAssumption ==
  /\ {DotNum, Ms, publish_interval_ms, Wrap} \subseteq Nat \ {0}
  /\ PtpOffset \in Nat
  /\ DotNum <= Ms                                            \* a packet is shorter than 1 ms
ASSUME PlacesAssumption == kMaxSourceLidar \in Nat \ {0}
ASSUME BoundsAssumption ==
  /\ {Horizon, MaxQueue, MaxLost, MaxImu, ImuHorizon} \subseteq Nat
  /\ (2 + MaxLost) * publish_interval_ms * Ms <= Wrap         \* 2^64 ns are centuries

VARIABLES
  period,      \* packet periods gone by
  sent,        \* lidars whose packet of this period has come or is lost
  synced,      \* lidars locked to the master clock
  is_timestamp_sync_,
  raw_packet_queue_,
  points_clouds_,     \* of each lidar's LidarPubHandler, << >> before it exists
  extrinsic_,         \* "default" until SetLidarsExtParam, then "configured"
  last_pub_time_,     \* NoTime before the first CheckTimer without synchronisation
  frame_,             \* clouds handed to StoragePointData and not stored yet
  map_index_,         \* CacheIndex: the place of a lidar, or NoIndex
  inserting,          \* the lidar that GetFreeIndex is entering, or NoLidar
  imu_data,           \* samples in each lidar's LidarImuDataQueue
  imu_semaphore_, imu_step, imu_lidar,  \* the SDK's thread in StorageImuData
  poll, imus,         \* the poll thread's place in its loop; IMU packets so far
  received, stored,   \* history: points received, and points stored, in order
  lost, mixed         \* history: packets lost; a time stamp of the host was used

netVars == <<period, sent, synced, lost, mixed, received>>
workerVars == <<points_clouds_, extrinsic_, last_pub_time_, frame_, stored>>
indexVars == <<map_index_, inserting>>
imuVars == <<imu_data, imu_semaphore_, imu_step, imu_lidar, imus>>
vars == <<netVars, is_timestamp_sync_, raw_packet_queue_, workerVars, indexVars, imuVars, poll>>

NoTime == -1

\* SetPointCloudConfig
publish_interval_ == publish_interval_ms * Ms
publish_interval_tolerance_ == publish_interval_ - Ms

\* The host's clock; it starts at the first full interval, never at 0.
Now == publish_interval_ + period * DotNum

\* GetEthPacketTimestamp
GetEthPacketTimestamp(l) == IF l \in synced THEN Now + PtpOffset ELSE Now

\* cache_index_.GetIndex looks the key up outside the lock: while an insertion
\* is going on it may miss any key.
GetIndex(l) == {map_index_[l]} \cup (IF inserting = NoLidar THEN {} ELSE {NoIndex})

\* The place GetFreeIndex takes: the first free one.
FreeIndex ==
  LET free == (0 .. kMaxSourceLidar - 1) \ {map_index_[l] : l \in Lidars}
  IN  IF free = {} THEN NoIndex ELSE CHOOSE i \in free : \A j \in free : i <= j

\* InitLdsLidar: InitLivoxLidar enters the configured lidars, then
\* SetLidarPubHandle starts the worker and the flow of packets.
Init ==
  /\ period = 0 /\ sent = {} /\ synced \in SUBSET Lidars
  /\ is_timestamp_sync_ = FALSE
  /\ raw_packet_queue_ = << >>
  /\ points_clouds_ = [l \in Lidars |-> << >>]
  /\ extrinsic_ = [l \in Lidars |-> "default"]
  /\ last_pub_time_ = NoTime
  /\ frame_ = << >>
  /\ map_index_ = [l \in Lidars |->
       LET i == Cardinality({m \in Configured : m < l})
       IN  IF l \in Configured /\ i < kMaxSourceLidar THEN i ELSE NoIndex]
  /\ inserting = NoLidar
  /\ imu_data = [l \in Lidars |-> 0]
  /\ imu_semaphore_ = 0 /\ imu_step = "idle" /\ imu_lidar = 0
  /\ poll = NLidars /\ imus = 0
  /\ received = [l \in Lidars |-> << >>]
  /\ stored = [l \in Lidars |-> << >>]
  /\ lost = 0 /\ mixed = FALSE

-----------------------------------------------------------------------------
(* The lidars and the network *)

\* The next packet period begins; every lidar sends one packet per period.
Tick ==
  /\ sent = Lidars
  /\ period < Horizon
  /\ period' = period + 1
  /\ sent' = {}
  /\ UNCHANGED <<synced, lost, mixed, received, is_timestamp_sync_, raw_packet_queue_,
                 workerVars, indexVars, imuVars, poll>>

LosePacket(l) ==
  /\ l \notin sent
  /\ lost < MaxLost
  /\ lost' = lost + 1
  /\ sent' = sent \cup {l}
  /\ UNCHANGED <<period, synced, mixed, received, is_timestamp_sync_, raw_packet_queue_,
                 workerVars, indexVars, imuVars, poll>>

\* A lidar finds the master clock, between two of its packets.
Synchronise(l) ==
  /\ l \notin synced
  /\ sent = {}
  /\ synced' = synced \cup {l}
  /\ UNCHANGED <<period, sent, lost, mixed, received, is_timestamp_sync_,
                 raw_packet_queue_, workerVars, indexVars, imuVars, poll>>

-----------------------------------------------------------------------------
(* The SDK's data thread: OnLivoxLidarPointCloudCallback *)

\* A packet of points; is_timestamp_sync_ is one flag for all the lidars.
OnPointPacket(l) ==
  /\ l \notin sent
  /\ imu_step = "idle"
  /\ Len(raw_packet_queue_) < MaxQueue
  /\ sent' = sent \cup {l}
  /\ is_timestamp_sync_' = (l \in synced)
  /\ mixed' = (mixed \/ l \notin synced)
  /\ raw_packet_queue_' =
       Append(raw_packet_queue_, [handle |-> l, time_stamp |-> GetEthPacketTimestamp(l)])
  /\ received' = [received EXCEPT ![l] =
       @ \o [i \in 1 .. DotNum |-> GetEthPacketTimestamp(l) + i - 1]]
  /\ UNCHANGED <<period, synced, lost, workerVars, indexVars, imuVars, poll>>

\* An IMU packet sets the flag as well.  It goes to StorageImuData at once, and onto
\* the list of the lidar if it has a place.
OnImuPacket(l) ==
  /\ imu_step = "idle"
  /\ imus < MaxImu
  /\ period <= ImuHorizon
  /\ imus' = imus + 1
  /\ is_timestamp_sync_' = (l \in synced)
  /\ mixed' = (mixed \/ l \notin synced)
  /\ \E i \in GetIndex(l) :
       IF i = NoIndex
         THEN UNCHANGED <<imu_data, imu_step, imu_lidar>>
         ELSE /\ imu_data' = [imu_data EXCEPT ![l] = @ + 1]
              /\ imu_step' = "isempty"
              /\ imu_lidar' = l
  /\ UNCHANGED <<period, sent, synced, lost, received, raw_packet_queue_, workerVars,
                 indexVars, imu_semaphore_, poll>>

\* if (!imu_queue->Empty()): the poll thread may have been faster.
ImuIsEmpty ==
  /\ imu_step = "isempty"
  /\ imu_step' = IF imu_data[imu_lidar] = 0 THEN "idle" ELSE "getcount"
  /\ UNCHANGED <<netVars, is_timestamp_sync_, raw_packet_queue_, workerVars, indexVars, imu_data, imu_semaphore_, imu_lidar, imus, poll>>

\* if (imu_semaphore_.GetCount() <= 0)
ImuGetCount ==
  /\ imu_step = "getcount"
  /\ imu_step' = IF imu_semaphore_ <= 0 THEN "signal" ELSE "idle"
  /\ UNCHANGED <<netVars, is_timestamp_sync_, raw_packet_queue_, workerVars, indexVars, imu_data, imu_semaphore_, imu_lidar, imus, poll>>

ImuSignal ==
  /\ imu_step = "signal"
  /\ imu_semaphore_' = imu_semaphore_ + 1
  /\ imu_step' = "idle"
  /\ UNCHANGED <<netVars, is_timestamp_sync_, raw_packet_queue_, workerVars, indexVars, imu_data, imu_lidar, imus, poll>>

-----------------------------------------------------------------------------
(* The SDK's command thread: a lidar that is not in the file is discovered *)

\* GetFreeIndex finds no entry for the lidar and starts to insert one.
GetFreeIndex(l) ==
  /\ inserting = NoLidar
  /\ map_index_[l] = NoIndex
  /\ inserting' = l
  /\ UNCHANGED <<netVars, is_timestamp_sync_, raw_packet_queue_, workerVars, map_index_, imuVars, poll>>

IndexInserted ==
  /\ inserting # NoLidar
  /\ map_index_' = [map_index_ EXCEPT ![inserting] = FreeIndex]
  /\ inserting' = NoLidar
  /\ UNCHANGED <<netVars, is_timestamp_sync_, raw_packet_queue_, workerVars,
                 imuVars, poll>>

-----------------------------------------------------------------------------
(* The worker: RawDataProcess *)

\* Fault: the extrinsics are those of before this packet.
SetLidarsExtParam_Late(l) ==
  IF l \in Configured /\ points_clouds_[l] # << >> THEN "configured" ELSE extrinsic_[l]

\* SetLidarsExtParam: the first one counts; a lidar that is not in the file
\* keeps the rotation it was built with, which is not the identity.
SetLidarsExtParam(l) == IF l \in Configured THEN "configured" ELSE extrinsic_[l]

\* PointCloudProcess: the packet's points, stamped and moved by the extrinsics
PointCloudProcess(pkt, ext) ==
  [i \in 1 .. DotNum |-> [time |-> pkt.time_stamp + i - 1, ext |-> ext]]

GetLidarBaseTime(cloud) == IF cloud = << >> THEN 0 ELSE Head(cloud).time
GetRecentTimeStamp(cloud) == IF cloud = << >> THEN 0 ELSE Last(cloud).time

\* frame_ after the first 0, 1, ... of the lidars: an entry for each that has points
Frames(lidars, clouds) ==
  LET upTo[n \in 0 .. Len(lidars)] ==
        IF n = 0 THEN << >>
        ELSE IF clouds[lidars[n]] = << >> THEN upTo[n - 1]
        ELSE Append(upTo[n - 1],
                    [handle |-> lidars[n], base_time |-> GetLidarBaseTime(clouds[lidars[n]]),
                     points |-> clouds[lidars[n]]])
  IN  upTo

\* Fault: any packet of the first millisecond ends the frame.
FrameEnds_Short(cloud) ==
  (GetRecentTimeStamp(cloud) \div Ms) % publish_interval_ms = 0

\* With synchronisation a frame ends with a packet in the first millisecond of
\* an interval, and has to be long enough; the difference is unsigned.
FrameEnds(cloud) ==
  LET recent == GetRecentTimeStamp(cloud) IN
  /\ (recent \div Ms) % publish_interval_ms = 0
  /\ recent \div Ms # 0
  /\ (recent - GetLidarBaseTime(cloud)) % Wrap >= publish_interval_tolerance_

\* Fault: the cloud that was published is kept.
SwapOut_Keep(lidars, clouds) == clouds

\* GetLidarPointClouds swaps the handler's cloud with an empty one.
SwapOut(lidars, clouds) ==
  [l \in Lidars |-> IF Contains(lidars, l) THEN << >> ELSE clouds[l]]

Publish(lidars, clouds) ==
  /\ frame_' = Frames(lidars, clouds)[Len(lidars)]
  /\ points_clouds_' = SwapOut(lidars, clouds)

Wait(clouds) == frame_' = << >> /\ points_clouds_' = clouds

CheckTimer(l, clouds) ==
  \/ /\ is_timestamp_sync_
     /\ IF FrameEnds(clouds[l]) THEN Publish(<<l>>, clouds) ELSE Wait(clouds)
     /\ UNCHANGED last_pub_time_
  \/ /\ ~is_timestamp_sync_
     /\ last_pub_time_ = NoTime
     /\ last_pub_time_' = Now
     /\ Wait(clouds)
  \/ /\ ~is_timestamp_sync_
     /\ last_pub_time_ # NoTime
     /\ Now - last_pub_time_ < publish_interval_
     /\ Wait(clouds)
     /\ UNCHANGED last_pub_time_
  \/ /\ ~is_timestamp_sync_
     /\ last_pub_time_ # NoTime
     /\ Now - last_pub_time_ >= publish_interval_
     /\ last_pub_time_' = last_pub_time_ + publish_interval_
     /\ Publish([i \in 1 .. NLidars |-> i - 1], clouds)

\* The oldest packet is taken, unpacked and the timer checked.
RawDataProcess ==
  /\ frame_ = << >>
  /\ raw_packet_queue_ # << >>
  /\ LET pkt == Head(raw_packet_queue_)
         ext == SetLidarsExtParam(pkt.handle)
     IN  /\ extrinsic_' = [extrinsic_ EXCEPT ![pkt.handle] = ext]
         /\ CheckTimer(pkt.handle,
              [points_clouds_ EXCEPT ![pkt.handle] = @ \o PointCloudProcess(pkt, ext)])
  /\ raw_packet_queue_' = Tail(raw_packet_queue_)
  /\ UNCHANGED <<netVars, is_timestamp_sync_, stored, indexVars,
                 imuVars, poll>>

\* StoragePointData, for the next lidar of the frame: its points go to the
\* queue of its place, or nowhere.
StoragePointData ==
  /\ frame_ # << >>
  /\ LET f == Head(frame_) IN
       \E i \in GetIndex(f.handle) :
         stored' = [stored EXCEPT ![f.handle] =
           @ \o [k \in 1 .. Len(f.points) |->
                   [time |-> f.points[k].time, ext |-> f.points[k].ext, place |-> i]]]
  /\ frame_' = Tail(frame_)
  /\ UNCHANGED <<netVars, is_timestamp_sync_, raw_packet_queue_, points_clouds_,
                 extrinsic_, last_pub_time_, indexVars, imuVars,
                 poll>>

-----------------------------------------------------------------------------
(* Lddc's IMU poll thread: DistributeImuData.  poll = NLidars: in Wait *)

ImuWait ==
  /\ poll = NLidars
  /\ imu_semaphore_ > 0
  /\ imu_semaphore_' = imu_semaphore_ - 1
  /\ poll' = 0
  /\ UNCHANGED <<netVars, is_timestamp_sync_, raw_packet_queue_, workerVars, indexVars, imu_data, imu_step, imu_lidar, imus>>

\* Fault: one sample of each lidar per wakeup.
PollingLidarImuData_Once ==
  /\ poll < NLidars
  /\ IF poll \in Sampling /\ imu_data[poll] > 0
       THEN imu_data' = [imu_data EXCEPT ![poll] = @ - 1]
       ELSE UNCHANGED imu_data
  /\ poll' = poll + 1
  /\ UNCHANGED <<netVars, is_timestamp_sync_, raw_packet_queue_, workerVars, indexVars, imu_semaphore_, imu_step, imu_lidar, imus>>

\* The loop over the lidars, and PollingLidarImuData of a sampling one:
\* publish a sample, or go on with the next lidar.
PollingLidarImuData ==
  /\ poll < NLidars
  /\ IF poll \in Sampling /\ imu_data[poll] > 0
       THEN imu_data' = [imu_data EXCEPT ![poll] = @ - 1] /\ UNCHANGED poll
       ELSE poll' = poll + 1 /\ UNCHANGED imu_data
  /\ UNCHANGED <<netVars, is_timestamp_sync_, raw_packet_queue_, workerVars, indexVars, imu_semaphore_, imu_step, imu_lidar, imus>>

Next ==
  \/ Tick \/ \E l \in Lidars : LosePacket(l) \/ Synchronise(l)
  \/ \E l \in Lidars : OnPointPacket(l) \/ OnImuPacket(l)
  \/ ImuIsEmpty \/ ImuGetCount \/ ImuSignal
  \/ IndexInserted \/ \E l \in Lidars : GetFreeIndex(l)
  \/ RawDataProcess \/ StoragePointData
  \/ ImuWait \/ PollingLidarImuData

Spec == Init /\ [][Next]_vars

-----------------------------------------------------------------------------
(* Properties *)

\* The first 0, 1, ... of some sequences as one
Joined(s) ==
  LET upTo[n \in 0 .. Len(s)] == IF n = 0 THEN << >> ELSE upTo[n - 1] \o s[n] IN upTo

\* The time stamps of a lidar's points: of a cloud, of a frame, of queued packets
Times(points) == [i \in 1 .. Len(points) |-> points[i].time]
Framed(f, l) ==
  Joined([i \in 1 .. Len(f) |-> IF f[i].handle = l THEN Times(f[i].points) ELSE << >>])[Len(f)]
Queued(q, l) ==
  Joined([i \in 1 .. Len(q) |->
            IF q[i].handle = l THEN [k \in 1 .. DotNum |-> q[i].time_stamp + k - 1]
            ELSE << >>])[Len(q)]

\* Every point a lidar delivered is in exactly one place, in the order it came:
\* stored, in the frame at hand, in its cloud, or in a packet still queued;
\* whichever timer ends the frames, and however the flag flips between lidars.
PointsAccounted ==
  \A l \in Lidars :
    received[l] = Times(stored[l]) \o Framed(frame_, l)
                    \o Times(points_clouds_[l]) \o Queued(raw_packet_queue_, l)

\* While every packet carries the time of the master clock, a frame is never
\* shorter than the interval less a millisecond, nor longer than two intervals,
\* except by the intervals whose first packets were all lost.
FrameSpan ==
  ~mixed =>
    \A i \in 1 .. Len(frame_) :
      LET f == frame_[i]
          span == Last(f.points).time - f.base_time
      IN  /\ f.base_time = Head(f.points).time
          /\ span >= publish_interval_tolerance_
          /\ span < (2 + lost) * publish_interval_

\* The points of a configured lidar are moved by its own extrinsics from the
\* first packet on, and points are stored only in the place of their lidar,
\* which no other lidar has.
StoredRight ==
  \A l \in Lidars : \A k \in 1 .. Len(stored[l]) :
    LET p == stored[l][k] IN
    /\ l \in Configured <=> p.ext = "configured"
    /\ p.place # NoIndex => \A m \in Lidars : p.place = map_index_[m] <=> m = l

\* No wakeup of the IMU thread is lost: when it waits and the SDK's thread is
\* between two packets, no sampling lidar has samples left.
ImuNotStranded ==
  poll = NLidars /\ imu_semaphore_ = 0 /\ imu_step = "idle" =>
    \A l \in Sampling : imu_data[l] = 0
=============================================================================
