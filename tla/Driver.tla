------------------------------- MODULE Driver -------------------------------
(***************************************************************************)
(* The Livox driver as one program: it starts (DriverNode, LdsLidar and    *)
(* the parsers of the configuration file), sets its lidars up              *)
(* (LidarConfig), takes their frames and IMU samples from the publish      *)
(* handler (Lds) and publishes them (Lddc, as built for ROS 2).            *)
(*                                                                         *)
(* The SDK's threads, the worker of the publish handler and the two poll   *)
(* threads run beside each other from the step that starts each of them.   *)
(* The point queue is the abstract one that LdsPointQueue implements; a    *)
(* frame is what PubHandler's FrameSpan leaves of it: a base time and a    *)
(* last point as late as two publish intervals allow.  Times are milliseconds,  *)
(* and 2^32 nanoseconds are Wrap of them; frequencies are tenths of Hz.    *)
(* Positions, the ROS publisher's own queue and the log are left out.      *)
(***************************************************************************)
EXTENDS LidarConfig, Sequences, SequencesExt, FiniteSetsExt

CONSTANTS Settings,    \* launch parameters, with what the machine provides
          File,        \* entries of lidar_configs, as the file orders them
          Octet,       \* the lowest byte of a handle: an address's first octet
          MaxFrames,   \* bound: frames of the publish handler
          MaxSamples   \* bound: IMU samples

Wrap == 4294

kOutputToRos == 0
kPointCloud2Msg == 0
kLivoxCustomMsg == 1
kLivoxImuMsg == 3

\* LivoxLidarConfigParser: an entry without an address is passed over, and
\* all of them are when the file has no usable array.
UserConfigs == SelectSeq(File, LAMBDA entry : entry.ip # NoLidar)

ASSUME FileAssumption ==
  /\ File \in Seq([ip : Lidars \cup {NoLidar}, options : SUBSET Options])
  /\ Defined = {entry.ip : entry \in Range(UserConfigs)}
  /\ Cardinality(Lidars) <= 32
ASSUME SettingsAssumption == \A s \in Settings : s.publish_freq \in Int
ASSUME BoundsAssumption == MaxFrames \in Nat /\ MaxSamples \in Nat

Kinds == {"pcd", "imu"}
Data == Lidars \X Kinds

VARIABLES
  settings,    \* the parameters of this start
  stage,       \* how far the node has come
  handle,      \* LidarDevice::handle of each lidar's device
  user_config, \* number of the entry that each device's options and extrinsics are of
  queue,       \* lidars_[index].data and lidars_[index].imu_data
  frames,      \* frames of the publish handler so far
  samples,     \* and IMU samples
  stored,      \* history: what entered each queue
  published    \* history: the messages that left it

driver == <<settings, stage, handle, user_config>>
stream == <<queue, frames, samples, stored, published>>
driverVars == <<vars, driver, stream>>

\* The constructor of the node holds the frequency between 0.5 and 100 Hz.
\* Fault: the frequency is taken as it is given.
Clamped_AsGiven(freq) == freq

Clamped(freq) == IF freq > 1000 THEN 1000 ELSE IF freq < 5 THEN 5 ELSE freq

publish_freq == Clamped(settings.publish_freq)

\* SetPointCloudConfig
Interval == 10000 \div publish_freq

\* InitQueue makes the size of a queue a power of two (sizes here stay far below 2^30).
RoundupPowerOf2(size) == Min({n \in {2^k : k \in 0 .. 30} : n >= size})

\* CalculatePacketQueueSize
PacketQueueSize ==
  RoundupPowerOf2(IF publish_freq > 100 THEN publish_freq \div 10 + 1 ELSE 10)

DriverInit ==
  /\ Quiet /\ known = {}
  /\ settings \in Settings
  /\ stage = "off"
  /\ handle = [h \in Lidars |-> NoLidar]
  /\ user_config = [h \in Lidars |-> 0]
  /\ queue = [d \in Data |-> <<>>]
  /\ frames = 0 /\ samples = 0
  /\ stored = [d \in Data |-> <<>>]
  /\ published = [d \in Data |-> <<>>]

-----------------------------------------------------------------------------
(* DriverNode *)

\* Lddc gets its Lds, the first and only one.
RegisterLds == stage = "off" /\ stage' = "initialising"

\* Without a source there is no Lds, and the poll threads only complain.
DriverNode ==
  /\ IF settings.raw_lidar THEN RegisterLds ELSE stage = "off" /\ stage' = "no source"
  /\ UNCHANGED <<vars, settings, handle, user_config, stream>>

\* ParseSummaryInfo or LivoxLidarSdkInit fails: the node lives on without data.
InitFails ==
  /\ stage = "initialising"
  /\ ~settings.summary \/ (settings.livox_type /\ ~settings.sdk)
  /\ stage' = "failed"
  /\ UNCHANGED <<vars, settings, handle, user_config, stream>>

\* Two entries with one address get one index, and the later one stays.
InitLivoxLidar ==
  /\ stage = "initialising" /\ settings.summary /\ settings.livox_type /\ settings.sdk
  /\ known' = Defined
  /\ handle' = [h \in Lidars |-> IF h \in Defined THEN h ELSE handle[h]]
  /\ user_config' = [h \in Lidars |->
       Max({0} \cup {i \in DOMAIN UserConfigs : UserConfigs[i].ip = h})]
  /\ stage' = "callbacks"
  /\ UNCHANGED <<config, notified, history, settings, stream>>

\* A summary that names no Livox lidar is no failure.
SkipLivoxLidar ==
  /\ stage = "initialising" /\ settings.summary /\ ~settings.livox_type
  /\ stage' = "callbacks"
  /\ UNCHANGED <<vars, settings, handle, user_config, stream>>

\* The publish handler may call, and the poll threads are made.
SetLidarPubHandle ==
  /\ stage = "callbacks"
  /\ stage' = "running"
  /\ UNCHANGED <<vars, settings, handle, user_config, stream>>

\* ~DriverNode asks the Lds to exit, whether or not there is one.
RequestExit ==
  /\ stage \in {"no source", "failed", "running"}
  /\ stage' = IF stage = "no source" THEN "crashed" ELSE "exiting"
  /\ UNCHANGED <<vars, settings, handle, user_config, stream>>

\* LivoxLidarSdkUninit: no more calls of the SDK
DeInitLdsLidar == stage' = "ended"

\* ~Lddc, once the poll threads have been joined
PrepareExit ==
  /\ stage = "exiting"
  /\ DeInitLdsLidar
  /\ UNCHANGED <<vars, settings, handle, user_config, stream>>

DeInitQueue == << >>
Clear == << >>

\* What the program still holds as it ends: ~Lds, after main, empties the queues
\* of every lidar and takes it for disconnected.
ResetLds ==
  /\ stage = "ended"
  /\ stage' = "reset"
  /\ queue' = [d \in Data |-> IF d[2] = "pcd" THEN DeInitQueue ELSE Clear]
  /\ sampling' = {}
  /\ UNCHANGED <<known, mutex, todo, set_bits, pending, notified, history, settings, handle,
                 user_config, frames, samples, stored, published>>

\* The SDK, once it has been started, calls the driver from InitLivoxLidar to
\* LivoxLidarSdkUninit; the worker of the publish handler calls it from
\* SetLidarPubHandle on.
SdkCalls ==
  /\ settings.summary /\ settings.livox_type /\ settings.sdk
  /\ stage \in {"callbacks", "running", "exiting"}
Arrives == SdkCalls /\ stage # "callbacks"

InDriver(A) == SdkCalls /\ A /\ UNCHANGED <<driver, stream>>

-----------------------------------------------------------------------------
(* Lds: the frames and the samples enter the queues *)

\* A lidar without an index is passed over, and a packet that finds its queue
\* full is dropped.
Accepts(d) == d[1] \in known /\ Len(queue[d]) < PacketQueueSize

Push(items) ==
  LET In(q) == [d \in Data |->
        IF d \in DOMAIN items /\ Accepts(d) THEN Append(q[d], items[d]) ELSE q[d]]
  IN  queue' = In(queue) /\ stored' = In(stored)

\* One frame has a packet of each lidar that was heard in it.
StoragePointData ==
  /\ Arrives /\ frames < MaxFrames
  /\ frames' = frames + 1
  /\ \E heard \in SUBSET Lidars \ {{}} :
       Push([d \in heard \X {"pcd"} |->
               LET base_time == frames * Interval
               IN  <<base_time, base_time + 2 * Interval - 1>>])
  /\ UNCHANGED <<vars, driver, samples, published>>

\* The list of samples has no bound.
PushImu(d, sample) ==
  LET In(q) == [q EXCEPT ![d] = Append(@, sample)]
  IN  queue' = In(queue) /\ stored' = In(stored)

StorageImuData(h) ==
  /\ Arrives /\ samples < MaxSamples
  /\ samples' = samples + 1
  /\ IF h \in known THEN PushImu(<<h, "imu">>, <<samples>>) ELSE UNCHANGED <<queue, stored>>
  /\ UNCHANGED <<vars, driver, frames, published>>

-----------------------------------------------------------------------------
(* Lddc: the poll threads empty the queues *)

\* GetCurrentPublisher and GetCurrentImuPublisher name the topic by the
\* handle that the device has, and make its publisher once, for one type.
Topic(d) == <<d[2], IF settings.multi_topic THEN handle[d[1]] ELSE "all">>

\* The types it makes a publisher of; of another one it would be null.
CreatePublisher(msg_type) == msg_type \in {kPointCloud2Msg, kLivoxCustomMsg, kLivoxImuMsg}

\* A CustomMsg holds the times of its points as 32-bit nanoseconds from its
\* time base.
FillPointsToCustomMsg(times) == [i \in DOMAIN times |-> (times[i] - times[1]) % Wrap]

\* Its lidar_id has 8 bits, which are the same for all lidars of a network.
InitCustomMsg(d, times) ==
  [type |-> kLivoxCustomMsg, topic |-> Topic(d), stamp |-> times[1],
   lidar_id |-> IF handle[d[1]] = NoLidar THEN 0 ELSE Octet,
   times |-> FillPointsToCustomMsg(times)]

\* A PointCloud2 holds them as they are, and no lidar_id.
InitPointcloud2Msg(d, times) ==
  [type |-> kPointCloud2Msg, topic |-> Topic(d), stamp |-> times[1], times |-> times]

InitImuMsg(d, times) ==
  [type |-> kLivoxImuMsg, topic |-> Topic(d), stamp |-> times[1], times |-> times]

Message(d, times) ==
  IF d[2] = "imu" THEN InitImuMsg(d, times)
  ELSE IF settings.xfer_format = kLivoxCustomMsg THEN InitCustomMsg(d, times)
  ELSE InitPointcloud2Msg(d, times)

\* A poll thread looks at the queues of every lidar that samples.
Polled(d) == stage = "running" /\ d[1] \in sampling /\ queue[d] # <<>>

\* PublishPclMsg: the PCL format is not supported in ROS 2.  The queue stays as it
\* is, and the thread in its loop; for any other format there is no branch.
Unsupported(d) == d[2] = "pcd" /\ settings.xfer_format \notin {kPointCloud2Msg, kLivoxCustomMsg}

\* QueuePopUpdate of the point queue, Pop of the IMU queue
Popped(d) == queue' = [queue EXCEPT ![d] = Tail(@)]

\* Any other output than ROS takes the data from the queue and drops it.
Publish(d) ==
  /\ Polled(d) /\ ~Unsupported(d)
  /\ Popped(d)
  /\ LET message == Message(d, Head(queue[d])) IN
       published' = IF settings.output_type = kOutputToRos /\ CreatePublisher(message.type)
                      THEN [published EXCEPT ![d] = Append(@, message)]
                      ELSE published
  /\ UNCHANGED <<vars, driver, frames, samples, stored>>

-----------------------------------------------------------------------------

DriverNext ==
  \/ DriverNode \/ InitFails \/ InitLivoxLidar \/ SkipLivoxLidar \/ SetLidarPubHandle
  \/ RequestExit \/ PrepareExit \/ ResetLds
  \/ InDriver(Next)
  \/ StoragePointData \/ \E h \in Lidars : StorageImuData(h)
  \/ \E d \in Data : Publish(d)

DriverSpec == DriverInit /\ [][DriverNext]_driverVars

\* LidarConfig's fairness, for as long as the SDK is there.
DriverFairSpec ==
  /\ DriverSpec
  /\ \A s \in Options : WF_driverVars(InDriver(SetOption(s)))
  /\ WF_driverVars(InDriver(Unlock))
  /\ \A h \in Lidars, s \in Options : SF_driverVars(InDriver(Answer(h, s)))

-----------------------------------------------------------------------------
(* Properties *)

\* What a subscriber computes from a message.
Decoded(d, message) ==
  IF d[2] = "pcd" /\ settings.xfer_format = kLivoxCustomMsg
    THEN [i \in DOMAIN message.times |-> message.stamp + message.times[i]]
    ELSE message.times

\* Whatever frequency, format and topics the launch file asks for, the times
\* in the messages of a lidar are those of the packets and samples that were
\* stored for it, in order, with none lost, repeated or changed by the 32 bits
\* of a CustomMsg; the rest are still queued, until the program drops them as it ends.
TimesRestored ==
  settings.output_type = kOutputToRos /\ stage # "reset" =>
    \A d \in Data :
      [i \in DOMAIN published[d] |-> Decoded(d, published[d][i])] \o queue[d] = stored[d]

\* A defined lidar that was notified and is given at least one option samples
\* in the end, unless a request failed or the node was stopped.
SetUpEnds ==
  \A h \in Defined :
    (notified[h] > 0 /\ Given # {}) ~> (h \in sampling \/ failed[h] # {} \/ stage \in {"ended", "reset"})

\* "One LiDAR one topic" (multi_topic in msg_MID360_launch.py): with that
\* setting no two lidars publish on the same topic.
OneLidarOneTopic ==
  settings.multi_topic =>
    \A d, e \in Data :
      d # e => {m.topic : m \in Range(published[d])} \cap {m.topic : m \in Range(published[e])} = {}
=============================================================================
