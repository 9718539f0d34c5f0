# uppc: TLA+ models, checks and proofs

`uppc` is the upper computer of a ROBOCON robot ("R2"): ROS 2 nodes that read a
Livox lidar and a camera, localise the robot (FAST-LIVO2), talk to the lower
controller (an STM32, "MCU") over a serial line and run the match. This
directory holds TLA+ models of the parts in which order, concurrency, failure
and bookkeeping decide whether the program is right, the TLC runs that check
them on small instances, and TLAPS proofs of safety properties for every
instance.

Paths below are relative to `src/ws/src/` unless they start with `src/`.

To check: `tlc -config <run>.cfg <Module>` for a run (the table of section 3
names both), `tlapm <Module>_proofs.tla` for proofs. `PROJECT.json` gives for
every definition the lines of source that it models, the hazards of the code
with the properties about them, and the mutants.

## 1. The system

```
  Livox SDK threads --packets--> PubHandler --frames--> ring per lidar --> poll thread --+
       |                         (worker)               + semaphore                       | CustomMsg,
       |                            +------ samples --> IMU list ------> IMU poll thread -+ PointCloud2, Imu
       +-- LidarInfoChange / Set...Callback --> connect_state                             v
                                                             FAST-LIVO node (one run loop)
                                          preprocess -> buffers -> sync_packages -> IMU processing
                                                                 -> voxel map / visual map
                                                                   | odometry
  MCU <==== serial line ====> serial_bridge (executor + receive thread) <+
                                   | /r2/lower_state, /r2/zone_i_info, ...
                                   v
                               r2_main (timer, phase machine) -- forest_planner
  r2_restart_loop.sh (systemd) starts the launch and starts it again
```

| Component | State | Operations | Hard behaviour | What makes it correct | Module |
|---|---|---|---|---|---|
| Livox point queue: `comm/ldq.cpp`, `comm/semaphore.cpp`, `lds.cpp` | a ring per lidar, `rd_idx`, `wr_idx`; one semaphore | push, pop, signal, wait | two threads without a lock; counters that wrap; a full queue; a test of the semaphore that is overtaken | drop-newest FIFO; no slot used by both threads; at most one packet asleep | `LdsPointQueue` |
| Livox distribution: `lddc.cpp`, `driver_node.cpp` | launch settings, publishers, exit flag, two poll threads | start, poll, publish in three formats, end | starts that fail; 32-bit times; shutdown against a waiting thread | times survive the formats; everything queued is published; shutdown ends | `Driver` |
| Livox publish handler: `comm/pub_handler.cpp` | `raw_packet_queue_`, points and timers per lidar | SDK callback, worker | threads; one sync flag for all lidars; lost packets | each point in exactly one frame, in order; length of frames | `PubHandler` |
| Livox device set-up: `call_back/`, `comm/cache_index.cpp`, `lds_lidar.cpp` | index table, `set_bits`, `connect_state` | notification, answers | answers in other threads; time-outs, failures, second notification | a lidar samples only when configured; a configured one ends up sampling | `LidarConfig`, `Driver`, `PubHandler` |
| Livox IMU queue: `comm/lidar_imu_data_queue.cpp` | a list under a mutex, a semaphore | push, pop | a test of the semaphore that is overtaken; no bound | no sample left asleep | `PubHandler` |
| Serial bridge: `r2_controller/scripts/serial_bridge.py` | port, flags, origin of the odometry, `rx_buffer`, `downlink_queue` | odometry callback, three timers, receive thread | threads share attributes without a lock; unplug, replug, MCU reset; death of a thread | flag and port agree; poses relative to the origin in force; recovery | `SerialBridge` |
| Wire protocol: `r2_protocol.py`, `serial_bridge.py`, `remote_control.c` | `rx_buf`, `rx_sync`, `rx_buffer` | pack, feed a byte, parse | changed and lost bytes; synchronisation bytes in a payload | messages whole and in order; resynchronisation | `Link` |
| Main state machine: `r2_main.py` | phase, last state of the MCU | timer, subscriptions | states coalesce between ticks; bounded topic; restart forgets | never ahead of the robot; reaches the dock | `R2Main` |
| Forest planner: `forest_planner.py` | none | `shortest_path`, `plan_route` | blocks without a path; ties | the route is a path past all targets | `ForestPlanner` |
| Restart loop: `src/r2_restart_loop.sh`, `src/r2_ros2.service` | exit codes | start, wait, restart | `set -e`, traps, `Restart=on-failure` | the nodes are always started again | the restart is an action of `R2Main` |
| FAST-LIVO buffers: `fast_livo/src/LIVMapper.cpp` | scan, header-time, IMU and image buffers; the scan in hand; propagation state; clouds that wait | callbacks, `sync_packages`, LIO and VIO updates, timer, publishing, saving | late, missing, jumping data; cuts of scans by images; stalls | paired, complete, each point once, each state at its time | `LivMapper`, `LivoMapper` |
| FAST-LIVO IMU processing: `IMU_Processing.cpp` | last update, poses of the propagation | `IMU_init`, `UndistortPcl`, propagation without IMU | steps clipped at both ends; samples on a boundary | propagation from the last update to this one; each point moved once | `LivMapper`, `LivoMapper` |
| FAST-LIVO preprocessing: `preprocess.cpp` | points per line | handlers of six lidars, `give_feature` | gaps; missing times; runs of plane points | usable times; a point in one feature | `Preprocess` |
| FAST-LIVO voxel map: `voxel_map.cpp` | hash of octrees, point and refit counters | build, match, update, slide | cutting and freezing; rounding of negative keys | planes account for their points; insertion and matching agree | `VoxelMap` |
| FAST-LIVO visual odometry: `vio.cpp`, `visual_point.cpp` | map of points with patches, references; grid; filter caches | retrieve, update, generate, rescore | pointers to deleted patches; two key formulas; caches | a reference exists; no duplicate point; gain of the accepted state; pixels in the image | `VisualMap` |
| rapidjson, rpg_vikit | | | third-party | | |
| Camera nodes, dashboards, plotters, launch files | per-frame data | | display, or results that no modelled component reads | | |

How they interact: within the driver, the FAST-LIVO node and the bridge by
calls and shared memory, between nodes by topics. The FAST-LIVO node subscribes
to what the poll threads publish, `serial_bridge` to its odometry, `r2_main` to
the topics that `serial_bridge` makes of the MCU's frames. `kfs_detector`
publishes `/r2/kfs_result`, while `serial_bridge` listens to `/r2/kfs_detect` and
reads what it stores nowhere. The alternative copies `LIVMapper odin.cpp`,
`LIVMapper mid360.cpp`, `voxel_map odin.cpp` ... are not compiled.

## 2. Modules

```
  DropNewestQueue <--implements-- LdsPointQueue          LidarConfig <--extends-- Driver
                                       ^------- its abstract queue is used by ------+
  ForestPlanner <--extends-- R2Main
  Selections <--extends-- Preprocess, LivoMapper
  PubHandler   SerialBridge   Link   LivMapper   VoxelMap   VisualMap
```

An `MC...` module gives the constants that a cfg cannot write. A `..._proofs`
module extends its namesake with theorems; `Driver_proofs` also has those of
`LidarConfig`, `Controller_proofs` those of `SerialBridge`, `Link`, `R2Main` and `ForestPlanner`,
`Livo_proofs` those of `Preprocess` and `LivoMapper`. The other modules' constants are
in the cfg files. `Selections` is what loops pick from a sequence, as recursive functions,
of which more can be proved than of operators that take a predicate.

Operators `X_Word` under a comment "Fault: ..." are deliberate mistakes in the
definition `X`: with one of them for `X`, TLC finds the property violated that
`PROJECT.json` pairs with it, which shows that the property says something.

### LdsPointQueue

One step per access to shared memory: `QueueIsFull`, `QueuePushSlot` (the copy
into the slot), `QueuePushBump` (the store to `wr_idx`), `QueueIsEmpty`,
`GetCount`, `Signal` for the writer; `Wait`, `ScanLidar`,
`PollingLidarPointCloudData`, `PublishPointcloud`, `QueuePrePop`,
`QueuePopUpdate` for the reader. The first packet of a lidar allocates its ring
in two steps (`InitQueueAlloc`, `InitQueueMask`). `StartSampling` is the moment a
lidar's configuration completes. The destructor is `RequestExit`,
`SetExitSignal`, `JoinPollThread`.

With `StoreBuffer = TRUE` the store to `wr_idx` may stay in a store buffer while
the writer goes on. `wr_idx` is `volatile`, not atomic, so C++ promises nothing
(two threads on it are a data race); what x86 builds produce is a later load
overtaking the store. Then a wake-up **can** be lost: the reader reads the old
`wr_idx`, while the writer's load of the semaphore's count has seen it still
positive. What holds is `AtMostOneStranded`: at most the last packet pushed
stays behind, and the next one delivers it. With `StoreBuffer = FALSE` none is
lost.

### LidarConfig and Driver

The option callbacks differ only in the bit, so each is `Succeeds`, `TimesOut`
or `Fails` of an option. `Lock`, `SetOption` and `Unlock` are the section of
`LidarInfoChangeCallback` under `config_mutex_`, one step per option, because
answers can come in another thread once the first request is out; `Succeeds`
needs the mutex. A time-out sends the request again, so the number of requests
stays the same, but the lidar may have carried the first one out. Requests for work
mode, attitude and IMU change no state of the driver and are left out. An
answer of one request is delivered at most once.

`Driver` extends this with everything around it: the launch parameters, the
start (`InitLdsLidar`, whose failures leave a node without data, and
`data_src`, whose other values lead to a null dereference in the destructor:
stage "crashed"), the entries of the configuration file in their order up to the
first faulty one, the index table, the size of the queues from `publish_freq`,
the three message formats with the arithmetic of their times, topics, and the
end. Its point queue is the abstract one. A frame is a base time and a last
point as late as `PubHandler` can make it.

### PubHandler

The SDK's data thread queues a packet (`OnLivoxLidarPointCloudCallback`), the
worker swaps the queue out, decodes, ends frames by either of its two timers
(master clock or not, by the one static `is_timestamp_sync_`), and stores them.
`GetFreeIndex` runs in the SDK's command thread too, in two critical sections,
and `GetIndex` reads without a lock. A point is its time and the extrinsics
applied to it; a frame (`Frames`) takes the points of a lidar's cloud as they are. The
IMU's list, its semaphore and the IMU poll thread are at the
granularity of their accesses. `Sampling` and `ImuHorizon` say which lidars
sample and how long they send IMU samples.

### SerialBridge

Two threads: the executor (`odom_cb`, `send_odom`, `_check_reset`,
`_retry_serial`, `destroy`) and `_rx_loop`. A step is what runs between two
accesses to a shared attribute; CPython's lock makes one access atomic, never
two. `ser` is "open", "stale" (the device is gone, the object is open), "closed"
or "none". The receive thread dies, as in the code, when `ser` becomes `None`
between its test and its use, or at a frame with a short payload or an unknown
state: only `OSError` and `SerialException` are caught. `_odom_offset` is one
coordinate; the age of the last frame is never, recent or stale.
`reset_detected` is never set, since no line calls `_mark_reset_detected`.

### Link

Both directions of the serial line, byte by byte: the packers of every message,
`rc_feed_byte` with the handlers behind it, `_parse_rx` over reads of any
length with `_handle_downlink` (`handle_downlink`). The line changes or loses bytes (`flips`,
`losses`). Bytes have three bits and sizes are scaled; the order of the sizes is the
code's (`rc_path_t` and `rc_kfs_t` hold more than a frame of
`RC_FRAME_MAX_PAYLOAD`, `rc_zone_i_path_t` less than one, so a path of zone I may
be cut). The checksum is made of steps `XorOf`, of which it is known
that they are one-to-one; the run has xor. Every frame has its number as a history variable, by
which the properties compare what is understood with what was sent.

### R2Main and ForestPlanner

The MCU plays a mission (external): move, arrive, grab, done, then the requests
and R1's layout. `patient` says whether it waits for R2Main's reaction. A
status goes through `_handle_downlink` to a topic of depth `Depth`, which drops
its oldest message when full, to `lower_state_cb`; the 50 ms timer runs
`state_machine_loop`. `Restart` starts the nodes afresh at any time, which
forgets the phase and the messages under way. `downlink_queue` is filled and
never emptied, as in the code.

`ForestPlanner` has the grid, `shortest_path` and `plan_route`. Which of several
equally near blocks is next is the order of a Python set, so there is a set of routes:
`Routes` is a recursive function of the targets left and the block R2 is at.

### LivMapper and LivoMapper

The node runs one thread, so a callback, or a `sync_packages` with the
processing it leads to, is one step.

`LivMapper` is the robot's mode, ONLY_LIO, with all the ways its inputs can be
odd: scans of no, one or many points, samples that jump, come late or are
sparse, and, with `LoopBack`, a lidar clock that goes back. `UndistortPcl` is
what it integrates: the list of time steps `Dt`.

`LivoMapper` has all three modes with regular clocks, and the rest of the path:
images that cut scans, LIO and VIO updates in turn, the undistortion (which pose
moves which point), the timer's propagation at the rate of the IMU, publishing
and saving. A state of the filter is the time it has been propagated to, a point
in the world the time of the state that placed it there.

### Preprocess

Each handler maps a scan to points with curvatures, in one step. A
point is its line, its true time, and what the geometry decides about it. What a
handler keeps is a set of positions, read in their order (`Kept`); where `std::sort` may
leave equal times in any order, the handler is a set of sequences. Assumed of the scans
is only that a Livox scan is in time order.
`give_feature` is the loop over plane runs, jumps and edges, with the decisions of
`plane_judge` and `edge_jump_judge` chosen freely.

### VoxelMap

`BuildVoxelMap`, `StateEstimation` (matching and the loop of the filter),
`UpdateVoxelMap`, `mapSliding`. Space is one line, so a node has two leaves;
keys round negative coordinates as each function does. A node keeps its points
as a vector, with the two counters beside it that the code tests. Whether a fit
finds a plane is free, so every shape of tree occurs.

### VisualMap

`processFrame` in its order: retrieve (grid, ray casting), the loop of the
filter, generate, update, rescore references. An image is a row of pixels, a view
says where each site falls in it; patch errors and scores are free. A patch is a
number, freed numbers are used again, so a dangling reference is one to a number
that is not, or no longer, the point's own.

## 3. Runs

| Run | Module | Question | Properties |
|---|---|---|---|
| `points` | `MCLdsPointQueue` | Is the lock-free queue a drop-newest FIFO, and what of the wake-ups, when stores linger? | NoSlotRace, QueueInv, AtMostOneStranded, ImplementsDropNewest, Delivered, ShutdownEnds |
| `driver` | `MCDriver` | From start to end: does a lidar sample only, and in the end, when configured, and are the times right? | SamplesConfigured, BitsOutstanding, TimesRestored, SetUpEnds |
| `driver_topics` (violation) | `MCDriver` | Has each lidar its own topic? | OneLidarOneTopic |
| `pub_frames` | `PubHandler` | Where is each point, how long is a frame, is an IMU sample left asleep? | PointsAccounted, FrameSpan, StoredRight, ImuNotStranded |
| `serial_bridge` | `SerialBridge` | Do flag, port and origin agree; does the bridge recover? | PortKnown, PoseRelative, Recovers |
| `link` | `MCLink` | What arrives of a stream that is damaged, and when are the parsers back in step? | FramesInOrder, Resynchronises |
| `main_match` | `R2Main` | Is R2Main never ahead, does it reach the dock, are the routes right? | NeverAhead, RoutesCollect, ReachesDock |
| `mapper_sync` | `LivMapper` | Are scans paired, completely propagated, and all processed? | HeadersMatch, CompletePropagation, PropagatesToEnd, ScanProcessed |
| `livo` | `MCLivoMapper` | Is each point cut, moved, placed and published once, in all modes? | CutOnce, MovedOnce, StatesAtTheirTimes, PublishedOnce |
| `preprocess` | `MCPreprocess` | What do the handlers do to times and features? | TimesUsable, YawTimesRight, OneFeatureEach |
| `voxel_map` | `MCVoxelMap` | Do counters, planes, keys and sliding agree? | PlaneAccountsForPoints, OwnPlaneMatched, NearVoxelsKept |
| `vio` | `MCVisualMap` | Do references, keys, caches and borders agree? | RefPatchIsObservation, ScannedIsRetrieved, GainOfAcceptedState, PatchesInImage |

Bounds, and why they are enough:

- `points`: 2 lidars, one of which starts sampling late, so that one is visited
  by the scan while the other is pushed to; rings of 2, counters modulo 4, 4 and
  2 packets offered: the first ring is full, empty and wrapped. Other sizes are
  covered by the proofs.
- `driver`: 2 lidars, one defined twice in the file (the second entry counts),
  one undefined; 2 options, 2 notifications each, so requests for one bit
  overlap; 6 launch settings with the slowest frequency (0.1 Hz), another format
  and the bag, and each way a start fails; 1 frame and 1 sample per lidar (the
  order of several is the queue's, in `points`).
- `pub_frames`: 2 lidars, one configured, both finding the master clock at any time; 2
  points per packet, intervals of 2 ms, offset 5 between the clocks, a frame of two
  packets or more, one lost packet; a worker that lags by 2 packets; 2 IMU samples.
- `serial_bridge`: positions 0, 1, 3, whose differences are distinct; no bound
  on the number of losses, resets and frames.
- `link`: 3 frames of any messages, with payloads full of synchronisation bytes,
  and a changed byte; messages that do not fit, are cut, or seem to begin a frame in
  the middle; then 5 frames up or 14 down of a harmless message with a
  byte changed or lost anywhere, which is more than the longest frame a parser may
  wait for.
- `main_match`: a topic of depth 2, less than the mission's length, so messages
  drop; queue up to 11; up to 3 blocks of the 12 to collect.
- `mapper_sync`: 5 instants, scans up to 2 long, IMU steps up to 3 against a
  jump of 2: two or three scans, samples on and between their ends.
- `livo`: 9 instants, scans of 3 with no, one or two points, an image every 2 or later,
  any interleaving up to a lag of 4: the initialisation and several updates of each
  kind, scans that one image cuts and scans that end before the next. With a lag of
  less than 4 no image would come so late that it is thrown away.
- `preprocess`: six lidars, scans up to 4 points with gaps below, at and above
  1 ms (3 steps); for features a line of 8 with groups of 2 and up to 3 flat points.
- `voxel_map`: two positions on the negative side, in one voxel and in different
  leaves, poses on both sides of the origin up to two voxels apart and off the borders
  of voxels, 3 layers, at most 4 points in a voxel, no bound on scans.
- `vio`: 3 sites on both sides of the origin, 2 views with every search level
  between them, 2 pyramid levels, 3 patches per point, 2 map points, no bound on frames.

`CHECK_DEADLOCK FALSE` where the system or the bounded input ends: `points`,
`driver` and `driver_topics` (shutdown), `pub_frames`, `link`, `livo`, `mapper_sync`
(time or frames used up), `preprocess` (one scan). The others check deadlock.

### Fairness

- `points`: weak fairness of each thread's steps, of the store buffer, of
  the destructor once it has begun. The threads loop without a condition; the
  operating system runs them.
- `driver`: a callback that has started finishes; strong fairness of an answer other than
  a time-out. The latter is an assumption on the lidar, not on the code: a
  lidar that times out for ever never samples.
- `serial_bridge`: strong fairness of each callback (the executor serves what is
  ready, timers are periodic), weak fairness of the receive thread and of the
  clock. Nothing is assumed of the device: `Recovers` starts from its staying plugged in.
- `main_match`: weak fairness of the timer, the callback and the MCU's next step.
  Nothing makes `Restart` happen or not.
- `mapper_sync`: the run loop turns; the IMU goes on sending.

### What the runs show that a reader may not expect

- `driver_topics`: the first notification of a lidar that is not in the file
  gives it an index and a type but no handle; topics are named by the handle, so all
  such lidars publish on `livox/lidar_0_0_0_0`, against "One LiDAR one topic".
  The second notification takes the entry for a user's and configures the lidar
  with the zeros of a static object.
- `ShutdownEnds` has an exception, because it is real: the destructor joins a
  thread that may be in `Wait`, and only a packet wakes it.
- `ScanProcessed` has two, named in `Stalled`: a scan with one point is never
  taken from the head of the buffer (`LIVMapper.cpp:975`), and after a gap of
  more than 0.2 s every IMU sample is rejected, since the reference stamp does not
  move. In both cases the mapper stops for good.
- `LivMapper` with `LoopBack = TRUE` violates `HeadersMatch` and
  `CompletePropagation`: the callback clears the scans but not their header
  times (`LIVMapper.cpp:825`).
- `MovedOnce` starts with the second update, holds with images, and exempts
  the first point of a cloud. During initialisation `last_lio_update_time` does
  not move (`IMU_Processing.cpp:571` is commented out), so the first update is
  distorted. In ONLY_LIO the curvatures count from the scan's begin but the poses from
  the end of the last update, so points are moved from a pose too early by the
  gap between the scans. The loop over the poses leaves only its inner
  loop, so a first point may be moved several times (`IMU_Processing.cpp:545`).
  And the last pose is not one to be moved from: when a scan outlasts two images, all
  its points after the first of them belong to the second's update, and those after
  its end are moved from the pose before the end, like the last ones before it.
- Between two images with fewer than two samples nothing is integrated
  (`starved` in `LivoMapper`).
- `PublishedOnce` exempts maps written at an interval: the clouds after the last
  interval are not saved when the node stops.
- `TimesUsable` needs gaps below 1 ms for true times: the handler replaces the
  time after a longer gap by a guess that is too early (`preprocess.cpp:182`).
- `YawTimesRight` needs a scan shorter than two revolutions, besides a line that is seen
  once in each: the handler adds one revolution, once, to an angle smaller than the one
  before (`preprocess.cpp:417`).
- `ScannedIsRetrieved` leaves out sites with a negative coordinate, which are looked up
  one voxel too low (`vio.cpp:397`); `PatchesInImage` leaves out search level 2
  at the coarsest level, which is read outside the border (`vio.cpp:1565`), and the pose
  is not tested again as the state moves.
- `FramesInOrder` is about one changed byte at most: a checksum of one byte
  overlooks two changes that cancel out. Payloads may hold the synchronisation bytes,
  but not those of a message that does not fit, in the rest of which the MCU looks for
  the next frame (`FalseStart`; `remote_control.c:178`).
- `Resynchronises` measures the damage: a changed length makes the bridge wait
  for up to 65541 bytes, frames included, where the MCU refuses at 64. A path of 8
  points or more is discarded by the MCU although `rc_path_t` holds 16.
- `ReachesDock` ends at the dock because the program does: WAIT_DOCK is a bare
  `pass` (`r2_main.py:93`), so the planner is never reached there and
  `RoutesCollect` is about what would be planned.

Other disagreements met while modelling, which the models contain as the code
has them:

- The heartbeat of `serial_bridge.py` zeroes the odometry every 0.5 s during one
  silence (`:139`), against the comments "只触发一次" (`:54`, `:172`, `:177`).
- A reconnect after a failed write keeps the old origin (`:231` against `:118`).
- A refit that fails leaves `octo_state_` 0 for a node without a plane
  (`voxel_map.cpp:266` against `voxel_map.h:137`).
- `feats_down_world` is empty when `BuildVoxelMap` uses it (`LIVMapper.cpp:436`),
  so the first scan builds nothing; `loadVoxelConfig` reads `lio.min_iterations`
  while the files set `lio.max_iterations`; the unit of the position in
  `voxel_map.cpp:712-717` differs from that of the key beside it.
- `xfer_format` 2 never pops on ROS 2, so its poll thread spins
  (`lddc.cpp:234`); with `output_type` other than 0 frames are popped and dropped.
- On the MCU odometry counts as valid for the first 2 s without any, and again
  when the clock wraps (`remote_control.c:202-206`); a reader may see half of a
  pose (`:199`).
- The topic of `kfs_detector` has no reader, `send_zone_i_path` no caller.

## 4. Proofs

All theorems are proved by TLAPS from the modules' named assumptions, for all
values of the constants. Every safety invariant that a run checks is one.

`LdsPointQueue_proofs`
- `TypeCorrect`, `QueueCorrect`, `NoRaceOnSlots`, `BinarySemaphore`. The inductive
  invariant `TypeOK /\ QueueInv` ties the distance of the two indices to the
  packets pushed and not popped, the pending store counted, and so bounds it by the
  ring. Race freedom follows by arithmetic (`SlotsDiffer`): counters less than
  `Size` apart index different slots, which needs the width of the counters to be a
  multiple of `Size` (`ModulusAssumption`), as 2^32 is of a power of two.
- `StrandedAtMostOne`. `StrandInv` names the lidars that are `Missed` (they have
  unread packets and the reader will not come past) and says when there may be
  none, when one packet of one lidar: before the writer has looked at the
  semaphore's count its last packet does not matter, and while a store is pending
  nothing is missed.
- `QueueRefinesFifo`: each step is a step of `DropNewestQueue` under the mapping that
  reads the slots between the indices (`Window`), or leaves the abstract queue alone.
  `FifoInv` adds that accepted packets are older than the one at hand and that
  the packet being copied is still the head: the reader copies first and moves the index
  after.

`Driver_proofs`
- `TypeCorrect`, `SamplesAreConfigured`, `BitsAreOutstanding` for the set-up by
  itself. `SamplesConfigured` is not inductive: nothing in it says why no bit set
  means all carried out. `Covered` does: each option of a lidar in set-up is
  carried out, or its bit is set, or the holder of the mutex has yet to ask for it.
- `DriverSamplesConfigured` and `DriverBitsOutstanding` carry that invariant into the
  composition (`DInv`: it holds once set-up has begun, and before that nothing is
  set up).
- `DriverTimesRestored`: what was published, read back, followed by what is queued is
  what was stored, for every frequency, format and number of frames. It needs that a
  stored frame spans less than 2^32 ns, which the clamp of the frequency gives
  (`Interval` is at most 2000 ms, a frame two of them).

`PubHandler_proofs`
- `NoImuStranded`, from `Awaited`: a sample in the list is announced by the semaphore,
  or ahead of the poll thread, or the thread that stored it is not done.
- `PlacesDistinct`: `map_index_` is injective although `GetFreeIndex` is two critical
  sections, because the second takes the least free index (`FreeIndexIsFree`).
- `EveryPointAccounted`, `StoredInOwnPlace`. `PointsInv` puts the parts of a point's way
  one behind the other (stored, frame at hand, cloud, packet at hand, queue): what was
  received of a lidar is their concatenation. A step moves the border between two
  parts. `FrameOwn` and `StoredOwn` say by whose extrinsics points were moved.
- `FramesSpanIntervals`. By the master clock, points of one cloud follow each other
  at the packets' pace, but for lost packets (`SpacedBy`), and a frame that is still open
  ends in the interval it is in; each interval that it outlasted cost a lost
  packet (`Open`). So the length is bounded from both sides, with the losses in the bound.

`Controller_proofs`
- Of the bridge `BridgeTypeCorrect`, `PortIsKnown`, `PoseIsRelative`, `QuietAtStart` (no heartbeat before
  the first frame). `PortKnown` speaks of the time between callbacks; `PortInv` carries
  it through the steps of `_retry_serial`.
- Of the match `NeverRunsAhead`. The invariant follows the claim back: what R2Main believes, what it
  last heard and what is on the topic were all reported by the MCU, whatever was dropped.
- `RoutesCollectAll`: the routes are right for any set of targets, where the run goes up to
  three. `AllReached`: from any block each other one is in reach, down to block 1
  and up again. `PrevNearer`: the block before is a neighbour one step nearer, so a
  shortest path is a `Path` (`ShortestIsPath`), also to the exit. `RoutesRight`, by the
  number of targets left: there is a nearest one, the path to it and the route from
  there join (`PathsJoin`). `DedupedPath`: no block is next to itself, so nothing is
  taken out.
- `FramesArriveInOrder`, for both directions of the line. Of the constants it needs that
  `XorOf` is one-to-one in each operand (`XorAssumption`), so that a checksum tells frames
  apart that differ in one byte (`XorTells`), that the synchronisation bytes differ, and that
  a count fits in a byte and a length in two, without which `struct.pack` fails. `LinkInv`:
  what the receiver has not disposed of, put before what is on the line, is a `Stream`, the
  bytes of the frames sent from some place on, each with its own number and place; bytes
  differ from what was sent only as `Changes` says; and what was understood is what was
  sound of the frames before (`Heeded`). It is carried as long as the premise of
  `FramesInOrder` held (`Clean`). `UpState` and `DownState` say where the parsers stand
  in the stream: at the first byte of a frame, in one that began right, or, on the MCU, in
  the rest of one too long for it, where no frame seems to begin.
- `LinkResynchronises`, again for both directions, from the same assumptions. `LinkInv` ends
  with the first damage and says nothing of what a parser does behind it; `AstrayInv`
  does, as long as one byte at most was changed or lost and no message holds the first
  synchronisation byte itself (`Once`, `Plain`). What is under way is a `Course`: bytes of the
  frames sent, in order, and whole ones outside the damaged frame. A parser is at the
  beginning of a frame, in the damaged one, or in one that is `Near` it (`Placed`); and the
  last frame behind it that is not near was understood (`Told`). Near means that the whole
  frames between, each counted with the least size that any has, fit in the longest wait.
  This is what has to be kept: a parser leaves the damaged frame only over what it has
  read, at most `Longest` bytes, which is that many frames (`Counted`, `Strays`), and in the
  middle of a near one it finds no synchronisation (`NoStart`), so it goes byte by byte to
  the next beginning. That it does not wait for ever is `NothingLeft`: a parser that waits
  with nothing on the line is in the last near frame at most. `SwallowedRight` turns the
  sizes into the number of frames in the property.

`LivMapper_proofs`
- `HeadersStayPaired`, `PropagationIsComplete`, both assuming `LoopBack = FALSE`; with
  it they are false. The invariant adds that a scan in hand ends where its points end
  and that messages are not older than the last.
- `StretchesAreExact`: the time steps of the filter are not negative and add up to the
  stretch from one scan's end to the next. `FilterInv` orders samples and scans around
  the end of the last update; `StepsOver` is the sum, along the samples.

`VoxelMap_proofs`
- `TypeCorrect`, `PlanesKeepAccount`, `PlanesAreMatched`. The invariant (`MapRight`) says
  of each node where in its life it stands (`NodeRight`: waiting, cut, taking points,
  frozen) and what its counters are there, and of the tree that with a node there are the
  nodes above (`Closed`). A point changes only nodes on its way down, so there is
  one lemma per way a node can take it (`UpdateOctoTree`), and cutting is followed down
  the layers.
- `SlidingKeepsNear`, an action property: arithmetic of `Key` and of the bounds
  on both sides of the origin.

`VisualMap_proofs`
- `TypeCorrect`, `RefPatchFreedNever`, `NothingSeenTwice`, `ReadsInsideImage`. `MapInv`: the
  map is a sequence of points that are `Sound` (the reference is a patch they
  have); one lemma per operation that deletes or adds patches. `SubmapInv`: what was
  retrieved belongs to the frame and to the map. Rays only add to what the voxels
  of the scan gave (`Gathered`).
- `CovarianceTakesAccepted`, from `GainInv` about the loop alone: a level is entered with
  an error that any other undercuts, so after its first iteration a state was
  accepted there, and the Jacobians cached are of that level and those points.

`Livo_proofs`
- `TimesAreUsable`: the curvatures of a Livox scan are a recursion along its points, and
  what is never ahead of the point it is given to stays so over a guess (`AviaTimesRight`).
- `YawTimesAreRight`: angles are times modulo a revolution, so the angle since the first
  point of a line is its time or one revolution less (`BetweenRight`), and the point before
  on the line tells which (`YawTimesTrue`).
- `FeaturesShareNoPoint`. A line is an ascending sequence of positions; `FeatureInv` says
  that whatever has become a feature is of lines before, or on this line before the run
  that is still open (`Past`), so a run that is added shares nothing with it.

`Livo_proofs`, of `LivoMapper`: what the callbacks leave for the updates, and the updates
for each other, in four layers that each rest on those before.
- `PointsAreCutOnce`. `CutInv` types the node's data, knows that buffered scans
  follow each other by a scan's length and that their points ascend, and has `CutOnce`. An
  image then cuts at most the last of the scans that began before it, so what is before
  the image and what is left, put together, are the scans as they were (`ScanCut`,
  `CutRight`); the rest is `Joined` regrouped.
- `StatesHaveTheirTimes`. Only with the order of the samples is the sum of the steps the
  stretch from the last update to this one (`ElapsedIsRight`), clipped at both ends.
  So `TimeInv` adds: what is buffered of samples is after what was popped (`ImuInv`), of
  images likewise (`ImgInv`), where the last update stands in each mode (`UpdateInv`), what
  the timer's propagation starts from (`StateInv`), that path and images end before the
  next update (`PathInv`), and that clouds wait for the image of their own update (`FrameInv`).
- `PointsArePublishedOnce`. Points ascend along their whole way (`Arrived`: all that was
  received, so all that was used). `PubInv` puts what was published, the clouds that wait
  and the clouds of the last update one behind the other, each `Among` the points used
  and `Under` those to come: a camera that picks any of them keeps their order, and nothing
  in ascending order comes twice.
- `PointsAreMovedOnce`. The backward pass by its steps (`MovesRight`): after each pose the
  points behind the hand are those that were moved, each from the last pose before it.
  Poses kept from updates without points lie before the others (`PosesBy`), so the pass
  ends among this update's own.

Recursive functions are within reach although induction theorems are not: a claim
about `f[0 .. m]` is the set of the places where it holds, and the least place outside it
is the contradiction (`NatMin`, `UpTo`). That such a function exists at all
is the same argument about its prefixes (`Recursion`, `RoutesSteps`).

Only model-checked:
- liveness (`Delivered`, `ShutdownEnds`, `SetUpEnds`, `Recovers`, `ReachesDock`,
  `ScanProcessed`), which TLAPS does not do under fairness.

## 5. Not modelled, and why

- Floating point: the values of the filter, planes, patches and distortions. Where
  they decide what happens next the decision is free. `plane_judge`,
  `edge_jump_judge` and the Jacobians are numeric throughout.
- Third-party code: rapidjson, rpg_vikit, the SDK. The MCU's firmware beyond
  `remote_control.c`, the USB device and the clocks are external, modelled by what
  they may do.
- Display: dashboards, plotters, `pubVoxelMap`, `publish_visual_sub_map`,
  plotting in `vio.cpp` and the `projectPatchFromRefToCur` pictures.
- Camera nodes: image processing per frame whose results no modelled component
  reads. Entry points and start-up helpers.
- Code without callers: `VoxelOctoTree::Insert`, `SerialBridgeStub`, the
  alternative copies that are not compiled.
- JSON text and the formatting of addresses: data. `PubHandler::Uninit`,
  packets of an unknown data type or without points. Memory that is leaked or
  freed at the end of the driver (`Parse()` leaks its file, `DeInitQueue` frees
  without nulling).
- The unbounded buffers (`raw_packet_queue_`, the IMU list, `downlink_queue`,
  `path.poses`, `meas.measures`): the models bound the input, and no code bounds them.
- Undefined behaviour at configurations the models exclude by assumption: images
  without IMU (`imu_buffer.back()` of an empty deque), `lidar_en = 0`, empty
  extrinsics, rings beyond `N_SCANS` for velodyne, empty lines of oust64, a line
  of flat points only at the head of `give_feature`.
- The restart script: with `set -e` and `pipefail` a launch that ends with an error
  ends the script, and its EXIT trap makes that a success, which
  `Restart=on-failure` does not restart (`src/r2_restart_loop.sh:64`). It is one
  path through a shell script; there is nothing to interleave.
- The torn read of `latest_odom` and the validity of its age on the MCU: two
  lines each, described above.
- Loss of messages between processes beyond a bounded topic that drops its oldest.

## 6. What is left

A run of `LdsPointQueue` under `Driver` itself in place of its abstract queue, should
the state space allow it.
