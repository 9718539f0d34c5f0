---------------------------- MODULE LdsPointQueue ----------------------------
(***************************************************************************)
(* The point-cloud path of livox_ros_driver2 from Lds::StoragePointData to *)
(* the published message: one ring buffer per lidar (comm/ldq.cpp) written *)
(* by the PubHandler thread and read by PointCloudDataPollThread, with no  *)
(* lock between them, one semaphore that wakes the reader, and the         *)
(* DriverNode destructor that stops it.                                    *)
(*                                                                         *)
(* Each step of a thread makes at most one access to a shared variable, so *)
(* every interleaving the threads can produce is a behaviour.  rd_idx and  *)
(* wr_idx are free-running unsigned counters: they wrap at Modulus (2^32   *)
(* in the code).  With StoreBuffer the increment of wr_idx may stay in the *)
(* writer's store buffer, where only the writer sees it, while the writer  *)
(* goes on to read the semaphore's count: wr_idx is volatile, not atomic,  *)
(* and x86 lets a later load overtake a store.                             *)
(***************************************************************************)
EXTENDS Integers, Sequences

CONSTANTS NLidars,       \* lidar_count_
          Size,          \* slots of a ring, a power of two
          Modulus,       \* values of rd_idx and wr_idx
          MaxOffered,    \* bound: packets offered for each of the lidars
          Sampling0,     \* the lidars that are sampling from the start
          StoreBuffer    \* may the store to wr_idx linger in a store buffer?

Lidars == 0 .. NLidars - 1
NoLidar == -1
NoPacket == 0

ASSUME LidarsAssumption == NLidars \in Nat \ {0} /\ Sampling0 \subseteq Lidars
ASSUME SizeAssumption == Size \in Nat \ {0, 1}  \* CalculatePacketQueueSize is at least 10
ASSUME ModulusAssumption == Modulus \in Nat /\ \E k \in 2 .. Modulus : Modulus = k * Size
ASSUME BoundAssumption == MaxOffered \in [Lidars -> Nat] /\ StoreBuffer \in BOOLEAN

VARIABLES
  allocated,  \* storage_packet # nullptr
  mask,       \* LidarDataQueue::mask
  slots,      \* storage_packet[0..size-1]
  rd, wr,     \* rd_idx, wr_idx as memory holds them
  buffered,   \* the lidar whose wr_idx + 1 is still in the store buffer
  count,      \* pcd_semaphore_.count_
  sampling,   \* lidars with connect_state = kConnectStateSampling
  exit,       \* "run", "requested" (RequestExit), "signalled", "joined"
  ppc, frame, cur,    \* writer: step, lidars left in the frame, lidar at hand
  cpc, scan, val,     \* reader: step, lidar index of the loop, packet copied
  offered,            \* history: packets handed to PushLidarData
  published,          \* history: packets published, in order
  late                \* history: lidars sampling since the last push ended

ringVars == <<allocated, mask, slots, rd, wr, buffered>>
writerVars == <<ppc, frame, cur, offered>>
readerVars == <<cpc, scan, val, published>>
vars == <<ringVars, count, sampling, exit, writerVars, readerVars, late>>

-----------------------------------------------------------------------------
(* comm/ldq.cpp: index arithmetic modulo 2^32 *)

Inc(i) == IF i = Modulus - 1 THEN 0 ELSE i + 1
Used(w, r) == IF w >= r THEN w - r ELSE w - r + Modulus

\* idx & mask, for a mask of Size - 1 once InitQueue has run
Slot(i) == i % Size

\* wr_idx as the writer reads it: its own store is forwarded to it
WrSeen(l) == IF buffered = l THEN Inc(wr[l]) ELSE wr[l]

Init ==
  /\ allocated = [l \in Lidars |-> FALSE]
  /\ mask = [l \in Lidars |-> 0]
  /\ slots = [l \in Lidars |-> [i \in 0 .. Size - 1 |-> NoPacket]]
  /\ rd = [l \in Lidars |-> 0]
  /\ wr = [l \in Lidars |-> 0]
  /\ buffered = NoLidar
  /\ count = 0
  /\ sampling = Sampling0
  /\ exit = "run"
  /\ ppc = "idle" /\ frame = {} /\ cur = 0
  /\ cpc = "top" /\ scan = 0 /\ val = NoPacket
  /\ offered = [l \in Lidars |-> 0]
  /\ published = [l \in Lidars |-> << >>]
  /\ late = {}

-----------------------------------------------------------------------------
(* The writer: PubHandler's thread in StoragePointData and PushLidarData *)

\* PubHandler publishes a frame with one packet for each of some lidars.
StoragePointData ==
  /\ ppc = "idle"
  /\ \E F \in SUBSET {l \in Lidars : offered[l] < MaxOffered[l]} :
       /\ F # {}
       /\ frame' = F
  /\ ppc' = "next"
  /\ UNCHANGED <<ringVars, count, sampling, exit, cur, offered, readerVars, late>>

\* PushLidarData of the frame's next packet, up to the test of storage_packet
PushLidarData ==
  /\ ppc = "next"
  /\ frame # {}
  /\ \E l \in frame :
       /\ cur' = l
       /\ frame' = frame \ {l}
       /\ offered' = [offered EXCEPT ![l] = @ + 1]
       /\ ppc' = IF allocated[l] THEN "isfull" ELSE "alloc"
  /\ UNCHANGED <<ringVars, count, sampling, exit, readerVars, late>>

EndFrame ==
  /\ ppc = "next"
  /\ frame = {}
  /\ ppc' = "idle"
  /\ UNCHANGED <<ringVars, count, sampling, exit, frame, cur, offered, readerVars, late>>

\* InitQueue makes storage_packet visible before it has set the mask.
InitQueueAlloc ==
  /\ ppc = "alloc"
  /\ allocated' = [allocated EXCEPT ![cur] = TRUE]
  /\ ppc' = "mask"
  /\ UNCHANGED <<mask, slots, rd, wr, buffered, count, sampling, exit, frame, cur,
                 offered, readerVars, late>>

InitQueueMask ==
  /\ ppc = "mask"
  /\ rd' = [rd EXCEPT ![cur] = 0]
  /\ wr' = [wr EXCEPT ![cur] = 0]
  /\ mask' = [mask EXCEPT ![cur] = Size - 1]
  /\ ppc' = "isfull"
  /\ UNCHANGED <<allocated, slots, buffered, count, sampling, exit, frame, cur,
                 offered, readerVars, late>>

\* Fault: full only when more than Size packets are queued.
QueueIsFull_OffByOne ==
  /\ ppc = "isfull"
  /\ ppc' = IF Used(WrSeen(cur), rd[cur]) > mask[cur] + 1 THEN "getcount" ELSE "write"
  /\ UNCHANGED <<ringVars, count, sampling, exit, frame, cur, offered, readerVars, late>>

\* QueueIsFull; the packet that meets a full queue is dropped.
QueueIsFull ==
  /\ ppc = "isfull"
  /\ ppc' = IF Used(WrSeen(cur), rd[cur]) > mask[cur] THEN "getcount" ELSE "write"
  /\ UNCHANGED <<ringVars, count, sampling, exit, frame, cur, offered, readerVars, late>>

\* QueuePushAny fills the slot during the whole of step "write".  A frame is
\* far larger than a store buffer, so an older buffered store is out by then.
QueuePushSlot ==
  /\ ppc = "write"
  /\ buffered = NoLidar
  /\ slots' = [slots EXCEPT ![cur][Slot(wr[cur])] = offered[cur]]
  /\ ppc' = "bump"
  /\ UNCHANGED <<allocated, mask, rd, wr, buffered, count, sampling, exit, frame,
                 cur, offered, readerVars, late>>

\* wr_idx++
QueuePushBump ==
  /\ ppc = "bump"
  /\ \/ /\ wr' = [wr EXCEPT ![cur] = Inc(@)]
        /\ UNCHANGED buffered
     \/ /\ StoreBuffer
        /\ buffered' = cur
        /\ UNCHANGED wr
  /\ ppc' = "isempty"
  /\ UNCHANGED <<allocated, mask, slots, rd, count, sampling, exit, frame, cur,
                 offered, readerVars, late>>

\* The store buffer drains by itself, at any time.
FlushStore ==
  /\ buffered # NoLidar
  /\ wr' = [wr EXCEPT ![buffered] = Inc(@)]
  /\ buffered' = NoLidar
  /\ UNCHANGED <<allocated, mask, slots, rd, count, sampling, exit, writerVars,
                 readerVars, late>>

\* if (!QueueIsEmpty(queue)): the reader may have been faster.
QueueIsEmpty ==
  /\ ppc = "isempty"
  /\ ppc' = IF WrSeen(cur) = rd[cur] THEN "next" ELSE "getcount"
  /\ UNCHANGED <<ringVars, count, sampling, exit, frame, cur, offered, readerVars, late>>

\* Fault: count is compared with < 0, so nobody is ever signalled.
GetCount_Negative ==
  /\ ppc = "getcount"
  /\ ppc' = IF count < 0 THEN "signal" ELSE "next"
  /\ late' = {}
  /\ UNCHANGED <<ringVars, count, sampling, exit, frame, cur, offered, readerVars>>

\* pcd_semaphore_.GetCount() <= 0, read without the semaphore's mutex
GetCount ==
  /\ ppc = "getcount"
  /\ ppc' = IF count <= 0 THEN "signal" ELSE "next"
  /\ late' = IF count <= 0 THEN late ELSE {}
  /\ UNCHANGED <<ringVars, count, sampling, exit, frame, cur, offered, readerVars>>

\* pcd_semaphore_.Signal(); locking the mutex empties the store buffer.
Signal ==
  /\ ppc = "signal"
  /\ buffered = NoLidar
  /\ count' = count + 1
  /\ late' = {}
  /\ ppc' = "next"
  /\ UNCHANGED <<ringVars, sampling, exit, frame, cur, offered, readerVars>>

WriterStep ==
  \/ PushLidarData \/ EndFrame \/ InitQueueAlloc \/ InitQueueMask \/ QueueIsFull
  \/ QueuePushSlot \/ QueuePushBump \/ QueueIsEmpty \/ GetCount \/ Signal

-----------------------------------------------------------------------------
(* The reader: PointCloudDataPollThread in DistributePointCloudData *)

\* DistributePointCloudData returns at once when an exit was requested.
IsRequestExit ==
  /\ cpc = "top"
  /\ cpc' = IF exit = "run" THEN "wait" ELSE "poll"
  /\ UNCHANGED <<ringVars, count, sampling, exit, writerVars, scan, val, published, late>>

\* Fault: the count is taken only after the round, so a signal that arrives
\* during the round is suppressed by GetCount and then consumed.
EndScan_TakeCount ==
  /\ cpc = "scan"
  /\ scan = NLidars
  /\ count' = 0
  /\ cpc' = "poll"
  /\ UNCHANGED <<ringVars, sampling, exit, writerVars, scan, val, published, late>>

Wait ==
  /\ cpc = "wait"
  /\ count > 0
  /\ count' = count - 1
  /\ scan' = 0
  /\ cpc' = "scan"
  /\ UNCHANGED <<ringVars, sampling, exit, writerVars, val, published, late>>

\* The for loop: skip a lidar that is not sampling or has no queue yet.
ScanLidar ==
  /\ cpc = "scan"
  /\ scan < NLidars
  /\ IF scan \in sampling /\ allocated[scan]
       THEN cpc' = "polling" /\ UNCHANGED scan
       ELSE scan' = scan + 1 /\ UNCHANGED cpc
  /\ UNCHANGED <<ringVars, count, sampling, exit, writerVars, val, published, late>>

EndScan ==
  /\ cpc = "scan"
  /\ scan = NLidars
  /\ cpc' = "poll"
  /\ UNCHANGED <<ringVars, count, sampling, exit, writerVars, scan, val, published, late>>

\* Fault: the slot is released before it has been copied.
PublishPointcloud_PopFirst ==
  /\ cpc = "publish"
  /\ cpc' = IF wr[scan] # rd[scan] THEN "copy" ELSE "polling"
  /\ rd' = [rd EXCEPT ![scan] = IF wr[scan] # @ THEN Inc(@) ELSE @]
  /\ UNCHANGED <<allocated, mask, slots, wr, buffered, count, sampling, exit,
                 writerVars, scan, val, published, late>>

\* PollingLidarPointCloudData: while (!IsRequestExit && !QueueIsEmpty)
PollingLidarPointCloudData ==
  /\ cpc = "polling"
  /\ IF exit = "run" /\ wr[scan] # rd[scan]
       THEN cpc' = "publish" /\ UNCHANGED scan
       ELSE cpc' = "scan" /\ scan' = scan + 1
  /\ UNCHANGED <<ringVars, count, sampling, exit, writerVars, val, published, late>>

\* PublishPointcloud2, PublishCustomPointcloud: while (!QueueIsEmpty),
\* without a look at the exit request.
PublishPointcloud ==
  /\ cpc = "publish"
  /\ cpc' = IF wr[scan] # rd[scan] THEN "copy" ELSE "polling"
  /\ UNCHANGED <<ringVars, count, sampling, exit, writerVars, scan, val, published, late>>

\* QueuePrePop copies the slot during the whole of step "copy".
QueuePrePop ==
  /\ cpc = "copy"
  /\ val' = slots[scan][Slot(rd[scan])]
  /\ cpc' = "pop"
  /\ UNCHANGED <<ringVars, count, sampling, exit, writerVars, scan, published, late>>

\* QueuePopUpdate, then the message is built from the copy and published.
QueuePopUpdate ==
  /\ cpc = "pop"
  /\ rd' = [rd EXCEPT ![scan] = Inc(@)]
  /\ published' = [published EXCEPT ![scan] = Append(@, val)]
  /\ cpc' = "publish"
  /\ UNCHANGED <<allocated, mask, slots, wr, buffered, count, sampling, exit,
                 writerVars, scan, val, late>>

\* Fault: the future's state is not looked at.
PollFuture_Forever ==
  /\ cpc = "poll"
  /\ cpc' = "top"
  /\ UNCHANGED <<ringVars, count, sampling, exit, writerVars, scan, val, published, late>>

\* future_.wait_for(0) after each round
PollFuture ==
  /\ cpc = "poll"
  /\ cpc' = IF exit \in {"run", "requested"} THEN "top" ELSE "done"
  /\ UNCHANGED <<ringVars, count, sampling, exit, writerVars, scan, val, published, late>>

ReaderStep ==
  \/ IsRequestExit \/ Wait \/ ScanLidar \/ EndScan \/ PollingLidarPointCloudData
  \/ PublishPointcloud \/ QueuePrePop \/ QueuePopUpdate \/ PollFuture

-----------------------------------------------------------------------------
(* The other threads *)

\* A Set*Callback of the SDK sees the last parameter set.
StartSampling(l) ==
  /\ l \notin sampling
  /\ sampling' = sampling \cup {l}
  /\ late' = late \cup {l}
  /\ UNCHANGED <<ringVars, count, exit, writerVars, readerVars>>

\* ~DriverNode: RequestExit, exit_signal_.set_value, join
RequestExit ==
  /\ exit = "run"
  /\ exit' = "requested"
  /\ UNCHANGED <<ringVars, count, sampling, writerVars, readerVars, late>>

SetExitSignal ==
  /\ exit = "requested"
  /\ exit' = "signalled"
  /\ UNCHANGED <<ringVars, count, sampling, writerVars, readerVars, late>>

JoinPollThread ==
  /\ exit = "signalled"
  /\ cpc = "done"
  /\ exit' = "joined"
  /\ UNCHANGED <<ringVars, count, sampling, writerVars, readerVars, late>>

Next ==
  \/ StoragePointData \/ WriterStep \/ FlushStore
  \/ ReaderStep
  \/ \E l \in Lidars : StartSampling(l)
  \/ RequestExit \/ SetExitSignal \/ JoinPollThread

Spec == Init /\ [][Next]_vars

\* Threads that can run do run; frames, connections and the exit need not come.
Fairness ==
  /\ WF_vars(WriterStep) /\ WF_vars(FlushStore) /\ WF_vars(ReaderStep)
  /\ WF_vars(SetExitSignal) /\ WF_vars(JoinPollThread)

FairSpec == Spec /\ Fairness

-----------------------------------------------------------------------------
(* Properties *)

WriterSteps == {"idle", "next", "alloc", "mask", "isfull", "write", "bump",
                "isempty", "getcount", "signal"}
ReaderSteps == {"top", "wait", "scan", "polling", "publish", "copy", "pop", "poll", "done"}

\* The type invariant.
TypeOK ==
  /\ allocated \in [Lidars -> BOOLEAN]
  /\ mask \in [Lidars -> {0, Size - 1}]
  /\ slots \in [Lidars -> [0 .. Size - 1 -> Nat]]
  /\ rd \in [Lidars -> 0 .. Modulus - 1]
  /\ wr \in [Lidars -> 0 .. Modulus - 1]
  /\ buffered \in Lidars \cup {NoLidar}
  /\ count \in Nat
  /\ sampling \in SUBSET Lidars
  /\ exit \in {"run", "requested", "signalled", "joined"}
  /\ ppc \in WriterSteps /\ frame \in SUBSET Lidars /\ cur \in Lidars
  /\ cpc \in ReaderSteps /\ scan \in 0 .. NLidars /\ val \in Nat
  /\ offered \in [Lidars -> Nat]
  /\ published \in [Lidars -> Seq(Nat)]
  /\ late \in SUBSET Lidars

\* No queue ever holds more than Size packets, neither as memory shows it nor
\* as the writer sees it through its store buffer, so the free-running
\* counters stay apart by less than their width and "full" is never "empty".
\* A queue whose mask is not set yet is empty.
RingInv ==
  \A l \in Lidars :
    /\ Used(wr[l], rd[l]) <= Size
    /\ buffered = l => Used(wr[l], rd[l]) < Size
    /\ mask[l] = 0 => wr[l] = 0 /\ rd[l] = 0 /\ buffered # l
    /\ allocated[l] /\ mask[l] = 0 => ppc = "mask" /\ cur = l
    /\ ~allocated[l] => mask[l] = 0

\* What the writer knows at each step: it found room, it fills and publishes
\* one slot at a time, and nobody else signals.
WriterInv ==
  /\ ppc = "alloc" => ~allocated[cur]
  /\ ppc = "mask" => allocated[cur] /\ mask[cur] = 0
  /\ ppc \in {"isfull", "write", "bump"} => mask[cur] = Size - 1 /\ allocated[cur]
  /\ ppc \in {"write", "bump"} => Used(WrSeen(cur), rd[cur]) < Size
  /\ ppc = "bump" => buffered = NoLidar
  /\ ppc = "signal" => count = 0
  /\ count <= 1

\* What the reader knows: the packet it copies is still queued.
ReaderInv ==
  /\ cpc \in {"polling", "publish", "copy", "pop"} => scan < NLidars /\ allocated[scan]
  /\ cpc \in {"copy", "pop"} => wr[scan] # rd[scan]

\* The inductive invariant, of both threads at every step.
QueueInv == RingInv /\ WriterInv /\ ReaderInv

\* The writer never fills a slot that the reader is copying: the two threads
\* share the slots without a lock, and only the two counters keep them apart.
NoSlotRace ==
  ~ /\ ppc = "write"
    /\ cpc = "copy"
    /\ cur = scan
    /\ Slot(WrSeen(cur)) = Slot(rd[scan])

\* The check of GetCount and the Signal that follows are not one step, yet the
\* semaphore stays binary, because one thread only signals it.
SemaphoreBinary == count \in {0, 1}

ReaderAsleep == cpc = "wait" /\ count = 0

Unread(l) == Used(wr[l], rd[l])

\* With a store buffer a wakeup can be lost, but only that of the last packet
\* pushed: when the memory has settled and the reader sleeps, at most one
\* packet of all the sampling lidars waits for the next push.
AtMostOneStranded ==
  ReaderAsleep /\ ppc = "idle" /\ buffered = NoLidar =>
    \A l, m \in sampling \ late :
      /\ Unread(l) <= 1
      /\ Unread(l) = 1 /\ Unread(m) = 1 => l = m

\* The packets between rd_idx and wr_idx, oldest first
Contents(l) == [i \in 1 .. Unread(l) |-> slots[l][Slot(rd[l] + i - 1)]]

\* The two threads together implement a bounded FIFO per lidar that drops the
\* newest packet: no accepted packet is lost, repeated, reordered or torn,
\* also when the counters wrap.
Fifo == INSTANCE DropNewestQueue WITH queue <- [l \in Lidars |-> Contents(l)]
ImplementsDropNewest == Fifo!Spec

\* Of what a sampling lidar has queued all but the last packet is published,
\* with no help from later packets, unless the driver is asked to exit.
Delivered ==
  \A l \in Lidars :
    (l \in sampling \ late /\ Unread(l) > 1) ~> (Unread(l) <= 1 \/ exit # "run")

\* ~DriverNode gets past the join of the poll thread, or else that thread sits
\* in the semaphore's Wait with nobody to signal it: RequestExit does not.
ShutdownEnds ==
  (exit = "requested") ~> (exit = "joined" \/ ReaderAsleep)
=============================================================================
