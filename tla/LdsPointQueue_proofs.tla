------------------------ MODULE LdsPointQueue_proofs ------------------------
(***************************************************************************)
(* Proofs, for any number of lidars, any ring size, any width of the       *)
(* counters and either memory model, that the two threads of the Livox     *)
(* point queue never meet in a slot, that the semaphore stays binary, that *)
(* at most one packet waits while the reader sleeps, and that the queue    *)
(* implements DropNewestQueue.                                             *)
(***************************************************************************)
EXTENDS LdsPointQueue, SequenceTheorems, TLAPS

USE DEF Lidars, NoLidar, NoPacket

(***************************************************************************)
(* Arithmetic of the two counters                                          *)
(***************************************************************************)

\* An index splits into a round of the ring and a slot.
LEMMA DivMod ==
  \A x \in Nat : /\ x = Size * (x \div Size) + (x % Size)
                 /\ x \div Size \in Int
                 /\ x % Size \in 0 .. Size - 1
  BY SizeAssumption

LEMMA SlotRange == \A x \in 0 .. Modulus - 1 : Slot(x) \in 0 .. Size - 1
  BY DivMod, ModulusAssumption DEF Slot

\* No multiple of Size lies strictly between 0 and Size.
LEMMA NoMultiple ==
  ASSUME NEW j \in Int, 0 < Size * j, Size * j < Size
  PROVE  FALSE
<1>1. CASE j <= 0
  BY <1>1, SizeAssumption
<1>2. CASE j >= 1
  BY <1>2, SizeAssumption
<1> QED BY <1>1, <1>2

\* Two counters less than Size apart, and not equal, index different slots:
\* this is where the width of the counters must be a multiple of Size.
LEMMA SlotsDiffer ==
  ASSUME NEW w \in 0 .. Modulus - 1, NEW r \in 0 .. Modulus - 1,
         0 < Used(w, r), Used(w, r) < Size, Slot(w) = Slot(r)
  PROVE  FALSE
<1>1. PICK k \in 2 .. Modulus : Modulus = k * Size
  BY ModulusAssumption
<1>2. /\ w = Size * (w \div Size) + (w % Size) /\ w \div Size \in Int
      /\ r = Size * (r \div Size) + (r % Size) /\ r \div Size \in Int
      /\ w % Size \in Int /\ r % Size \in Int
  BY DivMod, ModulusAssumption, SizeAssumption
<1> DEFINE a == w \div Size
           b == r \div Size
<1>3. w - r = Size * (a - b)
  BY <1>2, SizeAssumption DEF Slot
<1> HIDE DEF a, b
<1>4. CASE w >= r
  <2>1. Used(w, r) = Size * (a - b)
    BY <1>3, <1>4 DEF Used
  <2> QED BY <2>1, <1>2, NoMultiple DEF a, b
<1>5. CASE ~(w >= r)
  <2>1. Used(w, r) = Size * (a - b) + k * Size
    BY <1>1, <1>3, <1>5 DEF Used
  <2>2. Used(w, r) = Size * (a - b + k)
    BY <2>1, <1>1, <1>2, SizeAssumption DEF a, b
  <2> QED BY <1>1, <2>2, <1>2, NoMultiple DEF a, b
<1> QED BY <1>4, <1>5

\* The counters have room for more than a full ring.
LEMMA ModulusLarge == Modulus \in Nat /\ Modulus >= 2 * Size /\ Modulus > Size + 1
<1>1. PICK k \in 2 .. Modulus : Modulus = k * Size
  BY ModulusAssumption
<1>2. k * Size >= 2 * Size
  BY <1>1, SizeAssumption
<1> QED BY <1>1, <1>2, SizeAssumption, ModulusAssumption

\* What one increment of either counter does to the number of packets.
LEMMA Counting ==
  ASSUME NEW w \in 0 .. Modulus - 1, NEW r \in 0 .. Modulus - 1
  PROVE  /\ Inc(w) \in 0 .. Modulus - 1
         /\ Used(w, r) \in 0 .. Modulus - 1
         /\ Used(w, r) = 0 <=> w = r
  BY ModulusLarge DEF Inc, Used

LEMMA CountPush ==
  ASSUME NEW w \in 0 .. Modulus - 1, NEW r \in 0 .. Modulus - 1, Used(w, r) < Size
  PROVE  /\ Used(w, r) \in Nat
         /\ Inc(w) \in 0 .. Modulus - 1
         /\ Used(Inc(w), r) = Used(w, r) + 1
         /\ Inc(w) # r
  BY ModulusLarge, SizeAssumption DEF Inc, Used

LEMMA CountPop ==
  ASSUME NEW w \in 0 .. Modulus - 1, NEW r \in 0 .. Modulus - 1, w # r
  PROVE  /\ Used(w, r) \in Nat
         /\ Inc(r) \in 0 .. Modulus - 1
         /\ Used(w, Inc(r)) = Used(w, r) - 1
  BY ModulusLarge DEF Inc, Used

-----------------------------------------------------------------------------
(***************************************************************************)
(* The inductive invariant                                                 *)
(***************************************************************************)

IInv == TypeOK /\ QueueInv

LEMMA InitIInv == Init => IInv
<1> SUFFICES ASSUME Init PROVE IInv
  OBVIOUS
<1>1. TypeOK
  BY LidarsAssumption, SizeAssumption, ModulusLarge
  DEF Init, TypeOK, WriterSteps, ReaderSteps
<1>2. QueueInv
  BY LidarsAssumption, SizeAssumption, ModulusLarge
  DEF Init, QueueInv, RingInv, WriterInv, ReaderInv, Used
<1> QED BY <1>1, <1>2 DEF IInv

\* Every step keeps the types; the reader's loop index needs ReaderInv.
LEMMA StepType == IInv /\ [Next]_vars => TypeOK'
<1> SUFFICES ASSUME IInv, [Next]_vars PROVE TypeOK'
  OBVIOUS
<1>0. \A n \in Nat : n + 1 \in Nat
  OBVIOUS
<1> USE LidarsAssumption, SizeAssumption, ModulusLarge
    DEF IInv, TypeOK, WriterSteps, ReaderSteps, ringVars, writerVars, readerVars
<1>1. CASE StoragePointData
  BY <1>1 DEF StoragePointData
<1>2. CASE PushLidarData
  <2>1. PICK l \in frame :
          /\ cur' = l /\ frame' = frame \ {l}
          /\ offered' = [offered EXCEPT ![l] = @ + 1]
          /\ ppc' = IF allocated[l] THEN "isfull" ELSE "alloc"
    BY <1>2 DEF PushLidarData
  <2>2. l \in Lidars
    OBVIOUS
  <2>3. offered[l] \in Nat
    BY <2>2, Zenon
  <2>4. offered[l] + 1 \in Nat
    BY <2>3, <1>0, Zenon
  <2>5. offered' \in [Lidars -> Nat]
    BY <2>1, <2>2, <2>4, Zenon
  <2> QED BY <1>2, <2>1, <2>2, <2>5 DEF PushLidarData
<1>3. CASE EndFrame
  BY <1>3 DEF EndFrame
<1>4. CASE InitQueueAlloc
  BY <1>4 DEF InitQueueAlloc
<1>5. CASE InitQueueMask
  <2>1. 0 \in 0 .. Modulus - 1
    OBVIOUS
  <2>2. rd' \in [Lidars -> 0 .. Modulus - 1]
    BY <1>5, <2>1 DEF InitQueueMask
  <2>3. wr' \in [Lidars -> 0 .. Modulus - 1]
    BY <1>5, <2>1 DEF InitQueueMask
  <2>4. mask' \in [Lidars -> {0, Size - 1}] /\ ppc' \in WriterSteps
    BY <1>5 DEF InitQueueMask
  <2> QED BY <1>5, <2>2, <2>3, <2>4 DEF InitQueueMask
<1>6. CASE QueueIsFull
  BY <1>6 DEF QueueIsFull
<1>7. CASE QueuePushSlot
  <2>1. Slot(wr[cur]) \in 0 .. Size - 1 /\ offered[cur] \in Nat
    BY SlotRange
  <2>2. slots' \in [Lidars -> [0 .. Size - 1 -> Nat]]
    BY <1>7, <2>1 DEF QueuePushSlot
  <2> QED BY <1>7, <2>2 DEF QueuePushSlot
<1>8. CASE QueuePushBump
  <2>1. Inc(wr[cur]) \in 0 .. Modulus - 1
    BY Counting
  <2>2. wr' \in [Lidars -> 0 .. Modulus - 1]
    BY <1>8, <2>1 DEF QueuePushBump
  <2>3. buffered' \in Lidars \cup {NoLidar}
    BY <1>8 DEF QueuePushBump
  <2> QED BY <1>8, <2>2, <2>3 DEF QueuePushBump
<1>9. CASE QueueIsEmpty
  BY <1>9 DEF QueueIsEmpty
<1>10. CASE GetCount
  BY <1>10 DEF GetCount
<1>11. CASE Signal
  <2>1. count' \in Nat
    BY <1>11 DEF Signal
  <2> QED BY <1>11, <2>1 DEF Signal
<1>12. CASE FlushStore
  <2>1. Inc(wr[buffered]) \in 0 .. Modulus - 1
    BY <1>12, Counting DEF FlushStore
  <2>2. wr' \in [Lidars -> 0 .. Modulus - 1]
    BY <1>12, <2>1 DEF FlushStore
  <2> QED BY <1>12, <2>2 DEF FlushStore
<1>13. CASE IsRequestExit
  BY <1>13 DEF IsRequestExit
<1>14. CASE Wait
  <2>1. count' \in Nat /\ scan' \in 0 .. NLidars
    BY <1>14 DEF Wait
  <2> QED BY <1>14, <2>1 DEF Wait
<1>15. CASE ScanLidar
  <2>1. scan + 1 \in 0 .. NLidars
    BY <1>15 DEF ScanLidar
  <2>2. scan' \in {scan, scan + 1} /\ cpc' \in {cpc, "polling"}
    BY <1>15 DEF ScanLidar
  <2> QED BY <1>15, <2>1, <2>2 DEF ScanLidar
<1>16. CASE EndScan
  BY <1>16 DEF EndScan
<1>17. CASE PollingLidarPointCloudData
  <2>1. scan + 1 \in 0 .. NLidars
    BY <1>17 DEF PollingLidarPointCloudData, QueueInv, ReaderInv
  <2>2. scan' \in {scan, scan + 1} /\ cpc' \in {"publish", "scan"}
    BY <1>17 DEF PollingLidarPointCloudData
  <2> QED BY <1>17, <2>1, <2>2 DEF PollingLidarPointCloudData
<1>18. CASE PublishPointcloud
  BY <1>18 DEF PublishPointcloud
<1>19. CASE QueuePrePop
  <2>1. scan \in Lidars
    BY <1>19 DEF QueuePrePop, QueueInv, ReaderInv
  <2>2. slots[scan] \in [0 .. Size - 1 -> Nat] /\ Slot(rd[scan]) \in 0 .. Size - 1
    BY <2>1, SlotRange
  <2>3. val' \in Nat
    BY <1>19, <2>2 DEF QueuePrePop
  <2> QED BY <1>19, <2>3 DEF QueuePrePop
<1>20. CASE QueuePopUpdate
  <2>1. scan \in Lidars
    BY <1>20 DEF QueuePopUpdate, QueueInv, ReaderInv
  <2>2. Inc(rd[scan]) \in 0 .. Modulus - 1
    BY <2>1, Counting
  <2>3. rd' \in [Lidars -> 0 .. Modulus - 1]
    BY <1>20, <2>1, <2>2 DEF QueuePopUpdate
  <2>4. Append(published[scan], val) \in Seq(Nat)
    BY <2>1
  <2>5. published' \in [Lidars -> Seq(Nat)]
    BY <1>20, <2>1, <2>4 DEF QueuePopUpdate
  <2> QED BY <1>20, <2>3, <2>5 DEF QueuePopUpdate
<1>21. CASE PollFuture
  BY <1>21 DEF PollFuture
<1>22. CASE RequestExit
  BY <1>22 DEF RequestExit
<1>23. CASE SetExitSignal
  BY <1>23 DEF SetExitSignal
<1>24. CASE JoinPollThread
  BY <1>24 DEF JoinPollThread
<1>25. ASSUME NEW l \in Lidars, StartSampling(l) PROVE TypeOK'
  BY <1>25 DEF StartSampling
<1>26. CASE UNCHANGED vars
  BY <1>26 DEF vars
<1> QED
  BY <1>1, <1>2, <1>3, <1>4, <1>5, <1>6, <1>7, <1>8, <1>9, <1>10, <1>11, <1>12, <1>13, <1>14, <1>15, <1>16, <1>17, <1>18, <1>19, <1>20, <1>21, <1>22, <1>23, <1>24, <1>25, <1>26
  DEF Next, WriterStep, ReaderStep

\* Every step keeps the rings within their size, and each thread's knowledge
\* of them: a step of the writer only adds a packet, one of the reader only
\* removes one, so neither can falsify what the other found out.
LEMMA StepQueue == IInv /\ TypeOK' /\ [Next]_vars => QueueInv'
<1> SUFFICES ASSUME IInv, TypeOK', [Next]_vars PROVE QueueInv'
  OBVIOUS
<1> USE SizeAssumption, ModulusLarge
    DEF IInv, TypeOK, ringVars, writerVars, readerVars, QueueInv
<1>1. CASE StoragePointData
  BY <1>1 DEF StoragePointData, RingInv, WriterInv, ReaderInv, WrSeen
<1>2. CASE PushLidarData
  BY <1>2 DEF PushLidarData, RingInv, WriterInv, ReaderInv, WrSeen
<1>3. CASE EndFrame
  BY <1>3 DEF EndFrame, RingInv, WriterInv, ReaderInv, WrSeen
<1>4. CASE InitQueueAlloc
  BY <1>4 DEF InitQueueAlloc, RingInv, WriterInv, ReaderInv, WrSeen
<1>5. CASE InitQueueMask
  BY <1>5 DEF InitQueueMask, RingInv, WriterInv, ReaderInv, WrSeen
<1>6. CASE QueueIsFull
  <2>1. WrSeen(cur) \in 0 .. Modulus - 1 /\ rd[cur] \in 0 .. Modulus - 1
    BY Counting DEF WrSeen
  <2>2. Used(WrSeen(cur), rd[cur]) \in Int
    BY <2>1, Counting
  <2>3. mask[cur] = Size - 1 /\ allocated[cur]
    BY <1>6 DEF QueueIsFull, WriterInv
  <2>4. ppc' = "write" => Used(WrSeen(cur), rd[cur]) < Size
    BY <1>6, <2>2, <2>3 DEF QueueIsFull
  <2>5. WriterInv'
    BY <1>6, <2>3, <2>4 DEF QueueIsFull, WriterInv, WrSeen
  <2>6. RingInv' /\ ReaderInv'
    BY <1>6 DEF QueueIsFull, RingInv, ReaderInv
  <2> QED BY <2>5, <2>6
<1>7. CASE QueuePushSlot
  BY <1>7 DEF QueuePushSlot, RingInv, WriterInv, ReaderInv, WrSeen
<1>8. CASE QueuePushBump
  <2> USE DEF QueuePushBump
  <2>1. /\ wr[cur] \in 0 .. Modulus - 1 /\ rd[cur] \in 0 .. Modulus - 1
        /\ buffered = NoLidar /\ WrSeen(cur) = wr[cur]
        /\ Used(wr[cur], rd[cur]) < Size
        /\ mask[cur] = Size - 1 /\ allocated[cur]
    BY <1>8 DEF WriterInv, WrSeen
  <2>2. /\ Used(wr[cur], rd[cur]) \in Nat
        /\ Inc(wr[cur]) \in 0 .. Modulus - 1
        /\ Used(Inc(wr[cur]), rd[cur]) = Used(wr[cur], rd[cur]) + 1
        /\ Inc(wr[cur]) # rd[cur]
    BY <2>1, CountPush
  <2>3. CASE wr' = [wr EXCEPT ![cur] = Inc(@)] /\ buffered' = buffered
    <3>1. RingInv'
      BY <1>8, <2>1, <2>2, <2>3 DEF RingInv
    <3>2. WriterInv'
      BY <1>8, <2>3 DEF WriterInv
    <3>3. ReaderInv'
      BY <1>8, <2>1, <2>2, <2>3 DEF ReaderInv
    <3> QED BY <3>1, <3>2, <3>3
  <2>4. CASE buffered' = cur /\ wr' = wr
    <3>1. RingInv'
      BY <1>8, <2>1, <2>4 DEF RingInv
    <3>2. WriterInv'
      BY <1>8, <2>4 DEF WriterInv
    <3>3. ReaderInv'
      BY <1>8, <2>4 DEF ReaderInv
    <3> QED BY <3>1, <3>2, <3>3
  <2> QED BY <1>8, <2>3, <2>4
<1>9. CASE QueueIsEmpty
  BY <1>9 DEF QueueIsEmpty, RingInv, WriterInv, ReaderInv, WrSeen
<1>10. CASE GetCount
  BY <1>10 DEF GetCount, RingInv, WriterInv, ReaderInv, WrSeen
<1>11. CASE Signal
  BY <1>11 DEF Signal, RingInv, WriterInv, ReaderInv, WrSeen
<1>12. CASE FlushStore
  <2> USE DEF FlushStore
  <2>1. /\ buffered \in Lidars
        /\ wr[buffered] \in 0 .. Modulus - 1 /\ rd[buffered] \in 0 .. Modulus - 1
        /\ WrSeen(buffered) = Inc(wr[buffered])
        /\ Used(wr[buffered], rd[buffered]) < Size
        /\ mask[buffered] # 0
    BY <1>12 DEF RingInv, WrSeen
  <2>2. /\ Used(wr[buffered], rd[buffered]) \in Nat
        /\ Used(Inc(wr[buffered]), rd[buffered]) = Used(wr[buffered], rd[buffered]) + 1
        /\ Inc(wr[buffered]) # rd[buffered]
    BY <2>1, CountPush
  <2>3. RingInv'
    BY <1>12, <2>1, <2>2 DEF RingInv
  <2>4. WrSeen(cur)' = WrSeen(cur)
    BY <1>12, <2>1 DEF WrSeen
  <2>5. WriterInv'
    BY <1>12, <2>4 DEF WriterInv
  <2>6. ReaderInv'
    BY <1>12, <2>1, <2>2 DEF ReaderInv
  <2> QED BY <2>3, <2>5, <2>6
<1>13. CASE IsRequestExit
  BY <1>13 DEF IsRequestExit, RingInv, WriterInv, ReaderInv, WrSeen
<1>14. CASE Wait
  BY <1>14 DEF Wait, RingInv, WriterInv, ReaderInv, WrSeen
<1>15. CASE ScanLidar
  BY <1>15 DEF ScanLidar, RingInv, WriterInv, ReaderInv, WrSeen
<1>16. CASE EndScan
  BY <1>16 DEF EndScan, RingInv, WriterInv, ReaderInv, WrSeen
<1>17. CASE PollingLidarPointCloudData
  BY <1>17 DEF PollingLidarPointCloudData, RingInv, WriterInv, ReaderInv, WrSeen
<1>18. CASE PublishPointcloud
  BY <1>18 DEF PublishPointcloud, RingInv, WriterInv, ReaderInv, WrSeen
<1>19. CASE QueuePrePop
  BY <1>19 DEF QueuePrePop, RingInv, WriterInv, ReaderInv, WrSeen
<1>20. CASE QueuePopUpdate
  <2> USE DEF QueuePopUpdate
  <2>1. /\ scan \in Lidars /\ allocated[scan] /\ wr[scan] # rd[scan]
        /\ wr[scan] \in 0 .. Modulus - 1 /\ rd[scan] \in 0 .. Modulus - 1
        /\ Used(wr[scan], rd[scan]) <= Size
        /\ buffered = scan => Used(wr[scan], rd[scan]) < Size
        /\ mask[scan] # 0
    BY <1>20 DEF RingInv, ReaderInv
  <2>2. /\ Used(wr[scan], rd[scan]) \in Nat
        /\ Used(wr[scan], Inc(rd[scan])) = Used(wr[scan], rd[scan]) - 1
    BY <2>1, CountPop
  <2>3. RingInv'
    BY <1>20, <2>1, <2>2 DEF RingInv
  <2>4. ASSUME ppc \in {"write", "bump"}, cur = scan
        PROVE  Used(WrSeen(scan), Inc(rd[scan])) < Size
    <3>1. CASE buffered = scan
      <4>1. /\ Inc(wr[scan]) \in 0 .. Modulus - 1
            /\ Used(Inc(wr[scan]), rd[scan]) = Used(wr[scan], rd[scan]) + 1
            /\ Inc(wr[scan]) # rd[scan]
        BY <2>1, <3>1, CountPush
      <4>2. Used(Inc(wr[scan]), Inc(rd[scan])) = Used(Inc(wr[scan]), rd[scan]) - 1
        BY <4>1, <2>1, CountPop
      <4>3. Used(Inc(wr[scan]), Inc(rd[scan])) < Size
        BY <4>1, <4>2, <2>1, <2>2, <3>1
      <4> QED BY <4>3, <3>1 DEF WrSeen
    <3>2. CASE buffered # scan
      BY <3>2, <2>2, <2>4, <1>20 DEF WriterInv, WrSeen
    <3> QED BY <3>1, <3>2
  <2>5. WriterInv'
    BY <1>20, <2>1, <2>4 DEF WriterInv, WrSeen
  <2>6. ReaderInv'
    BY <1>20 DEF ReaderInv
  <2> QED BY <2>3, <2>5, <2>6
<1>21. CASE PollFuture
  BY <1>21 DEF PollFuture, RingInv, WriterInv, ReaderInv, WrSeen
<1>22. CASE RequestExit
  BY <1>22 DEF RequestExit, RingInv, WriterInv, ReaderInv, WrSeen
<1>23. CASE SetExitSignal
  BY <1>23 DEF SetExitSignal, RingInv, WriterInv, ReaderInv, WrSeen
<1>24. CASE JoinPollThread
  BY <1>24 DEF JoinPollThread, RingInv, WriterInv, ReaderInv, WrSeen
<1>25. ASSUME NEW l \in Lidars, StartSampling(l) PROVE QueueInv'
  BY <1>25 DEF StartSampling, RingInv, WriterInv, ReaderInv, WrSeen
<1>26. CASE UNCHANGED vars
  BY <1>26 DEF vars, RingInv, WriterInv, ReaderInv, WrSeen
<1> QED
  BY <1>1, <1>2, <1>3, <1>4, <1>5, <1>6, <1>7, <1>8, <1>9, <1>10, <1>11, <1>12, <1>13, <1>14, <1>15, <1>16, <1>17, <1>18, <1>19, <1>20, <1>21, <1>22, <1>23, <1>24, <1>25, <1>26
  DEF Next, WriterStep, ReaderStep

-----------------------------------------------------------------------------
(***************************************************************************)
(* The theorems                                                            *)
(***************************************************************************)

LEMMA Invariance == Spec => []IInv
<1>1. IInv /\ [Next]_vars => IInv'
  BY StepType, StepQueue DEF IInv
<1> QED BY InitIInv, <1>1, PTL DEF Spec

\* The variables keep their types in every behaviour of the driver.
THEOREM TypeCorrect == Spec => []TypeOK
<1>1. IInv => TypeOK
  BY DEF IInv
<1> QED BY <1>1, Invariance, PTL

\* No queue overruns its ring, and both threads' view of it stays true.
THEOREM QueueCorrect == Spec => []QueueInv
<1>1. IInv => QueueInv
  BY DEF IInv
<1> QED BY <1>1, Invariance, PTL

\* The writer fills no slot the reader is copying: there is room for the slot
\* being filled and a packet in the slot being copied, hence the counters lie
\* strictly between 0 and Size apart and index different slots.
THEOREM NoRaceOnSlots == Spec => []NoSlotRace
<1>1. IInv => NoSlotRace
  <2> SUFFICES ASSUME IInv, ppc = "write", cpc = "copy", cur = scan,
                      Slot(WrSeen(cur)) = Slot(rd[scan])
               PROVE  FALSE
    BY DEF NoSlotRace
  <2> USE DEF IInv, TypeOK, QueueInv
  <2>1. /\ wr[cur] \in 0 .. Modulus - 1 /\ rd[cur] \in 0 .. Modulus - 1
        /\ wr[cur] # rd[cur] /\ Used(WrSeen(cur), rd[cur]) < Size
        /\ buffered = cur => Used(wr[cur], rd[cur]) < Size
    BY DEF RingInv, WriterInv, ReaderInv
  <2>2. Used(WrSeen(cur), rd[cur]) > 0 /\ WrSeen(cur) \in 0 .. Modulus - 1
    <3>1. CASE buffered = cur
      BY <3>1, <2>1, CountPush DEF WrSeen
    <3>2. CASE buffered # cur
      BY <3>2, <2>1, Counting DEF WrSeen
    <3> QED BY <3>1, <3>2
  <2> QED BY <2>1, <2>2, SlotsDiffer
<1> QED BY <1>1, Invariance, PTL

\* The unlocked look at the semaphore's count never lets it exceed one.
THEOREM BinarySemaphore == Spec => []SemaphoreBinary
<1>1. IInv => SemaphoreBinary
  BY DEF IInv, TypeOK, QueueInv, WriterInv, SemaphoreBinary
<1> QED BY <1>1, Invariance, PTL

-----------------------------------------------------------------------------
(***************************************************************************)
(* Lost wakeups                                                            *)
(***************************************************************************)

\* The reader still comes past lidar l, with no further signal, before it
\* sleeps again; or it has seen the exit request and never sleeps again.
WillVisit(l) ==
  \/ count > 0
  \/ cpc \in {"scan", "polling", "publish", "copy", "pop"} /\ scan <= l
  \/ exit # "run" /\ cpc # "wait"

\* The sampling lidars whose packets wait for a later push
Missed == {l \in sampling \ late : Unread(l) > 0 /\ ~WillVisit(l)}

OnePacketOf(S) == \A l, m \in S : Unread(l) <= 1 /\ l = m

\* Until the writer has looked at the count, the packet it just pushed does
\* not matter; afterwards nothing is missed as long as a store is pending.
StrandInv ==
  /\ ppc = "isempty" => buffered \in {NoLidar, cur} /\ OnePacketOf(Missed \ {cur})
  /\ ppc \notin {"isempty", "getcount", "signal"} =>
       IF buffered = NoLidar THEN OnePacketOf(Missed) ELSE Missed = {}


LEMMA UnreadType ==
  /\ TypeOK => \A l \in Lidars : Unread(l) \in Nat
  /\ TypeOK' => \A l \in Lidars : Unread(l)' \in Nat
<1>1. ASSUME TypeOK, NEW l \in Lidars PROVE Unread(l) \in Nat
  <2>1. wr[l] \in 0 .. Modulus - 1 /\ rd[l] \in 0 .. Modulus - 1
    BY <1>1 DEF TypeOK
  <2>2. Used(wr[l], rd[l]) \in 0 .. Modulus - 1
    BY <2>1, Counting
  <2> QED BY <2>2, ModulusAssumption DEF Unread
<1>2. ASSUME TypeOK', NEW l \in Lidars PROVE Unread(l)' \in Nat
  <2>1. wr'[l] \in 0 .. Modulus - 1 /\ rd'[l] \in 0 .. Modulus - 1
    BY <1>2 DEF TypeOK
  <2>2. Used(wr'[l], rd'[l]) \in 0 .. Modulus - 1
    BY <2>1, Counting
  <2> QED BY <2>2, ModulusAssumption DEF Unread
<1> QED BY <1>1, <1>2

\* A step that pushes nothing and keeps the reader's way to every lidar with
\* packets strands nothing.
LEMMA NothingMissed ==
  ASSUME TypeOK, TypeOK', sampling' \ late' \subseteq sampling \ late,
         \A l \in Lidars : Unread(l)' <= Unread(l),
         \A l \in sampling : Unread(l)' > 0 /\ WillVisit(l) => WillVisit(l)'
  PROVE  /\ Missed' \subseteq Missed
         /\ Missed \subseteq Lidars
         /\ \A l \in Lidars : Unread(l) <= 1 => Unread(l)' <= 1
<1>1. \A l \in Lidars : Unread(l) \in Nat /\ Unread(l)' \in Nat
  BY UnreadType
<1>3. ASSUME NEW l \in Missed' PROVE l \in Missed
  <2>1. l \in sampling' \ late' /\ Unread(l)' > 0 /\ ~WillVisit(l)'
    BY <1>3 DEF Missed
  <2>2. l \in sampling \ late /\ l \in Lidars
    BY <2>1 DEF TypeOK
  <2>3. ~WillVisit(l)
    BY <2>1, <2>2
  <2>4. Unread(l) > 0
    BY <2>1, <2>2, <1>1
  <2> QED BY <2>2, <2>3, <2>4 DEF Missed
<1>4. Missed \subseteq Lidars
  BY DEF TypeOK, Missed
<1> QED BY <1>1, <1>3, <1>4

\* The same for StrandInv, when the writer stays where it is.
LEMMA WriterStays ==
  ASSUME TypeOK, TypeOK', StrandInv, sampling' \ late' \subseteq sampling \ late,
         \A l \in Lidars : Unread(l)' <= Unread(l),
         \A l \in sampling : Unread(l)' > 0 /\ WillVisit(l) => WillVisit(l)',
         ppc' = ppc, cur' = cur, buffered' = buffered
  PROVE  StrandInv'
BY NothingMissed DEF StrandInv, OnePacketOf

\* A signal, or a count that is already positive, leaves nothing missed.
LEMMA AllVisited == count > 0 => Missed = {}
BY DEF Missed, WillVisit

LEMMA StepStrand == IInv /\ IInv' /\ StrandInv /\ [Next]_vars => StrandInv'
<1> SUFFICES ASSUME IInv, IInv', StrandInv, [Next]_vars PROVE StrandInv'
  OBVIOUS
<1>a. TypeOK /\ TypeOK'
  BY DEF IInv
<1>b. \A l \in Lidars : Unread(l) \in Nat /\ Unread(l)' \in Nat
  BY <1>a, UnreadType
<1> USE DEF ringVars, writerVars, readerVars
<1>1. ASSUME ppc \notin {"isempty", "getcount", "signal"}, ppc' \notin {"isempty", "getcount", "signal"},
             UNCHANGED <<wr, rd, buffered, sampling, late, count, exit, cpc, scan>>
      PROVE  StrandInv'
  BY <1>1 DEF StrandInv, OnePacketOf, Missed, WillVisit, Unread
<1>2. CASE StoragePointData
  BY <1>1, <1>2 DEF StoragePointData
<1>3. CASE PushLidarData
  BY <1>1, <1>3 DEF PushLidarData
<1>4. CASE EndFrame
  BY <1>1, <1>4 DEF EndFrame
<1>5. CASE InitQueueAlloc
  BY <1>1, <1>5 DEF InitQueueAlloc
<1>6. CASE InitQueueMask
  <2>1. wr[cur] = 0 /\ rd[cur] = 0
    BY <1>6 DEF InitQueueMask, IInv, TypeOK, QueueInv, WriterInv, RingInv
  <2>2. wr' = wr /\ rd' = rd
    BY <1>6, <2>1, <1>a DEF InitQueueMask, TypeOK
  <2> QED BY <1>1, <1>6, <2>2 DEF InitQueueMask
<1>7. CASE QueueIsFull
  <2>1. CASE ppc' = "write"
    BY <1>1, <1>7, <2>1 DEF QueueIsFull
  <2>2. CASE ppc' = "getcount"
    BY <2>2 DEF StrandInv
  <2> QED BY <1>7, <2>1, <2>2 DEF QueueIsFull
<1>8. CASE QueuePushSlot
  BY <1>1, <1>8 DEF QueuePushSlot
<1>9. CASE QueuePushBump
  <2>1. buffered = NoLidar /\ OnePacketOf(Missed) /\ cur \in Lidars
    BY <1>9, <1>a DEF QueuePushBump, IInv, QueueInv, WriterInv, StrandInv, TypeOK
  <2>2. /\ ppc' = "isempty" /\ cur' = cur /\ buffered' \in {NoLidar, cur}
        /\ sampling' = sampling /\ late' = late
        /\ \A l \in Lidars \ {cur} : Unread(l)' = Unread(l)
        /\ \A l \in Lidars : WillVisit(l)' = WillVisit(l)
    BY <1>9, <1>a, <2>1 DEF QueuePushBump, TypeOK, Unread, WillVisit
  <2>3. (Missed \ {cur})' \subseteq Missed /\ (Missed \ {cur})' \subseteq Lidars \ {cur}
    BY <2>2, <1>a DEF Missed, TypeOK
  <2>4. OnePacketOf(Missed \ {cur})'
    BY <2>1, <2>2, <2>3 DEF OnePacketOf
  <2> QED BY <2>2, <2>4 DEF StrandInv
<1>10. CASE QueueIsEmpty
  <2>1. CASE ppc' = "getcount"
    BY <2>1 DEF StrandInv
  <2>2. CASE ppc' # "getcount"
    <3>1. /\ ppc' = "next" /\ WrSeen(cur) = rd[cur] /\ ppc = "isempty"
          /\ UNCHANGED <<wr, rd, buffered, sampling, late, count, exit, cpc, scan, cur>>
      BY <1>10, <2>2 DEF QueueIsEmpty
    <3>2. /\ cur \in Lidars /\ wr[cur] \in 0 .. Modulus - 1 /\ rd[cur] \in 0 .. Modulus - 1
          /\ buffered = cur => Used(wr[cur], rd[cur]) < Size
      BY <1>a DEF IInv, TypeOK, QueueInv, RingInv
    <3>3. buffered # cur
      BY <3>1, <3>2, CountPush DEF WrSeen
    <3>4. buffered = NoLidar /\ OnePacketOf(Missed \ {cur})
      BY <3>1, <3>3 DEF StrandInv
    <3>5. Unread(cur) = 0
      BY <3>1, <3>2, <3>3, Counting DEF WrSeen, Unread
    <3>6. Missed \ {cur} = Missed
      BY <3>5 DEF Missed
    <3>7. OnePacketOf(Missed)'
      BY <3>1, <3>4, <3>6 DEF OnePacketOf, Missed, WillVisit, Unread
    <3> QED BY <3>1, <3>4, <3>7 DEF StrandInv
  <2> QED BY <2>1, <2>2
<1>11. CASE GetCount
  <2>1. CASE count <= 0
    BY <1>11, <2>1 DEF GetCount, StrandInv
  <2>2. CASE ~(count <= 0)
    <3>1. count' > 0 /\ ppc' = "next"
      BY <1>11, <2>2, <1>a DEF GetCount, TypeOK
    <3>2. Missed' = {}
      BY <3>1 DEF Missed, WillVisit
    <3> QED BY <3>1, <3>2 DEF StrandInv, OnePacketOf
  <2> QED BY <2>1, <2>2
<1>12. CASE Signal
  <2>1. count' > 0 /\ ppc' = "next"
    BY <1>12, <1>a DEF Signal, TypeOK
  <2>2. Missed' = {}
    BY <2>1 DEF Missed, WillVisit
  <2> QED BY <2>1, <2>2 DEF StrandInv, OnePacketOf
<1>13. CASE FlushStore
  <2>1. /\ buffered \in Lidars /\ buffered' = NoLidar /\ ppc' = ppc /\ cur' = cur
        /\ UNCHANGED <<rd, sampling, late, count, exit, cpc, scan>>
        /\ wr[buffered] \in 0 .. Modulus - 1 /\ rd[buffered] \in 0 .. Modulus - 1
        /\ Used(wr[buffered], rd[buffered]) < Size
        /\ wr'[buffered] = Inc(wr[buffered])
        /\ \A l \in Lidars \ {buffered} : wr'[l] = wr[l]
    BY <1>13, <1>a DEF FlushStore, IInv, TypeOK, QueueInv, RingInv
  <2>2. /\ Unread(buffered) + 1 = Used(wr'[buffered], rd'[buffered])
        /\ \A l \in Lidars \ {buffered} : Unread(l)' = Unread(l)
        /\ \A l \in Lidars : WillVisit(l)' = WillVisit(l)
    BY <2>1, CountPush DEF Unread, WillVisit
  <2>3. \A l \in Missed' : l \in Missed \/ l = buffered
    BY <2>1, <2>2, <1>a DEF Missed, TypeOK
  <2>4. Missed \subseteq Lidars
    BY <1>a DEF Missed, TypeOK
  <2>5. CASE ppc = "isempty"
    <3>1. buffered = cur /\ OnePacketOf(Missed \ {cur})
      BY <2>1, <2>5 DEF StrandInv
    <3>2. OnePacketOf(Missed \ {cur})'
      BY <3>1, <2>1, <2>2, <2>3, <2>4 DEF OnePacketOf
    <3> QED BY <2>1, <2>5, <3>2 DEF StrandInv
  <2>6. CASE ppc \notin {"isempty", "getcount", "signal"}
    <3>1. Missed = {}
      BY <2>1, <2>6 DEF StrandInv
    <3>2. \A l \in Missed' : l = buffered /\ Unread(l)' <= 1
      <4> SUFFICES ASSUME NEW l \in Missed' PROVE l = buffered /\ Unread(l)' <= 1
        OBVIOUS
      <4>1. l = buffered
        BY <2>3, <3>1
      <4>2. l \in sampling \ late /\ ~WillVisit(l)
        BY <2>1, <2>2, <4>1 DEF Missed
      <4>3. ~(Unread(buffered) > 0)
        BY <4>1, <4>2, <3>1 DEF Missed
      <4>4. Unread(l)' = Used(wr'[buffered], rd'[buffered])
        BY <4>1 DEF Unread
      <4> QED BY <4>1, <4>3, <4>4, <2>1, <2>2, <1>b
    <3>3. OnePacketOf(Missed)'
      BY <3>2 DEF OnePacketOf
    <3> QED BY <2>1, <2>6, <3>3 DEF StrandInv
  <2>7. CASE ppc \in {"getcount", "signal"}
    BY <2>1, <2>7 DEF StrandInv
  <2> QED BY <2>5, <2>6, <2>7
<1> DEFINE Way == \A l \in sampling : Unread(l)' > 0 /\ WillVisit(l) => WillVisit(l)'
           Still == UNCHANGED <<sampling, late, ppc, cur, buffered>>
                    /\ \A l \in Lidars : Unread(l)' <= Unread(l)
<1>14. ASSUME Still, Way PROVE StrandInv'
  BY <1>14, <1>a, WriterStays
<1> HIDE DEF Still, Way
<1>15. ASSUME UNCHANGED <<sampling, late, ppc, cur, buffered, wr, rd>> PROVE Still
  BY <1>15, <1>b DEF Still, Unread
<1>16. \A l \in sampling : l \in Lidars /\ l \in Nat
  BY <1>a DEF TypeOK
<1>17. CASE IsRequestExit
  <2>1. Way
    BY <1>17 DEF IsRequestExit, Way, WillVisit
  <2> QED BY <1>14, <1>15, <1>17, <2>1 DEF IsRequestExit
<1>18. CASE Wait
  <2>1. Way
    BY <1>16, <1>18 DEF Wait, Way, WillVisit
  <2> QED BY <1>14, <1>15, <1>18, <2>1 DEF Wait
<1>19. CASE ScanLidar
  <2>1. ASSUME NEW l \in sampling, Unread(l)' > 0, WillVisit(l) PROVE WillVisit(l)'
    <3>1. CASE scan \in sampling /\ allocated[scan]
      BY <1>19, <2>1, <3>1 DEF ScanLidar, WillVisit
    <3>2. CASE ~(scan \in sampling /\ allocated[scan])
      <4>1. CASE l = scan
        <5>1. ~allocated[l] /\ l \in Lidars
          BY <3>2, <4>1, <1>16
        <5>2. wr[l] = 0 /\ rd[l] = 0 /\ wr' = wr /\ rd' = rd
          BY <5>1, <1>19 DEF ScanLidar, IInv, QueueInv, RingInv
        <5>3. Unread(l)' = 0
          BY <5>2 DEF Unread, Used
        <5> QED BY <5>3, <2>1
      <4>2. CASE l # scan
        <5>1. scan' = scan + 1 /\ cpc' = "scan" /\ cpc = "scan" /\ UNCHANGED <<count, exit>>
          BY <1>19, <3>2 DEF ScanLidar
        <5>2. scan <= l => scan + 1 <= l
          BY <4>2, <1>16, <1>a DEF TypeOK
        <5> QED BY <5>1, <5>2, <2>1 DEF WillVisit
      <4> QED BY <4>1, <4>2
    <3> QED BY <3>1, <3>2
  <2>2. Way
    BY <2>1 DEF Way
  <2> QED BY <1>14, <1>15, <1>19, <2>2 DEF ScanLidar
<1>20. CASE EndScan
  <2>1. Way
    BY <1>16, <1>20, <1>a, LidarsAssumption DEF EndScan, Way, WillVisit, TypeOK
  <2> QED BY <1>14, <1>15, <1>20, <2>1 DEF EndScan
<1>21. CASE PollingLidarPointCloudData
  <2>1. ASSUME NEW l \in sampling, Unread(l)' > 0, WillVisit(l) PROVE WillVisit(l)'
    <3>1. CASE exit = "run" /\ wr[scan] # rd[scan]
      BY <1>21, <2>1, <3>1 DEF PollingLidarPointCloudData, WillVisit
    <3>2. CASE exit # "run"
      BY <1>21, <3>2 DEF PollingLidarPointCloudData, WillVisit
    <3>3. CASE exit = "run" /\ wr[scan] = rd[scan]
      <4>1. /\ scan' = scan + 1 /\ cpc' = "scan" /\ UNCHANGED <<count, exit, wr, rd>>
        BY <1>21, <3>3 DEF PollingLidarPointCloudData
      <4>2. l # scan
        <5> SUFFICES ASSUME l = scan PROVE FALSE
          OBVIOUS
        <5>1. wr'[l] = rd'[l] /\ l \in Lidars
          BY <4>1, <3>3, <1>16
        <5>2. Unread(l)' = 0
          BY <5>1, <1>a DEF Unread, Used, TypeOK
        <5> QED BY <5>2, <2>1
      <4>3. scan <= l => scan + 1 <= l
        BY <4>2, <1>16, <1>a DEF TypeOK
      <4> QED BY <4>1, <4>3, <2>1, <3>3 DEF WillVisit
    <3> QED BY <3>1, <3>2, <3>3
  <2>2. Way
    BY <2>1 DEF Way
  <2> QED BY <1>14, <1>15, <1>21, <2>2 DEF PollingLidarPointCloudData
<1>22. CASE PublishPointcloud
  <2>1. Way
    BY <1>22 DEF PublishPointcloud, Way, WillVisit
  <2> QED BY <1>14, <1>15, <1>22, <2>1 DEF PublishPointcloud
<1>23. CASE QueuePrePop
  <2>1. Way
    BY <1>23 DEF QueuePrePop, Way, WillVisit
  <2> QED BY <1>14, <1>15, <1>23, <2>1 DEF QueuePrePop
<1>24. CASE QueuePopUpdate
  <2>1. Way
    BY <1>24 DEF QueuePopUpdate, Way, WillVisit
  <2>2. /\ scan \in Lidars /\ wr[scan] \in 0 .. Modulus - 1 /\ rd[scan] \in 0 .. Modulus - 1
        /\ wr[scan] # rd[scan]
    BY <1>24, <1>a, LidarsAssumption DEF QueuePopUpdate, IInv, QueueInv, ReaderInv, TypeOK
  <2>3. /\ wr' = wr /\ rd'[scan] = Inc(rd[scan])
        /\ \A l \in Lidars \ {scan} : rd'[l] = rd[l]
    BY <1>24, <1>a, <2>2 DEF QueuePopUpdate, TypeOK
  <2>4. \A l \in Lidars \ {scan} : Unread(l)' = Unread(l)
    BY <2>3 DEF Unread
  <2>5. Unread(scan) - 1 = Used(wr'[scan], rd'[scan])
    BY <2>2, <2>3, CountPop DEF Unread
  <2>6. \A l \in Lidars : Unread(l)' <= Unread(l)
    <3> SUFFICES ASSUME NEW l \in Lidars PROVE Unread(l)' <= Unread(l)
      OBVIOUS
    <3>1. CASE l = scan
      <4>1. Unread(l)' = Used(wr'[scan], rd'[scan])
        BY <3>1 DEF Unread
      <4> QED BY <3>1, <4>1, <2>5, <1>b
    <3>2. CASE l # scan
      BY <3>2, <2>4, <1>b
    <3> QED BY <3>1, <3>2
  <2>7. Still
    BY <1>24, <2>6 DEF QueuePopUpdate, Still
  <2> QED BY <1>14, <2>1, <2>7
<1>25. CASE PollFuture
  <2>1. Way
    BY <1>25 DEF PollFuture, Way, WillVisit
  <2> QED BY <1>14, <1>15, <1>25, <2>1 DEF PollFuture
<1>26. ASSUME NEW l \in Lidars, StartSampling(l) PROVE StrandInv'
  <2>1. /\ sampling' \ late' = sampling \ late
        /\ UNCHANGED <<wr, rd, count, exit, cpc, scan, ppc, cur, buffered>>
    BY <1>26 DEF StartSampling
  <2> QED BY <2>1 DEF StrandInv, OnePacketOf, Missed, WillVisit, Unread
<1>27. CASE RequestExit
  <2>1. Way
    BY <1>27 DEF RequestExit, Way, WillVisit
  <2> QED BY <1>14, <1>15, <1>27, <2>1 DEF RequestExit
<1>28. CASE SetExitSignal
  <2>1. Way
    BY <1>28 DEF SetExitSignal, Way, WillVisit
  <2> QED BY <1>14, <1>15, <1>28, <2>1 DEF SetExitSignal
<1>29. CASE JoinPollThread
  <2>1. Way
    BY <1>29 DEF JoinPollThread, Way, WillVisit
  <2> QED BY <1>14, <1>15, <1>29, <2>1 DEF JoinPollThread
<1>30. CASE UNCHANGED vars
  BY <1>30 DEF vars, StrandInv, OnePacketOf, Missed, WillVisit, Unread
<1> QED
  BY <1>2, <1>3, <1>4, <1>5, <1>6, <1>7, <1>8, <1>9, <1>10, <1>11, <1>12, <1>13, <1>17, <1>18,
     <1>19, <1>20, <1>21, <1>22, <1>23, <1>24, <1>25, <1>26, <1>27, <1>28, <1>29, <1>30
  DEF Next, WriterStep, ReaderStep

\* However late the store to wr_idx becomes visible, at most one packet waits
\* for the next push while the reader sleeps.
THEOREM StrandedAtMostOne == Spec => []AtMostOneStranded
<1>1. Init => StrandInv
  <2> SUFFICES ASSUME Init PROVE StrandInv
    OBVIOUS
  <2>1. \A l \in Lidars : Unread(l) = 0
    BY DEF Init, Unread, Used
  <2>2. Missed = {}
    <3>1. \A l \in sampling \ late : Unread(l) = 0
      BY <2>1, LidarsAssumption DEF Init
    <3> QED BY <3>1 DEF Missed
  <2> QED BY <2>2 DEF Init, StrandInv, OnePacketOf
<1>2. IInv /\ StrandInv => AtMostOneStranded
  <2> SUFFICES ASSUME IInv, StrandInv, ReaderAsleep, ppc = "idle", buffered = NoLidar,
                      NEW l \in sampling \ late, NEW m \in sampling \ late
               PROVE  Unread(l) <= 1 /\ (Unread(l) = 1 /\ Unread(m) = 1 => l = m)
    BY DEF AtMostOneStranded
  <2>1. OnePacketOf(Missed)
    BY DEF StrandInv
  <2>2. \A k \in sampling \ late : Unread(k) \in Nat /\ ~WillVisit(k)
    <3>1. \A k \in Lidars : Unread(k) \in Nat
      BY UnreadType DEF IInv
    <3> QED BY <3>1 DEF IInv, TypeOK, WillVisit, ReaderAsleep
  <2>3. \A k \in sampling \ late : Unread(k) > 0 => k \in Missed
    BY <2>2 DEF Missed
  <2> QED BY <2>1, <2>2, <2>3 DEF OnePacketOf
<1> QED BY <1>1, <1>2, StepStrand, Invariance, PTL DEF Spec

-----------------------------------------------------------------------------
(***************************************************************************)
(* The slots between the counters, oldest packet first                     *)
(***************************************************************************)

Window(s, w, r) == [i \in 1 .. Used(w, r) |-> s[Slot(r + i - 1)]]

\* Slots repeat with the width of the counters.
LEMMA SlotPeriod == ASSUME NEW x \in Nat PROVE Slot(x + Modulus) = Slot(x)
<1>1. PICK k \in 2 .. Modulus : Modulus = k * Size
  BY ModulusAssumption
<1> DEFINE y == x + Modulus
<1>2. y \in Nat
  BY ModulusAssumption
<1>3. /\ x = Size * (x \div Size) + (x % Size) /\ x \div Size \in Int
      /\ y = Size * (y \div Size) + (y % Size) /\ y \div Size \in Int
      /\ x % Size \in 0 .. Size - 1 /\ y % Size \in 0 .. Size - 1
  BY <1>2, DivMod
<1> DEFINE a == x \div Size
           b == y \div Size
           c == x % Size
           d == y % Size
<1>4. a \in Int /\ b \in Int /\ c \in 0 .. Size - 1 /\ d \in 0 .. Size - 1 /\ k \in Int
      /\ x = Size * a + c /\ y = Size * b + d
  BY <1>3
<1>5. y = x + k * Size
  BY <1>1
<1> HIDE DEF a, b, c, d, y
<1>6. c - d = Size * (b - a - k)
  BY <1>4, <1>5, SizeAssumption
<1>7. d - c = Size * (a + k - b)
  BY <1>4, <1>5, SizeAssumption
<1>8. ~(c - d > 0)
  BY <1>4, <1>6, NoMultiple, SizeAssumption
<1>9. ~(d - c > 0)
  BY <1>4, <1>7, NoMultiple, SizeAssumption
<1>10. c = d
  BY <1>4, <1>8, <1>9, SizeAssumption
<1> QED BY <1>10 DEF c, d, y, Slot

\* One past the last queued packet is the slot the writer fills next.
LEMMA SlotOfNext ==
  ASSUME NEW w \in 0 .. Modulus - 1, NEW r \in 0 .. Modulus - 1
  PROVE  Slot(r + Used(w, r)) = Slot(w)
<1>1. CASE w >= r
  BY <1>1 DEF Used
<1>2. CASE ~(w >= r)
  <2>1. r + Used(w, r) = w + Modulus
    BY <1>2, ModulusAssumption DEF Used
  <2> QED BY <2>1, SlotPeriod
<1> QED BY <1>1, <1>2

LEMMA SlotAfterInc ==
  ASSUME NEW r \in 0 .. Modulus - 1, NEW i \in Nat, i > 0
  PROVE  Slot(Inc(r) + i - 1) = Slot(r + i)
<1>1. CASE r = Modulus - 1
  <2>1. r + i = (i - 1) + Modulus /\ i - 1 \in Nat
    BY <1>1, ModulusAssumption
  <2>2. Slot(r + i) = Slot(i - 1)
    BY <2>1, SlotPeriod
  <2>3. Inc(r) + i - 1 = i - 1
    BY <1>1 DEF Inc
  <2> QED BY <2>2, <2>3
<1>2. CASE r # Modulus - 1
  <2>1. Inc(r) + i - 1 = r + i
    BY <1>2 DEF Inc
  <2> QED BY <2>1
<1> QED BY <1>1, <1>2

\* While there is room, the slot to fill next is none of the queued ones.
LEMMA NextSlotFree ==
  ASSUME NEW w \in 0 .. Modulus - 1, NEW r \in 0 .. Modulus - 1, Used(w, r) < Size,
         NEW i \in 1 .. Used(w, r)
  PROVE  Slot(r + i - 1) # Slot(w)
<1>1. Used(w, r) \in Nat /\ i \in Nat /\ i > 0 /\ i <= Used(w, r)
  BY CountPush
<1>2. CASE r + i - 1 < Modulus
  <2> DEFINE q == r + i - 1
  <2>1. q \in 0 .. Modulus - 1
    BY <1>1, <1>2, ModulusAssumption
  <2>2. Used(w, q) = Used(w, r) - (i - 1)
    BY <1>1, <1>2, ModulusAssumption DEF Used
  <2>3. 0 < Used(w, q) /\ Used(w, q) < Size
    BY <1>1, <2>2, SizeAssumption
  <2> HIDE DEF q
  <2>4. Slot(q) # Slot(w)
    BY <2>1, <2>3, SlotsDiffer
  <2> QED BY <2>4 DEF q
<1>3. CASE ~(r + i - 1 < Modulus)
  <2> DEFINE q == r + i - 1 - Modulus
  <2>1. q \in 0 .. Modulus - 1 /\ q \in Nat
    BY <1>1, <1>3, ModulusLarge, SizeAssumption
  <2>2. Used(w, q) = Used(w, r) - (i - 1)
    BY <1>1, <1>3, ModulusLarge, SizeAssumption DEF Used
  <2>3. 0 < Used(w, q) /\ Used(w, q) < Size
    BY <1>1, <2>2, SizeAssumption
  <2>4. r + i - 1 = q + Modulus
    BY <1>1, ModulusAssumption
  <2> HIDE DEF q
  <2>5. Slot(q) # Slot(w)
    BY <2>1, <2>3, SlotsDiffer
  <2> QED BY <2>1, <2>4, <2>5, SlotPeriod
<1> QED BY <1>1, <1>2, <1>3

LEMMA WindowType ==
  ASSUME NEW s \in [0 .. Size - 1 -> Nat], NEW w \in 0 .. Modulus - 1, NEW r \in 0 .. Modulus - 1
  PROVE  Window(s, w, r) \in Seq(Nat) /\ Len(Window(s, w, r)) = Used(w, r)
<1>1. Used(w, r) \in Nat
  <2>1. Used(w, r) \in 0 .. Modulus - 1
    BY Counting
  <2> QED BY <2>1, ModulusAssumption
<1>2. ASSUME NEW i \in 1 .. Used(w, r) PROVE s[Slot(r + i - 1)] \in Nat
  <2>1. r + i - 1 \in Nat
    BY <1>1, ModulusAssumption
  <2>2. Slot(r + i - 1) \in 0 .. Size - 1
    BY <2>1, DivMod DEF Slot
  <2> QED BY <2>2
<1>3. Window(s, w, r) \in [1 .. Used(w, r) -> Nat]
  BY <1>2 DEF Window
<1>4. Window(s, w, r) \in Seq(Nat)
  BY <1>1, <1>3, IsASeq
<1> QED BY <1>1, <1>3, <1>4, LenProperties

\* wr_idx++ appends the slot that was filled.
LEMMA WindowPush ==
  ASSUME NEW s \in [0 .. Size - 1 -> Nat], NEW w \in 0 .. Modulus - 1,
         NEW r \in 0 .. Modulus - 1, Used(w, r) < Size
  PROVE  Window(s, Inc(w), r) = Append(Window(s, w, r), s[Slot(w)])
<1> DEFINE a == Window(s, Inc(w), r)
           b == Window(s, w, r)
           n == Used(w, r)
<1>1. n \in Nat /\ Inc(w) \in 0 .. Modulus - 1 /\ Used(Inc(w), r) = n + 1
  BY CountPush
<1>2. b \in Seq(Nat) /\ Len(b) = n
  BY WindowType
<1>3. a = [i \in 1 .. n + 1 |-> s[Slot(r + i - 1)]]
  BY <1>1 DEF Window
<1>4. Append(b, s[Slot(w)]) = [i \in 1 .. n + 1 |-> IF i = n + 1 THEN s[Slot(w)] ELSE b[i]]
  BY <1>1, <1>2
<1>5. ASSUME NEW i \in 1 .. n + 1
      PROVE  s[Slot(r + i - 1)] = IF i = n + 1 THEN s[Slot(w)] ELSE b[i]
  <2>1. CASE i = n + 1
    <3>1. r + i - 1 = r + n
      BY <2>1, <1>1
    <3> QED BY <2>1, <3>1, SlotOfNext
  <2>2. CASE i # n + 1
    <3>1. i \in 1 .. Used(w, r)
      BY <2>2, <1>1
    <3> QED BY <2>2, <3>1 DEF Window
  <2> QED BY <2>1, <2>2
<1> HIDE DEF a, b, n
<1>6. a = Append(b, s[Slot(w)])
  BY <1>3, <1>4, <1>5
<1> QED BY <1>6 DEF a, b

\* rd_idx++ drops the oldest.
LEMMA WindowPop ==
  ASSUME NEW s \in [0 .. Size - 1 -> Nat], NEW w \in 0 .. Modulus - 1,
         NEW r \in 0 .. Modulus - 1, w # r
  PROVE  /\ Window(s, w, r) # << >>
         /\ Head(Window(s, w, r)) = s[Slot(r)]
         /\ Window(s, w, Inc(r)) = Tail(Window(s, w, r))
<1> DEFINE a == Window(s, w, Inc(r))
           b == Window(s, w, r)
           n == Used(w, r)
<1>1. n \in Nat /\ Inc(r) \in 0 .. Modulus - 1 /\ Used(w, Inc(r)) = n - 1 /\ n > 0
  BY CountPop, Counting
<1>2. b \in Seq(Nat) /\ Len(b) = n
  BY WindowType
<1>3. \A i \in 1 .. n : b[i] = s[Slot(r + i - 1)]
  BY DEF Window
<1>4. a \in Seq(Nat) /\ Len(a) = n - 1
  BY <1>1, WindowType
<1>5. \A i \in 1 .. n - 1 : a[i] = s[Slot(Inc(r) + i - 1)]
  BY <1>1 DEF Window
<1> HIDE DEF a, b, n
<1>6. b # << >> /\ Head(b) = b[1]
  BY <1>1, <1>2
<1>7. /\ Tail(b) \in Seq(Nat) /\ Len(Tail(b)) = n - 1
      /\ \A i \in 1 .. n - 1 : Tail(b)[i] = b[i + 1]
  BY <1>2, <1>6, HeadTailProperties
<1>8. a = Tail(b)
  <2>1. ASSUME NEW i \in 1 .. n - 1 PROVE a[i] = Tail(b)[i]
    <3>1. i + 1 \in 1 .. n /\ i \in Nat /\ i > 0 /\ r + (i + 1) - 1 = r + i
      BY <1>1
    <3>2. b[i + 1] = s[Slot(r + i)]
      BY <3>1, <1>3
    <3> QED BY <3>1, <3>2, <1>5, <1>7, SlotAfterInc
  <2> QED BY <2>1, <1>4, <1>7, SeqEqual
<1>9. b[1] = s[Slot(r)]
  <2>1. 1 \in 1 .. n /\ r + 1 - 1 = r
    BY <1>1
  <2> QED BY <2>1, <1>3
<1> QED BY <1>6, <1>8, <1>9 DEF a, b

\* Filling the next slot disturbs nothing that is queued.
LEMMA WindowFill ==
  ASSUME NEW s \in [0 .. Size - 1 -> Nat], NEW w \in 0 .. Modulus - 1,
         NEW r \in 0 .. Modulus - 1, Used(w, r) < Size, NEW p \in Nat
  PROVE  Window([s EXCEPT ![Slot(w)] = p], w, r) = Window(s, w, r)
<1>1. ASSUME NEW i \in 1 .. Used(w, r)
      PROVE  [s EXCEPT ![Slot(w)] = p][Slot(r + i - 1)] = s[Slot(r + i - 1)]
  <2>1. Slot(r + i - 1) # Slot(w)
    BY NextSlotFree
  <2>2. r + i - 1 \in Nat
    BY CountPush, ModulusAssumption
  <2>3. Slot(r + i - 1) \in 0 .. Size - 1
    BY <2>2, DivMod DEF Slot
  <2> QED BY <2>1, <2>3
<1> QED BY <1>1 DEF Window

-----------------------------------------------------------------------------
(***************************************************************************)
(* Refinement of DropNewestQueue                                           *)
(***************************************************************************)

\* The packet at hand was offered and not accepted yet.
Pending(l) == cur = l /\ ppc \in {"alloc", "mask", "isfull", "write", "bump"}

\* The newest packet that may have been accepted
Newest(l) == IF Pending(l) THEN offered[l] - 1 ELSE offered[l]

AtMost(s, b) == \A n \in DOMAIN s : s[n] <= b

\* Packet p is newer than all that were accepted for lidar l.
Fits(l, p) == /\ p \in 1 .. offered[l]
              /\ AtMost(published[l], p - 1)
              /\ AtMost(Contents(l), p - 1)

\* All accepted packets are older than the one at hand, which fits at the end
\* of the queue, as does the one whose store is pending; the packet copied is
\* still the head of its queue.
FifoInv ==
  /\ \A l \in Lidars :
       /\ Pending(l) => offered[l] > 0
       /\ AtMost(published[l], Newest(l))
       /\ AtMost(Contents(l), Newest(l))
       /\ buffered = l => /\ Fits(l, slots[l][Slot(wr[l])])
                          /\ slots[l][Slot(wr[l])] <= Newest(l)
  /\ ppc = "bump" => slots[cur][Slot(wr[cur])] = offered[cur]
  /\ cpc = "pop" => val = slots[scan][Slot(rd[scan])]

LEMMA ContentsWindow == \A l \in Lidars : Contents(l) = Window(slots[l], wr[l], rd[l])
BY DEF Contents, Window, Unread

LEMMA AtMostAppend ==
  ASSUME NEW s \in Seq(Nat), NEW b \in Int, NEW p \in Nat, AtMost(s, b), p <= b
  PROVE  AtMost(Append(s, p), b)
<1>1. /\ Len(s) \in Nat /\ DOMAIN s = 1 .. Len(s)
      /\ Append(s, p) \in Seq(Nat) /\ Len(Append(s, p)) = Len(s) + 1
      /\ DOMAIN Append(s, p) = 1 .. Len(s) + 1
      /\ \A n \in 1 .. Len(s) : Append(s, p)[n] = s[n]
      /\ Append(s, p)[Len(s) + 1] = p
  OBVIOUS
<1> QED BY <1>1 DEF AtMost

LEMMA AtMostTail ==
  ASSUME NEW s \in Seq(Nat), NEW b \in Int, AtMost(s, b), s # << >>
  PROVE  AtMost(Tail(s), b) /\ Head(s) <= b /\ Head(s) \in Nat
<1>1. /\ Len(s) \in Nat /\ Len(s) > 0 /\ DOMAIN s = 1 .. Len(s) /\ Head(s) = s[1]
  BY EmptySeq, LenProperties
<1>2. /\ Tail(s) \in Seq(Nat) /\ Len(Tail(s)) = Len(s) - 1
      /\ \A i \in 1 .. Len(Tail(s)) : Tail(s)[i] = s[i + 1]
  BY HeadTailProperties
<1>3. DOMAIN Tail(s) = 1 .. Len(s) - 1
  BY <1>2, LenProperties
<1> QED BY <1>1, <1>2, <1>3 DEF AtMost

LEMMA AtMostMono ==
  ASSUME NEW s \in Seq(Nat), NEW b \in Int, NEW c \in Int, AtMost(s, b), b <= c
  PROVE  AtMost(s, c)
<1>1. \A n \in DOMAIN s : s[n] \in Nat
  BY LenProperties
<1> QED BY <1>1 DEF AtMost

LEMMA FifoTypes ==
  ASSUME TypeOK, NEW l \in Lidars
  PROVE  /\ wr[l] \in 0 .. Modulus - 1 /\ rd[l] \in 0 .. Modulus - 1
         /\ slots[l] \in [0 .. Size - 1 -> Nat]
         /\ Contents(l) \in Seq(Nat) /\ Len(Contents(l)) = Used(wr[l], rd[l])
         /\ published[l] \in Seq(Nat)
         /\ offered[l] \in Nat /\ Newest(l) \in Int /\ Newest(l) <= offered[l]
         /\ slots[l][Slot(wr[l])] \in Nat /\ slots[l][Slot(rd[l])] \in Nat
<1>1. /\ wr[l] \in 0 .. Modulus - 1 /\ rd[l] \in 0 .. Modulus - 1
      /\ slots[l] \in [0 .. Size - 1 -> Nat] /\ published[l] \in Seq(Nat)
      /\ offered[l] \in Nat
  BY DEF TypeOK
<1>2. Contents(l) \in Seq(Nat) /\ Len(Contents(l)) = Used(wr[l], rd[l])
  BY <1>1, ContentsWindow, WindowType
<1>3. slots[l][Slot(wr[l])] \in Nat /\ slots[l][Slot(rd[l])] \in Nat
  BY <1>1, SlotRange
<1>4. Newest(l) \in Int /\ Newest(l) <= offered[l]
  BY <1>1 DEF Newest
<1> QED BY <1>1, <1>2, <1>3, <1>4

\* A step that leaves the rings, the offers and the publications alone and
\* begins no new packet is no step of the abstract queue.
LEMMA QuietStep ==
  ASSUME IInv, FifoInv, UNCHANGED <<slots, rd, wr, buffered, offered, published>>,
         \A l \in Lidars : Pending(l)' => Pending(l),
         ppc' = "bump" => ppc = "bump" /\ cur' = cur,
         cpc' = "pop" => cpc = "pop" /\ UNCHANGED <<val, scan>>
  PROVE  FifoInv' /\ UNCHANGED Fifo!vars
<1>1. \A l \in Lidars : Contents(l)' = Contents(l)
  BY DEF Contents, Unread
<1>2. UNCHANGED Fifo!vars
  BY <1>1 DEF Fifo!vars
<1>3. ASSUME NEW l \in Lidars
      PROVE  /\ Pending(l)' => offered'[l] > 0
             /\ AtMost(published'[l], Newest(l)')
             /\ AtMost(Contents(l)', Newest(l)')
             /\ buffered' = l => /\ Fits(l, slots[l][Slot(wr[l])])'
                                 /\ slots'[l][Slot(wr'[l])] <= Newest(l)'
  <2>1. /\ published[l] \in Seq(Nat) /\ Contents(l) \in Seq(Nat)
        /\ Newest(l) \in Int /\ offered[l] \in Nat
        /\ slots[l][Slot(wr[l])] \in Nat
    BY FifoTypes DEF IInv
  <2>2. Newest(l)' \in Int /\ Newest(l) <= Newest(l)'
    BY <2>1 DEF Newest
  <2>3. AtMost(published[l], Newest(l)') /\ AtMost(Contents(l), Newest(l)')
    BY <2>1, <2>2, AtMostMono DEF FifoInv
  <2> QED BY <1>1, <2>1, <2>2, <2>3 DEF FifoInv, Fits
<1> QED BY <1>2, <1>3 DEF FifoInv

LEMMA StepFifo == IInv /\ IInv' /\ FifoInv /\ [Next]_vars => FifoInv' /\ [Fifo!Next]_(Fifo!vars)
<1> SUFFICES ASSUME IInv, IInv', FifoInv, [Next]_vars
             PROVE  FifoInv' /\ [Fifo!Next]_(Fifo!vars)
  OBVIOUS
<1>a. TypeOK /\ TypeOK' /\ cur \in Lidars
  BY DEF IInv, TypeOK
<1> USE DEF ringVars, writerVars, readerVars
<1>1. CASE StoragePointData
  BY <1>1, QuietStep DEF StoragePointData, Pending
<1>2. CASE PushLidarData
  <2>1. PICK l \in frame :
          /\ cur' = l /\ offered' = [offered EXCEPT ![l] = @ + 1]
          /\ ppc' = IF allocated[l] THEN "isfull" ELSE "alloc"
    BY <1>2 DEF PushLidarData
  <2>2. /\ UNCHANGED <<slots, rd, wr, buffered, published, cpc, scan, val>>
        /\ ppc = "next" /\ l \in Lidars
    BY <1>2, <1>a DEF PushLidarData, TypeOK
  <2>3. \A m \in Lidars : Contents(m)' = Contents(m)
    BY <2>2 DEF Contents, Unread
  <2>4. Fifo!Offer(l)
    BY <2>1, <2>2, <2>3 DEF Fifo!Offer
  <2>5. ASSUME NEW m \in Lidars
        PROVE  /\ Pending(m)' => offered'[m] > 0
               /\ AtMost(published'[m], Newest(m)')
               /\ AtMost(Contents(m)', Newest(m)')
               /\ buffered' = m => /\ Fits(m, slots[m][Slot(wr[m])])'
                                   /\ slots'[m][Slot(wr'[m])] <= Newest(m)'
    <3>1. offered[m] \in Nat /\ offered'[m] = IF m = l THEN offered[m] + 1 ELSE offered[m]
      BY <2>1, <2>2, <1>a DEF TypeOK
    <3>2. Newest(m)' = Newest(m) /\ (Pending(m)' => m = l) /\ Newest(m) = offered[m]
      BY <2>1, <2>2, <3>1 DEF Newest, Pending
    <3>3. slots[m][Slot(wr[m])] \in Nat
      BY FifoTypes, <1>a
    <3> QED BY <2>2, <2>3, <3>1, <3>2, <3>3 DEF FifoInv, Fits
  <2>6. FifoInv'
    BY <2>1, <2>2, <2>5 DEF FifoInv
  <2> QED BY <2>2, <2>4, <2>6 DEF Fifo!Next
<1>3. CASE EndFrame
  BY <1>3, QuietStep DEF EndFrame, Pending
<1>4. CASE InitQueueAlloc
  BY <1>4, QuietStep DEF InitQueueAlloc, Pending
<1>5. CASE InitQueueMask
  <2>1. wr[cur] = 0 /\ rd[cur] = 0
    BY <1>5, <1>a DEF InitQueueMask, IInv, QueueInv, WriterInv, RingInv
  <2>2. wr' = wr /\ rd' = rd
    BY <1>5, <2>1, <1>a DEF InitQueueMask, TypeOK
  <2> QED BY <1>5, <2>2, QuietStep DEF InitQueueMask, Pending
<1>6. CASE QueueIsFull
  BY <1>6, QuietStep DEF QueueIsFull, Pending
<1>7. CASE QueuePushSlot
  <2>1. /\ wr[cur] \in 0 .. Modulus - 1 /\ rd[cur] \in 0 .. Modulus - 1
        /\ Used(wr[cur], rd[cur]) < Size /\ slots[cur] \in [0 .. Size - 1 -> Nat]
        /\ offered[cur] \in Nat /\ slots \in [Lidars -> [0 .. Size - 1 -> Nat]]
        /\ Slot(wr[cur]) \in 0 .. Size - 1
    BY <1>7, <1>a, SlotRange DEF QueuePushSlot, IInv, QueueInv, WriterInv, WrSeen, TypeOK
  <2>2. /\ slots'[cur] = [slots[cur] EXCEPT ![Slot(wr[cur])] = offered[cur]]
        /\ \A l \in Lidars \ {cur} : slots'[l] = slots[l]
        /\ slots'[cur][Slot(wr[cur])] = offered[cur]
    BY <1>7, <1>a, <2>1 DEF QueuePushSlot
  <2>3. /\ UNCHANGED <<rd, wr, buffered, offered, published, cur, cpc, scan, val>>
        /\ ppc = "write" /\ ppc' = "bump" /\ buffered = NoLidar
    BY <1>7 DEF QueuePushSlot
  <2>c. PICK k \in Lidars : k = cur
    BY <1>a
  <2>4. Contents(k)' = Contents(k)
    <3>1. Contents(k)' = Window(slots'[cur], wr[cur], rd[cur])
      BY <2>c, <2>3 DEF Contents, Window, Unread
    <3>2. Window(slots'[cur], wr[cur], rd[cur]) = Window(slots[cur], wr[cur], rd[cur])
      BY <2>1, <2>2, WindowFill
    <3> QED BY <3>1, <3>2, <2>c, ContentsWindow
  <2>5. \A l \in Lidars \ {cur} : Contents(l)' = Contents(l)
    BY <2>2, <2>3 DEF Contents, Unread
  <2>6. \A l \in Lidars : Contents(l)' = Contents(l) /\ Newest(l)' = Newest(l)
                           /\ Pending(l)' = Pending(l)
    BY <2>c, <2>3, <2>4, <2>5 DEF Newest, Pending
  <2>7. UNCHANGED Fifo!vars
    BY <2>3, <2>6 DEF Fifo!vars
  <2>8. ASSUME cpc = "pop" PROVE slots'[scan][Slot(rd[scan])] = slots[scan][Slot(rd[scan])]
    <3>1. scan \in Lidars /\ wr[scan] # rd[scan] /\ rd[scan] \in 0 .. Modulus - 1
      BY <2>8, <1>a, LidarsAssumption DEF IInv, QueueInv, ReaderInv, TypeOK
    <3>2. CASE scan = cur
      <4>1. 0 < Used(wr[cur], rd[cur])
        <5>1. Used(wr[cur], rd[cur]) \in Nat
          BY <2>1, CountPush
        <5>2. Used(wr[cur], rd[cur]) # 0
          BY <2>1, <3>1, <3>2, Counting
        <5> QED BY <5>1, <5>2
      <4>2. Slot(wr[cur]) # Slot(rd[cur])
        BY <2>1, <4>1, SlotsDiffer
      <4>3. Slot(rd[cur]) \in 0 .. Size - 1
        BY <2>1, SlotRange
      <4> QED BY <2>1, <2>2, <3>2, <4>2, <4>3
    <3>3. CASE scan # cur
      BY <2>2, <3>1, <3>3
    <3> QED BY <3>2, <3>3
  <2>9. \A l \in Lidars : buffered # l
    BY <2>3, LidarsAssumption
  <2>10. FifoInv'
    BY <2>2, <2>3, <2>6, <2>8, <2>9 DEF FifoInv
  <2> QED BY <2>7, <2>10
<1>8. CASE QueuePushBump
  <2> DEFINE p == slots[cur][Slot(wr[cur])]
  <2>1. /\ wr[cur] \in 0 .. Modulus - 1 /\ rd[cur] \in 0 .. Modulus - 1
        /\ Used(wr[cur], rd[cur]) < Size /\ slots[cur] \in [0 .. Size - 1 -> Nat]
        /\ buffered = NoLidar
    BY <1>8, <1>a DEF QueuePushBump, IInv, QueueInv, WriterInv, WrSeen, TypeOK
  <2>2. /\ UNCHANGED <<rd, slots, offered, published, cur, cpc, scan, val>>
        /\ ppc = "bump" /\ ppc' = "isempty"
    BY <1>8 DEF QueuePushBump
  <2>3. /\ p = offered[cur] /\ offered[cur] \in Nat /\ offered[cur] > 0
        /\ Newest(cur) = offered[cur] - 1
        /\ published[cur] \in Seq(Nat) /\ Contents(cur) \in Seq(Nat)
        /\ AtMost(published[cur], offered[cur] - 1) /\ AtMost(Contents(cur), offered[cur] - 1)
    BY <1>a, <2>2, FifoTypes DEF FifoInv, Pending, Newest
  <2>4. \A l \in Lidars : Newest(l)' = offered[l] /\ ~Pending(l)' /\ offered[l] \in Nat
                          /\ (l # cur => Newest(l) = offered[l])
    BY <1>a, <2>2, FifoTypes DEF Newest, Pending
  <2>5. AtMost(published[cur], offered[cur]) /\ AtMost(Contents(cur), offered[cur])
    <3>1. offered[cur] - 1 \in Int /\ offered[cur] \in Int /\ offered[cur] - 1 <= offered[cur]
      BY <2>3
    <3> QED BY <2>3, <3>1, AtMostMono
  <2> HIDE DEF p
  <2>c. PICK l \in Lidars : l = cur
    BY <1>a
  <2>6. CASE wr' = [wr EXCEPT ![cur] = Inc(@)] /\ buffered' = buffered
    <3>1. wr'[cur] = Inc(wr[cur]) /\ \A m \in Lidars \ {cur} : wr'[m] = wr[m]
      BY <1>a, <2>6 DEF TypeOK
    <3>2. Contents(l)' = Append(Contents(cur), p)
      <4>1. Contents(l)' = Window(slots[cur], Inc(wr[cur]), rd[cur])
        BY <2>c, <2>2, <3>1 DEF Contents, Window, Unread
      <4> QED BY <4>1, <1>a, <2>1, WindowPush, ContentsWindow DEF p
    <3>3. \A m \in Lidars \ {cur} : Contents(m)' = Contents(m)
      BY <2>2, <3>1 DEF Contents, Unread
    <3>4. Fifo!Accept(cur)
      <4>1. Len(Contents(cur)) < Size
        BY <1>a, <2>1, FifoTypes
      <4>2. p \in 1 .. offered[cur]
        BY <2>3
      <4>3. /\ \A n \in DOMAIN Contents(cur) : Contents(cur)[n] < p
            /\ \A n \in DOMAIN published[cur] : published[cur][n] < p
        BY <2>3, LenProperties DEF AtMost
      <4>4. [m \in Lidars |-> Contents(m)'] =
              [[m \in Lidars |-> Contents(m)] EXCEPT ![cur] = Append(Contents(cur), p)]
        BY <2>c, <3>2, <3>3
      <4> QED BY <1>a, <2>2, <4>1, <4>2, <4>3, <4>4 DEF Fifo!Accept
    <3>5. AtMost(Contents(l)', offered[cur])
      BY <2>3, <2>5, <3>2, AtMostAppend
    <3>6. FifoInv'
      BY <2>c, <2>1, <2>2, <2>4, <2>5, <2>6, <3>3, <3>5, LidarsAssumption DEF FifoInv
    <3> QED BY <1>a, <3>4, <3>6 DEF Fifo!Next
  <2>7. CASE buffered' = cur /\ wr' = wr
    <3>1. \A m \in Lidars : Contents(m)' = Contents(m)
      BY <2>2, <2>7 DEF Contents, Unread
    <3>2. UNCHANGED Fifo!vars
      BY <2>2, <3>1 DEF Fifo!vars
    <3>3. Fits(l, p)' /\ p' = p
      BY <2>c, <2>2, <2>3, <2>7, <3>1 DEF Fits, p
    <3>4. FifoInv'
      BY <2>c, <2>1, <2>2, <2>3, <2>4, <2>5, <2>7, <3>1, <3>3 DEF FifoInv, p
    <3> QED BY <3>2, <3>4
  <2> QED BY <1>8, <2>6, <2>7 DEF QueuePushBump
<1>9. CASE QueueIsEmpty
  BY <1>9, QuietStep DEF QueueIsEmpty, Pending
<1>10. CASE GetCount
  BY <1>10, QuietStep DEF GetCount, Pending
<1>11. CASE Signal
  BY <1>11, QuietStep DEF Signal, Pending
<1>12. CASE FlushStore
  <2> DEFINE b == buffered
             p == slots[b][Slot(wr[b])]
  <2>1. /\ b \in Lidars /\ wr[b] \in 0 .. Modulus - 1 /\ rd[b] \in 0 .. Modulus - 1
        /\ Used(wr[b], rd[b]) < Size /\ slots[b] \in [0 .. Size - 1 -> Nat]
    BY <1>12, <1>a DEF FlushStore, IInv, QueueInv, RingInv, TypeOK
  <2>2. /\ UNCHANGED <<rd, slots, offered, published, cur, ppc, cpc, scan, val>>
        /\ buffered' = NoLidar
        /\ wr'[b] = Inc(wr[b]) /\ \A l \in Lidars \ {b} : wr'[l] = wr[l]
    BY <1>12, <1>a, <2>1 DEF FlushStore, TypeOK
  <2>3. /\ Contents(b) \in Seq(Nat) /\ published[b] \in Seq(Nat) /\ Newest(b) \in Int
        /\ p \in Nat
        /\ Fits(b, p) /\ p <= Newest(b)
        /\ AtMost(published[b], Newest(b)) /\ AtMost(Contents(b), Newest(b))
    BY <1>a, <2>1, FifoTypes DEF FifoInv
  <2> HIDE DEF b
  <2>5. PICK l \in Lidars : l = b
    BY <2>1
  <2>6. [k \in Lidars |-> Contents(k)'][l] = Append(Contents(l), p)
    <3>1. [k \in Lidars |-> Contents(k)'][l] = Window(slots[l], Inc(wr[l]), rd[l])
      BY <2>2, <2>5 DEF Contents, Window, Unread
    <3> QED BY <3>1, <2>1, <2>5, WindowPush, ContentsWindow
  <2>7. \A k \in Lidars \ {l} : Contents(k)' = Contents(k)
    BY <2>2, <2>5 DEF Contents, Unread
  <2>8. Fifo!Accept(l)
    <3>1. Len(Contents(l)) < Size
      BY <1>a, <2>1, <2>5, FifoTypes
    <3>2. /\ p \in 1 .. offered[l]
          /\ \A n \in DOMAIN Contents(l) : Contents(l)[n] < p
          /\ \A n \in DOMAIN published[l] : published[l][n] < p
      BY <2>3, <2>5, LenProperties DEF Fits, AtMost
    <3>3. [k \in Lidars |-> Contents(k)'] =
            [[k \in Lidars |-> Contents(k)] EXCEPT ![l] = Append(Contents(l), p)]
      BY <2>6, <2>7
    <3> HIDE DEF p
    <3> QED BY <2>2, <3>1, <3>2, <3>3 DEF Fifo!Accept
  <2>9. AtMost(Contents(l)', Newest(l))
    <3>1. Contents(l)' = Append(Contents(l), p)
      BY <2>6
    <3> QED BY <2>3, <2>5, <3>1, AtMostAppend
  <2>10. \A k \in Lidars : Newest(k)' = Newest(k) /\ Pending(k)' = Pending(k)
    BY <2>2 DEF Newest, Pending
  <2>11. ppc # "bump"
    BY <2>1, <1>a, <1>12, LidarsAssumption DEF b, IInv, QueueInv, WriterInv, FlushStore
  <2>12. FifoInv'
    <3>1. ASSUME NEW k \in Lidars
          PROVE  /\ Pending(k)' => offered'[k] > 0
                 /\ AtMost(published'[k], Newest(k)') /\ AtMost(Contents(k)', Newest(k)')
      BY <2>2, <2>7, <2>9, <2>10 DEF FifoInv
    <3>2. \A k \in Lidars : buffered' # k
      BY <2>2, LidarsAssumption
    <3>3. (cpc = "pop" => val = slots[scan][Slot(rd[scan])])'
      BY <2>2 DEF FifoInv
    <3> QED BY <2>2, <2>11, <3>1, <3>2, <3>3 DEF FifoInv
  <2> QED BY <2>8, <2>12 DEF Fifo!Next
<1>13. CASE IsRequestExit
  BY <1>13, QuietStep DEF IsRequestExit, Pending
<1>14. CASE Wait
  BY <1>14, QuietStep DEF Wait, Pending
<1>15. CASE ScanLidar
  BY <1>15, QuietStep DEF ScanLidar, Pending
<1>16. CASE EndScan
  BY <1>16, QuietStep DEF EndScan, Pending
<1>17. CASE PollingLidarPointCloudData
  BY <1>17, QuietStep DEF PollingLidarPointCloudData, Pending
<1>18. CASE PublishPointcloud
  BY <1>18, QuietStep DEF PublishPointcloud, Pending
<1>19. CASE QueuePrePop
  <2>1. /\ UNCHANGED <<slots, rd, wr, buffered, offered, published, cur, ppc, scan>>
        /\ val' = slots[scan][Slot(rd[scan])]
    BY <1>19 DEF QueuePrePop
  <2>2. \A l \in Lidars : Contents(l)' = Contents(l)
    BY <2>1 DEF Contents, Unread
  <2>3. UNCHANGED Fifo!vars
    BY <2>1, <2>2 DEF Fifo!vars
  <2>4. FifoInv'
    BY <2>1, <2>2 DEF FifoInv, Fits, Newest, Pending
  <2> QED BY <2>3, <2>4
<1>20. CASE QueuePopUpdate
  <2>1. /\ scan \in Lidars /\ wr[scan] \in 0 .. Modulus - 1 /\ rd[scan] \in 0 .. Modulus - 1
        /\ wr[scan] # rd[scan] /\ slots[scan] \in [0 .. Size - 1 -> Nat]
    BY <1>20, <1>a, LidarsAssumption DEF QueuePopUpdate, IInv, QueueInv, ReaderInv, TypeOK
  <2>2. /\ UNCHANGED <<slots, wr, buffered, offered, cur, ppc, scan>> /\ cpc' = "publish"
        /\ rd'[scan] = Inc(rd[scan])
        /\ \A l \in Lidars \ {scan} : rd'[l] = rd[l]
        /\ published' = [published EXCEPT ![scan] = Append(@, val)]
    BY <1>20, <1>a, <2>1 DEF QueuePopUpdate, TypeOK
  <2>c. PICK k \in Lidars : k = scan
    BY <2>1
  <2>3. val = slots[scan][Slot(rd[scan])]
    BY <1>20 DEF QueuePopUpdate, FifoInv
  <2>4. /\ Contents(scan) # << >> /\ Head(Contents(scan)) = val
        /\ Contents(k)' = Tail(Contents(scan))
    <3>1. Contents(k)' = Window(slots[scan], wr[scan], Inc(rd[scan]))
      BY <2>c, <2>2 DEF Contents, Window, Unread
    <3> QED BY <3>1, <2>1, <2>3, WindowPop, ContentsWindow
  <2>5. \A l \in Lidars \ {scan} : Contents(l)' = Contents(l)
    BY <2>2 DEF Contents, Unread
  <2>6. Fifo!Publish(scan)
    <3>1. [l \in Lidars |-> Contents(l)'] =
            [[l \in Lidars |-> Contents(l)] EXCEPT ![scan] = Tail(Contents(scan))]
      BY <2>c, <2>1, <2>2, <2>4, <2>5
    <3> QED BY <2>1, <2>2, <2>4, <3>1 DEF Fifo!Publish
  <2>7. /\ Contents(scan) \in Seq(Nat) /\ published[scan] \in Seq(Nat)
        /\ Newest(scan) \in Int /\ val \in Nat
    BY <1>a, <2>1, FifoTypes DEF TypeOK
  <2>8. \A l \in Lidars : Newest(l)' = Newest(l) /\ Pending(l)' = Pending(l)
    BY <2>2 DEF Newest, Pending
  <2>9. ASSUME NEW c \in Int, AtMost(Contents(scan), c), AtMost(published[scan], c)
        PROVE  AtMost(Contents(k)', c) /\ AtMost(published'[scan], c)
    <3>1. AtMost(Tail(Contents(scan)), c) /\ val <= c
      BY <2>4, <2>7, <2>9, AtMostTail
    <3>2. published'[scan] = Append(published[scan], val)
      BY <1>a, <2>1, <2>2 DEF TypeOK
    <3>3. AtMost(Append(published[scan], val), c)
      BY <2>7, <2>9, <3>1, AtMostAppend
    <3> QED BY <2>4, <3>1, <3>2, <3>3
  <2>10. \A l \in Lidars \ {scan} : published'[l] = published[l]
    BY <1>a, <2>2 DEF TypeOK
  <2>11. ASSUME NEW l \in Lidars
         PROVE  /\ Pending(l)' => offered'[l] > 0
                /\ AtMost(published'[l], Newest(l)')
                /\ AtMost(Contents(l)', Newest(l)')
                /\ buffered' = l => /\ Fits(l, slots[l][Slot(wr[l])])'
                                    /\ slots'[l][Slot(wr'[l])] <= Newest(l)'
    <3>1. CASE l # scan
      BY <2>2, <2>5, <2>8, <2>10, <3>1 DEF FifoInv, Fits
    <3>2. CASE l = scan
      <4>1. AtMost(published'[scan], Newest(k)') /\ AtMost(Contents(k)', Newest(k)')
        <5>1. AtMost(Contents(scan), Newest(scan)) /\ AtMost(published[scan], Newest(scan))
          BY <2>1 DEF FifoInv
        <5>2. AtMost(Contents(k)', Newest(scan)) /\ AtMost(published'[scan], Newest(scan))
          BY <5>1, <2>7, <2>9
        <5> QED BY <5>2, <2>c, <2>8
      <4>2. ASSUME buffered = scan PROVE Fits(k, slots[k][Slot(wr[k])])'
        <5> DEFINE p == slots[scan][Slot(wr[scan])]
        <5>1. p \in Nat /\ Fits(scan, p)
          BY <1>a, <2>1, <4>2, FifoTypes DEF FifoInv
        <5>2. p - 1 \in Int /\ AtMost(published[scan], p - 1) /\ AtMost(Contents(scan), p - 1)
          BY <5>1 DEF Fits
        <5>3. AtMost(published'[scan], p - 1) /\ AtMost(Contents(k)', p - 1)
          BY <5>2, <2>9
        <5> QED BY <2>c, <2>2, <5>1, <5>3 DEF Fits
      <4> QED BY <2>c, <2>1, <2>2, <2>8, <3>2, <4>1, <4>2 DEF FifoInv
    <3> QED BY <3>1, <3>2
  <2>12. FifoInv'
    BY <2>2, <2>11, <1>20 DEF FifoInv, QueuePopUpdate
  <2> QED BY <2>1, <2>6, <2>12 DEF Fifo!Next
<1>21. CASE PollFuture
  BY <1>21, QuietStep DEF PollFuture, Pending
<1>22. CASE RequestExit
  BY <1>22, QuietStep DEF RequestExit, Pending
<1>23. CASE SetExitSignal
  BY <1>23, QuietStep DEF SetExitSignal, Pending
<1>24. CASE JoinPollThread
  BY <1>24, QuietStep DEF JoinPollThread, Pending
<1>25. ASSUME NEW l \in Lidars, StartSampling(l) PROVE FifoInv' /\ [Fifo!Next]_(Fifo!vars)
  BY <1>25, QuietStep DEF StartSampling, Pending
<1>26. CASE UNCHANGED vars
  BY <1>26, QuietStep DEF vars, Pending
<1> QED
  BY <1>1, <1>2, <1>3, <1>4, <1>5, <1>6, <1>7, <1>8, <1>9, <1>10, <1>11, <1>12, <1>13, <1>14,
     <1>15, <1>16, <1>17, <1>18, <1>19, <1>20, <1>21, <1>22, <1>23, <1>24, <1>25, <1>26
  DEF Next, WriterStep, ReaderStep

\* The two threads implement one bounded FIFO per lidar that drops the newest.
THEOREM QueueRefinesFifo == Spec => ImplementsDropNewest
<1>1. Init => Fifo!Init /\ FifoInv
  <2> SUFFICES ASSUME Init PROVE Fifo!Init /\ FifoInv
    OBVIOUS
  <2>1. \A l \in Lidars : Contents(l) = << >>
    BY DEF Init, Contents, Unread, Used
  <2>2. Fifo!Init
    BY <2>1 DEF Init, Fifo!Init
  <2>3. FifoInv
    BY <2>1, LidarsAssumption DEF Init, FifoInv, AtMost, Pending, Newest
  <2> QED BY <2>2, <2>3
<1> QED BY <1>1, StepFifo, Invariance, PTL DEF Spec, ImplementsDropNewest, Fifo!Spec
=============================================================================
