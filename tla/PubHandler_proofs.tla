-------------------------- MODULE PubHandler_proofs --------------------------
(***************************************************************************)
(* PubHandler for any number of lidars, places, packets and losses.        *)
(*                                                                         *)
(* The wake-ups of the IMU thread: every sample of a sampling lidar is     *)
(* still ahead of the poll thread, or announced by the semaphore, or the   *)
(* SDK's thread that stored it is about to look at both.                   *)
(*                                                                         *)
(* CacheIndex: no two lidars get one place.                                *)
(*                                                                         *)
(* The way of the points: the parts of the way hold, one behind the other, *)
(* what was received.  Frames and Joined are recursive functions; that     *)
(* they exist, and what they are, is argued from the least n they would    *)
(* fail for.                                                               *)
(*                                                                         *)
(* The length of frames: by the master clock the points of a cloud follow  *)
(* one another but for the packets lost, so the last of them reaches the   *)
(* end of an interval only with a packet that CheckTimer ends the frame    *)
(* with, or one that came too soon after the first.                        *)
(***************************************************************************)
EXTENDS PubHandler, TLAPS, FiniteSetTheorems, SequenceTheorems, WellFoundedInduction

ImuTypes ==
  /\ imu_data \in [Lidars -> Nat] /\ imu_semaphore_ \in Nat
  /\ poll \in 0 .. NLidars /\ imu_lidar \in Lidars

\* A sample that has been stored will be looked at.
Awaited ==
  \A l \in Sampling : imu_data[l] > 0 =>
    \/ imu_semaphore_ > 0
    \/ poll <= l
    \/ imu_lidar = l /\ imu_step # "idle"

ImuInv == ImuTypes /\ Awaited

LEMMA ImuInit == Init => ImuInv
  BY LidarsAssumption DEF Init, ImuInv, ImuTypes, Awaited, Lidars

LEMMA ImuNext ==
  ASSUME ImuInv, [Next]_vars
  PROVE  ImuInv'
<1> USE LidarsAssumption DEF Lidars
<1>1. ASSUME NEW l \in Lidars, OnImuPacket(l)
      PROVE  ImuInv'
  <2>1. UNCHANGED <<imu_semaphore_, poll>> /\ imu_step = "idle"
    BY <1>1 DEF OnImuPacket
  <2>2. CASE UNCHANGED <<imu_data, imu_step, imu_lidar>>
    BY <2>1, <2>2 DEF ImuInv, ImuTypes, Awaited
  <2>3. CASE /\ imu_data' = [imu_data EXCEPT ![l] = @ + 1]
             /\ imu_step' = "isempty" /\ imu_lidar' = l
    BY <2>1, <2>3 DEF ImuInv, ImuTypes, Awaited
  <2> QED
    BY <1>1, <2>2, <2>3 DEF OnImuPacket
<1>2. CASE ImuIsEmpty
  BY <1>2 DEF ImuIsEmpty, ImuInv, ImuTypes, Awaited
<1>3. CASE ImuGetCount
  BY <1>3 DEF ImuGetCount, ImuInv, ImuTypes, Awaited
<1>4. CASE ImuSignal
  BY <1>4 DEF ImuSignal, ImuInv, ImuTypes, Awaited
<1>5. CASE ImuWait
  BY <1>5 DEF ImuWait, ImuInv, ImuTypes, Awaited
<1>6. CASE PollingLidarImuData
  BY <1>6 DEF PollingLidarImuData, ImuInv, ImuTypes, Awaited
<1>7. ASSUME UNCHANGED <<imuVars, poll>>
      PROVE  ImuInv'
  BY <1>7 DEF imuVars, ImuInv, ImuTypes, Awaited
<1>8. ASSUME NEW l \in Lidars, LosePacket(l) \/ Synchronise(l) \/ OnPointPacket(l) \/ GetFreeIndex(l)
      PROVE  UNCHANGED <<imuVars, poll>>
  BY <1>8 DEF LosePacket, Synchronise, OnPointPacket, GetFreeIndex
<1>9. Tick \/ IndexInserted \/ RawDataProcess \/ StoragePointData \/ UNCHANGED vars
        => UNCHANGED <<imuVars, poll>>
  BY DEF Tick, IndexInserted, RawDataProcess, StoragePointData, vars
<1> QED
  BY <1>1, <1>2, <1>3, <1>4, <1>5, <1>6, <1>7, <1>8, <1>9 DEF Next

\* StorageImuData and DistributeImuData, with their unlocked Empty and GetCount: the IMU
\* thread never waits beside the samples of a sampling lidar, however the SDK's thread
\* is interleaved with it.
THEOREM NoImuStranded == Spec => []ImuNotStranded
<1>1. ImuInv => ImuNotStranded
  BY LidarsAssumption DEF ImuInv, ImuTypes, Awaited, ImuNotStranded, Lidars
<1>2. Spec => []ImuInv
  BY ImuInit, ImuNext, PTL DEF Spec
<1> QED
  BY <1>1, <1>2, PTL

-----------------------------------------------------------------------------
(* CacheIndex *)

\* Every lidar has a place of its own, or none, and the one that is being entered none.
Places ==
  /\ map_index_ \in [Lidars -> 0 .. kMaxSourceLidar - 1 \cup {NoIndex}]
  /\ \A l, m \in Lidars : map_index_[l] = map_index_[m] /\ map_index_[l] # NoIndex => l = m
  /\ inserting \in Lidars \cup {NoLidar}
  /\ inserting \in Lidars => map_index_[inserting] = NoIndex

\* The place that GetFreeIndex takes is no other lidar's.
LEMMA FreeIndexIsFree ==
  ASSUME map_index_ \in [Lidars -> 0 .. kMaxSourceLidar - 1 \cup {NoIndex}]
  PROVE  /\ FreeIndex \in 0 .. kMaxSourceLidar - 1 \cup {NoIndex}
         /\ FreeIndex # NoIndex => \A l \in Lidars : map_index_[l] # FreeIndex
<1> DEFINE free == (0 .. kMaxSourceLidar - 1) \ {map_index_[l] : l \in Lidars}
<1>1. FreeIndex = IF free = {} THEN NoIndex ELSE CHOOSE i \in free : \A j \in free : i <= j
  BY DEF FreeIndex
<1>2. free # {} => FreeIndex \in free
  <2> SUFFICES ASSUME free # {} PROVE \E i \in free : \A j \in free : i <= j
    BY <1>1
  <2>1. free \subseteq Nat
    BY PlacesAssumption
  <2> HIDE DEF free
  <2>2. PICK i \in free : \A j \in free : ~(<<j, i>> \in OpToRel(<, Nat))
    BY <2>1, NatLessThanWellFounded, WFMin
  <2>3. \A j \in free : ~(j < i)
    BY <2>1, <2>2 DEF OpToRel
  <2> QED
    BY <2>1, <2>3
<1>3. free = {} => FreeIndex = NoIndex
  BY <1>1
<1> QED
  BY <1>2, <1>3

\* InitLivoxLidar enters the configured lidars one place after the other.
LEMMA InitPlaces == Init => Places
<1> SUFFICES ASSUME Init PROVE Places
  OBVIOUS
<1> DEFINE before(l) == {m \in Configured : m < l}
<1>1. \A l \in Lidars : IsFiniteSet(before(l)) /\ Cardinality(before(l)) \in Nat
  <2> SUFFICES ASSUME NEW l \in Lidars PROVE IsFiniteSet(before(l))
    BY FS_CardinalityType
  <2>1. 0 \in Int /\ l \in Int /\ before(l) \in SUBSET (0 .. l)
    BY LidarsAssumption DEF Lidars
  <2>2. IsFiniteSet(0 .. l)
    BY <2>1, FS_Interval
  <2> HIDE DEF before
  <2> QED
    BY <2>1, <2>2, FS_Subset
<1>2. \A l, m \in Configured : l < m => Cardinality(before(l)) # Cardinality(before(m))
  <2> SUFFICES ASSUME NEW l \in Configured, NEW m \in Configured, l < m
               PROVE  Cardinality(before(l)) # Cardinality(before(m))
    OBVIOUS
  <2>1. l \in Lidars /\ m \in Lidars /\ l \in Int /\ m \in Int /\ Configured \subseteq Int
    BY LidarsAssumption DEF Lidars
  <2>2. \A x \in Configured : x < l => x < m
    BY <2>1
  <2>3. before(l) \in SUBSET before(m)
    BY <2>2
  <2>4. l \in before(m) /\ l \notin before(l)
    BY <2>1
  <2> QED
    BY <1>1, <2>1, <2>3, <2>4, FS_Subset
<1>3. \A l \in Lidars : map_index_[l] = IF l \in Configured /\ Cardinality(before(l)) < kMaxSourceLidar
                                          THEN Cardinality(before(l)) ELSE NoIndex
  BY DEF Init
<1> HIDE DEF before
<1>4. map_index_ \in [Lidars -> 0 .. kMaxSourceLidar - 1 \cup {NoIndex}]
  <2>1. \A l \in Lidars : map_index_[l] \in 0 .. kMaxSourceLidar - 1 \cup {NoIndex}
    BY <1>1, <1>3, PlacesAssumption
  <2>2. DOMAIN map_index_ = Lidars /\ map_index_ = [l \in Lidars |-> map_index_[l]]
    BY DEF Init
  <2> QED
    BY <2>1, <2>2
<1>5. \A l, m \in Lidars : map_index_[l] = map_index_[m] /\ map_index_[l] # NoIndex => l = m
  <2>1. \A l, m \in Configured : l \in Int /\ m \in Int
    BY LidarsAssumption DEF Lidars
  <2> QED
    BY <1>2, <1>3, <2>1
<1> QED
  BY <1>4, <1>5 DEF Init, Places, NoLidar, Lidars

LEMMA NextPlaces ==
  ASSUME Places, [Next]_vars
  PROVE  Places'
<1>1. ASSUME NEW l \in Lidars, GetFreeIndex(l)
      PROVE  Places'
  BY <1>1 DEF GetFreeIndex, Places
<1>2. CASE IndexInserted
  <2> DEFINE i == FreeIndex
  <2>1. /\ i \in 0 .. kMaxSourceLidar - 1 \cup {NoIndex}
        /\ i # NoIndex => \A l \in Lidars : map_index_[l] # i
    BY FreeIndexIsFree DEF Places
  <2>2. /\ map_index_' = [map_index_ EXCEPT ![inserting] = i]
        /\ inserting \in Lidars /\ inserting' = NoLidar /\ NoLidar \notin Lidars
    BY <1>2 DEF IndexInserted, Places, NoLidar, Lidars
  <2> HIDE DEF i
  <2> QED
    BY <2>1, <2>2 DEF Places
<1>3. ASSUME UNCHANGED indexVars
      PROVE  Places'
  BY <1>3 DEF indexVars, Places
<1>4. ASSUME NEW l \in Lidars, LosePacket(l) \/ Synchronise(l) \/ OnPointPacket(l) \/ OnImuPacket(l)
      PROVE  UNCHANGED indexVars
  BY <1>4 DEF LosePacket, Synchronise, OnPointPacket, OnImuPacket
<1>5. Tick \/ RawDataProcess \/ StoragePointData \/ UNCHANGED vars => UNCHANGED indexVars
  BY DEF Tick, RawDataProcess, StoragePointData, vars
<1>6. ImuIsEmpty \/ ImuGetCount \/ ImuSignal \/ ImuWait \/ PollingLidarImuData
        => UNCHANGED indexVars
  BY DEF ImuIsEmpty, ImuGetCount, ImuSignal, ImuWait, PollingLidarImuData
<1> QED
  BY <1>1, <1>2, <1>3, <1>4, <1>5, <1>6 DEF Next

\* InitLivoxLidar and GetFreeIndex: no two lidars ever get one place in Lds, even when
\* there are more of them than places.
THEOREM PlacesDistinct == Spec => []Places
  BY InitPlaces, NextPlaces, PTL DEF Spec

-----------------------------------------------------------------------------
(* Sequences joined *)

LEMMA NatMin ==
  ASSUME NEW T, T \subseteq Nat, T # {}
  PROVE  \E m \in T : \A k \in T : m <= k
<1>1. PICK m \in T : \A k \in T : ~(<<k, m>> \in OpToRel(<, Nat))
  BY NatLessThanWellFounded, WFMin
<1>2. \A k \in T : ~(k < m)
  BY <1>1 DEF OpToRel
<1> QED
  BY <1>2

\* Joined and Frames satisfy their equations: no least length has no such function.
LEMMA JoinedEquation ==
  ASSUME NEW s, Len(s) \in Nat
  PROVE  Joined(s) = [n \in 0 .. Len(s) |-> IF n = 0 THEN << >> ELSE Joined(s)[n - 1] \o s[n]]
<1> DEFINE E(f, m) == f = [n \in 0 .. m |-> IF n = 0 THEN << >> ELSE f[n - 1] \o s[n]]
           T == {m \in Nat : ~ \E f : E(f, m)}
<1>1. ASSUME T # {}
      PROVE  FALSE
  <2>1. PICK m \in T : \A k \in T : m <= k
    <3>1. T \subseteq Nat
      OBVIOUS
    <3> HIDE DEF T
    <3> QED
      BY <1>1, <3>1, NatMin
  <2>2. m \in Nat /\ ~ \E f : E(f, m)
    BY <2>1
  <2>3. m # 0
    <3>1. E([n \in 0 .. 0 |-> << >>], 0)
      OBVIOUS
    <3> HIDE DEF E
    <3> QED
      BY <2>2, <3>1
  <2>4. m - 1 \in Nat /\ m - 1 \notin T
    <3>1. m - 1 \in Nat /\ ~(m <= m - 1)
      BY <2>2, <2>3
    <3> HIDE DEF T
    <3> QED
      BY <2>1, <3>1
  <2>5. PICK g : E(g, m - 1)
    <3> HIDE DEF E
    <3> QED
      BY <2>4
  <2> DEFINE f == [n \in 0 .. m |-> IF n = m THEN g[m - 1] \o s[m] ELSE g[n]]
  <2>6. ASSUME NEW n \in 0 .. m
        PROVE  f[n] = IF n = 0 THEN << >> ELSE f[n - 1] \o s[n]
    <3>1. CASE n = m
      <4>1. m - 1 \in 0 .. m /\ m - 1 # m
        BY <2>2, <2>3
      <4>2. f[m - 1] = g[m - 1]
        BY <4>1
      <4> QED
        BY <2>3, <3>1, <4>2
    <3>2. CASE n = 0 /\ n # m
      <4>1. 0 \in 0 .. m - 1
        BY <2>4
      <4> QED
        BY <2>5, <3>2, <4>1
    <3>3. CASE n # 0 /\ n # m
      <4>1. n \in 0 .. m - 1 /\ n - 1 \in 0 .. m - 1 /\ n - 1 # m /\ n - 1 \in 0 .. m
        BY <2>2, <3>3
      <4>2. f[n] = g[n] /\ f[n - 1] = g[n - 1]
        BY <3>3, <4>1
      <4> QED
        BY <2>5, <3>3, <4>1, <4>2
    <3> QED
      BY <3>1, <3>2, <3>3
  <2>7. E(f, m)
    BY <2>6
  <2> HIDE DEF E, f
  <2> QED
    BY <2>2, <2>7
<1>2. \E f : E(f, Len(s))
  <2> HIDE DEF E
  <2> QED
    BY <1>1
<1>3. Joined(s) = CHOOSE f : E(f, Len(s))
  BY DEF Joined
<1> HIDE DEF E
<1>4. E(Joined(s), Len(s))
  BY <1>2, <1>3
<1> QED
  BY <1>4 DEF E

LEMMA JoinedValues ==
  ASSUME NEW s, Len(s) \in Nat
  PROVE  /\ Joined(s)[0] = << >>
         /\ \A n \in 1 .. Len(s) : Joined(s)[n] = Joined(s)[n - 1] \o s[n]
<1> DEFINE J == Joined(s)
<1>1. J = [n \in 0 .. Len(s) |-> IF n = 0 THEN << >> ELSE J[n - 1] \o s[n]]
  BY JoinedEquation
<1> HIDE DEF J
<1>2. 0 \in 0 .. Len(s) /\ \A n \in 1 .. Len(s) : n \in 0 .. Len(s) /\ n # 0
  OBVIOUS
<1>3. J[0] = << >> /\ \A n \in 1 .. Len(s) : J[n] = J[n - 1] \o s[n]
  BY <1>1, <1>2
<1> QED
  BY <1>3 DEF J

\* The elements are of one set.
LEMMA JoinedType ==
  ASSUME NEW S, NEW s \in Seq(Seq(S)), NEW k \in 0 .. Len(s)
  PROVE  Joined(s)[k] \in Seq(S)
<1> DEFINE T == {n \in 0 .. Len(s) : Joined(s)[n] \notin Seq(S)}
<1>1. Len(s) \in Nat
  OBVIOUS
<1>2. ASSUME T # {}
      PROVE  FALSE
  <2>1. PICK m \in T : \A j \in T : m <= j
    <3>1. T \subseteq Nat
      BY <1>1
    <3> HIDE DEF T
    <3> QED
      BY <1>2, <3>1, NatMin
  <2>2. m # 0
    <3>1. Joined(s)[0] = << >>
      BY <1>1, JoinedValues
    <3>2. << >> \in Seq(S)
      BY EmptySeq
    <3> QED
      BY <2>1, <3>1, <3>2
  <2>3. m \in 1 .. Len(s) /\ m - 1 \in 0 .. Len(s) /\ ~(m <= m - 1)
    BY <1>1, <2>1, <2>2
  <2>4. Joined(s)[m - 1] \in Seq(S)
    BY <2>1, <2>3
  <2>5. Joined(s)[m] = Joined(s)[m - 1] \o s[m]
    BY <1>1, <2>3, JoinedValues
  <2>6. s[m] \in Seq(S)
    BY <2>3, ElementOfSeq
  <2>7. Joined(s)[m - 1] \o s[m] \in Seq(S)
    BY <2>4, <2>6, ConcatProperties
  <2>8. Joined(s)[m] \notin Seq(S)
    BY <2>1
  <2> QED
    BY <2>5, <2>7, <2>8
<1> QED
  BY <1>2

\* What is joined depends on the sequences up to there.
LEMMA JoinedPrefix ==
  ASSUME NEW s, NEW t, Len(s) \in Nat, Len(t) \in Nat, Len(s) <= Len(t),
         \A n \in 1 .. Len(s) : s[n] = t[n],
         NEW k \in 0 .. Len(s)
  PROVE  Joined(t)[k] = Joined(s)[k]
<1> DEFINE T == {n \in 0 .. Len(s) : Joined(t)[n] # Joined(s)[n]}
<1>2. ASSUME T # {}
      PROVE  FALSE
  <2>1. PICK m \in T : \A j \in T : m <= j
    <3>1. T \subseteq Nat
      OBVIOUS
    <3> HIDE DEF T
    <3> QED
      BY <1>2, <3>1, NatMin
  <2>2. m # 0
    BY <2>1, JoinedValues
  <2>3. m \in 1 .. Len(s) /\ m \in 1 .. Len(t) /\ m - 1 \in 0 .. Len(s) /\ ~(m <= m - 1)
    BY <2>1, <2>2
  <2>4. Joined(t)[m - 1] = Joined(s)[m - 1]
    BY <2>1, <2>3
  <2>5. /\ Joined(s)[m] = Joined(s)[m - 1] \o s[m]
        /\ Joined(t)[m] = Joined(t)[m - 1] \o t[m]
    BY <2>3, JoinedValues
  <2> QED
    BY <2>1, <2>3, <2>4, <2>5
<1> QED
  BY <1>2

\* One more at the end
LEMMA JoinedAppend ==
  ASSUME NEW S, NEW s \in Seq(Seq(S)), NEW x \in Seq(S), NEW t \in Seq(Seq(S)),
         Len(t) = Len(s) + 1, \A n \in 1 .. Len(s) : t[n] = s[n], t[Len(s) + 1] = x
  PROVE  Joined(t)[Len(t)] = Joined(s)[Len(s)] \o x
<1>1. Len(s) \in Nat /\ Len(t) \in Nat /\ Len(s) <= Len(t) /\ Len(t) \in 1 .. Len(t)
      /\ Len(t) - 1 = Len(s) /\ Len(s) \in 0 .. Len(s)
  OBVIOUS
<1>2. Joined(t)[Len(t)] = Joined(t)[Len(s)] \o x
  BY <1>1, JoinedValues
<1>3. Joined(t)[Len(s)] = Joined(s)[Len(s)]
  BY <1>1, JoinedPrefix
<1> QED
  BY <1>2, <1>3

\* One less at the front
LEMMA JoinedTail ==
  ASSUME NEW S, NEW s \in Seq(Seq(S)), NEW t \in Seq(Seq(S)),
         Len(s) = Len(t) + 1, \A n \in 1 .. Len(t) : t[n] = s[n + 1]
  PROVE  Joined(s)[Len(s)] = s[1] \o Joined(t)[Len(t)]
<1> DEFINE T == {n \in 0 .. Len(t) : Joined(s)[n + 1] # s[1] \o Joined(t)[n]}
<1>1. Len(s) \in Nat /\ Len(t) \in Nat /\ 1 \in 1 .. Len(s) /\ s[1] \in Seq(S)
  BY ElementOfSeq
<1>2. ASSUME T # {}
      PROVE  FALSE
  <2>1. PICK m \in T : \A j \in T : m <= j
    <3>1. T \subseteq Nat
      BY <1>1
    <3> HIDE DEF T
    <3> QED
      BY <1>2, <3>1, NatMin
  <2>2. m # 0
    <3>1. Joined(s)[1] = Joined(s)[1 - 1] \o s[1] /\ Joined(s)[0] = << >> /\ Joined(t)[0] = << >>
      BY <1>1, JoinedValues
    <3>2. << >> \o s[1] = s[1] /\ s[1] \o << >> = s[1]
      BY <1>1, ConcatEmptySeq
    <3>3. Joined(s)[0 + 1] = s[1] \o Joined(t)[0]
      <4>1. 0 + 1 = 1 /\ 1 - 1 = 0
        OBVIOUS
      <4> QED
        BY <3>1, <3>2, <4>1, Zenon
    <3> QED
      BY <2>1, <3>3
  <2>3. /\ m \in 1 .. Len(t) /\ m + 1 \in 1 .. Len(s) /\ m - 1 \in 0 .. Len(t)
        /\ ~(m <= m - 1) /\ (m + 1) - 1 = m /\ (m - 1) + 1 = m /\ m \in Nat
    BY <1>1, <2>1, <2>2
  <2>4. Joined(s)[m] = s[1] \o Joined(t)[m - 1]
    BY <2>1, <2>3
  <2>5. Joined(s)[m + 1] = Joined(s)[m] \o s[m + 1] /\ Joined(t)[m] = Joined(t)[m - 1] \o t[m]
    BY <1>1, <2>3, JoinedValues
  <2>6. t[m] = s[m + 1] /\ t[m] \in Seq(S) /\ Joined(t)[m - 1] \in Seq(S)
    BY <2>3, ElementOfSeq, JoinedType
  <2>7. (s[1] \o Joined(t)[m - 1]) \o t[m] = s[1] \o (Joined(t)[m - 1] \o t[m])
    <3> HIDE DEF T
    <3>1. \A a, b, c \in Seq(S) : (a \o b) \o c = a \o (b \o c)
      BY SMTT(60)
    <3> QED
      BY <1>1, <2>6, <3>1, Zenon
  <2>8. Joined(s)[m + 1] = s[1] \o Joined(t)[m]
    BY <2>4, <2>5, <2>6, <2>7, Zenon
  <2> QED
    BY <2>1, <2>8
<1>3. Len(t) \in 0 .. Len(t)
  BY <1>1
<1>4. Joined(s)[Len(t) + 1] = s[1] \o Joined(t)[Len(t)]
  BY <1>2, <1>3
<1> QED
  BY <1>4

-----------------------------------------------------------------------------
(* Times of points, frames and queues *)

Moved(l) == IF l \in Configured THEN "configured" ELSE "default"
Point == [time : Int, ext : {"default", "configured"}]
Entry == [handle : Lidars, base_time : Int, points : Seq(Point)]
Packet == [handle : Lidars, time_stamp : Int]
StoredPoint == [time : Int, ext : {"default", "configured"}, place : Int]

\* A sequence of things that have a time
Timed(p) == Len(p) \in Nat /\ \A i \in 1 .. Len(p) : p[i].time \in Int

LEMMA TimesType ==
  ASSUME NEW p, Timed(p)
  PROVE  /\ Times(p) \in Seq(Int) /\ Len(Times(p)) = Len(p)
         /\ \A i \in 1 .. Len(p) : Times(p)[i] = p[i].time
<1>1. Times(p) \in Seq(Int) /\ DOMAIN Times(p) = 1 .. Len(p)
  BY IsASeq DEF Times, Timed
<1>2. Len(Times(p)) = Len(p)
  BY <1>1, LenProperties DEF Timed
<1> QED
  BY <1>1, <1>2 DEF Times

LEMMA TimesConcat ==
  ASSUME NEW S, NEW p \in Seq(S), NEW q \in Seq(S), \A e \in S : e.time \in Int
  PROVE  /\ Timed(p) /\ Timed(q) /\ Timed(p \o q)
         /\ Times(p \o q) = Times(p) \o Times(q)
<1>1. /\ p \o q \in Seq(S) /\ Len(p \o q) = Len(p) + Len(q)
      /\ \A i \in 1 .. Len(p) + Len(q) :
           (p \o q)[i] = IF i <= Len(p) THEN p[i] ELSE q[i - Len(p)]
  BY ConcatProperties
<1>2. \A s \in Seq(S) : Timed(s)
  BY ElementOfSeq, LenProperties DEF Timed
<1>3. Timed(p) /\ Timed(q) /\ Timed(p \o q) /\ Len(p) \in Nat /\ Len(q) \in Nat
  BY <1>1, <1>2 DEF Timed
<1> DEFINE t == Times(p) \o Times(q)
           u == Times(p \o q)
<1>4. /\ Times(p) \in Seq(Int) /\ Len(Times(p)) = Len(p)
      /\ Times(q) \in Seq(Int) /\ Len(Times(q)) = Len(q)
      /\ u \in Seq(Int) /\ Len(u) = Len(p) + Len(q)
      /\ \A i \in 1 .. Len(p) : Times(p)[i] = p[i].time
      /\ \A i \in 1 .. Len(q) : Times(q)[i] = q[i].time
      /\ \A i \in 1 .. Len(p) + Len(q) : u[i] = (p \o q)[i].time
  BY <1>1, <1>3, TimesType
<1>5. /\ t \in Seq(Int) /\ Len(t) = Len(p) + Len(q)
      /\ \A i \in 1 .. Len(p) + Len(q) :
           t[i] = IF i <= Len(p) THEN Times(p)[i] ELSE Times(q)[i - Len(p)]
  <2> DEFINE a == Times(p)
             b == Times(q)
  <2>1. a \in Seq(Int) /\ b \in Seq(Int)
    BY <1>4
  <2> HIDE DEF a, b
  <2>2. /\ a \o b \in Seq(Int) /\ Len(a \o b) = Len(a) + Len(b)
        /\ \A i \in 1 .. Len(a) + Len(b) :
             (a \o b)[i] = IF i <= Len(a) THEN a[i] ELSE b[i - Len(a)]
    BY <2>1, ConcatProperties
  <2>3. Len(a) = Len(p) /\ Len(b) = Len(q) /\ t = a \o b
    BY <1>4 DEF a, b
  <2> HIDE DEF t
  <2>4. /\ t \in Seq(Int) /\ Len(t) = Len(p) + Len(q)
        /\ \A i \in 1 .. Len(p) + Len(q) :
             t[i] = IF i <= Len(p) THEN a[i] ELSE b[i - Len(p)]
    BY <2>2, <2>3
  <2> QED
    BY <2>4 DEF a, b
<1> HIDE DEF t, u
<1>6. ASSUME NEW i \in 1 .. Len(p) + Len(q)
      PROVE  u[i] = t[i]
  <2>1. CASE i <= Len(p)
    <3>1. i \in 1 .. Len(p)
      BY <1>3, <2>1
    <3> QED
      BY <1>1, <1>4, <1>5, <2>1, <3>1
  <2>2. CASE ~(i <= Len(p))
    <3>1. i - Len(p) \in 1 .. Len(q)
      BY <1>3, <2>2
    <3> QED
      BY <1>1, <1>4, <1>5, <2>2, <3>1
  <2> QED
    BY <2>1, <2>2
<1>7. u = t
  BY <1>4, <1>5, <1>6, SeqEqual
<1> QED
  BY <1>3, <1>7 DEF t, u

\* An entry's part of what is framed for a lidar, and a packet's of what is queued
InEntry(e, l) == IF e.handle = l THEN Times(e.points) ELSE << >>
InPacket(p, l) == IF p.handle = l THEN [k \in 1 .. DotNum |-> p.time_stamp + k - 1] ELSE << >>
Entries(f, l) == [i \in 1 .. Len(f) |-> InEntry(f[i], l)]
Packets(q, l) == [i \in 1 .. Len(q) |-> InPacket(q[i], l)]

LEMMA InEntryType ==
  ASSUME NEW e \in Entry, NEW l
  PROVE  InEntry(e, l) \in Seq(Int)
<1>1. e.points \in Seq(Point)
  BY DEF Entry
<1>2. Timed(e.points)
  <2>1. \A s \in Seq(Point) : Len(s) \in Nat /\ \A i \in 1 .. Len(s) : s[i] \in Point
    BY ElementOfSeq, LenProperties
  <2>2. \A x \in Point : x.time \in Int
    BY DEF Point
  <2> QED
    BY <1>1, <2>1, <2>2 DEF Timed
<1>3. Times(e.points) \in Seq(Int) /\ << >> \in Seq(Int)
  BY <1>2, TimesType, EmptySeq
<1> QED
  BY <1>3 DEF InEntry

LEMMA InPacketType ==
  ASSUME NEW p \in Packet, NEW l
  PROVE  InPacket(p, l) \in Seq(Int)
<1>1. DotNum \in Nat /\ p.time_stamp \in Int
  BY ClockAssumption DEF Packet
<1>2. [k \in 1 .. DotNum |-> p.time_stamp + k - 1] \in Seq(Int)
  BY <1>1, IsASeq
<1>3. << >> \in Seq(Int)
  BY EmptySeq
<1> QED
  BY <1>2, <1>3 DEF InPacket

LEMMA EntriesType ==
  ASSUME NEW f \in Seq(Entry), NEW l
  PROVE  /\ Entries(f, l) \in Seq(Seq(Int)) /\ Len(Entries(f, l)) = Len(f) /\ Len(f) \in Nat
         /\ \A i \in 1 .. Len(f) : Entries(f, l)[i] = InEntry(f[i], l)
         /\ Framed(f, l) = Joined(Entries(f, l))[Len(f)] /\ Framed(f, l) \in Seq(Int)
<1>1. Len(f) \in Nat /\ \A i \in 1 .. Len(f) : f[i] \in Entry
  BY ElementOfSeq, LenProperties
<1>2. \A i \in 1 .. Len(f) : InEntry(f[i], l) \in Seq(Int)
  BY <1>1, InEntryType
<1>3. Entries(f, l) \in Seq(Seq(Int)) /\ DOMAIN Entries(f, l) = 1 .. Len(f)
  BY <1>1, <1>2, IsASeq DEF Entries
<1>4. Len(Entries(f, l)) = Len(f)
  BY <1>1, <1>3, LenProperties
<1>5. Framed(f, l) = Joined(Entries(f, l))[Len(f)]
  BY DEF Framed, Entries, InEntry
<1>6. Framed(f, l) \in Seq(Int)
  BY <1>1, <1>3, <1>4, <1>5, JoinedType
<1> QED
  BY <1>1, <1>3, <1>4, <1>5, <1>6 DEF Entries

LEMMA PacketsType ==
  ASSUME NEW q \in Seq(Packet), NEW l
  PROVE  /\ Packets(q, l) \in Seq(Seq(Int)) /\ Len(Packets(q, l)) = Len(q) /\ Len(q) \in Nat
         /\ \A i \in 1 .. Len(q) : Packets(q, l)[i] = InPacket(q[i], l)
         /\ Queued(q, l) = Joined(Packets(q, l))[Len(q)] /\ Queued(q, l) \in Seq(Int)
<1>1. Len(q) \in Nat /\ \A i \in 1 .. Len(q) : q[i] \in Packet
  BY ElementOfSeq, LenProperties
<1>2. \A i \in 1 .. Len(q) : InPacket(q[i], l) \in Seq(Int)
  BY <1>1, InPacketType
<1>3. Packets(q, l) \in Seq(Seq(Int)) /\ DOMAIN Packets(q, l) = 1 .. Len(q)
  BY <1>1, <1>2, IsASeq DEF Packets
<1>4. Len(Packets(q, l)) = Len(q)
  BY <1>1, <1>3, LenProperties
<1>5. Queued(q, l) = Joined(Packets(q, l))[Len(q)]
  BY DEF Queued, Packets, InPacket
<1>6. Queued(q, l) \in Seq(Int)
  BY <1>1, <1>3, <1>4, <1>5, JoinedType
<1> QED
  BY <1>1, <1>3, <1>4, <1>5, <1>6 DEF Packets

LEMMA FramedEmpty ==
  ASSUME NEW l
  PROVE  Framed(<< >>, l) = << >> /\ Queued(<< >>, l) = << >>
<1>1. << >> \in Seq(Entry) /\ << >> \in Seq(Packet) /\ Len(<< >>) = 0
  BY EmptySeq
<1>2. Framed(<< >>, l) = Joined(Entries(<< >>, l))[0] /\ Len(Entries(<< >>, l)) = 0
  BY <1>1, EntriesType
<1>3. Queued(<< >>, l) = Joined(Packets(<< >>, l))[0] /\ Len(Packets(<< >>, l)) = 0
  BY <1>1, PacketsType
<1> QED
  BY <1>2, <1>3, JoinedValues, 0 \in Nat

LEMMA FramedAppend ==
  ASSUME NEW f \in Seq(Entry), NEW e \in Entry, NEW l
  PROVE  Framed(Append(f, e), l) = Framed(f, l) \o InEntry(e, l)
<1> DEFINE g == Append(f, e)
<1>1. /\ g \in Seq(Entry) /\ Len(g) = Len(f) + 1 /\ Len(f) \in Nat
      /\ \A i \in 1 .. Len(f) : g[i] = f[i]
      /\ g[Len(f) + 1] = e
  BY AppendProperties, LenProperties
<1> HIDE DEF g
<1>2. /\ Entries(f, l) \in Seq(Seq(Int)) /\ Len(Entries(f, l)) = Len(f)
      /\ \A i \in 1 .. Len(f) : Entries(f, l)[i] = InEntry(f[i], l)
      /\ Framed(f, l) = Joined(Entries(f, l))[Len(f)]
  BY EntriesType
<1>3. /\ Entries(g, l) \in Seq(Seq(Int)) /\ Len(Entries(g, l)) = Len(f) + 1
      /\ \A i \in 1 .. Len(f) + 1 : Entries(g, l)[i] = InEntry(g[i], l)
      /\ Framed(g, l) = Joined(Entries(g, l))[Len(f) + 1]
  BY <1>1, EntriesType
<1>4. InEntry(e, l) \in Seq(Int)
  BY InEntryType
<1>5. /\ \A i \in 1 .. Len(f) : i \in 1 .. Len(f) + 1
      /\ Len(f) + 1 \in 1 .. Len(f) + 1
  BY <1>1
<1>6. /\ \A i \in 1 .. Len(Entries(f, l)) : Entries(g, l)[i] = Entries(f, l)[i]
      /\ Entries(g, l)[Len(Entries(f, l)) + 1] = InEntry(e, l)
      /\ Len(Entries(g, l)) = Len(Entries(f, l)) + 1
  BY <1>1, <1>2, <1>3, <1>5
<1>7. Joined(Entries(g, l))[Len(Entries(g, l))]
        = Joined(Entries(f, l))[Len(Entries(f, l))] \o InEntry(e, l)
  BY <1>2, <1>3, <1>4, <1>6, JoinedAppend
<1>8. Framed(g, l) = Framed(f, l) \o InEntry(e, l)
  BY <1>2, <1>3, <1>7
<1> QED
  BY <1>8 DEF g

LEMMA QueuedAppend ==
  ASSUME NEW q \in Seq(Packet), NEW p \in Packet, NEW l
  PROVE  Queued(Append(q, p), l) = Queued(q, l) \o InPacket(p, l)
<1> DEFINE g == Append(q, p)
<1>1. /\ g \in Seq(Packet) /\ Len(g) = Len(q) + 1 /\ Len(q) \in Nat
      /\ \A i \in 1 .. Len(q) : g[i] = q[i]
      /\ g[Len(q) + 1] = p
  BY AppendProperties, LenProperties
<1> HIDE DEF g
<1>2. /\ Packets(q, l) \in Seq(Seq(Int)) /\ Len(Packets(q, l)) = Len(q)
      /\ \A i \in 1 .. Len(q) : Packets(q, l)[i] = InPacket(q[i], l)
      /\ Queued(q, l) = Joined(Packets(q, l))[Len(q)]
  BY PacketsType
<1>3. /\ Packets(g, l) \in Seq(Seq(Int)) /\ Len(Packets(g, l)) = Len(q) + 1
      /\ \A i \in 1 .. Len(q) + 1 : Packets(g, l)[i] = InPacket(g[i], l)
      /\ Queued(g, l) = Joined(Packets(g, l))[Len(q) + 1]
  BY <1>1, PacketsType
<1>4. InPacket(p, l) \in Seq(Int)
  BY InPacketType
<1>5. /\ \A i \in 1 .. Len(q) : i \in 1 .. Len(q) + 1
      /\ Len(q) + 1 \in 1 .. Len(q) + 1
  BY <1>1
<1>6. /\ \A i \in 1 .. Len(Packets(q, l)) : Packets(g, l)[i] = Packets(q, l)[i]
      /\ Packets(g, l)[Len(Packets(q, l)) + 1] = InPacket(p, l)
      /\ Len(Packets(g, l)) = Len(Packets(q, l)) + 1
  BY <1>1, <1>2, <1>3, <1>5
<1>7. Joined(Packets(g, l))[Len(Packets(g, l))]
        = Joined(Packets(q, l))[Len(Packets(q, l))] \o InPacket(p, l)
  BY <1>2, <1>3, <1>4, <1>6, JoinedAppend
<1>8. Queued(g, l) = Queued(q, l) \o InPacket(p, l)
  BY <1>2, <1>3, <1>7
<1> QED
  BY <1>8 DEF g

LEMMA FramedTail ==
  ASSUME NEW f \in Seq(Entry), f # << >>, NEW l
  PROVE  Framed(f, l) = InEntry(Head(f), l) \o Framed(Tail(f), l)
<1> DEFINE g == Tail(f)
<1>1. /\ g \in Seq(Entry) /\ Len(g) = Len(f) - 1 /\ Len(f) \in Nat /\ Len(g) \in Nat
      /\ \A i \in 1 .. Len(g) : g[i] = f[i + 1]
      /\ Head(f) = f[1] /\ Len(f) = Len(g) + 1
  BY HeadTailProperties, LenProperties
<1> HIDE DEF g
<1>2. /\ Entries(g, l) \in Seq(Seq(Int)) /\ Len(Entries(g, l)) = Len(g)
      /\ \A i \in 1 .. Len(g) : Entries(g, l)[i] = InEntry(g[i], l)
      /\ Framed(g, l) = Joined(Entries(g, l))[Len(g)]
  BY <1>1, EntriesType
<1>3. /\ Entries(f, l) \in Seq(Seq(Int)) /\ Len(Entries(f, l)) = Len(f)
      /\ \A i \in 1 .. Len(f) : Entries(f, l)[i] = InEntry(f[i], l)
      /\ Framed(f, l) = Joined(Entries(f, l))[Len(f)]
  BY EntriesType
<1>4. /\ \A i \in 1 .. Len(g) : i + 1 \in 1 .. Len(f)
      /\ 1 \in 1 .. Len(f)
  BY <1>1
<1>5. /\ Len(Entries(f, l)) = Len(Entries(g, l)) + 1
      /\ \A i \in 1 .. Len(Entries(g, l)) : Entries(g, l)[i] = Entries(f, l)[i + 1]
      /\ Entries(f, l)[1] = InEntry(Head(f), l)
  BY <1>1, <1>2, <1>3, <1>4
<1>6. Joined(Entries(f, l))[Len(Entries(f, l))]
        = Entries(f, l)[1] \o Joined(Entries(g, l))[Len(Entries(g, l))]
  BY <1>2, <1>3, <1>5, JoinedTail
<1>7. Framed(f, l) = InEntry(Head(f), l) \o Framed(g, l)
  BY <1>2, <1>3, <1>5, <1>6
<1> QED
  BY <1>7 DEF g

LEMMA QueuedTail ==
  ASSUME NEW q \in Seq(Packet), q # << >>, NEW l
  PROVE  Queued(q, l) = InPacket(Head(q), l) \o Queued(Tail(q), l)
<1> DEFINE g == Tail(q)
<1>1. /\ g \in Seq(Packet) /\ Len(g) = Len(q) - 1 /\ Len(q) \in Nat /\ Len(g) \in Nat
      /\ \A i \in 1 .. Len(g) : g[i] = q[i + 1]
      /\ Head(q) = q[1] /\ Len(q) = Len(g) + 1
  BY HeadTailProperties, LenProperties
<1> HIDE DEF g
<1>2. /\ Packets(g, l) \in Seq(Seq(Int)) /\ Len(Packets(g, l)) = Len(g)
      /\ \A i \in 1 .. Len(g) : Packets(g, l)[i] = InPacket(g[i], l)
      /\ Queued(g, l) = Joined(Packets(g, l))[Len(g)]
  BY <1>1, PacketsType
<1>3. /\ Packets(q, l) \in Seq(Seq(Int)) /\ Len(Packets(q, l)) = Len(q)
      /\ \A i \in 1 .. Len(q) : Packets(q, l)[i] = InPacket(q[i], l)
      /\ Queued(q, l) = Joined(Packets(q, l))[Len(q)]
  BY PacketsType
<1>4. /\ \A i \in 1 .. Len(g) : i + 1 \in 1 .. Len(q)
      /\ 1 \in 1 .. Len(q)
  BY <1>1
<1>5. /\ Len(Packets(q, l)) = Len(Packets(g, l)) + 1
      /\ \A i \in 1 .. Len(Packets(g, l)) : Packets(g, l)[i] = Packets(q, l)[i + 1]
      /\ Packets(q, l)[1] = InPacket(Head(q), l)
  BY <1>1, <1>2, <1>3, <1>4
<1>6. Joined(Packets(q, l))[Len(Packets(q, l))]
        = Packets(q, l)[1] \o Joined(Packets(g, l))[Len(Packets(g, l))]
  BY <1>2, <1>3, <1>5, JoinedTail
<1>7. Queued(q, l) = InPacket(Head(q), l) \o Queued(g, l)
  BY <1>2, <1>3, <1>5, <1>6
<1> QED
  BY <1>7 DEF g

-----------------------------------------------------------------------------
(* What CheckTimer publishes *)

EntryOf(l, clouds) ==
  [handle |-> l, base_time |-> GetLidarBaseTime(clouds[l]), points |-> clouds[l]]

\* The frame f after one more lidar
OneMore(f, l, clouds) == IF clouds[l] = << >> THEN f ELSE Append(f, EntryOf(l, clouds))

LEMMA FramesEquation ==
  ASSUME NEW lidars, NEW clouds, Len(lidars) \in Nat
  PROVE  Frames(lidars, clouds) =
           [n \in 0 .. Len(lidars) |->
              IF n = 0 THEN << >>
              ELSE OneMore(Frames(lidars, clouds)[n - 1], lidars[n], clouds)]
<1> DEFINE E(f, m) == f = [n \in 0 .. m |-> IF n = 0 THEN << >> ELSE OneMore(f[n - 1], lidars[n], clouds)]
           T == {m \in Nat : ~ \E f : E(f, m)}
<1>1. ASSUME T # {}
      PROVE  FALSE
  <2>1. PICK m \in T : \A k \in T : m <= k
    <3>1. T \subseteq Nat
      OBVIOUS
    <3> HIDE DEF T
    <3> QED
      BY <1>1, <3>1, NatMin
  <2>2. m \in Nat /\ ~ \E f : E(f, m)
    BY <2>1
  <2>3. m # 0
    <3>1. E([n \in 0 .. 0 |-> << >>], 0)
      OBVIOUS
    <3> HIDE DEF E
    <3> QED
      BY <2>2, <3>1
  <2>4. m - 1 \in Nat /\ m - 1 \notin T
    <3>1. m - 1 \in Nat /\ ~(m <= m - 1)
      BY <2>2, <2>3
    <3> HIDE DEF T
    <3> QED
      BY <2>1, <3>1
  <2>5. PICK g : E(g, m - 1)
    <3> HIDE DEF E
    <3> QED
      BY <2>4
  <2> DEFINE f == [n \in 0 .. m |-> IF n = m THEN OneMore(g[m - 1], lidars[m], clouds) ELSE g[n]]
  <2>6. ASSUME NEW n \in 0 .. m
        PROVE  f[n] = IF n = 0 THEN << >> ELSE OneMore(f[n - 1], lidars[n], clouds)
    <3>1. CASE n = m
      <4>1. m - 1 \in 0 .. m /\ m - 1 # m
        BY <2>2, <2>3
      <4>2. f[m - 1] = g[m - 1]
        BY <4>1
      <4> QED
        BY <2>3, <3>1, <4>2
    <3>2. CASE n = 0 /\ n # m
      <4>1. 0 \in 0 .. m - 1
        BY <2>4
      <4> QED
        BY <2>5, <3>2, <4>1
    <3>3. CASE n # 0 /\ n # m
      <4>1. n \in 0 .. m - 1 /\ n - 1 \in 0 .. m - 1 /\ n - 1 # m /\ n - 1 \in 0 .. m
        BY <2>2, <3>3
      <4>2. f[n] = g[n] /\ f[n - 1] = g[n - 1]
        BY <3>3, <4>1
      <4>3. g[n] = OneMore(g[n - 1], lidars[n], clouds)
        BY <2>5, <3>3, <4>1
      <4> HIDE DEF f
      <4> QED
        BY <3>3, <4>2, <4>3
    <3> QED
      BY <3>1, <3>2, <3>3
  <2>7. E(f, m)
    <3> DEFINE h == [n \in 0 .. m |-> IF n = 0 THEN << >> ELSE OneMore(f[n - 1], lidars[n], clouds)]
    <3>1. \A n \in 0 .. m : f[n] = h[n]
      BY <2>6
    <3>2. f = [n \in 0 .. m |-> f[n]] /\ h = [n \in 0 .. m |-> h[n]]
      OBVIOUS
    <3>3. f = h
      <4> HIDE DEF f, h
      <4> QED
        BY <3>1, <3>2
    <3> HIDE DEF f
    <3> QED
      BY <3>3
  <2> HIDE DEF E, f
  <2> QED
    BY <2>2, <2>7
<1>2. \E f : E(f, Len(lidars))
  <2> HIDE DEF E
  <2> QED
    BY <1>1
<1>3. Frames(lidars, clouds) = CHOOSE f : E(f, Len(lidars))
  BY Zenon DEF Frames, EntryOf, OneMore
<1>4. E(Frames(lidars, clouds), Len(lidars))
  <2> HIDE DEF E
  <2> QED
    BY <1>2, <1>3
<1> QED
  BY <1>4, Zenon

LEMMA FramesValues ==
  ASSUME NEW lidars, NEW clouds, Len(lidars) \in Nat
  PROVE  /\ Frames(lidars, clouds)[0] = << >>
         /\ \A n \in 1 .. Len(lidars) :
              Frames(lidars, clouds)[n] = OneMore(Frames(lidars, clouds)[n - 1], lidars[n], clouds)
<1> DEFINE F == Frames(lidars, clouds)
<1>1. F = [n \in 0 .. Len(lidars) |->
             IF n = 0 THEN << >> ELSE OneMore(F[n - 1], lidars[n], clouds)]
  BY FramesEquation
<1> HIDE DEF F
<1>2. 0 \in 0 .. Len(lidars) /\ \A n \in 1 .. Len(lidars) : n \in 0 .. Len(lidars) /\ n # 0
  OBVIOUS
<1>3. F[0] = << >> /\ \A n \in 1 .. Len(lidars) : F[n] = OneMore(F[n - 1], lidars[n], clouds)
  BY <1>1, <1>2
<1> QED
  BY <1>3 DEF F

\* Clouds of points, each moved by the extrinsics of its lidar
Clouds(clouds) ==
  /\ clouds \in [Lidars -> Seq(Point)]
  /\ \A l \in Lidars : \A k \in 1 .. Len(clouds[l]) : clouds[l][k].ext = Moved(l)

\* Entries with such clouds
OwnEntry(e) == e \in Entry /\ \A k \in 1 .. Len(e.points) : e.points[k].ext = Moved(e.handle)

LEMMA EntryOfOwn ==
  ASSUME NEW clouds, Clouds(clouds), NEW l \in Lidars
  PROVE  OwnEntry(EntryOf(l, clouds))
<1>1. clouds[l] \in Seq(Point)
  BY DEF Clouds
<1>2. GetLidarBaseTime(clouds[l]) \in Int
  <2>1. CASE clouds[l] = << >>
    BY <2>1 DEF GetLidarBaseTime
  <2>2. CASE clouds[l] # << >>
    <3>1. Head(clouds[l]) \in Point
      BY <1>1, <2>2, HeadTailProperties
    <3> QED
      BY <2>2, <3>1 DEF GetLidarBaseTime, Point
  <2> QED
    BY <2>1, <2>2
<1> QED
  BY <1>1, <1>2 DEF EntryOf, OwnEntry, Entry, Clouds

\* Lidars, none twice
Distinct(lidars) ==
  /\ lidars \in Seq(Lidars)
  /\ \A i, j \in 1 .. Len(lidars) : lidars[i] = lidars[j] => i = j

\* The frame holds each cloud that is published once, as it is.
FramesRight(lidars, clouds, n) ==
  LET f == Frames(lidars, clouds)[n]
  IN  /\ f \in Seq(Entry) /\ \A i \in 1 .. Len(f) : OwnEntry(f[i])
      /\ \A l \in Lidars : Framed(f, l) = IF \E k \in 1 .. n : lidars[k] = l
                                          THEN Times(clouds[l]) ELSE << >>

LEMMA FramesStep ==
  ASSUME NEW lidars, Distinct(lidars), NEW clouds, Clouds(clouds),
         NEW n \in 1 .. Len(lidars), FramesRight(lidars, clouds, n - 1)
  PROVE  FramesRight(lidars, clouds, n)
<1> DEFINE f == Frames(lidars, clouds)[n - 1]
           g == Frames(lidars, clouds)[n]
           h == lidars[n]
           e == EntryOf(h, clouds)
<1>1. Len(lidars) \in Nat /\ h \in Lidars /\ n \in Nat
  BY ElementOfSeq, LenProperties DEF Distinct
<1>2. g = IF clouds[h] = << >> THEN f ELSE Append(f, e)
  BY <1>1, FramesValues DEF OneMore
<1>3. /\ f \in Seq(Entry) /\ \A i \in 1 .. Len(f) : OwnEntry(f[i])
      /\ \A l \in Lidars : Framed(f, l) = IF \E k \in 1 .. n - 1 : lidars[k] = l
                                          THEN Times(clouds[l]) ELSE << >>
  BY Zenon DEF FramesRight
<1>4. \A k \in 1 .. n - 1 : k \in 1 .. n /\ k \in 1 .. Len(lidars) /\ lidars[k] # h
  BY <1>1 DEF Distinct
<1>5. \A l \in Lidars : l # h =>
        ((\E k \in 1 .. n : lidars[k] = l) <=> \E k \in 1 .. n - 1 : lidars[k] = l)
  <2>1. \A k \in 1 .. n : k \in 1 .. n - 1 \/ k = n
    BY <1>1
  <2> QED
    BY <1>4, <2>1
<1>6. OwnEntry(e) /\ e \in Entry /\ e.handle = h /\ e.points = clouds[h]
  BY <1>1, EntryOfOwn DEF OwnEntry, EntryOf
<1>7. n \in 1 .. n /\ (\E k \in 1 .. n : lidars[k] = h) /\ ~ \E k \in 1 .. n - 1 : lidars[k] = h
  BY <1>1, <1>4
<1>8. Framed(f, h) = << >>
  BY <1>1, <1>3, <1>7
<1> HIDE DEF f, g, e, h
<1>9. CASE clouds[h] = << >>
  <2>1. Times(clouds[h]) = << >>
    BY <1>9 DEF Times
  <2>2. g = f
    BY <1>2, <1>9
  <2>3. \A l \in Lidars : Framed(g, l) = IF \E k \in 1 .. n : lidars[k] = l
                                         THEN Times(clouds[l]) ELSE << >>
    BY <1>3, <1>5, <1>7, <1>8, <2>1, <2>2
  <2> QED
    BY <1>3, <2>2, <2>3 DEF FramesRight, g
<1>10. CASE clouds[h] # << >>
  <2>1. g = Append(f, e)
    BY <1>2, <1>10
  <2>2. /\ g \in Seq(Entry) /\ Len(g) = Len(f) + 1 /\ Len(f) \in Nat
        /\ \A i \in 1 .. Len(f) : g[i] = f[i]
        /\ g[Len(f) + 1] = e
    BY <1>3, <1>6, <2>1, AppendProperties, LenProperties
  <2>3. \A i \in 1 .. Len(g) : OwnEntry(g[i])
    <3>1. \A i \in 1 .. Len(g) : i \in 1 .. Len(f) \/ i = Len(f) + 1
      BY <2>2
    <3> QED
      BY <1>3, <1>6, <2>2, <3>1
  <2>4. ASSUME NEW l \in Lidars
        PROVE  Framed(g, l) = IF \E k \in 1 .. n : lidars[k] = l
                              THEN Times(clouds[l]) ELSE << >>
    <3>1. Framed(g, l) = Framed(f, l) \o InEntry(e, l)
      BY <1>3, <1>6, <2>1, FramedAppend
    <3>2. CASE l = h
      <4>1. InEntry(e, l) = Times(clouds[l]) /\ InEntry(e, l) \in Seq(Int)
        BY <1>6, <3>2, InEntryType DEF InEntry
      <4>2. << >> \o InEntry(e, l) = InEntry(e, l)
        BY <4>1, ConcatEmptySeq
      <4> QED
        BY <1>7, <1>8, <3>1, <3>2, <4>1, <4>2
    <3>3. CASE l # h
      <4>1. InEntry(e, l) = << >> /\ Framed(f, l) \in Seq(Int)
        BY <1>3, <1>6, <3>3, EntriesType DEF InEntry
      <4>2. Framed(f, l) \o << >> = Framed(f, l)
        BY <4>1, ConcatEmptySeq
      <4> QED
        BY <1>3, <1>5, <3>1, <3>3, <4>1, <4>2
    <3> QED
      BY <3>2, <3>3
  <2> QED
    BY <2>2, <2>3, <2>4 DEF FramesRight, g
<1> QED
  BY <1>9, <1>10

LEMMA FramesAreRight ==
  ASSUME NEW lidars, Distinct(lidars), NEW clouds, Clouds(clouds)
  PROVE  FramesRight(lidars, clouds, Len(lidars))
<1> DEFINE T == {n \in 0 .. Len(lidars) : ~FramesRight(lidars, clouds, n)}
<1>1. Len(lidars) \in Nat
  BY LenProperties DEF Distinct
<1>2. FramesRight(lidars, clouds, 0)
  <2>1. Frames(lidars, clouds)[0] = << >>
    BY <1>1, FramesValues
  <2>2. << >> \in Seq(Entry) /\ Len(<< >>) = 0
    BY EmptySeq
  <2>3. \A l \in Lidars : Framed(<< >>, l) = << >>
    BY FramedEmpty
  <2>4. ~ \E k \in 1 .. 0 : TRUE
    OBVIOUS
  <2> QED
    BY <2>1, <2>2, <2>3, <2>4 DEF FramesRight
<1>3. ASSUME T # {}
      PROVE  FALSE
  <2>1. PICK m \in T : \A j \in T : m <= j
    <3>1. T \subseteq Nat
      BY <1>1
    <3> HIDE DEF T
    <3> QED
      BY <1>3, <3>1, NatMin
  <2>2. m # 0
    BY <1>2, <2>1
  <2>3. m \in 1 .. Len(lidars) /\ m - 1 \in 0 .. Len(lidars) /\ ~(m <= m - 1)
    BY <1>1, <2>1, <2>2
  <2>4. FramesRight(lidars, clouds, m - 1)
    BY <2>1, <2>3
  <2> QED
    BY <2>1, <2>3, <2>4, FramesStep
<1>4. Len(lidars) \in 0 .. Len(lidars)
  BY <1>1
<1> QED
  BY <1>3, <1>4

-----------------------------------------------------------------------------
(* The way of the points *)

FrameOwn == frame_ \in Seq(Entry) /\ \A i \in 1 .. Len(frame_) : OwnEntry(frame_[i])

\* What is stored was moved by its lidar's extrinsics and is in its place, or in none.
StoredOwn ==
  /\ stored \in [Lidars -> Seq(StoredPoint)]
  /\ \A l \in Lidars : \A k \in 1 .. Len(stored[l]) :
       stored[l][k].ext = Moved(l) /\ stored[l][k].place \in {map_index_[l], NoIndex}

PointsInv ==
  /\ Places /\ period \in Nat
  /\ extrinsic_ \in [Lidars -> {"default", "configured"}]
  /\ \A l \in Lidars : l \notin Configured => extrinsic_[l] = "default"
  /\ raw_packet_queue_ \in Seq(Packet)
  /\ received \in [Lidars -> Seq(Int)]
  /\ Clouds(points_clouds_) /\ FrameOwn /\ StoredOwn
  /\ PointsAccounted

\* The parts of PointsAccounted are sequences of times.
LEMMA TimesOfParts ==
  ASSUME PointsInv, NEW l \in Lidars
  PROVE  /\ Times(stored[l]) \in Seq(Int) /\ Framed(frame_, l) \in Seq(Int)
         /\ Times(points_clouds_[l]) \in Seq(Int) /\ Queued(raw_packet_queue_, l) \in Seq(Int)
<1>1. stored[l] \in Seq(StoredPoint) /\ points_clouds_[l] \in Seq(Point)
  BY DEF PointsInv, StoredOwn, Clouds
<1>2. (\A e \in StoredPoint : e.time \in Int) /\ (\A e \in Point : e.time \in Int)
  BY DEF StoredPoint, Point
<1>3. Timed(stored[l]) /\ Timed(points_clouds_[l])
  BY <1>1, <1>2, TimesConcat
<1> QED
  BY <1>3, TimesType, EntriesType, PacketsType DEF PointsInv, FrameOwn

LEMMA PointsInit == Init => PointsInv
<1> SUFFICES ASSUME Init PROVE PointsInv
  OBVIOUS
<1>1. Places
  BY InitPlaces
<1>2. \A S : << >> \in Seq(S)
  BY EmptySeq
<1>3. Len(<< >>) = 0 /\ ~ \E k \in 1 .. 0 : TRUE
  OBVIOUS
<1>4. /\ raw_packet_queue_ = << >> /\ frame_ = << >>
      /\ received = [l \in Lidars |-> << >>] /\ stored = [l \in Lidars |-> << >>]
      /\ points_clouds_ = [l \in Lidars |-> << >>]
      /\ extrinsic_ = [l \in Lidars |-> "default"] /\ period = 0
  BY DEF Init
<1>5. Clouds(points_clouds_) /\ FrameOwn /\ StoredOwn
  BY <1>2, <1>3, <1>4 DEF Clouds, FrameOwn, StoredOwn
<1>6. PointsAccounted
  <2>1. Times(<< >>) = << >>
    BY DEF Times
  <2>2. << >> \o << >> = << >>
    BY <1>2, ConcatEmptySeq
  <2> QED
    BY <1>4, <2>1, <2>2, FramedEmpty DEF PointsAccounted
<1> QED
  BY <1>1, <1>2, <1>4, <1>5, <1>6 DEF PointsInv

LEMMA OnPointPacketStep ==
  ASSUME PointsInv, NEW h \in Lidars, OnPointPacket(h)
  PROVE  PointsInv'
<1> DEFINE ts == GetEthPacketTimestamp(h)
           p == [handle |-> h, time_stamp |-> ts]
           x == [i \in 1 .. DotNum |-> ts + i - 1]
<1>1. ts \in Int
  BY ClockAssumption DEF PointsInv, GetEthPacketTimestamp, Now, publish_interval_
<1>2. /\ raw_packet_queue_' = Append(raw_packet_queue_, p)
      /\ received' = [received EXCEPT ![h] = @ \o x]
      /\ UNCHANGED <<period, workerVars, indexVars>>
  BY DEF OnPointPacket
<1>3. p \in Packet /\ InPacket(p, h) = x /\ x \in Seq(Int)
      /\ \A l \in Lidars : l # h => InPacket(p, l) = << >>
  <2>1. p \in Packet
    BY <1>1 DEF Packet
  <2>2. InPacket(p, h) = x /\ \A l \in Lidars : l # h => InPacket(p, l) = << >>
    BY DEF InPacket
  <2> QED
    BY <2>1, <2>2, InPacketType
<1> HIDE DEF p, x
<1>4. raw_packet_queue_' \in Seq(Packet)
  BY <1>2, <1>3, AppendProperties DEF PointsInv
<1>5. \A l \in Lidars : received[l] \in Seq(Int)
  BY DEF PointsInv
<1>6. received' \in [Lidars -> Seq(Int)]
  BY <1>2, <1>3, <1>5, ConcatProperties DEF PointsInv
<1>7. ASSUME NEW l \in Lidars
      PROVE  received'[l] = Times(stored[l]) \o Framed(frame_, l)
                              \o Times(points_clouds_[l]) \o Queued(raw_packet_queue_', l)
  <2> DEFINE a == Times(stored[l]) \o Framed(frame_, l) \o Times(points_clouds_[l])
             q == Queued(raw_packet_queue_, l)
             y == InPacket(p, l)
  <2>1. Queued(raw_packet_queue_', l) = q \o y
    BY <1>2, <1>3, QueuedAppend DEF PointsInv
  <2>2. a \in Seq(Int) /\ q \in Seq(Int) /\ y \in Seq(Int)
    BY <1>3, TimesOfParts, ConcatProperties, InPacketType
  <2>3. received[l] = a \o q
    BY DEF PointsInv, PointsAccounted
  <2>4. received'[l] = received[l] \o y
    <3>1. CASE l = h
      BY <1>2, <1>3, <3>1 DEF PointsInv
    <3>2. CASE l # h
      BY <1>2, <1>3, <1>5, <3>2, ConcatEmptySeq DEF PointsInv
    <3> QED
      BY <3>1, <3>2
  <2> HIDE DEF a, q, y
  <2>5. (a \o q) \o y = a \o (q \o y)
    BY <2>2, ConcatAssociative
  <2>6. received'[l] = a \o Queued(raw_packet_queue_', l)
    BY <2>1, <2>3, <2>4, <2>5
  <2> QED
    BY <2>6 DEF a
<1>8. PointsAccounted'
  BY <1>2, <1>7 DEF PointsAccounted, workerVars
<1> QED
  BY <1>2, <1>4, <1>6, <1>8 DEF PointsInv, Places, FrameOwn, StoredOwn, workerVars, indexVars

\* The timer waits, or publishes the clouds of some lidars, none twice.
LEMMA TimerPublishes ==
  ASSUME NEW h \in Lidars, NEW clouds, CheckTimer(h, clouds)
  PROVE  \/ Wait(clouds)
         \/ \E lidars : Distinct(lidars) /\ Publish(lidars, clouds)
<1>1. Distinct(<<h>>)
  BY DEF Distinct
<1>2. Distinct([i \in 1 .. NLidars |-> i - 1])
  <2>1. NLidars \in Nat /\ \A i \in 1 .. NLidars : i - 1 \in Lidars
    BY LidarsAssumption DEF Lidars
  <2> DEFINE s == [i \in 1 .. NLidars |-> i - 1]
  <2>2. s \in Seq(Lidars)
    BY <2>1, IsASeq
  <2>3. Len(s) = NLidars
    BY <2>1, <2>2, LenProperties
  <2> QED
    BY <2>1, <2>2, <2>3 DEF Distinct
<1> QED
  BY <1>1, <1>2 DEF CheckTimer

\* Either way no point is lost between the clouds and the frame.
LEMMA TimerKeepsPoints ==
  ASSUME NEW h \in Lidars, NEW clouds, Clouds(clouds), CheckTimer(h, clouds)
  PROVE  /\ Clouds(points_clouds_') /\ FrameOwn'
         /\ \A l \in Lidars : Framed(frame_', l) \o Times(points_clouds_'[l]) = Times(clouds[l])
<1>1. \A l \in Lidars : clouds[l] \in Seq(Point) /\ Times(clouds[l]) \in Seq(Int)
  <2>1. \A e \in Point : e.time \in Int
    BY DEF Point
  <2>2. \A l \in Lidars : clouds[l] \in Seq(Point) /\ Timed(clouds[l])
    BY <2>1, TimesConcat DEF Clouds
  <2> QED
    BY <2>2, TimesType
<1>2. CASE Wait(clouds)
  <2>1. frame_' = << >> /\ points_clouds_' = clouds
    BY <1>2 DEF Wait
  <2>2. FrameOwn'
    <3>1. << >> \in Seq(Entry) /\ Len(<< >>) = 0
      BY EmptySeq
    <3> QED
      BY <2>1, <3>1 DEF FrameOwn
  <2> QED
    BY <1>1, <2>1, <2>2, FramedEmpty, ConcatEmptySeq
<1>3. ASSUME NEW lidars, Distinct(lidars), Publish(lidars, clouds)
      PROVE  /\ Clouds(points_clouds_') /\ FrameOwn'
             /\ \A l \in Lidars :
                  Framed(frame_', l) \o Times(points_clouds_'[l]) = Times(clouds[l])
  <2>1. FramesRight(lidars, clouds, Len(lidars))
    BY <1>3, FramesAreRight
  <2>2. /\ frame_' = Frames(lidars, clouds)[Len(lidars)]
        /\ points_clouds_' = [l \in Lidars |-> IF Contains(lidars, l) THEN << >> ELSE clouds[l]]
    BY <1>3 DEF Publish, SwapOut
  <2>3. FrameOwn' /\ \A l \in Lidars :
          Framed(frame_', l) = IF Contains(lidars, l) THEN Times(clouds[l]) ELSE << >>
    BY <2>1, <2>2 DEF FramesRight, FrameOwn, Contains
  <2>4. << >> \in Seq(Point) /\ Len(<< >>) = 0 /\ Times(<< >>) = << >>
    BY EmptySeq DEF Times
  <2>5. Clouds(points_clouds_')
    BY <2>2, <2>4 DEF Clouds
  <2>6. ASSUME NEW l \in Lidars
        PROVE  Framed(frame_', l) \o Times(points_clouds_'[l]) = Times(clouds[l])
    BY <1>1, <2>2, <2>3, <2>4, ConcatEmptySeq
  <2> QED
    BY <2>3, <2>5, <2>6
<1> QED
  BY <1>2, <1>3, TimerPublishes

LEMMA RawDataProcessStep ==
  ASSUME PointsInv, RawDataProcess
  PROVE  PointsInv'
<1> DEFINE pkt == Head(raw_packet_queue_)
           h == pkt.handle
           ext == SetLidarsExtParam(h)
           new == PointCloudProcess(pkt, ext)
           clouds == [points_clouds_ EXCEPT ![h] = @ \o new]
<1>1. /\ frame_ = << >> /\ raw_packet_queue_ # << >>
      /\ extrinsic_' = [extrinsic_ EXCEPT ![h] = ext]
      /\ CheckTimer(h, clouds)
      /\ raw_packet_queue_' = Tail(raw_packet_queue_)
      /\ UNCHANGED <<netVars, stored, indexVars>>
  BY DEF RawDataProcess
<1>2. pkt \in Packet /\ h \in Lidars /\ pkt.time_stamp \in Int /\ raw_packet_queue_' \in Seq(Packet)
  <2>1. raw_packet_queue_ \in Seq(Packet)
    BY DEF PointsInv
  <2>2. pkt \in Packet /\ raw_packet_queue_' \in Seq(Packet)
    BY <1>1, <2>1, HeadTailProperties
  <2> HIDE DEF pkt
  <2> QED
    BY <2>2 DEF Packet
<1>3. ext = Moved(h) /\ ext \in {"default", "configured"}
  BY <1>2 DEF PointsInv, SetLidarsExtParam, Moved
<1> HIDE DEF ext
<1>4. /\ new \in Seq(Point) /\ Len(new) = DotNum /\ DotNum \in Nat
      /\ \A k \in 1 .. DotNum : new[k].ext = Moved(h)
      /\ Times(new) = InPacket(pkt, h)
  <2>1. DotNum \in Nat
    BY ClockAssumption
  <2>2. \A k \in 1 .. DotNum : [time |-> pkt.time_stamp + k - 1, ext |-> ext] \in Point
    BY <1>2, <1>3, <2>1 DEF Point
  <2>3. new \in Seq(Point) /\ DOMAIN new = 1 .. DotNum
    BY <2>1, <2>2, IsASeq DEF PointCloudProcess
  <2>4. Len(new) = DotNum
    BY <2>1, <2>3, LenProperties
  <2>5. \A k \in 1 .. DotNum : new[k] = [time |-> pkt.time_stamp + k - 1, ext |-> ext]
    BY DEF PointCloudProcess
  <2> HIDE DEF new
  <2>6. Times(new) = [k \in 1 .. DotNum |-> pkt.time_stamp + k - 1]
    BY <2>4, <2>5 DEF Times
  <2> QED
    BY <1>3, <2>1, <2>3, <2>4, <2>5, <2>6 DEF InPacket
<1> HIDE DEF new
<1>5. /\ \A l \in Lidars : points_clouds_[l] \in Seq(Point)
      /\ points_clouds_ \in [Lidars -> Seq(Point)]
      /\ \A l \in Lidars : \A k \in 1 .. Len(points_clouds_[l]) :
            points_clouds_[l][k].ext = Moved(l)
  BY DEF PointsInv, Clouds
<1>6. /\ clouds[h] = points_clouds_[h] \o new /\ clouds \in [Lidars -> Seq(Point)]
      /\ \A l \in Lidars : l # h => clouds[l] = points_clouds_[l]
  <2>1. points_clouds_[h] \o new \in Seq(Point)
    BY <1>2, <1>4, <1>5, ConcatProperties
  <2> QED
    BY <1>2, <1>5, <2>1
<1> HIDE DEF clouds
<1>7. Clouds(clouds)
  <2> DEFINE c == points_clouds_[h]
  <2>1. /\ Len(c \o new) = Len(c) + DotNum /\ Len(c) \in Nat
        /\ \A i \in 1 .. Len(c) + DotNum :
             (c \o new)[i] = IF i <= Len(c) THEN c[i] ELSE new[i - Len(c)]
    BY <1>2, <1>4, <1>5, ConcatProperties, LenProperties
  <2>2. ASSUME NEW k \in 1 .. Len(c \o new)
        PROVE  (c \o new)[k].ext = Moved(h)
    <3>1. CASE k <= Len(c)
      <4>1. k \in 1 .. Len(c)
        BY <1>4, <2>1, <3>1
      <4> QED
        BY <1>2, <1>4, <1>5, <2>1, <3>1, <4>1
    <3>2. CASE ~(k <= Len(c))
      <4>1. k - Len(c) \in 1 .. DotNum
        BY <1>4, <2>1, <3>2
      <4> QED
        BY <1>4, <2>1, <3>2, <4>1
    <3> QED
      BY <3>1, <3>2
  <2> QED
    BY <1>5, <1>6, <2>2 DEF Clouds
<1>8. /\ Clouds(points_clouds_') /\ FrameOwn'
      /\ \A l \in Lidars : Framed(frame_', l) \o Times(points_clouds_'[l]) = Times(clouds[l])
  BY <1>1, <1>2, <1>7, TimerKeepsPoints
<1>9. ASSUME NEW l \in Lidars
      PROVE  received[l] = Times(stored[l]) \o Framed(frame_', l)
                             \o Times(points_clouds_'[l]) \o Queued(raw_packet_queue_', l)
  <2> DEFINE s == Times(stored[l])
             c == Times(points_clouds_[l])
             y == InPacket(pkt, l)
             q == Queued(raw_packet_queue_', l)
             f == Framed(frame_', l)
             d == Times(points_clouds_'[l])
  <2>1. Queued(raw_packet_queue_, l) = y \o q
    BY <1>1, QueuedTail DEF PointsInv
  <2>2. received[l] = s \o Framed(frame_, l) \o c \o (y \o q)
    BY <2>1 DEF PointsInv, PointsAccounted
  <2>3. Framed(frame_, l) = << >>
    BY <1>1, FramedEmpty
  <2>4. /\ s \in Seq(Int) /\ c \in Seq(Int) /\ y \in Seq(Int) /\ q \in Seq(Int)
        /\ f \in Seq(Int) /\ d \in Seq(Int)
    <3>1. s \in Seq(Int) /\ c \in Seq(Int)
      BY TimesOfParts
    <3>2. y \in Seq(Int) /\ q \in Seq(Int) /\ f \in Seq(Int)
      BY <1>2, <1>8, InPacketType, PacketsType, EntriesType DEF FrameOwn
    <3>3. \A e \in Point : e.time \in Int
      BY DEF Point
    <3>4. points_clouds_'[l] \in Seq(Point)
      BY <1>8 DEF Clouds
    <3>5. d \in Seq(Int)
      BY <3>3, <3>4, TimesConcat, TimesType
    <3> QED
      BY <3>1, <3>2, <3>5
  <2>5. f \o d = c \o y
    <3>1. CASE l = h
      <4>1. \A e \in Point : e.time \in Int
        BY DEF Point
      <4>2. Times(points_clouds_[h] \o new) = Times(points_clouds_[h]) \o Times(new)
        BY <1>2, <1>4, <1>5, <4>1, TimesConcat
      <4> QED
        BY <1>4, <1>6, <1>8, <3>1, <4>2
    <3>2. CASE l # h
      <4>1. y = << >>
        BY <3>2 DEF InPacket
      <4>2. Times(clouds[l]) = c
        BY <1>6, <3>2
      <4>3. c \o << >> = c
        BY <2>4, ConcatEmptySeq
      <4> QED
        BY <1>8, <4>1, <4>2, <4>3
    <3> QED
      BY <3>1, <3>2
  <2> HIDE DEF s, c, y, q, f, d
  <2>6. s \o << >> = s
    BY <2>4, ConcatEmptySeq
  <2>7. (s \o c) \o (y \o q) = (s \o (c \o y)) \o q
    <3> DEFINE a == s \o c
    <3>1. a \in Seq(Int)
      BY <2>4, ConcatProperties
    <3>2. a \o y = s \o (c \o y)
      BY <2>4, SMTT(30)
    <3> HIDE DEF a
    <3>3. a \o (y \o q) = (a \o y) \o q
      BY <2>4, <3>1, SMTT(30)
    <3> QED
      BY <3>2, <3>3 DEF a
  <2>8. (s \o (f \o d)) \o q = ((s \o f) \o d) \o q
    BY <2>4, SMTT(30)
  <2>9. received[l] = ((s \o f) \o d) \o q
    BY <2>2, <2>3, <2>5, <2>6, <2>7, <2>8
  <2> QED
    BY <2>9 DEF s, f, d, q
<1>10. PointsAccounted'
  BY <1>1, <1>9 DEF PointsAccounted, netVars
<1>11. /\ extrinsic_' \in [Lidars -> {"default", "configured"}]
       /\ \A l \in Lidars : l \notin Configured => extrinsic_'[l] = "default"
  BY <1>1, <1>2, <1>3 DEF PointsInv, Moved
<1> QED
  BY <1>1, <1>2, <1>8, <1>10, <1>11 DEF PointsInv, Places, StoredOwn, netVars, indexVars

LEMMA StoragePointDataStep ==
  ASSUME PointsInv, StoragePointData
  PROVE  PointsInv'
<1> DEFINE e == Head(frame_)
           h == e.handle
<1>1. PICK i \in GetIndex(h) :
        stored' = [stored EXCEPT ![h] =
          @ \o [k \in 1 .. Len(e.points) |->
                  [time |-> e.points[k].time, ext |-> e.points[k].ext, place |-> i]]]
  BY DEF StoragePointData
<1> DEFINE p == e.points
           new == [k \in 1 .. Len(p) |-> [time |-> p[k].time, ext |-> p[k].ext, place |-> i]]
<1>2. /\ frame_ # << >> /\ frame_' = Tail(frame_)
      /\ UNCHANGED <<netVars, raw_packet_queue_, points_clouds_, extrinsic_, indexVars>>
  BY DEF StoragePointData
<1>3. /\ e \in Entry /\ OwnEntry(e) /\ frame_' \in Seq(Entry) /\ Len(frame_) \in Nat
      /\ e = frame_[1] /\ Len(frame_') = Len(frame_) - 1
      /\ \A n \in 1 .. Len(frame_') : frame_'[n] = frame_[n + 1]
  <2>1. frame_ \in Seq(Entry) /\ 1 \in 1 .. Len(frame_)
    BY <1>2 DEF PointsInv, FrameOwn
  <2>2. e = frame_[1]
    BY <2>1
  <2> QED
    BY <1>2, <2>1, <2>2, HeadTailProperties, LenProperties DEF PointsInv, FrameOwn
<1>4. FrameOwn'
  <2>1. \A n \in 1 .. Len(frame_') : n + 1 \in 1 .. Len(frame_)
    BY <1>3
  <2> QED
    BY <1>3, <2>1 DEF PointsInv, FrameOwn
<1>5. h \in Lidars /\ p \in Seq(Point) /\ Len(p) \in Nat
      /\ \A k \in 1 .. Len(p) : p[k] \in Point /\ p[k].ext = Moved(h)
  BY <1>3, ElementOfSeq, LenProperties DEF OwnEntry, Entry
<1>6. i \in {map_index_[h], NoIndex} /\ i \in Int
  <2>1. i \in {map_index_[h], NoIndex}
    BY <1>1 DEF GetIndex
  <2>2. map_index_[h] \in Int /\ NoIndex \in Int
    BY <1>5, PlacesAssumption DEF PointsInv, Places, NoIndex
  <2> QED
    BY <2>1, <2>2
<1> HIDE DEF e, p
<1>7. /\ new \in Seq(StoredPoint) /\ Len(new) = Len(p)
      /\ \A k \in 1 .. Len(p) : new[k].ext = Moved(h) /\ new[k].place = i
      /\ Times(new) = Times(p)
  <2>1. \A k \in 1 .. Len(p) :
          [time |-> p[k].time, ext |-> p[k].ext, place |-> i] \in StoredPoint
    BY <1>5, <1>6 DEF StoredPoint, Point
  <2>2. new \in Seq(StoredPoint) /\ DOMAIN new = 1 .. Len(p)
    BY <1>5, <2>1, IsASeq
  <2>3. Len(new) = Len(p)
    BY <1>5, <2>2, LenProperties
  <2>4. \A k \in 1 .. Len(p) : new[k] = [time |-> p[k].time, ext |-> p[k].ext, place |-> i]
    OBVIOUS
  <2> HIDE DEF new
  <2>5. \A k \in 1 .. Len(p) :
          new[k].time = p[k].time /\ new[k].ext = p[k].ext /\ new[k].place = i
    <3> SUFFICES ASSUME NEW k \in 1 .. Len(p)
                 PROVE  new[k].time = p[k].time /\ new[k].ext = p[k].ext /\ new[k].place = i
      OBVIOUS
    <3>1. new[k] = [time |-> p[k].time, ext |-> p[k].ext, place |-> i]
      BY <2>4
    <3> HIDE DEF new
    <3> QED
      BY <3>1
  <2>6. Times(new) = Times(p)
    BY <2>3, <2>5, Zenon DEF Times
  <2> QED
    BY <1>5, <2>2, <2>3, <2>5, <2>6
<1>8. stored' = [stored EXCEPT ![h] = @ \o new]
  BY <1>1 DEF p
<1> HIDE DEF new
<1>9. /\ stored \in [Lidars -> Seq(StoredPoint)] /\ \A l \in Lidars : stored[l] \in Seq(StoredPoint)
      /\ \A l \in Lidars : \A k \in 1 .. Len(stored[l]) :
           stored[l][k].ext = Moved(l) /\ stored[l][k].place \in {map_index_[l], NoIndex}
  BY DEF PointsInv, StoredOwn
<1>10. /\ stored' \in [Lidars -> Seq(StoredPoint)] /\ stored'[h] = stored[h] \o new
       /\ \A l \in Lidars : l # h => stored'[l] = stored[l]
  <2>1. stored[h] \o new \in Seq(StoredPoint)
    BY <1>5, <1>7, <1>9, ConcatProperties
  <2> QED
    BY <1>5, <1>8, <1>9, <2>1
<1>11. StoredOwn'
  <2> DEFINE c == stored[h]
  <2>1. /\ Len(c \o new) = Len(c) + Len(p) /\ Len(c) \in Nat
        /\ \A n \in 1 .. Len(c) + Len(p) :
             (c \o new)[n] = IF n <= Len(c) THEN c[n] ELSE new[n - Len(c)]
    <3>1. c \in Seq(StoredPoint) /\ new \in Seq(StoredPoint)
      BY <1>5, <1>7, <1>9
    <3> HIDE DEF c
    <3>2. /\ Len(c \o new) = Len(c) + Len(new) /\ Len(c) \in Nat
          /\ \A n \in 1 .. Len(c) + Len(new) :
               (c \o new)[n] = IF n <= Len(c) THEN c[n] ELSE new[n - Len(c)]
      BY <3>1, ConcatProperties, LenProperties
    <3> QED
      BY <1>7, <3>2
  <2>2. ASSUME NEW k \in 1 .. Len(c \o new)
        PROVE  (c \o new)[k].ext = Moved(h) /\ (c \o new)[k].place \in {map_index_[h], NoIndex}
    <3>1. CASE k <= Len(c)
      <4>1. k \in 1 .. Len(c)
        BY <1>5, <2>1, <3>1
      <4> QED
        BY <1>5, <1>9, <2>1, <3>1, <4>1
    <3>2. CASE ~(k <= Len(c))
      <4>1. k - Len(c) \in 1 .. Len(p)
        BY <1>5, <2>1, <3>2
      <4> QED
        BY <1>5, <1>6, <1>7, <2>1, <3>2, <4>1
    <3> QED
      BY <3>1, <3>2
  <2>3. map_index_' = map_index_
    BY <1>2 DEF indexVars
  <2> HIDE DEF c
  <2>4. \A l \in Lidars : \A k \in 1 .. Len(stored'[l]) :
          stored'[l][k].ext = Moved(l) /\ stored'[l][k].place \in {map_index_[l], NoIndex}
    BY <1>9, <1>10, <2>2 DEF c
  <2> QED
    BY <1>10, <2>3, <2>4 DEF StoredOwn
<1>12. ASSUME NEW l \in Lidars
       PROVE  Times(stored'[l]) \o Framed(frame_', l) = Times(stored[l]) \o Framed(frame_, l)
  <2> DEFINE s == Times(stored[l])
             y == InEntry(e, l)
             g == Framed(frame_', l)
  <2>1. Framed(frame_, l) = y \o g
    BY <1>2, FramedTail DEF PointsInv, FrameOwn, e
  <2>2. s \in Seq(Int) /\ y \in Seq(Int) /\ g \in Seq(Int)
    BY <1>3, TimesOfParts, InEntryType, EntriesType
  <2>3. Times(stored'[l]) = s \o y
    <3>1. CASE l = h
      <4>1. \A x \in StoredPoint : x.time \in Int
        BY DEF StoredPoint
      <4>2. Times(stored[h] \o new) = Times(stored[h]) \o Times(new)
        BY <1>5, <1>7, <1>9, <4>1, TimesConcat
      <4> QED
        BY <1>7, <1>10, <3>1, <4>2 DEF InEntry, p
    <3>2. CASE l # h
      <4>1. y = << >>
        BY <3>2 DEF InEntry
      <4>2. s \o << >> = s
        BY <2>2, ConcatEmptySeq
      <4> QED
        BY <1>10, <3>2, <4>1, <4>2
    <3> QED
      BY <3>1, <3>2
  <2> HIDE DEF s, y, g
  <2>4. (s \o y) \o g = s \o (y \o g)
    BY <2>2
  <2> QED
    BY <2>1, <2>3, <2>4 DEF g, s
<1>13. PointsAccounted'
  BY <1>2, <1>12 DEF PointsInv, PointsAccounted, netVars
<1> QED
  BY <1>2, <1>4, <1>11, <1>13 DEF PointsInv, Places, netVars, indexVars

LEMMA PointsNext ==
  ASSUME PointsInv, [Next]_vars
  PROVE  PointsInv'
<1>1. Places'
  BY NextPlaces DEF PointsInv
<1>2. CASE IndexInserted
  <2>1. UNCHANGED <<netVars, raw_packet_queue_, workerVars>>
    BY <1>2 DEF IndexInserted
  <2>2. ASSUME NEW l \in Lidars
        PROVE  map_index_[l] \in {map_index_'[l], NoIndex}
    BY <1>2 DEF IndexInserted, PointsInv, Places, NoLidar
  <2>3. StoredOwn'
    <3>1. stored' = stored
      BY <2>1 DEF workerVars
    <3> QED
      BY <2>2, <3>1 DEF PointsInv, StoredOwn
  <2> QED
    BY <1>1, <2>1, <2>3
       DEF PointsInv, PointsAccounted, FrameOwn, Clouds, netVars, workerVars
<1>3. ASSUME UNCHANGED <<received, raw_packet_queue_, workerVars, map_index_>>, period' \in Nat
      PROVE  PointsInv'
  BY <1>1, <1>3 DEF PointsInv, PointsAccounted, FrameOwn, Clouds, StoredOwn, workerVars
<1>4. Tick => UNCHANGED <<received, raw_packet_queue_, workerVars, map_index_>> /\ period' \in Nat
  BY DEF Tick, PointsInv, indexVars
<1>5. ASSUME NEW l \in Lidars, LosePacket(l) \/ Synchronise(l) \/ OnImuPacket(l) \/ GetFreeIndex(l)
      PROVE  UNCHANGED <<received, raw_packet_queue_, workerVars, map_index_>> /\ period' \in Nat
  BY <1>5 DEF LosePacket, Synchronise, OnImuPacket, GetFreeIndex, PointsInv, indexVars, netVars
<1>6. ImuIsEmpty \/ ImuGetCount \/ ImuSignal \/ ImuWait \/ PollingLidarImuData \/ UNCHANGED vars
        => UNCHANGED <<received, raw_packet_queue_, workerVars, map_index_>> /\ period' \in Nat
  BY DEF ImuIsEmpty, ImuGetCount, ImuSignal, ImuWait, PollingLidarImuData, PointsInv, indexVars,
         netVars, vars
<1> QED
  BY <1>2, <1>3, <1>4, <1>5, <1>6, OnPointPacketStep, RawDataProcessStep, StoragePointDataStep
     DEF Next

\* From the SDK's callback to the queues of Lds no point is lost, doubled or overtaken: it
\* is in one of the four places RawDataProcess and StoragePointData move it between.
THEOREM EveryPointAccounted == Spec => []PointsAccounted
<1>1. PointsInv => PointsAccounted
  BY DEF PointsInv
<1> QED
  BY <1>1, PointsInit, PointsNext, PTL DEF Spec

\* StoragePointData stores a point in its lidar's place, even when GetIndex is overtaken
\* by an insertion, and after PointCloudProcess has moved it by that lidar's extrinsics.
THEOREM StoredInOwnPlace == Spec => []StoredRight
<1>1. PointsInv => StoredRight
  <2> SUFFICES ASSUME PointsInv, NEW l \in Lidars, NEW k \in 1 .. Len(stored[l])
               PROVE  /\ l \in Configured <=> stored[l][k].ext = "configured"
                      /\ stored[l][k].place # NoIndex =>
                           \A m \in Lidars : stored[l][k].place = map_index_[m] <=> m = l
    BY DEF StoredRight
  <2>1. stored[l][k].ext = Moved(l) /\ stored[l][k].place \in {map_index_[l], NoIndex}
    BY DEF PointsInv, StoredOwn
  <2> QED
    BY <2>1 DEF Moved, PointsInv, Places
<1> QED
  BY <1>1, PointsInit, PointsNext, PTL DEF Spec

-----------------------------------------------------------------------------
(* The length of frames *)

\* When the next packet of a lidar is due, by the master clock
NextTime(l) == publish_interval_ + (period + IF l \in sent THEN 1 ELSE 0) * DotNum + PtpOffset

\* From one point to another, n points on, with some packets lost between
Gap(d, n) == \E m \in 0 .. lost : d = n + m * DotNum

\* What was received of a lidar leaves gaps only where packets were lost.
SpacedBy(R, next) ==
  /\ \A i \in 1 .. Len(R) : R[i] >= publish_interval_ /\ Gap(next - R[i], Len(R) + 1 - i)
  /\ \A i \in 1 .. Len(R) : \A j \in i .. Len(R) : Gap(R[j] - R[i], j - i)

\* A frame of n points from b to r that has not ended: where it may end first is in the
\* interval K, and each interval it outlasted cost a packet.
Open(b, r, n) ==
  \E K \in Nat, m \in Nat :
    /\ r - b + 1 = n + m * DotNum
    /\ (K - 1) * publish_interval_ < b + publish_interval_tolerance_
    /\ b + publish_interval_tolerance_ <= K * publish_interval_
    /\ r < (K + m) * publish_interval_

OpenClouds ==
  \A l \in Lidars : points_clouds_[l] # << >> =>
    Open(Head(points_clouds_[l]).time, Last(points_clouds_[l]).time, Len(points_clouds_[l]))

\* Once a packet has come the flag is set.
FlagSet ==
  is_timestamp_sync_ \/ (raw_packet_queue_ = << >> /\ \A l \in Lidars : points_clouds_[l] = << >>)

\* A frame of the right length
RightLength(f) ==
  /\ f.points # << >> /\ f.base_time = Head(f.points).time
  /\ Last(f.points).time - Head(f.points).time >= publish_interval_tolerance_
  /\ Last(f.points).time - Head(f.points).time < (2 + lost) * publish_interval_

SpanInv ==
  /\ PointsInv /\ lost \in 0 .. MaxLost
  /\ ~mixed => /\ \A l \in Lidars : SpacedBy(received[l], NextTime(l))
               /\ OpenClouds /\ FlagSet
               /\ \A i \in 1 .. Len(frame_) : RightLength(frame_[i])

LEMMA Sizes ==
  /\ DotNum \in Nat \ {0} /\ Ms \in Nat \ {0} /\ publish_interval_ms \in Nat \ {0}
  /\ Wrap \in Nat \ {0} /\ PtpOffset \in Nat /\ DotNum <= Ms
  /\ publish_interval_ \in Nat \ {0} /\ Ms <= publish_interval_
  /\ publish_interval_ = publish_interval_ms * Ms
  /\ publish_interval_tolerance_ \in Nat /\ publish_interval_tolerance_ = publish_interval_ - Ms
  /\ MaxLost \in Nat /\ (2 + MaxLost) * publish_interval_ <= Wrap
<1>1. /\ DotNum \in Nat \ {0} /\ Ms \in Nat \ {0} /\ publish_interval_ms \in Nat \ {0}
      /\ Wrap \in Nat \ {0} /\ PtpOffset \in Nat /\ DotNum <= Ms
      /\ MaxLost \in Nat /\ (2 + MaxLost) * publish_interval_ms * Ms <= Wrap
  BY ClockAssumption, BoundsAssumption
<1>2. \A p, q \in Nat \ {0}, x \in Nat :
         p * q \in Nat \ {0} /\ q <= p * q /\ x * p * q = x * (p * q)
  OBVIOUS
<1>3. /\ publish_interval_ms * Ms \in Nat \ {0} /\ Ms <= publish_interval_ms * Ms
      /\ (2 + MaxLost) * publish_interval_ms * Ms = (2 + MaxLost) * (publish_interval_ms * Ms)
  BY <1>1, <1>2
<1> QED
  BY <1>1, <1>3 DEF publish_interval_, publish_interval_tolerance_

LEMMA Cancel ==
  ASSUME NEW d \in Nat \ {0}, NEW a \in Int, NEW b \in Int
  PROVE  /\ a * d = b * d => a = b
         /\ (a + b) * d = a * d + b * d
         /\ a * d \in Int
         /\ a >= 0 => a * d >= 0
         /\ a <= b => a * d <= b * d
<1>1. a < b => a * d < b * d
  OBVIOUS
<1>2. b < a => b * d < a * d
  OBVIOUS
<1> QED
  BY <1>1, <1>2

\* In the first millisecond of an interval a frame may end.
LEMMA FirstMillisecond ==
  ASSUME NEW j \in Nat, NEW r \in Int,
         j * publish_interval_ <= r, r < j * publish_interval_ + Ms, publish_interval_ <= r
  PROVE  (r \div Ms) % publish_interval_ms = 0 /\ r \div Ms # 0
<1> DEFINE P == publish_interval_ms
           q == j * P
<1>1. P \in Nat \ {0} /\ Ms \in Nat \ {0} /\ publish_interval_ = P * Ms
  BY Sizes
<1>2. q \in Nat /\ j * (P * Ms) = q * Ms
  BY <1>1
<1>3. q * Ms <= r /\ r < q * Ms + Ms /\ P * Ms <= r
  BY <1>1, <1>2
<1>4. q % P = 0
  <2>1. \A a \in Nat, p \in Nat \ {0} : (a * p) % p = 0
    OBVIOUS
  <2> QED
    BY <1>1, <2>1
<1> HIDE DEF q
<1>5. r \div Ms = q
  <2>1. \A m \in Nat \ {0}, a \in Nat, x \in Int : a * m <= x /\ x < a * m + m => x \div m = a
    OBVIOUS
  <2> QED
    BY <1>1, <1>2, <1>3, <2>1
<1>6. q # 0
  <2>1. Ms <= P * Ms
    BY Sizes
  <2>2. q = 0 => r < Ms
    BY <1>1, <1>3
  <2> QED
    BY <1>1, <1>3, <2>1, <2>2
<1> QED
  BY <1>4, <1>5, <1>6

\* One packet more, with g lost before it: the frame stays open, or ends in time.
LEMMA OneMorePacket ==
  ASSUME NEW b \in Int, NEW r \in Int, NEW r2 \in Int, NEW K \in Nat, NEW m \in Nat, NEW g \in Nat,
         (K - 1) * publish_interval_ < b + publish_interval_tolerance_,
         b + publish_interval_tolerance_ <= K * publish_interval_,
         r < (K + m) * publish_interval_,
         r2 = r + DotNum + g * DotNum, publish_interval_ <= b, b <= r2, m + g <= MaxLost
  PROVE  /\ r2 - b < (2 + m + g) * publish_interval_
         /\ r2 >= (K + m + g) * publish_interval_ =>
              /\ (r2 \div Ms) % publish_interval_ms = 0 /\ r2 \div Ms # 0
              /\ r2 - b >= publish_interval_tolerance_
              /\ (r2 - b) % Wrap >= publish_interval_tolerance_
<1> DEFINE I == publish_interval_
           T == publish_interval_tolerance_
<1>1. /\ I \in Nat \ {0} /\ T \in Nat /\ T = I - Ms /\ Ms <= I /\ DotNum <= Ms
      /\ DotNum \in Nat \ {0} /\ Ms \in Nat \ {0} /\ Wrap \in Nat \ {0}
      /\ MaxLost \in Nat /\ (2 + MaxLost) * I <= Wrap
  BY Sizes
<1> HIDE DEF I, T
<1>2. /\ (K - 1) * I = K * I - I
      /\ (K + m) * I = K * I + m * I
      /\ (K + m + g) * I = K * I + m * I + g * I
      /\ (2 + m + g) * I = 2 * I + m * I + g * I
      /\ K * I \in Nat /\ m * I \in Nat /\ g * I \in Nat
      /\ g * DotNum <= g * I /\ g * DotNum \in Nat
      /\ (2 + m + g) * I <= (2 + MaxLost) * I
  <2>1. /\ (K - 1) * I = K * I - I
        /\ (K + m) * I = K * I + m * I
        /\ (K + m + g) * I = K * I + m * I + g * I
        /\ (2 + m + g) * I = 2 * I + m * I + g * I
        /\ K * I \in Nat /\ m * I \in Nat /\ g * I \in Nat
    BY <1>1
  <2>2. \A x, y, z \in Nat : x <= y => z * x <= z * y /\ x * z <= y * z /\ z * x \in Nat
    OBVIOUS
  <2>3. g * DotNum <= g * I /\ g * DotNum \in Nat
    BY <1>1, <2>2
  <2>4. 2 + m + g \in Nat /\ 2 + MaxLost \in Nat /\ 2 + m + g <= 2 + MaxLost
    BY <1>1
  <2>5. (2 + m + g) * I <= (2 + MaxLost) * I
    BY <1>1, <2>2, <2>4
  <2> QED
    BY <2>1, <2>3, <2>5
<1>3. /\ K * I - I < b + T /\ b + T <= K * I /\ r < K * I + m * I /\ I <= b
  BY <1>2 DEF I, T
<1>4. r2 < (K + m + g) * I + Ms
  BY <1>1, <1>2, <1>3
<1>5. r2 - b < (2 + m + g) * I
  BY <1>1, <1>2, <1>3, <1>4
<1>6. ASSUME r2 >= (K + m + g) * I
      PROVE  /\ (r2 \div Ms) % publish_interval_ms = 0 /\ r2 \div Ms # 0
             /\ r2 - b >= T /\ (r2 - b) % Wrap >= T
  <2>1. K + m + g \in Nat /\ I <= r2
    BY <1>1, <1>3
  <2>2. (r2 \div Ms) % publish_interval_ms = 0 /\ r2 \div Ms # 0
    BY <1>4, <1>6, <2>1, FirstMillisecond DEF I
  <2>3. r2 - b >= T
    BY <1>1, <1>2, <1>3, <1>6
  <2>4. r2 - b \in Nat /\ r2 - b < Wrap
    BY <1>1, <1>2, <1>5, <2>3
  <2>5. (r2 - b) % Wrap = r2 - b
    <3>1. \A x \in Nat, w \in Nat \ {0} : x < w => x % w = x
      OBVIOUS
    <3> QED
      BY <1>1, <2>4, <3>1
  <2> QED
    BY <2>2, <2>3, <2>5
<1> QED
  BY <1>5, <1>6 DEF I, T

\* The interval in which a frame from b on may end first
LEMMA FirstInterval ==
  ASSUME NEW b \in Nat
  PROVE  \E K \in Nat : /\ (K - 1) * publish_interval_ < b + publish_interval_tolerance_
                        /\ b + publish_interval_tolerance_ <= K * publish_interval_
<1> DEFINE I == publish_interval_
           x == b + publish_interval_tolerance_
<1>1. I \in Nat \ {0} /\ x \in Nat
  BY Sizes
<1> HIDE DEF I, x
<1> DEFINE T == {k \in Nat : x <= k * I}
<1>2. x \in T
  <2>1. \A a \in Nat, i \in Nat \ {0} : a <= a * i
    OBVIOUS
  <2> QED
    BY <1>1, <2>1
<1>3. PICK K \in T : \A k \in T : K <= k
  <2>1. T \subseteq Nat /\ T # {}
    BY <1>2
  <2> HIDE DEF T
  <2> QED
    BY <2>1, NatMin
<1>4. (K - 1) * I < x
  <2>1. CASE K = 0
    BY <1>1, <2>1
  <2>2. CASE K # 0
    <3>1. K - 1 \in Nat /\ ~(K <= K - 1)
      BY <1>3, <2>2
    <3>2. K - 1 \notin T
      <4> HIDE DEF T
      <4> QED
        BY <1>3, <3>1
    <3>3. (K - 1) * I \in Int
      BY <1>1, <3>1
    <3> QED
      BY <1>1, <3>1, <3>2, <3>3
  <2> QED
    BY <2>1, <2>2
<1> QED
  BY <1>3, <1>4 DEF I, x

LEMMA Middle ==
  ASSUME NEW a \in Seq(Int), NEW c \in Seq(Int), NEW d \in Seq(Int)
  PROVE  /\ Len((a \o c) \o d) = Len(a) + Len(c) + Len(d)
         /\ Len(a) \in Nat /\ Len(c) \in Nat /\ Len(d) \in Nat
         /\ \A k \in 1 .. Len(c) : ((a \o c) \o d)[Len(a) + k] = c[k]
<1> DEFINE e == a \o c
<1>1. Len(a) \in Nat /\ Len(c) \in Nat /\ Len(d) \in Nat
  BY LenProperties
<1>2. /\ e \in Seq(Int) /\ Len(e) = Len(a) + Len(c)
      /\ \A i \in 1 .. Len(a) + Len(c) : e[i] = IF i <= Len(a) THEN a[i] ELSE c[i - Len(a)]
  BY ConcatProperties
<1> HIDE DEF e
<1>3. /\ Len(e \o d) = Len(e) + Len(d)
      /\ \A i \in 1 .. Len(e) + Len(d) : (e \o d)[i] = IF i <= Len(e) THEN e[i] ELSE d[i - Len(e)]
  <2>1. e \in Seq(Int)
    BY <1>2
  <2> QED
    BY <2>1, ConcatProperties
<1>4. ASSUME NEW k \in 1 .. Len(c)
      PROVE  (e \o d)[Len(a) + k] = c[k]
  <2>1. /\ Len(a) + k \in 1 .. Len(e) + Len(d) /\ Len(a) + k <= Len(e)
        /\ Len(a) + k \in 1 .. Len(a) + Len(c) /\ ~(Len(a) + k <= Len(a))
        /\ (Len(a) + k) - Len(a) = k
    BY <1>1, <1>2
  <2> QED
    BY <1>2, <1>3, <2>1
<1> QED
  BY <1>1, <1>2, <1>3, <1>4 DEF e

\* The cloud of the lidar whose packet RawDataProcess takes, with that packet's points
NewCloud(pkt) == points_clouds_[pkt.handle] \o PointCloudProcess(pkt, Moved(pkt.handle))

\* What the worker does with the oldest packet
LEMMA WorkerStep ==
  ASSUME PointsInv, RawDataProcess,
         NEW pkt, pkt = Head(raw_packet_queue_)
  PROVE  /\ pkt \in Packet /\ frame_ = << >> /\ raw_packet_queue_ # << >>
         /\ CheckTimer(pkt.handle, [points_clouds_ EXCEPT ![pkt.handle] = NewCloud(pkt)])
         /\ UNCHANGED <<netVars, is_timestamp_sync_, stored, indexVars>>
<1>1. pkt \in Packet
  BY HeadTailProperties DEF RawDataProcess, PointsInv
<1>2. pkt.handle \in Lidars
  BY <1>1 DEF Packet
<1>3. SetLidarsExtParam(pkt.handle) = Moved(pkt.handle)
  BY <1>2 DEF PointsInv, SetLidarsExtParam, Moved
<1>4. CheckTimer(pkt.handle, [points_clouds_ EXCEPT ![pkt.handle] =
                                @ \o PointCloudProcess(pkt, SetLidarsExtParam(pkt.handle))])
  BY DEF RawDataProcess
<1>5. [points_clouds_ EXCEPT ![pkt.handle] =
                                @ \o PointCloudProcess(pkt, SetLidarsExtParam(pkt.handle))]
        = [points_clouds_ EXCEPT ![pkt.handle] = NewCloud(pkt)]
  BY <1>3 DEF NewCloud
<1> QED
  BY <1>1, <1>4, <1>5 DEF RawDataProcess

\* Its points are a stretch of what was received.
LEMMA CloudReceived ==
  ASSUME PointsInv, RawDataProcess, NEW pkt, pkt = Head(raw_packet_queue_),
         NEW h, h = pkt.handle
  PROVE  \E s \in Nat :
           /\ Len(NewCloud(pkt)) = Len(points_clouds_[h]) + DotNum
           /\ s + Len(NewCloud(pkt)) <= Len(received[h])
           /\ \A k \in 1 .. Len(NewCloud(pkt)) : NewCloud(pkt)[k].time = received[h][s + k]
           /\ \A k \in 1 .. Len(points_clouds_[h]) : NewCloud(pkt)[k] = points_clouds_[h][k]
           /\ \A k \in 1 .. DotNum :
                NewCloud(pkt)[Len(points_clouds_[h]) + k].time = pkt.time_stamp + k - 1
<1> DEFINE c == points_clouds_[h]
           new == PointCloudProcess(pkt, Moved(h))
           t == Times(c)
           y == InPacket(pkt, h)
           q == Queued(Tail(raw_packet_queue_), h)
           a == Times(stored[h]) \o Framed(frame_, h)
           R == received[h]
           C == NewCloud(pkt)
<1>1. pkt \in Packet /\ raw_packet_queue_ # << >> /\ h \in Lidars /\ pkt.time_stamp \in Int
  <2>1. pkt \in Packet /\ raw_packet_queue_ # << >>
    BY WorkerStep
  <2> QED
    BY <2>1 DEF Packet
<1>2. raw_packet_queue_ \in Seq(Packet) /\ Tail(raw_packet_queue_) \in Seq(Packet)
  BY <1>1, HeadTailProperties DEF PointsInv
<1>3. Queued(raw_packet_queue_, h) = y \o q
  BY <1>1, <1>2, QueuedTail
<1>4. a \in Seq(Int) /\ t \in Seq(Int) /\ y \in Seq(Int) /\ q \in Seq(Int)
  BY <1>1, <1>2, TimesOfParts, ConcatProperties, InPacketType, PacketsType
<1>5. R = (a \o t) \o (y \o q)
  BY <1>1, <1>3 DEF PointsInv, PointsAccounted
<1>6. c \in Seq(Point) /\ Len(c) \in Nat
  BY <1>1, LenProperties DEF PointsInv, Clouds
<1>7. /\ new \in Seq(Point) /\ Len(new) = DotNum /\ DotNum \in Nat
      /\ \A k \in 1 .. DotNum : new[k].time = pkt.time_stamp + k - 1
      /\ Times(new) = y
  <2>1. DotNum \in Nat /\ Moved(h) \in {"default", "configured"}
    BY Sizes DEF Moved
  <2>2. \A k \in 1 .. DotNum : [time |-> pkt.time_stamp + k - 1, ext |-> Moved(h)] \in Point
    BY <1>1, <2>1 DEF Point
  <2>3. new \in Seq(Point) /\ DOMAIN new = 1 .. DotNum
    BY <2>1, <2>2, IsASeq DEF PointCloudProcess
  <2>4. Len(new) = DotNum
    BY <2>1, <2>3, LenProperties
  <2>5. \A k \in 1 .. DotNum : new[k] = [time |-> pkt.time_stamp + k - 1, ext |-> Moved(h)]
    BY DEF PointCloudProcess
  <2> HIDE DEF new
  <2>6. Times(new) = [k \in 1 .. DotNum |-> pkt.time_stamp + k - 1]
    BY <2>4, <2>5 DEF Times
  <2> QED
    BY <2>1, <2>3, <2>4, <2>5, <2>6 DEF InPacket
<1>8. /\ C = c \o new /\ C \in Seq(Point) /\ Len(C) = Len(c) + DotNum
      /\ \A i \in 1 .. Len(c) + DotNum : C[i] = IF i <= Len(c) THEN c[i] ELSE new[i - Len(c)]
  <2>1. C = c \o new
    BY DEF NewCloud
  <2> HIDE DEF C, c, new
  <2> QED
    BY <1>6, <1>7, <2>1, ConcatProperties
<1>9. /\ Times(C) \in Seq(Int) /\ Len(Times(C)) = Len(C)
      /\ \A k \in 1 .. Len(C) : Times(C)[k] = C[k].time
      /\ Times(C) = t \o y
  <2>1. \A e \in Point : e.time \in Int
    BY DEF Point
  <2>2. Times(c \o new) = Times(c) \o Times(new) /\ Timed(c \o new)
    BY <1>6, <1>7, <2>1, TimesConcat
  <2>3. Times(C) = t \o y /\ Timed(C)
    BY <1>7, <1>8, <2>2
  <2> HIDE DEF C
  <2> QED
    BY <2>3, TimesType
<1> HIDE DEF c, new, t, y, q, a, R, C
<1>10. R = (a \o Times(C)) \o q
  <2>1. (a \o t) \o (y \o q) = ((a \o t) \o y) \o q
    <3>1. a \o t \in Seq(Int)
      BY <1>4, ConcatProperties
    <3> DEFINE z == a \o t
    <3> HIDE DEF z
    <3>2. z \in Seq(Int)
      BY <3>1 DEF z
    <3>3. z \o (y \o q) = (z \o y) \o q
      BY <1>4, <3>2
    <3> QED
      BY <3>3 DEF z
  <2>2. (a \o t) \o y = a \o (t \o y)
    BY <1>4
  <2> QED
    BY <1>5, <1>9, <2>1, <2>2
<1>11. /\ Len(R) = Len(a) + Len(C) + Len(q) /\ Len(a) \in Nat /\ Len(q) \in Nat /\ Len(C) \in Nat
       /\ \A k \in 1 .. Len(C) : R[Len(a) + k] = C[k].time
  BY <1>4, <1>9, <1>10, Middle, SMTT(30)
<1>12. \A k \in 1 .. Len(c) : C[k] = c[k]
  BY <1>6, <1>7, <1>8
<1>13. ASSUME NEW k \in 1 .. DotNum
       PROVE  C[Len(c) + k].time = pkt.time_stamp + k - 1
  <2>1. /\ Len(c) + k \in 1 .. Len(c) + DotNum /\ ~(Len(c) + k <= Len(c))
        /\ (Len(c) + k) - Len(c) = k
    BY <1>6, <1>7
  <2> QED
    BY <1>7, <1>8, <2>1
<1>14. /\ Len(C) = Len(c) + DotNum
       /\ Len(a) + Len(C) <= Len(R)
       /\ \A k \in 1 .. Len(C) : C[k].time = R[Len(a) + k]
  <2>1. Len(C) = Len(c) + DotNum
    BY <1>8
  <2>2. Len(a) + Len(C) <= Len(R)
    BY <1>11
  <2>3. \A k \in 1 .. Len(C) : C[k].time = R[Len(a) + k]
    BY <1>11
  <2> QED
    BY <2>1, <2>2, <2>3
<1> QED
  BY <1>11, <1>12, <1>13, <1>14 DEF c, C, R

\* The times of a cloud that is not empty
LEMMA CloudEnds ==
  ASSUME NEW c \in Seq(Point), c # << >>
  PROVE  /\ Len(c) \in Nat \ {0} /\ Head(c) = c[1] /\ Last(c) = c[Len(c)]
         /\ Head(c).time \in Int /\ Last(c).time \in Int
         /\ GetRecentTimeStamp(c) = Last(c).time /\ GetLidarBaseTime(c) = Head(c).time
<1>1. Len(c) \in Nat \ {0} /\ Head(c) = c[1] /\ Last(c) = c[Len(c)]
  BY LenProperties, EmptySeq DEF Last
<1>2. c[1] \in Point /\ c[Len(c)] \in Point
  BY <1>1, ElementOfSeq
<1> QED
  BY <1>1, <1>2 DEF Point, GetRecentTimeStamp, GetLidarBaseTime

\* C is the cloud c of n points and those of a packet of time t; R has its times after s.
Continues(C, c, R, s, t, n) ==
  /\ Len(C) = n + DotNum /\ s + Len(C) <= Len(R)
  /\ \A k \in 1 .. Len(C) : C[k].time = R[s + k]
  /\ \A k \in 1 .. n : C[k] = c[k]
  /\ \A k \in 1 .. DotNum : C[n + k].time = t + k - 1

\* One packet more on the cloud of its lidar, which is a stretch of what was received:
\* the frame stays open, or it ends with a length that FrameSpan allows.
LEMMA Grown ==
  ASSUME NEW c \in Seq(Point), NEW C \in Seq(Point), NEW R \in Seq(Int), NEW next, NEW s \in Nat,
         NEW t \in Int, NEW n \in Nat, n = Len(c), lost \in 0 .. MaxLost,
         SpacedBy(R, next), c # << >> => Open(Head(c).time, Last(c).time, n),
         Continues(C, c, R, s, t, n)
  PROVE  /\ C # << >>
         /\ Last(C).time - Head(C).time < (2 + lost) * publish_interval_
         /\ FrameEnds(C) => Last(C).time - Head(C).time >= publish_interval_tolerance_
         /\ FrameEnds(C) \/ Open(Head(C).time, Last(C).time, Len(C))
<1> DEFINE D == DotNum
           I == publish_interval_
           T == publish_interval_tolerance_
<1>4. /\ Len(C) = n + D /\ s + Len(C) <= Len(R)
      /\ \A k \in 1 .. Len(C) : C[k].time = R[s + k]
      /\ \A k \in 1 .. n : C[k] = c[k]
      /\ \A k \in 1 .. D : C[n + k].time = t + k - 1
  BY DEF Continues
<1>5. /\ Len(R) \in Nat
      /\ SpacedBy(R, next) /\ (c # << >> => Open(Head(c).time, Last(c).time, n))
  BY LenProperties
<1>6. D \in Nat \ {0} /\ I \in Nat \ {0} /\ T \in Nat /\ lost \in Nat /\ MaxLost \in Nat
      /\ lost <= MaxLost /\ Wrap \in Nat \ {0}
  BY Sizes
<1>7. C # << >>
  BY <1>4, <1>6, EmptySeq
<1> DEFINE b == Head(C).time
           r2 == Last(C).time
<1>8. /\ b \in Int /\ r2 \in Int /\ b = C[1].time /\ r2 = C[n + D].time /\ n + D \in Nat \ {0}
      /\ GetRecentTimeStamp(C) = r2 /\ GetLidarBaseTime(C) = b
  BY <1>4, <1>7, CloudEnds
<1>9. /\ s + 1 \in 1 .. Len(R) /\ s + (n + D) \in s + 1 .. Len(R)
      /\ b = R[s + 1] /\ r2 = R[s + (n + D)]
  <2>1. 1 \in 1 .. Len(C) /\ n + D \in 1 .. Len(C)
    BY <1>4, <1>8
  <2>2. C[1].time = R[s + 1] /\ C[n + D].time = R[s + (n + D)]
    BY <1>4, <2>1
  <2>3. s + 1 \in 1 .. Len(R) /\ s + (n + D) \in s + 1 .. Len(R)
    BY <1>4, <1>5, <1>6, <1>8
  <2> QED
    BY <1>8, <2>2, <2>3
<1>10. I <= b /\ Gap(r2 - b, (s + (n + D)) - (s + 1))
  <2>1. R[s + 1] >= publish_interval_
    BY <1>5, <1>9 DEF SpacedBy
  <2>2. Gap(R[s + (n + D)] - R[s + 1], (s + (n + D)) - (s + 1))
    BY <1>5, <1>9 DEF SpacedBy
  <2> QED
    BY <1>6, <1>8, <1>9, <2>1, <2>2
<1>11. PICK m2 \in 0 .. lost : r2 - b = (n + D - 1) + m2 * D
  <2>1. (s + (n + D)) - (s + 1) = n + D - 1
    BY <1>5, <1>6
  <2> QED
    BY <1>10, <2>1 DEF Gap
<1>12. m2 \in Nat /\ m2 <= lost /\ m2 * D \in Nat
  BY <1>6, <1>11
<1> HIDE DEF b, r2, D, I, T
<1>13. PICK r \in Int, K \in Nat, m \in Nat, g \in Nat :
         /\ (K - 1) * I < b + T /\ b + T <= K * I /\ r < (K + m) * I
         /\ r2 = r + D + g * D /\ m + g = m2
  <2>1. CASE n = 0
    <3>1. PICK K \in Nat : (K - 1) * I < b + T /\ b + T <= K * I
      <4>1. b \in Nat
        BY <1>6, <1>8, <1>10
      <4> QED
        BY <4>1, FirstInterval DEF I, T
    <3>2. r2 = b + D - 1
      <4>1. 1 \in 1 .. D /\ D \in 1 .. D /\ n + 1 = 1 /\ n + D = D
        BY <1>6, <2>1
      <4>2. C[1].time = t + 1 - 1 /\ C[D].time = t + D - 1
        BY <1>4, <4>1
      <4> QED
        BY <1>6, <1>8, <4>1, <4>2
    <3>3. m2 = 0
      <4>1. m2 * D = 0 * D
        <5> DEFINE x == m2 * D
        <5>1. r2 - b = (n + D - 1) + x
          BY <1>11
        <5>2. x \in Nat /\ 0 * D = 0
          BY <1>6, <1>12
        <5> HIDE DEF x
        <5>3. x = 0
          BY <1>6, <1>8, <2>1, <3>2, <5>1, <5>2
        <5> QED
          BY <5>2, <5>3 DEF x
      <4> QED
        BY <1>6, <1>12, <4>1, Cancel
    <3>4. b - 1 < (K + 0) * I /\ b - 1 \in Int /\ r2 = (b - 1) + D + 0 * D
      <4>1. K + 0 = K /\ 0 * D = 0
        BY <1>6
      <4>2. K * I \in Nat
        BY <1>6
      <4> DEFINE x == K * I
      <4>3. b + T <= x /\ x \in Nat
        BY <3>1, <4>2
      <4> HIDE DEF x
      <4>4. T \in Nat /\ b - 1 < x + 0 /\ b - 1 \in Int /\ r2 = (b - 1) + D + 0
        <5>1. \A i, k \in Int, d, u, v \in Nat :
                i + u <= v /\ k = i + d - 1 =>
                  i - 1 < v + 0 /\ i - 1 \in Int /\ k = (i - 1) + d + 0
          OBVIOUS
        <5>2. b \in Int /\ r2 \in Int /\ D \in Nat /\ T \in Nat
          BY <1>6, <1>8
        <5> QED
          BY <3>2, <4>3, <5>1, <5>2
      <4> QED
        BY <4>1, <4>3, <4>4 DEF x
    <3> QED
      <4> HIDE DEF I, D
      <4>1. 0 + 0 = m2 /\ 0 \in Nat
        BY <3>3
      <4> QED
        BY <3>1, <3>4, <4>1
  <2>2. CASE n # 0
    <3> DEFINE r == R[s + n]
    <3>1. c # << >> /\ n \in 1 .. n /\ 1 \in 1 .. n
      BY <1>5, <2>2, EmptySeq
    <3>2. /\ Head(c).time = c[1].time /\ Last(c).time = c[n].time
      BY <1>5, <3>1, CloudEnds
    <3>3. /\ 1 \in 1 .. Len(C) /\ n \in 1 .. Len(C)
          /\ s + n \in 1 .. Len(R) /\ s + (n + D) \in s + n .. Len(R)
      BY <1>4, <1>5, <1>6, <2>2, SMTT(30)
    <3>4. Head(c).time = b /\ Last(c).time = r
      BY <1>4, <1>8, <3>1, <3>2, <3>3
    <3>5. Gap(r2 - r, (s + (n + D)) - (s + n))
      BY <1>5, <1>9, <3>3 DEF SpacedBy
    <3>6. r \in Int /\ (s + (n + D)) - (s + n) = D
      <4>1. r \in Int
        BY <3>3, ElementOfSeq
      <4> QED
        BY <1>6, <4>1
    <3> HIDE DEF r
    <3>7. PICK g \in 0 .. lost : r2 - r = D + g * D
      BY <3>5, <3>6 DEF Gap, D
    <3>8. Open(b, r, n)
      BY <1>5, <3>1, <3>4
    <3>9. PICK K \in Nat, m \in Nat :
            /\ r - b + 1 = n + m * D /\ (K - 1) * I < b + T
            /\ b + T <= K * I /\ r < (K + m) * I
      BY <3>8 DEF Open, D, I, T
    <3>10. g \in Nat /\ g * D \in Nat /\ m * D \in Nat /\ (m + g) * D = m * D + g * D
      BY <1>6, <3>7, Cancel
    <3>11. m2 * D = (m + g) * D
      <4> DEFINE x == m2 * D
                 y == m * D
                 z == g * D
      <4>1. /\ x \in Nat /\ y \in Nat /\ z \in Nat
            /\ r2 - b = (n + D - 1) + x /\ r - b + 1 = n + y /\ r2 - r = D + z
        BY <1>11, <1>12, <3>7, <3>9, <3>10
      <4> HIDE DEF x, y, z
      <4>2. x = y + z
        <5>1. \A i, j, k \in Int, u, v, w, d, e \in Nat :
                /\ k - i = (e + d - 1) + u /\ j - i + 1 = e + v /\ k - j = d + w
                => u = v + w
          OBVIOUS
        <5>2. b \in Int /\ r \in Int /\ r2 \in Int /\ n \in Nat /\ D \in Nat
          BY <1>6, <1>8, <3>6
        <5> QED
          BY <4>1, <5>1, <5>2
      <4> QED
        BY <3>10, <4>2 DEF x, y, z
    <3>12. m2 = m + g
      <4>1. m + g \in Int /\ m2 \in Int
        BY <1>12, <3>10
      <4> QED
        BY <1>6, <3>11, <4>1, Cancel
    <3>13. r2 = r + D + g * D
      <4> DEFINE z == g * D
      <4>1. z \in Nat /\ r2 - r = D + z
        BY <3>7, <3>10
      <4> HIDE DEF z
      <4>2. r2 = r + D + z
        <5>1. \A j, k \in Int, w, d \in Nat : k - j = d + w => k = j + d + w
          OBVIOUS
        <5>2. r \in Int /\ r2 \in Int /\ D \in Nat
          BY <1>6, <1>8, <3>6
        <5> QED
          BY <4>1, <5>1, <5>2
      <4> QED
        BY <4>2 DEF z
    <3> QED
      BY <3>6, <3>9, <3>10, <3>12, <3>13
  <2> QED
    BY <2>1, <2>2
<1>14. b <= r2 /\ r2 - b \in Nat
  <2> DEFINE x == m2 * D
  <2>1. x \in Nat /\ r2 - b = (n + D - 1) + x
    BY <1>11, <1>12
  <2> HIDE DEF x
  <2> QED
    BY <1>6, <1>8, <2>1, SMTT(30)
<1>15. /\ r2 - b < (2 + m + g) * I
       /\ r2 >= (K + m + g) * I =>
              /\ (r2 \div Ms) % publish_interval_ms = 0 /\ r2 \div Ms # 0
              /\ r2 - b >= T /\ (r2 - b) % Wrap >= T
  <2>1. m + g <= MaxLost
    BY <1>6, <1>12, <1>13
  <2> QED
    BY <1>8, <1>10, <1>13, <1>14, <2>1, OneMorePacket DEF I, T, D
<1>16. r2 - b < (2 + lost) * I
  <2>1. 2 + m + g = 2 + m2
    BY <1>12, <1>13
  <2>2. (2 + m2) * I <= (2 + lost) * I /\ (2 + m2) * I \in Int /\ (2 + lost) * I \in Int
    BY <1>6, <1>12, Cancel
  <2> QED
    <3> DEFINE x == (2 + m2) * I
               y == (2 + lost) * I
    <3>1. x <= y /\ x \in Int /\ y \in Int /\ r2 - b < x
      BY <1>15, <2>1, <2>2
    <3> HIDE DEF x, y
    <3>2. r2 - b < y
      <4>1. \A i, u, v \in Int : i < u /\ u <= v => i < v
        OBVIOUS
      <4> QED
        BY <1>14, <3>1, <4>1
    <3> QED
      BY <3>2 DEF y
<1>17. FrameEnds(C) => r2 - b >= T
  <2>1. \A x \in Nat, w \in Nat \ {0} : x % w <= x /\ x % w \in Nat
    OBVIOUS
  <2>2. (r2 - b) % Wrap <= r2 - b /\ (r2 - b) % Wrap \in Nat
    BY <1>6, <1>14, <2>1
  <2>3. FrameEnds(C) => (r2 - b) % Wrap >= T
    BY <1>8 DEF FrameEnds, T
  <2> QED
    BY <1>6, <1>14, <2>2, <2>3
<1>18. FrameEnds(C) \/ r2 < (K + m + g) * I
  <2>1. (K + m + g) * I \in Int
    BY <1>6
  <2>2. r2 >= (K + m + g) * I => FrameEnds(C)
    BY <1>8, <1>15 DEF FrameEnds, T
  <2> QED
    <3> DEFINE x == (K + m + g) * I
    <3>1. x \in Int /\ (r2 >= x => FrameEnds(C))
      BY <2>1, <2>2
    <3> HIDE DEF x
    <3>2. r2 < x \/ r2 >= x
      BY <1>8, <3>1
    <3> QED
      BY <3>1, <3>2 DEF x
<1>19. FrameEnds(C) \/ Open(b, r2, Len(C))
  <2>1. r2 < (K + m + g) * I => Open(b, r2, Len(C))
    <3>1. K + m + g = K + m2
      BY <1>12, <1>13
    <3>2. r2 - b + 1 = Len(C) + m2 * D
      <4> DEFINE x == m2 * D
      <4>1. x \in Nat /\ r2 - b = (n + D - 1) + x /\ Len(C) = n + D
        BY <1>4, <1>11, <1>12
      <4> HIDE DEF x
      <4>2. r2 - b + 1 = Len(C) + x
        BY <1>6, <1>8, <4>1
      <4> QED
        BY <4>2 DEF x
    <3> QED
      BY <1>12, <1>13, <3>1, <3>2 DEF Open, D, I, T
  <2> QED
    BY <1>18, <2>1
<1> QED
  BY <1>7, <1>16, <1>17, <1>19 DEF b, r2, I, T

\* Packets lost make more gaps possible and longer ones; the next packet is due later.
LEMMA GapLater ==
  ASSUME lost \in Nat, lost' \in Nat, lost <= lost', NEW d \in Int, NEW n \in Int, Gap(d, n)
  PROVE  Gap(d, n)'
BY DEF Gap

LEMMA GapMore ==
  ASSUME lost \in Nat, lost' = lost + 1, NEW d \in Int, NEW n \in Int, Gap(d, n)
  PROVE  Gap(d + DotNum, n)'
<1>1. PICK m \in 0 .. lost : d = n + m * DotNum
  BY DEF Gap
<1>2. m \in Nat /\ DotNum \in Nat /\ m + 1 \in 0 .. lost'
  BY Sizes
<1>3. (m + 1) * DotNum = m * DotNum + DotNum /\ m * DotNum \in Nat
  BY <1>2
<1>4. d + DotNum = n + (m + 1) * DotNum
  <2> DEFINE x == m * DotNum
  <2>1. d = n + x /\ x \in Nat /\ (m + 1) * DotNum = x + DotNum
    BY <1>1, <1>3
  <2> HIDE DEF x
  <2> QED
    BY <1>2, <2>1
<1> QED
  BY <1>2, <1>4 DEF Gap

LEMMA SpacedStill ==
  ASSUME lost \in Nat, lost' \in Nat, lost <= lost',
         NEW R \in Seq(Int), NEW next \in Int, SpacedBy(R, next)
  PROVE  /\ \A i \in 1 .. Len(R) : R[i] >= publish_interval_ /\ Gap(next - R[i], Len(R) + 1 - i)'
         /\ \A i \in 1 .. Len(R) : \A j \in i .. Len(R) : Gap(R[j] - R[i], j - i)'
<1>1. Len(R) \in Nat /\ \A i \in 1 .. Len(R) : R[i] \in Int
  BY LenProperties, ElementOfSeq
<1>2. ASSUME NEW i \in 1 .. Len(R)
      PROVE  R[i] >= publish_interval_ /\ Gap(next - R[i], Len(R) + 1 - i)'
  <2>1. R[i] >= publish_interval_ /\ Gap(next - R[i], Len(R) + 1 - i)
    BY DEF SpacedBy
  <2>2. next - R[i] \in Int /\ Len(R) + 1 - i \in Int
    BY <1>1
  <2> QED
    BY <2>1, <2>2, GapLater
<1>3. ASSUME NEW i \in 1 .. Len(R), NEW j \in i .. Len(R)
      PROVE  Gap(R[j] - R[i], j - i)'
  <2>1. Gap(R[j] - R[i], j - i)
    BY DEF SpacedBy
  <2>2. R[j] - R[i] \in Int /\ j - i \in Int
    BY <1>1
  <2> QED
    BY <2>1, <2>2, GapLater
<1> QED
  BY <1>2, <1>3

LEMMA SpacedLost ==
  ASSUME lost \in Nat, lost' = lost + 1, NEW R \in Seq(Int), NEW next \in Int, SpacedBy(R, next)
  PROVE  SpacedBy(R, next + DotNum)'
<1>1. Len(R) \in Nat /\ \A i \in 1 .. Len(R) : R[i] \in Int
  BY LenProperties, ElementOfSeq
<1>2. ASSUME NEW i \in 1 .. Len(R)
      PROVE  Gap((next + DotNum) - R[i], Len(R) + 1 - i)'
  <2>1. Gap(next - R[i], Len(R) + 1 - i)
    BY DEF SpacedBy
  <2>2. next - R[i] \in Int /\ Len(R) + 1 - i \in Int
    BY <1>1
  <2>3. Gap((next - R[i]) + DotNum, Len(R) + 1 - i)'
    BY <2>1, <2>2, GapMore
  <2>4. (next - R[i]) + DotNum = (next + DotNum) - R[i]
    BY <1>1, Sizes
  <2> QED
    BY <2>3, <2>4
<1>3. lost' \in Nat /\ lost <= lost'
  OBVIOUS
<1> QED
  BY <1>2, <1>3, SpacedStill DEF SpacedBy

\* A packet comes, at the time it is due.
LEMMA SpacedReceived ==
  ASSUME lost \in Nat, lost' = lost, NEW R \in Seq(Int), NEW ts \in Int, SpacedBy(R, ts),
         publish_interval_ <= ts
  PROVE  SpacedBy(R \o [k \in 1 .. DotNum |-> ts + k - 1], ts + DotNum)'
<1> DEFINE D == DotNum
           n == Len(R)
           x == [k \in 1 .. D |-> ts + k - 1]
           Q == R \o x
<1>1. D \in Nat \ {0} /\ publish_interval_ \in Nat
  BY Sizes
<1>2. n \in Nat /\ \A i \in 1 .. n : R[i] \in Int
  BY LenProperties, ElementOfSeq
<1>3. x \in Seq(Int) /\ Len(x) = D
  <2>1. \A k \in 1 .. D : ts + k - 1 \in Int
    BY <1>1
  <2>2. x \in Seq(Int) /\ DOMAIN x = 1 .. D
    BY <1>1, <2>1, IsASeq
  <2> HIDE DEF x
  <2> QED
    BY <1>1, <2>2, LenProperties
<1>4. Len(Q) = n + D /\ \A i \in 1 .. n + D : Q[i] = IF i <= n THEN R[i] ELSE x[i - n]
  <2> HIDE DEF x
  <2>1. x \in Seq(Int)
    BY <1>3
  <2>2. Len(Q) = n + Len(x) /\ \A i \in 1 .. n + Len(x) : Q[i] = IF i <= n THEN R[i] ELSE x[i - n]
    BY <2>1, ConcatProperties
  <2> QED
    BY <1>3, <2>2
<1>5. \A i \in 1 .. n + D : /\ i <= n => i \in 1 .. n /\ Q[i] = R[i]
                            /\ ~(i <= n) => Q[i] = ts + (i - n) - 1
  <2> SUFFICES ASSUME NEW i \in 1 .. n + D
               PROVE  /\ i <= n => i \in 1 .. n /\ Q[i] = R[i]
                      /\ ~(i <= n) => Q[i] = ts + (i - n) - 1
    OBVIOUS
  <2>1. i <= n => i \in 1 .. n
    BY <1>1, <1>2
  <2>2. ~(i <= n) => i - n \in 1 .. D
    BY <1>1, <1>2
  <2>3. ~(i <= n) => x[i - n] = ts + (i - n) - 1
    BY <2>2
  <2> HIDE DEF Q, x, D
  <2> QED
    BY <1>4, <2>1, <2>2, <2>3
<1>6. \A i \in 1 .. n : R[i] >= publish_interval_ /\ Gap(ts - R[i], n + 1 - i)
  BY DEF SpacedBy
<1>7. \A i \in 1 .. n : \A j \in i .. n : Gap(R[j] - R[i], j - i)
  BY DEF SpacedBy
<1>8. \A d, g, k \in Int : Gap(d, g) => Gap(d + k, g + k)
  <2> SUFFICES ASSUME NEW d \in Int, NEW g \in Int, NEW k \in Int, Gap(d, g)
               PROVE  Gap(d + k, g + k)
    OBVIOUS
  <2>1. PICK m \in 0 .. lost : d = g + m * D
    BY DEF Gap
  <2> DEFINE y == m * D
  <2>2. y \in Nat /\ d = g + y
    BY <1>1, <2>1
  <2> HIDE DEF y
  <2>3. d + k = (g + k) + y
    BY <2>2
  <2> QED
    BY <2>1, <2>3 DEF y, Gap
<1>9. \A k \in Int : Gap(k, k)
  <2> SUFFICES ASSUME NEW k \in Int PROVE Gap(k, k)
    OBVIOUS
  <2>1. 0 * DotNum = 0 /\ 0 \in 0 .. lost
    BY <1>1
  <2>2. k = k + 0
    OBVIOUS
  <2> QED
    BY <2>1, <2>2 DEF Gap
<1> HIDE DEF Q, x, D, n
<1>10. ASSUME NEW i \in 1 .. n + D
       PROVE  Q[i] \in Int /\ Q[i] >= publish_interval_ /\ Gap((ts + D) - Q[i], n + D + 1 - i)
  <2>1. CASE i <= n
    <3>1. i \in 1 .. n /\ Q[i] = R[i] /\ R[i] \in Int
      BY <1>2, <1>5, <2>1
    <3>2. Gap((ts - R[i]) + D, (n + 1 - i) + D)
      <4>1. Gap(ts - R[i], n + 1 - i)
        BY <1>6, <3>1
      <4>2. ts - R[i] \in Int /\ n + 1 - i \in Int /\ D \in Int
        BY <1>1, <1>2, <3>1
      <4> QED
        BY <1>8, <4>1, <4>2
    <3>3. (ts - R[i]) + D = (ts + D) - R[i] /\ (n + 1 - i) + D = n + D + 1 - i
      BY <1>1, <1>2, <3>1
    <3> QED
      BY <1>6, <3>1, <3>2, <3>3
  <2>2. CASE ~(i <= n)
    <3>1. Q[i] = ts + (i - n) - 1
      BY <1>5, <2>2
    <3>2. Q[i] \in Int /\ Q[i] >= publish_interval_ /\ (ts + D) - Q[i] = n + D + 1 - i
      BY <1>1, <1>2, <2>2, <3>1
    <3>3. n + D + 1 - i \in Int
      BY <1>1, <1>2
    <3> QED
      BY <1>9, <3>2, <3>3
  <2> QED
    BY <2>1, <2>2
<1>11. ASSUME NEW i \in 1 .. n + D, NEW j \in i .. n + D
       PROVE  Gap(Q[j] - Q[i], j - i)
  <2>0. j \in 1 .. n + D
    BY <1>1, <1>2
  <2>1. CASE j <= n
    <3>1. i \in 1 .. n /\ j \in i .. n /\ Q[i] = R[i] /\ Q[j] = R[j]
      <4>1. i <= n
        BY <1>1, <1>2, <2>1
      <4> QED
        BY <1>1, <1>2, <1>5, <2>0, <2>1, <4>1
    <3> QED
      BY <1>7, <3>1
  <2>2. CASE i <= n /\ ~(j <= n)
    <3>1. i \in 1 .. n /\ Q[i] = R[i] /\ R[i] \in Int /\ Q[j] = ts + (j - n) - 1
      BY <1>2, <1>5, <2>0, <2>2
    <3>2. Gap((ts - R[i]) + (j - n - 1), (n + 1 - i) + (j - n - 1))
      <4>1. Gap(ts - R[i], n + 1 - i)
        BY <1>6, <3>1
      <4>2. ts - R[i] \in Int /\ n + 1 - i \in Int /\ j - n - 1 \in Int
        BY <1>1, <1>2, <3>1
      <4> QED
        BY <1>8, <4>1, <4>2
    <3>3. (ts - R[i]) + (j - n - 1) = Q[j] - Q[i] /\ (n + 1 - i) + (j - n - 1) = j - i
      BY <1>1, <1>2, <3>1
    <3> QED
      BY <3>2, <3>3
  <2>3. CASE ~(i <= n) /\ ~(j <= n)
    <3>1. Q[i] = ts + (i - n) - 1 /\ Q[j] = ts + (j - n) - 1
      BY <1>5, <2>0, <2>3
    <3>2. Q[j] - Q[i] = j - i /\ j - i \in Int
      BY <1>1, <1>2, <3>1
    <3> QED
      BY <1>9, <3>2
  <2>4. i <= j /\ i \in Int /\ j \in Int
    BY <1>1, <1>2
  <2> QED
    BY <1>1, <1>2, <2>1, <2>2, <2>3, <2>4
<1>12. \A i \in 1 .. Len(Q) :
          /\ Q[i] >= publish_interval_ /\ Gap((ts + DotNum) - Q[i], Len(Q) + 1 - i)
          /\ \A j \in i .. Len(Q) : Gap(Q[j] - Q[i], j - i)
  BY <1>4, <1>10, <1>11 DEF D
<1>13. \A d, g : Gap(d, g)' <=> Gap(d, g)
  BY DEF Gap
<1>14. SpacedBy(Q, ts + DotNum)'
  <2>1. \A i \in 1 .. Len(Q) :
          /\ Q[i] >= publish_interval_ /\ Gap((ts + DotNum) - Q[i], Len(Q) + 1 - i)'
          /\ \A j \in i .. Len(Q) : Gap(Q[j] - Q[i], j - i)'
    BY <1>12, <1>13
  <2> QED
    BY <2>1 DEF SpacedBy
<1> QED
  BY <1>14 DEF Q, x, D

LEMMA SpanInit == Init => SpanInv
<1> SUFFICES ASSUME Init PROVE SpanInv
  OBVIOUS
<1>1. PointsInv
  BY PointsInit
<1>2. /\ raw_packet_queue_ = << >> /\ frame_ = << >> /\ lost = 0
      /\ received = [l \in Lidars |-> << >>] /\ points_clouds_ = [l \in Lidars |-> << >>]
  BY DEF Init
<1>3. lost \in 0 .. MaxLost
  BY <1>2, Sizes
<1>4. Len(<< >>) = 0 /\ (\A i \in 1 .. 0 : FALSE)
  OBVIOUS
<1>5. \A l \in Lidars : SpacedBy(received[l], NextTime(l))
  BY <1>2, <1>4 DEF SpacedBy
<1>6. OpenClouds /\ FlagSet /\ \A i \in 1 .. Len(frame_) : RightLength(frame_[i])
  BY <1>2, <1>4 DEF OpenClouds, FlagSet
<1> QED
  BY <1>1, <1>3, <1>5, <1>6 DEF SpanInv

\* What SpanInv says with no time stamp of a host in the queues
LEMMA SpanFacts ==
  ASSUME SpanInv
  PROVE  /\ PointsInv /\ lost \in Nat /\ lost <= MaxLost /\ MaxLost \in Nat
         /\ \A l \in Lidars : received[l] \in Seq(Int) /\ points_clouds_[l] \in Seq(Point)
         /\ frame_ \in Seq(Entry) /\ period \in Nat
<1>1. PointsInv /\ lost \in 0 .. MaxLost /\ MaxLost \in Nat
  BY Sizes DEF SpanInv
<1> QED
  BY <1>1 DEF PointsInv, Clouds, FrameOwn

LEMMA DueTimes ==
  ASSUME NEW l, period \in Nat
  PROVE  NextTime(l) \in Nat /\ NextTime(l) >= publish_interval_
<1>1. DotNum \in Nat /\ PtpOffset \in Nat /\ publish_interval_ \in Nat
  BY Sizes
<1> DEFINE p == period + IF l \in sent THEN 1 ELSE 0
<1>2. p \in Nat
  OBVIOUS
<1> HIDE DEF p
<1>3. p * DotNum \in Nat
  BY <1>1, <1>2
<1> DEFINE x == p * DotNum
<1> HIDE DEF x
<1>4. publish_interval_ + x + PtpOffset \in Nat /\ publish_interval_ + x + PtpOffset >= publish_interval_
  BY <1>1, <1>3 DEF x
<1> QED
  BY <1>4 DEF x, p, NextTime

LEMMA SpacedAsBefore ==
  ASSUME lost \in Nat, lost' \in Nat, lost <= lost'
  PROVE  \A R \in Seq(Int), t \in Int : SpacedBy(R, t) => SpacedBy(R, t)'
<1> SUFFICES ASSUME NEW R \in Seq(Int), NEW t \in Int, SpacedBy(R, t)
             PROVE  SpacedBy(R, t)'
  OBVIOUS
<1>1. /\ \A i \in 1 .. Len(R) : R[i] >= publish_interval_ /\ Gap(t - R[i], Len(R) + 1 - i)'
      /\ \A i \in 1 .. Len(R) : \A j \in i .. Len(R) : Gap(R[j] - R[i], j - i)'
  BY SpacedStill
<1> QED
  BY <1>1 DEF SpacedBy

\* A step that changes neither clouds nor frame
LEMMA SpanStill ==
  ASSUME SpanInv, ~mixed, PointsInv', lost' \in 0 .. MaxLost, lost <= lost',
         UNCHANGED <<points_clouds_, frame_>>, FlagSet',
         \A l \in Lidars : SpacedBy(received[l], NextTime(l))'
  PROVE  SpanInv'
<1>1. OpenClouds'
  BY DEF SpanInv, OpenClouds
<1>2. ASSUME NEW i \in 1 .. Len(frame_')
      PROVE  RightLength(frame_[i])'
  <2> DEFINE f == frame_[i]
             span == Last(f.points).time - Head(f.points).time
  <2>1. f \in Entry /\ RightLength(f)
    BY <1>2, ElementOfSeq, SpanFacts DEF SpanInv
  <2>2. f.points \in Seq(Point) /\ f.points # << >>
    BY <2>1 DEF Entry, RightLength
  <2>3. span \in Int
    BY <2>2, CloudEnds
  <2>4. /\ (2 + lost) * publish_interval_ <= (2 + lost') * publish_interval_
        /\ (2 + lost) * publish_interval_ \in Int /\ (2 + lost') * publish_interval_ \in Int
    BY SpanFacts, Sizes, Cancel
  <2> HIDE DEF span
  <2>5. span < (2 + lost) * publish_interval_
    BY <2>1 DEF RightLength, span
  <2>6. span < (2 + lost') * publish_interval_
    <3> DEFINE x == (2 + lost) * publish_interval_
               y == (2 + lost') * publish_interval_
    <3>1. x <= y /\ x \in Int /\ y \in Int /\ span < x
      BY <2>4, <2>5
    <3> HIDE DEF x, y
    <3>2. span < y
      BY <2>3, <3>1
    <3> QED
      BY <3>2 DEF y
  <2> QED
    <3>1. frame_' = frame_
      OBVIOUS
    <3> QED
      BY <2>1, <2>6, <3>1 DEF RightLength, span
<1> QED
  BY <1>1, <1>2 DEF SpanInv

\* The packet after the next is due one packet later.
LEMMA NextPacketDue ==
  ASSUME NEW l, l \notin sent, sent' = sent \cup {l}, period' = period, period \in Nat
  PROVE  NextTime(l)' = NextTime(l) + DotNum
<1>1. (period + 1) * DotNum = period * DotNum + DotNum /\ period * DotNum \in Nat
  BY Sizes
<1>2. NextTime(l) = publish_interval_ + period * DotNum + PtpOffset
  BY DEF NextTime
<1>3. NextTime(l)' = publish_interval_ + (period + 1) * DotNum + PtpOffset
  BY DEF NextTime
<1> DEFINE x == period * DotNum
<1>4. x \in Nat /\ NextTime(l) = publish_interval_ + x + PtpOffset
      /\ NextTime(l)' = publish_interval_ + (x + DotNum) + PtpOffset
  BY <1>1, <1>2, <1>3
<1> HIDE DEF x
<1> QED
  BY <1>4, Sizes

LEMMA NewCloudType ==
  ASSUME PointsInv, NEW pkt \in Packet
  PROVE  NewCloud(pkt) \in Seq(Point)
<1>1. pkt.handle \in Lidars /\ pkt.time_stamp \in Int /\ Moved(pkt.handle) \in {"default", "configured"}
  BY DEF Packet, Moved
<1>2. \A k \in 1 .. DotNum : [time |-> pkt.time_stamp + k - 1, ext |-> Moved(pkt.handle)] \in Point
  BY <1>1, Sizes DEF Point
<1>3. PointCloudProcess(pkt, Moved(pkt.handle)) \in Seq(Point)
  BY <1>2, Sizes, IsASeq DEF PointCloudProcess
<1>4. points_clouds_[pkt.handle] \in Seq(Point)
  BY <1>1 DEF PointsInv, Clouds
<1> QED
  BY <1>3, <1>4, ConcatProperties DEF NewCloud

LEMMA LosePacketSpan ==
  ASSUME SpanInv, ~mixed, PointsInv', NEW h \in Lidars, LosePacket(h)
  PROVE  SpanInv'
<1>1. /\ lost' = lost + 1 /\ lost < MaxLost /\ sent' = sent \cup {h} /\ h \notin sent
      /\ period' = period /\ received' = received /\ points_clouds_' = points_clouds_
      /\ frame_' = frame_ /\ raw_packet_queue_' = raw_packet_queue_
      /\ is_timestamp_sync_' = is_timestamp_sync_
  BY DEF LosePacket, workerVars
<1>2. lost' \in 0 .. MaxLost /\ lost <= lost' /\ lost' \in Nat
  BY <1>1, SpanFacts
<1>3. FlagSet'
  BY <1>1 DEF SpanInv, FlagSet
<1>4. ASSUME NEW l \in Lidars
      PROVE  SpacedBy(received[l], NextTime(l))'
  <2>1. /\ SpacedBy(received[l], NextTime(l)) /\ received[l] \in Seq(Int)
        /\ NextTime(l) \in Int /\ lost \in Nat
    BY SpanFacts, DueTimes DEF SpanInv
  <2>2. CASE l = h
    <3>1. NextTime(l)' = NextTime(l) + DotNum
      BY <1>1, <2>2, NextPacketDue, SpanFacts
    <3>2. ASSUME NEW R \in Seq(Int), NEW t \in Int, SpacedBy(R, t)
          PROVE  SpacedBy(R, t + DotNum)'
      BY <1>1, <2>1, <3>2, SpacedLost
    <3> QED
      BY <1>1, <2>1, <3>1, <3>2
  <2>3. CASE l # h
    <3>1. NextTime(l)' = NextTime(l)
      BY <1>1, <2>3 DEF NextTime
    <3> QED
      BY <1>1, <1>2, <2>1, <3>1, SpacedAsBefore
  <2> QED
    BY <2>2, <2>3
<1> QED
  BY <1>1, <1>2, <1>3, <1>4, SpanStill

\* A packet of a lidar that has the master clock
LEMMA PacketTime ==
  ASSUME NEW h \in Lidars, OnPointPacket(h), ~mixed', period \in Nat
  PROVE  /\ GetEthPacketTimestamp(h) = NextTime(h) /\ is_timestamp_sync_' /\ ~mixed
         /\ \A l \in Lidars : l # h => NextTime(l)' = NextTime(l)
<1>1. h \in synced /\ h \notin sent /\ sent' = sent \cup {h} /\ period' = period
  BY DEF OnPointPacket
<1>2. GetEthPacketTimestamp(h) = NextTime(h)
  <2>1. (period + 0) * DotNum = period * DotNum
    BY <1>1
  <2> QED
    BY <1>1, <2>1 DEF GetEthPacketTimestamp, NextTime, Now
<1> QED
  BY <1>1, <1>2 DEF OnPointPacket, NextTime

LEMMA OnPointPacketSpan ==
  ASSUME SpanInv, NEW h \in Lidars, OnPointPacket(h), ~mixed'
  PROVE  SpanInv'
<1>1. PointsInv'
  BY OnPointPacketStep, SpanFacts
<1>2. /\ GetEthPacketTimestamp(h) = NextTime(h) /\ is_timestamp_sync_' /\ ~mixed
      /\ \A l \in Lidars : l # h => NextTime(l)' = NextTime(l)
  BY PacketTime, SpanFacts
<1>3. /\ sent' = sent \cup {h} /\ h \notin sent /\ period' = period /\ lost' = lost
      /\ points_clouds_' = points_clouds_ /\ frame_' = frame_
      /\ received' = [received EXCEPT ![h] =
           @ \o [k \in 1 .. DotNum |-> NextTime(h) + k - 1]]
  BY <1>2 DEF OnPointPacket, workerVars
<1>4. FlagSet'
  BY <1>2 DEF FlagSet
<1>5. NextTime(h)' = NextTime(h) + DotNum
  BY <1>3, NextPacketDue, SpanFacts
<1>6. ASSUME NEW l \in Lidars
      PROVE  SpacedBy(received[l], NextTime(l))'
  <2>1. /\ SpacedBy(received[l], NextTime(l)) /\ received[l] \in Seq(Int)
        /\ NextTime(l) \in Int /\ lost \in Nat /\ publish_interval_ <= NextTime(l)
    BY <1>2, SpanFacts, DueTimes, Sizes DEF SpanInv
  <2>2. CASE l = h
    <3>1. received'[l] = received[l] \o [k \in 1 .. DotNum |-> NextTime(l) + k - 1]
      BY <1>3, <2>2 DEF SpanInv, PointsInv
    <3>2. ASSUME NEW R \in Seq(Int), NEW t \in Int, SpacedBy(R, t), publish_interval_ <= t
          PROVE  SpacedBy(R \o [k \in 1 .. DotNum |-> t + k - 1], t + DotNum)'
      BY <1>3, <2>1, <3>2, SpacedReceived
    <3> QED
      BY <1>5, <2>1, <2>2, <3>1, <3>2
  <2>3. CASE l # h
    <3>1. NextTime(l)' = NextTime(l) /\ received'[l] = received[l]
      BY <1>2, <1>3, <2>3 DEF SpanInv, PointsInv
    <3>2. lost' \in Nat /\ lost <= lost'
      BY <1>3, <2>1
    <3> QED
      BY <2>1, <3>1, <3>2, SpacedAsBefore
  <2> QED
    BY <2>2, <2>3
<1>7. lost' \in 0 .. MaxLost /\ lost <= lost'
  BY <1>3, SpanFacts
<1> QED
  BY <1>1, <1>2, <1>3, <1>4, <1>6, <1>7, SpanStill

LEMMA RawDataProcessSpan ==
  ASSUME SpanInv, ~mixed, RawDataProcess
  PROVE  SpanInv'
<1> DEFINE pkt == Head(raw_packet_queue_)
           h == pkt.handle
           C == NewCloud(pkt)
           clouds == [points_clouds_ EXCEPT ![h] = C]
<1>1. PointsInv /\ PointsInv' /\ lost \in Nat
  BY RawDataProcessStep, SpanFacts
<1>2. /\ pkt \in Packet /\ h \in Lidars /\ pkt.time_stamp \in Int /\ raw_packet_queue_ # << >>
      /\ CheckTimer(h, clouds) /\ UNCHANGED <<netVars, is_timestamp_sync_>>
  <2>1. /\ pkt \in Packet /\ raw_packet_queue_ # << >>
        /\ CheckTimer(h, clouds) /\ UNCHANGED <<netVars, is_timestamp_sync_>>
    BY <1>1, WorkerStep
  <2> HIDE DEF pkt
  <2>2. h \in Lidars /\ pkt.time_stamp \in Int
    BY <2>1 DEF Packet
  <2> QED
    BY <2>1, <2>2
<1>3. is_timestamp_sync_
  BY <1>2 DEF SpanInv, FlagSet
<1>4. IF FrameEnds(clouds[h]) THEN Publish(<<h>>, clouds) ELSE Wait(clouds)
  BY <1>2, <1>3 DEF CheckTimer
<1>5. PICK s \in Nat :
        /\ Len(C) = Len(points_clouds_[h]) + DotNum
        /\ s + Len(C) <= Len(received[h])
        /\ \A k \in 1 .. Len(C) : C[k].time = received[h][s + k]
        /\ \A k \in 1 .. Len(points_clouds_[h]) : C[k] = points_clouds_[h][k]
        /\ \A k \in 1 .. DotNum : C[Len(points_clouds_[h]) + k].time = pkt.time_stamp + k - 1
  BY <1>1, CloudReceived
<1>6. C \in Seq(Point) /\ points_clouds_[h] \in Seq(Point)
  BY <1>1, <1>2, NewCloudType DEF PointsInv, Clouds
<1> HIDE DEF pkt, C
<1>7. /\ C # << >>
      /\ Last(C).time - Head(C).time < (2 + lost) * publish_interval_
      /\ FrameEnds(C) => Last(C).time - Head(C).time >= publish_interval_tolerance_
      /\ FrameEnds(C) \/ Open(Head(C).time, Last(C).time, Len(C))
  <2> DEFINE c == points_clouds_[h]
             n == Len(c)
             R == received[h]
  <2>1. Continues(C, c, R, s, pkt.time_stamp, n)
    BY <1>5 DEF Continues
  <2>2. /\ R \in Seq(Int) /\ n \in Nat /\ lost \in 0 .. MaxLost /\ c \in Seq(Point)
        /\ SpacedBy(R, NextTime(h)) /\ (c # << >> => Open(Head(c).time, Last(c).time, n))
    BY <1>2, <1>6, SpanFacts, LenProperties DEF SpanInv, OpenClouds
  <2> HIDE DEF c, R
  <2> QED
    BY <1>2, <1>6, <2>1, <2>2, Grown
<1>8. /\ clouds[h] = C /\ \A l \in Lidars : l # h => clouds[l] = points_clouds_[l]
  BY <1>1, <1>2 DEF PointsInv, Clouds
<1> HIDE DEF clouds, h
<1>9. FlagSet' /\ lost' = lost /\ received' = received /\ \A l \in Lidars : NextTime(l)' = NextTime(l)
  BY <1>2, <1>3 DEF FlagSet, netVars, NextTime
<1>10. ASSUME NEW l \in Lidars
       PROVE  SpacedBy(received[l], NextTime(l))'
  <2>1. SpacedBy(received[l], NextTime(l)) /\ received[l] \in Seq(Int) /\ NextTime(l) \in Int
    BY SpanFacts, DueTimes DEF SpanInv
  <2> QED
    BY <1>1, <1>9, <2>1, SpacedAsBefore
<1>11. /\ OpenClouds'
       /\ \A i \in 1 .. Len(frame_') : RightLength(frame_[i])'
  <2>1. CASE FrameEnds(C)
    <3>1. /\ frame_' = Frames(<<h>>, clouds)[Len(<<h>>)]
          /\ points_clouds_' = SwapOut(<<h>>, clouds)
      BY <1>4, <1>8, <2>1 DEF Publish
    <3>2. Len(<<h>>) = 1 /\ <<h>>[1] = h
      OBVIOUS
    <3>3. frame_' = Append(<< >>, EntryOf(h, clouds))
      <4>1. /\ Frames(<<h>>, clouds)[0] = << >>
            /\ \A n \in 1 .. Len(<<h>>) :
                 Frames(<<h>>, clouds)[n] = OneMore(Frames(<<h>>, clouds)[n - 1], <<h>>[n], clouds)
        BY <3>2, FramesValues
      <4>2. 1 \in 1 .. Len(<<h>>) /\ 1 - 1 = 0
        BY <3>2
      <4>3. Frames(<<h>>, clouds)[1] = OneMore(<< >>, h, clouds)
        BY <3>2, <4>1, <4>2
      <4> QED
        BY <1>7, <1>8, <3>1, <3>2, <4>3 DEF OneMore
    <3>4. Len(frame_') = 1 /\ frame_'[1] = EntryOf(h, clouds)
      BY <3>3
    <3>5. ASSUME NEW e, e = EntryOf(h, clouds)
          PROVE  RightLength(e)'
      <4>1. e.points = C /\ e.base_time = Head(C).time
        BY <3>5, <1>6, <1>7, <1>8, CloudEnds DEF EntryOf
      <4> QED
        BY <1>7, <1>9, <2>1, <4>1 DEF RightLength
    <3>6. points_clouds_'[h] = << >> /\ \A l \in Lidars : points_clouds_'[l] \in {<< >>, clouds[l]}
      BY <1>2, <3>1, <3>2 DEF SwapOut, Contains
    <3>7. OpenClouds'
      BY <1>8, <3>6 DEF OpenClouds, SpanInv
    <3>8. ASSUME NEW i \in 1 .. Len(frame_')
          PROVE  RightLength(frame_[i])'
      <4>1. frame_'[i] = EntryOf(h, clouds)
        BY <3>4, <3>8
      <4> QED
        BY <3>5, <4>1
    <3> QED
      BY <3>7, <3>8
  <2>2. CASE ~FrameEnds(C)
    <3>1. frame_' = << >> /\ points_clouds_' = clouds
      BY <1>4, <1>8, <2>2 DEF Wait
    <3>2. OpenClouds'
      BY <1>7, <1>8, <2>2, <3>1 DEF OpenClouds, SpanInv
    <3> QED
      BY <3>1, <3>2
  <2> QED
    BY <2>1, <2>2
<1> QED
  BY <1>1, <1>9, <1>10, <1>11 DEF SpanInv

LEMMA StoragePointDataSpan ==
  ASSUME SpanInv, ~mixed, StoragePointData
  PROVE  SpanInv'
<1>1. /\ frame_ # << >> /\ frame_' = Tail(frame_)
      /\ UNCHANGED <<netVars, is_timestamp_sync_, raw_packet_queue_, points_clouds_>>
  BY DEF StoragePointData
<1>2. PointsInv' /\ lost' = lost /\ received' = received /\ points_clouds_' = points_clouds_
      /\ \A l \in Lidars : NextTime(l)' = NextTime(l)
  BY <1>1, StoragePointDataStep, SpanFacts DEF netVars, NextTime
<1>3. ASSUME NEW l \in Lidars
      PROVE  SpacedBy(received[l], NextTime(l))'
  <2>1. SpacedBy(received[l], NextTime(l)) /\ received[l] \in Seq(Int) /\ NextTime(l) \in Int
    BY SpanFacts, DueTimes DEF SpanInv
  <2>2. lost \in Nat /\ lost' \in Nat /\ lost <= lost'
    BY <1>2, SpanFacts
  <2> QED
    BY <1>2, <2>1, <2>2, SpacedAsBefore
<1>4. OpenClouds' /\ FlagSet'
  BY <1>1, <1>2 DEF SpanInv, OpenClouds, FlagSet
<1>5. ASSUME NEW i \in 1 .. Len(frame_')
      PROVE  RightLength(frame_[i])'
  <2>1. /\ Len(frame_') = Len(frame_) - 1 /\ Len(frame_) \in Nat
        /\ \A n \in 1 .. Len(frame_') : frame_'[n] = frame_[n + 1]
    BY <1>1, SpanFacts, HeadTailProperties, LenProperties
  <2>2. i + 1 \in 1 .. Len(frame_) /\ frame_'[i] = frame_[i + 1]
    BY <2>1
  <2>3. RightLength(frame_[i + 1])
    BY <2>2 DEF SpanInv
  <2> QED
    BY <1>2, <2>2, <2>3 DEF RightLength
<1> QED
  BY <1>2, <1>3, <1>4, <1>5 DEF SpanInv

LEMMA SpanNext ==
  ASSUME SpanInv, [Next]_vars
  PROVE  SpanInv'
<1>1. PointsInv' /\ PointsInv
  BY PointsNext, SpanFacts
<1>2. CASE mixed'
  <2>1. lost' \in 0 .. MaxLost
    <3>1. lost \in 0 .. MaxLost /\ MaxLost \in Nat
      BY Sizes DEF SpanInv
    <3>2. (\E l \in Lidars : LosePacket(l)) \/ lost' = lost
      BY DEF Next, vars, netVars, Tick, Synchronise, OnPointPacket, OnImuPacket, ImuIsEmpty,
             ImuGetCount, ImuSignal, IndexInserted, GetFreeIndex, RawDataProcess,
             StoragePointData, ImuWait, PollingLidarImuData
    <3> QED
      BY <3>1, <3>2 DEF LosePacket
  <2> QED
    BY <1>1, <1>2, <2>1 DEF SpanInv
<1>3. CASE ~mixed'
  <2>1. ASSUME NEW l \in Lidars, OnPointPacket(l)
        PROVE  SpanInv'
    BY <1>3, <2>1, OnPointPacketSpan
  <2>2. ASSUME ~mixed, UNCHANGED <<received, lost, points_clouds_, frame_>>, FlagSet',
               \A l \in Lidars : NextTime(l)' = NextTime(l)
        PROVE  SpanInv'
    <3>1. lost' \in 0 .. MaxLost /\ lost <= lost' /\ lost \in Nat /\ lost' \in Nat
      BY <2>2, SpanFacts
    <3>2. ASSUME NEW l \in Lidars
          PROVE  SpacedBy(received[l], NextTime(l))'
      <4>1. SpacedBy(received[l], NextTime(l)) /\ received[l] \in Seq(Int) /\ NextTime(l) \in Int
        BY <2>2, SpanFacts, DueTimes DEF SpanInv
      <4> QED
        BY <2>2, <3>1, <4>1, SpacedAsBefore
    <3> QED
      BY <1>1, <2>2, <3>1, <3>2, SpanStill
  <2>3. ~mixed => FlagSet
    BY DEF SpanInv
  <2>4. CASE Tick
    <3>1. /\ ~mixed /\ UNCHANGED <<received, lost, points_clouds_, frame_>> /\ FlagSet'
          /\ sent = Lidars /\ sent' = {} /\ period' = period + 1
      BY <1>3, <2>3, <2>4 DEF Tick, workerVars, FlagSet
    <3>2. period' + 0 = period + 1
      BY <3>1, SpanFacts
    <3>3. \A l \in Lidars : NextTime(l)' = NextTime(l)
      BY <3>1, <3>2 DEF NextTime
    <3> QED
      BY <2>2, <3>1, <3>3
  <2>5. ASSUME NEW l \in Lidars, LosePacket(l)
        PROVE  SpanInv'
    <3>1. ~mixed
      BY <1>3, <2>5 DEF LosePacket
    <3> QED
      BY <1>1, <2>5, <3>1, LosePacketSpan
  <2>6. ASSUME NEW l \in Lidars, Synchronise(l)
        PROVE  SpanInv'
    <3>1. /\ ~mixed /\ UNCHANGED <<received, lost, points_clouds_, frame_>> /\ FlagSet'
          /\ sent' = sent /\ period' = period
      BY <1>3, <2>3, <2>6 DEF Synchronise, workerVars, FlagSet
    <3>2. \A m \in Lidars : NextTime(m)' = NextTime(m)
      BY <3>1 DEF NextTime
    <3> QED
      BY <2>2, <3>1, <3>2
  <2>7. ASSUME NEW l \in Lidars, OnImuPacket(l)
        PROVE  SpanInv'
    <3>1. /\ ~mixed /\ UNCHANGED <<received, lost, points_clouds_, frame_>> /\ FlagSet'
          /\ sent' = sent /\ period' = period
      BY <1>3, <2>7 DEF OnImuPacket, workerVars, FlagSet
    <3>2. \A m \in Lidars : NextTime(m)' = NextTime(m)
      BY <3>1 DEF NextTime
    <3> QED
      BY <2>2, <3>1, <3>2
  <2>8. CASE \/ ImuIsEmpty \/ ImuGetCount \/ ImuSignal \/ IndexInserted
             \/ (\E l \in Lidars : GetFreeIndex(l)) \/ ImuWait \/ PollingLidarImuData
             \/ UNCHANGED vars
    <3>1. UNCHANGED <<netVars, is_timestamp_sync_, raw_packet_queue_, workerVars>>
      BY <2>8 DEF ImuIsEmpty, ImuGetCount, ImuSignal, IndexInserted, GetFreeIndex, ImuWait,
                  PollingLidarImuData, vars
    <3>2. /\ ~mixed /\ UNCHANGED <<received, lost, points_clouds_, frame_>> /\ FlagSet'
          /\ sent' = sent /\ period' = period
      BY <1>3, <2>3, <3>1 DEF netVars, workerVars, FlagSet
    <3>3. \A m \in Lidars : NextTime(m)' = NextTime(m)
      BY <3>2 DEF NextTime
    <3> QED
      BY <2>2, <3>2, <3>3
  <2>9. CASE RawDataProcess
    <3>1. ~mixed
      BY <1>3, <2>9 DEF RawDataProcess, netVars
    <3> QED
      BY <2>9, <3>1, RawDataProcessSpan
  <2>10. CASE StoragePointData
    <3>1. ~mixed
      BY <1>3, <2>10 DEF StoragePointData, netVars
    <3> QED
      BY <2>10, <3>1, StoragePointDataSpan
  <2> QED
    BY <2>1, <2>4, <2>5, <2>6, <2>7, <2>8, <2>9, <2>10 DEF Next
<1> QED
  BY <1>2, <1>3

\* With the master clock CheckTimer closes the frames of one lidar at the first packet of
\* an interval, not earlier than its tolerance allows, and only lost packets make it late.
THEOREM FramesSpanIntervals == Spec => []FrameSpan
<1>1. SpanInv => FrameSpan
  BY DEF SpanInv, RightLength, FrameSpan
<1> QED
  BY <1>1, SpanInit, SpanNext, PTL DEF Spec
=============================================================================
