-------------------------- MODULE LivMapper_proofs --------------------------
(***************************************************************************)
(* While the lidar's clock does not go back, the scans and their header    *)
(* times stay side by side, every scan is processed with the IMU samples   *)
(* up to its last point, and the filter propagates over exactly the        *)
(* stretch from the end of one scan to the end of the next, for all        *)
(* lengths of scans, sizes of jumps and times.  (When it does go back the  *)
(* first two fail.)                                                        *)
(***************************************************************************)
EXTENDS LivMapper, WellFoundedInduction, TLAPS

\* The part of the type invariant that the proofs need.
Typed ==
  /\ lid_raw_data_buffer \in Seq(Scan)
  /\ lid_header_time_buffer \in Seq(Time)
  /\ last_timestamp_lidar \in Int /\ last_timestamp_imu \in Int
  /\ lidarClock \in Int /\ imuClock \in Int

\* A scan in hand ends where it says, and the lidar's messages are not older
\* than the last one.
FrameInv == lidar_pushed => frame.end = frame.scan.end /\ frame.end \in Int

ClockInv == last_timestamp_lidar <= lidarClock

IInv == Typed /\ FrameInv /\ ClockInv /\ HeadersMatch /\ CompletePropagation

LEMMA ScanFields ==
  \A s \in Scan : s.beg \in Int /\ s.end \in Int /\ s.beg \in Time /\ s.size \in {"one", "many"}
  BY DEF Scan, Time

LEMMA InitInv == Init => IInv
  BY DEF Init, IInv, Typed, FrameInv, ClockInv, HeadersMatch, CompletePropagation, NoScan

\* What sync_packages takes in hand ends with its last point.
LEMMA FrameEnd ==
  ASSUME IInv, HasScan
  PROVE  Frame.end = Frame.scan.end /\ Frame.end \in Int
<1>1. CASE lidar_pushed
  BY <1>1 DEF IInv, FrameInv, Frame
<1>2. CASE ~lidar_pushed
  <2>1. /\ lid_raw_data_buffer \in Seq(Scan) /\ lid_raw_data_buffer # << >>
        /\ lid_header_time_buffer \in Seq(Time)
    BY DEF IInv, Typed, HasScan
  <2>2. Head(lid_raw_data_buffer) \in Scan
    BY <2>1
  <2>3. Head(lid_header_time_buffer) = Head(lid_raw_data_buffer).beg
    BY <2>1 DEF IInv, HeadersMatch
  <2> QED
    BY <1>2, <2>2, <2>3, ScanFields DEF Frame
<1> QED
  BY <1>1, <1>2

LEMMA StepInv ==
  ASSUME LoopBack = FALSE
  PROVE  IInv /\ [Next]_vars => IInv'
<1> SUFFICES ASSUME IInv, [Next]_vars PROVE IInv'
  OBVIOUS
<1>1. CASE livox_pcl_cbk
  <2>1. PICK s \in NextScans :
          /\ lidarClock' = s.beg + ScanLen
          /\ IF s.size = "none"
               THEN /\ lid_raw_data_buffer' = IF s.beg < last_timestamp_lidar THEN << >>
                                              ELSE lid_raw_data_buffer
                    /\ UNCHANGED <<lid_header_time_buffer, last_timestamp_lidar>>
               ELSE /\ lid_raw_data_buffer' =
                         Append(IF s.beg < last_timestamp_lidar THEN << >>
                                ELSE lid_raw_data_buffer, s)
                    /\ lid_header_time_buffer' = Append(lid_header_time_buffer, s.beg)
                    /\ last_timestamp_lidar' = s.beg
    BY <1>1 DEF livox_pcl_cbk
  <2>2. UNCHANGED <<last_timestamp_imu, lidar_pushed, frame, imuClock, done>>
    BY <1>1 DEF livox_pcl_cbk, history
  <2>3. /\ s \in [beg : Time, end : Time, size : Sizes]
        /\ s.beg >= lidarClock
    BY DEF NextScans
  <2>4. s.size # "none" => s \in Scan
    BY <2>3, SizesAssumption DEF Scan
  <2>5. /\ lid_raw_data_buffer \in Seq(Scan) /\ lid_header_time_buffer \in Seq(Time)
        /\ s.beg \in Time /\ s.beg \in Int
        /\ last_timestamp_lidar \in Int /\ lidarClock \in Int /\ ScanLen \in Nat
        /\ last_timestamp_lidar <= lidarClock
    BY <2>3, TimesAssumption DEF IInv, Typed, ClockInv, Time
  <2>6. ~(s.beg < last_timestamp_lidar)
    BY <2>3, <2>5
  <2>7. Typed'
    <3>1. last_timestamp_imu' \in Int /\ imuClock' \in Int /\ lidarClock' \in Int
      BY <2>1, <2>2, <2>5 DEF IInv, Typed
    <3>2. CASE s.size = "none"
      BY <3>1, <3>2, <2>1, <2>5, <2>6 DEF Typed
    <3>3. CASE s.size # "none"
      <4>1. /\ lid_raw_data_buffer' = Append(lid_raw_data_buffer, s)
            /\ lid_header_time_buffer' = Append(lid_header_time_buffer, s.beg)
            /\ last_timestamp_lidar' = s.beg
        BY <3>3, <2>1, <2>6
      <4> QED
        BY <4>1, <3>1, <3>3, <2>4, <2>5 DEF Typed
    <3> QED
      BY <3>2, <3>3
  <2>8. ClockInv'
    BY <2>1, <2>3, <2>5 DEF ClockInv
  <2>9. HeadersMatch'
    <3>1. CASE s.size = "none"
      BY <3>1, <2>1, <2>6 DEF IInv, HeadersMatch
    <3>2. CASE s.size # "none"
      <4>1. /\ lid_raw_data_buffer' = Append(lid_raw_data_buffer, s)
            /\ lid_header_time_buffer' = Append(lid_header_time_buffer, s.beg)
        BY <3>2, <2>1, <2>6
      <4> QED
        BY <4>1, <2>5 DEF IInv, HeadersMatch
    <3> QED
      BY <3>1, <3>2
  <2> QED
    BY <2>2, <2>7, <2>8, <2>9 DEF IInv, FrameInv, CompletePropagation
<1>2. CASE imu_cbk
  <2>1. PICK t \in (imuClock + 1 .. imuClock + MaxStep) \cup {last_timestamp_imu - 1} :
          /\ imuClock' = IF t > imuClock THEN t ELSE imuClock
          /\ last_timestamp_imu' \in {t, last_timestamp_imu}
    BY <1>2 DEF imu_cbk
  <2>2. UNCHANGED <<lid_raw_data_buffer, lid_header_time_buffer, last_timestamp_lidar,
                    lidar_pushed, frame, lidarClock, done>>
    BY <1>2 DEF imu_cbk, history
  <2>3. t \in Int
    BY TimesAssumption DEF IInv, Typed
  <2>4. Typed'
    BY <2>1, <2>2, <2>3 DEF IInv, Typed
  <2> QED
    BY <2>2, <2>4 DEF IInv, FrameInv, ClockInv, HeadersMatch, CompletePropagation
<1>3. CASE PushLidar
  <2>1. /\ lidar_pushed' = TRUE /\ frame' = Frame
        /\ Frame.end = Frame.scan.end /\ Frame.end \in Int
    BY <1>3, FrameEnd DEF PushLidar
  <2>2. FrameInv'
    BY <2>1 DEF FrameInv
  <2> QED
    BY <1>3, <2>2
       DEF PushLidar, buffers, history, IInv, Typed, ClockInv, HeadersMatch,
           CompletePropagation
<1>4. CASE SyncScan
  <2>1. /\ HasScan /\ ImuCovers(Frame.end)
        /\ lid_raw_data_buffer' = Tail(lid_raw_data_buffer)
        /\ lid_header_time_buffer' = Tail(lid_header_time_buffer)
        /\ lidar_pushed' = FALSE
        /\ done' = [scan |-> Frame.scan, newest |-> last_timestamp_imu]
        /\ UNCHANGED <<last_timestamp_lidar, last_timestamp_imu, lidarClock, imuClock>>
    BY <1>4 DEF SyncScan
  <2>2. /\ lid_raw_data_buffer \in Seq(Scan) /\ lid_raw_data_buffer # << >>
        /\ lid_header_time_buffer \in Seq(Time)
    BY <2>1 DEF IInv, Typed, HasScan
  <2>3. lid_header_time_buffer # << >>
    BY <2>2 DEF IInv, HeadersMatch
  <2>4. Typed' /\ FrameInv' /\ ClockInv'
    BY <2>1, <2>2, <2>3 DEF IInv, Typed, FrameInv, ClockInv
  <2>5. HeadersMatch'
    BY <2>1, <2>2, <2>3 DEF IInv, HeadersMatch
  <2>6. CompletePropagation'
    BY <2>1, FrameEnd DEF CompletePropagation, ImuCovers
  <2> QED
    BY <2>4, <2>5, <2>6 DEF IInv
<1>5. CASE UNCHANGED vars
  BY <1>5 DEF vars, buffers, history, IInv, Typed, FrameInv, ClockInv, HeadersMatch,
              CompletePropagation
<1> QED
  BY <1>1, <1>2, <1>3, <1>4, <1>5 DEF Next, sync_packages

LEMMA Invariant ==
  ASSUME LoopBack = FALSE
  PROVE  Spec => []IInv
  BY InitInv, StepInv, PTL DEF Spec

\* sync_packages pairs each scan with its own header time.
THEOREM HeadersStayPaired ==
  ASSUME LoopBack = FALSE
  PROVE  Spec => []HeadersMatch
<1>1. IInv => HeadersMatch
  BY DEF IInv
<1> QED
  BY <1>1, Invariant, PTL

\* No scan is processed before the IMU samples up to its last point have come.
THEOREM PropagationIsComplete ==
  ASSUME LoopBack = FALSE
  PROVE  Spec => []CompletePropagation
<1>1. IInv => CompletePropagation
  BY DEF IInv
<1> QED
  BY <1>1, Invariant, PTL

-----------------------------------------------------------------------------
(* The stretches that the filter propagates add up.  Once it is initialized,
   last_prop_end_time lies between the samples used and the samples buffered,
   and no later than the end of any buffered scan. *)

ImuOrder ==
  /\ imu_buffer \in Seq(Nat)
  /\ \A i \in 1 .. Len(imu_buffer) : 0 < imu_buffer[i] /\ imu_buffer[i] <= last_timestamp_imu
  /\ \A i, j \in 1 .. Len(imu_buffer) : i <= j => imu_buffer[i] <= imu_buffer[j]

ScanOrder ==
  /\ \A i \in 1 .. Len(lid_raw_data_buffer) : lid_raw_data_buffer[i].end <= lidarClock
  /\ \A i, j \in 1 .. Len(lid_raw_data_buffer) :
       i <= j => lid_raw_data_buffer[i].end <= lid_raw_data_buffer[j].end
  /\ lidar_pushed => lid_raw_data_buffer # << >> /\ frame.scan = lid_raw_data_buffer[1]

Between ==
  /\ init_iter_num \in Nat
  /\ \/ imu_need_init
     \/ /\ last_imu \in Nat /\ last_prop_end_time \in Nat \ {0}
        /\ last_imu <= last_prop_end_time
        /\ last_prop_end_time <= last_timestamp_imu /\ last_prop_end_time <= lidarClock
        /\ \A i \in 1 .. Len(imu_buffer) : last_prop_end_time <= imu_buffer[i]
        /\ \A i \in 1 .. Len(lid_raw_data_buffer) :
             last_prop_end_time <= lid_raw_data_buffer[i].end

FilterInv == ImuOrder /\ ScanOrder /\ Between /\ PropagatesToEnd

\* A set of naturals has a least member.
LEMMA NatMin ==
  ASSUME NEW T, T \subseteq Nat, T # {}
  PROVE  \E m \in T : \A k \in T : m <= k
<1> DEFINE R == OpToRel(<, Nat)
<1>1. IsWellFoundedOn(R, Nat)
  BY NatLessThanWellFounded
<1>2. \A k, m \in Nat : k < m => <<k, m>> \in R
  BY DEF OpToRel
<1> HIDE DEF R
<1>3. PICK m \in T : \A k \in T : ~ (<<k, m>> \in R)
  BY <1>1, WFMin
<1>4. \A k \in T : m <= k
  <2> SUFFICES ASSUME NEW k \in T PROVE m <= k
    OBVIOUS
  <2>1. ~(k < m) /\ k \in Nat /\ m \in Nat
    BY <1>2, <1>3
  <2> QED
    BY <2>1
<1> QED
  BY <1>4

\* A bounded one has a greatest, which is its Max.
LEMMA MaxOfBounded ==
  ASSUME NEW N \in Nat, NEW S \in SUBSET (0 .. N), S # {}
  PROVE  Max(S) \in S /\ \A k \in S : k <= Max(S)
<1> DEFINE T == {N - k : k \in S}
<1>1. T \subseteq Nat /\ T # {}
  <2>1. \A k \in S : N - k \in Nat
    OBVIOUS
  <2> QED
    BY <2>1
<1>2. PICK m \in T : \A k \in T : m <= k
  <2> HIDE DEF T
  <2> QED
    BY <1>1, NatMin
<1>3. PICK x \in S : m = N - x
  OBVIOUS
<1>4. \A y \in S : x >= y
  <2> SUFFICES ASSUME NEW y \in S PROVE x >= y
    OBVIOUS
  <2>1. N - x <= N - y
    BY <1>2, <1>3
  <2>2. x \in Int /\ y \in Int
    OBVIOUS
  <2> QED
    BY <2>1, <2>2
<1> DEFINE G(z) == \A y \in S : z >= y
<1>5. Max(S) = CHOOSE z \in S : G(z)
  BY DEF Max
<1>6. \E z \in S : G(z)
  BY <1>3, <1>4
<1> HIDE DEF G
<1>7. Max(S) \in S /\ G(Max(S))
  <2>1. (CHOOSE z \in S : G(z)) \in S /\ G(CHOOSE z \in S : G(z))
    BY <1>6, Zenon
  <2> QED
    BY <2>1, <1>5
<1>8. \A y \in S : Max(S) >= y
  BY <1>7 DEF G
<1> QED
  BY <1>7, <1>8

\* sync_packages takes the samples up to the end of the scan and no other.
LEMMA SamplesSplit ==
  ASSUME ImuOrder, NEW end \in Int
  PROVE  /\ SamplesUpTo(end) \in 0 .. Len(imu_buffer)
         /\ \A i \in 1 .. SamplesUpTo(end) : imu_buffer[i] <= end
         /\ \A i \in 1 .. Len(imu_buffer) : i > SamplesUpTo(end) => imu_buffer[i] > end
<1> DEFINE L == Len(imu_buffer)
           S == {n \in 0 .. L : \A i \in 1 .. n : imu_buffer[i] <= end}
           k == Max(S)
<1>1. L \in Nat /\ \A i \in 1 .. L : imu_buffer[i] \in Nat
  BY DEF ImuOrder
<1>2. 0 \in S
  BY <1>1
<1>3. k \in S /\ \A n \in S : n <= k
  BY <1>1, <1>2, MaxOfBounded
<1>4. SamplesUpTo(end) = k
  BY DEF SamplesUpTo
<1>5. ASSUME NEW i \in 1 .. L, i > k
      PROVE  imu_buffer[i] > end
  <2>1. k + 1 \in 1 .. L /\ ~(k + 1 \in S) /\ k \in 0 .. L
    <3>1. k \in 0 .. L
      BY <1>3
    <3>2. ~(k + 1 <= k)
      BY <3>1
    <3>3. k + 1 \notin S
      BY <1>3, <3>2
    <3> HIDE DEF k, S
    <3> QED
      BY <1>1, <1>5, <3>1, <3>3
  <2>2. \A n \in 1 .. k : imu_buffer[n] <= end
    BY <1>3
  <2> HIDE DEF k
  <2>3. imu_buffer[k + 1] > end
    <3>1. PICK n \in 1 .. k + 1 : ~(imu_buffer[n] <= end)
      BY <1>1, <2>1
    <3>2. n = k + 1
      BY <2>1, <2>2, <3>1
    <3> QED
      BY <1>1, <2>1, <3>1, <3>2
  <2>4. imu_buffer[k + 1] <= imu_buffer[i]
    BY <1>1, <1>5, <2>1 DEF ImuOrder
  <2> QED
    BY <1>1, <2>1, <2>3, <2>4
<1> QED
  BY <1>3, <1>4, <1>5

\* Sums satisfies its equation: some function does.
LEMMA SumsEquation ==
  ASSUME NEW s, NEW w,
         w = [i \in 0 .. Len(s) |-> IF i = 0 THEN 0 ELSE w[i - 1] + s[i]]
  PROVE  Sums(s) = [i \in 0 .. Len(s) |-> IF i = 0 THEN 0 ELSE Sums(s)[i - 1] + s[i]]
<1> DEFINE E(f) == f = [i \in 0 .. Len(s) |-> IF i = 0 THEN 0 ELSE f[i - 1] + s[i]]
<1>1. Sums(s) = CHOOSE f : E(f)
  BY DEF Sums
<1>2. E(w)
  OBVIOUS
<1> HIDE DEF E
<1>3. E(CHOOSE f : E(f))
  BY <1>2
<1>4. E(Sums(s))
  BY <1>1, <1>3
<1> QED
  BY <1>4 DEF E

\* Steps that add up to the known values w have these sums: there is no least
\* place where they differ.
LEMMA SumsKnown ==
  ASSUME NEW s, Len(s) \in Nat, NEW w \in [0 .. Len(s) -> Int], w[0] = 0,
         \A i \in 1 .. Len(s) : w[i] = w[i - 1] + s[i]
  PROVE  \A i \in 0 .. Len(s) : Sums(s)[i] = w[i]
<1>1. w = [i \in 0 .. Len(s) |-> IF i = 0 THEN 0 ELSE w[i - 1] + s[i]]
  <2> DEFINE u == [i \in 0 .. Len(s) |-> IF i = 0 THEN 0 ELSE w[i - 1] + s[i]]
  <2>1. ASSUME NEW i \in 0 .. Len(s)
        PROVE  w[i] = u[i]
    <3>1. i = 0 \/ i \in 1 .. Len(s)
      OBVIOUS
    <3> QED
      BY <3>1
  <2> QED
    BY <2>1
<1>2. Sums(s) = [i \in 0 .. Len(s) |-> IF i = 0 THEN 0 ELSE Sums(s)[i - 1] + s[i]]
  BY <1>1, SumsEquation
<1> DEFINE T == {i \in 0 .. Len(s) : Sums(s)[i] # w[i]}
<1>3. ASSUME T # {}
      PROVE  FALSE
  <2>1. PICK m \in T : \A k \in T : m <= k
    <3>1. T \subseteq Nat
      OBVIOUS
    <3> HIDE DEF T
    <3> QED
      BY <1>3, <3>1, NatMin
  <2>2. m # 0
    BY <1>2, <2>1
  <2>3. m \in 1 .. Len(s) /\ m - 1 \in 0 .. Len(s) /\ ~(m <= m - 1)
    <3>1. m \in 0 .. Len(s)
      BY <2>1
    <3> HIDE DEF T
    <3> QED
      BY <2>2, <3>1
  <2>4. Sums(s)[m - 1] = w[m - 1]
    BY <2>1, <2>3
  <2>5. Sums(s)[m] = Sums(s)[m - 1] + s[m]
    BY <1>2, <2>2, <2>3
  <2> QED
    BY <2>3, <2>4, <2>5
<1> QED
  BY <1>3

LEMMA InitFilter == Init => FilterInv
<1> SUFFICES ASSUME Init PROVE FilterInv
  OBVIOUS
<1>1. ImuOrder /\ ScanOrder /\ Between
  BY DEF Init, ImuOrder, ScanOrder, Between
<1>2. prop.samples = << >> /\ prop.dts = << >>
  BY DEF Init
<1>3. PropagatesToEnd
  BY <1>2 DEF PropagatesToEnd
<1> QED
  BY <1>1, <1>3 DEF FilterInv

\* The steps dts of the filter over the samples p, from beg to end.
StepsOver(p, beg, end, dts) ==
  /\ DOMAIN dts = 1 .. Len(p) /\ Len(dts) = Len(p)
  /\ Len(p) >= 1 => dts[1] \in Nat
  /\ Len(p) >= 2 => dts[1] = p[1] - beg
  /\ \A i \in 2 .. Len(p) : dts[i] = IF i = Len(p) THEN end - p[i - 1] ELSE p[i] - p[i - 1]

\* Samples in order, none before beg or after end.
Sorted(p, beg, end) ==
  /\ Len(p) \in Nat
  /\ \A i \in 1 .. Len(p) : p[i] \in Nat /\ beg <= p[i] /\ p[i] <= end
  /\ \A i, j \in 1 .. Len(p) : i <= j => p[i] <= p[j]

\* What UndistortPcl does, when the samples lie between the end of the last
\* propagation and the end of the scan.
LEMMA FilterSteps ==
  ASSUME NEW samples \in Seq(Nat), NEW end \in Nat,
         last_imu \in Nat, last_prop_end_time \in Nat, last_imu <= last_prop_end_time,
         \A i \in 1 .. Len(samples) :
           last_prop_end_time <= samples[i] /\ samples[i] <= end,
         UndistortPcl(samples, end)
  PROVE  /\ prop'.samples = samples /\ prop'.beg = last_prop_end_time /\ prop'.end = end
         /\ StepsOver(samples, last_prop_end_time, end, prop'.dts)
         /\ last_prop_end_time' = end
         /\ last_imu' = IF samples = << >> THEN last_imu ELSE samples[Len(samples)]
<1> DEFINE L == Len(samples)
           v == <<last_imu>> \o samples
           d == [i \in 1 .. Len(v) - 1 |->
                  IF v[i + 1] < last_prop_end_time THEN 0 ELSE Dt(v, i, end)]
<1>1. /\ prop' = [beg |-> last_prop_end_time, end |-> end, samples |-> samples, dts |-> d]
      /\ last_prop_end_time' = end /\ last_imu' = Last(v)
  BY DEF UndistortPcl
<1>2. L \in Nat /\ \A i \in 1 .. L : samples[i] \in Nat
  OBVIOUS
<1>3. /\ v \in Seq(Nat) /\ Len(v) = L + 1 /\ v[1] = last_imu
      /\ \A i \in 1 .. L : v[i + 1] = samples[i]
  OBVIOUS
<1>4. prop'.dts = d /\ DOMAIN d = 1 .. L /\ Len(d) = L
  BY <1>1, <1>2, <1>3
<1>5. \A i \in 1 .. L : d[i] = IF v[i + 1] < last_prop_end_time THEN 0 ELSE Dt(v, i, end)
  BY <1>2, <1>3
<1>6. last_imu' = IF samples = << >> THEN last_imu ELSE samples[Len(samples)]
  <2>1. last_imu' = v[L + 1]
    BY <1>1, <1>3 DEF Last
  <2> HIDE DEF v
  <2> QED
    BY <1>2, <1>3, <2>1
<1> HIDE DEF v, d
<1>7. L >= 1 => d[1] = IF last_imu < last_prop_end_time THEN samples[1] - last_prop_end_time
                       ELSE IF L = 1 THEN end - last_imu ELSE samples[1] - last_imu
  <2> SUFFICES ASSUME L >= 1
               PROVE  d[1] = IF last_imu < last_prop_end_time
                               THEN samples[1] - last_prop_end_time
                             ELSE IF L = 1 THEN end - last_imu ELSE samples[1] - last_imu
    OBVIOUS
  <2>1. 1 \in 1 .. L /\ samples[1] \in Nat /\ last_prop_end_time <= samples[1]
        /\ v[1 + 1] = samples[1]
    BY <1>2, <1>3
  <2>2. ~(v[1 + 1] < last_prop_end_time)
    BY <2>1
  <2>3. d[1] = Dt(v, 1, end)
    BY <1>5, <2>1, <2>2
  <2>4. v[1] = last_imu /\ Len(v) - 1 = L
    BY <1>2, <1>3
  <2>5. Dt(v, 1, end) = IF v[1] < last_prop_end_time THEN v[1 + 1] - last_prop_end_time
                        ELSE IF 1 = Len(v) - 1 THEN end - v[1] ELSE v[1 + 1] - v[1]
    BY DEF Dt
  <2> HIDE DEF L
  <2> QED
    BY <2>1, <2>3, <2>4, <2>5
<1>8. ASSUME NEW i \in 2 .. L
      PROVE  d[i] = IF i = L THEN end - samples[i - 1] ELSE samples[i] - samples[i - 1]
  <2>1. i \in 1 .. L /\ i - 1 \in 1 .. L /\ (i - 1) + 1 = i
    BY <1>2
  <2>2. /\ v[i] = samples[i - 1] /\ v[i + 1] = samples[i]
        /\ samples[i - 1] \in Nat /\ samples[i] \in Nat
        /\ last_prop_end_time <= samples[i - 1] /\ last_prop_end_time <= samples[i]
    BY <1>2, <1>3, <2>1
  <2>3. ~(v[i + 1] < last_prop_end_time) /\ ~(v[i] < last_prop_end_time)
    BY <2>2
  <2>4. d[i] = Dt(v, i, end)
    BY <1>5, <2>1, <2>3
  <2> HIDE DEF L
  <2> QED
    BY <1>2, <1>3, <2>2, <2>3, <2>4 DEF Dt
<1>9. L >= 1 => last_prop_end_time <= samples[1] /\ samples[1] <= end /\ samples[1] \in Nat
  BY <1>2
<1>10. (L >= 1 => d[1] \in Nat) /\ (L >= 2 => d[1] = samples[1] - last_prop_end_time)
  <2> HIDE DEF L
  <2> QED
    BY <1>2, <1>7, <1>9
<1> QED
  BY <1>1, <1>4, <1>6, <1>8, <1>10 DEF StepsOver

\* They add up to the stretch between the two, and none goes back.
LEMMA StepsAddUp ==
  ASSUME NEW p, NEW beg \in Nat, NEW end \in Nat, NEW dts,
         Sorted(p, beg, end), StepsOver(p, beg, end, dts)
  PROVE  /\ \A i \in DOMAIN dts : dts[i] \in Nat
         /\ Len(p) >= 2 => Sums(dts)[Len(dts)] = end - beg
<1> DEFINE L == Len(p)
<1>0. /\ L \in Nat /\ Len(dts) = L /\ DOMAIN dts = 1 .. L
      /\ \A i \in 1 .. L : p[i] \in Nat /\ beg <= p[i] /\ p[i] <= end
      /\ \A i, j \in 1 .. L : i <= j => p[i] <= p[j]
      /\ L >= 1 => dts[1] \in Nat
      /\ L >= 2 => dts[1] = p[1] - beg
      /\ \A i \in 2 .. L : dts[i] = IF i = L THEN end - p[i - 1] ELSE p[i] - p[i - 1]
  BY DEF Sorted, StepsOver
<1> HIDE DEF L
<1>1. ASSUME NEW i \in 2 .. L
      PROVE  i \in 1 .. L /\ i - 1 \in 1 .. L /\ p[i - 1] <= p[i]
  <2>1. i \in 1 .. L /\ i - 1 \in 1 .. L /\ i - 1 <= i
    BY <1>0
  <2> QED
    BY <1>0, <2>1
<1>2. ASSUME NEW i \in 1 .. L
      PROVE  dts[i] \in Nat
  <2>1. i = 1 \/ i \in 2 .. L
    BY <1>0
  <2>2. CASE i = 1
    BY <1>0, <2>2
  <2>3. CASE i \in 2 .. L
    <3>1. i \in 1 .. L /\ i - 1 \in 1 .. L /\ p[i - 1] <= p[i]
      BY <1>1, <2>3
    <3>2. p[i] \in Nat /\ p[i - 1] \in Nat /\ p[i - 1] <= end
      BY <1>0, <3>1
    <3>3. dts[i] = IF i = L THEN end - p[i - 1] ELSE p[i] - p[i - 1]
      BY <1>0, <2>3
    <3> QED
      BY <1>0, <3>1, <3>2, <3>3
  <2> QED
    BY <2>1, <2>2, <2>3
<1>3. ASSUME L >= 2
      PROVE  Sums(dts)[Len(dts)] = end - beg
  <2> DEFINE w == [i \in 0 .. L |-> IF i = 0 THEN 0 ELSE IF i = L THEN end - beg
                                    ELSE p[i] - beg]
  <2>1. w \in [0 .. L -> Int]
    <3>1. \A i \in 0 .. L : i = 0 \/ i \in 1 .. L
      BY <1>0
    <3> QED
      BY <1>0, <3>1
  <2>2. w[0] = 0 /\ w[L] = end - beg /\ w[1] = p[1] - beg /\ p[1] \in Nat
    BY <1>0, <1>3
  <2>3. ASSUME NEW i \in 2 .. L
        PROVE  w[i] = w[i - 1] + dts[i]
    <3>1. i \in 0 .. L /\ i - 1 \in 0 .. L /\ i # 0 /\ i - 1 # 0 /\ i - 1 # L
      BY <1>0
    <3>2. w[i - 1] = p[i - 1] - beg /\ w[i] = IF i = L THEN end - beg ELSE p[i] - beg
      BY <1>0, <3>1
    <3> HIDE DEF w
    <3>3. p[i] \in Nat /\ p[i - 1] \in Nat
      BY <1>0, <1>1
    <3>4. dts[i] = IF i = L THEN end - p[i - 1] ELSE p[i] - p[i - 1]
      BY <1>0
    <3> QED
      BY <3>2, <3>3, <3>4
  <2> HIDE DEF w
  <2>4. w[1] = w[0] + dts[1]
    BY <1>0, <1>3, <2>2
  <2>5. \A i \in 1 .. L : w[i] = w[i - 1] + dts[i]
    <3>1. \A i \in 1 .. L : i = 1 \/ i \in 2 .. L
      BY <1>0
    <3> QED
      BY <2>3, <2>4, <3>1
  <2>6. \A i \in 0 .. Len(dts) : Sums(dts)[i] = w[i]
    BY <1>0, <2>1, <2>2, <2>5, SumsKnown
  <2> QED
    BY <1>0, <2>2, <2>6
<1> QED
  BY <1>0, <1>2, <1>3 DEF L

LEMMA StepFilter ==
  ASSUME LoopBack = FALSE
  PROVE  IInv /\ FilterInv /\ [Next]_vars => FilterInv'
<1> SUFFICES ASSUME IInv, FilterInv, [Next]_vars PROVE FilterInv'
  OBVIOUS
<1> USE DEF IInv, FilterInv
<1> DEFINE r == lid_raw_data_buffer
           b == imu_buffer
<1>0. /\ r \in Seq(Scan) /\ Len(r) \in Nat
      /\ \A i \in 1 .. Len(r) : r[i] \in Scan /\ r[i].end \in Nat \ {0}
      /\ b \in Seq(Nat) /\ Len(b) \in Nat /\ \A i \in 1 .. Len(b) : b[i] \in Nat
      /\ last_timestamp_imu \in Int /\ lidarClock \in Int /\ imuClock \in Int
  <2>1. \A s \in Scan : s.end \in Nat \ {0}
    BY TimesAssumption DEF Scan, Time
  <2>2. r \in Seq(Scan) /\ b \in Seq(Nat)
    BY DEF Typed, ImuOrder
  <2> HIDE DEF r, b
  <2> QED
    BY <2>1, <2>2 DEF Typed
<1>1. CASE livox_pcl_cbk
  <2>1. PICK s \in NextScans :
          /\ lidarClock' = s.beg + ScanLen
          /\ IF s.size = "none"
               THEN r' = IF s.beg < last_timestamp_lidar THEN << >> ELSE r
               ELSE r' = Append(IF s.beg < last_timestamp_lidar THEN << >> ELSE r, s)
    BY <1>1 DEF livox_pcl_cbk
  <2>2. UNCHANGED <<b, last_timestamp_imu, lidar_pushed, frame, imuProcess, prop>>
    BY <1>1 DEF livox_pcl_cbk, history
  <2>3. /\ s.beg \in Nat /\ s.end \in Nat \ {0} /\ s.beg <= s.end /\ s.end <= s.beg + ScanLen
        /\ s.beg >= lidarClock
    BY TimesAssumption DEF NextScans, Time
  <2>4. ~(s.beg < last_timestamp_lidar)
    BY <1>0, <2>3 DEF Typed, ClockInv
  <2>5. r' = r \/ r' = Append(r, s)
    BY <2>1, <2>4
  <2>6. lidarClock <= lidarClock' /\ lidarClock <= s.end /\ s.end <= lidarClock'
        /\ lidarClock' \in Int
    BY <1>0, <2>1, <2>3, TimesAssumption
  <2>7. ASSUME NEW i \in 1 .. Len(r')
        PROVE  \/ i \in 1 .. Len(r) /\ r'[i] = r[i]
               \/ i = Len(r) + 1 /\ r'[i] = s
    BY <1>0, <2>5
  <2>8. Len(r') >= Len(r)
    BY <1>0, <2>5
  <2> HIDE DEF r, b
  <2>9. ScanOrder'
    <3>1. ASSUME NEW i \in 1 .. Len(r')
          PROVE  r'[i].end <= lidarClock'
      BY <1>0, <2>3, <2>6, <2>7 DEF ScanOrder, r
    <3>2. ASSUME NEW i \in 1 .. Len(r'), NEW j \in 1 .. Len(r'), i <= j
          PROVE  r'[i].end <= r'[j].end
      <4>1. CASE j \in 1 .. Len(r) /\ r'[j] = r[j]
        <5>1. i \in 1 .. Len(r) /\ r'[i] = r[i]
          BY <1>0, <2>7, <3>2, <4>1
        <5> QED
          BY <3>2, <4>1, <5>1 DEF ScanOrder, r
      <4>2. CASE j = Len(r) + 1 /\ r'[j] = s
        BY <1>0, <2>3, <2>6, <2>7, <4>2 DEF ScanOrder, r
      <4> QED
        BY <2>7, <4>1, <4>2
    <3>3. lidar_pushed => r # << >>
      BY DEF ScanOrder, r
    <3>4. lidar_pushed => r' # << >> /\ r'[1] = r[1]
      <4> SUFFICES ASSUME r # << >> PROVE r' # << >> /\ r'[1] = r[1]
        BY <3>3
      <4>1. 1 \in 1 .. Len(r)
        BY <1>0
      <4> QED
        BY <1>0, <2>5, <4>1
    <3> QED
      BY <2>2, <3>1, <3>2, <3>4 DEF ScanOrder, r
  <2>10. Between'
    <3>1. CASE imu_need_init
      BY <2>2, <3>1 DEF Between, imuProcess
    <3>2. CASE ~imu_need_init
      <4>1. /\ last_prop_end_time \in Nat \ {0} /\ last_prop_end_time <= lidarClock
            /\ \A i \in 1 .. Len(r) : last_prop_end_time <= r[i].end
        BY <3>2 DEF Between, r
      <4>2. last_prop_end_time <= lidarClock' /\ last_prop_end_time <= s.end
        BY <1>0, <2>3, <2>6, <4>1
      <4>3. \A i \in 1 .. Len(r') : last_prop_end_time <= r'[i].end
        BY <2>7, <4>1, <4>2
      <4> QED
        BY <2>2, <3>2, <4>2, <4>3 DEF Between, imuProcess, r, b
    <3> QED
      BY <3>1, <3>2
  <2> QED
    BY <2>2, <2>9, <2>10 DEF ImuOrder, PropagatesToEnd, b
<1>2. CASE imu_cbk
  <2>1. PICK t \in (imuClock + 1 .. imuClock + MaxStep) \cup {last_timestamp_imu - 1} :
          /\ 0 < t
          /\ IF Accepts(t)
               THEN last_timestamp_imu' = t /\ b' = Append(b, t)
               ELSE UNCHANGED <<last_timestamp_imu, b>>
    BY <1>2 DEF imu_cbk
  <2>2. UNCHANGED <<r, lidarClock, lidar_pushed, frame, imuProcess, prop>>
    BY <1>2 DEF imu_cbk, history
  <2>3. t \in Nat
    BY <1>0, <2>1, TimesAssumption
  <2>4. CASE ~Accepts(t)
    BY <2>1, <2>2, <2>4 DEF ImuOrder, ScanOrder, Between, imuProcess, PropagatesToEnd
  <2>5. CASE Accepts(t)
    <3>1. last_timestamp_imu' = t /\ b' = Append(b, t)
      BY <2>1, <2>5
    <3>2. last_timestamp_imu > 0 => t >= last_timestamp_imu
      BY <2>5 DEF Accepts
    <3>3. b' \in Seq(Nat)
      BY <1>0, <2>3, <3>1
    <3>4. ASSUME NEW i \in 1 .. Len(b')
          PROVE  \/ i \in 1 .. Len(b) /\ b'[i] = b[i]
                 \/ i = Len(b) + 1 /\ b'[i] = t
      BY <1>0, <3>1
    <3>5. \A i \in 1 .. Len(b) : b[i] <= t
      BY <1>0, <2>3, <3>2 DEF ImuOrder
    <3> HIDE DEF r, b
    <3>6. ImuOrder'
      <4>1. ASSUME NEW i \in 1 .. Len(b')
            PROVE  0 < b'[i] /\ b'[i] <= last_timestamp_imu'
        BY <1>0, <2>1, <2>3, <3>1, <3>4, <3>5 DEF ImuOrder, b
      <4>2. ASSUME NEW i \in 1 .. Len(b'), NEW j \in 1 .. Len(b'), i <= j
            PROVE  b'[i] <= b'[j]
        <5>1. CASE j \in 1 .. Len(b) /\ b'[j] = b[j]
          <6>1. i \in 1 .. Len(b) /\ b'[i] = b[i]
            BY <1>0, <3>4, <4>2, <5>1
          <6> QED
            BY <4>2, <5>1, <6>1 DEF ImuOrder, b
        <5>2. CASE j = Len(b) + 1 /\ b'[j] = t
          BY <1>0, <2>3, <3>4, <3>5, <5>2
        <5> QED
          BY <3>4, <5>1, <5>2
      <4> QED
        BY <3>3, <4>1, <4>2 DEF ImuOrder, b
    <3>7. Between'
      <4>1. CASE imu_need_init
        BY <2>2, <4>1 DEF Between, imuProcess
      <4>2. CASE ~imu_need_init
        <5>1. /\ last_prop_end_time \in Nat \ {0} /\ last_prop_end_time <= last_timestamp_imu
              /\ \A i \in 1 .. Len(b) : last_prop_end_time <= b[i]
          BY <4>2 DEF Between, b
        <5>2. last_timestamp_imu > 0 /\ last_prop_end_time <= t
          BY <1>0, <2>3, <3>2, <5>1
        <5>3. \A i \in 1 .. Len(b') : last_prop_end_time <= b'[i]
          BY <3>4, <5>1, <5>2
        <5> QED
          BY <2>2, <3>1, <4>2, <5>1, <5>2, <5>3 DEF Between, imuProcess, r, b
      <4> QED
        BY <4>1, <4>2
    <3> QED
      BY <2>2, <3>6, <3>7 DEF ScanOrder, PropagatesToEnd, r
  <2> QED
    BY <2>4, <2>5
<1>3. CASE PushLidar
  <2>1. /\ lidar_pushed' = TRUE /\ frame' = Frame /\ ~lidar_pushed /\ r # << >>
        /\ UNCHANGED <<r, b, last_timestamp_imu, lidarClock, imuProcess, prop>>
    BY <1>3 DEF PushLidar, HasScan, buffers, history
  <2>2. Frame.scan = r[1]
    BY <2>1 DEF Frame
  <2> QED
    BY <2>1, <2>2 DEF ImuOrder, ScanOrder, Between, imuProcess, PropagatesToEnd
<1>4. CASE SyncScan
  <2> DEFINE e == Frame.end
             n == SamplesUpTo(e)
             samples == SubSeq(b, 1, n)
  <2>1. /\ HasScan /\ ImuCovers(e)
        /\ b' = SubSeq(b, n + 1, Len(b))
        /\ Process2(samples, e)
        /\ r' = Tail(r) /\ lidar_pushed' = FALSE
        /\ UNCHANGED <<last_timestamp_imu, lidarClock>>
    BY <1>4 DEF SyncScan
  <2>2. e = r[1].end /\ 1 \in 1 .. Len(r)
    <3>1. r # << >> /\ 1 \in 1 .. Len(r)
      BY <1>0, <2>1 DEF HasScan
    <3>2. Frame.scan = r[1]
      BY <3>1 DEF Frame, ScanOrder
    <3> QED
      BY <2>1, <3>1, <3>2, FrameEnd
  <2>3. e \in Nat \ {0} /\ e <= last_timestamp_imu /\ e <= lidarClock
    BY <1>0, <2>1, <2>2 DEF ImuCovers, ScanOrder
  <2>4. /\ n \in 0 .. Len(b)
        /\ \A i \in 1 .. n : b[i] <= e
        /\ \A i \in 1 .. Len(b) : i > n => b[i] > e
    <3>1. ImuOrder /\ e \in Int
      BY <2>3
    <3> HIDE DEF e
    <3> QED
      BY <3>1, SamplesSplit
  <2> HIDE DEF n, e
  <2>5. /\ samples \in Seq(Nat) /\ Len(samples) = n
        /\ \A i \in 1 .. n : samples[i] = b[i] /\ i \in 1 .. Len(b)
    BY <1>0, <2>4
  <2>6. /\ b' \in Seq(Nat) /\ Len(b') = Len(b) - n
        /\ \A i \in 1 .. Len(b') : b'[i] = b[n + i] /\ n + i \in 1 .. Len(b) /\ n + i > n
    BY <1>0, <2>1, <2>4
  <2>7. /\ Len(r') = Len(r) - 1 /\ Len(r') \in Nat
        /\ \A i \in 1 .. Len(r') : r'[i] = r[i + 1] /\ i + 1 \in 1 .. Len(r) /\ 1 <= i + 1
    BY <1>0, <2>1, <2>2
  <2> HIDE DEF samples, r, b
  <2>8. ImuOrder'
    <3>1. \A i, j \in 1 .. Len(b') : i <= j => n + i <= n + j
      BY <1>0, <2>4, <2>6
    <3> QED
      BY <2>1, <2>6, <3>1 DEF ImuOrder, b
  <2>9. ScanOrder'
    <3>1. \A i, j \in 1 .. Len(r') : i <= j => i + 1 <= j + 1
      BY <2>7
    <3> QED
      BY <2>1, <2>7, <3>1 DEF ScanOrder, r
  <2>10. \A i \in 1 .. Len(b') : e <= b'[i]
    <3> SUFFICES ASSUME NEW i \in 1 .. Len(b') PROVE e <= b'[i]
      OBVIOUS
    <3>1. b'[i] = b[n + i] /\ b[n + i] > e /\ b[n + i] \in Nat
      BY <1>0, <2>4, <2>6
    <3> QED
      BY <2>3, <3>1
  <2>11. \A i \in 1 .. Len(r') : e <= r'[i].end
    BY <2>2, <2>7 DEF ScanOrder, r
  <2>12. n # 0 => samples[n] = b[n] /\ n \in 1 .. Len(b) /\ samples[n] \in Nat /\ samples[n] <= e
    BY <1>0, <2>4, <2>5
  <2>13. CASE imu_need_init
    <3>1. /\ prop' = prop /\ init_iter_num' \in Nat
          /\ \/ imu_need_init'
             \/ last_imu' = samples[Len(samples)] /\ n # 0 /\ last_prop_end_time' = e
      <4>1. CASE samples = << >>
        BY <2>1, <2>13, <4>1 DEF Process2, IMU_init, imuProcess, Between
      <4>2. CASE samples # << >>
        <5>1. Len(samples) \in Nat \ {0} /\ n # 0
          BY <2>5, <4>2
        <5>2. init_iter_num' = init_iter_num + Len(samples) /\ init_iter_num' \in Nat
          BY <2>1, <2>13, <4>2, <5>1 DEF Process2, IMU_init, Between
        <5>3. /\ prop' = prop /\ last_imu' = samples[Len(samples)]
              /\ imu_need_init' = (init_iter_num + Len(samples) <= MAX_INI_COUNT)
              /\ last_prop_end_time' = IF init_iter_num + Len(samples) > MAX_INI_COUNT
                                          THEN e ELSE last_prop_end_time
          BY <2>1, <2>13, <4>2 DEF Process2, IMU_init, Last
        <5>4. CASE init_iter_num + Len(samples) <= MAX_INI_COUNT
          BY <5>2, <5>3, <5>4
        <5>5. CASE ~(init_iter_num + Len(samples) <= MAX_INI_COUNT)
          <6>1. init_iter_num + Len(samples) > MAX_INI_COUNT
            BY <5>1, <5>5, TimesAssumption DEF Between
          <6> QED
            BY <5>1, <5>2, <5>3, <6>1
        <5> QED
          BY <5>4, <5>5
      <4> QED
        BY <4>1, <4>2
    <3>2. Between'
      BY <2>1, <2>3, <2>5, <2>10, <2>11, <2>12, <3>1 DEF Between, r, b
    <3> QED
      BY <2>8, <2>9, <3>1, <3>2 DEF PropagatesToEnd
  <2>14. CASE ~imu_need_init
    <3>1. /\ UndistortPcl(samples, e) /\ imu_need_init' = imu_need_init
          /\ init_iter_num' \in Nat
      BY <2>1, <2>14 DEF Process2, UndistortPcl, Between
    <3>2. /\ last_imu \in Nat /\ last_prop_end_time \in Nat \ {0}
          /\ last_imu <= last_prop_end_time /\ last_prop_end_time <= e
      BY <2>2, <2>14 DEF Between, r
    <3>3. \A i \in 1 .. Len(samples) :
            last_prop_end_time <= samples[i] /\ samples[i] <= e /\ samples[i] \in Nat
      BY <1>0, <2>4, <2>5, <2>14 DEF Between, b
    <3>4. \A i, j \in 1 .. Len(samples) : i <= j => samples[i] <= samples[j]
      BY <2>5 DEF ImuOrder, b
    <3>5. /\ prop'.samples = samples /\ prop'.beg = last_prop_end_time /\ prop'.end = e
          /\ StepsOver(samples, last_prop_end_time, e, prop'.dts)
          /\ last_prop_end_time' = e
          /\ last_imu' = IF samples = << >> THEN last_imu ELSE samples[Len(samples)]
      BY <2>3, <2>5, <3>1, <3>2, <3>3, FilterSteps
    <3>6. /\ \A i \in DOMAIN prop'.dts : prop'.dts[i] \in Nat
          /\ Len(samples) >= 2 => Sums(prop'.dts)[Len(prop'.dts)] = e - last_prop_end_time
      <4>1. Sorted(samples, last_prop_end_time, e)
        BY <2>4, <2>5, <3>3, <3>4 DEF Sorted
      <4>2. e \in Nat /\ last_prop_end_time \in Nat
        BY <2>3, <3>2
      <4> QED
        BY <3>5, <4>1, <4>2, StepsAddUp
    <3>7. PropagatesToEnd'
      BY <3>5, <3>6 DEF PropagatesToEnd
    <3>8. Between'
      <4>1. last_imu' \in Nat /\ last_imu' <= e
        BY <2>3, <2>5, <2>12, <3>2, <3>5
      <4> QED
        BY <2>1, <2>3, <2>10, <2>11, <3>1, <3>5, <4>1 DEF Between, r, b
    <3> QED
      BY <2>8, <2>9, <3>7, <3>8
  <2> QED
    BY <2>13, <2>14
<1>5. CASE UNCHANGED vars
  BY <1>5 DEF vars, buffers, imuProcess, history, ImuOrder, ScanOrder, Between,
              PropagatesToEnd
<1> QED
  BY <1>1, <1>2, <1>3, <1>4, <1>5 DEF Next, sync_packages

\* Whatever samples were dropped and however scans end, no step of the filter
\* goes back in time, and the steps over a scan add up to the stretch from the
\* end of the last scan to the end of this one (UndistortPcl).
THEOREM StretchesAreExact ==
  ASSUME LoopBack = FALSE
  PROVE  Spec => []PropagatesToEnd
<1>1. Spec => []FilterInv
  BY InitFilter, StepFilter, Invariant, PTL DEF Spec
<1>2. FilterInv => PropagatesToEnd
  BY DEF FilterInv
<1> QED
  BY <1>1, <1>2, PTL
=============================================================================
