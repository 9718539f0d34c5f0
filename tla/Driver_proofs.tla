---------------------------- MODULE Driver_proofs ----------------------------
(***************************************************************************)
(* The set-up of the lidars is correct for any number of lidars, options   *)
(* and notifications, by itself (LidarConfig, the first half) and in the   *)
(* whole driver, from its start to its end, for any lidars, file and       *)
(* launch parameters (the second half).                                    *)
(***************************************************************************)
EXTENDS Driver, TLAPS, SequenceTheorems

-----------------------------------------------------------------------------
(* The set-up.  The invariant that carries the claims is Covered: a lidar  *)
(* that is being set up accounts for each of its options, because it has   *)
(* been carried out, or its bit is set, or the notification that holds the *)
(* mutex has yet to ask for it.  So no bit set, and the mutex free, means  *)
(* that all were carried out.                                              *)

\* Options that the notification in progress has still to ask lidar h for
ToAsk(h) == IF h = mutex THEN todo ELSE {}

InSetUp(h) == h = mutex \/ \E s \in Options : pending[<<h, s>>] > 0

Covered ==
  \A h \in Lidars : InSetUp(h) => Config(h) \subseteq applied[h] \cup set_bits[h] \cup ToAsk(h)

PendingKnown == \A h \in Lidars, s \in Options : pending[<<h, s>>] > 0 => h \in known

IInv == TypeOK /\ PendingKnown /\ Covered /\ SamplesConfigured /\ BitsOutstanding

LEMMA ConfigOptions == \A h \in Lidars : Config(h) \subseteq Options
  BY OptionsAssumption DEF Config

LEMMA InitInv == Init => IInv
<1> SUFFICES ASSUME Init PROVE IInv
  OBVIOUS
<1>1. TypeOK
  BY LidarsAssumption, NotifyAssumption DEF Init, Quiet, TypeOK
<1>2. \A h \in Lidars, s \in Options : ~(pending[<<h, s>>] > 0)
  BY DEF Init, Quiet
<1>3. PendingKnown
  BY <1>2 DEF PendingKnown
<1>4. \A h \in Lidars : h # mutex
  BY LidarsAssumption DEF Init, Quiet
<1>5. \A h \in Lidars : ~InSetUp(h)
  BY <1>2, <1>4 DEF InSetUp
<1>6. Covered
  BY <1>5 DEF Covered
<1>7. SamplesConfigured /\ BitsOutstanding
  BY DEF Init, Quiet, SamplesConfigured, BitsOutstanding
<1> QED
  BY <1>1, <1>3, <1>6, <1>7 DEF IInv

LEMMA AddLidarInv ==
  ASSUME IInv, NEW h \in Lidars, AddLidar(h)
  PROVE  IInv'
<1> USE DEF IInv, AddLidar, Notify, config, history
<1>1. TypeOK'
  BY NotifyAssumption DEF TypeOK
<1>2. PendingKnown' /\ SamplesConfigured' /\ BitsOutstanding'
  BY DEF PendingKnown, SamplesConfigured, BitsOutstanding, Config
<1>3. Covered'
  BY DEF Covered, InSetUp, ToAsk, Config
<1> QED
  BY <1>1, <1>2, <1>3

LEMMA LockInv ==
  ASSUME IInv, NEW h \in Lidars, Lock(h)
  PROVE  IInv'
<1> USE DEF IInv, Lock, Notify, history
<1>1. TypeOK'
  BY NotifyAssumption, ConfigOptions DEF TypeOK
<1>2. PendingKnown' /\ SamplesConfigured' /\ BitsOutstanding'
  BY DEF PendingKnown, SamplesConfigured, BitsOutstanding, Config
<1>3. Covered'
  BY LidarsAssumption DEF Covered, InSetUp, ToAsk, Config, Unlocked
<1> QED
  BY <1>1, <1>2, <1>3

\* The option moves from todo to set_bits.
LEMMA SetOptionInv ==
  ASSUME IInv, NEW s \in Options, SetOption(s)
  PROVE  IInv'
<1> USE DEF IInv, SetOption, history
<1>1. mutex \in known /\ mutex \in Lidars
  BY DEF TypeOK, Unlocked
<1>2. TypeOK'
  BY <1>1 DEF TypeOK
<1>3. /\ pending'[<<mutex, s>>] = pending[<<mutex, s>>] + 1
      /\ \A h \in Lidars, t \in Options :
           <<h, t>> # <<mutex, s>> => pending'[<<h, t>>] = pending[<<h, t>>]
  BY <1>1 DEF TypeOK
<1>4. PendingKnown'
  BY <1>1, <1>3 DEF PendingKnown
<1>5. SamplesConfigured'
  BY DEF SamplesConfigured, Config
<1>6. BitsOutstanding'
  <2> SUFFICES ASSUME NEW h \in Lidars, NEW t \in set_bits'[h]
               PROVE  (pending[<<h, t>>] > 0 \/ t \in failed[h])'
    BY DEF BitsOutstanding
  <2>1. pending[<<mutex, s>>] \in Nat
    BY <1>1 DEF TypeOK
  <2>2. CASE h = mutex /\ t = s
    BY <2>1, <2>2, <1>3
  <2>3. CASE ~(h = mutex /\ t = s)
    <3>1. t \in set_bits[h] /\ t \in Options
      BY <2>3, <1>1 DEF TypeOK
    <3>2. pending'[<<h, t>>] = pending[<<h, t>>]
      BY <2>3, <3>1, <1>1 DEF TypeOK
    <3> QED
      BY <3>1, <3>2 DEF BitsOutstanding
  <2> QED
    BY <2>2, <2>3
<1>7. Covered'
  <2> SUFFICES ASSUME NEW h \in Lidars, InSetUp(h)'
               PROVE  Config(h)' \subseteq (applied[h] \cup set_bits[h] \cup ToAsk(h))'
    BY DEF Covered
  <2>1. CASE h = mutex
    BY <2>1, <1>1 DEF Covered, InSetUp, ToAsk, Config, TypeOK
  <2>2. CASE h # mutex
    <3>1. PICK t \in Options : pending'[<<h, t>>] > 0
      BY <2>2 DEF InSetUp
    <3>2. pending'[<<h, t>>] = pending[<<h, t>>]
      BY <2>2, <1>1 DEF TypeOK
    <3>3. Config(h) \subseteq applied[h] \cup set_bits[h]
      BY <2>2, <3>1, <3>2 DEF Covered, InSetUp, ToAsk
    <3> QED
      BY <2>2, <3>3, <1>1 DEF ToAsk, Config, TypeOK
  <2> QED
    BY <2>1, <2>2
<1> QED
  BY <1>2, <1>4, <1>5, <1>6, <1>7

LEMMA UnlockInv ==
  ASSUME IInv, Unlock
  PROVE  IInv'
<1> USE DEF IInv, Unlock, history
<1>1. TypeOK'
  BY DEF TypeOK
<1>2. PendingKnown' /\ SamplesConfigured' /\ BitsOutstanding'
  BY DEF PendingKnown, SamplesConfigured, BitsOutstanding, Config
<1>3. Covered'
  BY LidarsAssumption DEF Covered, InSetUp, ToAsk, Config
<1> QED
  BY <1>1, <1>2, <1>3

\* No notification holds the mutex, so nothing is left to ask for: when the
\* last bit goes, Covered leaves only the options carried out.
LEMMA SucceedsInv ==
  ASSUME IInv, NEW h \in Lidars, NEW s \in Options, Succeeds(h, s)
  PROVE  IInv'
<1> USE DEF IInv, Succeeds, Answered, MayClear, Unlocked
<1>1. h \in known /\ h # mutex
  BY LidarsAssumption DEF PendingKnown
<1>2. TypeOK'
  BY <1>1 DEF TypeOK
<1>3. /\ pending'[<<h, s>>] = pending[<<h, s>>] - 1
      /\ \A g \in Lidars, t \in Options :
           <<g, t>> # <<h, s>> => pending'[<<g, t>>] = pending[<<g, t>>]
  BY DEF TypeOK
<1>4. PendingKnown'
  BY <1>1, <1>3 DEF PendingKnown
<1>5. BitsOutstanding'
  <2> SUFFICES ASSUME NEW g \in Lidars, NEW t \in set_bits'[g]
               PROVE  (pending[<<g, t>>] > 0 \/ t \in failed[g])'
    BY DEF BitsOutstanding
  <2>1. t \in set_bits[g] /\ t \in Options /\ ~(g = h /\ t = s)
    BY DEF TypeOK
  <2>2. pending'[<<g, t>>] = pending[<<g, t>>]
    BY <2>1 DEF TypeOK
  <2> QED
    BY <2>1, <2>2 DEF BitsOutstanding
<1>6. Config(h) \subseteq applied'[h] \cup set_bits'[h]
  BY <1>1 DEF Covered, InSetUp, ToAsk, Config, TypeOK
<1>7. \A g \in Lidars : g # h => applied'[g] = applied[g] /\ set_bits'[g] = set_bits[g]
  BY DEF TypeOK
<1>8. Covered'
  <2> SUFFICES ASSUME NEW g \in Lidars, InSetUp(g)'
               PROVE  Config(g)' \subseteq (applied[g] \cup set_bits[g] \cup ToAsk(g))'
    BY DEF Covered
  <2>1. CASE g = h
    BY <2>1, <1>6 DEF Config
  <2>2. CASE g # h
    BY <2>2, <1>3, <1>7 DEF Covered, InSetUp, ToAsk, Config, TypeOK
  <2> QED
    BY <2>1, <2>2
<1>9. SamplesConfigured'
  <2> SUFFICES ASSUME NEW g \in sampling' PROVE Config(g)' \subseteq applied'[g]
    BY DEF SamplesConfigured
  <2>1. CASE g = h /\ g \notin sampling
    BY <2>1, <1>6 DEF Config
  <2>2. CASE g \in sampling
    BY <2>2 DEF SamplesConfigured, TypeOK, Config
  <2> QED
    BY <2>1, <2>2
<1> QED
  BY <1>2, <1>4, <1>5, <1>8, <1>9

LEMMA FailsInv ==
  ASSUME IInv, NEW h \in Lidars, NEW s \in Options, Fails(h, s)
  PROVE  IInv'
<1> USE DEF IInv, Fails, Answered
<1>1. TypeOK'
  BY DEF TypeOK
<1>2. /\ pending'[<<h, s>>] = pending[<<h, s>>] - 1
      /\ \A g \in Lidars, t \in Options :
           <<g, t>> # <<h, s>> => pending'[<<g, t>>] = pending[<<g, t>>]
  BY DEF TypeOK
<1>3. PendingKnown'
  BY <1>2 DEF PendingKnown
<1>4. BitsOutstanding'
  <2> SUFFICES ASSUME NEW g \in Lidars, NEW t \in set_bits[g]
               PROVE  pending'[<<g, t>>] > 0 \/ t \in failed'[g]
    BY DEF BitsOutstanding
  <2>1. t \in Options /\ failed[g] \subseteq failed'[g]
    BY DEF TypeOK
  <2>2. CASE g = h /\ t = s
    BY <2>2 DEF TypeOK
  <2>3. CASE ~(g = h /\ t = s)
    <3>1. pending'[<<g, t>>] = pending[<<g, t>>]
      BY <2>1, <2>3 DEF TypeOK
    <3> QED
      BY <3>1, <2>1 DEF BitsOutstanding
  <2> QED
    BY <2>2, <2>3
<1>5. SamplesConfigured'
  BY DEF SamplesConfigured, Config
<1>6. \A g \in Lidars : InSetUp(g)' => InSetUp(g)
  BY <1>2 DEF InSetUp, TypeOK
<1>7. Covered'
  BY <1>6 DEF Covered, ToAsk, Config
<1> QED
  BY <1>1, <1>3, <1>4, <1>5, <1>7

LEMMA StutterInv ==
  ASSUME IInv, UNCHANGED vars
  PROVE  IInv'
BY DEF vars, config, history, IInv, TypeOK, PendingKnown, Covered, InSetUp, ToAsk,
       SamplesConfigured, BitsOutstanding, Config

LEMMA NextInv ==
  ASSUME IInv, Next
  PROVE  IInv'
<1>1. CASE LidarInfoChangeCallback
  BY <1>1, AddLidarInv, LockInv, SetOptionInv, UnlockInv DEF LidarInfoChangeCallback
<1>2. ASSUME NEW h \in Lidars, NEW s \in Options, Answer(h, s)
      PROVE  IInv'
  BY <1>2, SucceedsInv, FailsInv DEF Answer
<1>3. ASSUME NEW h \in Lidars, NEW s \in Options, TimesOut(h, s)
      PROVE  IInv'
  BY <1>3, StutterInv DEF TimesOut
<1> QED
  BY <1>1, <1>2, <1>3 DEF Next

LEMMA Invariance == Spec => []IInv
<1>1. IInv /\ [Next]_vars => IInv'
  BY NextInv, StutterInv
<1> QED
  BY <1>1, InitInv, PTL DEF Spec

\* The set-up keeps its types, and only lidars with an index ever sample.
THEOREM TypeCorrect == Spec => []TypeOK
<1>1. IInv => TypeOK
  BY DEF IInv
<1> QED
  BY <1>1, Invariance, PTL

\* A lidar samples only once it has carried out its whole configuration
\* (the four Set...Callback functions).
THEOREM SamplesAreConfigured == Spec => []SamplesConfigured
<1>1. IInv => SamplesConfigured
  BY DEF IInv
<1> QED
  BY <1>1, Invariance, PTL

\* A set bit has a request under way or a reported failure.
THEOREM BitsAreOutstanding == Spec => []BitsOutstanding
<1>1. IInv => BitsOutstanding
  BY DEF IInv
<1> QED
  BY <1>1, Invariance, PTL

-----------------------------------------------------------------------------
(* The driver.  The invariant of the set-up speaks of one that has begun:  *)
(* before that, and in a driver that never gets there, nothing has been    *)
(* set up.                                                                 *)

\* The parameters and the machine let the SDK start.
SdkGiven == settings.summary /\ settings.livox_type /\ settings.sdk

Begun == SdkGiven /\ stage \in {"callbacks", "running", "exiting", "ended", "reset"}

NothingSetUp == Quiet /\ known = {}

DInv ==
  /\ IF Begun THEN IInv ELSE NothingSetUp
  /\ stage = "failed" => ~SdkGiven

LEMMA DriverInitInv == DriverInit => DInv
  BY DEF DriverInit, DInv, Begun, NothingSetUp

\* As InitLivoxLidar ends, the set-up is where LidarConfig starts.
LEMMA InitPrimed == Init' => IInv'
  BY InitInv, PTL

\* A step that leaves the set-up alone and does not begin it
LEMMA ElsewhereInv ==
  ASSUME DInv, UNCHANGED vars, UNCHANGED settings, Begun' <=> Begun,
         stage' = "failed" => ~SdkGiven'
  PROVE  DInv'
<1>1. IInv => IInv'
  BY StutterInv
<1>2. NothingSetUp => NothingSetUp'
  BY DEF NothingSetUp, Quiet, vars, config, history
<1> QED
  BY <1>1, <1>2 DEF DInv

LEMMA InitLivoxLidarInv ==
  ASSUME DInv, InitLivoxLidar
  PROVE  DInv'
<1>1. NothingSetUp
  BY DEF DInv, Begun, InitLivoxLidar
<1>2. Init'
  BY <1>1 DEF NothingSetUp, Quiet, Init, InitLivoxLidar, config, history
<1>3. Begun' /\ stage' # "failed"
  BY DEF InitLivoxLidar, Begun, SdkGiven
<1> QED
  BY <1>2, <1>3, InitPrimed DEF DInv

\* The lidars are taken for disconnected: none of them samples any more.
LEMMA ResetLdsInv ==
  ASSUME DInv, ResetLds
  PROVE  DInv'
<1>1. (Begun' <=> Begun) /\ stage' # "failed"
  BY DEF ResetLds, Begun, SdkGiven
<1>2. ASSUME IInv PROVE IInv'
  BY <1>2 DEF IInv, ResetLds, history, TypeOK, PendingKnown, Covered, InSetUp, ToAsk,
              SamplesConfigured, BitsOutstanding, Config
<1>3. NothingSetUp => NothingSetUp'
  BY DEF NothingSetUp, Quiet, ResetLds, history
<1> QED
  BY <1>1, <1>2, <1>3 DEF DInv

LEMMA InDriverInv ==
  ASSUME DInv, InDriver(Next)
  PROVE  DInv'
<1>1. Begun /\ Begun' /\ stage' # "failed"
  BY DEF InDriver, SdkCalls, driver, Begun, SdkGiven
<1> QED
  BY <1>1, NextInv DEF DInv, InDriver

LEMMA DriverNextInv ==
  ASSUME DInv, [DriverNext]_driverVars
  PROVE  DInv'
<1>1. CASE DriverNode
  BY <1>1, ElsewhereInv DEF DriverNode, RegisterLds, Begun, SdkGiven
<1>2. CASE InitFails
  BY <1>2, ElsewhereInv DEF InitFails, Begun, SdkGiven
<1>3. CASE InitLivoxLidar
  BY <1>3, InitLivoxLidarInv
<1>4. CASE SkipLivoxLidar
  BY <1>4, ElsewhereInv DEF SkipLivoxLidar, Begun, SdkGiven
<1>5. CASE SetLidarPubHandle
  BY <1>5, ElsewhereInv DEF SetLidarPubHandle, Begun, SdkGiven
<1>6. CASE RequestExit
  BY <1>6, ElsewhereInv DEF RequestExit, Begun, SdkGiven, DInv
<1>7. CASE PrepareExit
  BY <1>7, ElsewhereInv DEF PrepareExit, DeInitLdsLidar, Begun, SdkGiven
<1>8. CASE ResetLds
  BY <1>8, ResetLdsInv
<1>9. CASE InDriver(Next)
  BY <1>9, InDriverInv
<1>10. CASE StoragePointData
  BY <1>10, ElsewhereInv DEF StoragePointData, driver, Begun, SdkGiven, DInv
<1>11. CASE \E h \in Lidars : StorageImuData(h)
  BY <1>11, ElsewhereInv DEF StorageImuData, driver, Begun, SdkGiven, DInv
<1>12. CASE \E d \in Data : Publish(d)
  BY <1>12, ElsewhereInv DEF Publish, driver, Begun, SdkGiven, DInv
<1>13. CASE UNCHANGED driverVars
  BY <1>13, ElsewhereInv DEF driverVars, driver, Begun, SdkGiven, DInv
<1> QED
  BY <1>1, <1>2, <1>3, <1>4, <1>5, <1>6, <1>7, <1>8, <1>9, <1>10, <1>11, <1>12, <1>13
     DEF DriverNext

LEMMA DriverInvariance == DriverSpec => []DInv
  BY DriverInitInv, DriverNextInv, PTL DEF DriverSpec

\* In the whole driver, too, a lidar samples only once it has carried out its
\* configuration (SetDataTypeCallback and its like), whatever fails at the start,
\* and none does when the program ends.
THEOREM DriverSamplesConfigured == DriverSpec => []SamplesConfigured
<1>1. DInv => SamplesConfigured
  BY DEF DInv, IInv, NothingSetUp, Quiet, SamplesConfigured
<1> QED
  BY <1>1, DriverInvariance, PTL

\* In the whole driver, too, a set bit has a request under way or a reported failure.
THEOREM DriverBitsOutstanding == DriverSpec => []BitsOutstanding
<1>1. DInv => BitsOutstanding
  BY DEF DInv, IInv, NothingSetUp, Quiet, BitsOutstanding
<1> QED
  BY <1>1, DriverInvariance, PTL

-----------------------------------------------------------------------------
(* The times of the messages.  What stands in a queue is decoded to itself,  *)
(* because two intervals of the slowest frequency are less than Wrap; so a   *)
(* message that takes the head of its queue leaves the whole as it was.      *)

Packets == {p \in Seq(Nat) : p # << >>}
PacketsOf(d) ==
  IF d[2] = "pcd" THEN {p \in Packets : \A j \in 1 .. Len(p) : p[j] - p[1] \in 0 .. Wrap - 1}
  ELSE Packets

Topics == Kinds \X (Lidars \cup {NoLidar, "all"})
Messages ==
  [type : Nat, topic : Topics, stamp : Nat, times : Seq(Nat)] \cup
  [type : Nat, topic : Topics, stamp : Nat, times : Seq(Nat), lidar_id : {0, Octet}]

StreamOK ==
  /\ settings \in Settings
  /\ handle \in [Lidars -> Lidars \cup {NoLidar}]
  /\ frames \in Nat /\ samples \in Nat
  /\ queue \in [Data -> Seq(Packets)]
  /\ \A d \in Data : queue[d] \in Seq(PacketsOf(d))
  /\ stored \in [Data -> Seq(Packets)]
  /\ published \in [Data -> Seq(Messages)]

\* The times a subscriber has got so far
Restored(d) == [i \in DOMAIN published[d] |-> Decoded(d, published[d][i])]

TInv == StreamOK /\ TimesRestored

\* A last element goes from the second part of a sequence to the whole.
LEMMA AppendToConcat ==
  ASSUME NEW S, NEW s \in Seq(S), NEW q \in Seq(S), NEW x \in S
  PROVE  s \o Append(q, x) = Append(s \o q, x)
<1>1. <<x>> \in Seq(S)
  OBVIOUS
<1>2. Append(q, x) = q \o <<x>>
  BY AppendIsConcat
<1>3. s \o q \in Seq(S)
  BY ConcatProperties
<1>4. Append(s \o q, x) = (s \o q) \o <<x>>
  BY <1>3, AppendIsConcat
<1> QED
  BY <1>1, <1>2, <1>4, ConcatAssociative

\* The head of the second part goes to the end of the first.
LEMMA HeadToFirst ==
  ASSUME NEW S, NEW s \in Seq(S), NEW q \in Seq(S), q # << >>
  PROVE  Append(s, Head(q)) \o Tail(q) = s \o q
<1>1. Head(q) \in S /\ Tail(q) \in Seq(S)
  BY HeadTailProperties
<1>2. <<Head(q)>> \in Seq(S)
  BY <1>1
<1>3. Append(s, Head(q)) = s \o <<Head(q)>>
  BY <1>1, AppendIsConcat
<1>4. <<Head(q)>> \o Tail(q) = q
  <2>1. /\ <<Head(q)>> \o Tail(q) \in Seq(S)
        /\ Len(<<Head(q)>> \o Tail(q)) = Len(<<Head(q)>>) + Len(Tail(q))
        /\ \A i \in 1 .. Len(<<Head(q)>>) + Len(Tail(q)) :
             (<<Head(q)>> \o Tail(q))[i] =
               IF i <= Len(<<Head(q)>>) THEN <<Head(q)>>[i] ELSE Tail(q)[i - Len(<<Head(q)>>)]
    BY <1>1, <1>2, ConcatProperties
  <2>2. /\ Len(q) \in Nat \ {0} /\ Len(Tail(q)) = Len(q) - 1
        /\ \A i \in 1 .. Len(Tail(q)) : Tail(q)[i] = q[i + 1]
    BY HeadTailProperties, EmptySeq
  <2>3. Len(<<Head(q)>>) = 1 /\ <<Head(q)>>[1] = q[1]
    BY <2>2
  <2>4. \A i \in 1 .. Len(q) : (<<Head(q)>> \o Tail(q))[i] = q[i]
    BY <2>1, <2>2, <2>3
  <2> QED
    BY <2>1, <2>2, <2>3, <2>4, SeqEqual
<1> QED
  BY <1>1, <1>2, <1>3, <1>4, ConcatAssociative

\* The slowest frequency the constructor lets through has an interval of 2 s.
LEMMA IntervalBound ==
  ASSUME settings \in Settings
  PROVE  Interval \in 1 .. 2000
<1>1. publish_freq \in 5 .. 1000
  BY SettingsAssumption DEF publish_freq, Clamped
<1>2. \A x \in 5 .. 1000 : 10000 \div x \in 1 .. 2000
  OBVIOUS
<1> QED
  BY <1>1, <1>2 DEF Interval

\* A message is decoded to the times of the packet that it was made of.
LEMMA DecodedMessage ==
  ASSUME NEW d \in Data, NEW p \in PacketsOf(d)
  PROVE  Decoded(d, Message(d, p)) = p
<1>1. p \in Seq(Nat) /\ p # << >>
  BY DEF PacketsOf, Packets
<1>2. Len(p) \in Nat \ {0} /\ DOMAIN p = 1 .. Len(p) /\ p \in [1 .. Len(p) -> Nat]
  BY <1>1, EmptySeq, LenProperties
<1>3. CASE d[2] = "pcd" /\ settings.xfer_format = kLivoxCustomMsg
  <2>1. \A j \in 1 .. Len(p) : p[1] + ((p[j] - p[1]) % Wrap) = p[j]
    <3> SUFFICES ASSUME NEW j \in 1 .. Len(p)
                 PROVE  p[1] + ((p[j] - p[1]) % Wrap) = p[j]
      OBVIOUS
    <3>1. p[j] \in Nat /\ p[1] \in Nat /\ p[j] - p[1] \in 0 .. Wrap - 1
      BY <1>2, <1>3 DEF PacketsOf
    <3>2. \A x \in 0 .. Wrap - 1 : x % Wrap = x
      BY DEF Wrap
    <3>3. (p[j] - p[1]) % Wrap = p[j] - p[1]
      BY <3>1, <3>2, Zenon
    <3> QED
      BY <3>1, <3>3, SMT
  <2>2. Message(d, p) = InitCustomMsg(d, p)
    BY <1>3 DEF Message
  <2> DEFINE times == [i \in 1 .. Len(p) |-> (p[i] - p[1]) % Wrap]
  <2>3. FillPointsToCustomMsg(p) = times
    BY <1>2 DEF FillPointsToCustomMsg
  <2>4. InitCustomMsg(d, p).times = times /\ InitCustomMsg(d, p).stamp = p[1]
    <3> HIDE DEF times
    <3> QED
      BY <2>3 DEF InitCustomMsg
  <2>5. Decoded(d, Message(d, p)) = [i \in DOMAIN times |-> p[1] + times[i]]
    <3> HIDE DEF times
    <3> QED
      BY <2>2, <2>4, <1>3 DEF Decoded
  <2>6. Decoded(d, Message(d, p)) = [i \in 1 .. Len(p) |-> p[i]]
    BY <2>5, <2>1
  <2> QED
    BY <2>6, <1>2
<1>4. CASE ~(d[2] = "pcd" /\ settings.xfer_format = kLivoxCustomMsg)
  <2>1. Message(d, p).times = p
    BY <1>4 DEF Message, InitImuMsg, InitPointcloud2Msg, Data, Kinds
  <2> QED
    BY <2>1, <1>4 DEF Decoded
<1> QED
  BY <1>3, <1>4

\* Its fields have the types that Messages says.
LEMMA MessageType ==
  ASSUME StreamOK, NEW d \in Data, NEW p \in PacketsOf(d)
  PROVE  Message(d, p) \in Messages
<1>1. p \in Seq(Nat) /\ p[1] \in Nat /\ DOMAIN p = 1 .. Len(p) /\ Len(p) \in Nat
  <2>1. p \in Seq(Nat) /\ p # << >>
    BY DEF PacketsOf, Packets
  <2> QED
    BY <2>1, EmptySeq, LenProperties
<1>2. Topic(d) \in Topics
  BY DEF Topic, Topics, Data, StreamOK
<1>3. FillPointsToCustomMsg(p) \in Seq(Nat)
  <2>1. \A i \in 1 .. Len(p) : (p[i] - p[1]) % Wrap \in Nat
    <3> SUFFICES ASSUME NEW i \in 1 .. Len(p) PROVE (p[i] - p[1]) % Wrap \in Nat
      OBVIOUS
    <3>1. p[i] \in Nat
      BY <1>1
    <3> QED
      BY <1>1, <3>1 DEF Wrap
  <2>2. FillPointsToCustomMsg(p) = [i \in 1 .. Len(p) |-> (p[i] - p[1]) % Wrap]
    BY <1>1 DEF FillPointsToCustomMsg
  <2> QED
    BY <1>1, <2>1, <2>2, IsASeq
<1>4. InitImuMsg(d, p) \in Messages /\ InitPointcloud2Msg(d, p) \in Messages
  BY <1>1, <1>2 DEF InitImuMsg, InitPointcloud2Msg, Messages, kLivoxImuMsg, kPointCloud2Msg
<1>5. InitCustomMsg(d, p) \in Messages
  BY <1>1, <1>2, <1>3 DEF InitCustomMsg, Messages, kLivoxCustomMsg
<1> QED
  BY <1>4, <1>5 DEF Message

\* A step that leaves the streams alone leaves what has been restored alone.
LEMMA StreamStays ==
  ASSUME TInv, UNCHANGED <<settings, stream>>, stage' = "reset" \/ stage # "reset" \/ stage' = stage,
         handle' \in [Lidars -> Lidars \cup {NoLidar}]
  PROVE  TInv'
<1>1. StreamOK'
  BY DEF TInv, StreamOK, stream
<1>2. TimesRestored'
  BY DEF TInv, TimesRestored, stream, Decoded
<1> QED
  BY <1>1, <1>2 DEF TInv

LEMMA ResetStream ==
  ASSUME TInv, ResetLds
  PROVE  TInv'
<1>1. \A d \in Data : queue'[d] = << >>
  BY DEF ResetLds, DeInitQueue, Clear
<1>2. queue' \in [Data -> Seq(Packets)] /\ \A d \in Data : queue'[d] \in Seq(PacketsOf(d))
  BY DEF ResetLds, DeInitQueue, Clear
<1>3. StreamOK'
  BY <1>2 DEF TInv, StreamOK, ResetLds, PacketsOf
<1> QED
  BY <1>3 DEF TInv, TimesRestored, ResetLds

\* Everything a lidar's subscriber has got is a sequence of these.
Times(d) == Packets \cup {Decoded(d, m) : m \in Messages}

LEMMA RestoredSeq ==
  ASSUME StreamOK, NEW d \in Data
  PROVE  /\ Restored(d) \in Seq(Times(d)) /\ Len(Restored(d)) = Len(published[d])
         /\ queue[d] \in Seq(Times(d)) /\ stored[d] \in Seq(Times(d))
<1>1. published[d] \in Seq(Messages) /\ queue[d] \in Seq(Packets) /\ stored[d] \in Seq(Packets)
  BY DEF StreamOK
<1>2. /\ Len(published[d]) \in Nat /\ DOMAIN published[d] = 1 .. Len(published[d])
      /\ \A i \in 1 .. Len(published[d]) : published[d][i] \in Messages
  BY <1>1, LenProperties, ElementOfSeq
<1>3. Restored(d) = [i \in 1 .. Len(published[d]) |-> Decoded(d, published[d][i])]
  BY <1>2 DEF Restored
<1>4. \A i \in 1 .. Len(published[d]) : Decoded(d, published[d][i]) \in Times(d)
  BY <1>2 DEF Times
<1>5. Restored(d) \in Seq(Times(d))
  BY <1>2, <1>3, <1>4, IsASeq
<1>6. Len(Restored(d)) = Len(published[d])
  BY <1>2, <1>3, <1>5, LenProperties
<1>7. Packets \subseteq Times(d)
  BY DEF Times
<1> QED
  BY <1>1, <1>5, <1>6, <1>7, SeqMonotonic

\* What enters a queue enters the history with it, and leaves the rest alone.
LEMMA StoredTogether ==
  ASSUME TInv, UNCHANGED <<settings, stage, handle, published>>,
         frames' \in Nat, samples' \in Nat,
         queue' \in [Data -> Seq(Packets)], stored' \in [Data -> Seq(Packets)],
         \A d \in Data :
           \/ queue'[d] = queue[d] /\ stored'[d] = stored[d]
           \/ \E p \in PacketsOf(d) :
                queue'[d] = Append(queue[d], p) /\ stored'[d] = Append(stored[d], p)
  PROVE  TInv'
<1>1. \A d \in Data : queue'[d] \in Seq(PacketsOf(d))
  <2> SUFFICES ASSUME NEW d \in Data, NEW p \in PacketsOf(d), queue'[d] = Append(queue[d], p)
               PROVE  queue'[d] \in Seq(PacketsOf(d))
    BY DEF TInv, StreamOK
  <2>1. queue[d] \in Seq(PacketsOf(d))
    BY DEF TInv, StreamOK
  <2> QED
    BY <2>1, AppendProperties
<1>2. StreamOK'
  BY <1>1 DEF TInv, StreamOK, PacketsOf
<1>3. TimesRestored'
  <2> SUFFICES ASSUME settings.output_type = kOutputToRos, stage # "reset", NEW d \in Data
               PROVE  Restored(d) \o queue'[d] = stored'[d]
    BY DEF TimesRestored, Restored, Decoded
  <2>1. Restored(d) \o queue[d] = stored[d]
    BY DEF TInv, TimesRestored, Restored
  <2>2. CASE queue'[d] = queue[d] /\ stored'[d] = stored[d]
    BY <2>1, <2>2
  <2>3. ASSUME NEW p \in PacketsOf(d),
               queue'[d] = Append(queue[d], p), stored'[d] = Append(stored[d], p)
        PROVE  Restored(d) \o queue'[d] = stored'[d]
    <3>1. p \in Times(d)
      BY DEF Times, PacketsOf
    <3>2. Restored(d) \in Seq(Times(d)) /\ queue[d] \in Seq(Times(d))
      BY RestoredSeq DEF TInv
    <3>3. Restored(d) \o Append(queue[d], p) = Append(Restored(d) \o queue[d], p)
      BY <3>1, <3>2, AppendToConcat
    <3> QED
      BY <2>1, <2>3, <3>3
  <2> QED
    BY <2>2, <2>3
<1> QED
  BY <1>2, <1>3 DEF TInv

\* The items of a push are packets of queues that there are.
LEMMA PushStream ==
  ASSUME TInv, NEW items, DOMAIN items \subseteq Data,
         \A d \in DOMAIN items : items[d] \in PacketsOf(d), Push(items)
  PROVE  /\ queue' \in [Data -> Seq(Packets)] /\ stored' \in [Data -> Seq(Packets)]
         /\ \A d \in Data :
              \/ queue'[d] = queue[d] /\ stored'[d] = stored[d]
              \/ \E p \in PacketsOf(d) :
                   queue'[d] = Append(queue[d], p) /\ stored'[d] = Append(stored[d], p)
<1>1. /\ queue' = [d \in Data |-> IF d \in DOMAIN items /\ Accepts(d)
                                    THEN Append(queue[d], items[d]) ELSE queue[d]]
      /\ stored' = [d \in Data |-> IF d \in DOMAIN items /\ Accepts(d)
                                     THEN Append(stored[d], items[d]) ELSE stored[d]]
  BY DEF Push
<1>2. \A d \in Data : queue[d] \in Seq(Packets) /\ stored[d] \in Seq(Packets)
  BY DEF TInv, StreamOK
<1>3. \A d \in DOMAIN items : items[d] \in Packets
  BY DEF PacketsOf
<1>4. \A d \in DOMAIN items : /\ Append(queue[d], items[d]) \in Seq(Packets)
                              /\ Append(stored[d], items[d]) \in Seq(Packets)
  BY <1>2, <1>3, AppendProperties
<1>5. queue' \in [Data -> Seq(Packets)] /\ stored' \in [Data -> Seq(Packets)]
  BY <1>1, <1>2, <1>4
<1>6. ASSUME NEW d \in Data, d \in DOMAIN items, Accepts(d)
      PROVE  /\ items[d] \in PacketsOf(d)
             /\ queue'[d] = Append(queue[d], items[d]) /\ stored'[d] = Append(stored[d], items[d])
  BY <1>1, <1>6
<1>7. ASSUME NEW d \in Data, ~(d \in DOMAIN items /\ Accepts(d))
      PROVE  queue'[d] = queue[d] /\ stored'[d] = stored[d]
  BY <1>1, <1>7
<1> QED
  BY <1>5, <1>6, <1>7

\* A frame spans two intervals at most: fewer milliseconds than Wrap.
LEMMA StoragePointDataStream ==
  ASSUME TInv, StoragePointData
  PROVE  TInv'
<1>1. PICK heard \in SUBSET Lidars \ {{}} :
        Push([d \in heard \X {"pcd"} |->
                LET base_time == frames * Interval
                IN  <<base_time, base_time + 2 * Interval - 1>>])
  BY DEF StoragePointData
<1> DEFINE frame == <<frames * Interval, frames * Interval + 2 * Interval - 1>>
           items == [d \in heard \X {"pcd"} |-> frame]
<1>2. Interval \in 1 .. 2000 /\ frames \in Nat
  BY IntervalBound DEF TInv, StreamOK
<1>3. frames * Interval \in Nat
  BY <1>2
<1>4. \A b \in Nat, v \in 1 .. 2000 :
        /\ <<b, b + 2 * v - 1>> \in Seq(Nat) /\ <<b, b + 2 * v - 1>> # << >>
        /\ \A j \in 1 .. 2 : <<b, b + 2 * v - 1>>[j] - b \in 0 .. Wrap - 1
  BY DEF Wrap
<1>5. frame \in Packets /\ Len(frame) = 2 /\ \A j \in 1 .. 2 : frame[j] - frame[1] \in 0 .. Wrap - 1
  BY <1>2, <1>3, <1>4 DEF Packets
<1>6. DOMAIN items \subseteq Data /\ \A d \in DOMAIN items : items[d] \in PacketsOf(d)
  <2> HIDE DEF frame
  <2> QED
    BY <1>5 DEF PacketsOf, Data, Kinds
<1>7. Push(items)
  BY <1>1
<1> HIDE DEF items
<1>8. UNCHANGED <<settings, stage, handle, published>> /\ frames' \in Nat /\ samples' \in Nat
  BY <1>2 DEF StoragePointData, driver, TInv, StreamOK
<1> QED
  BY <1>6, <1>7, <1>8, PushStream, StoredTogether

LEMMA StorageImuDataStream ==
  ASSUME TInv, NEW h \in Lidars, StorageImuData(h)
  PROVE  TInv'
<1>1. /\ UNCHANGED <<settings, stage, handle, published, frames>>
      /\ samples \in Nat /\ samples' = samples + 1 /\ frames \in Nat
  BY DEF StorageImuData, driver, TInv, StreamOK
<1> DEFINE sample == <<samples>>
           at == <<h, "imu">>
<1>2. sample \in PacketsOf(at) /\ sample \in Packets /\ at \in Data
  BY <1>1 DEF PacketsOf, Packets, Data, Kinds
<1>3. \A d \in Data : queue[d] \in Seq(Packets) /\ stored[d] \in Seq(Packets)
  BY DEF TInv, StreamOK
<1>4. queue \in [Data -> Seq(Packets)] /\ stored \in [Data -> Seq(Packets)]
  BY DEF TInv, StreamOK
<1>5. CASE h \in known
  <2>1. /\ queue' = [queue EXCEPT ![at] = Append(@, sample)]
        /\ stored' = [stored EXCEPT ![at] = Append(@, sample)]
    BY <1>5 DEF StorageImuData, PushImu
  <2> HIDE DEF sample, at
  <2>2. Append(queue[at], sample) \in Seq(Packets) /\ Append(stored[at], sample) \in Seq(Packets)
    BY <1>2, <1>3, AppendProperties
  <2>3. queue' \in [Data -> Seq(Packets)] /\ stored' \in [Data -> Seq(Packets)]
    BY <1>4, <2>1, <2>2
  <2>4. \A d \in Data :
          \/ queue'[d] = queue[d] /\ stored'[d] = stored[d]
          \/ \E p \in PacketsOf(d) :
               queue'[d] = Append(queue[d], p) /\ stored'[d] = Append(stored[d], p)
    BY <1>2, <1>4, <2>1
  <2> QED
    BY <1>1, <2>3, <2>4, StoredTogether
<1>6. CASE h \notin known
  <2>1. UNCHANGED <<queue, stored>>
    BY <1>6 DEF StorageImuData
  <2> QED
    BY <1>1, <1>4, <2>1, StoredTogether
<1> QED
  BY <1>5, <1>6

\* A poll thread that can publish its data publishes what it takes.
LEMMA PublishStream ==
  ASSUME TInv, NEW d \in Data, Publish(d)
  PROVE  TInv'
<1> DEFINE p == Head(queue[d])
           m == Message(d, p)
<1>1. queue[d] \in Seq(PacketsOf(d)) /\ queue[d] # << >> /\ StreamOK
  BY DEF TInv, StreamOK, Publish, Polled
<1>2. p \in PacketsOf(d) /\ Tail(queue[d]) \in Seq(PacketsOf(d))
  BY <1>1, HeadTailProperties
<1>3. m \in Messages
  BY <1>1, <1>2, MessageType
<1>4. Decoded(d, m) = p
  BY <1>2, DecodedMessage
<1>5. CreatePublisher(m.type)
  BY DEF CreatePublisher, Message, InitImuMsg, InitCustomMsg, InitPointcloud2Msg
<1>6. /\ queue' = [queue EXCEPT ![d] = Tail(@)]
      /\ published' = IF settings.output_type = kOutputToRos
                        THEN [published EXCEPT ![d] = Append(@, m)] ELSE published
      /\ UNCHANGED <<settings, stage, handle, frames, samples, stored>>
  BY <1>5 DEF Publish, Popped, driver
<1> HIDE DEF p, m
<1>7. /\ queue' \in [Data -> Seq(Packets)]
      /\ \A e \in Data : queue'[e] \in Seq(PacketsOf(e))
      /\ published' \in [Data -> Seq(Messages)]
  <2>1. Tail(queue[d]) \in Seq(Packets)
    BY <1>1, HeadTailProperties DEF StreamOK
  <2>2. Append(published[d], m) \in Seq(Messages)
    BY <1>1, <1>3, AppendProperties DEF StreamOK
  <2>3. queue \in [Data -> Seq(Packets)] /\ published \in [Data -> Seq(Messages)]
        /\ \A e \in Data : queue[e] \in Seq(PacketsOf(e))
    BY <1>1 DEF StreamOK
  <2> QED
    BY <1>2, <1>6, <2>1, <2>2, <2>3
<1>8. StreamOK'
  BY <1>1, <1>6, <1>7 DEF StreamOK, PacketsOf
<1>9. ASSUME settings.output_type = kOutputToRos, stage # "reset", NEW e \in Data
      PROVE  [i \in DOMAIN published'[e] |-> Decoded(e, published'[e][i])] \o queue'[e] = stored[e]
  <2>1. Restored(e) \o queue[e] = stored[e]
    BY <1>9 DEF TInv, TimesRestored, Restored
  <2>2. CASE e # d
    BY <1>1, <1>6, <2>1, <2>2 DEF Restored, StreamOK
  <2>3. CASE e = d
    <3>1. published'[d] = Append(published[d], m) /\ queue'[d] = Tail(queue[d])
      BY <1>1, <1>6, <1>9 DEF StreamOK
    <3>2. /\ Restored(d) \in Seq(Times(d)) /\ Len(Restored(d)) = Len(published[d])
          /\ queue[d] \in Seq(Times(d))
      BY <1>1, RestoredSeq
    <3>3. [i \in DOMAIN published'[d] |-> Decoded(d, published'[d][i])] = Append(Restored(d), p)
      <4> DEFINE n == Len(published[d])
      <4>1. published[d] \in Seq(Messages) /\ n \in Nat
        BY <1>1, LenProperties DEF StreamOK
      <4>2. /\ Len(Append(published[d], m)) = n + 1 /\ Append(published[d], m)[n + 1] = m
            /\ DOMAIN Append(published[d], m) = 1 .. n + 1
            /\ \A i \in 1 .. n : Append(published[d], m)[i] = published[d][i]
        BY <1>3, <4>1, AppendProperties, LenProperties
      <4>3. Restored(d) = [i \in 1 .. n |-> Decoded(d, published[d][i])]
        BY <4>1, LenProperties DEF Restored
      <4>4. p \in Times(d)
        BY <1>2 DEF PacketsOf, Times
      <4>5. /\ Append(Restored(d), p) \in Seq(Times(d)) /\ Append(Restored(d), p)[n + 1] = p
            /\ Len(Append(Restored(d), p)) = n + 1
            /\ \A i \in 1 .. n : Append(Restored(d), p)[i] = Restored(d)[i]
        BY <3>2, <4>1, <4>4, AppendProperties
      <4> DEFINE new == [i \in 1 .. n + 1 |-> Decoded(d, Append(published[d], m)[i])]
      <4>6. [i \in DOMAIN published'[d] |-> Decoded(d, published'[d][i])] = new
        BY <3>1, <4>2
      <4>7. \A i \in 1 .. n + 1 : new[i] = Append(Restored(d), p)[i]
        <5> SUFFICES ASSUME NEW i \in 1 .. n + 1
                     PROVE  Decoded(d, Append(published[d], m)[i]) = Append(Restored(d), p)[i]
          OBVIOUS
        <5>1. CASE i = n + 1
          BY <1>4, <4>2, <4>5, <5>1
        <5>2. CASE i # n + 1
          <6>1. i \in 1 .. n
            BY <4>1, <5>2
          <6> QED
            BY <4>2, <4>3, <4>5, <6>1
        <5> QED
          BY <5>1, <5>2
      <4>8. Append(Restored(d), p) = [i \in 1 .. n + 1 |-> Append(Restored(d), p)[i]]
        BY <4>1, <4>5, LenProperties
      <4> QED
        BY <4>6, <4>7, <4>8
    <3>4. Append(Restored(d), Head(queue[d])) \o Tail(queue[d]) = Restored(d) \o queue[d]
      BY <1>1, <3>2, HeadToFirst
    <3> QED
      BY <2>1, <2>3, <3>1, <3>3, <3>4 DEF p
  <2> QED
    BY <2>2, <2>3
<1>10. TimesRestored'
  <2>1. \A e \in Data : \A i : Decoded(e, published[e][i])' = Decoded(e, published'[e][i])
    BY <1>6 DEF Decoded
  <2> SUFFICES ASSUME settings.output_type = kOutputToRos, stage # "reset", NEW e \in Data
               PROVE  [i \in DOMAIN published'[e] |-> Decoded(e, published[e][i])'] \o queue'[e]
                        = stored[e]
    BY <1>6 DEF TimesRestored
  <2> QED
    BY <1>9, <2>1
<1> QED
  BY <1>8, <1>10 DEF TInv

LEMMA StreamInit == DriverInit => TInv
<1> SUFFICES ASSUME DriverInit PROVE TInv
  OBVIOUS
<1>1. StreamOK
  BY DEF DriverInit, StreamOK
<1>2. ASSUME NEW d \in Data
      PROVE  Restored(d) \o queue[d] = stored[d]
  <2>1. published[d] = << >> /\ queue[d] = << >> /\ stored[d] = << >>
    BY DEF DriverInit
  <2>2. Restored(d) \in Seq(Times(d)) /\ Len(Restored(d)) = 0
    BY <1>1, <2>1, RestoredSeq
  <2>3. Restored(d) = << >>
    BY <2>2, EmptySeq
  <2> QED
    BY <2>1, <2>3
<1> QED
  BY <1>1, <1>2 DEF TInv, TimesRestored, Restored

LEMMA StreamNext ==
  ASSUME TInv, [DriverNext]_driverVars
  PROVE  TInv'
<1>0. handle \in [Lidars -> Lidars \cup {NoLidar}]
  BY DEF TInv, StreamOK
<1>1. CASE DriverNode
  BY <1>0, <1>1, StreamStays DEF DriverNode, RegisterLds
<1>2. CASE InitFails
  BY <1>0, <1>2, StreamStays DEF InitFails
<1>3. CASE InitLivoxLidar
  <2>1. handle' \in [Lidars -> Lidars \cup {NoLidar}]
    BY <1>0, <1>3 DEF InitLivoxLidar
  <2> QED
    BY <1>3, <2>1, StreamStays DEF InitLivoxLidar
<1>4. CASE SkipLivoxLidar
  BY <1>0, <1>4, StreamStays DEF SkipLivoxLidar
<1>5. CASE SetLidarPubHandle
  BY <1>0, <1>5, StreamStays DEF SetLidarPubHandle
<1>6. CASE RequestExit
  BY <1>0, <1>6, StreamStays DEF RequestExit
<1>7. CASE PrepareExit
  BY <1>0, <1>7, StreamStays DEF PrepareExit, DeInitLdsLidar
<1>8. CASE ResetLds
  BY <1>8, ResetStream
<1>9. CASE InDriver(Next)
  BY <1>0, <1>9, StreamStays DEF InDriver, driver
<1>10. CASE StoragePointData
  BY <1>10, StoragePointDataStream
<1>11. CASE \E h \in Lidars : StorageImuData(h)
  BY <1>11, StorageImuDataStream
<1>12. CASE \E d \in Data : Publish(d)
  BY <1>12, PublishStream
<1>13. CASE UNCHANGED driverVars
  BY <1>0, <1>13, StreamStays DEF driverVars, driver
<1> QED
  BY <1>1, <1>2, <1>3, <1>4, <1>5, <1>6, <1>7, <1>8, <1>9, <1>10, <1>11, <1>12, <1>13
     DEF DriverNext

\* From the Lds to the subscribers (StoragePointData, StorageImuData, PollingLidarPointCloudData,
\* PollingLidarImuData): for any frequency, format and topics the times in the
\* messages of a lidar are those that were stored for it, and the rest are still queued.
THEOREM DriverTimesRestored == DriverSpec => []TimesRestored
<1>1. DriverSpec => []TInv
  BY StreamInit, StreamNext, PTL DEF DriverSpec
<1> QED
  BY <1>1, PTL DEF TInv
=============================================================================
