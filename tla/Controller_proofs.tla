-------------------------- MODULE Controller_proofs --------------------------
(***************************************************************************)
(* The two nodes of the controller, and the line to the MCU.               *)
(*                                                                         *)
(* The safety properties of SerialBridge hold for every set of positions.  *)
(* PortKnown speaks of the executor between two callbacks; it is carried   *)
(* through a callback by what each step of _retry_serial has left behind.  *)
(*                                                                         *)
(* R2Main never runs ahead of the robot, for every depth of the topic, any *)
(* number of requests and restarts.  The invariant follows the claim back  *)
(* along the way it takes: what R2Main believes, the state it last heard,  *)
(* and the states still on their way were all reported by the MCU.         *)
(*                                                                         *)
(* The routes it plans collect every target, whatever the targets.  The    *)
(* second part goes along the code: each block is reached, the block       *)
(* before it is next to it and one step nearer, so a shortest path is a    *)
(* path; the nearest target is one, so a route goes on till none is left;  *)
(* and nothing is there to dedup.                                          *)
(*                                                                         *)
(* Over Link the messages arrive in order, for every size of a byte and of *)
(* the items, every message and every number of frames.  A checksum made   *)
(* of one-to-one steps tells two frames apart that differ in one byte; the *)
(* bytes under way are those of the frames sent, from some place on; and   *)
(* the parsers are at the beginning of a frame, in one that began right,   *)
(* or in the rest of one that is too long for the MCU.                     *)
(*                                                                         *)
(* After one byte was changed or lost the parsers are at the beginning of  *)
(* a frame, in the damaged one, or in one near enough for the longest wait *)
(* to reach.  Bytes behind the damage are whole frames again, so what was  *)
(* not heard of later frames follows by counting them (Resynchronises).    *)
(***************************************************************************)
EXTENDS SerialBridge, R2Main, Link, TLAPS, NaturalsInduction, SequenceTheorems,
        FiniteSetTheorems, WellFoundedInduction

-----------------------------------------------------------------------------
(* SerialBridge *)

InUse == {"open", "stale"}

\* What the steps of the executor know of the port and of serial_ok: the
\* receive thread only ever clears the flag, and the device only turns an open
\* port into a stale one.
PortInv ==
  /\ epc \in {"spin", "zero"} /\ serial_ok => ser \in InUse
  /\ epc = "opened" => ser \in InUse
  /\ epc = "scan" => ~serial_ok

\* The type invariant in two parts: its flags, and the rest.
FlagsOK ==
  /\ present \in BOOLEAN /\ samePath \in BOOLEAN /\ signal \in BOOLEAN
  /\ serial_ok \in BOOLEAN /\ was_lost \in BOOLEAN /\ fired \in BOOLEAN
  /\ reset_detected \in BOOLEAN /\ running \in BOOLEAN

ValuesOK ==
  /\ ser \in {None, "open", "stale", "closed"}
  /\ lastFrame \in {"never", "recent", "stale"}
  /\ offset \in Poses \cup {NoOrigin} /\ raw \in Poses \cup {0} /\ latest \in Int
  /\ epc \in {"spin", "zero", "close", "forget", "notok", "scan", "opened", "down"}
  /\ rpc \in {"top", "isopen", "inwaiting", "read", "frame", "zero", "error",
              "lost", "dead", "done"}
  /\ fires \in 0 .. 2

BridgeIInv == TypeOK /\ PortInv /\ PoseRelative /\ HeartbeatQuietAtStart

\* All steps but those of BridgeNext's two groups, in one list.
LEMMA Steps ==
  ASSUME BridgeNext
  PROVE  \/ odom_cb \/ send_odom \/ _check_reset \/ RetryLost \/ RetryScan
         \/ RetryClose \/ RetryForget \/ RetryNotOk \/ RetryOpened \/ ZeroOrigin
         \/ destroy
         \/ RxTop \/ RxIsOpen \/ RxInWaiting \/ RxReadFails \/ RxRead \/ RxReadSignal
         \/ RxZeroOrigin \/ RxFrame \/ RxError \/ RxLost
         \/ Unplug \/ Replug \/ MCUReset \/ FrameAges
  BY DEF BridgeNext, _retry_serial, RetrySteps, RxStep

LEMMA TypeParts == TypeOK <=> FlagsOK /\ ValuesOK
  BY DEF TypeOK, FlagsOK, ValuesOK

LEMMA BridgeInitInv == BridgeInit => BridgeIInv
<1> SUFFICES ASSUME BridgeInit PROVE BridgeIInv
  OBVIOUS
<1>1. FlagsOK
  BY ExternalAssumption, Zenon DEF BridgeInit, _init_serial, FlagsOK
<1>2. ValuesOK
  BY ExternalAssumption DEF BridgeInit, _init_serial, ValuesOK, None
<1>3. PortInv
  BY ExternalAssumption DEF BridgeInit, _init_serial, PortInv, InUse, None
<1>4. PoseRelative /\ HeartbeatQuietAtStart
  BY DEF BridgeInit, PoseRelative, HeartbeatQuietAtStart
<1> QED
  BY <1>1, <1>2, <1>3, <1>4, TypeParts DEF BridgeIInv

\* The flags stay Boolean.
LEMMA FlagsStep == FlagsOK /\ [BridgeNext]_bridgeVars => FlagsOK'
<1> SUFFICES ASSUME FlagsOK, [BridgeNext]_bridgeVars PROVE FlagsOK'
  OBVIOUS
<1> USE DEF FlagsOK, bridgeEnv, port, pose
<1>1. CASE odom_cb
  BY <1>1, Zenon DEF odom_cb
<1>2. CASE send_odom
  BY <1>2, Zenon DEF send_odom
<1>3. CASE _check_reset
  BY <1>3, Zenon DEF _check_reset, HeartbeatDue
<1>4. CASE RetryLost
  BY <1>4, Zenon DEF RetryLost
<1>5. CASE RetryScan
  BY <1>5, Zenon DEF RetryScan
<1>6. CASE RetryClose
  BY <1>6, Zenon DEF RetryClose
<1>7. CASE RetryForget
  BY <1>7, Zenon DEF RetryForget
<1>8. CASE RetryNotOk
  BY <1>8, Zenon DEF RetryNotOk
<1>9. CASE RetryOpened
  BY <1>9, Zenon DEF RetryOpened
<1>10. CASE ZeroOrigin
  BY <1>10, Zenon DEF ZeroOrigin, DropOrigin
<1>11. CASE destroy
  BY <1>11, Zenon DEF destroy
<1>12. CASE RxTop
  BY <1>12, Zenon DEF RxTop, RxUnchanged
<1>13. CASE RxIsOpen
  BY <1>13, Zenon DEF RxIsOpen, RxUnchanged
<1>14. CASE RxInWaiting
  BY <1>14, Zenon DEF RxInWaiting, RxUnchanged
<1>15. CASE RxReadFails
  BY <1>15, Zenon DEF RxReadFails, RxUnchanged
<1>16. CASE RxRead
  BY <1>16, Zenon DEF RxRead, RxUnchanged
<1>17. CASE RxReadSignal
  BY <1>17, Zenon DEF RxReadSignal, RxUnchanged
<1>18. CASE RxZeroOrigin
  BY <1>18, Zenon DEF RxZeroOrigin, RxUnchanged, DropOrigin
<1>19. CASE RxFrame
  BY <1>19, Zenon DEF RxFrame, RxUnchanged
<1>20. CASE RxError
  BY <1>20, Zenon DEF RxError, RxUnchanged
<1>21. CASE RxLost
  BY <1>21, Zenon DEF RxLost, RxUnchanged
<1>22. CASE Unplug
  BY <1>22, Zenon DEF Unplug, EnvUnchanged
<1>23. CASE Replug
  BY <1>23, Zenon DEF Replug, EnvUnchanged
<1>24. CASE MCUReset
  BY <1>24, Zenon DEF MCUReset, EnvUnchanged
<1>25. CASE FrameAges
  BY <1>25, Zenon DEF FrameAges, EnvUnchanged
<1>26. CASE UNCHANGED bridgeVars
  BY <1>26, Zenon DEF bridgeVars
<1> QED
  BY <1>1, <1>2, <1>3, <1>4, <1>5, <1>6, <1>7, <1>8, <1>9, <1>10, <1>11, <1>12, <1>13,
     <1>14, <1>15, <1>16, <1>17, <1>18, <1>19, <1>20, <1>21, <1>22, <1>23, <1>24, <1>25,
     <1>26, Steps

\* The rest is inductive.
LEMMA ValuesStep ==
  BridgeIInv /\ [BridgeNext]_bridgeVars
    => ValuesOK' /\ PortInv' /\ PoseRelative' /\ HeartbeatQuietAtStart'
<1> SUFFICES ASSUME BridgeIInv, [BridgeNext]_bridgeVars
             PROVE  ValuesOK' /\ PortInv' /\ PoseRelative' /\ HeartbeatQuietAtStart'
  OBVIOUS
<1> USE DEF BridgeIInv, TypeOK, ValuesOK, PortInv, PoseRelative, HeartbeatQuietAtStart, InUse,
            None, bridgeEnv, port, pose
<1>1. CASE odom_cb
  <2>1. PICK x \in Poses :
          /\ raw' = x
          /\ offset' = IF offset = NoOrigin THEN x ELSE offset
          /\ latest' = x - offset'
    BY <1>1 DEF odom_cb
  <2>2. x \in Int /\ offset' \in Poses /\ offset' \in Int
    BY <2>1, PosesAssumption
  <2>3. latest' \in Int
    BY <2>1, <2>2
  <2>4. UNCHANGED <<ser, serial_ok, epc, lastFrame, rpc, fires>>
    BY <1>1 DEF odom_cb
  <2> QED
    BY <2>1, <2>2, <2>3, <2>4
<1>2. CASE send_odom
  BY <1>2 DEF send_odom
<1>3. CASE _check_reset
  BY <1>3 DEF _check_reset, HeartbeatDue
<1>4. CASE RetryLost
  BY <1>4 DEF RetryLost
<1>5. CASE RetryScan
  BY <1>5 DEF RetryScan
<1>6. CASE RetryClose
  BY <1>6 DEF RetryClose
<1>7. CASE RetryForget
  BY <1>7 DEF RetryForget
<1>8. CASE RetryNotOk
  BY <1>8 DEF RetryNotOk
<1>9. CASE RetryOpened
  BY <1>9 DEF RetryOpened
<1>10. CASE ZeroOrigin
  BY <1>10, PosesAssumption DEF ZeroOrigin, DropOrigin
<1>11. CASE destroy
  BY <1>11 DEF destroy
<1>12. CASE RxTop
  BY <1>12 DEF RxTop, RxUnchanged
<1>13. CASE RxIsOpen
  BY <1>13 DEF RxIsOpen, RxUnchanged
<1>14. CASE RxInWaiting
  BY <1>14 DEF RxInWaiting, RxUnchanged
<1>15. CASE RxReadFails
  BY <1>15 DEF RxReadFails, RxUnchanged
<1>16. CASE RxRead
  BY <1>16 DEF RxRead, RxUnchanged
<1>17. CASE RxReadSignal
  BY <1>17 DEF RxReadSignal, RxUnchanged
<1>18. CASE RxZeroOrigin
  BY <1>18, PosesAssumption DEF RxZeroOrigin, RxUnchanged, DropOrigin
<1>19. CASE RxFrame
  BY <1>19 DEF RxFrame, RxUnchanged
<1>20. CASE RxError
  BY <1>20 DEF RxError, RxUnchanged
<1>21. CASE RxLost
  BY <1>21 DEF RxLost, RxUnchanged
<1>22. CASE Unplug
  BY <1>22 DEF Unplug, EnvUnchanged
<1>23. CASE Replug
  BY <1>23 DEF Replug, EnvUnchanged
<1>24. CASE MCUReset
  BY <1>24 DEF MCUReset, EnvUnchanged
<1>25. CASE FrameAges
  BY <1>25 DEF FrameAges, EnvUnchanged
<1>26. CASE UNCHANGED bridgeVars
  BY <1>26 DEF bridgeVars
<1> QED
  BY <1>1, <1>2, <1>3, <1>4, <1>5, <1>6, <1>7, <1>8, <1>9, <1>10, <1>11, <1>12, <1>13,
     <1>14, <1>15, <1>16, <1>17, <1>18, <1>19, <1>20, <1>21, <1>22, <1>23, <1>24, <1>25,
     <1>26, Steps

LEMMA BridgeStepInv == BridgeIInv /\ [BridgeNext]_bridgeVars => BridgeIInv'
<1>1. BridgeIInv => FlagsOK
  BY TypeParts DEF BridgeIInv
<1>2. FlagsOK' /\ ValuesOK' => TypeOK'
  BY DEF TypeOK, FlagsOK, ValuesOK
<1> QED
  BY <1>1, <1>2, FlagsStep, ValuesStep DEF BridgeIInv

LEMMA BridgeInvariant == BridgeSpec => []BridgeIInv
  BY BridgeInitInv, BridgeStepInv, PTL DEF BridgeSpec

\* Every state of the bridge is well formed.
THEOREM BridgeTypeCorrect == BridgeSpec => []TypeOK
  BY BridgeInvariant, PTL DEF BridgeIInv

\* Between two callbacks serial_ok never speaks of a port that was closed or
\* given up.
THEOREM PortIsKnown == BridgeSpec => []PortKnown
<1>1. BridgeIInv => PortKnown
  BY DEF BridgeIInv, PortInv, PortKnown, InUse
<1> QED
  BY <1>1, BridgeInvariant, PTL

\* The pose to be sent is the last raw pose relative to the origin in force.
THEOREM PoseIsRelative == BridgeSpec => []PoseRelative
  BY BridgeInvariant, PTL DEF BridgeIInv

\* The heartbeat does not fire before the first frame.
THEOREM QuietAtStart == BridgeSpec => []HeartbeatQuietAtStart
  BY BridgeInvariant, PTL DEF BridgeIInv

-----------------------------------------------------------------------------
(* R2Main *)

\* The MCU has got far enough to have reported state s.
Reported(s) == (s = AT_TARGET => mcu >= 2) /\ (s = DONE => mcu >= 4)

Typed == mcu \in 0 .. Len(Mission) /\ topic \in Seq(Int)

IInv ==
  /\ Typed
  /\ \A i \in 1 .. Len(topic) : Reported(topic[i])
  /\ Reported(lower_state)
  /\ zone_i_kfs = {} /\ ~dock_ok_received /\ ~go_zone_i_requested
  /\ phase \in {"INIT", "MOVE_TO_ENDTIPS", "GRAB_ENDTIPS", "WAIT_DOCK"}
  /\ NeverAhead

\* Where the mission reports which state
LEMMA MissionStates ==
  \A k \in 1 .. Len(Mission) :
    /\ Mission[k].state \in Int
    /\ Mission[k].state = AT_TARGET => k >= 2
    /\ Mission[k].state = DONE => k >= 4
<1>1. Len(Mission) = 9
  BY DEF Mission
<1>2. \A k \in 1 .. 9 : k \in {1, 2, 3, 4, 5, 6, 7, 8, 9}
  OBVIOUS
<1>3. /\ Mission[1].state = MOVING /\ Mission[2].state = AT_TARGET
      /\ Mission[3].state = GRABBING /\ Mission[4].state = DONE
      /\ Mission[5].state = IDLE /\ Mission[6].state = IDLE /\ Mission[7].state = IDLE
      /\ Mission[8].state = MOVING /\ Mission[9].state = DONE
  BY DEF Mission, STATUS, Frame
<1> QED
  BY <1>1, <1>2, <1>3 DEF IDLE, MOVING, AT_TARGET, GRABBING, DONE

\* Whatever Publish drops, the topic holds nothing but what was there and m.
LEMMA PublishKeeps ==
  ASSUME NEW q \in Seq(Int), NEW m \in Int
  PROVE  /\ Publish(q, m) \in Seq(Int)
         /\ \A i \in 1 .. Len(Publish(q, m)) :
              Publish(q, m)[i] = m \/ \E j \in 1 .. Len(q) : Publish(q, m)[i] = q[j]
<1>1. CASE Len(q) < Depth
  BY <1>1 DEF Publish
<1>2. CASE ~(Len(q) < Depth)
  <2>1. q # << >>
    BY <1>2, DepthAssumption
  <2>2. /\ Tail(q) \in Seq(Int) /\ Len(Tail(q)) = Len(q) - 1 /\ Len(q) \in Nat
        /\ \A i \in 1 .. Len(Tail(q)) : Tail(q)[i] = q[i + 1]
    BY <2>1
  <2>3. Publish(q, m) = Append(Tail(q), m)
    BY <1>2 DEF Publish
  <2> DEFINE t == Tail(q)
  <2>4. t \in Seq(Int) /\ Len(t) \in Nat /\ Len(q) = Len(t) + 1
    BY <2>2
  <2>5. \A i \in 1 .. Len(t) : t[i] = q[i + 1]
    BY <2>2
  <2> HIDE DEF t
  <2>6. /\ Append(t, m) \in Seq(Int) /\ Len(Append(t, m)) = Len(t) + 1
        /\ Append(t, m)[Len(t) + 1] = m
        /\ \A i \in 1 .. Len(t) : Append(t, m)[i] = t[i]
    BY <2>4
  <2>7. ASSUME NEW i \in 1 .. Len(Append(t, m))
        PROVE  Append(t, m)[i] = m \/ \E j \in 1 .. Len(q) : Append(t, m)[i] = q[j]
    <3>1. CASE i = Len(t) + 1
      BY <3>1, <2>6
    <3>2. CASE i # Len(t) + 1
      <4>1. i \in 1 .. Len(t) /\ i + 1 \in 1 .. Len(q)
        BY <3>2, <2>4, <2>6
      <4>2. Append(t, m)[i] = q[i + 1]
        BY <4>1, <2>5, <2>6
      <4> QED
        BY <4>1, <4>2
    <3> QED
      BY <3>1, <3>2
  <2> QED
    BY <2>3, <2>6, <2>7 DEF t
<1> QED
  BY <1>1, <1>2

LEMMA InitInv == Init => IInv
  BY MissionStates
     DEF Init, IInv, Typed, Reported, NeverAhead, IDLE, AT_TARGET, DONE, Mission

\* A frame of the MCU, once it has got to step n, keeps what is on its way honest.
LEMMA FrameKeeps ==
  ASSUME IInv, NEW f, _handle_downlink(f), mcu' \in 0 .. Len(Mission), mcu' >= mcu,
         f.state \in Int,
         f.state = AT_TARGET => mcu' >= 2,
         f.state = DONE => mcu' >= 4
  PROVE  topic' \in Seq(Int) /\ (\A i \in 1 .. Len(topic) : Reported(topic[i]))'
<1>1. CASE f.cmd # "STATUS"
  BY <1>1 DEF _handle_downlink, IInv, Typed, Reported
<1>2. CASE f.cmd = "STATUS"
  <2>1. topic' = Publish(topic, f.state)
    BY <1>2 DEF _handle_downlink
  <2>2. /\ topic \in Seq(Int) /\ f.state \in Int
        /\ \A j \in 1 .. Len(topic) : Reported(topic[j])
        /\ f.state = AT_TARGET => mcu' >= 2
        /\ f.state = DONE => mcu' >= 4
    BY DEF IInv, Typed
  <2>3. ASSUME NEW i \in 1 .. Len(topic')
        PROVE  (topic'[i] = AT_TARGET => mcu' >= 2) /\ (topic'[i] = DONE => mcu' >= 4)
    <3>1. CASE topic'[i] = f.state
      BY <3>1, <2>2
    <3>2. CASE \E j \in 1 .. Len(topic) : topic'[i] = topic[j]
      <4>1. PICK j \in 1 .. Len(topic) : topic'[i] = topic[j]
        BY <3>2
      <4>2. Reported(topic[j])
        BY <2>2
      <4> QED
        BY <4>1, <4>2 DEF Reported, IInv, Typed
    <3> QED
      BY <3>1, <3>2, <2>1, <2>2, PublishKeeps
  <2> QED
    BY <2>1, <2>2, <2>3, PublishKeeps DEF Reported
<1> QED
  BY <1>1, <1>2

LEMMA StepInv == IInv /\ [Next]_vars => IInv'
<1> SUFFICES ASSUME IInv, [Next]_vars PROVE IInv'
  OBVIOUS
<1>0. Len(Mission) = 9 /\ mcu \in 0 .. 9
  BY DEF Mission, IInv, Typed
<1>1. CASE MCUStep
  <2>1. /\ mcu < Len(Mission) /\ mcu' = mcu + 1 /\ _handle_downlink(Mission[mcu + 1])
        /\ UNCHANGED <<phase, zone_i_kfs, dock_ok_received, go_zone_i_requested, lower_state>>
    BY <1>1 DEF MCUStep, main
  <2>2. mcu' \in 1 .. Len(Mission) /\ mcu' >= mcu
    BY <1>0, <2>1
  <2>3. PICK f : f = Mission[mcu + 1]
    OBVIOUS
  <2>4. mcu + 1 \in 1 .. Len(Mission) /\ mcu' = mcu + 1
    BY <1>0, <2>1
  <2>5. /\ f.state \in Int
        /\ f.state = AT_TARGET => mcu' >= 2
        /\ f.state = DONE => mcu' >= 4
    BY <2>3, <2>4, MissionStates
  <2>6. mcu' \in 0 .. Len(Mission) /\ mcu' >= mcu /\ _handle_downlink(f)
    BY <1>0, <2>1, <2>2, <2>3
  <2>7. topic' \in Seq(Int) /\ (\A i \in 1 .. Len(topic) : Reported(topic[i]))'
    BY <2>5, <2>6, FrameKeeps
  <2> QED
    BY <2>1, <2>2, <2>7, <1>0 DEF IInv, Typed, Reported, NeverAhead
<1>2. CASE MCURequest
  <2>1. /\ _handle_downlink(Frame("REQ"))
        /\ UNCHANGED <<mcu, phase, zone_i_kfs, dock_ok_received, go_zone_i_requested,
                       lower_state>>
    BY <1>2 DEF MCURequest, main
  <2>2. topic' = topic
    BY <2>1 DEF _handle_downlink, Frame
  <2> QED
    BY <2>1, <2>2 DEF IInv, Typed, Reported, NeverAhead
<1>3. CASE lower_state_cb
  <2>1. /\ topic # << >> /\ lower_state' = Head(topic) /\ topic' = Tail(topic)
        /\ UNCHANGED <<mcu, phase, zone_i_kfs, dock_ok_received, go_zone_i_requested>>
    BY <1>3 DEF lower_state_cb, main
  <2>2. /\ topic \in Seq(Int) /\ Len(topic) \in Nat /\ Len(topic) >= 1
        /\ Head(topic) = topic[1] /\ Tail(topic) \in Seq(Int)
        /\ Len(Tail(topic)) = Len(topic) - 1
        /\ \A i \in 1 .. Len(Tail(topic)) : Tail(topic)[i] = topic[i + 1]
    BY <2>1 DEF IInv, Typed
  <2>3. \A i \in 1 .. Len(topic) : Reported(topic[i])
    BY DEF IInv
  <2> QED
    BY <2>1, <2>2, <2>3 DEF IInv, Typed, Reported, NeverAhead
<1>4. CASE state_machine_loop
  BY <1>4, <1>0
     DEF state_machine_loop, NextPhase, IInv, Typed, Reported, NeverAhead, IDLE, AT_TARGET,
         DONE
<1>5. CASE Restart
  BY <1>5, <1>0 DEF Restart, Start, IInv, Typed, Reported, NeverAhead, IDLE, AT_TARGET, DONE
<1>6. CASE UNCHANGED vars
  BY <1>6 DEF vars, env, main, IInv, Typed, Reported, NeverAhead
<1> QED
  BY <1>1, <1>2, <1>3, <1>4, <1>5, <1>6 DEF Next

\* R2Main believes that the robot has reached the end tips, or holds them, only
\* when the MCU has said so, whatever the topic dropped.
THEOREM NeverRunsAhead == Spec => []NeverAhead
<1>1. IInv => NeverAhead
  BY DEF IInv
<1> QED
  BY <1>1, InitInv, StepInv, PTL DEF Spec

-----------------------------------------------------------------------------
(* Recursive functions over 0 .. m, and induction over it *)

LEMMA NatMin ==
  ASSUME NEW T, T \subseteq Nat, T # {}
  PROVE  \E m \in T : \A k \in T : m <= k
<1> DEFINE R == OpToRel(<, Nat)
<1>1. IsWellFoundedOn(R, Nat)
  BY NatLessThanWellFounded
<1>2. \A k, m \in Nat : k < m => <<k, m>> \in R
  BY DEF OpToRel
<1> HIDE DEF R
<1>3. PICK m \in T : \A k \in T : ~ (<<k, m>> \in R)
  BY <1>1, WFMin
<1>4. \A k \in T : m <= k
  <2> SUFFICES ASSUME NEW k \in T PROVE m <= k
    OBVIOUS
  <2>1. ~(k < m) /\ k \in Nat /\ m \in Nat
    BY <1>2, <1>3
  <2> QED
    BY <2>1
<1> QED
  BY <1>4

\* Induction up to m
LEMMA UpTo ==
  ASSUME NEW m \in Nat, NEW T, 0 \in T, \A i \in 1 .. m : i - 1 \in T => i \in T
  PROVE  \A i \in 0 .. m : i \in T
<1> DEFINE U == {i \in 0 .. m : i \notin T}
<1>1. ASSUME U # {}
      PROVE  FALSE
  <2>1. PICK i \in U : \A k \in U : i <= k
    <3>1. U \subseteq Nat
      OBVIOUS
    <3> HIDE DEF U
    <3> QED
      BY <1>1, <3>1, NatMin
  <2>2. i \in 1 .. m /\ i - 1 \in 0 .. m /\ ~(i <= i - 1)
    BY <2>1
  <2>3. i - 1 \in T
    BY <2>1, <2>2
  <2> QED
    BY <2>1, <2>2, <2>3
<1> QED
  BY <1>1

\* What a function is that is built up to m from e by the steps s
Built(f, m, e, s) == f[0] = e /\ \A i \in 1 .. m : f[i] = s[i][f[i - 1]]

LEMMA Recursion ==
  ASSUME NEW m \in Nat, NEW S, NEW e \in S, NEW s \in [1 .. m -> [S -> S]]
  PROVE  \E f \in [0 .. m -> S] : Built(f, m, e, s)
<1> DEFINE T == {i \in 0 .. m : \E f \in [0 .. i -> S] : Built(f, i, e, s)}
<1>1. 0 \in T
  <2>1. [i \in 0 .. 0 |-> e] \in [0 .. 0 -> S] /\ Built([i \in 0 .. 0 |-> e], 0, e, s)
    BY DEF Built
  <2> QED
    BY <2>1
<1>2. ASSUME NEW i \in 1 .. m, i - 1 \in T
      PROVE  i \in T
  <2>1. PICK g \in [0 .. i - 1 -> S] : Built(g, i - 1, e, s)
    BY <1>2
  <2> DEFINE f == [n \in 0 .. i |-> IF n = i THEN s[i][g[i - 1]] ELSE g[n]]
  <2>2. g[i - 1] \in S
    BY <2>1
  <2>3. s[i][g[i - 1]] \in S
    BY <2>2
  <2>4. f \in [0 .. i -> S]
    BY <2>1, <2>3
  <2>5. \A n \in 0 .. i - 1 : n \in 0 .. i /\ n # i /\ f[n] = g[n]
    OBVIOUS
  <2>6. 0 \in 0 .. i - 1 /\ i \in 0 .. i /\ i - 1 \in 0 .. i - 1
    OBVIOUS
  <2>7. f[i] = s[i][g[i - 1]]
    BY <2>6
  <2> HIDE DEF f
  <2>8. ASSUME NEW n \in 1 .. i
        PROVE  f[n] = s[n][f[n - 1]]
    <3>1. CASE n = i
      BY <3>1, <2>5, <2>6, <2>7
    <3>2. CASE n # i
      <4>1. n \in 1 .. i - 1 /\ n \in 0 .. i - 1 /\ n - 1 \in 0 .. i - 1
        BY <3>2
      <4> QED
        BY <4>1, <2>1, <2>5 DEF Built
    <3> QED
      BY <3>1, <3>2
  <2>9. Built(f, i, e, s)
    BY <2>1, <2>5, <2>6, <2>8 DEF Built
  <2> QED
    BY <2>4, <2>9
<1>3. \A i \in 1 .. m : i - 1 \in T => i \in T
  BY <1>2
<1> HIDE DEF T
<1>4. \A i \in 0 .. m : i \in T
  BY <1>1, <1>3, UpTo
<1>5. m \in T
  BY <1>4
<1> QED
  BY <1>5 DEF T

-----------------------------------------------------------------------------
(* The forest *)

\* The forest is that of twelve blocks, and no block is next to itself.
LEMMA Forest ==
  /\ Blocks = 1 .. 12 /\ Cardinality(Blocks) = 12 /\ IsFiniteSet(Blocks)
  /\ \A b \in Blocks : FOREST_LAYOUT[b] \subseteq Blocks /\ b \notin FOREST_LAYOUT[b]
  /\ ENTRANCE_BLOCKS[1] \in Blocks /\ ENTRANCE_BLOCKS[2] \in Blocks /\ ENTRANCE_BLOCKS[3] \in Blocks
  /\ DOMAIN ENTRANCE_BLOCKS = 1 .. 3
<1>1. Blocks = 1 .. 12
  BY DEF Blocks, FOREST_LAYOUT
<1>2. Cardinality(1 .. 12) = 12 /\ IsFiniteSet(1 .. 12)
  <2>1. 1 \in Int /\ 12 \in Int
    OBVIOUS
  <2>2. Cardinality(1 .. 12) = IF 1 > 12 THEN 0 ELSE 12 - 1 + 1
    BY ONLY <2>1, FS_Interval
  <2>3. IsFiniteSet(1 .. 12)
    BY <2>1, FS_Interval
  <2> QED
    BY <2>2, <2>3
<1>3. ASSUME NEW b \in 1 .. 12
      PROVE  FOREST_LAYOUT[b] \subseteq 1 .. 12 /\ b \notin FOREST_LAYOUT[b]
  BY DEF FOREST_LAYOUT
<1>4. /\ ENTRANCE_BLOCKS[1] \in 1 .. 12 /\ ENTRANCE_BLOCKS[2] \in 1 .. 12
      /\ ENTRANCE_BLOCKS[3] \in 1 .. 12 /\ DOMAIN ENTRANCE_BLOCKS = 1 .. 3
  BY DEF ENTRANCE_BLOCKS
<1> QED
  BY <1>1, <1>2, <1>3, <1>4

\* The blocks that are in s, or next to one of them
Around(s) == s \cup UNION {FOREST_LAYOUT[u] : u \in s \cap Blocks}

LEMMA WithinSteps ==
  ASSUME NEW start \in Blocks
  PROVE  /\ Within(start) \in [0 .. 12 -> SUBSET Blocks] /\ Within(start)[0] = {start}
         /\ \A n \in 1 .. 12 : Within(start)[n] = Around(Within(start)[n - 1])
<1> DEFINE s == [i \in 1 .. 12 |-> [b \in SUBSET Blocks |-> Around(b)]]
           E(f) == f = [n \in 0 .. Cardinality(Blocks) |->
                          IF n = 0 THEN {start}
                          ELSE f[n - 1] \cup UNION {FOREST_LAYOUT[u] : u \in f[n - 1] \cap Blocks}]
           near == CHOOSE f : E(f)
<1>1. Cardinality(Blocks) = 12
  BY Forest
<1>2. ASSUME NEW b \in SUBSET Blocks
      PROVE  Around(b) \in SUBSET Blocks
  BY Forest, ZenonT(30) DEF Around
<1>3. s \in [1 .. 12 -> [SUBSET Blocks -> SUBSET Blocks]] /\ {start} \in SUBSET Blocks /\ 12 \in Nat
  BY <1>2
<1>4. \A i \in 1 .. 12, b \in SUBSET Blocks : s[i][b] = Around(b)
  OBVIOUS
<1> HIDE DEF s
<1>5. PICK f \in [0 .. 12 -> SUBSET Blocks] : Built(f, 12, {start}, s)
  BY <1>3, Recursion
<1>6. f[0] = {start} /\ \A n \in 1 .. 12 : f[n] = Around(f[n - 1])
  <2>1. \A n \in 1 .. 12 : n - 1 \in 0 .. 12 /\ f[n - 1] \in SUBSET Blocks
    BY <1>5
  <2> QED
    BY <2>1, <1>4, <1>5 DEF Built
<1>7. E(f)
  <2>1. \A n \in 0 .. 12 : n = 0 \/ n \in 1 .. 12
    OBVIOUS
  <2>2. f = [n \in 0 .. 12 |-> IF n = 0 THEN {start} ELSE Around(f[n - 1])]
    BY <2>1, <1>5, <1>6
  <2> QED
    BY <2>2, <1>1 DEF Around
<1>8. E(near)
  <2> HIDE DEF E
  <2> QED
    BY <1>7
<1>9. near = [n \in 0 .. 12 |-> IF n = 0 THEN {start} ELSE Around(near[n - 1])]
  BY <1>1, <1>8 DEF Around
<1>10. Within(start) = [n \in 0 .. 12 |-> near[n]]
  BY <1>1 DEF Within
<1> HIDE DEF near
<1>11. Within(start) = near
  BY <1>9, <1>10
<1>12. near[0] = {start} /\ \A n \in 1 .. 12 : near[n] = Around(near[n - 1])
  BY <1>9
<1> DEFINE T == {n \in 0 .. 12 : near[n] \in SUBSET Blocks}
<1>13. \A n \in 0 .. 12 : n \in T
  <2>1. 0 \in T
    BY <1>12
  <2>2. \A n \in 1 .. 12 : n - 1 \in T => n \in T
    BY <1>12, <1>2
  <2> HIDE DEF T
  <2> QED
    BY <2>1, <2>2, UpTo
<1>14. near \in [0 .. 12 -> SUBSET Blocks]
  BY <1>9, <1>13
<1> QED
  BY <1>11, <1>12, <1>14

\* Steps from block 1
Level == <<0, 1, 2, 3, 1, 2, 3, 4, 2, 3, 4, 5>>

\* Every block is reached in the steps that Within has.
LEMMA AllReached ==
  ASSUME NEW start \in Blocks
  PROVE  Within(start)[12] = Blocks
<1> DEFINE near == Within(start)
<1>1. /\ near \in [0 .. 12 -> SUBSET Blocks] /\ near[0] = {start}
      /\ \A n \in 1 .. 12 : near[n] = Around(near[n - 1])
  BY WithinSteps
<1> HIDE DEF near
<1>2. Blocks = 1 .. 12
  BY Forest
<1>3. ASSUME NEW n \in 0 .. 11, NEW b \in near[n]
      PROVE  b \in near[n + 1] /\ \A c \in FOREST_LAYOUT[b] : c \in near[n + 1]
  <2>1. n + 1 \in 1 .. 12 /\ n + 1 - 1 = n /\ n \in 0 .. 12
    OBVIOUS
  <2>2. near[n + 1] = Around(near[n])
    BY <1>1, <2>1
  <2> QED
    BY <1>1, <2>1, <2>2 DEF Around
<1>4. \A b \in 1 .. 12 : Level[b] \in 0 .. 5 /\ (Level[b] = 0 => b = 1)
  BY DEF Level
<1>5. ASSUME NEW b \in 1 .. 12, Level[b] # 0
      PROVE  \E c \in FOREST_LAYOUT[b] : Level[c] = Level[b] - 1
  BY <1>5 DEF Level, FOREST_LAYOUT
\* Down to block 1 first
<1> DEFINE T == {n \in 0 .. 5 : \E b \in near[n] : Level[b] <= 5 - n}
<1>6. 0 \in T
  BY <1>1, <1>2, <1>4
<1>7. ASSUME NEW n \in 1 .. 5, n - 1 \in T
      PROVE  n \in T
  <2>1. PICK b \in near[n - 1] : Level[b] <= 5 - (n - 1)
    BY <1>7
  <2>2. n - 1 \in 0 .. 11 /\ (n - 1) + 1 = n /\ b \in 1 .. 12
    BY <1>1, <1>2
  <2>3. b \in near[n] /\ \A c \in FOREST_LAYOUT[b] : c \in near[n]
    BY <1>3, <2>2
  <2>4. CASE Level[b] = 0
    BY <2>3, <2>4
  <2>5. CASE Level[b] # 0
    <3>1. PICK c \in FOREST_LAYOUT[b] : Level[c] = Level[b] - 1
      BY <2>2, <2>5, <1>5
    <3>2. Level[c] <= 5 - n
      BY <3>1, <2>1, <2>2, <1>4
    <3> QED
      BY <2>3, <3>1, <3>2
  <2> QED
    BY <2>4, <2>5
<1>8. 5 \in T
  <2>1. \A n \in 1 .. 5 : n - 1 \in T => n \in T
    BY <1>7
  <2>2. 5 \in Nat /\ 5 \in 0 .. 5
    OBVIOUS
  <2> HIDE DEF T
  <2>3. \A n \in 0 .. 5 : n \in T
    BY <1>6, <2>1, <2>2, UpTo
  <2> QED
    BY <2>2, <2>3
<1>9. 1 \in near[5]
  <2>1. PICK b \in near[5] : Level[b] <= 0
    BY <1>8
  <2>2. b \in 1 .. 12
    BY <1>1, <1>2
  <2> QED
    BY <2>1, <2>2, <1>4
\* then up
<1>10. \A n \in 0 .. 11 : \A b \in near[n] :
         b \in near[n + 1] /\ \A c \in FOREST_LAYOUT[b] : c \in near[n + 1]
  BY <1>3
<1>11. {1, 2, 5} \subseteq near[6]
  BY <1>9, <1>10, 5 \in 0 .. 11, 5 + 1 = 6, FOREST_LAYOUT[1] = {2, 5} DEF FOREST_LAYOUT
<1>12. {1, 2, 5, 3, 6, 9} \subseteq near[7]
  BY <1>11, <1>10, 6 \in 0 .. 11, 6 + 1 = 7, FOREST_LAYOUT[2] = {1, 3, 6}, FOREST_LAYOUT[5] = {1, 6, 9}
     DEF FOREST_LAYOUT
<1>13. {1, 2, 5, 3, 6, 9, 4, 7, 10} \subseteq near[8]
  BY <1>12, <1>10, 7 \in 0 .. 11, 7 + 1 = 8, FOREST_LAYOUT[3] = {2, 4, 7}, FOREST_LAYOUT[6] = {2, 5, 7, 10}
     DEF FOREST_LAYOUT
<1>14. {1, 2, 5, 3, 6, 9, 4, 7, 10, 8, 11} \subseteq near[9]
  BY <1>13, <1>10, 8 \in 0 .. 11, 8 + 1 = 9, FOREST_LAYOUT[4] = {3, 8}, FOREST_LAYOUT[7] = {3, 6, 8, 11}
     DEF FOREST_LAYOUT
<1>15. {1, 2, 5, 3, 6, 9, 4, 7, 10, 8, 11, 12} \subseteq near[10]
  BY <1>14, <1>10, 9 \in 0 .. 11, 9 + 1 = 10, FOREST_LAYOUT[8] = {4, 7, 12} DEF FOREST_LAYOUT
<1>16. near[10] \subseteq near[11] /\ near[11] \subseteq near[12]
  BY <1>10, 10 \in 0 .. 11, 11 \in 0 .. 11, 10 + 1 = 11, 11 + 1 = 12
<1>17. 1 .. 12 \subseteq {1, 2, 5, 3, 6, 9, 4, 7, 10, 8, 11, 12}
  OBVIOUS
<1>18. near[12] \subseteq Blocks
  BY <1>1
<1>19. near[12] = Blocks
  BY <1>2, <1>15, <1>16, <1>17, <1>18
<1> QED
  BY <1>19 DEF near

-----------------------------------------------------------------------------
(* A shortest path *)

\* The steps from where near begins to b
Dist(b, near) == Min({n \in DOMAIN near : b \in near[n]})

LEMMA MinLeast ==
  ASSUME NEW T, T \subseteq Nat, T # {}
  PROVE  Min(T) \in T /\ \A k \in T : Min(T) <= k
<1>1. \E m \in T : \A k \in T : m <= k
  BY NatMin
<1> QED
  BY <1>1 DEF Min

LEMMA DistLeast ==
  ASSUME NEW start \in Blocks, NEW b \in Blocks, NEW near, near = Within(start)
  PROVE  /\ Dist(b, near) \in 0 .. 12 /\ b \in near[Dist(b, near)]
         /\ \A k \in 0 .. 12 : b \in near[k] => Dist(b, near) <= k
         /\ Dist(b, near) = 0 => b = start
<1> DEFINE T == {n \in 0 .. 12 : b \in near[n]}
<1>1. DOMAIN near = 0 .. 12 /\ near[0] = {start}
  BY WithinSteps
<1>2. 12 \in T /\ T \subseteq Nat
  BY AllReached
<1>3. Min(T) \in T /\ \A k \in T : Min(T) <= k
  <2> HIDE DEF T
  <2> QED
    BY <1>2, MinLeast
<1>4. Dist(b, near) = Min(T)
  BY <1>1 DEF Dist
<1> QED
  BY <1>1, <1>3, <1>4

\* The block before b is next to it, one step nearer.
LEMMA PrevNearer ==
  ASSUME NEW start \in Blocks, NEW b \in Blocks, NEW near, near = Within(start),
         Dist(b, near) # 0
  PROVE  /\ prev(b, near) \in Blocks /\ b \in FOREST_LAYOUT[prev(b, near)]
         /\ Dist(prev(b, near), near) = Dist(b, near) - 1
<1> DEFINE d == Dist(b, near)
           T == {u \in Blocks : b \in FOREST_LAYOUT[u] /\ u \in near[d - 1]}
           u == prev(b, near)
<1>1. near \in [0 .. 12 -> SUBSET Blocks] /\ \A n \in 1 .. 12 : near[n] = Around(near[n - 1])
  BY WithinSteps
<1>2. d \in 1 .. 12 /\ b \in near[d] /\ \A k \in 0 .. 12 : b \in near[k] => d <= k
  BY DistLeast
<1>3. u = Min(T)
  BY DEF prev, Dist
<1> HIDE DEF d
<1>4. d - 1 \in 0 .. 12 /\ near[d] = Around(near[d - 1]) /\ ~(d <= d - 1)
  BY <1>1, <1>2
<1>5. b \notin near[d - 1]
  BY <1>2, <1>4
<1>6. T # {} /\ T \subseteq Nat
  <2>1. PICK v \in near[d - 1] \cap Blocks : b \in FOREST_LAYOUT[v]
    BY <1>2, <1>4, <1>5 DEF Around
  <2> QED
    BY <2>1, Forest
<1>7. Min(T) \in T
  <2> HIDE DEF T
  <2> QED
    BY <1>6, MinLeast
<1>8. u \in Blocks /\ b \in FOREST_LAYOUT[u] /\ u \in near[d - 1]
  BY <1>3, <1>7
<1> HIDE DEF u, T
<1>9. /\ Dist(u, near) \in 0 .. 12 /\ u \in near[Dist(u, near)]
      /\ \A k \in 0 .. 12 : u \in near[k] => Dist(u, near) <= k
  BY <1>8, DistLeast
<1>10. Dist(u, near) <= d - 1
  BY <1>4, <1>8, <1>9
<1>11. d <= Dist(u, near) + 1
  <2> DEFINE e == Dist(u, near)
  <2>1. CASE e = 12
    BY <2>1, <1>2
  <2>2. CASE e # 12
    <3> HIDE DEF e
    <3>0. e \in 0 .. 12 /\ u \in near[e]
      BY <1>9 DEF e
    <3>1. e + 1 \in 1 .. 12 /\ e + 1 - 1 = e /\ e + 1 \in 0 .. 12
      BY <2>2, <3>0
    <3>2. near[e + 1] = Around(near[e])
      <4> DEFINE n == e + 1
      <4>1. n \in 1 .. 12 /\ n - 1 = e
        BY <3>0, <3>1
      <4> HIDE DEF n
      <4>2. near[n] = Around(near[n - 1])
        BY <1>1, <4>1
      <4> QED
        BY <4>1, <4>2 DEF n
    <3>3. b \in near[e + 1]
      BY <1>8, <3>0, <3>2 DEF Around
    <3>4. d <= e + 1
      BY <1>2, <3>1, <3>3
    <3> QED
      BY <3>4 DEF e
  <2> QED
    BY <2>1, <2>2
<1>12. Dist(u, near) = d - 1
  BY <1>2, <1>9, <1>10, <1>11
<1> QED
  BY <1>8, <1>12 DEF u, d

\* A way from block to neighbouring block
Path(p, a, b) ==
  /\ p \in Seq(Blocks) /\ p # << >> /\ p[1] = a /\ p[Len(p)] = b
  /\ \A n \in 1 .. Len(p) - 1 : p[n + 1] \in FOREST_LAYOUT[p[n]]

LEMMA PathOne ==
  ASSUME NEW b \in Blocks
  PROVE  Path(<<b>>, b, b)
<1>1. <<b>> \in Seq(Blocks) /\ Len(<<b>>) = 1 /\ <<b>>[1] = b /\ <<b>> # << >>
  OBVIOUS
<1> QED
  BY <1>1 DEF Path

LEMMA PathLonger ==
  ASSUME NEW p, NEW a, NEW b, NEW u \in Blocks, Path(p, a, b), a \in FOREST_LAYOUT[u]
  PROVE  Path(<<u>> \o p, u, b) /\ Head(<<u>> \o p) = u
<1> DEFINE q == <<u>> \o p
<1>1. p \in Seq(Blocks) /\ Len(p) \in Nat /\ Len(p) # 0
  BY DEF Path
<1>2. q \in Seq(Blocks) /\ Len(q) = Len(p) + 1 /\ q[1] = u /\ q # << >>
  BY <1>1
<1>3. \A n \in 1 .. Len(p) : q[n + 1] = p[n]
  BY <1>1
<1>4. Head(q) = u
  BY <1>2
<1> HIDE DEF q
<1>5. q[Len(q)] = b
  BY <1>1, <1>2, <1>3 DEF Path
<1>6. ASSUME NEW n \in 1 .. Len(q) - 1
      PROVE  q[n + 1] \in FOREST_LAYOUT[q[n]]
  <2>1. CASE n = 1
    BY <2>1, <1>1, <1>2, <1>3 DEF Path
  <2>2. CASE n # 1
    <3>1. n - 1 \in 1 .. Len(p) - 1 /\ n - 1 \in 1 .. Len(p) /\ n \in 1 .. Len(p) /\ n - 1 + 1 = n
      BY <2>2, <1>1, <1>2
    <3>2. p[n] \in FOREST_LAYOUT[p[n - 1]]
      BY <3>1 DEF Path
    <3>3. q[n + 1] = p[n] /\ q[n] = p[n - 1]
      BY <3>1, <1>3
    <3> QED
      BY <3>2, <3>3
  <2> QED
    BY <2>1, <2>2
<1>7. Path(q, u, b)
  BY <1>2, <1>5, <1>6 DEF Path
<1> QED
  BY <1>4, <1>7 DEF q

\* What the steps of the way back from the goal do, for as long as they can
LEMMA WaySteps ==
  ASSUME NEW start \in Blocks, NEW goal \in Blocks, NEW near, near = Within(start),
         NEW way, way[0] = <<goal>>,
         \A n \in 1 .. Dist(goal, near) :
           prev(Head(way[n - 1]), near) \in Blocks =>
             way[n] = <<prev(Head(way[n - 1]), near)>> \o way[n - 1]
  PROVE  \A n \in 0 .. Dist(goal, near) :
           /\ Head(way[n]) \in Blocks /\ Path(way[n], Head(way[n]), goal)
           /\ Dist(Head(way[n]), near) = Dist(goal, near) - n
<1> DEFINE d == Dist(goal, near)
           T == {n \in 0 .. d : /\ Head(way[n]) \in Blocks /\ Path(way[n], Head(way[n]), goal)
                                /\ Dist(Head(way[n]), near) = d - n}
<1>1. d \in Nat
  BY DistLeast
<1>2. 0 \in T
  <2>1. Head(way[0]) = goal
    OBVIOUS
  <2>2. Path(way[0], Head(way[0]), goal)
    BY <2>1, PathOne
  <2>3. 0 \in 0 .. d /\ d - 0 = d
    BY <1>1
  <2> QED
    BY <2>1, <2>2, <2>3
<1>3. ASSUME NEW n \in 1 .. d, n - 1 \in T
      PROVE  n \in T
  <2> DEFINE b == Head(way[n - 1])
             u == prev(b, near)
  <2>1. b \in Blocks /\ Path(way[n - 1], b, goal) /\ Dist(b, near) = d - (n - 1)
    BY <1>3
  <2>2. Dist(b, near) # 0
    BY <1>1, <2>1
  <2>3. u \in Blocks /\ b \in FOREST_LAYOUT[u] /\ Dist(u, near) = Dist(b, near) - 1
    <3> HIDE DEF b
    <3> QED
      BY <2>1, <2>2, PrevNearer
  <2>4. way[n] = <<u>> \o way[n - 1]
    BY <2>3
  <2> HIDE DEF u, b
  <2>5. Path(way[n], u, goal) /\ Head(way[n]) = u
    BY <2>1, <2>3, <2>4, PathLonger
  <2>6. Dist(u, near) = d - n
    <3> HIDE DEF d
    <3> QED
      BY <1>1, <2>1, <2>3
  <2> QED
    BY <1>1, <2>3, <2>5, <2>6
<1>4. \A n \in 1 .. d : n - 1 \in T => n \in T
  BY <1>3
<1>5. \A n \in 0 .. d : n \in T
  <2> HIDE DEF T, d
  <2> QED
    BY <1>1, <1>2, <1>4, UpTo
<1> QED
  BY <1>5

\* A shortest path is a way from its start to its goal.
LEMMA ShortestIsPath ==
  ASSUME NEW start \in Blocks, NEW goal \in Blocks
  PROVE  Path(shortest_path(start, goal), start, goal)
<1> DEFINE near == Within(start)
           dists == {n \in DOMAIN near : goal \in near[n]}
           d == Dist(goal, near)
           E(f) == f = [n \in 0 .. d |->
                          IF n = 0 THEN <<goal>> ELSE <<prev(Head(f[n - 1]), near)>> \o f[n - 1]]
           way == CHOOSE f : E(f)
           S == Seq(Blocks)
           s == [i \in 1 .. d |-> [p \in S |-> IF prev(Head(p), near) \in Blocks
                                                 THEN <<prev(Head(p), near)>> \o p ELSE p]]
<1>1. d \in Nat /\ d \in 0 .. 12 /\ goal \in near[d]
  BY DistLeast
<1>2. DOMAIN near = 0 .. 12 /\ near[0] = {start}
  BY WithinSteps
<1>3. dists # {}
  BY <1>1, <1>2
<1>4. shortest_path(start, goal) = way[d]
  <2>1. d = Min(dists)
    BY DEF Dist
  <2> QED
    BY <1>3, <2>1 DEF shortest_path
<1>5. ASSUME NEW w, w[0] = <<goal>>,
             \A n \in 1 .. Dist(goal, near) :
                prev(Head(w[n - 1]), near) \in Blocks =>
                  w[n] = <<prev(Head(w[n - 1]), near)>> \o w[n - 1]
       PROVE  \A n \in 0 .. Dist(goal, near) :
                /\ Head(w[n]) \in Blocks /\ Path(w[n], Head(w[n]), goal)
                /\ Dist(Head(w[n]), near) = Dist(goal, near) - n
  BY <1>5, WaySteps
<1> HIDE DEF d, near
<1>6. PICK f \in [0 .. d -> S] : Built(f, d, <<goal>>, s)
  <2>1. s \in [1 .. d -> [S -> S]]
    <3>1. ASSUME NEW p \in S, prev(Head(p), near) \in Blocks
          PROVE  <<prev(Head(p), near)>> \o p \in S
      BY <3>1
    <3> QED
      BY <3>1
  <2>2. <<goal>> \in S
    OBVIOUS
  <2> HIDE DEF S, s
  <2> QED
    BY <1>1, <2>1, <2>2, Recursion
<1>7. f[0] = <<goal>>
  BY <1>6 DEF Built
<1>8. ASSUME NEW n \in 1 .. d, prev(Head(f[n - 1]), near) \in Blocks
      PROVE  f[n] = <<prev(Head(f[n - 1]), near)>> \o f[n - 1]
  <2>1. n - 1 \in 0 .. d /\ f[n - 1] \in S
    BY <1>1, <1>6
  <2>2. f[n] = s[n][f[n - 1]]
    BY <1>6 DEF Built
  <2> HIDE DEF S
  <2> QED
    BY <1>8, <2>1, <2>2
<1>9. \A n \in 0 .. d : Head(f[n]) \in Blocks /\ Dist(Head(f[n]), near) = d - n
  <2> HIDE DEF s, S
  <2>1. /\ near = Within(start) /\ d = Dist(goal, near)
    BY DEF near, d
  <2>2. \A n \in 1 .. Dist(goal, near) :
          prev(Head(f[n - 1]), near) \in Blocks =>
            f[n] = <<prev(Head(f[n - 1]), near)>> \o f[n - 1]
    BY <1>8, <2>1
  <2>3. \A n \in 0 .. Dist(goal, near) :
          /\ Head(f[n]) \in Blocks /\ Path(f[n], Head(f[n]), goal)
          /\ Dist(Head(f[n]), near) = Dist(goal, near) - n
    BY <2>1, <2>2, <1>5, <1>7
  <2> QED
    BY <2>1, <2>3
<1>10. ASSUME NEW n \in 1 .. d
      PROVE  f[n] = <<prev(Head(f[n - 1]), near)>> \o f[n - 1]
  <2>1. n - 1 \in 0 .. d /\ d - (n - 1) # 0
    BY <1>1
  <2>2. Head(f[n - 1]) \in Blocks /\ Dist(Head(f[n - 1]), near) # 0
    BY <1>9, <2>1
  <2>3. prev(Head(f[n - 1]), near) \in Blocks
    BY <2>2, PrevNearer DEF near
  <2> QED
    BY <1>8, <2>3
<1>11. E(f)
  <2> HIDE DEF S, s
  <2>1. \A n \in 0 .. d : n = 0 \/ n \in 1 .. d
    BY <1>1
  <2> QED
    BY <2>1, <1>6, <1>7, <1>10
<1>12. E(way)
  <2> HIDE DEF E
  <2> QED
    BY <1>11
<1> HIDE DEF way
<1>13. way[0] = <<goal>>
  BY <1>1, <1>12
<1>14. \A n \in 1 .. d : way[n] = <<prev(Head(way[n - 1]), near)>> \o way[n - 1]
  <2>1. \A n \in 1 .. d : n \in 0 .. d /\ n # 0
    BY <1>1
  <2>2. \A n \in 0 .. d :
          way[n] = IF n = 0 THEN <<goal>> ELSE <<prev(Head(way[n - 1]), near)>> \o way[n - 1]
    BY <1>12, Zenon
  <2> QED
    BY <2>1, <2>2
<1> HIDE DEF E, s, S
<1>15. Path(way[d], Head(way[d]), goal) /\ Dist(Head(way[d]), near) = 0 /\ Head(way[d]) \in Blocks
  <2>1. /\ near = Within(start) /\ d = Dist(goal, near)
    BY DEF near, d
  <2>2. \A n \in 0 .. d : /\ Head(way[n]) \in Blocks /\ Path(way[n], Head(way[n]), goal)
                          /\ Dist(Head(way[n]), near) = d - n
    <3>1. \A n \in 1 .. Dist(goal, near) :
            prev(Head(way[n - 1]), near) \in Blocks =>
              way[n] = <<prev(Head(way[n - 1]), near)>> \o way[n - 1]
      BY <1>14, <2>1
    <3> QED
      BY <2>1, <3>1, <1>5, <1>13
  <2>3. d \in 0 .. d /\ d - d = 0
    BY <1>1
  <2> QED
    BY <2>2, <2>3
<1>16. Head(way[d]) = start
  BY <1>15, DistLeast DEF near
<1> QED
  BY <1>4, <1>15, <1>16

-----------------------------------------------------------------------------
(* The routes *)

\* Of some blocks there is a nearest.
LEMMA NearestIsThere ==
  ASSUME NEW cur \in Blocks, NEW blocks, blocks \subseteq Blocks, blocks # {}
  PROVE  Nearest(cur, blocks) \subseteq blocks /\ Nearest(cur, blocks) # {}
<1> DEFINE far == [b \in blocks |-> Len(shortest_path(cur, b))]
           T == {far[b] : b \in blocks}
<1>1. ASSUME NEW b \in blocks
      PROVE  Len(shortest_path(cur, b)) \in Nat
  BY ShortestIsPath DEF Path
<1>2. T \subseteq Nat /\ T # {}
  BY <1>1
<1>3. PICK m \in T : \A k \in T : m <= k
  <2> HIDE DEF T
  <2> QED
    BY <1>2, NatMin
<1>4. PICK b \in blocks : m = far[b]
  OBVIOUS
<1>5. \A other \in blocks : far[b] <= far[other]
  BY <1>3, <1>4
<1> QED
  BY <1>5 DEF Nearest

\* R2 leaves the forest by an entrance.
LEMMA ExitIsPath ==
  ASSUME NEW cur \in Blocks
  PROVE  \E n \in 1 .. 3 : Path(exit_path(cur), cur, ENTRANCE_BLOCKS[n])
<1> DEFINE entrances == ToSet(ENTRANCE_BLOCKS)
           near == Nearest(cur, entrances)
           First(n) == /\ ENTRANCE_BLOCKS[n] \in near
                       /\ \A m \in 1 .. n - 1 : ENTRANCE_BLOCKS[m] \notin near
           first == CHOOSE n \in DOMAIN ENTRANCE_BLOCKS : First(n)
           T == {n \in 1 .. 3 : ENTRANCE_BLOCKS[n] \in near}
<1>1. DOMAIN ENTRANCE_BLOCKS = 1 .. 3 /\ \A n \in 1 .. 3 : ENTRANCE_BLOCKS[n] \in Blocks
  BY Forest
<1>2. entrances = {ENTRANCE_BLOCKS[n] : n \in 1 .. 3}
  BY <1>1 DEF ToSet
<1>3. entrances \subseteq Blocks /\ entrances # {}
  BY <1>1, <1>2
<1>4. near \subseteq entrances /\ near # {}
  <2> HIDE DEF entrances
  <2> QED
    BY <1>3, NearestIsThere
<1>5. exit_path(cur) = shortest_path(cur, ENTRANCE_BLOCKS[first])
  BY DEF exit_path
<1> HIDE DEF near, entrances
<1>6. T # {} /\ T \subseteq Nat
  BY <1>2, <1>4
<1>7. PICK m \in T : \A k \in T : m <= k
  <2> HIDE DEF T
  <2> QED
    BY <1>6, NatMin
<1>8. m \in 1 .. 3 /\ First(m)
  <2>1. ASSUME NEW k \in 1 .. m - 1
        PROVE  ENTRANCE_BLOCKS[k] \notin near
    <3>1. k \in 1 .. 3 /\ ~(m <= k)
      OBVIOUS
    <3> QED
      BY <1>7, <3>1
  <2> QED
    BY <2>1
<1>9. first \in 1 .. 3
  <2> HIDE DEF First
  <2> QED
    BY <1>1, <1>8
<1> HIDE DEF first
<1>10. ENTRANCE_BLOCKS[first] \in Blocks
  BY <1>1, <1>9
<1> QED
  BY <1>5, <1>9, <1>10, ShortestIsPath

\* A path without its last block, and a path from there
LEMMA PathsJoin ==
  ASSUME NEW p, NEW q, NEW a, NEW b, NEW c, Path(p, a, b), Path(q, b, c)
  PROVE  /\ Path(Front(p) \o q, a, c)
         /\ \A n \in 1 .. Len(q) : \E m \in 1 .. Len(Front(p) \o q) : (Front(p) \o q)[m] = q[n]
<1> DEFINE f == Front(p)
           k == Len(p) - 1
           l == Len(q)
           r == f \o q
<1>1. /\ p \in Seq(Blocks) /\ Len(p) \in Nat /\ Len(p) # 0 /\ p[1] = a /\ p[Len(p)] = b
      /\ q \in Seq(Blocks) /\ Len(q) \in Nat /\ Len(q) # 0 /\ q[1] = b /\ q[Len(q)] = c
  BY DEF Path
<1>2. k \in Nat /\ Len(p) = k + 1 /\ l \in Nat \ {0}
  BY <1>1
<1>3. f \in Seq(Blocks) /\ Len(f) = k /\ \A n \in 1 .. k : f[n] = p[n]
  <2>1. f = SubSeq(p, 1, k)
    BY DEF Front
  <2> HIDE DEF f, k
  <2>2. \A n \in 1 .. k : n \in 1 .. Len(p)
    BY <1>2
  <2>3. SubSeq(p, 1, k) \in Seq(Blocks) /\ Len(SubSeq(p, 1, k)) = k
    BY <1>1, <1>2, <2>2
  <2>4. \A n \in 1 .. k : SubSeq(p, 1, k)[n] = p[n]
    BY <1>1, <1>2, <2>2
  <2> QED
    BY <2>1, <2>3, <2>4
<1> HIDE DEF f, k, l
<1>4. /\ r \in Seq(Blocks) /\ Len(r) = k + l
      /\ \A n \in 1 .. k : r[n] = f[n]
      /\ \A n \in 1 .. l : r[k + n] = q[n]
  <2>1. l = Len(q)
    BY DEF l
  <2>2. r \in Seq(Blocks) /\ Len(r) = k + l
    BY <1>1, <1>3, <2>1, ConcatProperties
  <2>3. ASSUME NEW n \in 1 .. k
        PROVE  r[n] = f[n]
    BY <1>1, <1>2, <1>3, <2>1
  <2>4. ASSUME NEW n \in 1 .. l
        PROVE  r[k + n] = q[n]
    BY <1>1, <1>2, <1>3, <2>1
  <2> QED
    BY <2>2, <2>3, <2>4
<1>5. /\ \A n \in 1 .. k : p[n + 1] \in FOREST_LAYOUT[p[n]]
      /\ \A n \in 1 .. l - 1 : q[n + 1] \in FOREST_LAYOUT[q[n]]
  BY DEF Path, k, l
<1>6. p[k + 1] = b /\ q[1] = b /\ q[l] = c /\ p[1] = a
  BY <1>1, <1>2 DEF l
<1>7. p[k + 1] \in Blocks
  BY <1>1, <1>2
<1> HIDE DEF r
<1>8. \A n \in 1 .. k + 1 : r[n] = p[n]
  <2> SUFFICES ASSUME NEW n \in 1 .. k + 1 PROVE r[n] = p[n]
    OBVIOUS
  <2>1. CASE n \in 1 .. k
    BY <2>1, <1>3, <1>4
  <2>2. CASE n = k + 1
    <3>1. 1 \in 1 .. l
      BY <1>2
    <3>2. r[k + 1] = q[1]
      BY <3>1, <1>4
    <3> QED
      BY <2>2, <3>2, <1>6
  <2> QED
    BY <2>1, <2>2, <1>2
<1>9. r[1] = a
  <2>1. 1 \in 1 .. k + 1
    BY <1>2
  <2> QED
    BY <2>1, <1>6, <1>8
<1>10. r[Len(r)] = c /\ r # << >>
  <2>1. l \in 1 .. l /\ k + l # 0
    BY <1>2
  <2> QED
    BY <2>1, <1>4, <1>6
<1>11. ASSUME NEW n \in 1 .. Len(r) - 1
       PROVE  r[n + 1] \in FOREST_LAYOUT[r[n]]
  <2>1. CASE n \in 1 .. k
    <3>1. n \in 1 .. k + 1 /\ n + 1 \in 1 .. k + 1
      BY <2>1, <1>2
    <3>2. r[n] = p[n] /\ r[n + 1] = p[n + 1]
      BY <3>1, <1>8
    <3> QED
      BY <2>1, <3>2, <1>5
  <2>2. CASE n \notin 1 .. k
    <3> DEFINE i == n - k
    <3>1. i \in 1 .. l - 1 /\ i \in 1 .. l /\ i + 1 \in 1 .. l /\ n = k + i /\ n + 1 = k + (i + 1)
      BY <2>2, <1>2, <1>4
    <3> HIDE DEF i
    <3>2. r[n] = q[i] /\ r[n + 1] = q[i + 1]
      BY <3>1, <1>4
    <3> QED
      BY <3>1, <3>2, <1>5
  <2> QED
    BY <2>1, <2>2
<1>12. Path(r, a, c)
  BY <1>4, <1>9, <1>10, <1>11 DEF Path
<1>13. \A n \in 1 .. l : \E m \in 1 .. Len(r) : r[m] = q[n]
  <2>1. \A n \in 1 .. l : k + n \in 1 .. Len(r) /\ r[k + n] = q[n]
    BY <1>2, <1>4
  <2> QED
    BY <2>1
<1>14. r = Front(p) \o q /\ l = Len(q)
  BY DEF r, f, l
<1> QED
  BY <1>12, <1>13, <1>14

\* What a route is that starts at at[2] with the targets at[1] left
Collects(route, at) ==
  /\ \E n \in 1 .. 3 : Path(route, at[2], ENTRANCE_BLOCKS[n])
  /\ \A t \in at[1] : \E n \in 1 .. Len(route) : route[n] = t

\* One stretch on, a route that starts there
Prefixed(cur, t, rests) == {Front(shortest_path(cur, t)) \o rest : rest \in rests}

\* The routes from at, given those of where R2 is next
RoutesFrom(f, at) ==
  IF \A t \in Nearest(at[2], at[1]) : shortest_path(at[2], t) = << >>
    THEN {exit_path(at[2])}
    ELSE UNION {Prefixed(at[2], t, f[<<at[1] \ {t}, t>>]) : t \in Nearest(at[2], at[1])}

Places(start, targets) == (SUBSET targets) \X (targets \cup {start})

LEMMA RoutesFromCongruent ==
  ASSUME NEW f, NEW g, NEW at,
         \A t \in Nearest(at[2], at[1]) : f[<<at[1] \ {t}, t>>] = g[<<at[1] \ {t}, t>>]
  PROVE  RoutesFrom(f, at) = RoutesFrom(g, at)
BY DEF RoutesFrom

\* The next place of a route is one with fewer targets left.
LEMMA NextPlace ==
  ASSUME NEW start \in Blocks, NEW targets \in SUBSET Blocks,
         NEW at \in Places(start, targets), NEW t \in Nearest(at[2], at[1])
  PROVE  /\ at[2] \in Blocks /\ at[1] \in SUBSET Blocks /\ t \in at[1] /\ t \in Blocks
         /\ <<at[1] \ {t}, t>> \in Places(start, targets)
         /\ IsFiniteSet(at[1]) /\ Cardinality(at[1]) \in Nat
         /\ Cardinality(at[1] \ {t}) = Cardinality(at[1]) - 1
<1>1. at[1] \in SUBSET targets /\ at[2] \in targets \cup {start}
  BY DEF Places
<1>2. t \in at[1]
  BY DEF Nearest
<1>3. at[1] \in SUBSET Blocks /\ at[2] \in Blocks /\ t \in targets
  BY <1>1, <1>2
<1>4. <<at[1] \ {t}, t>> \in Places(start, targets)
  BY <1>1, <1>3 DEF Places
<1>5. IsFiniteSet(at[1])
  BY <1>3, Forest, FS_Subset
<1>6. Cardinality(at[1]) \in Nat
  BY <1>5, FS_CardinalityType
<1>7. Cardinality(at[1] \ {t}) = Cardinality(at[1]) - 1
  BY <1>2, <1>5, FS_RemoveElement
<1> QED
  BY <1>2, <1>3, <1>4, <1>5, <1>6, <1>7

\* The recursion of Routes is one: each step leaves fewer targets.
LEMMA RoutesSteps ==
  ASSUME NEW start \in Blocks, NEW targets \in SUBSET Blocks
  PROVE  \A at \in Places(start, targets) :
           Routes(start, targets)[at] = RoutesFrom(Routes(start, targets), at)
<1> DEFINE D == Places(start, targets)
           C == Cardinality(targets)
           Upto(k) == {at \in D : Cardinality(at[1]) <= k}
           E(f) == f = [at \in D |-> RoutesFrom(f, at)]
           Good(k) == \E f : f = [at \in Upto(k) |-> RoutesFrom(f, at)]
           T == {k \in 0 .. C : Good(k)}
<1>1. IsFiniteSet(targets) /\ C \in Nat
  BY Forest, FS_Subset, FS_CardinalityType
<1>2. \A at \in D : Cardinality(at[1]) \in 0 .. C
  <2> SUFFICES ASSUME NEW at \in D PROVE Cardinality(at[1]) \in 0 .. C
    OBVIOUS
  <2>1. at[1] \in SUBSET targets
    BY DEF Places
  <2> QED
    BY <2>1, <1>1, FS_Subset, FS_CardinalityType
<1>3. 0 \in T
  <2> DEFINE f == [at \in Upto(0) |-> {exit_path(at[2])}]
  <2>1. ASSUME NEW at \in Upto(0), NEW g
        PROVE  RoutesFrom(g, at) = {exit_path(at[2])}
    <3>1. ASSUME NEW t \in Nearest(at[2], at[1])
          PROVE  FALSE
      <4>1. Cardinality(at[1]) \in Nat /\ Cardinality(at[1]) <= 0
        BY <1>2
      <4>2. at \in Places(start, targets)
        OBVIOUS
      <4>3. /\ at[1] \in SUBSET Blocks /\ t \in at[1]
        BY <4>2, NextPlace
      <4>4. IsFiniteSet(at[1])
        BY <4>2, <3>1, NextPlace
      <4>5. at[1] = {}
        BY <4>1, <4>4, FS_EmptySet
      <4> QED
        BY <4>3, <4>5
    <3> QED
      BY <3>1 DEF RoutesFrom
  <2>2. f = [at \in Upto(0) |-> RoutesFrom(f, at)]
    <3>1. \A at \in Upto(0) : RoutesFrom(f, at) = {exit_path(at[2])}
      BY <2>1
    <3> QED
      BY <3>1
  <2>3. Good(0)
    <3> HIDE DEF f, Upto
    <3> QED
      BY <2>2
  <2> HIDE DEF Good
  <2> QED
    BY <2>3, <1>1
<1>4. ASSUME NEW k \in 1 .. C, k - 1 \in T
      PROVE  k \in T
  <2>1. PICK g : g = [at \in Upto(k - 1) |-> RoutesFrom(g, at)]
    BY <1>4
  <2> DEFINE f == [at \in Upto(k) |-> RoutesFrom(g, at)]
  <2>2. ASSUME NEW at \in Upto(k)
        PROVE  RoutesFrom(f, at) = RoutesFrom(g, at)
    <3>1. ASSUME NEW t \in Nearest(at[2], at[1])
          PROVE  f[<<at[1] \ {t}, t>>] = g[<<at[1] \ {t}, t>>]
      <4> DEFINE next == <<at[1] \ {t}, t>>
      <4>1. /\ next \in D /\ Cardinality(at[1]) \in Nat
            /\ Cardinality(next[1]) = Cardinality(at[1]) - 1
        BY <3>1, NextPlace
      <4>2. Cardinality(at[1]) <= k
        OBVIOUS
      <4> HIDE DEF next, D
      <4>3. next \in Upto(k - 1) /\ next \in Upto(k)
        BY <4>1, <4>2
      <4>4. f[next] = RoutesFrom(g, next)
        BY <4>3
      <4>5. g[next] = RoutesFrom(g, next)
        <5> HIDE DEF Upto
        <5> QED
          BY <2>1, <4>3, Zenon
      <4> QED
        BY <4>4, <4>5 DEF next
    <3> HIDE DEF f
    <3> QED
      BY <3>1, RoutesFromCongruent
  <2>3. f = [at \in Upto(k) |-> RoutesFrom(f, at)]
    BY <2>2
  <2>4. Good(k)
    <3> HIDE DEF f, Upto
    <3> QED
      BY <2>3
  <2>5. k \in 0 .. C
    BY <1>1
  <2> HIDE DEF Good
  <2> QED
    BY <2>4, <2>5
<1>5. C \in T
  <2>1. \A k \in 1 .. C : k - 1 \in T => k \in T
    BY <1>4
  <2> HIDE DEF T, C
  <2> QED
    BY <1>1, <1>3, <2>1, UpTo
<1>6. PICK f : f = [at \in Upto(C) |-> RoutesFrom(f, at)]
  BY <1>5
<1>7. Upto(C) = D
  <2> HIDE DEF D, C
  <2>1. \A at \in D : Cardinality(at[1]) <= C
    BY <1>1, <1>2
  <2> QED
    BY <2>1
<1>8. E(f)
  <2> HIDE DEF Upto, D, C
  <2> QED
    BY <1>6, <1>7
<1>9. Routes(start, targets) = CHOOSE g : E(g)
  BY DEF Routes, RoutesFrom, Places, Prefixed
<1>10. E(Routes(start, targets))
  <2> HIDE DEF E
  <2> QED
    BY <1>8, <1>9
<1> QED
  BY <1>10, Zenon

\* Every route from a place collects what is left there.
LEMMA RoutesRight ==
  ASSUME NEW start \in Blocks, NEW targets \in SUBSET Blocks
  PROVE  \A at \in Places(start, targets) :
           \A route \in Routes(start, targets)[at] : Collects(route, at)
<1> DEFINE D == Places(start, targets)
           C == Cardinality(targets)
           R == Routes(start, targets)
           Good(k) == \A at \in D : Cardinality(at[1]) <= k =>
                                       \A route \in R[at] : Collects(route, at)
           T == {k \in 0 .. C : Good(k)}
<1>1. IsFiniteSet(targets) /\ C \in Nat
  BY Forest, FS_Subset, FS_CardinalityType
<1>2. ASSUME NEW at \in D
      PROVE  /\ at[1] \in SUBSET targets /\ at[1] \in SUBSET Blocks /\ at[2] \in Blocks
             /\ IsFiniteSet(at[1]) /\ Cardinality(at[1]) \in 0 .. C
  <2>1. at[1] \in SUBSET targets /\ at[2] \in Blocks
    BY DEF Places
  <2> QED
    BY <2>1, <1>1, FS_Subset, FS_CardinalityType
<1>3. \A at \in D : R[at] = RoutesFrom(R, at)
  BY RoutesSteps
<1> HIDE DEF R
\* Nothing left: R2 leaves the forest.
<1>4. ASSUME NEW at \in D, at[1] = {}, NEW route \in R[at]
      PROVE  Collects(route, at)
  <2>1. route = exit_path(at[2])
    <3>1. Nearest(at[2], at[1]) = {}
      BY <1>4 DEF Nearest
    <3>2. route \in RoutesFrom(R, at)
      BY <1>3
    <3> QED
      BY <3>1, <3>2 DEF RoutesFrom
  <2>2. at[2] \in Blocks
    BY <1>2
  <2> QED
    BY <1>4, <2>1, <2>2, ExitIsPath DEF Collects
\* Something left: a path to a target that is nearest, and a route from there.
<1>5. ASSUME NEW at \in D, at[1] # {}, NEW route \in R[at],
             \A next \in D : Cardinality(next[1]) < Cardinality(at[1]) =>
                \A rest \in R[next] : Collects(rest, next)
      PROVE  Collects(route, at)
  <2>1. Nearest(at[2], at[1]) # {}
    BY <1>2, <1>5, NearestIsThere
  <2>2. \A t \in Nearest(at[2], at[1]) : Path(shortest_path(at[2], t), at[2], t)
    BY NextPlace, ShortestIsPath
  <2>3. ~ \A t \in Nearest(at[2], at[1]) : shortest_path(at[2], t) = << >>
    BY <2>1, <2>2 DEF Path
  <2>4. route \in RoutesFrom(R, at)
    BY <1>3
  <2>5. PICK t \in Nearest(at[2], at[1]) :
          route \in Prefixed(at[2], t, R[<<at[1] \ {t}, t>>])
    BY <2>3, <2>4 DEF RoutesFrom
  <2> DEFINE next == <<at[1] \ {t}, t>>
             p == shortest_path(at[2], t)
  <2>6. PICK rest \in R[next] : route = Front(p) \o rest
    BY <2>5 DEF Prefixed
  <2>7. next \in D /\ Cardinality(next[1]) < Cardinality(at[1]) /\ next[2] = t
    <3>1. /\ next \in Places(start, targets) /\ Cardinality(at[1]) \in Nat
          /\ Cardinality(at[1] \ {t}) = Cardinality(at[1]) - 1
      BY NextPlace
    <3> QED
      BY <3>1
  <2>8. Collects(rest, next)
    <3> HIDE DEF next
    <3> QED
      BY <1>5, <2>7
  <2>9. PICK n \in 1 .. 3 : Path(rest, t, ENTRANCE_BLOCKS[n])
    BY <2>7, <2>8 DEF Collects
  <2>10. /\ Path(route, at[2], ENTRANCE_BLOCKS[n])
         /\ \A i \in 1 .. Len(rest) : \E m \in 1 .. Len(route) : route[m] = rest[i]
    <3> HIDE DEF p
    <3>1. Path(p, at[2], t)
      BY <2>2 DEF p
    <3> QED
      BY <2>6, <2>9, <3>1, PathsJoin
  <2>11. ASSUME NEW b \in at[1]
         PROVE  \E m \in 1 .. Len(route) : route[m] = b
    <3>1. CASE b = t
      <4>1. 1 \in 1 .. Len(rest) /\ rest[1] = t
        BY <2>9 DEF Path
      <4> QED
        BY <3>1, <4>1, <2>10
    <3>2. CASE b # t
      <4>1. b \in next[1]
        BY <3>2
      <4>2. PICK i \in 1 .. Len(rest) : rest[i] = b
        BY <4>1, <2>8 DEF Collects
      <4> QED
        BY <4>2, <2>10
    <3> QED
      BY <3>1, <3>2
  <2> QED
    BY <2>10, <2>11 DEF Collects
<1>6. 0 \in T
  <2>1. ASSUME NEW at \in D, Cardinality(at[1]) <= 0
        PROVE  at[1] = {}
    BY <2>1, <1>2, FS_EmptySet
  <2>2. 0 \in 0 .. C
    BY <1>1
  <2>3. Good(0)
    BY <2>1, <1>4
  <2> HIDE DEF Good
  <2> QED
    BY <2>2, <2>3
<1>7. ASSUME NEW k \in 1 .. C, k - 1 \in T
      PROVE  k \in T
  <2>1. ASSUME NEW at \in D, Cardinality(at[1]) <= k, NEW route \in R[at]
        PROVE  Collects(route, at)
    <3>1. CASE at[1] = {}
      BY <3>1, <2>1, <1>4
    <3>2. CASE at[1] # {}
      <4>1. ASSUME NEW next \in D, Cardinality(next[1]) < Cardinality(at[1]),
                   NEW rest \in R[next]
            PROVE  Collects(rest, next)
        <5>1. Cardinality(next[1]) \in Nat /\ Cardinality(at[1]) \in Nat
          BY <1>2
        <5>2. Cardinality(next[1]) <= k - 1
          BY <5>1, <4>1, <2>1
        <5> HIDE DEF D, C
        <5> QED
          BY <5>2, <4>1, <1>7
      <4> QED
        BY <3>2, <4>1, <2>1, <1>5
    <3> QED
      BY <3>1, <3>2
  <2>2. k \in 0 .. C
    BY <1>1
  <2>3. Good(k)
    BY <2>1
  <2> HIDE DEF Good
  <2> QED
    BY <2>2, <2>3
<1>8. C \in T
  <2>1. \A k \in 1 .. C : k - 1 \in T => k \in T
    BY <1>7
  <2> HIDE DEF T, C
  <2> QED
    BY <1>1, <1>6, <2>1, UpTo
<1>9. \A at \in D : \A route \in R[at] : Collects(route, at)
  <2>1. \A at \in D : Cardinality(at[1]) <= C
    BY <1>1, <1>2
  <2> HIDE DEF D, C
  <2> QED
    BY <2>1, <1>8
<1> QED
  BY <1>9 DEF R

\* Deduped takes nothing from a path: no block of it follows itself.
LEMMA DedupedPath ==
  ASSUME NEW p, NEW a, NEW b, Path(p, a, b)
  PROVE  Deduped(p) = p
<1> DEFINE l == Len(p)
           E(f) == f = [n \in 0 .. l |->
                          IF n = 0 THEN << >>
                          ELSE IF n = 1 \/ p[n] # p[n - 1] THEN Append(f[n - 1], p[n])
                          ELSE f[n - 1]]
           upTo == CHOOSE f : E(f)
           f == [n \in 0 .. l |-> SubSeq(p, 1, n)]
           T == {n \in 0 .. l : upTo[n] = SubSeq(p, 1, n)}
<1>1. p \in Seq(Blocks) /\ l \in Nat
  BY DEF Path
<1>2. \A n \in 1 .. l : n = 1 \/ p[n] # p[n - 1]
  <2> SUFFICES ASSUME NEW n \in 1 .. l, n # 1 PROVE p[n] # p[n - 1]
    OBVIOUS
  <2>1. n - 1 \in 1 .. l - 1 /\ n - 1 \in 1 .. l /\ n - 1 + 1 = n
    BY <1>1
  <2>2. p[n - 1] \in Blocks /\ p[n] \in FOREST_LAYOUT[p[n - 1]]
    BY <1>1, <2>1 DEF Path
  <2> QED
    BY <2>2, Forest
<1>3. Deduped(p) = upTo[l]
  BY DEF Deduped
<1>4. SubSeq(p, 1, 0) = << >> /\ SubSeq(p, 1, l) = p
  BY <1>1
<1>5. ASSUME NEW n \in 1 .. l
      PROVE  SubSeq(p, 1, n) = Append(SubSeq(p, 1, n - 1), p[n])
  BY <1>1
<1> HIDE DEF l
<1>6. f = [n \in 0 .. l |->
             IF n = 0 THEN << >>
             ELSE IF n = 1 \/ p[n] # p[n - 1] THEN Append(f[n - 1], p[n])
             ELSE f[n - 1]]
  <2>1. f[0] = << >>
    BY <1>1, <1>4
  <2>2. \A n \in 1 .. l : f[n] = Append(f[n - 1], p[n])
    <3> SUFFICES ASSUME NEW n \in 1 .. l PROVE f[n] = Append(f[n - 1], p[n])
      OBVIOUS
    <3>1. n \in 0 .. l /\ n - 1 \in 0 .. l
      BY <1>1
    <3> QED
      BY <3>1, <1>5
  <2>3. f = [n \in 0 .. l |-> f[n]]
    OBVIOUS
  <2>4. \A n \in 0 .. l : n = 0 \/ n \in 1 .. l
    BY <1>1
  <2> HIDE DEF f
  <2>5. \A n \in 0 .. l : f[n] = IF n = 0 THEN << >>
                                 ELSE IF n = 1 \/ p[n] # p[n - 1] THEN Append(f[n - 1], p[n])
                                 ELSE f[n - 1]
    BY <2>1, <2>2, <2>4, <1>2
  <2> QED
    BY <2>3, <2>5
<1>7. E(f)
  <2> HIDE DEF f
  <2> QED
    BY <1>6
<1>8. E(upTo)
  <2> HIDE DEF E, f
  <2> QED
    BY <1>7
<1> HIDE DEF upTo
<1>9. upTo[0] = << >> /\ \A n \in 1 .. l : upTo[n] = Append(upTo[n - 1], p[n])
  <2>1. \A n \in 1 .. l : n \in 0 .. l /\ n # 0
    BY <1>1
  <2>2. 0 \in 0 .. l
    BY <1>1
  <2> QED
    BY <2>1, <2>2, <1>2, <1>8
<1>10. 0 \in T
  <2>1. 0 \in 0 .. l /\ upTo[0] = SubSeq(p, 1, 0)
    BY <1>1, <1>4, <1>9
  <2> QED
    BY <2>1
<1>11. \A n \in 1 .. l : n - 1 \in T => n \in T
  <2> SUFFICES ASSUME NEW n \in 1 .. l, n - 1 \in T PROVE n \in T
    OBVIOUS
  <2>1. upTo[n] = SubSeq(p, 1, n)
    BY <1>5, <1>9
  <2> QED
    BY <1>1, <2>1
<1>12. l \in T
  <2>1. l \in 0 .. l /\ l \in Nat
    BY <1>1 DEF l
  <2> HIDE DEF T
  <2>2. \A n \in 0 .. l : n \in T
    BY <1>10, <1>11, <2>1, UpTo
  <2> QED
    BY <2>1, <2>2
<1> QED
  BY <1>3, <1>4, <1>12

\* What plan_route promises
LEMMA PlannedCollects ==
  ASSUME NEW start \in Blocks, NEW targets \in SUBSET Blocks,
         NEW route \in plan_route(start, targets)
  PROVE  Collects(route, <<targets, start>>)
<1>1. PICK r \in Routes(start, targets)[<<targets, start>>] : route = Deduped(r)
  BY DEF plan_route
<1> DEFINE at == <<targets, start>>
<1>2. at \in Places(start, targets)
  BY DEF Places
<1>3. Collects(r, at)
  <2> HIDE DEF at
  <2>1. r \in Routes(start, targets)[at]
    BY DEF at
  <2> QED
    BY <1>2, <2>1, RoutesRight
<1>4. Deduped(r) = r
  <2>1. PICK n \in 1 .. 3 : Path(r, at[2], ENTRANCE_BLOCKS[n])
    BY <1>3 DEF Collects
  <2> QED
    BY <2>1, DedupedPath
<1> QED
  BY <1>1, <1>3, <1>4

\* Every route planned in a match goes from the first entrance past all blocks to
\* collect from and out by an entrance, from block to neighbouring block, for sets
\* of targets of any size.
THEOREM RoutesCollectAll == Spec => []RoutesCollect
<1>1. ASSUME NEW targets \in SUBSET Blocks, NEW route \in plan_route(ENTRANCE_BLOCKS[1], targets)
      PROVE  /\ route # << >> /\ Head(route) = ENTRANCE_BLOCKS[1]
             /\ targets \subseteq ToSet(route) /\ Last(route) \in ToSet(ENTRANCE_BLOCKS)
             /\ \A n \in 1 .. Len(route) - 1 : route[n + 1] \in FOREST_LAYOUT[route[n]]
  <2> DEFINE at == <<targets, ENTRANCE_BLOCKS[1]>>
  <2>1. ENTRANCE_BLOCKS[1] \in Blocks /\ DOMAIN ENTRANCE_BLOCKS = 1 .. 3
    BY Forest
  <2>2. Collects(route, at)
    BY <2>1, PlannedCollects
  <2>3. at[1] = targets /\ at[2] = ENTRANCE_BLOCKS[1]
    OBVIOUS
  <2> HIDE DEF at
  <2>4. PICK e \in 1 .. 3 : Path(route, ENTRANCE_BLOCKS[1], ENTRANCE_BLOCKS[e])
    BY <2>2, <2>3 DEF Collects
  <2>5. /\ route \in Seq(Blocks) /\ route # << >> /\ route[1] = ENTRANCE_BLOCKS[1]
        /\ \A n \in 1 .. Len(route) - 1 : route[n + 1] \in FOREST_LAYOUT[route[n]]
    BY <2>4 DEF Path
  <2>6. Head(route) = route[1] /\ DOMAIN route = 1 .. Len(route)
    BY <2>5
  <2>7. targets \subseteq ToSet(route)
    BY <2>2, <2>3, <2>6 DEF Collects, ToSet
  <2>8. Last(route) \in ToSet(ENTRANCE_BLOCKS)
    BY <2>1, <2>4 DEF Path, Last, ToSet
  <2> QED
    BY <2>5, <2>6, <2>7, <2>8
<1>2. RoutesCollect
  BY <1>1 DEF RoutesCollect
<1>3. RoutesCollect'
  <2>1. \A targets \in SUBSET Blocks : \A route \in plan_route(ENTRANCE_BLOCKS[1], targets) :
          /\ route # << >> /\ Head(route) = ENTRANCE_BLOCKS[1]
          /\ targets \subseteq ToSet(route) /\ Last(route) \in ToSet(ENTRANCE_BLOCKS)
          /\ \A n \in 1 .. Len(route) - 1 : route[n + 1] \in FOREST_LAYOUT[route[n]]
    BY <1>1
  <2> QED
    BY <2>1 DEF RoutesCollect
<1> QED
  BY <1>2, <1>3, PTL DEF Spec

-----------------------------------------------------------------------------
(* Link: the checksum *)

\* u is the exclusive or of the first bytes of s.
Xors(u, c, s) ==
  /\ u \in [0 .. Len(s) -> Byte] /\ u[0] = c
  /\ \A k \in 1 .. Len(s) : u[k] = XorOf(u[k - 1], s[k])

LEMMA XorSteps ==
  ASSUME NEW c \in Byte, NEW s \in Seq(Byte)
  PROVE  \E u : Xors(u, c, s) /\ XorFrom(c, s) = u[Len(s)]
<1> DEFINE n == Len(s)
           t == [k \in 1 .. n |-> [b \in Byte |-> XorOf(b, s[k])]]
           E(f) == f = [k \in 0 .. n |-> IF k = 0 THEN c ELSE XorOf(f[k - 1], s[k])]
<1>0. n \in Nat /\ \A k \in 1 .. n : s[k] \in Byte
  OBVIOUS
<1>1. t \in [1 .. n -> [Byte -> Byte]]
  BY <1>0, XorAssumption
<1>2. \A k \in 1 .. n, b \in Byte : t[k][b] = XorOf(b, s[k])
  OBVIOUS
<1> HIDE DEF t
<1>3. PICK f \in [0 .. n -> Byte] : Built(f, n, c, t)
  <2> HIDE DEF n
  <2> QED
    BY <1>0, <1>1, Recursion
<1> HIDE DEF n
<1>4. f[0] = c /\ \A k \in 1 .. n : f[k] = XorOf(f[k - 1], s[k])
  <2>1. \A k \in 1 .. n : k - 1 \in 0 .. n /\ f[k - 1] \in Byte
    BY <1>0, <1>3
  <2> QED
    BY <2>1, <1>2, <1>3 DEF Built
<1>5. E(f)
  <2>1. \A k \in 0 .. n : k = 0 \/ k \in 1 .. n
    BY <1>0
  <2> QED
    BY <2>1, <1>3, <1>4
<1> DEFINE F == CHOOSE g : E(g)
<1>6. XorFrom(c, s) = F[n]
  BY Zenon DEF XorFrom, n
<1>7. E(F)
  <2> HIDE DEF E
  <2> QED
    BY <1>5
<1> HIDE DEF F
<1>8. F[0] = c /\ \A k \in 1 .. n : F[k] = XorOf(F[k - 1], s[k])
  <2>1. 0 \in 0 .. n /\ \A k \in 1 .. n : k \in 0 .. n /\ k # 0
    BY <1>0
  <2> QED
    BY <2>1, <1>7
<1> DEFINE T == {k \in 0 .. n : F[k] = f[k]}
<1>9. \A k \in 0 .. n : k \in T
  <2>1. 0 \in T
    BY <1>0, <1>4, <1>8
  <2>2. ASSUME NEW k \in 1 .. n, k - 1 \in T PROVE k \in T
    BY <2>2, <1>0, <1>4, <1>8
  <2> HIDE DEF T
  <2> QED
    BY <1>0, <2>1, <2>2, UpTo
<1>10. XorFrom(c, s) = f[n]
  BY <1>0, <1>6, <1>9
<1>11. Xors(f, c, s)
  BY <1>3, <1>4 DEF Xors, n
<1> QED
  BY <1>10, <1>11 DEF n

LEMMA XorIsByte ==
  ASSUME NEW c \in Byte, NEW s \in Seq(Byte)
  PROVE  XorFrom(c, s) \in Byte
<1>1. PICK u : Xors(u, c, s) /\ XorFrom(c, s) = u[Len(s)]
  BY XorSteps
<1>2. Len(s) \in 0 .. Len(s)
  OBVIOUS
<1> QED
  BY <1>1, <1>2 DEF Xors

\* What differs once goes on to differ.
LEMMA StaysApart ==
  ASSUME NEW c \in Byte, NEW d \in Byte, NEW s \in Seq(Byte), NEW t \in Seq(Byte),
         Len(s) = Len(t), NEW u, NEW v, Xors(u, c, s), Xors(v, d, t),
         NEW i \in 0 .. Len(s), u[i] # v[i],
         \A k \in i + 1 .. Len(s) : s[k] = t[k]
  PROVE  u[Len(s)] # v[Len(s)]
<1> DEFINE n == Len(s)
           T == {k \in 0 .. n - i : u[i + k] # v[i + k]}
<1>0. n \in Nat /\ i \in Nat /\ n - i \in Nat /\ i + 0 = i /\ i + (n - i) = n
  OBVIOUS
<1>1. 0 \in T
  BY <1>0
<1>2. ASSUME NEW k \in 1 .. n - i, k - 1 \in T
      PROVE  k \in T
  <2>1. i + k \in 1 .. n /\ i + k \in i + 1 .. n /\ i + (k - 1) = (i + k) - 1
        /\ (i + k) - 1 \in 0 .. n /\ i + k \in 1 .. Len(t) /\ (i + k) - 1 \in 0 .. Len(t)
    BY <1>0
  <2>2. u[i + k] = XorOf(u[(i + k) - 1], s[i + k]) /\ v[i + k] = XorOf(v[(i + k) - 1], t[i + k])
    BY <2>1 DEF Xors
  <2>3. u[(i + k) - 1] \in Byte /\ v[(i + k) - 1] \in Byte /\ s[i + k] = t[i + k]
        /\ s[i + k] \in Byte
    BY <2>1 DEF Xors
  <2>4. u[(i + k) - 1] # v[(i + k) - 1]
    BY <1>2, <2>1
  <2>5. u[i + k] # v[i + k]
    BY <2>2, <2>3, <2>4, XorAssumption
  <2> QED
    BY <2>5, <1>0
<1> HIDE DEF n
<1>3. n - i \in T
  <2>1. n - i \in 0 .. n - i
    BY <1>0
  <2> HIDE DEF T
  <2> QED
    BY <1>0, <1>1, <1>2, <2>1, UpTo
<1>4. u[i + (n - i)] # v[i + (n - i)]
  BY <1>3
<1> QED
  BY <1>0, <1>4 DEF n

\* Another first value, or one other byte, makes another checksum.
LEMMA XorTellsStart ==
  ASSUME NEW c \in Byte, NEW d \in Byte, NEW s \in Seq(Byte), c # d
  PROVE  XorFrom(c, s) # XorFrom(d, s)
<1>1. PICK u : Xors(u, c, s) /\ XorFrom(c, s) = u[Len(s)]
  BY XorSteps
<1>2. PICK v : Xors(v, d, s) /\ XorFrom(d, s) = v[Len(s)]
  BY XorSteps
<1>3. 0 \in 0 .. Len(s) /\ u[0] # v[0]
  BY <1>1, <1>2 DEF Xors
<1>4. u[Len(s)] # v[Len(s)]
  BY <1>1, <1>2, <1>3, StaysApart
<1> QED
  BY <1>1, <1>2, <1>4

LEMMA XorTells ==
  ASSUME NEW c \in Byte, NEW s \in Seq(Byte), NEW t \in Seq(Byte), Len(s) = Len(t),
         NEW j \in 1 .. Len(s), s[j] # t[j], \A k \in 1 .. Len(s) : k # j => s[k] = t[k]
  PROVE  XorFrom(c, s) # XorFrom(c, t)
<1>1. PICK u : Xors(u, c, s) /\ XorFrom(c, s) = u[Len(s)]
  BY XorSteps
<1>2. PICK v : Xors(v, c, t) /\ XorFrom(c, t) = v[Len(t)]
  BY XorSteps
<1> DEFINE T == {k \in 0 .. j - 1 : u[k] = v[k]}
<1>3. 0 \in T /\ j - 1 \in Nat
  BY <1>1, <1>2 DEF Xors
<1>4. ASSUME NEW k \in 1 .. j - 1, k - 1 \in T
      PROVE  k \in T
  <2>1. k \in 1 .. Len(s) /\ k \in 1 .. Len(t) /\ k # j
    OBVIOUS
  <2> QED
    BY <2>1, <1>1, <1>2, <1>4 DEF Xors
<1>5. j - 1 \in T
  <2>1. j - 1 \in 0 .. j - 1
    OBVIOUS
  <2> HIDE DEF T
  <2> QED
    BY <1>3, <1>4, <2>1, UpTo
<1>6. u[j - 1] = v[j - 1] /\ u[j - 1] \in Byte /\ s[j] \in Byte /\ t[j] \in Byte
  <2>1. j - 1 \in 0 .. Len(s)
    OBVIOUS
  <2> QED
    BY <1>1, <1>5, <2>1 DEF Xors
<1>7. u[j] = XorOf(u[j - 1], s[j]) /\ v[j] = XorOf(v[j - 1], t[j])
  BY <1>1, <1>2 DEF Xors
<1>8. u[j] # v[j]
  BY <1>6, <1>7, XorAssumption
<1>10. j \in 0 .. Len(s) /\ \A k \in j + 1 .. Len(s) : s[k] = t[k]
  OBVIOUS
<1>9. u[Len(s)] # v[Len(s)]
  BY <1>1, <1>2, <1>8, <1>10, StaysApart
<1> QED
  BY <1>1, <1>2, <1>9

-----------------------------------------------------------------------------
(* Link: the layout of items *)

LEMMA Products ==
  ASSUME NEW b \in Nat \ {0}, NEW q \in Int
  PROVE  /\ b * q \in Int /\ (q >= 0 => b * q >= 0)
         /\ (q >= 1 => b * q >= b) /\ (q <= -1 => b * q <= -b)
  OBVIOUS

LEMMA QuotientRight ==
  ASSUME NEW size \in Nat \ {0}, NEW k \in Nat, NEW j \in 0 .. size - 1
  PROVE  /\ size * k \in Nat
         /\ (size * k + j) \div size = k
         /\ (size * k + j) % size = j
<1>1. size * k \in Nat
  OBVIOUS
<1> DEFINE a == size * k + j
           q == a \div size
<1>2. a \in Nat /\ q \in Int /\ a = size * q + (a % size) /\ a % size \in 0 .. size - 1
  BY <1>1
<1>3. size * q - size * k = j - (a % size)
  BY <1>1, <1>2
<1>4. size * (q - k) = size * q - size * k
  BY <1>2
<1>5. q - k = 0
  <2> DEFINE d == q - k
  <2>1. d \in Int /\ (d >= 1 => size * d >= size) /\ (d <= -1 => size * d <= -size)
    BY <1>2
  <2>2. size * d < size /\ size * d > -size
    BY <1>2, <1>3, <1>4
  <2> HIDE DEF d
  <2> QED
    BY <2>1, <2>2
<1>6. q = k
  BY <1>2, <1>5
<1> QED
  BY <1>1, <1>2, <1>6

\* Where item k is
LEMMA ItemPlaces ==
  ASSUME NEW size \in Nat \ {0}, NEW n \in Nat, NEW k \in 1 .. n, NEW j \in 1 .. size
  PROVE  /\ size * n \in Nat /\ size * (k - 1) \in Nat /\ (k - 1) * size = size * (k - 1)
         /\ size * (k - 1) + size <= size * n
         /\ size * (k - 1) + j \in 1 .. size * n
<1>1. k - 1 \in Nat /\ n - k \in Nat
  OBVIOUS
<1>2. size * (k - 1) \in Nat /\ size * n \in Nat /\ (k - 1) * size = size * (k - 1)
  BY <1>1
<1>3. size * n = size * (k - 1) + size + size * (n - k) /\ size * (n - k) \in Nat
  BY <1>1
<1> QED
  BY <1>2, <1>3

LEMMA BytesRight ==
  ASSUME NEW items \in Seq(Seq(Byte)), NEW size \in Nat \ {0},
         \A k \in DOMAIN items : Len(items[k]) = size
  PROVE  /\ Bytes(items, size) \in Seq(Byte) /\ Len(Bytes(items, size)) = size * Len(items)
         /\ size * Len(items) \in Nat
         /\ \A k \in 1 .. Len(items), j \in 1 .. size :
              Bytes(items, size)[size * (k - 1) + j] = items[k][j]
<1> DEFINE n == Len(items)
           b == Bytes(items, size)
<1>1. n \in Nat /\ \A k \in 1 .. n : items[k] \in Seq(Byte) /\ Len(items[k]) = size
  OBVIOUS
<1>2. size * n \in Nat
  BY <1>1
<1>3. ASSUME NEW i \in 1 .. size * n
      PROVE  items[(i - 1) \div size + 1][1 + ((i - 1) % size)] \in Byte
  <2> DEFINE q == (i - 1) \div size
  <2>1. i - 1 \in Nat /\ q \in Int /\ i - 1 = size * q + ((i - 1) % size)
        /\ (i - 1) % size \in 0 .. size - 1 /\ i - 1 < size * n
    BY <1>2
  <2>2. q >= 0
    <3> HIDE DEF q
    <3>1. size * q \in Int /\ (q <= -1 => size * q <= -size)
      BY <2>1, Products
    <3> DEFINE r == (i - 1) % size
    <3>3. r < size /\ r \in Int /\ i - 1 = size * q + r /\ i - 1 >= 0
      BY <2>1
    <3> HIDE DEF r
    <3>2. size * q > -size
      BY <3>1, <3>3
    <3> QED
      BY <3>1, <3>2, <2>1
  <2>3. q < n
    <3> HIDE DEF q, n
    <3>1. q - n \in Int /\ size * q \in Int /\ (q - n >= 0 => size * (q - n) >= 0)
      BY <2>1, <1>1, Products
    <3>2. size * (q - n) = size * q - size * n
      BY <2>1, <1>1
    <3>3. size * q < size * n
      BY <2>1, <3>1, <1>2
    <3> QED
      BY <3>1, <3>2, <3>3, <2>1, <1>1, <1>2
  <2>4. q + 1 \in 1 .. n /\ 1 + ((i - 1) % size) \in 1 .. size
    BY <2>1, <2>2, <2>3, <1>1
  <2> HIDE DEF q, n
  <2> QED
    BY <2>4, <1>1 DEF q
<1>4. b \in Seq(Byte) /\ Len(b) = size * n
  <2>1. b = [i \in 1 .. size * n |-> items[(i - 1) \div size + 1][1 + ((i - 1) % size)]]
    BY DEF Bytes
  <2>2. b \in [1 .. size * n -> Byte]
    BY <1>3, <2>1
  <2> HIDE DEF b, n
  <2> QED
    BY <1>2, <2>2
<1>5. ASSUME NEW k \in 1 .. n, NEW j \in 1 .. size
      PROVE  b[size * (k - 1) + j] = items[k][j]
  <2> DEFINE i == size * (k - 1) + j
  <2>1. i \in 1 .. size * n /\ (i - 1) \div size + 1 = k /\ 1 + ((i - 1) % size) = j
    <3> HIDE DEF n
    <3>1. i \in 1 .. size * n
      BY <1>1, ItemPlaces
    <3>2. k - 1 \in Nat /\ j - 1 \in 0 .. size - 1
      BY <1>1
    <3>4. size * (k - 1) \in Nat
      BY <3>2
    <3>5. i - 1 = size * (k - 1) + (j - 1)
      BY <3>4
    <3>6. (size * (k - 1) + (j - 1)) \div size = k - 1 /\ (size * (k - 1) + (j - 1)) % size = j - 1
      BY <3>2, QuotientRight
    <3> HIDE DEF i
    <3>7. (i - 1) \div size = k - 1 /\ (i - 1) % size = j - 1
      BY <3>5, <3>6
    <3>3. (i - 1) \div size + 1 = k /\ 1 + ((i - 1) % size) = j
      BY <3>7
    <3> QED
      BY <3>1, <3>3
  <2>2. b[i] = items[(i - 1) \div size + 1][1 + ((i - 1) % size)]
    <3> HIDE DEF i
    <3> QED
      BY <2>1 DEF Bytes
  <2> QED
    BY <2>1, <2>2
<1> QED
  BY <1>2, <1>4, <1>5

\* The items are found again behind the leading bytes.
LEMMA ItemsRight ==
  ASSUME NEW items \in Seq(Seq(Byte)), NEW size \in Nat \ {0},
         \A k \in DOMAIN items : Len(items[k]) = size,
         NEW lead \in Seq(Byte), NEW n \in 0 .. Len(items)
  PROVE  Items(lead \o Bytes(items, size), Len(lead), size, n) = SubSeq(items, 1, n)
<1> DEFINE p == lead \o Bytes(items, size)
           f == Len(lead)
           b == Bytes(items, size)
<1>1. /\ b \in Seq(Byte) /\ Len(b) = size * Len(items) /\ size * Len(items) \in Nat
      /\ \A k \in 1 .. Len(items), j \in 1 .. size : b[size * (k - 1) + j] = items[k][j]
  BY BytesRight
<1>2. p = lead \o b
  OBVIOUS
<1> HIDE DEF b, p
<1>3. /\ p \in Seq(Byte) /\ Len(p) = f + size * Len(items) /\ f \in Nat
      /\ \A i \in 1 .. size * Len(items) : p[f + i] = b[i]
  <2>1. p \in Seq(Byte) /\ Len(p) = f + Len(b) /\ f \in Nat
    <3>1. lead \in Seq(Byte) /\ b \in Seq(Byte)
      BY <1>1
    <3> QED
      BY <3>1, <1>2, ConcatProperties, LenProperties
  <2>2. \A i \in 1 .. Len(b) : p[f + i] = b[i]
    BY <1>1, <1>2, ConcatProperties
  <2> QED
    BY <2>1, <2>2, <1>1
<1>4. ASSUME NEW k \in 1 .. n
      PROVE  /\ f + (k - 1) * size + size <= Len(p)
             /\ SubSeq(p, f + (k - 1) * size + 1, f + (k - 1) * size + size) = items[k]
  <2> DEFINE at == f + (k - 1) * size
  <2>0. k \in 1 .. Len(items) /\ Len(items) \in Nat /\ items[k] \in Seq(Byte)
        /\ Len(items[k]) = size
    OBVIOUS
  <2>1. ASSUME NEW j \in 1 .. size
        PROVE  /\ size * (k - 1) \in Nat /\ (k - 1) * size = size * (k - 1)
               /\ size * (k - 1) + size <= size * Len(items)
               /\ size * (k - 1) + j \in 1 .. size * Len(items)
    <3> DEFINE m == Len(items)
    <3>1. m \in Nat /\ k \in 1 .. m
      BY <2>0
    <3> HIDE DEF m
    <3>2. /\ size * (k - 1) \in Nat /\ (k - 1) * size = size * (k - 1)
          /\ size * (k - 1) + size <= size * m
          /\ size * (k - 1) + j \in 1 .. size * m
      BY <3>1, ItemPlaces
    <3> QED
      BY <3>2 DEF m
  <2>2. size \in 1 .. size /\ at \in Nat /\ at = f + size * (k - 1) /\ at + size <= Len(p)
    <3>1. size \in 1 .. size
      OBVIOUS
    <3>2. size * (k - 1) \in Nat /\ (k - 1) * size = size * (k - 1)
          /\ size * (k - 1) + size <= size * Len(items)
      BY <2>1, <3>1
    <3>3. at = f + size * (k - 1)
      BY <3>2
    <3> HIDE DEF at, f
    <3> QED
      BY <1>3, <3>1, <3>2, <3>3, SMTT(30)
  <2>3. \A j \in 1 .. size : p[at + j] = items[k][j]
    <3> TAKE j \in 1 .. size
    <3> DEFINE i == size * (k - 1) + j
    <3>1. i \in 1 .. size * Len(items) /\ at + j = f + i
      <4>1. i \in 1 .. size * Len(items) /\ size * (k - 1) \in Nat
        BY <2>1
      <4> QED
        BY <4>1, <2>2, <1>3
    <3>2. b[i] = items[k][j]
      BY <1>1, <2>0
    <3> HIDE DEF i, at
    <3> QED
      BY <3>1, <3>2, <1>3
  <2> HIDE DEF at
  <2>4. SubSeq(p, at + 1, at + size) = items[k]
    <3>1. at + 1 \in Int /\ at + size \in Int /\ 1 .. (at + size) - (at + 1) + 1 = 1 .. size
      BY <2>2
    <3>2. SubSeq(p, at + 1, at + size) = [j \in 1 .. size |-> p[at + 1 + j - 1]]
      BY <3>1, SMTT(30)
    <3>3. \A j \in 1 .. size : p[at + 1 + j - 1] = items[k][j]
      <4>1. \A j \in 1 .. size : at + 1 + j - 1 = at + j
        BY <2>2
      <4> QED
        BY <4>1, <2>3
    <3>4. items[k] = [j \in 1 .. size |-> items[k][j]]
      BY <2>0
    <3> QED
      BY <3>2, <3>3, <3>4
  <2> QED
    BY <2>2, <2>4 DEF at
<1>5. Items(p, f, size, n) = [k \in 1 .. n |-> items[k]]
  BY <1>4 DEF Items
<1>6. SubSeq(items, 1, n) = [k \in 1 .. n |-> items[k]]
  OBVIOUS
<1> QED
  BY <1>5, <1>6 DEF p

-----------------------------------------------------------------------------
(* Link: a frame, and what each side makes of that of the other *)

\* The bytes of a frame
Framed(F, cmd, data) ==
  /\ F \in Seq(Byte) /\ Len(F) = 6 + Len(data)
  /\ F[1] = SYNC1 /\ F[2] = SYNC2 /\ F[3] = cmd
  /\ F[4] + W * F[5] = Len(data)
  /\ \A k \in 1 .. Len(data) : F[5 + k] = data[k]
  /\ F[6 + Len(data)] = calc_chk(cmd, data)

LEMMA Behind ==
  ASSUME NEW s \in Seq(Byte), NEW t \in Seq(Byte)
  PROVE  /\ s \o t \in Seq(Byte) /\ Len(s \o t) = Len(s) + Len(t)
         /\ \A k \in 1 .. Len(s) : (s \o t)[k] = s[k]
         /\ \A k \in 1 .. Len(t) : (s \o t)[Len(s) + k] = t[k]
  OBVIOUS

LEMMA LengthBytes ==
  ASSUME NEW n \in Nat, n < W * W
  PROVE  n % W \in Byte /\ n \div W \in Byte /\ (n % W) + W * (n \div W) = n
<1> DEFINE q == n \div W
           r == n % W
<1>1. W \in Nat \ {0} /\ W > 7
  BY BytesAssumption
<1>2. q \in Int /\ r \in 0 .. W - 1 /\ n = W * q + r
  BY <1>1
<1> HIDE DEF q, r
<1>3. W * q \in Int /\ (q <= -1 => W * q <= -W)
  BY <1>1, <1>2, Products
<1>4. q >= 0
  BY <1>1, <1>2, <1>3
<1>5. q - W \in Int /\ (q - W >= 0 => W * (q - W) >= 0)
  BY <1>1, <1>2, Products
<1>6. W * (q - W) = W * q - W * W
  BY <1>1, <1>2
<1>7. W * W \in Int
  BY <1>1
<1>8. q < W
  BY <1>1, <1>2, <1>3, <1>5, <1>6, <1>7
<1> QED
  BY <1>1, <1>2, <1>3, <1>4, <1>8 DEF Byte, q, r

LEMMA FrameRight ==
  ASSUME NEW cmd \in Byte, NEW data \in Seq(Byte), Len(data) < W * W
  PROVE  /\ Framed(pack_frame(cmd, data), cmd, data)
         /\ send_frame(cmd, data) = pack_frame(cmd, data)
<1> DEFINE lo == Len(data) % W
           hi == Len(data) \div W
           chk == calc_chk(cmd, data)
           h == <<SYNC1, SYNC2, cmd, lo, hi>>
           F == pack_frame(cmd, data)
<1>1. lo \in Byte /\ hi \in Byte /\ lo + W * hi = Len(data) /\ Len(data) \in Nat
  BY LengthBytes
<1>2. chk \in Byte
  BY <1>1, XorAssumption, XorIsByte DEF calc_chk
<1>3. F = h \o data \o <<chk>> /\ send_frame(cmd, data) = F
  BY DEF pack_frame, send_frame, calc_checksum, calc_chk
<1> HIDE DEF lo, hi, chk, F
<1>4. h \in Seq(Byte) /\ Len(h) = 5 /\ <<chk>> \in Seq(Byte) /\ Len(<<chk>>) = 1
  BY <1>1, <1>2, BytesAssumption
<1>5. h[1] = SYNC1 /\ h[2] = SYNC2 /\ h[3] = cmd /\ h[4] = lo /\ h[5] = hi /\ <<chk>>[1] = chk
  OBVIOUS
<1> DEFINE c == <<chk>>
<1>12. c \in Seq(Byte) /\ Len(c) = 1 /\ c[1] = chk /\ F = h \o data \o c
  BY <1>3, <1>4, <1>5
<1> HIDE DEF h, c
<1>6. h \o data \in Seq(Byte) /\ Len(h \o data) = 5 + Len(data)
      /\ (\A k \in 1 .. 5 : (h \o data)[k] = h[k])
      /\ (\A k \in 1 .. Len(data) : (h \o data)[5 + k] = data[k])
  <2>1. h \o data \in Seq(Byte) /\ Len(h \o data) = Len(h) + Len(data)
        /\ (\A k \in 1 .. Len(h) : (h \o data)[k] = h[k])
        /\ (\A k \in 1 .. Len(data) : (h \o data)[Len(h) + k] = data[k])
    BY <1>4, Behind
  <2> QED
    BY <2>1, <1>4
<1> DEFINE g == h \o data
<1>13. g \in Seq(Byte) /\ Len(g) = 5 + Len(data)
      /\ (\A k \in 1 .. 5 : g[k] = h[k])
      /\ (\A k \in 1 .. Len(data) : g[5 + k] = data[k]) /\ F = g \o c
  BY <1>6, <1>12
<1> HIDE DEF g
<1>15. g \o c \in Seq(Byte) /\ Len(g \o c) = Len(g) + Len(c)
       /\ (\A k \in 1 .. Len(g) : (g \o c)[k] = g[k])
       /\ (\A k \in 1 .. Len(c) : (g \o c)[Len(g) + k] = c[k])
  BY <1>12, <1>13, Behind
<1>7. F \in Seq(Byte) /\ Len(F) = 6 + Len(data)
  BY <1>12, <1>13, <1>1, <1>15
<1>8. \A k \in 1 .. Len(g) : F[k] = g[k]
  BY <1>13, <1>15
<1>9. F[6 + Len(data)] = chk
  <2>1. F[Len(g) + 1] = c[1]
    BY <1>12, <1>13, <1>15
  <2>2. Len(g) + 1 = 6 + Len(data)
    BY <1>1, <1>13
  <2> QED
    BY <2>1, <2>2, <1>12
<1>10. F[1] = SYNC1 /\ F[2] = SYNC2 /\ F[3] = cmd /\ F[4] = lo /\ F[5] = hi
  BY <1>1, <1>5, <1>8, <1>13
<1>11. \A k \in 1 .. Len(data) : F[5 + k] = data[k]
  <2>1. \A k \in 1 .. Len(data) : 5 + k \in 1 .. Len(g)
    BY <1>1, <1>13
  <2> QED
    BY <2>1, <1>8, <1>13
<1>14. Framed(F, cmd, data)
  BY <1>1, <1>7, <1>9, <1>10, <1>11 DEF Framed, chk
<1> QED
  BY <1>3, <1>14 DEF F

\* The two sides
Message(side, m) == IF side = "up" THEN UpMessage(m) ELSE DownMessage(m)
Command(side, m) == IF side = "up" THEN UplinkCMD[m.cmd] ELSE rc_cmd_t[m.cmd]
Data(side, m) == IF side = "up" THEN payload_up(m) ELSE pld(m)
Packed(side, m) == IF side = "up" THEN pack_up(m) ELSE send_down(m)

LEMMA Sizes ==
  /\ ItemSize.ODOM \in Nat \ {0} /\ ItemSize.PATH \in Nat \ {0} /\ ItemSize.KFS \in Nat \ {0}
  /\ ItemSize.ZONE_I_PATH \in Nat \ {0} /\ ItemSize.ZONE_I_INFO \in Nat \ {0}
  /\ ItemSize.CMD_RSP \in Nat \ {0}
  /\ \A c \in DOMAIN UplinkCMD : ItemSize[c] \in Nat \ {0}
<1>1. {OdomSize, PointSize, KfsSize} \subseteq Nat \ {0}
  BY SizesAssumption
<1> QED
  BY <1>1 DEF ItemSize, UplinkCMD

\* The count before the items, if there is one
Count(m) == IF m.cmd \in {"ODOM", "CMD_RSP"} THEN << >> ELSE <<Len(m.items)>>

LEMMA UpData ==
  ASSUME NEW m, UpMessage(m)
  PROVE  /\ payload_up(m) = (m.lead \o Count(m)) \o Bytes(m.items, ItemSize[m.cmd])
         /\ m.lead \o Count(m) \in Seq(Byte)
         /\ Len(m.lead \o Count(m)) = Len(m.lead) + Len(Count(m))
         /\ payload_up(m) \in Seq(Byte)
         /\ Len(payload_up(m)) = Len(m.lead) + Len(Count(m)) + ItemSize[m.cmd] * Len(m.items)
         /\ m.items \in Seq(Seq(Byte)) /\ m.lead \in Seq(Byte)
         /\ \A k \in DOMAIN m.items : Len(m.items[k]) = ItemSize[m.cmd]
         /\ ItemSize[m.cmd] \in Nat \ {0}
         /\ m = [cmd |-> m.cmd, lead |-> m.lead, items |-> m.items]
<1>1. /\ m \in [cmd : DOMAIN UplinkCMD, lead : Seq(Byte), items : Seq(Seq(Byte))]
      /\ \A k \in DOMAIN m.items : Len(m.items[k]) = ItemSize[m.cmd]
      /\ Len(m.items) < W
  BY DEF UpMessage
<1>2. m.lead \in Seq(Byte) /\ m.items \in Seq(Seq(Byte)) /\ m.cmd \in DOMAIN UplinkCMD
      /\ m = [cmd |-> m.cmd, lead |-> m.lead, items |-> m.items]
  BY <1>1
<1>3. ItemSize[m.cmd] \in Nat \ {0}
  BY <1>2, Sizes
<1>4. Count(m) \in Seq(Byte)
  <2>1. Len(m.items) \in Byte
    BY <1>1, <1>2, BytesAssumption DEF Byte
  <2> QED
    BY <2>1 DEF Count
<1> DEFINE b == Bytes(m.items, ItemSize[m.cmd])
           l == m.lead \o Count(m)
<1>5. b \in Seq(Byte) /\ Len(b) = ItemSize[m.cmd] * Len(m.items)
  BY <1>1, <1>2, <1>3, BytesRight
<1>6. payload_up(m) = l \o b
  BY DEF payload_up, Count
<1>7. l \in Seq(Byte) /\ Len(l) = Len(m.lead) + Len(Count(m))
  BY <1>2, <1>4, ConcatProperties
<1> HIDE DEF b, l
<1>8. payload_up(m) \in Seq(Byte) /\ Len(payload_up(m)) = Len(l) + Len(b)
  BY <1>5, <1>6, <1>7, ConcatProperties
<1>9. Len(payload_up(m)) = Len(m.lead) + Len(Count(m)) + ItemSize[m.cmd] * Len(m.items)
  BY <1>5, <1>7, <1>8
<1>10. /\ payload_up(m) = (m.lead \o Count(m)) \o Bytes(m.items, ItemSize[m.cmd])
       /\ m.lead \o Count(m) \in Seq(Byte)
       /\ Len(m.lead \o Count(m)) = Len(m.lead) + Len(Count(m))
  BY <1>6, <1>7 DEF b, l
<1> QED
  BY <1>1, <1>2, <1>3, <1>8, <1>9, <1>10

LEMMA CutRight ==
  ASSUME NEW items \in Seq(Seq(Byte)), NEW max \in Nat
  PROVE  /\ AtMost(Len(items), max) \in 0 .. Len(items) /\ AtMost(Len(items), max) <= max
         /\ Cut(items, max) \in Seq(Seq(Byte))
         /\ Len(Cut(items, max)) = AtMost(Len(items), max)
         /\ \A k \in DOMAIN Cut(items, max) : k \in DOMAIN items /\ Cut(items, max)[k] = items[k]
         /\ SubSeq(Cut(items, max), 1, Len(Cut(items, max))) = Cut(items, max)
<1> DEFINE n == AtMost(Len(items), max)
           c == Cut(items, max)
           Q == Seq(Byte)
<1>1. n \in 0 .. Len(items) /\ n <= max
  BY DEF AtMost
<1>2. c = SubSeq(items, 1, n) /\ items \in Seq(Q)
  BY DEF Cut
<1> HIDE DEF n, c, Q
<1>3. c \in Seq(Q) /\ Len(c) = n /\ \A k \in 1 .. n : c[k] = items[k] /\ k \in DOMAIN items
  BY <1>1, <1>2
<1>4. SubSeq(c, 1, Len(c)) = c /\ DOMAIN c = 1 .. n
  BY <1>3
<1> QED
  BY <1>1, <1>3, <1>4 DEF n, c, Q

LEMMA UpHeard ==
  ASSUME NEW m, UpMessage(m)
  PROVE  dispatch_frame(UplinkCMD[m.cmd], payload_up(m))
           = IF m.cmd = "CMD_RSP" THEN << >> ELSE <<Heard(m)>>
<1> DEFINE p == payload_up(m)
           l == m.lead \o Count(m)
           size == ItemSize[m.cmd]
           n == Len(m.items)
<1>1. /\ p = l \o Bytes(m.items, size) /\ l \in Seq(Byte) /\ Len(l) = Len(m.lead) + Len(Count(m))
      /\ p \in Seq(Byte) /\ Len(p) = Len(m.lead) + Len(Count(m)) + size * n
      /\ m.items \in Seq(Seq(Byte)) /\ m.lead \in Seq(Byte)
      /\ \A k \in DOMAIN m.items : Len(m.items[k]) = size
      /\ size \in Nat \ {0}
      /\ m = [cmd |-> m.cmd, lead |-> m.lead, items |-> m.items]
  BY UpData
<1>2. m.cmd \in {"ODOM", "PATH", "KFS", "CMD_RSP", "ZONE_I_PATH"}
  BY DEF UpMessage, UplinkCMD
<1>3. /\ Len(m.lead) = IF m.cmd \in {"ZONE_I_PATH", "CMD_RSP"} THEN 2 ELSE 0
      /\ (m.cmd = "ODOM" => Len(m.items) = 1)
  BY DEF UpMessage
<1>4. n \in Nat /\ size * n \in Nat /\ (n = 1 => size * n = size)
  <2>1. n \in Nat
    BY <1>1
  <2> HIDE DEF n, size
  <2> QED
    BY <2>1, <1>1
<1>5. m.cmd \notin {"ODOM", "CMD_RSP"} => Count(m) = <<n>> /\ Len(Count(m)) = 1
  BY DEF Count
<1>6. m.cmd \in {"ODOM", "CMD_RSP"} => Count(m) = << >> /\ Len(Count(m)) = 0
  BY DEF Count
<1>7. \A i \in 1 .. Len(l) : p[i] = l[i]
  BY <1>1, BytesRight, Behind
<1>8. \A i \in 0 .. n : Items(p, Len(l), size, i) = SubSeq(m.items, 1, i)
  <2> HIDE DEF p, l, size
  <2> SUFFICES ASSUME NEW i \in 0 .. Len(m.items)
               PROVE  Items(p, Len(l), size, i) = SubSeq(m.items, 1, i)
    OBVIOUS
  <2>1. Items(l \o Bytes(m.items, size), Len(l), size, i) = SubSeq(m.items, 1, i)
    BY <1>1, ItemsRight
  <2> QED
    BY <2>1, <1>1
<1>9. \A max \in Nat : AtMost(n, max) \in 0 .. n
  BY <1>4 DEF AtMost
<1> HIDE DEF p, l, size, n
<1>10. ASSUME NEW max \in Nat
       PROVE  Items(p, Len(l), size, AtMost(n, max)) = Cut(m.items, max)
  BY <1>8, <1>9 DEF Cut, n
<1>11. CASE m.cmd = "ODOM"
  <2>1. l = << >> /\ Len(l) = 0 /\ size = OdomSize /\ n = 1 /\ Len(p) = OdomSize
    <3>1. m.lead = << >> /\ Count(m) = << >>
      BY <1>1, <1>3, <1>6, <1>11
    <3>2. l = << >>
      BY <3>1 DEF l
    <3> QED
      BY <3>1, <3>2, <1>1, <1>3, <1>4, <1>6, <1>11, SizesAssumption DEF size, n, ItemSize
  <2>2. Items(p, 0, OdomSize, 1) = SubSeq(m.items, 1, 1)
    BY <1>4, <1>8, <2>1
  <2>3. OdomSize \in Nat \ {0}
    BY SizesAssumption
  <2>4. Items(p, 0, OdomSize, 1) = <<SubSeq(p, 1, OdomSize)>>
    <3>1. \A k \in 1 .. 1 : 0 + (k - 1) * OdomSize = 0
      BY <2>3
    <3>2. ASSUME NEW k \in 1 .. 1
          PROVE  /\ 0 + (k - 1) * OdomSize + OdomSize <= Len(p)
                 /\ SubSeq(p, 0 + (k - 1) * OdomSize + 1, 0 + (k - 1) * OdomSize + OdomSize)
                      = SubSeq(p, 1, OdomSize)
      BY <3>1, <2>1, <2>3
    <3>3. Items(p, 0, OdomSize, 1) = [k \in 1 .. 1 |-> SubSeq(p, 1, OdomSize)]
      BY <3>2 DEF Items
    <3> QED
      BY <3>3
  <2>5. SubSeq(m.items, 1, 1) = m.items
    BY <1>1, <2>1 DEF n
  <2>6. <<SubSeq(p, 1, OdomSize)>> = m.items
    BY <2>2, <2>4, <2>5
  <2>7. m.lead = << >>
    BY <1>1, <1>3, <1>11
  <2>8. handle_odom(p) = <<[cmd |-> "ODOM", lead |-> << >>, items |-> m.items]>>
    BY <2>1, <2>3, <2>6 DEF handle_odom
  <2>9. handle_odom(p) = <<m>> /\ Heard(m) = m
    <3>1. m = [cmd |-> "ODOM", lead |-> << >>, items |-> m.items]
      BY <1>1, <1>11, <2>7
    <3>2. Heard(m) = m
      BY <1>11 DEF Heard, Room
    <3> QED
      BY <3>1, <3>2, <2>8
  <2>10. dispatch_frame(UplinkCMD[m.cmd], p) = handle_odom(p)
    BY <1>11 DEF dispatch_frame, UplinkCMD, rc_cmd_t
  <2> QED
    BY <2>9, <2>10, <1>11 DEF p
\* The messages whose handlers cut the items
<1>12. ASSUME m.cmd \in {"PATH", "KFS"}
       PROVE  /\ l = <<n>> /\ Len(l) = 1 /\ Len(p) >= 1 /\ p[1] = n /\ m.lead = << >>
              /\ \A max \in Nat : Items(p, 1, size, AtMost(n, max)) = Cut(m.items, max)
  <2>1. Count(m) = <<n>> /\ Len(Count(m)) = 1 /\ m.lead = << >> /\ Len(m.lead) = 0
    BY <1>1, <1>3, <1>5, <1>12
  <2>2. l = <<n>> /\ Len(l) = 1
    BY <2>1 DEF l
  <2>3. Len(p) >= 1 /\ p[1] = n
    BY <2>1, <2>2, <1>1, <1>4, <1>7
  <2> QED
    BY <2>1, <2>2, <2>3, <1>10
<1>13. CASE m.cmd = "PATH"
  <2>1. size = PointSize /\ PathMax \in Nat
    BY <1>13, SizesAssumption DEF size, ItemSize
  <2>2. handle_path(p) = <<[cmd |-> "PATH", lead |-> << >>, items |-> Cut(m.items, PathMax)]>>
    BY <1>12, <1>13, <2>1, <1>1 DEF handle_path
  <2>3. Heard(m) = [cmd |-> "PATH", lead |-> << >>, items |-> Cut(m.items, PathMax)]
    <3>1. m.lead = << >> /\ Heard(m) = [m EXCEPT !.items = Cut(m.items, PathMax)]
      BY <1>12, <1>13 DEF Heard, Room
    <3> QED
      BY <3>1, <1>1, <1>13
  <2>4. dispatch_frame(UplinkCMD[m.cmd], p) = handle_path(p)
    BY <1>13 DEF dispatch_frame, UplinkCMD, rc_cmd_t
  <2> QED
    BY <2>2, <2>3, <2>4, <1>13 DEF p
<1>14. CASE m.cmd = "KFS"
  <2>1. size = KfsSize /\ KfsMax \in Nat
    BY <1>14, SizesAssumption DEF size, ItemSize
  <2>2. handle_kfs(p) = <<[cmd |-> "KFS", lead |-> << >>, items |-> Cut(m.items, KfsMax)]>>
    BY <1>12, <1>14, <2>1, <1>1 DEF handle_kfs
  <2>3. Heard(m) = [cmd |-> "KFS", lead |-> << >>, items |-> Cut(m.items, KfsMax)]
    <3>1. m.lead = << >> /\ Heard(m) = [m EXCEPT !.items = Cut(m.items, KfsMax)]
      BY <1>12, <1>14 DEF Heard, Room
    <3> QED
      BY <3>1, <1>1, <1>14
  <2>4. dispatch_frame(UplinkCMD[m.cmd], p) = handle_kfs(p)
    BY <1>14 DEF dispatch_frame, UplinkCMD, rc_cmd_t
  <2> QED
    BY <2>2, <2>3, <2>4, <1>14 DEF p
<1>15. CASE m.cmd = "ZONE_I_PATH"
  <2>1. size = 1 /\ ZoneMax \in Nat
    BY <1>15, SizesAssumption DEF size, ItemSize
  <2>2. Count(m) = <<n>> /\ Len(Count(m)) = 1 /\ Len(m.lead) = 2
    BY <1>3, <1>5, <1>15
  <2>3. Len(l) = 3 /\ l[3] = n /\ l[1] = m.lead[1] /\ l[2] = m.lead[2]
    BY <2>2, <1>1 DEF l
  <2>4. Len(p) >= 3 /\ p[3] = n /\ p[1] = m.lead[1] /\ p[2] = m.lead[2]
    BY <2>2, <2>3, <1>1, <1>4, <1>7, SMTT(30)
  <2>5. SubSeq(p, 1, 2) = m.lead
    <3>1. SubSeq(p, 1, 2) \in Seq(Byte) /\ Len(SubSeq(p, 1, 2)) = 2
          /\ SubSeq(p, 1, 2)[1] = p[1] /\ SubSeq(p, 1, 2)[2] = p[2]
      BY <2>4, <1>1, SMTT(30)
    <3> QED
      BY <3>1, <2>2, <2>4, <1>1
  <2>6. Items(p, 3, 1, AtMost(n, ZoneMax)) = Cut(m.items, ZoneMax)
    BY <1>10, <2>1, <2>3
  <2>7. handle_zone_i_path(p)
          = <<[cmd |-> "ZONE_I_PATH", lead |-> m.lead, items |-> Cut(m.items, ZoneMax)]>>
    <3>1. ~(Len(p) < 3)
      BY <2>4, <1>1
    <3>2. handle_zone_i_path(p)
            = <<[cmd |-> "ZONE_I_PATH", lead |-> SubSeq(p, 1, 2),
                 items |-> Items(p, 3, 1, AtMost(p[3], ZoneMax))]>>
      BY <3>1, Zenon DEF handle_zone_i_path
    <3> QED
      BY <3>2, <2>4, <2>5, <2>6, Zenon
  <2>8. Heard(m) = [cmd |-> "ZONE_I_PATH", lead |-> m.lead, items |-> Cut(m.items, ZoneMax)]
    <3>1. Heard(m) = [m EXCEPT !.items = Cut(m.items, ZoneMax)]
      BY <1>15 DEF Heard, Room
    <3> QED
      BY <3>1, <1>1, <1>15
  <2>9. dispatch_frame(UplinkCMD[m.cmd], p) = handle_zone_i_path(p)
    BY <1>15 DEF dispatch_frame, UplinkCMD, rc_cmd_t
  <2> QED
    BY <2>7, <2>8, <2>9, <1>15 DEF p
<1>16. CASE m.cmd = "CMD_RSP"
  BY <1>16 DEF dispatch_frame, UplinkCMD, rc_cmd_t
<1> QED
  BY <1>2, <1>11, <1>13, <1>14, <1>15, <1>16

LEMMA DownData ==
  ASSUME NEW m, DownMessage(m)
  PROVE  /\ pld(m) \in Seq(Byte) /\ Len(pld(m)) < W * W
         /\ m = [cmd |-> m.cmd, lead |-> m.lead, items |-> m.items]
         /\ m.cmd \in {"ACK", "STATUS", "ZONE_I_INFO", "DOCK_OK", "GO_ZONE_I"}
         /\ m.lead \in Seq(Byte) /\ m.items \in Seq(Seq(Byte))
         /\ m.cmd = "ZONE_I_INFO" =>
              LET c == Cut(m.items, InfoMax)
              IN  /\ pld(m) = <<Len(c)>> \o Bytes(c, 2) /\ <<Len(c)>> \in Seq(Byte)
                  /\ c \in Seq(Seq(Byte)) /\ \A k \in DOMAIN c : Len(c[k]) = 2
                  /\ Len(pld(m)) = 1 + 2 * Len(c) /\ pld(m)[1] = Len(c)
<1>1. /\ m \in [cmd : {"ACK", "STATUS", "ZONE_I_INFO", "DOCK_OK", "GO_ZONE_I"},
                lead : Seq(Byte), items : Seq(Seq(Byte))]
      /\ (m.cmd = "ACK" => Len(m.lead) = 2)
      /\ (m.cmd = "STATUS" => Len(m.lead) = 1)
      /\ (m.cmd \notin {"ACK", "STATUS"} => m.lead = << >>)
      /\ (m.cmd = "ZONE_I_INFO" => /\ Len(m.items) < W
                                   /\ \A k \in DOMAIN m.items : Len(m.items[k]) = 2)
  <2>1. ItemSize["ZONE_I_INFO"] = 2
    BY DEF ItemSize
  <2> QED
    BY <2>1, Zenon DEF DownMessage
<1>2. m = [cmd |-> m.cmd, lead |-> m.lead, items |-> m.items]
      /\ m.lead \in Seq(Byte) /\ m.items \in Seq(Seq(Byte))
      /\ m.cmd \in {"ACK", "STATUS", "ZONE_I_INFO", "DOCK_OK", "GO_ZONE_I"}
  BY <1>1
<1>3. W \in Nat /\ W > 7 /\ W * W >= 8 * W
  <2>1. W \in Nat /\ W > 7 /\ W - 8 \in Nat
    BY BytesAssumption
  <2>2. W * (W - 8) \in Nat /\ W * (W - 8) = W * W - 8 * W
    BY <2>1
  <2> QED
    BY <2>1, <2>2
<1>4. CASE m.cmd = "ZONE_I_INFO"
  <2> DEFINE c == Cut(m.items, InfoMax)
             b == Bytes(c, 2)
  <2>1. c \in Seq(Seq(Byte)) /\ Len(c) \in 0 .. Len(m.items) /\ Len(c) = AtMost(Len(m.items), InfoMax)
        /\ \A k \in DOMAIN c : k \in DOMAIN m.items /\ c[k] = m.items[k]
    BY <1>2, SizesAssumption, CutRight
  <2>2. \A k \in DOMAIN c : Len(c[k]) = 2
    BY <2>1, <1>1, <1>4
  <2>3. pld(m) = <<Len(c)>> \o b
    BY <2>1, <1>4 DEF pld, ItemSize
  <2> HIDE DEF c
  <2>4. b \in Seq(Byte) /\ Len(b) = 2 * Len(c)
    <3>1. 2 \in Nat \ {0}
      OBVIOUS
    <3> QED
      BY <2>1, <2>2, <3>1, BytesRight
  <2>5. Len(c) \in Byte /\ Len(c) < W /\ Len(c) \in Nat
    BY <2>1, <1>1, <1>2, <1>3, <1>4 DEF Byte
  <2> HIDE DEF b
  <2>6. <<Len(c)>> \in Seq(Byte) /\ Len(<<Len(c)>>) = 1 /\ <<Len(c)>>[1] = Len(c)
    BY <2>5
  <2>7. pld(m) \in Seq(Byte) /\ Len(pld(m)) = 1 + 2 * Len(c) /\ pld(m)[1] = Len(c)
    <3> DEFINE l == <<Len(c)>>
    <3>1. l \in Seq(Byte) /\ Len(l) = 1 /\ l[1] = Len(c) /\ pld(m) = l \o b
      BY <2>3, <2>6
    <3> HIDE DEF l
    <3>2. l \o b \in Seq(Byte) /\ Len(l \o b) = Len(l) + Len(b)
          /\ \A k \in 1 .. Len(l) : (l \o b)[k] = l[k]
      BY <2>4, <3>1, Behind
    <3> QED
      BY <2>4, <3>1, <3>2
  <2>8. Len(pld(m)) < W * W
    BY <2>5, <2>7, <1>3
  <2>9. /\ pld(m) = <<Len(c)>> \o b /\ <<Len(c)>> \in Seq(Byte)
        /\ c \in Seq(Seq(Byte)) /\ \A k \in DOMAIN c : Len(c[k]) = 2
        /\ Len(pld(m)) = 1 + 2 * Len(c) /\ pld(m)[1] = Len(c)
    BY <2>1, <2>2, <2>3, <2>6, <2>7
  <2> QED
    BY <1>2, <2>7, <2>8, <2>9 DEF b, c
<1>5. CASE m.cmd # "ZONE_I_INFO"
  <2>1. pld(m) = m.lead
    BY <1>5 DEF pld
  <2>2. Len(m.lead) <= 2 /\ Len(m.lead) \in Nat
    <3>1. m.lead = << >> => Len(m.lead) = 0
      OBVIOUS
    <3>2. m.cmd = "ACK" \/ m.cmd = "STATUS" \/ m.cmd \notin {"ACK", "STATUS"}
      OBVIOUS
    <3> DEFINE n == Len(m.lead)
    <3>3. n \in {0, 1, 2}
      BY <3>1, <3>2, <1>1, Zenon
    <3> HIDE DEF n
    <3>4. n <= 2 /\ n \in Nat
      BY <3>3
    <3> QED
      BY <3>4 DEF n
  <2>3. Len(m.lead) < W * W
    BY <2>2, <1>3
  <2> QED
    BY <1>2, <1>5, <2>1, <2>3
<1> QED
  BY <1>4, <1>5

LEMMA DownHeard ==
  ASSUME NEW m, DownMessage(m)
  PROVE  /\ ~Raises(rc_cmd_t[m.cmd], pld(m))
         /\ handle_downlink(rc_cmd_t[m.cmd], pld(m)) = <<Heard(m)>>
<1>1. /\ m = [cmd |-> m.cmd, lead |-> m.lead, items |-> m.items]
      /\ m.cmd \in {"ACK", "STATUS", "ZONE_I_INFO", "DOCK_OK", "GO_ZONE_I"}
      /\ m.lead \in Seq(Byte)
  BY DownData
<1>2. /\ (m.cmd = "ACK" => Len(m.lead) = 2)
      /\ (m.cmd = "STATUS" => Len(m.lead) = 1 /\ m.lead[1] \in States)
      /\ (m.cmd \notin {"ACK", "STATUS"} => m.lead = << >>)
      /\ (m.cmd # "ZONE_I_INFO" => m.items = << >>)
  BY DEF DownMessage
<1>3. m.cmd # "ZONE_I_INFO" => pld(m) = m.lead /\ Heard(m) = m
  BY <1>1 DEF pld, Heard, Room
<1>4. CASE m.cmd = "ACK"
  <2>1. pld(m) = m.lead /\ Heard(m) = m /\ Len(m.lead) = 2 /\ SubSeq(m.lead, 1, 2) = m.lead
    BY <1>1, <1>2, <1>3, <1>4
  <2>2. rc_cmd_t[m.cmd] = 0
    BY <1>4 DEF rc_cmd_t
  <2>3. ~Raises(0, m.lead)
    BY <2>1 DEF Raises, DownlinkCMD
  <2>4. handle_downlink(0, m.lead) = <<[cmd |-> "ACK", lead |-> m.lead, items |-> << >>]>>
    BY <2>1 DEF handle_downlink, DownlinkCMD
  <2> QED
    BY <2>1, <2>2, <2>3, <2>4, <1>1, <1>2, <1>4
<1>5. CASE m.cmd = "STATUS"
  <2>1. pld(m) = m.lead /\ Heard(m) = m /\ Len(m.lead) = 1 /\ m.lead[1] \in States
        /\ SubSeq(m.lead, 1, 1) = m.lead
    BY <1>1, <1>2, <1>3, <1>5
  <2>2. rc_cmd_t[m.cmd] = 2
    BY <1>5 DEF rc_cmd_t
  <2>3. ~Raises(2, m.lead)
    BY <2>1 DEF Raises, DownlinkCMD
  <2>4. handle_downlink(2, m.lead) = <<[cmd |-> "STATUS", lead |-> m.lead, items |-> << >>]>>
    BY <2>1 DEF handle_downlink, DownlinkCMD
  <2> QED
    BY <2>1, <2>2, <2>3, <2>4, <1>1, <1>2, <1>5
<1>6. CASE m.cmd \in {"DOCK_OK", "GO_ZONE_I"}
  <2>1. pld(m) = << >> /\ Heard(m) = m /\ m.lead = << >> /\ m.items = << >>
    BY <1>2, <1>3, <1>6
  <2>2. rc_cmd_t[m.cmd] = IF m.cmd = "DOCK_OK" THEN 4 ELSE 5
    BY <1>6 DEF rc_cmd_t
  <2>3. ~Raises(4, << >>) /\ ~Raises(5, << >>)
    BY DEF Raises, DownlinkCMD
  <2>4. /\ handle_downlink(4, << >>) = <<[cmd |-> "DOCK_OK", lead |-> << >>, items |-> << >>]>>
        /\ handle_downlink(5, << >>) = <<[cmd |-> "GO_ZONE_I", lead |-> << >>, items |-> << >>]>>
    BY DEF handle_downlink, DownlinkCMD
  <2>5. CASE m.cmd = "DOCK_OK"
    BY <2>1, <2>2, <2>3, <2>4, <2>5, <1>1
  <2>6. CASE m.cmd = "GO_ZONE_I"
    BY <2>1, <2>2, <2>3, <2>4, <2>6, <1>1
  <2> QED
    BY <2>5, <2>6, <1>6
<1>7. CASE m.cmd = "ZONE_I_INFO"
  <2> DEFINE c == Cut(m.items, InfoMax)
             p == pld(m)
  <2>1. /\ p = <<Len(c)>> \o Bytes(c, 2) /\ <<Len(c)>> \in Seq(Byte)
        /\ c \in Seq(Seq(Byte)) /\ \A k \in DOMAIN c : Len(c[k]) = 2
        /\ Len(p) = 1 + 2 * Len(c) /\ p[1] = Len(c)
    BY DownData, <1>7
  <2>2. SubSeq(c, 1, Len(c)) = c
    BY <2>1
  <2> HIDE DEF c, p
  <2>3. Items(p, 1, 2, Len(c)) = c
    <3>1. Len(c) \in 0 .. Len(c) /\ Len(<<Len(c)>>) = 1
      BY <2>1
    <3>2. Items(<<Len(c)>> \o Bytes(c, 2), Len(<<Len(c)>>), 2, Len(c)) = SubSeq(c, 1, Len(c))
      <4> DEFINE l == <<Len(c)>>
      <4>1. l \in Seq(Byte) /\ 2 \in Nat \ {0}
        BY <2>1
      <4> HIDE DEF l
      <4>2. Items(l \o Bytes(c, 2), Len(l), 2, Len(c)) = SubSeq(c, 1, Len(c))
        BY <2>1, <3>1, <4>1, ItemsRight
      <4> QED
        BY <4>2 DEF l
    <3> QED
      BY <2>1, <2>2, <3>1, <3>2
  <2>4. rc_cmd_t[m.cmd] = 3
    BY <1>7 DEF rc_cmd_t
  <2>5. ~Raises(3, p)
    BY <2>1 DEF Raises, DownlinkCMD
  <2>6. handle_downlink(3, p) = <<[cmd |-> "ZONE_I_INFO", lead |-> << >>, items |-> c]>>
    BY <2>1, <2>3 DEF handle_downlink, DownlinkCMD
  <2>7. Heard(m) = [cmd |-> "ZONE_I_INFO", lead |-> << >>, items |-> c]
    <3>1. m.lead = << >> /\ Heard(m) = [m EXCEPT !.items = c]
      BY <1>2, <1>7 DEF Heard, Room, c
    <3> QED
      BY <3>1, <1>1, <1>7
  <2> QED
    BY <2>4, <2>5, <2>6, <2>7 DEF p
<1> QED
  BY <1>1, <1>4, <1>5, <1>6, <1>7

\* Each message of a side makes a whole frame of bytes.
LEMMA MessageRight ==
  ASSUME NEW side, NEW m, Message(side, m)
  PROVE  /\ Command(side, m) \in Byte /\ Data(side, m) \in Seq(Byte)
         /\ Len(Data(side, m)) < W * W
         /\ Framed(Packed(side, m), Command(side, m), Data(side, m))
<1>1. CASE side = "up"
  <2>1. UpMessage(m)
    BY <1>1 DEF Message
  <2>2. payload_up(m) \in Seq(Byte) /\ Len(payload_up(m)) < W * W
    BY <2>1, UpData DEF UpMessage
  <2>3. UplinkCMD[m.cmd] \in Byte
    <3>1. m.cmd \in DOMAIN UplinkCMD
      BY <2>1 DEF UpMessage
    <3> QED
      BY <3>1, BytesAssumption DEF UplinkCMD, Byte
  <2>4. Framed(pack_up(m), UplinkCMD[m.cmd], payload_up(m))
    BY <2>2, <2>3, FrameRight DEF pack_up
  <2> QED
    BY <1>1, <2>2, <2>3, <2>4 DEF Command, Data, Packed
<1>2. CASE side # "up"
  <2>1. DownMessage(m)
    BY <1>2 DEF Message
  <2>2. pld(m) \in Seq(Byte) /\ Len(pld(m)) < W * W
        /\ m.cmd \in {"ACK", "STATUS", "ZONE_I_INFO", "DOCK_OK", "GO_ZONE_I"}
    BY <2>1, DownData
  <2>3. rc_cmd_t[m.cmd] \in Byte
    BY <2>2, BytesAssumption DEF rc_cmd_t, Byte
  <2>4. Framed(send_down(m), rc_cmd_t[m.cmd], pld(m))
    BY <2>2, <2>3, FrameRight DEF send_down
  <2> QED
    BY <1>2, <2>2, <2>3, <2>4 DEF Command, Data, Packed
<1> QED
  BY <1>1, <1>2

-----------------------------------------------------------------------------
(* Link: the bytes under way.  They are those of the frames sent, from some    *)
(* place on, with at most one changed.                                         *)

Tagged(s) == [b : Byte, f : 1 .. Len(s), p : Nat \ {0}]
Size(side, m) == Len(Packed(side, m))
TooLong(side, m) == side = "up" /\ Size(side, m) > 6 + RC_FRAME_MAX_PAYLOAD
Wrong(x, side, s) == x.b # Packed(side, s[x.f])[x.p]

Stream(R, side, s) ==
  /\ R \in Seq(Tagged(s))
  /\ \A k \in 1 .. Len(R) : R[k].p <= Size(side, s[R[k].f])
  /\ \A i, k \in 1 .. Len(R) : i <= k => R[i].f <= R[k].f
  /\ \A i, k \in 1 .. Len(R) :
       i <= k /\ R[i].p + (k - i) <= Size(side, s[R[i].f])
         => R[k].f = R[i].f /\ R[k].p = R[i].p + (k - i)
  /\ \A i \in 1 .. Len(R) - 1 :
       R[i].p = Size(side, s[R[i].f]) => R[i + 1].f = R[i].f + 1 /\ R[i + 1].p = 1
  /\ R # << >> => R[Len(R)].f = Len(s) /\ R[Len(R)].p = Size(side, s[Len(s)])

Changes(R, side, s, h, n) ==
  /\ h \subseteq 1 .. Len(s) /\ \A f \in h : ~TooLong(side, s[f])
  /\ \A k \in 1 .. Len(R) : Wrong(R[k], side, s) => R[k].f \in h /\ R[k].p \notin {1, 2, 4, 5}
  /\ \A j, k \in 1 .. Len(R) : Wrong(R[j], side, s) /\ Wrong(R[k], side, s) => j = k
  /\ \A f \in h : R # << >> /\ R[1].f <= f
                    => \E k \in 1 .. Len(R) : R[k].f = f /\ Wrong(R[k], side, s)
  /\ n = 0 => h = {}

\* A frame has at least six bytes.
LEMMA SizeRight ==
  ASSUME NEW side, NEW m, Message(side, m)
  PROVE  /\ Size(side, m) = 6 + Len(Data(side, m)) /\ Len(Data(side, m)) \in Nat
         /\ Size(side, m) \in Nat /\ Size(side, m) >= 6
<1>1. Framed(Packed(side, m), Command(side, m), Data(side, m)) /\ Data(side, m) \in Seq(Byte)
  BY MessageRight
<1> DEFINE n == Len(Data(side, m))
<1>2. n \in Nat /\ Size(side, m) = 6 + n
  BY <1>1 DEF Framed, Size
<1> QED
  BY <1>2

LEMMA TaggedRight ==
  ASSUME NEW s, NEW R \in Seq(Tagged(s)), NEW k \in 1 .. Len(R)
  PROVE  /\ R[k] \in Tagged(s) /\ R[k].b \in Byte /\ R[k].f \in 1 .. Len(s) /\ R[k].f \in Int
         /\ R[k].p \in Nat \ {0}
<1>1. R[k] \in Tagged(s)
  <2> DEFINE T == Tagged(s)
  <2> HIDE DEF T
  <2> QED
    BY DEF T
<1> QED
  BY <1>1 DEF Tagged

LEMMA Dropped ==
  ASSUME NEW T, NEW R \in Seq(T), NEW d \in 0 .. Len(R)
  PROVE  LET D == SubSeq(R, d + 1, Len(R))
         IN  /\ D \in Seq(T) /\ Len(D) = Len(R) - d
             /\ \A k \in 1 .. Len(D) : D[k] = R[d + k] /\ d + k \in 1 .. Len(R)
             /\ D = << >> <=> d = Len(R)
<1> DEFINE D == SubSeq(R, d + 1, Len(R))
<1>1. Len(R) \in Nat /\ d \in Nat /\ d + 1 \in 1 .. Len(R) + 1
  OBVIOUS
<1>2. D \in Seq(T) /\ Len(D) = Len(R) - d
  BY <1>1
<1>3. \A k \in 1 .. Len(R) - d : D[k] = R[d + k] /\ d + k \in 1 .. Len(R)
  BY <1>1
<1> HIDE DEF D
<1>4. D = << >> <=> Len(D) = 0
  BY <1>2
<1>5. D \in Seq(T) /\ Len(D) = Len(R) - d
      /\ (\A k \in 1 .. Len(D) : D[k] = R[d + k] /\ d + k \in 1 .. Len(R))
      /\ (D = << >> <=> d = Len(R))
  BY <1>1, <1>2, <1>3, <1>4
<1> QED
  BY <1>5 DEF D

\* Two bytes of a frame are as far apart as they are in the frame.
LEMMA SameFrame ==
  ASSUME NEW side, NEW M, NEW s \in Seq(M), \A m \in M : Message(side, m),
         NEW R, Stream(R, side, s), NEW i \in 1 .. Len(R), NEW k \in 1 .. Len(R),
         i <= k, R[i].f = R[k].f
  PROVE  R[k].p = R[i].p + (k - i)
<1> DEFINE n == Size(side, s[R[i].f])
           j == i + (n - R[i].p)
<1>1. R \in Seq(Tagged(s)) /\ Len(R) \in Nat
  BY DEF Stream
<1>2. R[i].p \in Nat \ {0} /\ R[i].f \in 1 .. Len(s) /\ R[i].p <= n /\ R[i].f \in Int
  BY <1>1, TaggedRight DEF Stream
<1>3. n \in Nat
  <2>1. s[R[i].f] \in M
    BY <1>2
  <2> QED
    BY <2>1, SizeRight
<1> HIDE DEF n
<1>4. ASSUME R[i].p + (k - i) > n
      PROVE  FALSE
  <2>1. j \in 1 .. Len(R) /\ i <= j /\ j < k /\ R[i].p + (j - i) = n /\ j + 1 \in 1 .. Len(R)
        /\ j \in 1 .. Len(R) - 1 /\ j + 1 <= k
    <3> DEFINE a == R[i].p
    <3>1. a \in Nat \ {0} /\ a <= n /\ a + (k - i) > n /\ j = i + (n - a)
      BY <1>2, <1>4
    <3> HIDE DEF a, j
    <3>2. j \in 1 .. Len(R) /\ i <= j /\ j < k /\ a + (j - i) = n /\ j + 1 \in 1 .. Len(R)
          /\ j \in 1 .. Len(R) - 1 /\ j + 1 <= k
      BY <3>1, <1>1, <1>3
    <3> QED
      BY <3>2 DEF a
  <2> HIDE DEF j
  <2>2. R[j].f = R[i].f /\ R[j].p = n
    <3>1. \A x, y \in 1 .. Len(R) : x <= y /\ R[x].p + (y - x) <= Size(side, s[R[x].f])
            => R[y].f = R[x].f /\ R[y].p = R[x].p + (y - x)
      BY Zenon DEF Stream
    <3>2. R[i].p + (j - i) <= Size(side, s[R[i].f])
      BY <2>1, <1>3 DEF n
    <3> QED
      BY <3>1, <3>2, <2>1
  <2>3. R[j + 1].f = R[i].f + 1
    <3>1. \A x \in 1 .. Len(R) - 1 : R[x].p = Size(side, s[R[x].f]) => R[x + 1].f = R[x].f + 1
      BY Zenon DEF Stream
    <3>2. R[j].p = Size(side, s[R[j].f])
      BY <2>2 DEF n
    <3> QED
      BY <3>1, <3>2, <2>1, <2>2
  <2>4. R[j + 1].f <= R[k].f
    BY <2>1 DEF Stream
  <2> QED
    BY <2>3, <2>4, <1>2
<1>5. R[i].p + (k - i) <= n
  BY <1>2, <1>3, <1>4
<1> QED
  BY <1>5 DEF Stream, n

\* What is left after some bytes have been taken
LEMMA StreamRest ==
  ASSUME NEW side, NEW s, NEW R, Stream(R, side, s), NEW d \in 0 .. Len(R)
  PROVE  Stream(SubSeq(R, d + 1, Len(R)), side, s)
<1> DEFINE D == SubSeq(R, d + 1, Len(R))
           z(f) == Size(side, s[f])
<1>1. R \in Seq(Tagged(s)) /\ Len(R) \in Nat /\ d \in Nat
  BY DEF Stream
<1>2. /\ D \in Seq(Tagged(s)) /\ Len(D) = Len(R) - d
      /\ \A k \in 1 .. Len(D) : D[k] = R[d + k] /\ d + k \in 1 .. Len(R)
      /\ D = << >> <=> d = Len(R)
  <2> DEFINE T == Tagged(s)
  <2>1. R \in Seq(T)
    BY <1>1
  <2> HIDE DEF T
  <2>2. /\ D \in Seq(T) /\ Len(D) = Len(R) - d
        /\ \A k \in 1 .. Len(D) : D[k] = R[d + k] /\ d + k \in 1 .. Len(R)
        /\ D = << >> <=> d = Len(R)
    BY <2>1, Dropped
  <2> QED
    BY <2>2 DEF T
<1> HIDE DEF D
<1>3. /\ \A k \in 1 .. Len(R) : R[k].p <= z(R[k].f)
      /\ \A i, k \in 1 .. Len(R) : i <= k => R[i].f <= R[k].f
      /\ \A i, k \in 1 .. Len(R) :
           i <= k /\ R[i].p + (k - i) <= z(R[i].f) => R[k].f = R[i].f /\ R[k].p = R[i].p + (k - i)
      /\ \A i \in 1 .. Len(R) - 1 :
           R[i].p = z(R[i].f) => R[i + 1].f = R[i].f + 1 /\ R[i + 1].p = 1
      /\ R # << >> => R[Len(R)].f = Len(s) /\ R[Len(R)].p = z(Len(s))
  BY DEF Stream
<1> HIDE DEF z
<1>4. \A k \in 1 .. Len(D) : D[k].p <= z(D[k].f)
  BY <1>2, <1>3
<1>5. \A i, k \in 1 .. Len(D) : i <= k => D[i].f <= D[k].f
  <2> TAKE i, k \in 1 .. Len(D)
  <2>1. (i <= k => d + i <= d + k) /\ d + i \in 1 .. Len(R) /\ d + k \in 1 .. Len(R)
        /\ D[i] = R[d + i] /\ D[k] = R[d + k]
    BY <1>1, <1>2
  <2> QED
    BY <2>1, <1>2, <1>3
<1>6. \A i, k \in 1 .. Len(D) :
        i <= k /\ D[i].p + (k - i) <= z(D[i].f) => D[k].f = D[i].f /\ D[k].p = D[i].p + (k - i)
  <2> TAKE i, k \in 1 .. Len(D)
  <2>1. (i <= k => d + i <= d + k) /\ (d + k) - (d + i) = k - i
    BY <1>1, <1>2
  <2> QED
    BY <2>1, <1>2, <1>3
<1>7. \A i \in 1 .. Len(D) - 1 :
        D[i].p = z(D[i].f) => D[i + 1].f = D[i].f + 1 /\ D[i + 1].p = 1
  <2> TAKE i \in 1 .. Len(D) - 1
  <2>1. d + (i + 1) = (d + i) + 1 /\ d + i \in 1 .. Len(R) - 1 /\ i \in 1 .. Len(D)
        /\ i + 1 \in 1 .. Len(D)
    BY <1>1, <1>2
  <2> QED
    BY <2>1, <1>2, <1>3, SMTT(30)
<1>8. D # << >> => D[Len(D)].f = Len(s) /\ D[Len(D)].p = z(Len(s))
  <2>1. D # << >> => Len(D) \in 1 .. Len(D) /\ d + Len(D) = Len(R) /\ R # << >>
    BY <1>1, <1>2
  <2> QED
    BY <2>1, <1>2, <1>3
<1>9. Stream(D, side, s)
  BY <1>2, <1>4, <1>5, <1>6, <1>7, <1>8 DEF Stream, z
<1> QED
  BY <1>9 DEF D

\* What is left begins a frame, or is in one that no byte of was changed.
LEMMA ChangesRest ==
  ASSUME NEW side, NEW M, NEW s \in Seq(M), \A m \in M : Message(side, m),
         NEW R, Stream(R, side, s), NEW h, NEW n, Changes(R, side, s, h, n),
         NEW d \in 0 .. Len(R),
         d < Len(R) => R[d + 1].p = 1 \/ R[d + 1].f \notin h
  PROVE  Changes(SubSeq(R, d + 1, Len(R)), side, s, h, n)
<1> DEFINE D == SubSeq(R, d + 1, Len(R))
           w(k) == Wrong(R[k], side, s)
<1>1. R \in Seq(Tagged(s)) /\ Len(R) \in Nat /\ d \in Nat
  BY DEF Stream
<1>2. /\ D \in Seq(Tagged(s)) /\ Len(D) = Len(R) - d
      /\ \A k \in 1 .. Len(D) : D[k] = R[d + k] /\ d + k \in 1 .. Len(R)
      /\ D = << >> <=> d = Len(R)
  <2> DEFINE T == Tagged(s)
  <2>1. R \in Seq(T)
    BY <1>1
  <2> HIDE DEF T
  <2>2. /\ D \in Seq(T) /\ Len(D) = Len(R) - d
        /\ \A k \in 1 .. Len(D) : D[k] = R[d + k] /\ d + k \in 1 .. Len(R)
        /\ D = << >> <=> d = Len(R)
    BY <2>1, Dropped
  <2> QED
    BY <2>2 DEF T
<1> HIDE DEF D
<1>3. \A k \in 1 .. Len(D) : Wrong(D[k], side, s) <=> w(d + k)
  BY <1>2
<1>4. /\ h \subseteq 1 .. Len(s) /\ \A f \in h : ~TooLong(side, s[f])
      /\ \A k \in 1 .. Len(R) : w(k) => R[k].f \in h /\ R[k].p \notin {1, 2, 4, 5}
      /\ \A j, k \in 1 .. Len(R) : w(j) /\ w(k) => j = k
      /\ \A f \in h : R # << >> /\ R[1].f <= f => \E k \in 1 .. Len(R) : R[k].f = f /\ w(k)
      /\ n = 0 => h = {}
  BY DEF Changes
<1> HIDE DEF w
<1>5. \A k \in 1 .. Len(D) : w(d + k) => D[k].f \in h /\ D[k].p \notin {1, 2, 4, 5}
  BY <1>2, <1>4
<1>6. \A j, k \in 1 .. Len(D) : w(d + j) /\ w(d + k) => j = k
  <2> TAKE j, k \in 1 .. Len(D)
  <2>1. d + j = d + k => j = k
    BY <1>1, <1>2
  <2> QED
    BY <2>1, <1>2, <1>4
<1>7. ASSUME NEW f \in h, D # << >>, D[1].f <= f
      PROVE  \E k \in 1 .. Len(D) : D[k].f = f /\ w(d + k)
  <2>1. 1 \in 1 .. Len(D) /\ D[1] = R[d + 1] /\ d + 1 \in 1 .. Len(R) /\ R # << >>
        /\ 1 \in 1 .. Len(R) /\ d < Len(R)
    BY <1>1, <1>2, <1>7
  <2>2. R[1].f <= R[d + 1].f
    BY <2>1 DEF Stream
  <2>3. R[1].f \in Int /\ R[d + 1].f \in Int /\ f \in Int /\ R[d + 1].p \in Nat
    BY <2>1, <1>1, <1>4, TaggedRight
  <2>4. PICK k \in 1 .. Len(R) : R[k].f = f /\ w(k)
    BY <2>1, <2>2, <2>3, <1>4, <1>7
  <2>5. ASSUME k <= d
        PROVE  FALSE
    <3>1. R[k].f <= R[d + 1].f
      <4>1. k <= d + 1
        BY <2>5, <1>1
      <4> QED
        BY <4>1, <2>1 DEF Stream
    <3>2. R[k].f = R[d + 1].f /\ k <= d + 1
      BY <3>1, <2>1, <2>3, <2>4, <2>5, <1>7
    <3>3. R[d + 1].p = R[k].p + ((d + 1) - k)
      BY <3>2, <2>1, SameFrame, SMTT(30)
    <3>4. R[k].p \in Nat \ {0}
      BY <1>1, TaggedRight
    <3>5. R[d + 1].p > 1
      BY <3>3, <3>4, <2>3, <2>5, <1>1
    <3>6. R[d + 1].f \notin h
      BY <3>5, <2>1
    <3> QED
      BY <3>2, <3>6, <2>4
  <2>6. k - d \in 1 .. Len(D) /\ d + (k - d) = k
    BY <2>5, <1>1, <1>2
  <2>7. D[k - d] = R[k]
    BY <2>6, <1>2
  <2>8. D[k - d].f = f /\ w(d + (k - d))
    BY <2>4, <2>6, <2>7
  <2> QED
    BY <2>6, <2>8
<1>8. Changes(D, side, s, h, n)
  BY <1>3, <1>4, <1>5, <1>6, <1>7 DEF Changes
<1> QED
  BY <1>8 DEF D

\* The bytes of a message that is sent as frame f
Stamped(side, m, f) ==
  [p \in 1 .. Size(side, m) |-> [b |-> Packed(side, m)[p], f |-> f, p |-> p]]

LEMMA JoinedRight ==
  ASSUME NEW S, NEW s \in Seq(S), NEW t \in Seq(S)
  PROVE  /\ s \o t \in Seq(S) /\ Len(s \o t) = Len(s) + Len(t)
         /\ \A k \in 1 .. Len(s) : (s \o t)[k] = s[k]
         /\ \A k \in 1 .. Len(t) : (s \o t)[Len(s) + k] = t[k]
  OBVIOUS

LEMMA SentRight ==
  ASSUME NEW M, NEW s \in Seq(M), NEW m \in M
  PROVE  /\ Append(s, m) \in Seq(M) /\ Len(Append(s, m)) = Len(s) + 1 /\ Len(s) \in Nat
         /\ \A f \in 1 .. Len(s) : Append(s, m)[f] = s[f] /\ s[f] \in M /\ f \in 1 .. Len(s) + 1
         /\ Append(s, m)[Len(s) + 1] = m
  OBVIOUS

LEMMA StampedRight ==
  ASSUME NEW side, NEW M, NEW s \in Seq(M), NEW m \in M, Message(side, m)
  PROVE  /\ Stamped(side, m, Len(s) + 1) \in Seq(Tagged(Append(s, m)))
         /\ Len(Stamped(side, m, Len(s) + 1)) = Size(side, m)
         /\ \A p \in 1 .. Size(side, m) :
              /\ Stamped(side, m, Len(s) + 1)[p].b = Packed(side, m)[p]
              /\ Stamped(side, m, Len(s) + 1)[p].f = Len(s) + 1
              /\ Stamped(side, m, Len(s) + 1)[p].p = p
<1> DEFINE z == Size(side, m)
           n == Len(s) + 1
           B == Stamped(side, m, n)
           T == Tagged(Append(s, m))
<1>1. z \in Nat /\ n \in Nat \ {0} /\ Len(Append(s, m)) = n
  BY SizeRight, SentRight
<1>2. Packed(side, m) \in Seq(Byte) /\ Len(Packed(side, m)) = z
  BY MessageRight DEF Framed, Size
<1>3. \A p \in 1 .. z : Packed(side, m)[p] \in Byte
  BY <1>2
<1>4. B = [p \in 1 .. z |-> [b |-> Packed(side, m)[p], f |-> n, p |-> p]]
  BY DEF Stamped
<1> HIDE DEF B, z, n
<1>5. \A p \in 1 .. z : /\ B[p] = [b |-> Packed(side, m)[p], f |-> n, p |-> p]
                        /\ B[p].b = Packed(side, m)[p] /\ B[p].f = n /\ B[p].p = p
  BY <1>4
<1>6. \A p \in 1 .. z : B[p] \in T
  <2> TAKE p \in 1 .. z
  <2> DEFINE q == Append(s, m)
             b == Packed(side, m)[p]
  <2>1. p \in Nat \ {0} /\ n \in 1 .. Len(q) /\ b \in Byte
    BY <1>1, <1>3
  <2>2. B[p] = [b |-> b, f |-> n, p |-> p]
    BY <1>5
  <2> HIDE DEF q, b
  <2>3. B[p] \in [b : Byte, f : 1 .. Len(q), p : Nat \ {0}]
    BY <2>1, <2>2
  <2> QED
    BY <2>3 DEF Tagged, q
<1> HIDE DEF T
<1>7. B \in Seq(T) /\ Len(B) = z
  BY <1>1, <1>4, <1>6
<1> QED
  BY <1>5, <1>7 DEF B, z, n, T

\* What is under way when a message has been sent behind it
LEMMA StreamSent ==
  ASSUME NEW side, NEW M, NEW s \in Seq(M), \A x \in M : Message(side, x), NEW m \in M,
         NEW R, Stream(R, side, s)
  PROVE  Stream(R \o Stamped(side, m, Len(s) + 1), side, Append(s, m))
<1> DEFINE n == Len(R)
           z == Size(side, m)
           s2 == Append(s, m)
           B == Stamped(side, m, Len(s) + 1)
           C == R \o B
           l == Len(s)
           T == Tagged(s2)
           y(f) == Size(side, s[f])
           y2(f) == Size(side, s2[f])
<1>1. /\ Len(s2) = l + 1 /\ l \in Nat /\ s2[l + 1] = m
      /\ \A f \in 1 .. l : s2[f] = s[f] /\ s[f] \in M
  BY SentRight
<1>2. z \in Nat /\ z >= 6 /\ \A f \in 1 .. l : y(f) \in Nat
  BY <1>1, SizeRight
<1>3. y2(l + 1) = z /\ \A f \in 1 .. l : y2(f) = y(f)
  BY <1>1
<1>4. B \in Seq(T) /\ Len(B) = z /\ \A p \in 1 .. z : B[p].f = l + 1 /\ B[p].p = p
  BY StampedRight
<1>5. R \in Seq(Tagged(s)) /\ n \in Nat
  BY DEF Stream
<1>6. \A k \in 1 .. n : R[k] \in T /\ R[k].f \in 1 .. l /\ R[k].f \in Int /\ R[k].p \in Nat \ {0}
  <2> TAKE k \in 1 .. n
  <2>1. R[k] \in Tagged(s) /\ R[k].f \in 1 .. l /\ R[k].f \in Int /\ R[k].p \in Nat \ {0}
    BY <1>5, TaggedRight
  <2> QED
    BY <2>1, <1>1 DEF Tagged
<1>7. R \in Seq(T)
  <2> HIDE DEF T
  <2> QED
    BY <1>5, <1>6
<1>8. /\ \A k \in 1 .. n : R[k].p <= y(R[k].f)
      /\ \A i, k \in 1 .. n : i <= k => R[i].f <= R[k].f
      /\ \A i, k \in 1 .. n :
           i <= k /\ R[i].p + (k - i) <= y(R[i].f) => R[k].f = R[i].f /\ R[k].p = R[i].p + (k - i)
      /\ \A i \in 1 .. n - 1 :
           R[i].p = y(R[i].f) => R[i + 1].f = R[i].f + 1 /\ R[i + 1].p = 1
      /\ n # 0 => R[n].f = l /\ R[n].p = y(l)
  <2>1. n # 0 => R # << >>
    OBVIOUS
  <2> QED
    BY <2>1 DEF Stream
<1> HIDE DEF n, z, s2, B, l, T, y, y2
<1>9. C \in Seq(T) /\ Len(C) = n + z
      /\ (\A k \in 1 .. n : C[k] = R[k]) /\ (\A k \in 1 .. z : C[n + k] = B[k])
  <2>1. /\ R \o B \in Seq(T) /\ Len(R \o B) = Len(R) + Len(B)
        /\ \A k \in 1 .. Len(R) : (R \o B)[k] = R[k]
        /\ \A k \in 1 .. Len(B) : (R \o B)[Len(R) + k] = B[k]
    BY <1>4, <1>7, JoinedRight
  <2> QED
    BY <2>1, <1>4 DEF n
<1> HIDE DEF C
\* Each byte is an old or a new one.
<1>10. \A k \in 1 .. n : k \in 1 .. Len(C) /\ C[k] = R[k] /\ R[k].f \in 1 .. l
                        /\ y2(C[k].f) = y(R[k].f)
  BY <1>2, <1>3, <1>5, <1>6, <1>9
<1>11. ASSUME NEW k \in 1 .. Len(C), k \notin 1 .. n
       PROVE  k - n \in 1 .. z /\ C[k].f = l + 1 /\ C[k].p = k - n /\ y2(C[k].f) = z /\ k > n
  <2>1. k - n \in 1 .. z /\ n + (k - n) = k /\ k > n
    BY <1>2, <1>5, <1>9, <1>11
  <2>2. C[n + (k - n)] = B[k - n]
    BY <2>1, <1>9
  <2> QED
    BY <2>1, <2>2, <1>3, <1>4
<1>12. \A k \in 1 .. Len(C) : C[k].p <= y2(C[k].f)
  <2> TAKE k \in 1 .. Len(C)
  <2>1. CASE k \in 1 .. n
    BY <2>1, <1>8, <1>10
  <2>2. CASE k \notin 1 .. n
    BY <2>2, <1>11, <1>2
  <2> QED
    BY <2>1, <2>2
<1>13. ASSUME NEW i \in 1 .. Len(C), NEW k \in 1 .. Len(C), i <= k
       PROVE  C[i].f <= C[k].f
  <2>1. CASE k \in 1 .. n
    <3>1. i \in 1 .. n
      BY <2>1, <1>13, <1>5
    <3> QED
      BY <2>1, <3>1, <1>8, <1>10, <1>13
  <2>2. CASE k \notin 1 .. n
    <3>1. C[k].f = l + 1
      BY <2>2, <1>11
    <3>2. CASE i \in 1 .. n
      BY <3>1, <3>2, <1>1, <1>6, <1>10
    <3>3. CASE i \notin 1 .. n
      BY <3>1, <3>3, <1>1, <1>11
    <3> QED
      BY <3>2, <3>3
  <2> QED
    BY <2>1, <2>2
<1>14. ASSUME NEW i \in 1 .. Len(C), NEW k \in 1 .. Len(C), i <= k,
              C[i].p + (k - i) <= y2(C[i].f)
       PROVE  C[k].f = C[i].f /\ C[k].p = C[i].p + (k - i)
  <2>1. CASE k \in 1 .. n
    <3>1. i \in 1 .. n
      BY <2>1, <1>14, <1>5
    <3>2. R[i].p + (k - i) <= y(R[i].f)
      BY <3>1, <1>10, <1>14
    <3>3. R[k].f = R[i].f /\ R[k].p = R[i].p + (k - i)
      BY <2>1, <3>1, <3>2, <1>8, <1>14
    <3> QED
      BY <2>1, <3>1, <3>3, <1>10
  <2>2. CASE k \notin 1 .. n /\ i \in 1 .. n
    <3> DEFINE a == R[i].p
               b == y(R[i].f)
    <3>1. n \in 1 .. n /\ i <= n /\ k > n /\ n # 0 /\ k \in Int /\ i \in Int
      BY <2>2, <1>5, <1>11
    <3>2. a + (k - i) <= b /\ a \in Nat /\ b \in Nat
      BY <2>2, <1>2, <1>6, <1>10, <1>14
    <3> HIDE DEF a, b
    <3>3. a + (n - i) < b
      BY <3>1, <3>2, <1>5
    <3>4. a + (n - i) <= b
      BY <3>1, <3>2, <3>3, <1>5
    <3>5. R[n].f = R[i].f /\ R[n].p = a + (n - i)
      BY <2>2, <3>1, <3>4, <1>8 DEF a, b
    <3>6. b = y(l) /\ R[n].p = y(l)
      BY <3>1, <3>5, <1>8 DEF b
    <3> QED
      BY <3>1, <3>2, <3>3, <3>5, <3>6, <1>5
  <2>3. CASE k \notin 1 .. n /\ i \notin 1 .. n
    BY <2>3, <1>5, <1>11, <1>14
  <2> QED
    BY <2>1, <2>2, <2>3
<1>15. ASSUME NEW i \in 1 .. Len(C) - 1, C[i].p = y2(C[i].f)
       PROVE  C[i + 1].f = C[i].f + 1 /\ C[i + 1].p = 1
  <2>0. i \in 1 .. Len(C) /\ i + 1 \in 1 .. Len(C) /\ Len(C) \in Nat
    BY <1>2, <1>5, <1>9
  <2>1. CASE i \in 1 .. n - 1
    <3>1. i \in 1 .. n /\ i + 1 \in 1 .. n
      BY <2>1, <1>5
    <3> QED
      BY <2>1, <3>1, <1>8, <1>10, <1>15
  <2>2. CASE i = n
    <3>1. n \in 1 .. n /\ i + 1 \notin 1 .. n /\ (i + 1) - n = 1 /\ n # 0
      BY <2>0, <2>2, <1>5
    <3>2. C[i + 1].f = l + 1 /\ C[i + 1].p = 1
      BY <2>0, <3>1, <1>11
    <3>3. C[i].f = l
      BY <2>2, <3>1, <1>8, <1>10
    <3> QED
      BY <3>2, <3>3
  <2>3. CASE i \notin 1 .. n
    <3>1. C[i].p = i - n /\ y2(C[i].f) = z
      BY <2>0, <2>3, <1>11
    <3> QED
      BY <2>0, <3>1, <1>2, <1>5, <1>9, <1>15
  <2>4. i \in 1 .. n - 1 \/ i = n \/ i \notin 1 .. n
    BY <2>0, <1>5
  <2> QED
    BY <2>1, <2>2, <2>3, <2>4
<1>16. C[Len(C)].f = l + 1 /\ C[Len(C)].p = y2(l + 1)
  <2>1. Len(C) \in 1 .. Len(C) /\ Len(C) \notin 1 .. n /\ Len(C) - n = z
    BY <1>2, <1>5, <1>9
  <2> QED
    BY <2>1, <1>3, <1>11
<1>17. Stream(C, side, s2)
  BY <1>1, <1>9, <1>12, <1>13, <1>14, <1>15, <1>16 DEF Stream, y2, T
<1> QED
  BY <1>17 DEF C, B, s2, l

LEMMA ChangesSent ==
  ASSUME NEW side, NEW M, NEW s \in Seq(M), \A x \in M : Message(side, x), NEW m \in M,
         NEW R, Stream(R, side, s), NEW h, NEW c, Changes(R, side, s, h, c)
  PROVE  Changes(R \o Stamped(side, m, Len(s) + 1), side, Append(s, m), h, c)
<1> DEFINE n == Len(R)
           z == Size(side, m)
           s2 == Append(s, m)
           B == Stamped(side, m, Len(s) + 1)
           C == R \o B
           l == Len(s)
           T == Tagged(s2)
           w(k) == Wrong(R[k], side, s)
           w2(k) == Wrong(C[k], side, s2)
<1>1. /\ Len(s2) = l + 1 /\ l \in Nat /\ s2[l + 1] = m
      /\ \A f \in 1 .. l : s2[f] = s[f] /\ s[f] \in M /\ f \in 1 .. l + 1
  BY SentRight
<1>2. z \in Nat /\ z >= 6
  BY SizeRight
<1>3. B \in Seq(T) /\ Len(B) = z
      /\ \A p \in 1 .. z : B[p].b = Packed(side, m)[p] /\ B[p].f = l + 1 /\ B[p].p = p
  <2>1. Stamped(side, m, Len(s) + 1) \in Seq(Tagged(Append(s, m)))
    BY StampedRight
  <2>2. Len(B) = z
    <3>1. B = [p \in 1 .. z |-> [b |-> Packed(side, m)[p], f |-> l + 1, p |-> p]]
      BY DEF Stamped
    <3> HIDE DEF B, z
    <3> QED
      BY <3>1, <1>2
  <2>3. \A p \in 1 .. Size(side, m) :
          /\ Stamped(side, m, Len(s) + 1)[p].b = Packed(side, m)[p]
          /\ Stamped(side, m, Len(s) + 1)[p].f = Len(s) + 1
          /\ Stamped(side, m, Len(s) + 1)[p].p = p
    BY StampedRight
  <2> QED
    BY <2>1, <2>2, <2>3
<1>4. R \in Seq(Tagged(s)) /\ n \in Nat
  BY DEF Stream
<1>5. \A k \in 1 .. n : R[k] \in T /\ R[k].f \in 1 .. l
  <2> TAKE k \in 1 .. n
  <2>1. R[k] \in Tagged(s) /\ R[k].f \in 1 .. l
    BY <1>4, TaggedRight
  <2> QED
    BY <2>1, <1>1 DEF Tagged
<1>6. R \in Seq(T)
  <2> HIDE DEF T
  <2> QED
    BY <1>4, <1>5
<1>7. /\ h \subseteq 1 .. l /\ \A f \in h : ~TooLong(side, s[f])
      /\ \A k \in 1 .. n : w(k) => R[k].f \in h /\ R[k].p \notin {1, 2, 4, 5}
      /\ \A j, k \in 1 .. n : w(j) /\ w(k) => j = k
      /\ \A f \in h : n # 0 /\ R[1].f <= f => \E k \in 1 .. n : R[k].f = f /\ w(k)
      /\ c = 0 => h = {}
  <2>1. n # 0 => R # << >>
    OBVIOUS
  <2> QED
    BY <2>1 DEF Changes
<1> HIDE DEF n, z, B, T
<1>8. Len(C) = n + z
      /\ (\A k \in 1 .. n : C[k] = R[k]) /\ (\A k \in 1 .. z : C[n + k] = B[k])
  <2>1. /\ R \o B \in Seq(T) /\ Len(R \o B) = Len(R) + Len(B)
        /\ \A k \in 1 .. Len(R) : (R \o B)[k] = R[k]
        /\ \A k \in 1 .. Len(B) : (R \o B)[Len(R) + k] = B[k]
    BY <1>3, <1>6, JoinedRight
  <2> QED
    BY <2>1, <1>3 DEF n
<1> HIDE DEF C
<1>9. \A k \in 1 .. n : w2(k) <=> w(k)
  BY <1>1, <1>5, <1>8 DEF Wrong
<1>10. \A k \in 1 .. z : ~w2(n + k)
  BY <1>1, <1>3, <1>8 DEF Wrong
<1> HIDE DEF w, w2
<1>11. ASSUME NEW k \in 1 .. Len(C), w2(k)
       PROVE  k \in 1 .. n /\ C[k] = R[k] /\ w(k)
  <2>1. k \in 1 .. n \/ (k - n \in 1 .. z /\ n + (k - n) = k)
    BY <1>2, <1>4, <1>8
  <2>2. k \in 1 .. n
    BY <2>1, <1>10, <1>11
  <2> QED
    BY <2>2, <1>8, <1>9, <1>11
<1>12. ASSUME NEW f \in h, C[1].f <= f
       PROVE  \E k \in 1 .. Len(C) : C[k].f = f /\ w2(k)
  <2>1. CASE n = 0
    <3>1. C[n + 1] = B[1] /\ n + 1 = 1
      BY <2>1, <1>2, <1>8
    <3>2. C[1].f = l + 1
      BY <3>1, <1>2, <1>3
    <3> QED
      BY <3>2, <1>1, <1>7, <1>12
  <2>2. CASE n # 0
    <3>1. C[1] = R[1]
      BY <2>2, <1>4, <1>8
    <3>2. PICK k \in 1 .. n : R[k].f = f /\ w(k)
      BY <2>2, <3>1, <1>7, <1>12
    <3>3. k \in 1 .. Len(C) /\ C[k].f = f /\ w2(k)
      BY <3>2, <1>2, <1>4, <1>8, <1>9
    <3> QED
      BY <3>3
  <2> QED
    BY <2>1, <2>2
<1>13. Changes(C, side, s2, h, c)
  <2>1. h \subseteq 1 .. Len(s2) /\ \A f \in h : ~TooLong(side, s2[f])
    BY <1>1, <1>7
  <2>2. \A k \in 1 .. Len(C) : w2(k) => C[k].f \in h /\ C[k].p \notin {1, 2, 4, 5}
    BY <1>7, <1>11
  <2>3. \A j, k \in 1 .. Len(C) : w2(j) /\ w2(k) => j = k
    BY <1>7, <1>11
  <2> QED
    BY <2>1, <2>2, <2>3, <1>7, <1>12 DEF Changes, w2
<1> QED
  BY <1>13 DEF C, B

\* Noise that changes the first byte
LEMMA StreamFlipped ==
  ASSUME NEW side, NEW M, NEW s \in Seq(M), \A x \in M : Message(side, x),
         NEW R, Stream(R, side, s), NEW h, Changes(R, side, s, h, 0),
         NEW k \in 1 .. Len(R), NEW v \in Byte, v # R[k].b,
         R[k].p \notin {1, 2, 4, 5}, ~TooLong(side, s[R[k].f]),
         NEW C \in Seq(Tagged(s)), Len(C) = Len(R),
         \A i \in 1 .. Len(R) : C[i].f = R[i].f /\ C[i].p = R[i].p /\ (i # k => C[i].b = R[i].b),
         C[k].b = v
  PROVE  Stream(C, side, s) /\ Changes(C, side, s, h \cup {R[k].f}, 1)
<1> DEFINE n == Len(R)
           y(f) == Size(side, s[f])
<1>1. R \in Seq(Tagged(s)) /\ n \in Nat /\ Len(C) = n
  BY DEF Stream
<1>2. Stream(C, side, s)
  <2>1. /\ \A i \in 1 .. n : R[i].p <= y(R[i].f)
        /\ \A i, j \in 1 .. n : i <= j => R[i].f <= R[j].f
        /\ \A i, j \in 1 .. n :
             i <= j /\ R[i].p + (j - i) <= y(R[i].f) => R[j].f = R[i].f /\ R[j].p = R[i].p + (j - i)
        /\ \A i \in 1 .. n - 1 :
             R[i].p = y(R[i].f) => R[i + 1].f = R[i].f + 1 /\ R[i + 1].p = 1
        /\ n # 0 => R[n].f = Len(s) /\ R[n].p = y(Len(s))
    <3>1. n # 0 => R # << >>
      OBVIOUS
    <3> QED
      BY <3>1 DEF Stream
  <2> HIDE DEF n, y
  <2>2. \A i \in 1 .. n : C[i].f = R[i].f /\ C[i].p = R[i].p
    BY DEF n
  <2>3. \A i \in 1 .. n : C[i].p <= y(C[i].f)
    BY <2>1, <2>2
  <2>4. \A i, j \in 1 .. n : i <= j => C[i].f <= C[j].f
    BY <2>1, <2>2
  <2>5. \A i, j \in 1 .. n :
          i <= j /\ C[i].p + (j - i) <= y(C[i].f) => C[j].f = C[i].f /\ C[j].p = C[i].p + (j - i)
    BY <2>1, <2>2
  <2>6. \A i \in 1 .. n - 1 :
          C[i].p = y(C[i].f) => C[i + 1].f = C[i].f + 1 /\ C[i + 1].p = 1
    <3> TAKE i \in 1 .. n - 1
    <3>1. i \in 1 .. n /\ i + 1 \in 1 .. n
      BY <1>1
    <3> QED
      BY <3>1, <2>1, <2>2
  <2>7. C # << >> => C[n].f = Len(s) /\ C[n].p = y(Len(s))
    <3>1. C # << >> => n # 0 /\ n \in 1 .. n
      BY <1>1
    <3> QED
      BY <3>1, <2>1, <2>2
  <2> QED
    BY <1>1, <2>3, <2>4, <2>5, <2>6, <2>7 DEF Stream, y
<1>3. Changes(C, side, s, h \cup {R[k].f}, 1)
  <2>1. h = {} /\ \A i \in 1 .. n : ~Wrong(R[i], side, s)
    BY DEF Changes
  <2>2. \A i \in 1 .. n : i # k => ~Wrong(C[i], side, s)
    BY <2>1 DEF Wrong
  <2>3. R[k].b = Packed(side, s[R[k].f])[R[k].p]
    BY <2>1 DEF Wrong
  <2>4. Wrong(C[k], side, s)
    BY <2>3 DEF Wrong
  <2>5. R[k].f \in 1 .. Len(s) /\ C[k].f = R[k].f /\ C[k].p = R[k].p /\ h \cup {R[k].f} = {R[k].f}
    BY <1>1, <2>1, TaggedRight
  <2> QED
    BY <1>1, <2>2, <2>4, <2>5 DEF Changes
<1> QED
  BY <1>2, <1>3

\* A frame that begins what is under way is there as a whole.
LEMMA WholeFrame ==
  ASSUME NEW side, NEW M, NEW s \in Seq(M), \A x \in M : Message(side, x),
         NEW R, Stream(R, side, s), R # << >>, R[1].p = 1
  PROVE  /\ R[1].f \in 1 .. Len(s) /\ s[R[1].f] \in M /\ Message(side, s[R[1].f])
         /\ Size(side, s[R[1].f]) \in 6 .. Len(R)
         /\ \A k \in 1 .. Size(side, s[R[1].f]) :
              k \in 1 .. Len(R) /\ R[k].f = R[1].f /\ R[k].p = k
         /\ Size(side, s[R[1].f]) < Len(R) =>
              /\ R[Size(side, s[R[1].f]) + 1].f = R[1].f + 1
              /\ R[Size(side, s[R[1].f]) + 1].p = 1
         /\ Size(side, s[R[1].f]) = Len(R) => R[1].f = Len(s)
<1> DEFINE f == R[1].f
           z == Size(side, s[f])
           n == Len(R)
<1>1. R \in Seq(Tagged(s)) /\ n \in Nat /\ n # 0 /\ 1 \in 1 .. n /\ n \in 1 .. n
  BY DEF Stream
<1>2. f \in 1 .. Len(s) /\ s[f] \in M
  BY <1>1, TaggedRight
<1>3. z \in Nat /\ z >= 6
  BY <1>2, SizeRight
<1> HIDE DEF z, n, f
<1>4. /\ \A k \in 1 .. n : 1 + (k - 1) <= z => R[k].f = f /\ R[k].p = 1 + (k - 1)
      /\ R[n].f = Len(s) /\ R[n].p = Size(side, s[Len(s)])
      /\ \A i \in 1 .. n - 1 :
           R[i].p = Size(side, s[R[i].f]) => R[i + 1].f = R[i].f + 1 /\ R[i + 1].p = 1
  BY <1>1 DEF Stream, f, z, n
<1>5. \A k \in 1 .. n : k <= z => R[k].f = f /\ R[k].p = k
  <2> TAKE k \in 1 .. n
  <2>1. 1 + (k - 1) = k
    OBVIOUS
  <2> QED
    BY <2>1, <1>4
<1>6. ASSUME n < z
      PROVE  FALSE
  <2>1. R[n].f = f /\ R[n].p = n
    BY <1>1, <1>3, <1>5, <1>6
  <2>2. n = z
    BY <2>1, <1>4 DEF z
  <2> QED
    BY <2>2, <1>1, <1>6
<1>7. z \in 6 .. n
  BY <1>1, <1>3, <1>6
<1>8. R[z].f = f /\ R[z].p = z
  BY <1>5, <1>7
<1>9. z < n => R[z + 1].f = f + 1 /\ R[z + 1].p = 1
  <2>1. z < n => z \in 1 .. n - 1
    BY <1>1, <1>7
  <2> QED
    BY <2>1, <1>4, <1>8 DEF z
<1>10. z = n => f = Len(s)
  BY <1>4, <1>8
<1>11. \A k \in 1 .. z : k \in 1 .. n /\ R[k].f = f /\ R[k].p = k
  BY <1>1, <1>5, <1>7
<1> QED
  BY <1>2, <1>7, <1>9, <1>10, <1>11 DEF f, z, n

\* A frame of which no byte has been changed is as it was sent; otherwise its
\* checksum is wrong.
LEMMA FrameVerdict ==
  ASSUME NEW side, NEW M, NEW s \in Seq(M), \A x \in M : Message(side, x),
         NEW R, Stream(R, side, s), R # << >>, R[1].p = 1,
         NEW h, NEW c, Changes(R, side, s, h, c)
  PROVE  LET f == R[1].f
             m == s[f]
             len == Len(Data(side, m))
             data == [k \in 1 .. len |-> R[5 + k].b]
         IN  /\ R[1].b = SYNC1 /\ R[2].b = SYNC2 /\ R[4].b + W * R[5].b = len
             /\ f \notin h => /\ R[3].b = Command(side, m) /\ data = Data(side, m)
                              /\ calc_chk(R[3].b, data) = R[6 + len].b
             /\ f \in h => calc_chk(R[3].b, data) # R[6 + len].b
<1> DEFINE f == R[1].f
           m == s[f]
           D == Data(side, m)
           F == Packed(side, m)
           cmd == Command(side, m)
           len == Len(D)
           z == Size(side, m)
           data == [k \in 1 .. len |-> R[5 + k].b]
           w(k) == Wrong(R[k], side, s)
<1>1. /\ f \in 1 .. Len(s) /\ Message(side, m) /\ z \in 6 .. Len(R) /\ z = 6 + len /\ len \in Nat
      /\ \A k \in 1 .. z : k \in 1 .. Len(R) /\ R[k].f = f /\ R[k].p = k
      /\ z < Len(R) => R[z + 1].f = f + 1
      /\ Len(R) \in Nat /\ R \in Seq(Tagged(s))
  <2>4. R[1].f \in 1 .. Len(s) /\ s[R[1].f] \in M /\ Message(side, s[R[1].f])
        /\ Size(side, s[R[1].f]) \in 6 .. Len(R)
    BY WholeFrame
  <2>5. \A k \in 1 .. Size(side, s[R[1].f]) :
          k \in 1 .. Len(R) /\ R[k].f = R[1].f /\ R[k].p = k
    BY WholeFrame
  <2>6. Size(side, s[R[1].f]) < Len(R) => R[Size(side, s[R[1].f]) + 1].f = R[1].f + 1
    <3> DEFINE q == Size(side, s[R[1].f])
    <3>1. q \in 1 .. q /\ (q < Len(R) => q \in 1 .. Len(R) - 1)
      BY <2>4
    <3>2. R[q].f = R[1].f /\ R[q].p = q
      BY <2>5, <3>1
    <3>3. \A i \in 1 .. Len(R) - 1 : R[i].p = Size(side, s[R[i].f]) => R[i + 1].f = R[i].f + 1
      BY DEF Stream
    <3> QED
      BY <3>1, <3>2, <3>3
  <2>1. /\ f \in 1 .. Len(s) /\ m \in M /\ Message(side, m) /\ z \in 6 .. Len(R)
        /\ \A k \in 1 .. z : k \in 1 .. Len(R) /\ R[k].f = f /\ R[k].p = k
        /\ z < Len(R) => R[z + 1].f = f + 1
    BY <2>4, <2>5, <2>6
  <2>2. z = 6 + len /\ len \in Nat
    BY <2>1, SizeRight
  <2>3. Len(R) \in Nat /\ R \in Seq(Tagged(s))
    BY DEF Stream
  <2> QED
    BY <2>1, <2>2, <2>3
<1>2. Framed(F, cmd, D) /\ cmd \in Byte /\ D \in Seq(Byte) /\ len < W * W
  BY <1>1, MessageRight
<1>3. \A k \in 1 .. z : w(k) <=> R[k].b # F[k]
  BY <1>1 DEF Wrong
<1>4. \A k \in 1 .. z : R[k].b \in Byte
  BY <1>1, TaggedRight
<1>5. /\ \A k \in 1 .. z : w(k) => k \notin {1, 2, 4, 5} /\ f \in h
      /\ \A j, k \in 1 .. z : w(j) /\ w(k) => j = k
  BY <1>1 DEF Changes
<1>6. f \in h => \E k \in 1 .. z : w(k)
  <2> SUFFICES ASSUME f \in h PROVE \E k \in 1 .. z : w(k)
    OBVIOUS
  <2>1. PICK k \in 1 .. Len(R) : R[k].f = f /\ w(k)
    <3>1. f <= f
      BY <1>1
    <3> QED
      BY <3>1 DEF Changes
  <2>2. ASSUME k > z
        PROVE  FALSE
    <3>1. z + 1 \in 1 .. Len(R) /\ z + 1 <= k /\ R[z + 1].f = f + 1
      BY <2>2, <1>1
    <3>2. R[z + 1].f <= R[k].f
      BY <3>1 DEF Stream
    <3> QED
      BY <3>1, <3>2, <2>1, <1>1
  <2>3. k \in 1 .. z
    BY <2>2, <1>1
  <2> QED
    BY <2>1, <2>3
<1> HIDE DEF w, z, D, F, cmd, len, m, f
<1>7. /\ F[1] = SYNC1 /\ F[2] = SYNC2 /\ F[3] = cmd /\ F[4] + W * F[5] = len
      /\ \A k \in 1 .. len : F[5 + k] = D[k]
      /\ F[6 + len] = calc_chk(cmd, D)
  BY <1>2 DEF Framed, len
<1>8. R[1].b = SYNC1 /\ R[2].b = SYNC2 /\ R[4].b + W * R[5].b = len
  <2>1. 1 \in 1 .. z /\ 2 \in 1 .. z /\ 4 \in 1 .. z /\ 5 \in 1 .. z
    BY <1>1
  <2> QED
    BY <2>1, <1>3, <1>5, <1>7
<1>9. \A k \in 1 .. len : 5 + k \in 1 .. z /\ data[k] = R[5 + k].b /\ data[k] \in Byte
  BY <1>1, <1>4
<1>10. data \in Seq(Byte) /\ Len(data) = len
  <2>1. data \in [1 .. len -> Byte]
    BY <1>9
  <2> HIDE DEF data
  <2> QED
    BY <2>1, <1>1
<1>11. 3 \in 1 .. z /\ 6 + len \in 1 .. z
  BY <1>1
<1>12. D = [k \in 1 .. len |-> D[k]]
  BY <1>2 DEF len
<1>13. calc_chk(cmd, D) \in Byte
  <2>1. F[6 + len] \in Byte
    <3>1. F \in Seq(Byte) /\ Len(F) = 6 + len
      BY <1>2 DEF Framed, len
    <3> QED
      BY <3>1, <1>1
  <2> QED
    BY <2>1, <1>7
<1>14. CASE f \notin h
  <2>1. \A k \in 1 .. z : R[k].b = F[k]
    BY <1>3, <1>5, <1>14
  <2>2. data = D
    BY <2>1, <1>7, <1>9, <1>12
  <2>3. R[3].b = cmd /\ R[6 + len].b = calc_chk(cmd, D)
    BY <2>1, <1>7, <1>11
  <2> QED
    BY <2>2, <2>3, <1>8, <1>14 DEF f, m, D, len, cmd
<1>15. CASE f \in h
  <2>1. PICK j \in 1 .. z : w(j)
    BY <1>6, <1>15
  <2>2. R[j].b # F[j] /\ j \notin {1, 2, 4, 5} /\ \A k \in 1 .. z : k # j => R[k].b = F[k]
    BY <2>1, <1>3, <1>5
  <2> DEFINE lo == len % W
             hi == len \div W
             start(c0) == XorOf(XorOf(c0, lo), hi)
  <2>3. lo \in Byte /\ hi \in Byte
    BY <1>1, <1>2, LengthBytes DEF len
  <2>4. \A c0 \in Byte : start(c0) \in Byte
    BY <2>3, XorAssumption
  <2>5. \A c0, c1 \in Byte : c0 # c1 => start(c0) # start(c1)
    <3> TAKE c0, c1 \in Byte
    <3>1. XorOf(c0, lo) \in Byte /\ XorOf(c1, lo) \in Byte
      BY <2>3, XorAssumption
    <3> QED
      BY <3>1, <2>3, XorAssumption
  <2>6. \A c0 : calc_chk(c0, data) = XorFrom(start(c0), data) /\ calc_chk(c0, D) = XorFrom(start(c0), D)
    BY <1>10 DEF calc_chk, len
  <2> HIDE DEF start, data, lo, hi
  <2>7. calc_chk(R[3].b, data) # R[6 + len].b
    <3>1. CASE j = 3
      <4>1. R[3].b # cmd /\ R[3].b \in Byte /\ R[6 + len].b = calc_chk(cmd, D)
        <5>1. 6 + len # 3
          BY <1>1
        <5> QED
          BY <5>1, <3>1, <2>2, <1>4, <1>7, <1>11
      <4>2. data = D
        <5>1. \A k \in 1 .. len : 5 + k # 3
          BY <1>1
        <5> QED
          BY <5>1, <3>1, <2>2, <1>7, <1>9, <1>12 DEF data
      <4>3. start(R[3].b) # start(cmd)
        BY <4>1, <2>5, <1>2
      <4>4. XorFrom(start(R[3].b), D) # XorFrom(start(cmd), D)
        BY <4>1, <4>3, <2>4, <1>2, XorTellsStart
      <4> QED
        BY <4>1, <4>2, <4>4, <2>6
    <3>2. CASE j = 6 + len
      <4>1. 3 # j /\ \A k \in 1 .. len : 5 + k # j
        BY <3>2, <1>1
      <4>2. R[3].b = cmd /\ data = D
        BY <4>1, <2>2, <1>7, <1>9, <1>11, <1>12 DEF data
      <4> QED
        BY <4>2, <3>2, <2>2, <1>7
    <3>3. CASE j \notin {3, 6 + len}
      <4>1. j - 5 \in 1 .. len /\ 5 + (j - 5) = j
        BY <3>3, <2>2, <1>1
      <4>2. R[3].b = cmd /\ R[6 + len].b = calc_chk(cmd, D)
        BY <3>3, <2>2, <1>7, <1>11
      <4>3. data[j - 5] # D[j - 5]
        BY <4>1, <2>2, <1>7, <1>9
      <4>4. \A k \in 1 .. len : k # j - 5 => data[k] = D[k]
        <5> TAKE k \in 1 .. len
        <5>1. k # j - 5 => 5 + k # j
          BY <1>1
        <5> QED
          BY <5>1, <2>2, <1>7, <1>9
      <4>5. XorFrom(start(cmd), data) # XorFrom(start(cmd), D)
        <5>1. start(cmd) \in Byte /\ Len(data) = Len(D) /\ Len(data) = len
          BY <2>4, <1>2, <1>10 DEF len
        <5> QED
          BY <5>1, <4>1, <4>3, <4>4, <1>2, <1>10, XorTells
      <4> QED
        BY <4>2, <4>5, <2>6
    <3> QED
      BY <3>1, <3>2, <3>3
  <2> QED
    BY <2>7, <1>8, <1>15 DEF f, m, D, len, cmd, data
<1> QED
  BY <1>14, <1>15

-----------------------------------------------------------------------------
(* Link: what has been understood *)

\* The frames that can be understood, and those that are over
Sound(side, s, h) ==
  {f \in 1 .. Len(s) : f \notin h /\ ~TooLong(side, s[f]) /\ s[f].cmd # "CMD_RSP"}
Over(R, s) == IF R = << >> THEN Len(s) ELSE R[1].f - 1

\* Of the frames up to d the sound ones have been understood, in their order.
Heeded(g, M, side, s, h, d) ==
  /\ g \in Seq([m : {Heard(x) : x \in M}, f : Nat])
  /\ \A k \in 1 .. Len(g) :
       g[k].f \in Sound(side, s, h) /\ g[k].f <= d /\ g[k].m = Heard(s[g[k].f])
  /\ \A j, k \in 1 .. Len(g) : j < k => g[j].f < g[k].f
  /\ \A f \in Sound(side, s, h) : f <= d => \E k \in 1 .. Len(g) : g[k].f = f

LEMMA HeededMore ==
  ASSUME NEW g, NEW M, NEW side, NEW s, NEW h, NEW d \in Int, Heeded(g, M, side, s, h, d),
         NEW e \in Int, d <= e, \A f \in Sound(side, s, h) : f <= e => f <= d
  PROVE  Heeded(g, M, side, s, h, e)
<1>1. \A k \in 1 .. Len(g) : g[k].f <= d => g[k].f <= e
  <2> TAKE k \in 1 .. Len(g)
  <2>1. g[k].f \in Sound(side, s, h)
    BY DEF Heeded
  <2>2. g[k].f \in Int
    BY <2>1 DEF Sound
  <2> QED
    BY <2>2
<1> QED
  BY <1>1 DEF Heeded

LEMMA HeededNext ==
  ASSUME NEW M, NEW s \in Seq(M), NEW g, NEW side, NEW h, NEW d \in Int,
         Heeded(g, M, side, s, h, d), d + 1 \in Sound(side, s, h)
  PROVE  Heeded(Append(g, [m |-> Heard(s[d + 1]), f |-> d + 1]), M, side, s, h, d + 1)
<1> DEFINE T == [m : {Heard(x) : x \in M}, f : Nat]
           y == [m |-> Heard(s[d + 1]), f |-> d + 1]
           G == Append(g, y)
           S == Sound(side, s, h)
           n == Len(g)
<1>1. d + 1 \in 1 .. Len(s) /\ s[d + 1] \in M /\ d + 1 \in Nat
  BY DEF Sound
<1>2. y \in T /\ y.m = Heard(s[d + 1]) /\ y.f = d + 1
  BY <1>1
<1>3. /\ g \in Seq(T)
      /\ \A k \in 1 .. n : g[k].f \in S /\ g[k].f <= d /\ g[k].m = Heard(s[g[k].f])
      /\ \A j, k \in 1 .. n : j < k => g[j].f < g[k].f
      /\ \A f \in S : f <= d => \E k \in 1 .. n : g[k].f = f
  BY DEF Heeded
<1>4. S \subseteq Int
  BY DEF Sound
<1> HIDE DEF T, y, S
<1>5. G \in Seq(T) /\ Len(G) = n + 1 /\ n \in Nat /\ G[n + 1] = y
      /\ \A k \in 1 .. n : G[k] = g[k]
  BY <1>2, <1>3, AppendProperties
<1> HIDE DEF G, n
<1>6. \A k \in 1 .. n + 1 : k = n + 1 \/ (k \in 1 .. n /\ k < n + 1)
  BY <1>5
<1>7. \A k \in 1 .. n + 1 : G[k].f \in S /\ G[k].f <= d + 1 /\ G[k].m = Heard(s[G[k].f])
  <2> TAKE k \in 1 .. n + 1
  <2>1. CASE k = n + 1
    BY <2>1, <1>1, <1>2, <1>5 DEF S
  <2>2. CASE k \in 1 .. n
    <3>1. g[k].f \in Int /\ g[k].f <= d
      BY <2>2, <1>3, <1>4
    <3> QED
      BY <2>2, <3>1, <1>3, <1>5
  <2> QED
    BY <2>1, <2>2, <1>6
<1>8. \A j, k \in 1 .. n + 1 : j < k => G[j].f < G[k].f
  <2> TAKE j, k \in 1 .. n + 1
  <2> HAVE j < k
  <2>1. j \in 1 .. n
    BY <1>5, <1>6
  <2>2. CASE k = n + 1
    <3>1. g[j].f \in Int /\ g[j].f <= d
      BY <2>1, <1>3, <1>4
    <3> QED
      BY <2>1, <2>2, <3>1, <1>2, <1>5
  <2>3. CASE k \in 1 .. n
    BY <2>1, <2>3, <1>3, <1>5
  <2> QED
    BY <2>2, <2>3, <1>6
<1>9. ASSUME NEW f \in S, f <= d + 1
      PROVE  \E k \in 1 .. n + 1 : G[k].f = f
  <2>1. CASE f = d + 1
    <3>1. n + 1 \in 1 .. n + 1 /\ G[n + 1].f = f
      BY <2>1, <1>2, <1>5
    <3> QED
      BY <3>1
  <2>2. CASE f # d + 1
    <3>1. f <= d
      BY <2>2, <1>4, <1>9
    <3>2. PICK k \in 1 .. n : g[k].f = f
      BY <3>1, <1>3
    <3>3. k \in 1 .. n + 1 /\ G[k].f = f
      BY <3>2, <1>5
    <3> QED
      BY <3>3
  <2> QED
    BY <2>1, <2>2
<1>10. Heeded(G, M, side, s, h, d + 1)
  BY <1>5, <1>7, <1>8, <1>9 DEF Heeded, T, S
<1> QED
  BY <1>10 DEF G, y

LEMMA HeededSent ==
  ASSUME NEW M, NEW s \in Seq(M), NEW m \in M, NEW g, NEW side, NEW h, NEW d \in Int,
         Heeded(g, M, side, s, h, d), d <= Len(s)
  PROVE  Heeded(g, M, side, Append(s, m), h, d)
<1> DEFINE t == Append(s, m)
           S == Sound(side, s, h)
           Q == Sound(side, t, h)
<1>1. /\ Len(t) = Len(s) + 1 /\ Len(s) \in Nat
      /\ \A f \in 1 .. Len(s) : t[f] = s[f] /\ f \in 1 .. Len(s) + 1
  BY SentRight
<1> HIDE DEF t
<1>2. \A f \in S : f \in Q /\ t[f] = s[f]
  BY <1>1 DEF Sound
<1>3. \A f \in Q : f <= d => f \in S
  <2> TAKE f \in Q
  <2> HAVE f <= d
  <2>1. f \in 1 .. Len(s) + 1 /\ f \notin h /\ ~TooLong(side, t[f]) /\ t[f].cmd # "CMD_RSP"
    BY <1>1 DEF Sound
  <2>2. f \in 1 .. Len(s)
    BY <2>1, <1>1
  <2> QED
    BY <2>1, <2>2, <1>1 DEF Sound
<1> HIDE DEF S, Q
<1>4. Heeded(g, M, side, t, h, d)
  BY <1>2, <1>3 DEF Heeded, S, Q
<1> QED
  BY <1>4 DEF t

LEMMA HeededHit ==
  ASSUME NEW g, NEW M, NEW side, NEW s, NEW h, NEW d \in Int, Heeded(g, M, side, s, h, d),
         NEW e \in Int, d < e
  PROVE  Heeded(g, M, side, s, h \cup {e}, d)
<1>1. \A f \in Sound(side, s, h) : f <= d => f \in Sound(side, s, h \cup {e})
  BY DEF Sound
<1>2. Sound(side, s, h \cup {e}) \subseteq Sound(side, s, h)
  BY DEF Sound
<1> QED
  BY <1>1, <1>2 DEF Heeded

\* The rest of a frame that does not fit is skipped byte by byte.
Skipped(x, side, s) == TooLong(side, s[x.f]) /\ x.p >= 6

LEMMA SkipRest ==
  ASSUME NEW side, NEW M, NEW s \in Seq(M), \A x \in M : Message(side, x),
         NEW R, Stream(R, side, s), NEW h, NEW c, Changes(R, side, s, h, c),
         NEW g, Heeded(g, M, side, s, h, Over(R, s)),
         R # << >>, Skipped(R[1], side, s)
  PROVE  LET D == SubSeq(R, 2, Len(R))
         IN  /\ Stream(D, side, s) /\ Changes(D, side, s, h, c)
             /\ Heeded(g, M, side, s, h, Over(D, s))
             /\ D # << >> => /\ D[1] = R[2] /\ 2 \in 1 .. Len(R)
                             /\ \/ D[1].p = 1
                                \/ /\ Skipped(D[1], side, s) /\ D[1].f = R[1].f
                                   /\ D[1].p = R[1].p + 1
<1> DEFINE D == SubSeq(R, 1 + 1, Len(R))
           f == R[1].f
           z == Size(side, s[f])
           n == Len(R)
<1>1. R \in Seq(Tagged(s)) /\ n \in Nat /\ n # 0 /\ 1 \in 1 .. n /\ 1 \in 0 .. n
  BY DEF Stream
<1>2. f \in 1 .. Len(s) /\ s[f] \in M /\ R[1].p \in Nat \ {0} /\ R[1].p <= z /\ Len(s) \in Nat
  BY <1>1, TaggedRight DEF Stream
<1>3. z \in Nat
  BY <1>2, SizeRight
<1>4. TooLong(side, s[f]) /\ f \notin h /\ R[1].p >= 6
  BY DEF Skipped, Changes
<1>5. /\ D \in Seq(Tagged(s)) /\ Len(D) = n - 1
      /\ \A k \in 1 .. Len(D) : D[k] = R[1 + k] /\ 1 + k \in 1 .. n
      /\ D = << >> <=> 1 = n
  <2> DEFINE d == 1
             E == SubSeq(R, d + 1, Len(R))
  <2>1. d \in 0 .. Len(R)
    BY <1>1
  <2> HIDE DEF d
  <2>2. /\ E \in Seq(Tagged(s)) /\ Len(E) = Len(R) - d
        /\ \A k \in 1 .. Len(E) : E[k] = R[d + k] /\ d + k \in 1 .. Len(R)
        /\ E = << >> <=> d = Len(R)
    BY <1>1, <2>1, Dropped
  <2> HIDE DEF E
  <2>3. D = E
    BY DEF E, d
  <2> HIDE DEF D
  <2> QED
    BY <2>2, <2>3 DEF d
<1>6. n > 1 => \/ R[2].p = 1 /\ R[2].f = f + 1
               \/ R[2].f = f /\ R[2].p = R[1].p + 1
  <2> SUFFICES ASSUME n > 1
               PROVE  \/ R[2].p = 1 /\ R[2].f = f + 1
                      \/ R[2].f = f /\ R[2].p = R[1].p + 1
    OBVIOUS
  <2>0. 2 \in 1 .. n /\ 1 \in 1 .. n - 1 /\ 1 + 1 = 2 /\ 2 - 1 = 1 /\ 1 <= 2
    BY <1>1
  <2>1. CASE R[1].p = z
    BY <2>0, <2>1 DEF Stream
  <2>2. CASE R[1].p # z
    <3>1. R[1].p + (2 - 1) <= z
      BY <2>2, <1>2, <1>3
    <3>2. R[2].f = R[1].f /\ R[2].p = R[1].p + (2 - 1)
      BY <2>0, <3>1, <1>1 DEF Stream
    <3> QED
      BY <3>2
  <2> QED
    BY <2>1, <2>2
<1>7. n = 1 => f = Len(s)
  BY DEF Stream
<1>8. Stream(D, side, s)
  BY <1>1, StreamRest
<1>9. Changes(D, side, s, h, c)
  <2>1. 1 < Len(R) => R[1 + 1].p = 1 \/ R[1 + 1].f \notin h
    BY <1>4, <1>6
  <2> QED
    BY <2>1, <1>1, ChangesRest
<1>10. D # << >> => /\ D[1] = R[2] /\ 2 \in 1 .. n
                    /\ \/ D[1].p = 1 /\ D[1].f = f + 1
                       \/ /\ Skipped(D[1], side, s) /\ D[1].f = f /\ D[1].p = R[1].p + 1
  <2> SUFFICES ASSUME D # << >>
               PROVE  /\ D[1] = R[2] /\ 2 \in 1 .. n
                      /\ \/ D[1].p = 1 /\ D[1].f = f + 1
                         \/ /\ Skipped(D[1], side, s) /\ D[1].f = f /\ D[1].p = R[1].p + 1
    OBVIOUS
  <2> HIDE DEF D
  <2>1. n > 1 /\ 1 \in 1 .. Len(D) /\ D[1] = R[1 + 1] /\ 2 \in 1 .. n
    BY <1>1, <1>5
  <2>2. D[1] = R[2]
    BY <2>1
  <2>3. CASE R[2].p = 1 /\ R[2].f = f + 1
    BY <2>1, <2>2, <2>3
  <2>4. CASE R[2].f = f /\ R[2].p = R[1].p + 1
    <3>1. R[2].p >= 6
      BY <2>4, <1>2, <1>4
    <3>2. Skipped(D[1], side, s)
      BY <2>2, <2>4, <3>1, <1>4 DEF Skipped
    <3> QED
      BY <2>1, <2>2, <2>4, <3>2
  <2> QED
    BY <2>1, <2>3, <2>4, <1>6
<1>11. Over(R, s) = f - 1 /\ Over(D, s) \in {f - 1, f}
  <2> HIDE DEF D
  <2>1. Over(R, s) = f - 1
    BY DEF Over
  <2>2. CASE D = << >>
    BY <2>1, <2>2, <1>5, <1>7 DEF Over
  <2>3. CASE D # << >>
    <3>1. D[1].f - 1 \in {f - 1, f}
      BY <2>3, <1>2, <1>10
    <3> QED
      BY <2>1, <2>3, <3>1 DEF Over
  <2> QED
    BY <2>2, <2>3
<1>12. f \notin Sound(side, s, h)
  BY <1>4 DEF Sound
<1>13. Heeded(g, M, side, s, h, Over(D, s))
  <2> HIDE DEF D
  <2>1. Over(R, s) \in Int /\ Over(D, s) \in Int /\ Over(R, s) <= Over(D, s)
    BY <1>2, <1>11
  <2>2. \A i \in Sound(side, s, h) : i <= Over(D, s) => i <= Over(R, s)
    <3> TAKE i \in Sound(side, s, h)
    <3>1. i \in Int /\ i # f /\ f \in Int
      BY <1>2, <1>12 DEF Sound
    <3> QED
      BY <3>1, <1>11
  <2> QED
    BY <2>1, <2>2, HeededMore
<1>14. 1 + 1 = 2
  OBVIOUS
<1> HIDE DEF D
<1>15. D = SubSeq(R, 2, Len(R))
  BY <1>14 DEF D
<1> QED
  BY <1>8, <1>9, <1>10, <1>13, <1>15

\* A frame that has been received as a whole is over.
LEMMA FrameRest ==
  ASSUME NEW side, NEW M, NEW s \in Seq(M), \A x \in M : Message(side, x),
         NEW R, Stream(R, side, s), NEW h, NEW c, Changes(R, side, s, h, c),
         R # << >>, R[1].p = 1
  PROVE  LET z == Size(side, s[R[1].f])
             D == SubSeq(R, z + 1, Len(R))
         IN  /\ Stream(D, side, s) /\ Changes(D, side, s, h, c)
             /\ D # << >> => D[1].p = 1
             /\ Over(R, s) = R[1].f - 1 /\ Over(D, s) = R[1].f
<1> DEFINE f == R[1].f
           z == Size(side, s[f])
           D == SubSeq(R, z + 1, Len(R))
           n == Len(R)
<1>1. f \in 1 .. Len(s) /\ z \in 6 .. n
  <2>1. f \in 1 .. Len(s) /\ s[f] \in M /\ z \in 6 .. n
    BY WholeFrame
  <2> QED
    BY <2>1
<1>2. R \in Seq(Tagged(s)) /\ n \in Nat
  BY DEF Stream
<1>3. \A k \in 1 .. z : k \in 1 .. n /\ R[k].f = f /\ R[k].p = k
  BY WholeFrame
<1>4. z < n => R[z + 1].f = f + 1 /\ R[z + 1].p = 1
  <2>1. z \in 1 .. z /\ (z < n => z \in 1 .. n - 1)
    BY <1>1, <1>2
  <2>2. R[z].f = f /\ R[z].p = z
    BY <1>3, <2>1
  <2>3. \A i \in 1 .. Len(R) - 1 :
          R[i].p = Size(side, s[R[i].f]) => R[i + 1].f = R[i].f + 1 /\ R[i + 1].p = 1
    BY DEF Stream
  <2> QED
    BY <2>1, <2>2, <2>3
<1>5. z = n => f = Len(s)
  <2>1. z \in 1 .. z
    BY <1>1
  <2>2. R[z].f = f
    BY <2>1, <1>3
  <2>3. R[n].f = Len(s)
    BY DEF Stream
  <2> QED
    BY <2>2, <2>3
<1> HIDE DEF f, z
<1>6. z \in 0 .. n
  BY <1>1, <1>2
<1>7. /\ D \in Seq(Tagged(s)) /\ Len(D) = Len(R) - z
      /\ \A k \in 1 .. Len(D) : D[k] = R[z + k] /\ z + k \in 1 .. Len(R)
      /\ D = << >> <=> z = Len(R)
  <2>1. z \in 0 .. Len(R)
    BY <1>6
  <2> QED
    BY <2>1, <1>2, Dropped
<1>8. Stream(D, side, s)
  BY <1>6, StreamRest
<1>9. Changes(D, side, s, h, c)
  <2>1. z < Len(R) => R[z + 1].p = 1 \/ R[z + 1].f \notin h
    BY <1>4
  <2> QED
    BY <2>1, <1>6, ChangesRest
<1> HIDE DEF D
<1>10. D # << >> => D[1].p = 1 /\ D[1].f = f + 1
  <2>1. D # << >> => z < n /\ 1 \in 1 .. Len(D)
    BY <1>1, <1>2, <1>7
  <2> QED
    BY <2>1, <1>4, <1>7
<1>11. Over(D, s) = f
  BY <1>1, <1>5, <1>7, <1>10 DEF Over
<1>12. Over(R, s) = f - 1
  BY DEF Over, f
<1> QED
  BY <1>8, <1>9, <1>10, <1>11, <1>12 DEF D, z, f

-----------------------------------------------------------------------------
(* Link: the invariant *)

\* What has been sent and received, R being under way
Received(R, side, M, s, h, c, g) ==
  /\ Stream(R, side, s) /\ Changes(R, side, s, h, c)
  /\ Heeded(g, M, side, s, h, Over(R, s))

\* The parsers are at the beginning of a frame, or in one that began right; that
\* of the MCU also in the rest of one that does not fit.
UpState(B, L, sync, side, s) ==
  /\ sync \in 0 .. 2
  /\ sync = 0 => B = << >> /\ (L # << >> => L[1].p = 1 \/ Skipped(L[1], side, s))
  /\ sync = 1 => Len(B) = 1 /\ (B[1].p = 1 \/ (Skipped(B[1], side, s) /\ B[1].b = SYNC1))
  /\ sync = 2 => /\ Len(B) >= 2 /\ B[1].p = 1 /\ Len(B) < Size(side, s[B[1].f])
                 /\ TooLong(side, s[B[1].f]) => Len(B) < 5

DownState(B, L, at, side, s) ==
  /\ at \in {"read", "parse"}
  /\ B \o L # << >> => (B \o L)[1].p = 1
  /\ at = "read" /\ B # << >> => Len(B) < Size(side, s[B[1].f])

ParserState(B, L, sync, at, side, s) ==
  IF side = "up" THEN at = "read" /\ UpState(B, L, sync, side, s)
  ELSE DownState(B, L, at, side, s)

LinkBody ==
  /\ line \in Seq(Tagged(sent)) /\ buffer \in Seq(Tagged(sent))
  /\ Received(buffer \o line, scenario.side, scenario.messages, sent, hit, flips, got)
  /\ ParserState(buffer, line, rx_sync, pc, scenario.side, sent)

\* A frame that does not fit and seems to hold another
Misleads(side, m) ==
  /\ TooLong(side, m)
  /\ \E j \in 6 .. Size(side, m) - 1 : Packed(side, m)[j] = SYNC1 /\ Packed(side, m)[j + 1] = SYNC2

Clean == broken = 0 /\ flips <= 1 /\ \A k \in 1 .. Len(sent) : ~Misleads(scenario.side, sent[k])

LinkTypes == scenario \in Scenarios /\ sent \in Seq(scenario.messages) /\ flips \in Nat

LinkInv == LinkTypes /\ (Clean => LinkBody)

\* A byte in the rest of a frame that does not fit has been passed over.
LEMMA Passed ==
  ASSUME NEW side, NEW M, NEW s \in Seq(M), \A x \in M : Message(side, x),
         NEW h, NEW c, NEW g, NEW T, NEW x \in T, NEW L \in Seq(T),
         Received(<<x>> \o L, side, M, s, h, c, g), Skipped(x, side, s)
  PROVE  /\ Received(L, side, M, s, h, c, g)
         /\ L # << >> => \/ L[1].p = 1
                         \/ Skipped(L[1], side, s) /\ L[1].f = x.f /\ L[1].p = x.p + 1
<1> DEFINE R == <<x>> \o L
<1>1. R # << >> /\ R[1] = x /\ L = SubSeq(R, 2, Len(R))
  <2>1. Len(R) = 1 + Len(L) /\ R[1] = x /\ \A k \in 1 .. Len(L) : R[1 + k] = L[k]
    <3>1. <<x>> \in Seq(T) /\ Len(<<x>>) = 1 /\ <<x>>[1] = x
      OBVIOUS
    <3> DEFINE X == <<x>>
    <3> HIDE DEF X
    <3>2. Len(X \o L) = Len(X) + Len(L) /\ (\A k \in 1 .. Len(X) : (X \o L)[k] = X[k])
          /\ (\A k \in 1 .. Len(L) : (X \o L)[Len(X) + k] = L[k])
      BY <3>1, JoinedRight DEF X
    <3> QED
      BY <3>1, <3>2 DEF X
  <2>2. R \in Seq(T)
    OBVIOUS
  <2> HIDE DEF R
  <2> DEFINE D == SubSeq(R, 2, Len(R))
  <2>3. D \in Seq(T) /\ Len(D) = Len(L) /\ \A k \in 1 .. Len(D) : D[k] = R[1 + k]
    BY <2>1, <2>2
  <2> HIDE DEF D
  <2>4. \A k \in 1 .. Len(L) : D[k] = L[k]
    BY <2>1, <2>3
  <2>5. D = L
    BY <2>3, <2>4
  <2>6. R # << >>
    BY <2>1, <2>2
  <2> QED
    BY <2>1, <2>5, <2>6 DEF D
<1>2. Stream(R, side, s) /\ Changes(R, side, s, h, c) /\ Heeded(g, M, side, s, h, Over(R, s))
  BY DEF Received
<1> HIDE DEF R
<1>3. /\ Stream(L, side, s) /\ Changes(L, side, s, h, c)
      /\ Heeded(g, M, side, s, h, Over(L, s))
      /\ L # << >> => /\ L[1] = R[2] /\ 2 \in 1 .. Len(R)
                      /\ \/ L[1].p = 1
                         \/ /\ Skipped(L[1], side, s) /\ L[1].f = R[1].f
                            /\ L[1].p = R[1].p + 1
  <2> DEFINE D == SubSeq(R, 2, Len(R))
  <2>1. /\ Stream(D, side, s) /\ Changes(D, side, s, h, c)
        /\ Heeded(g, M, side, s, h, Over(D, s))
        /\ D # << >> => /\ D[1] = R[2] /\ 2 \in 1 .. Len(R)
                        /\ \/ D[1].p = 1
                           \/ /\ Skipped(D[1], side, s) /\ D[1].f = R[1].f
                              /\ D[1].p = R[1].p + 1
    BY <1>1, <1>2, SkipRest
  <2>2. D = L
    BY <1>1
  <2> HIDE DEF D
  <2> QED
    BY <2>1, <2>2
<1> QED
  BY <1>1, <1>3 DEF Received

\* What a scenario has to say
LEMMA ScenarioRight ==
  ASSUME scenario \in Scenarios
  PROVE  /\ \A m \in scenario.messages : Message(scenario.side, m)
         /\ Up <=> scenario.side = "up"
         /\ \A m : Pack(m) = Packed(scenario.side, m)
         /\ \A m : Oversize(m) <=> TooLong(scenario.side, m)
         /\ \A m : FalseStart(m) <=> Misleads(scenario.side, m)
<1>1. \A m \in scenario.messages : Message(scenario.side, m)
  BY ScenariosAssumption DEF Message
<1>2. \A m : Pack(m) = Packed(scenario.side, m)
  BY DEF Pack, Packed, Up
<1>3. \A m : Oversize(m) <=> TooLong(scenario.side, m)
  BY <1>2 DEF Oversize, TooLong, Size, Up
<1>4. \A m : FalseStart(m) <=> Misleads(scenario.side, m)
  BY <1>2, <1>3 DEF FalseStart, Misleads, Size
<1> QED
  BY <1>1, <1>2, <1>3, <1>4 DEF Up

LEMMA LinkStarts ==
  ASSUME LinkInit
  PROVE  LinkInv
<1>1. scenario \in Scenarios /\ line = << >> /\ buffer = << >> /\ sent = << >> /\ got = << >>
      /\ hit = {} /\ flips = 0 /\ rx_sync = 0 /\ pc = "read"
  BY DEF LinkInit
<1>2. LinkTypes
  BY <1>1 DEF LinkTypes
<1> DEFINE side == scenario.side
           M == scenario.messages
           R == buffer \o line
<1>3. R = << >> /\ line \in Seq(Tagged(sent)) /\ buffer \in Seq(Tagged(sent))
  BY <1>1
<1> HIDE DEF R, side, M
<1>4. Stream(R, side, sent)
  BY <1>3 DEF Stream
<1>5. Changes(R, side, sent, hit, flips)
  BY <1>1, <1>3 DEF Changes
<1>6. Heeded(got, M, side, sent, hit, Over(R, sent))
  <2>1. Sound(side, sent, hit) = {}
    BY <1>1 DEF Sound
  <2> DEFINE T == [m : {Heard(x) : x \in M}, f : Nat]
  <2> HIDE DEF T
  <2>2. got \in Seq(T) /\ Len(got) = 0
    BY <1>1
  <2> QED
    BY <2>1, <2>2 DEF Heeded, T
<1>7. ParserState(buffer, line, rx_sync, pc, side, sent)
  <2>1. UpState(buffer, line, rx_sync, side, sent)
    BY <1>1 DEF UpState
  <2>2. DownState(buffer, line, pc, side, sent)
    BY <1>1, <1>3 DEF DownState, R
  <2> QED
    BY <2>1, <2>2, <1>1 DEF ParserState
<1>8. LinkBody
  BY <1>3, <1>4, <1>5, <1>6, <1>7 DEF LinkBody, Received, R, side, M
<1> QED
  BY <1>2, <1>8 DEF LinkInv

LEMMA FirstBytes ==
  ASSUME NEW side, NEW M, NEW s \in Seq(M), \A x \in M : Message(side, x),
         NEW h, NEW c, NEW g, NEW R, Received(R, side, M, s, h, c, g), R # << >>, R[1].p = 1
  PROVE  R[1].b = SYNC1 /\ R[2].b = SYNC2
<1>1. Stream(R, side, s) /\ Changes(R, side, s, h, c)
  BY DEF Received
<1> QED
  BY <1>1, FrameVerdict

\* The first byte of a queue, and the others
LEMMA FirstAndRest ==
  ASSUME NEW T, NEW L \in Seq(T), L # << >>
  PROVE  L[1] \in T /\ Tail(L) \in Seq(T) /\ L = <<L[1]>> \o Tail(L) /\ <<L[1]>> \in Seq(T)
         /\ Len(Tail(L)) = Len(L) - 1 /\ Tail(L) = SubSeq(L, 2, Len(L))
<1>1. L[1] \in T /\ Tail(L) \in Seq(T) /\ <<L[1]>> \in Seq(T) /\ Len(Tail(L)) = Len(L) - 1
  OBVIOUS
<1>2. L = <<L[1]>> \o Tail(L)
  OBVIOUS
<1>3. Tail(L) = SubSeq(L, 2, Len(L))
  OBVIOUS
<1> QED
  BY <1>1, <1>2, <1>3

LEMMA Empty ==
  ASSUME NEW T, NEW L \in Seq(T)
  PROVE  << >> \o L = L /\ L \o << >> = L /\ << >> \in Seq(T)
  OBVIOUS

LEMMA Pair ==
  ASSUME NEW T, NEW x \in T, NEW b \in T
  PROVE  Append(<<x>>, b) = <<x, b>>
<1> DEFINE q == <<x>>
           A == Append(q, b)
           B == <<x, b>>
<1>1. q \in Seq(T) /\ Len(q) = 1 /\ q[1] = x
  OBVIOUS
<1>2. B \in Seq(T) /\ Len(B) = 2 /\ B[1] = x /\ B[2] = b
  OBVIOUS
<1> HIDE DEF q
<1>3. A \in Seq(T) /\ Len(A) = 2 /\ A[1] = x /\ A[2] = b
  <2>1. A \in Seq(T) /\ Len(A) = Len(q) + 1
    BY <1>1, AppendProperties
  <2>2. A[Len(q) + 1] = b
    BY <1>1, AppendProperties
  <2>3. \A k \in 1 .. Len(q) : A[k] = q[k]
    BY <1>1
  <2> HIDE DEF A
  <2> QED
    BY <2>1, <2>2, <2>3, <1>1
<1> HIDE DEF A, B
<1>4. A = B
  <2>1. \A k \in 1 .. Len(A) : A[k] = B[k]
    BY <1>2, <1>3
  <2> QED
    BY <2>1, <1>2, <1>3
<1> QED
  BY <1>4 DEF A, B, q

LEMMA Single ==
  ASSUME NEW T, NEW q \in Seq(T), Len(q) = 1, NEW b \in T
  PROVE  q = <<q[1]>> /\ q[1] \in T /\ Append(q, b) = <<q[1], b>>
<1>1. q = <<q[1]>> /\ q[1] \in T
  OBVIOUS
<1>2. Append(q, b) = <<q[1], b>>
  <2> DEFINE x == q[1]
  <2> HIDE DEF x
  <2>1. q = <<x>> /\ x \in T
    BY <1>1 DEF x
  <2>2. Append(<<x>>, b) = <<x, b>>
    BY <2>1, Pair
  <2>3. Append(q, b) = <<x, b>>
    BY <2>1, <2>2, Zenon
  <2> QED
    BY <2>3, Zenon DEF x
<1> QED
  BY <1>1, <1>2

\* The steps that neither send nor disturb anything
LEMMA Kept ==
  ASSUME LinkInv, UNCHANGED <<scenario, sent, broken, flips>>, Clean => LinkBody'
  PROVE  LinkInv'
<1>1. LinkTypes'
  BY DEF LinkInv, LinkTypes
<1>2. Clean' <=> Clean
  BY DEF Clean
<1> QED
  BY <1>1, <1>2 DEF LinkInv

LEMMA FeedSyncRight ==
  ASSUME LinkInv, Clean, FeedSync
  PROVE  LinkBody'
<1> DEFINE side == scenario.side
           M == scenario.messages
           T == Tagged(sent)
           R == buffer \o line
           b == line[1]
           rest == Tail(line)
           Ok(Q) == Received(Q, side, M, sent, hit, flips, got)
<1>1. scenario \in Scenarios /\ sent \in Seq(M)
  BY DEF LinkInv, LinkTypes
<1>2. (\A x \in M : Message(side, x)) /\ side = "up"
  BY <1>1, ScenarioRight DEF FeedSync
<1>3. line \in Seq(T) /\ buffer \in Seq(T) /\ Ok(R)
  BY DEF LinkInv, LinkBody
<1>4. pc = "read" /\ UpState(buffer, line, rx_sync, side, sent)
  BY <1>2 DEF LinkInv, LinkBody, ParserState
<1>5. line # << >> /\ rx_sync \in {0, 1} /\ line' = rest
  BY <1>4 DEF FeedSync, UpState
<1>6. /\ b.b = SYNC1 => rx_sync' = 1 /\ buffer' = <<b>>
      /\ b.b = SYNC2 /\ rx_sync = 1 => rx_sync' = 2 /\ buffer' = Append(buffer, b)
      /\ b.b # SYNC1 /\ ~(b.b = SYNC2 /\ rx_sync = 1) => rx_sync' = 0 /\ buffer' = << >>
  BY SyncAssumption DEF FeedSync
<1>7. b \in T /\ rest \in Seq(T) /\ line = <<b>> \o rest /\ <<b>> \in Seq(T)
  BY <1>3, <1>5, FirstAndRest
<1>8. ASSUME Ok(buffer' \o line'), buffer' \in Seq(T), UpState(buffer', line', rx_sync', side, sent)
      PROVE  LinkBody'
  <2>1. UNCHANGED <<scenario, pc, sent, got, hit, flips>>
    BY DEF FeedSync
  <2>2. ParserState(buffer', line', rx_sync', pc', scenario'.side, sent')
    BY <2>1, <1>2, <1>4, <1>8 DEF ParserState
  <2> QED
    BY <2>1, <2>2, <1>5, <1>7, <1>8 DEF LinkBody
<1>9. <<b>> \o line' = line /\ << >> \o line' = rest /\ << >> \in Seq(T) /\ << >> \o line = line
  BY <1>3, <1>5, <1>7, Empty
<1>10. Len(<<b>>) = 1 /\ <<b>>[1] = b
  OBVIOUS
<1> HIDE DEF R, T, rest, b, side, M
\* A byte that begins a frame or is in the rest of one, and is the first
<1>11. ASSUME Ok(line), b.p = 1 \/ Skipped(b, side, sent), b.b = SYNC1
       PROVE  LinkBody'
  <2>1. rx_sync' = 1 /\ buffer' = <<b>>
    BY <1>6, <1>11
  <2>2. Ok(buffer' \o line')
    BY <2>1, <1>9, <1>11
  <2>3. UpState(buffer', line', rx_sync', side, sent)
    BY <2>1, <1>10, <1>11 DEF UpState
  <2> QED
    BY <2>1, <2>2, <2>3, <1>7, <1>8
<1>12. ASSUME Ok(line), b.p = 1 \/ Skipped(b, side, sent), b.b # SYNC1, ~(b.b = SYNC2 /\ rx_sync = 1)
       PROVE  LinkBody'
  <2>1. rx_sync' = 0 /\ buffer' = << >>
    BY <1>6, <1>12
  <2>2. Skipped(b, side, sent)
    BY <1>1, <1>2, <1>5, <1>12, FirstBytes DEF b
  <2>3. Ok(rest) /\ (rest # << >> => rest[1].p = 1 \/ Skipped(rest[1], side, sent))
    BY <2>2, <1>1, <1>2, <1>7, <1>12, Passed
  <2>4. Ok(buffer' \o line')
    BY <2>1, <2>3, <1>9
  <2>5. UpState(buffer', line', rx_sync', side, sent)
    BY <2>1, <2>3, <1>5 DEF UpState
  <2> QED
    BY <2>1, <2>4, <2>5, <1>8, <1>9
<1>13. CASE rx_sync = 0
  <2>1. buffer = << >> /\ (b.p = 1 \/ Skipped(b, side, sent))
    BY <1>4, <1>5, <1>13 DEF UpState, b
  <2>2. Ok(line)
    BY <2>1, <1>3, <1>9 DEF R
  <2> QED
    BY <2>1, <2>2, <1>11, <1>12, <1>13
<1>14. CASE rx_sync = 1
  <2> DEFINE x == buffer[1]
  <2>1. Len(buffer) = 1 /\ (x.p = 1 \/ (Skipped(x, side, sent) /\ x.b = SYNC1))
    BY <1>4, <1>14 DEF UpState
  <2>2. buffer = <<x>> /\ x \in T /\ Append(buffer, b) = <<x, b>>
    BY <2>1, <1>3, <1>7, Single
  <2> HIDE DEF x
  <2>3. R = <<x>> \o line /\ R # << >> /\ R[1] = x /\ R[2] = b /\ R \in Seq(T) /\ 1 \in 1 .. Len(R)
    BY <2>2, <1>3, <1>5 DEF R, b
  <2>4. CASE x.p = 1
    <3>1. b.b = SYNC2
      BY <2>3, <2>4, <1>1, <1>2, <1>3, FirstBytes
    <3>2. rx_sync' = 2 /\ buffer' = Append(buffer, b)
      BY <3>1, <1>6, <1>14
    <3>3. buffer' \in Seq(T) /\ Len(buffer') = 2 /\ buffer'[1] = x /\ buffer' \o line' = R
      <4>1. buffer' = <<x, b>>
        BY <3>2, <2>2
      <4>2. <<x, b>> \in Seq(T) /\ <<x, b>> \o rest = <<x>> \o (<<b>> \o rest)
        BY <2>2, <1>7
      <4> QED
        BY <4>1, <4>2, <2>3, <1>5, <1>7
    <3>4. Size(side, sent[x.f]) >= 6 /\ Size(side, sent[x.f]) \in Nat
      <4>1. x.f \in 1 .. Len(sent)
        BY <2>2 DEF T, Tagged
      <4>2. sent[x.f] \in M
        BY <4>1, <1>1
      <4> QED
        BY <4>2, <1>2, SizeRight
    <3>5. UpState(buffer', line', rx_sync', side, sent)
      BY <3>2, <3>3, <3>4, <2>4 DEF UpState
    <3> QED
      BY <3>3, <3>5, <1>3, <1>8
  <2>5. CASE Skipped(x, side, sent) /\ x.b = SYNC1
    <3>1. Ok(line) /\ \/ b.p = 1
                      \/ Skipped(b, side, sent) /\ b.f = x.f /\ b.p = x.p + 1
      BY <2>2, <2>3, <2>5, <1>1, <1>2, <1>3, <1>5, Passed DEF b
    <3>2. b.b # SYNC2
      <4> SUFFICES ASSUME b.b = SYNC2 PROVE FALSE
        OBVIOUS
      <4>1. b.p # 1
        BY <3>1, <1>1, <1>2, <1>5, SyncAssumption, FirstBytes DEF b
      <4>2. b.f = x.f /\ b.p = x.p + 1 /\ TooLong(side, sent[x.f]) /\ x.p >= 6
        BY <4>1, <3>1, <2>5 DEF Skipped
      <4>3. x.f \notin hit
        BY <4>2, <1>3 DEF Received, Changes
      <4>4. ~Wrong(x, side, sent) /\ ~Wrong(b, side, sent)
        <5>1. 1 \in 1 .. Len(R) /\ 2 \in 1 .. Len(R)
          BY <2>2, <2>3, <1>3, <1>5
        <5> QED
          BY <5>1, <4>2, <4>3, <2>3, <1>3 DEF Received, Changes
      <4> DEFINE F == Packed(side, sent[x.f])
                 z == Size(side, sent[x.f])
      <4>5. F[x.p] = SYNC1 /\ F[x.p + 1] = SYNC2
        BY <4>2, <4>4, <2>5 DEF Wrong
      <4>6. x.f \in 1 .. Len(sent) /\ x.p \in Nat /\ b.p <= z
        <5>1. b.p <= Size(side, sent[b.f])
          <6>1. 2 \in 1 .. Len(R)
            BY <2>2, <2>3, <1>3, <1>5
          <6> QED
            BY <6>1, <2>3, <1>3 DEF Received, Stream
        <5> QED
          BY <5>1, <4>2, <2>2 DEF T, Tagged
      <4>7. z \in Nat
        BY <4>6, <1>1, <1>2, SizeRight
      <4>8. x.p \in 6 .. z - 1
        BY <4>2, <4>6, <4>7
      <4>9. Misleads(side, sent[x.f])
        BY <4>2, <4>5, <4>8 DEF Misleads
      <4> QED
        BY <4>6, <4>9 DEF Clean, side
    <3> QED
      BY <3>1, <3>2, <1>11, <1>12
  <2> QED
    BY <2>1, <2>4, <2>5
<1> QED
  BY <1>5, <1>13, <1>14

\* A frame that is whole has been understood as it was sent, or its checksum is
\* wrong; the place of the parser is the beginning of the next one.
LEMMA FrameOver ==
  ASSUME NEW side, NEW M, NEW s \in Seq(M), \A x \in M : Message(side, x),
         NEW h, NEW c, NEW g, NEW R, Received(R, side, M, s, h, c, g), R # << >>, R[1].p = 1
  PROVE  LET f == R[1].f
             m == s[f]
             z == Size(side, m)
             D == SubSeq(R, z + 1, Len(R))
         IN  /\ D # << >> => D[1].p = 1
             /\ f \notin h /\ ~TooLong(side, m) /\ m.cmd # "CMD_RSP"
                  => Received(D, side, M, s, h, c, Append(g, [m |-> Heard(m), f |-> f]))
             /\ f \in h \/ TooLong(side, m) \/ m.cmd = "CMD_RSP"
                  => Received(D, side, M, s, h, c, g)
<1> DEFINE f == R[1].f
           m == s[f]
           z == Size(side, m)
           D == SubSeq(R, z + 1, Len(R))
<1>1. Stream(R, side, s) /\ Changes(R, side, s, h, c) /\ Heeded(g, M, side, s, h, Over(R, s))
  BY DEF Received
<1>2. /\ Stream(D, side, s) /\ Changes(D, side, s, h, c)
      /\ D # << >> => D[1].p = 1
      /\ Over(R, s) = f - 1 /\ Over(D, s) = f
  <2>1. Stream(D, side, s) /\ Changes(D, side, s, h, c)
    BY <1>1, FrameRest, Zenon
  <2>2. D # << >> => D[1].p = 1
    BY <1>1, FrameRest, Zenon
  <2>3. Over(R, s) = R[1].f - 1
    BY <1>1, FrameRest, Zenon
  <2>4. Over(D, s) = R[1].f
    BY <1>1, FrameRest
  <2> QED
    BY <2>1, <2>2, <2>3, <2>4
<1>3. f \in 1 .. Len(s)
  BY <1>1, WholeFrame
<1> HIDE DEF D, z
<1>4. CASE f \notin h /\ ~TooLong(side, m) /\ m.cmd # "CMD_RSP"
  <2>1. f - 1 \in Int /\ (f - 1) + 1 = f
    BY <1>3
  <2>2. f \in Sound(side, s, h)
    BY <1>3, <1>4 DEF Sound
  <2> HIDE DEF f, m
  <2> DEFINE d == f - 1
  <2>3. d \in Int /\ d + 1 = f /\ Heeded(g, M, side, s, h, d)
    BY <2>1, <1>1, <1>2
  <2> HIDE DEF d
  <2>4. d + 1 \in Sound(side, s, h)
    BY <2>2, <2>3
  <2>5. Heeded(Append(g, [m |-> Heard(s[d + 1]), f |-> d + 1]), M, side, s, h, d + 1)
    BY <2>3, <2>4, HeededNext
  <2>6. Heeded(Append(g, [m |-> Heard(m), f |-> f]), M, side, s, h, f)
    BY <2>3, <2>5 DEF m
  <2>7. Received(D, side, M, s, h, c, Append(g, [m |-> Heard(m), f |-> f]))
    BY <2>6, <1>2 DEF Received
  <2> QED
    BY <2>7, <1>2, <1>4 DEF D, z, f, m
<1>5. CASE f \in h \/ TooLong(side, m) \/ m.cmd = "CMD_RSP"
  <2>1. f \notin Sound(side, s, h)
    BY <1>5 DEF Sound
  <2>2. f - 1 \in Int /\ f \in Int /\ f - 1 <= f
    BY <1>3
  <2>3. \A i \in Sound(side, s, h) : i <= f => i <= f - 1
    <3> TAKE i \in Sound(side, s, h)
    <3>1. i \in Int /\ i # f
      BY <2>1 DEF Sound
    <3> HIDE DEF f
    <3> QED
      BY <3>1, <2>2
  <2> HIDE DEF f, m
  <2>4. Heeded(g, M, side, s, h, f)
    BY <2>2, <2>3, <1>1, <1>2, HeededMore
  <2>5. Received(D, side, M, s, h, c, g)
    BY <2>4, <1>2 DEF Received
  <2> QED
    BY <2>5, <1>2, <1>5 DEF D, z, f, m
<1> QED
  BY <1>4, <1>5

\* What is known of the first frame under way
FrameAt(side, s, R, f, m, l, data, D) ==
  /\ f = R[1].f /\ m = s[f] /\ l = Len(Data(side, m))
  /\ data = [k \in 1 .. l |-> R[5 + k].b]
  /\ D = SubSeq(R, Size(side, m) + 1, Len(R))

Known(side, M, s, h, c, g, R, f, m, l, data, D) ==
  /\ f \in 1 .. Len(s) /\ m = s[f] /\ m \in M /\ f = R[1].f
  /\ l \in Nat /\ Size(side, m) = 6 + l /\ 6 + l \in 6 .. Len(R)
  /\ \A k \in 1 .. 6 + l : k \in 1 .. Len(R) /\ R[k].f = f /\ R[k].p = k
  /\ R[1].b = SYNC1 /\ R[2].b = SYNC2 /\ R[4].b + W * R[5].b = l
  /\ f \notin h => /\ R[3].b = Command(side, m) /\ data = Data(side, m)
                   /\ calc_chk(R[3].b, data) = R[6 + l].b
  /\ f \in h => calc_chk(R[3].b, data) # R[6 + l].b
  /\ D = SubSeq(R, 6 + l + 1, Len(R)) /\ (D # << >> => D[1].p = 1)
  /\ f \notin h /\ ~TooLong(side, m) /\ m.cmd # "CMD_RSP"
       => Received(D, side, M, s, h, c, Append(g, [m |-> Heard(m), f |-> f]))
  /\ f \in h \/ TooLong(side, m) \/ m.cmd = "CMD_RSP"
       => Received(D, side, M, s, h, c, g)

LEMMA FirstFrame ==
  ASSUME NEW side, NEW M, NEW s \in Seq(M), \A x \in M : Message(side, x),
         NEW h, NEW c, NEW g, NEW R, Received(R, side, M, s, h, c, g), R # << >>, R[1].p = 1,
         NEW f, NEW m, NEW l, NEW data, NEW D, FrameAt(side, s, R, f, m, l, data, D)
  PROVE  Known(side, M, s, h, c, g, R, f, m, l, data, D)
<1> DEFINE F == R[1].f
           X == s[F]
           K == Len(Data(side, X))
           Y == [k \in 1 .. K |-> R[5 + k].b]
           E == SubSeq(R, Size(side, X) + 1, Len(R))
<1>1. Stream(R, side, s) /\ Changes(R, side, s, h, c)
  BY DEF Received
<1>2. F \in 1 .. Len(s) /\ X \in M /\ Size(side, X) \in 6 .. Len(R)
  BY <1>1, WholeFrame
<1>3. \A k \in 1 .. Size(side, X) : k \in 1 .. Len(R) /\ R[k].f = F /\ R[k].p = k
  BY <1>1, WholeFrame
<1>4. K \in Nat /\ Size(side, X) = 6 + K
  BY <1>2, SizeRight
<1>5. R[1].b = SYNC1 /\ R[2].b = SYNC2 /\ R[4].b + W * R[5].b = K
  <2>1. R[1].b = SYNC1 /\ R[2].b = SYNC2
    BY FirstBytes
  <2>2. R[4].b + W * R[5].b = K
    <3> DEFINE G == Packed(side, X)
    <3>1. 4 \in 1 .. Size(side, X) /\ 5 \in 1 .. Size(side, X)
      BY <1>2
    <3>2. /\ 4 \in 1 .. Len(R) /\ R[4].f = F /\ R[4].p = 4
          /\ 5 \in 1 .. Len(R) /\ R[5].f = F /\ R[5].p = 5
      BY <3>1, <1>3
    <3>3. ~Wrong(R[4], side, s) /\ ~Wrong(R[5], side, s)
      BY <3>2, <1>1 DEF Changes
    <3>4. R[4].b = G[4] /\ R[5].b = G[5]
      BY <3>2, <3>3 DEF Wrong
    <3>5. G[4] + W * G[5] = K
      <4>1. Message(side, X)
        BY <1>2
      <4>2. Framed(G, Command(side, X), Data(side, X))
        BY <4>1, MessageRight
      <4> HIDE DEF G, X
      <4> QED
        BY <4>2 DEF Framed
    <3> HIDE DEF G, K
    <3> QED
      BY <3>4, <3>5
  <2> QED
    BY <2>1, <2>2
<1>6. F \notin h => /\ R[3].b = Command(side, X) /\ Y = Data(side, X)
                   /\ calc_chk(R[3].b, Y) = R[6 + K].b
  BY <1>1, FrameVerdict
<1>7. F \in h => calc_chk(R[3].b, Y) # R[6 + K].b
  BY <1>1, FrameVerdict
<1>8. E # << >> => E[1].p = 1
  BY <1>1, FrameRest, Zenon
<1>9. F \notin h /\ ~TooLong(side, X) /\ X.cmd # "CMD_RSP"
        => Received(E, side, M, s, h, c, Append(g, [m |-> Heard(X), f |-> F]))
  BY FrameOver
<1>10. F \in h \/ TooLong(side, X) \/ X.cmd = "CMD_RSP"
         => Received(E, side, M, s, h, c, g)
  BY FrameOver
<1>11. f = F /\ m = X /\ l = K /\ data = Y /\ D = E
  BY DEF FrameAt
<1>12. m = s[f] /\ f = R[1].f
  BY DEF FrameAt
<1>13. E = SubSeq(R, Size(side, X) + 1, Len(R))
  OBVIOUS
<1> HIDE DEF F, X, K, Y, E
<1>14. D = SubSeq(R, 6 + l + 1, Len(R))
  BY <1>4, <1>11, <1>13
<1> QED
  BY <1>2, <1>3, <1>4, <1>5, <1>6, <1>7, <1>8, <1>9, <1>10, <1>11, <1>12, <1>14 DEF Known

\* A byte moves from the line to the parser.
Moved(B, L, n, R, C, D) ==
  n = Len(B) /\ R = B \o L /\ C = Append(B, L[1]) /\ D = Tail(L)

LEMMA Taken ==
  ASSUME NEW T, NEW B \in Seq(T), NEW L \in Seq(T), L # << >>,
         NEW n, NEW R, NEW C, NEW D, Moved(B, L, n, R, C, D)
  PROVE  /\ C \in Seq(T) /\ Len(C) = n + 1 /\ C \o D = R /\ R \in Seq(T) /\ R # << >>
         /\ \A k \in 1 .. n + 1 : C[k] = R[k]
         /\ D = SubSeq(R, n + 2, Len(R)) /\ Len(R) >= n + 1 /\ Len(R) \in Nat
         /\ n > 0 => R[1] = B[1]
         /\ R[n + 1] = L[1]
<1> DEFINE x == L[1]
<1>0. n = Len(B) /\ R = B \o L /\ C = Append(B, x) /\ D = Tail(L)
  BY DEF Moved
<1>1. n \in Nat /\ Len(L) \in Nat \ {0} /\ x \in T
  BY <1>0
<1>2. D \in Seq(T) /\ Len(D) = Len(L) - 1 /\ \A k \in 1 .. Len(L) - 1 : D[k] = L[k + 1]
  <2> DEFINE V == Tail(L)
  <2>1. V \in Seq(T) /\ Len(V) = Len(L) - 1 /\ \A k \in 1 .. Len(L) - 1 : V[k] = L[k + 1]
    OBVIOUS
  <2> HIDE DEF V
  <2> QED
    BY <2>1, <1>0 DEF V
<1> HIDE DEF x
<1>3. C \in Seq(T) /\ Len(C) = n + 1 /\ C[n + 1] = x /\ \A k \in 1 .. n : C[k] = B[k]
  <2> DEFINE V == Append(B, x)
  <2>1. V \in Seq(T) /\ Len(V) = Len(B) + 1 /\ V[Len(B) + 1] = x
        /\ \A k \in 1 .. Len(B) : V[k] = B[k]
    BY <1>1, AppendProperties
  <2>2. V = C
    BY <1>0
  <2> HIDE DEF V
  <2> QED
    BY <2>1, <2>2, <1>0
<1>4. R \in Seq(T) /\ Len(R) = n + Len(L)
      /\ (\A k \in 1 .. n : R[k] = B[k]) /\ (\A k \in 1 .. Len(L) : R[n + k] = L[k])
  <2> DEFINE V == B \o L
  <2>1. V \in Seq(T) /\ Len(V) = Len(B) + Len(L)
        /\ (\A k \in 1 .. Len(B) : V[k] = B[k]) /\ (\A k \in 1 .. Len(L) : V[Len(B) + k] = L[k])
    BY JoinedRight
  <2>2. V = R
    BY <1>0
  <2> HIDE DEF V
  <2> QED
    BY <2>1, <2>2, <1>0
<1>5. C \o D \in Seq(T) /\ Len(C \o D) = (n + 1) + Len(D)
      /\ (\A k \in 1 .. n + 1 : (C \o D)[k] = C[k])
      /\ (\A k \in 1 .. Len(D) : (C \o D)[(n + 1) + k] = D[k])
  <2>1. C \o D \in Seq(T) /\ Len(C \o D) = Len(C) + Len(D)
        /\ (\A k \in 1 .. Len(C) : (C \o D)[k] = C[k])
        /\ (\A k \in 1 .. Len(D) : (C \o D)[Len(C) + k] = D[k])
    <3>1. C \in Seq(T) /\ D \in Seq(T)
      BY <1>2, <1>3
    <3> QED
      BY <3>1, JoinedRight
  <2> QED
    BY <2>1, <1>3
<1> DEFINE E == C \o D
           S == SubSeq(R, n + 2, Len(R))
<1>6. S \in Seq(T) /\ Len(S) = Len(L) - 1 /\ \A k \in 1 .. Len(L) - 1 : S[k] = R[(n + 1) + k]
  <2> DEFINE d == n + 1
             V == SubSeq(R, d + 1, Len(R))
  <2>1. d \in 0 .. Len(R) /\ d + 1 = n + 2
    BY <1>1, <1>4
  <2> HIDE DEF d
  <2>2. V \in Seq(T) /\ Len(V) = Len(R) - d /\ \A k \in 1 .. Len(V) : V[k] = R[d + k]
    BY <2>1, <1>4, Dropped
  <2>3. S = V
    BY <2>1
  <2>4. Len(R) - d = Len(L) - 1
    BY <1>1, <1>4 DEF d
  <2> HIDE DEF S, V
  <2> QED
    BY <2>2, <2>3, <2>4 DEF d
<1> HIDE DEF E, S
<1>7. \A k \in 1 .. n + 1 : C[k] = R[k]
  <2> TAKE k \in 1 .. n + 1
  <2>1. CASE k = n + 1
    <3>1. R[n + 1] = L[1]
      BY <1>1, <1>4
    <3> QED
      BY <2>1, <3>1, <1>3 DEF x
  <2>2. CASE k # n + 1
    <3>1. k \in 1 .. n
      BY <2>2, <1>1
    <3> QED
      BY <3>1, <1>3, <1>4
  <2> QED
    BY <2>1, <2>2
<1>8. \A k \in 1 .. Len(L) - 1 : D[k] = R[(n + 1) + k]
  <2> TAKE k \in 1 .. Len(L) - 1
  <2>1. k + 1 \in 1 .. Len(L) /\ n + (k + 1) = (n + 1) + k
    BY <1>1
  <2>2. R[n + (k + 1)] = L[k + 1]
    BY <2>1, <1>4
  <2> QED
    BY <2>1, <2>2, <1>2
<1>9. D = S
  BY <1>2, <1>6, <1>8
<1>10. E \in Seq(T) /\ Len(E) = Len(R) /\ (\A k \in 1 .. n + 1 : E[k] = C[k])
       /\ \A k \in 1 .. Len(D) : E[(n + 1) + k] = D[k]
  BY <1>1, <1>2, <1>4, <1>5 DEF E
<1>11. \A k \in 1 .. Len(R) : E[k] = R[k]
  <2> TAKE k \in 1 .. Len(R)
  <2>1. CASE k \in 1 .. n + 1
    BY <2>1, <1>7, <1>10
  <2>2. CASE k \notin 1 .. n + 1
    <3>1. k - (n + 1) \in 1 .. Len(L) - 1 /\ (n + 1) + (k - (n + 1)) = k
      BY <2>2, <1>1, <1>4
    <3>2. E[(n + 1) + (k - (n + 1))] = D[k - (n + 1)]
      BY <3>1, <1>2, <1>10
    <3>3. D[k - (n + 1)] = R[(n + 1) + (k - (n + 1))]
      BY <3>1, <1>8
    <3> QED
      BY <3>1, <3>2, <3>3
  <2> QED
    BY <2>1, <2>2
<1>12. E = R
  BY <1>4, <1>10, <1>11
<1>13. n > 0 => R[1] = B[1]
  BY <1>1, <1>4
<1>14. R[n + 1] = x
  <2>1. n + 1 \in 1 .. n + 1
    BY <1>1
  <2> QED
    BY <2>1, <1>3, <1>7
<1>15. R # << >> /\ Len(R) >= n + 1 /\ Len(R) \in Nat
  BY <1>1, <1>4
<1> QED
  BY <1>3, <1>4, <1>7, <1>9, <1>12, <1>13, <1>14, <1>15 DEF E, S, x

LEMMA NothingUnderstood ==
  ASSUME NEW T, NEW g \in Seq(T), NEW f
  PROVE  g \o Understood(<< >>, f) = g
<1>1. Understood(<< >>, f) = << >>
  BY DEF Understood
<1> QED
  BY <1>1, Empty

LEMMA OneUnderstood ==
  ASSUME NEW T, NEW g \in Seq(T), NEW m, NEW f, [m |-> m, f |-> f] \in T
  PROVE  g \o Understood(<<m>>, f) = Append(g, [m |-> m, f |-> f])
<1> DEFINE y == [m |-> m, f |-> f]
           U == Understood(<<m>>, f)
<1>1. U = <<y>>
  BY DEF Understood
<1> HIDE DEF U, y
<1>2. g \o <<y>> = Append(g, y)
  BY DEF y
<1> QED
  BY <1>1, <1>2 DEF U, y

LEMMA FeedFrameRight ==
  ASSUME LinkInv, Clean, FeedFrame
  PROVE  LinkBody'
<1> DEFINE side == scenario.side
           M == scenario.messages
           T == Tagged(sent)
           R == buffer \o line
           b == line[1]
           rest == Tail(line)
           B == Append(buffer, b)
           n == Len(buffer)
           f == R[1].f
           m == sent[f]
           z == Size(side, m)
           l == Len(Data(side, m))
           Ok(Q) == Received(Q, side, M, sent, hit, flips, got')
           D == SubSeq(R, z + 1, Len(R))
           data == [k \in 1 .. l |-> R[5 + k].b]
           read(k) == [j \in 1 .. k |-> B[5 + j].b]
           len == B[4].b + W * B[5].b
<1>1. scenario \in Scenarios /\ sent \in Seq(M)
  BY DEF LinkInv, LinkTypes
<1>2. (\A x \in M : Message(side, x)) /\ side = "up"
  BY <1>1, ScenarioRight DEF FeedFrame
<1>3. line \in Seq(T) /\ buffer \in Seq(T) /\ Received(R, side, M, sent, hit, flips, got)
  BY DEF LinkInv, LinkBody
<1>4. pc = "read" /\ UpState(buffer, line, rx_sync, side, sent)
  BY <1>2 DEF LinkInv, LinkBody, ParserState
<1>5. /\ line # << >> /\ rx_sync = 2 /\ line' = rest
      /\ rx_sync' = IF FrameState(B) = "more" THEN 2 ELSE 0
      /\ buffer' = IF FrameState(B) = "more" THEN B ELSE << >>
      /\ got' = IF FrameState(B) = "whole" /\ calc_chk(B[3].b, read(len)) = b.b
                  THEN got \o Understood(dispatch_frame(B[3].b, read(len)), b.f)
                  ELSE got
  BY DEF FeedFrame
<1>6. b \in T /\ rest \in Seq(T)
  BY <1>3, <1>5, FirstAndRest
<1>7. n >= 2 /\ buffer[1].p = 1 /\ n < Size(side, sent[buffer[1].f]) /\ n \in Nat
      /\ (TooLong(side, sent[buffer[1].f]) => n < 5)
  BY <1>3, <1>4, <1>5 DEF UpState
<1>8. ASSUME Ok(buffer' \o line'), buffer' \in Seq(T), UpState(buffer', line', rx_sync', side, sent)
      PROVE  LinkBody'
  <2>1. UNCHANGED <<scenario, pc, sent, hit, flips>>
    BY DEF FeedFrame
  <2>2. ParserState(buffer', line', rx_sync', pc', scenario'.side, sent')
    BY <2>1, <1>2, <1>4, <1>8 DEF ParserState
  <2> QED
    BY <2>1, <2>2, <1>5, <1>6, <1>8 DEF LinkBody
<1>9. /\ B \in Seq(T) /\ Len(B) = n + 1 /\ B \o rest = R /\ R \in Seq(T) /\ R # << >>
      /\ \A k \in 1 .. n + 1 : B[k] = R[k]
      /\ rest = SubSeq(R, n + 2, Len(R)) /\ Len(R) >= n + 1 /\ Len(R) \in Nat
      /\ R[1] = buffer[1] /\ R[n + 1] = b
  <2>1. Moved(buffer, line, n, R, B, rest)
    BY DEF Moved
  <2>2. n > 0
    BY <1>7
  <2>3. line \in Seq(T) /\ buffer \in Seq(T) /\ line # << >>
    BY <1>3, <1>5
  <2> HIDE DEF T, R, B, n, rest
  <2>4. B \in Seq(T) /\ Len(B) = n + 1 /\ R \in Seq(T) /\ R # << >>
    BY <2>1, <2>3, Taken
  <2>5. B \o rest = R
    BY <2>1, <2>3, Taken
  <2>6. \A k \in 1 .. n + 1 : B[k] = R[k]
    BY <2>1, <2>3, Taken
  <2>7. rest = SubSeq(R, n + 2, Len(R)) /\ Len(R) >= n + 1 /\ Len(R) \in Nat
    BY <2>1, <2>3, Taken
  <2>8. R[1] = buffer[1] /\ R[n + 1] = b
    BY <2>1, <2>2, <2>3, Taken
  <2> QED
    BY <2>4, <2>5, <2>6, <2>7, <2>8
<1> HIDE DEF R, T, rest, b, side, M, B, n
<1>10. /\ Stream(R, side, sent) /\ Changes(R, side, sent, hit, flips)
       /\ R[1].p = 1
  BY <1>3, <1>7, <1>9 DEF Received
<1>11. /\ f \in 1 .. Len(sent) /\ m = sent[f] /\ m \in M /\ f = R[1].f
       /\ l \in Nat /\ Size(side, m) = 6 + l /\ 6 + l \in 6 .. Len(R)
       /\ \A k \in 1 .. 6 + l : k \in 1 .. Len(R) /\ R[k].f = f /\ R[k].p = k
       /\ R[1].b = SYNC1 /\ R[2].b = SYNC2 /\ R[4].b + W * R[5].b = l
       /\ f \notin hit => /\ R[3].b = Command(side, m) /\ data = Data(side, m)
                          /\ calc_chk(R[3].b, data) = R[6 + l].b
       /\ f \in hit => calc_chk(R[3].b, data) # R[6 + l].b
       /\ D = SubSeq(R, 6 + l + 1, Len(R)) /\ (D # << >> => D[1].p = 1)
       /\ f \notin hit /\ ~TooLong(side, m) /\ m.cmd # "CMD_RSP"
            => Received(D, side, M, sent, hit, flips, Append(got, [m |-> Heard(m), f |-> f]))
       /\ f \in hit \/ TooLong(side, m) \/ m.cmd = "CMD_RSP"
            => Received(D, side, M, sent, hit, flips, got)
  <2>1. FrameAt(side, sent, R, f, m, l, data, D)
    BY DEF FrameAt
  <2> HIDE DEF f, m, l, data, D
  <2>2. /\ sent \in Seq(M) /\ (\A x \in M : Message(side, x))
        /\ Received(R, side, M, sent, hit, flips, got) /\ R # << >> /\ R[1].p = 1
    BY <1>1, <1>2, <1>3, <1>9, <1>10
  <2>3. Known(side, M, sent, hit, flips, got, R, f, m, l, data, D)
    BY <2>1, <2>2, FirstFrame
  <2> QED
    BY <2>3 DEF Known
<1>12. data = [k \in 1 .. l |-> R[5 + k].b]
  OBVIOUS
<1> HIDE DEF f, m, l, data, D
<1>13. z = 6 + l /\ z \in 6 .. Len(R) /\ \A k \in 1 .. z : k \in 1 .. Len(R) /\ R[k].f = f /\ R[k].p = k
  BY <1>11
<1> HIDE DEF z
<1>14. n < z /\ n >= 2 /\ n \in Nat /\ (TooLong(side, m) => n < 5)
  BY <1>7, <1>9, <1>11 DEF z
<1>15. TooLong(side, m) <=> l > RC_FRAME_MAX_PAYLOAD
  <2>1. TooLong(side, m) <=> 6 + l > 6 + RC_FRAME_MAX_PAYLOAD
    BY <1>2, <1>11 DEF TooLong
  <2> QED
    <3>1. RC_FRAME_MAX_PAYLOAD \in Nat /\ l \in Nat
      BY <1>11, SizesAssumption
    <3> QED
      BY <2>1, <3>1
<1>16. n + 1 >= 5 => len = l
  <2>1. n + 1 >= 5 => B[4] = R[4] /\ B[5] = R[5]
    BY <1>9, <1>14
  <2> QED
    BY <2>1, <1>11
<1>17. FrameState(B) = IF n + 1 < 5 THEN "more"
                       ELSE IF TooLong(side, m) THEN "refused"
                       ELSE IF n + 1 < z THEN "more" ELSE "whole"
  <2>1. FrameState(B) = IF n + 1 < 5 THEN "more"
                        ELSE IF len > RC_FRAME_MAX_PAYLOAD THEN "refused"
                        ELSE IF n + 1 < 6 + len THEN "more" ELSE "whole"
    BY <1>9 DEF FrameState
  <2> HIDE DEF len
  <2> QED
    BY <2>1, <1>13, <1>14, <1>15, <1>16
<1> HIDE DEF len
\* The frame is not over.
<1>18. CASE n + 1 < 5 \/ (~TooLong(side, m) /\ n + 1 < z)
  <2>1. FrameState(B) = "more"
    BY <1>14, <1>17, <1>18
  <2>2. rx_sync' = 2 /\ buffer' = B /\ got' = got
    BY <2>1, <1>5
  <2>3. n + 1 < z
    BY <1>13, <1>14, <1>18
  <2>4. B[1] = R[1]
    BY <1>9, <1>14
  <2>5. UpState(buffer', line', rx_sync', side, sent)
    BY <2>2, <2>3, <2>4, <1>9, <1>10, <1>11, <1>14, <1>18 DEF UpState, z
  <2> QED
    BY <2>2, <2>5, <1>3, <1>5, <1>8, <1>9
\* It is too long: the rest will be skipped.
<1>19. CASE n + 1 >= 5 /\ TooLong(side, m)
  <2>1. FrameState(B) = "refused"
    BY <1>14, <1>17, <1>19
  <2>2. rx_sync' = 0 /\ buffer' = << >> /\ got' = got
    BY <2>1, <1>5
  <2>3. n = 4
    BY <1>14, <1>19
  <2>4. buffer' \o line' = rest /\ buffer' \in Seq(T)
    BY <2>2, <1>5, <1>6, Empty
  <2>5. f \notin hit
    BY <1>10, <1>11, <1>19 DEF Changes
  <2>6. 5 \in 0 .. Len(R) /\ 6 \in 1 .. z /\ rest = SubSeq(R, 5 + 1, Len(R)) /\ 5 < Len(R)
    BY <2>3, <1>9, <1>13
  <2>7. R[6].f = f /\ R[6].p = 6
    BY <2>6, <1>13
  <2> DEFINE d == 5
  <2>8. d \in 0 .. Len(R) /\ rest = SubSeq(R, d + 1, Len(R)) /\ R[d + 1].f \notin hit
        /\ R[d + 1] = R[6] /\ d < Len(R)
    BY <2>5, <2>6, <2>7
  <2> HIDE DEF d
  <2>9. Stream(rest, side, sent)
    BY <2>8, <1>10, StreamRest
  <2>10. Changes(rest, side, sent, hit, flips)
    BY <2>8, <1>1, <1>2, <1>10, ChangesRest
  <2>11. rest # << >> /\ rest[1] = R[6]
    <3> DEFINE E == SubSeq(R, d + 1, Len(R))
    <3>1. Len(E) = Len(R) - d /\ (\A k \in 1 .. Len(E) : E[k] = R[d + k])
          /\ (E = << >> <=> d = Len(R))
      <4>1. R \in Seq(T) /\ d \in 0 .. Len(R)
        BY <2>8, <1>9
      <4> QED
        BY <4>1, Dropped
    <3>2. E = rest
      BY <2>8
    <3> HIDE DEF E
    <3>3. E # << >> /\ 1 \in 1 .. Len(E)
      BY <3>1, <2>8, <1>9
    <3> QED
      BY <3>1, <3>2, <3>3, <2>8
  <2>12. Over(rest, sent) = Over(R, sent)
    BY <2>7, <2>11, <1>9, <1>11 DEF Over
  <2>13. Ok(buffer' \o line')
    BY <2>2, <2>4, <2>9, <2>10, <2>12, <1>3 DEF Received
  <2>14. Skipped(rest[1], side, sent)
    BY <2>7, <2>11, <1>11, <1>19 DEF Skipped
  <2>15. UpState(buffer', line', rx_sync', side, sent)
    BY <2>2, <2>14, <1>5 DEF UpState
  <2> QED
    BY <2>4, <2>13, <2>15, <1>8
\* It is whole.
<1>20. CASE n + 1 >= 5 /\ ~TooLong(side, m) /\ n + 1 >= z
  <2>1. FrameState(B) = "whole" /\ n + 1 = z
    BY <1>13, <1>14, <1>17, <1>20
  <2>2. rx_sync' = 0 /\ buffer' = << >>
        /\ got' = IF calc_chk(B[3].b, read(l)) = b.b
                    THEN got \o Understood(dispatch_frame(B[3].b, read(l)), b.f)
                    ELSE got
    BY <2>1, <1>5, <1>16, <1>20
  <2>3. buffer' \o line' = rest /\ buffer' \in Seq(T) /\ rest = D
    <3>1. buffer' \o line' = rest /\ buffer' \in Seq(T)
      BY <2>2, <1>5, <1>6, Empty
    <3>2. n + 2 = z + 1
      BY <2>1, <1>14
    <3> QED
      BY <3>1, <3>2, <1>9 DEF D
  <2>4. b = R[6 + l] /\ b.f = f /\ B[3] = R[3]
    <3>1. z \in 1 .. z /\ 3 \in 1 .. n + 1 /\ n + 1 = 6 + l
      BY <2>1, <1>13
    <3> QED
      BY <2>1, <3>1, <1>9, <1>13
  <2>5. read(l) = data
    <3>1. \A k \in 1 .. l : 5 + k \in 1 .. n + 1
      <4>1. n + 1 = 6 + l /\ l \in Nat
        BY <2>1, <1>11, <1>13
      <4> QED
        BY <4>1
    <3> QED
      BY <3>1, <1>9, <1>12
  <2> HIDE DEF read
  <2>6. rest # << >> => rest[1].p = 1
    BY <2>3, <1>11
  <2>7. CASE f \in hit
    <3>1. got' = got
      BY <2>2, <2>4, <2>5, <2>7, <1>11
    <3>2. Received(rest, side, M, sent, hit, flips, got)
      BY <2>3, <2>7, <1>11
    <3>3. UpState(buffer', line', rx_sync', side, sent)
      BY <2>2, <2>6, <1>5 DEF UpState
    <3> QED
      BY <2>3, <3>1, <3>2, <3>3, <1>8
  <2>8. CASE f \notin hit
    <3>1. UpMessage(m) /\ Command(side, m) = UplinkCMD[m.cmd] /\ Data(side, m) = payload_up(m)
      BY <1>2, <1>11 DEF Message, Command, Data
    <3>2. got' = got \o Understood(IF m.cmd = "CMD_RSP" THEN << >> ELSE <<Heard(m)>>, f)
      BY <2>2, <2>4, <2>5, <2>8, <3>1, <1>11, UpHeard, ZenonT(30)
    <3>3. Received(rest, side, M, sent, hit, flips, got')
      <4>1. CASE m.cmd = "CMD_RSP"
        <5>1. got' = got
          BY <3>2, <4>1, <1>3, NothingUnderstood DEF Received, Heeded
        <5> QED
          BY <5>1, <2>3, <4>1, <1>11
      <4>2. CASE m.cmd # "CMD_RSP"
        <5>1. got' = Append(got, [m |-> Heard(m), f |-> f])
          <6> DEFINE G == [m : {Heard(x) : x \in M}, f : Nat]
          <6>1. got \in Seq(G)
            BY <1>3 DEF Received, Heeded
          <6>2. [m |-> Heard(m), f |-> f] \in G
            BY <1>11
          <6> HIDE DEF G
          <6>3. got \o Understood(<<Heard(m)>>, f) = Append(got, [m |-> Heard(m), f |-> f])
            BY <6>1, <6>2, OneUnderstood
          <6> QED
            BY <6>3, <3>2, <4>2
        <5> QED
          BY <5>1, <2>3, <2>8, <4>2, <1>20, <1>11
      <4> QED
        BY <4>1, <4>2
    <3>4. UpState(buffer', line', rx_sync', side, sent)
      BY <2>2, <2>6, <1>5 DEF UpState
    <3> QED
      BY <2>3, <3>3, <3>4, <1>8
  <2> QED
    BY <2>7, <2>8
<1> QED
  BY <1>13, <1>14, <1>18, <1>19, <1>20

LEMMA Associative ==
  ASSUME NEW T, NEW q \in Seq(T), NEW r \in Seq(T), NEW s \in Seq(T)
  PROVE  (q \o r) \o s = q \o (r \o s)
<1> USE ConcatAssociative
<1>1. (q \o r) \o s = q \o (r \o s)
  OBVIOUS
<1> QED
  BY <1>1

LEMMA DroppedBoth ==
  ASSUME NEW T, NEW B \in Seq(T), NEW L \in Seq(T), NEW d \in 0 .. Len(B)
  PROVE  /\ SubSeq(B, d + 1, Len(B)) \in Seq(T)
         /\ SubSeq(B, d + 1, Len(B)) \o L = SubSeq(B \o L, d + 1, Len(B \o L))
<1> DEFINE R == B \o L
           D == SubSeq(B, d + 1, Len(B))
           E == SubSeq(R, d + 1, Len(R))
           C == D \o L
<1>1. R \in Seq(T) /\ Len(R) = Len(B) + Len(L)
      /\ (\A k \in 1 .. Len(B) : R[k] = B[k]) /\ (\A k \in 1 .. Len(L) : R[Len(B) + k] = L[k])
  BY JoinedRight
<1>2. D \in Seq(T) /\ Len(D) = Len(B) - d /\ \A k \in 1 .. Len(D) : D[k] = B[d + k]
  BY Dropped
<1> HIDE DEF R, D
<1>3. E \in Seq(T) /\ Len(E) = Len(R) - d /\ \A k \in 1 .. Len(E) : E[k] = R[d + k]
  <2>1. R \in Seq(T) /\ d \in 0 .. Len(R)
    BY <1>1
  <2> QED
    BY <2>1, Dropped
<1>4. C \in Seq(T) /\ Len(C) = Len(D) + Len(L)
      /\ (\A k \in 1 .. Len(D) : C[k] = D[k]) /\ (\A k \in 1 .. Len(L) : C[Len(D) + k] = L[k])
  <2>1. D \in Seq(T)
    BY <1>2
  <2> QED
    BY <2>1, JoinedRight
<1> HIDE DEF E, C
<1>5. Len(B) \in Nat /\ Len(L) \in Nat /\ d \in Nat /\ d <= Len(B)
  OBVIOUS
<1>6. Len(C) = Len(E)
  BY <1>1, <1>2, <1>3, <1>4, <1>5
<1>7. \A k \in 1 .. Len(C) : C[k] = E[k]
  <2> TAKE k \in 1 .. Len(C)
  <2>1. E[k] = R[d + k]
    BY <1>3, <1>6
  <2>2. CASE k <= Len(D)
    <3>1. k \in 1 .. Len(D) /\ d + k \in 1 .. Len(B)
      BY <2>2, <1>2, <1>5
    <3>2. C[k] = D[k] /\ D[k] = B[d + k] /\ R[d + k] = B[d + k]
      BY <3>1, <1>1, <1>2, <1>4
    <3> QED
      BY <3>2, <2>1
  <2>3. CASE k > Len(D)
    <3>1. k - Len(D) \in 1 .. Len(L) /\ Len(D) + (k - Len(D)) = k
          /\ Len(B) + (k - Len(D)) = d + k
      BY <2>3, <1>2, <1>4, <1>5
    <3>2. C[Len(D) + (k - Len(D))] = L[k - Len(D)]
      BY <3>1, <1>4
    <3>3. R[Len(B) + (k - Len(D))] = L[k - Len(D)]
      BY <3>1, <1>1
    <3> QED
      BY <3>1, <3>2, <3>3, <2>1
  <2> QED
    BY <2>2, <2>3, <1>2
<1>8. C = E
  BY <1>3, <1>4, <1>6, <1>7
<1> QED
  BY <1>2, <1>8 DEF C, D, E, R

LEMMA CutInTwo ==
  ASSUME NEW T, NEW B \in Seq(T), NEW L \in Seq(T), NEW n \in 1 .. Len(L)
  PROVE  /\ B \o SubSeq(L, 1, n) \in Seq(T) /\ SubSeq(L, n + 1, Len(L)) \in Seq(T)
         /\ (B \o SubSeq(L, 1, n)) \o SubSeq(L, n + 1, Len(L)) = B \o L
<1> DEFINE X == SubSeq(L, 1, n)
           Y == SubSeq(L, n + 1, Len(L))
           Z == X \o Y
<1>1. X \in Seq(T) /\ Len(X) = n /\ \A k \in 1 .. n : X[k] = L[k]
  OBVIOUS
<1>2. Y \in Seq(T) /\ Len(Y) = Len(L) - n /\ \A k \in 1 .. Len(Y) : Y[k] = L[n + k]
  <2>1. n \in 0 .. Len(L)
    OBVIOUS
  <2> QED
    BY <2>1, Dropped
<1> HIDE DEF X, Y
<1>3. Z \in Seq(T) /\ Len(Z) = Len(X) + Len(Y)
      /\ (\A k \in 1 .. Len(X) : Z[k] = X[k]) /\ (\A k \in 1 .. Len(Y) : Z[Len(X) + k] = Y[k])
  <2>1. X \in Seq(T) /\ Y \in Seq(T)
    BY <1>1, <1>2
  <2> QED
    BY <2>1, JoinedRight
<1>4. B \o Z = (B \o X) \o Y
  <2>1. X \in Seq(T) /\ Y \in Seq(T)
    BY <1>1, <1>2
  <2> QED
    <3>1. (B \o X) \o Y = B \o (X \o Y)
      BY <2>1, Associative, SMTT(30)
    <3> QED
      BY <3>1
<1> HIDE DEF Z
<1>5. n \in Nat /\ Len(L) \in Nat /\ n <= Len(L)
  OBVIOUS
<1>6. \A k \in 1 .. Len(L) : Z[k] = L[k]
  <2> TAKE k \in 1 .. Len(L)
  <2>1. CASE k <= n
    <3>1. k \in 1 .. n
      BY <2>1, <1>5
    <3> QED
      BY <3>1, <1>1, <1>3
  <2>2. CASE k > n
    <3>1. k - n \in 1 .. Len(Y) /\ n + (k - n) = k
      BY <2>2, <1>2, <1>5
    <3>2. Z[n + (k - n)] = Y[k - n] /\ Y[k - n] = L[n + (k - n)]
      BY <3>1, <1>1, <1>2, <1>3
    <3> QED
      BY <3>1, <3>2
  <2> QED
    BY <2>1, <2>2, <1>5
<1>7. Z = L
  <2>1. Len(Z) = Len(L) /\ Z \in Seq(T)
    BY <1>1, <1>2, <1>3, <1>5
  <2>2. \A k \in 1 .. Len(Z) : Z[k] = L[k]
    BY <2>1, <1>6
  <2> QED
    BY <2>1, <2>2
<1>8. B \o X \in Seq(T)
  <2>1. X \in Seq(T)
    BY <1>1
  <2> QED
    BY <2>1, JoinedRight
<1> QED
  BY <1>2, <1>4, <1>7, <1>8 DEF X, Y

LEMMA ReadRight ==
  ASSUME LinkInv, Clean, NEW n \in 1 .. Len(line), Read(n)
  PROVE  LinkBody'
<1> DEFINE T == Tagged(sent)
           side == scenario.side
<1>1. line \in Seq(T) /\ buffer \in Seq(T)
      /\ Received(buffer \o line, side, scenario.messages, sent, hit, flips, got)
  BY DEF LinkInv, LinkBody
<1>2. /\ buffer' = buffer \o SubSeq(line, 1, n) /\ line' = SubSeq(line, n + 1, Len(line))
      /\ pc' = "parse" /\ UNCHANGED <<scenario, sent, got, hit, flips>>
  BY DEF Read
<1>3. side # "up" /\ DownState(buffer, line, pc, side, sent)
  BY DEF LinkInv, LinkBody, ParserState, Read, Up
<1> HIDE DEF T, side
<1>4. buffer' \in Seq(T) /\ line' \in Seq(T) /\ buffer' \o line' = buffer \o line
  BY <1>1, <1>2, CutInTwo
<1>5. DownState(buffer', line', pc', side, sent)
  BY <1>2, <1>3, <1>4 DEF DownState
<1> QED
  BY <1>1, <1>2, <1>3, <1>4, <1>5 DEF LinkBody, ParserState, T, side

\* What the bridge's parser sees
LEMMA Parsed ==
  ASSUME LinkInv, Clean, pc = "parse", buffer # << >>,
         NEW R, R = buffer \o line,
         NEW f, NEW m, NEW l, NEW data, NEW D,
         FrameAt(scenario.side, sent, R, f, m, l, data, D)
  PROVE  /\ Known(scenario.side, scenario.messages, sent, hit, flips, got, R, f, m, l, data, D)
         /\ scenario.side # "up" /\ \A x \in scenario.messages : DownMessage(x)
         /\ \A k \in 1 .. Len(buffer) : buffer[k] = R[k]
         /\ R[1] = buffer[1] /\ Len(buffer) \in Nat
<1> DEFINE T == Tagged(sent)
           side == scenario.side
           M == scenario.messages
<1>1. line \in Seq(T) /\ buffer \in Seq(T) /\ Received(R, side, M, sent, hit, flips, got)
  BY DEF LinkInv, LinkBody
<1>2. side # "up" /\ DownState(buffer, line, pc, side, sent)
  BY DEF LinkInv, LinkBody, ParserState
<1>3. sent \in Seq(M) /\ \A x \in M : Message(side, x)
  BY ScenarioRight DEF LinkInv, LinkTypes
<1>4. \A x \in M : DownMessage(x)
  BY <1>2, <1>3 DEF Message
<1> HIDE DEF T
<1>5. /\ Len(buffer) \in Nat /\ Len(buffer) > 0 /\ R \in Seq(T)
      /\ \A k \in 1 .. Len(buffer) : R[k] = buffer[k]
      /\ Len(R) = Len(buffer) + Len(line) /\ Len(line) \in Nat
  <2> DEFINE V == buffer \o line
  <2>1. V \in Seq(T) /\ Len(V) = Len(buffer) + Len(line) /\ \A k \in 1 .. Len(buffer) : V[k] = buffer[k]
    BY <1>1, JoinedRight
  <2>2. Len(buffer) \in Nat /\ Len(buffer) > 0 /\ Len(line) \in Nat
    BY <1>1
  <2>3. V = R
    OBVIOUS
  <2> HIDE DEF V
  <2> QED
    BY <2>1, <2>2, <2>3
<1>6. R # << >> /\ R[1] = buffer[1]
  BY <1>5
<1>7. R[1].p = 1
  BY <1>2, <1>6 DEF DownState
<1> HIDE DEF side, M
<1>8. FrameAt(side, sent, R, f, m, l, data, D)
  BY DEF side
<1>9. Known(side, M, sent, hit, flips, got, R, f, m, l, data, D)
  BY <1>1, <1>3, <1>6, <1>7, <1>8, FirstFrame
<1> QED
  BY <1>2, <1>4, <1>5, <1>6, <1>9 DEF side, M

\* The bridge's buffer begins with a frame.
LEMMA BeginsRight ==
  ASSUME LinkInv, Clean, pc = "parse", Len(buffer) >= 5
  PROVE  Synchronised
<1> DEFINE R == buffer \o line
           f == R[1].f
           m == sent[f]
           l == Len(Data(scenario.side, m))
           data == [k \in 1 .. l |-> R[5 + k].b]
           D == SubSeq(R, Size(scenario.side, m) + 1, Len(R))
<1>1. FrameAt(scenario.side, sent, R, f, m, l, data, D) /\ R = buffer \o line
  BY DEF FrameAt
<1>2. buffer # << >>
  <2>1. Len(<< >>) = 0
    OBVIOUS
  <2> QED
    BY <2>1
<1> HIDE DEF R, f, m, l, data, D
<1>3. /\ Known(scenario.side, scenario.messages, sent, hit, flips, got, R, f, m, l, data, D)
      /\ \A k \in 1 .. Len(buffer) : buffer[k] = R[k]
      /\ Len(buffer) \in Nat
  BY <1>1, <1>2, Parsed
<1>4. R[1].b = SYNC1 /\ R[2].b = SYNC2
  BY <1>3 DEF Known
<1>5. buffer[1] = R[1] /\ buffer[2] = R[2]
  BY <1>3
<1> QED
  BY <1>4, <1>5 DEF Synchronised, taken

LEMMA ParseWaitRight ==
  ASSUME LinkInv, Clean, ParseWait
  PROVE  LinkBody'
<1> DEFINE R == buffer \o line
           f == R[1].f
           m == sent[f]
           l == Len(Data(scenario.side, m))
           data == [k \in 1 .. l |-> R[5 + k].b]
           D == SubSeq(R, Size(scenario.side, m) + 1, Len(R))
<1>1. FrameAt(scenario.side, sent, R, f, m, l, data, D) /\ R = buffer \o line
  BY DEF FrameAt
<1>2. pc = "parse" /\ pc' = "read" /\ UNCHANGED <<scenario, line, buffer, sent, got, hit, flips>>
      /\ (Len(buffer) < 5 \/ (Len(buffer) >= 5 /\ Len(buffer) < 6 + pay_len))
  BY DEF ParseWait
<1>3. line \in Seq(Tagged(sent)) /\ buffer \in Seq(Tagged(sent))
      /\ Received(R, scenario.side, scenario.messages, sent, hit, flips, got)
  BY DEF LinkInv, LinkBody
<1>4. scenario.side # "up" /\ DownState(buffer, line, pc, scenario.side, sent)
  BY <1>2 DEF LinkInv, LinkBody, ParserState
<1> HIDE DEF R, f, m, l, data, D
<1>5. buffer # << >> => Len(buffer) < Size(scenario.side, sent[buffer[1].f])
  <2> SUFFICES ASSUME buffer # << >>
               PROVE  Len(buffer) < Size(scenario.side, sent[buffer[1].f])
    OBVIOUS
  <2>1. /\ Known(scenario.side, scenario.messages, sent, hit, flips, got, R, f, m, l, data, D)
        /\ \A k \in 1 .. Len(buffer) : buffer[k] = R[k]
        /\ Len(buffer) \in Nat /\ R[1] = buffer[1]
    BY <1>1, <1>2, Parsed
  <2>2. f = buffer[1].f /\ m = sent[f] /\ l \in Nat /\ Size(scenario.side, m) = 6 + l
        /\ R[4].b + W * R[5].b = l
    BY <2>1 DEF Known
  <2>3. Len(buffer) >= 5 => pay_len = l
    <3>1. Len(buffer) >= 5 => buffer[4] = R[4] /\ buffer[5] = R[5]
      BY <2>1
    <3> QED
      BY <3>1, <2>2 DEF pay_len, taken
  <2>4. Len(buffer) < 6 + l
    BY <2>1, <2>2, <2>3, <1>2
  <2> QED
    BY <2>2, <2>4
<1>6. DownState(buffer', line', pc', scenario.side, sent)
  <2>1. buffer' = buffer /\ line' = line /\ pc' = "read"
    BY <1>2
  <2> QED
    BY <2>1, <1>4, <1>5 DEF DownState
<1>7. ParserState(buffer', line', rx_sync', pc', scenario'.side, sent')
  BY <1>2, <1>4, <1>6 DEF ParserState
<1> QED
  BY <1>2, <1>3, <1>7 DEF LinkBody, R

LEMMA ParseFrameRight ==
  ASSUME LinkInv, Clean, ParseFrame
  PROVE  LinkBody'
<1> DEFINE side == scenario.side
           M == scenario.messages
           T == Tagged(sent)
           R == buffer \o line
           f == R[1].f
           m == sent[f]
           l == Len(Data(side, m))
           data == [k \in 1 .. l |-> R[5 + k].b]
           D == SubSeq(R, Size(side, m) + 1, Len(R))
<1>1. FrameAt(side, sent, R, f, m, l, data, D) /\ R = buffer \o line
  BY DEF FrameAt
<1>2. /\ pc = "parse" /\ Len(buffer) >= 5 /\ Len(buffer) >= 6 + pay_len
      /\ buffer' = Rest(buffer, pay_len)
      /\ UNCHANGED <<scenario, line, sent, hit, flips>>
  BY DEF ParseFrame
<1>3. line \in Seq(T) /\ buffer \in Seq(T)
  BY DEF LinkInv, LinkBody
<1>4. buffer # << >>
  <2>1. Len(<< >>) = 0
    OBVIOUS
  <2> QED
    BY <2>1, <1>2
<1> HIDE DEF R, f, m, l, data, D, T
<1>5. /\ Known(side, M, sent, hit, flips, got, R, f, m, l, data, D)
      /\ side # "up" /\ \A x \in M : DownMessage(x)
      /\ \A k \in 1 .. Len(buffer) : buffer[k] = R[k]
      /\ Len(buffer) \in Nat
  BY <1>1, <1>2, <1>4, Parsed
<1> HIDE DEF side, M
<1>6. /\ f \in 1 .. Len(sent) /\ m \in M /\ l \in Nat
      /\ \A k \in 1 .. 6 + l : R[k].f = f
      /\ R[4].b + W * R[5].b = l
      /\ D = SubSeq(R, 6 + l + 1, Len(R)) /\ (D # << >> => D[1].p = 1)
  BY <1>5 DEF Known
<1>7. /\ f \notin hit => /\ R[3].b = Command(side, m) /\ data = Data(side, m)
                         /\ calc_chk(R[3].b, data) = R[6 + l].b
      /\ f \in hit => calc_chk(R[3].b, data) # R[6 + l].b
  BY <1>5 DEF Known
<1>8. /\ f \notin hit /\ ~TooLong(side, m) /\ m.cmd # "CMD_RSP"
           => Received(D, side, M, sent, hit, flips, Append(got, [m |-> Heard(m), f |-> f]))
      /\ f \in hit \/ TooLong(side, m) \/ m.cmd = "CMD_RSP"
           => Received(D, side, M, sent, hit, flips, got)
  BY <1>5 DEF Known
<1>9. pay_len = l /\ Len(buffer) >= 6 + l
  <2>1. buffer[4] = R[4] /\ buffer[5] = R[5]
    BY <1>2, <1>5
  <2>2. pay_len = l
    BY <2>1, <1>6 DEF pay_len, taken
  <2> QED
    BY <2>2, <1>2
<1>10. buffer' \in Seq(T) /\ buffer' \o line = D
  <2> DEFINE d == 6 + l
  <2>1. d \in 0 .. Len(buffer) /\ 5 + l + 2 = d + 1
    BY <1>5, <1>6, <1>9
  <2>2. buffer' = SubSeq(buffer, 5 + l + 2, Len(buffer))
    BY <1>2, <1>9 DEF Rest
  <2> HIDE DEF d
  <2>3. buffer' = SubSeq(buffer, d + 1, Len(buffer))
    BY <2>1, <2>2
  <2>4. buffer' \in Seq(T) /\ buffer' \o line = SubSeq(R, d + 1, Len(R))
    BY <2>1, <2>3, <1>3, DroppedBoth DEF R
  <2> QED
    BY <2>4, <1>6 DEF d
<1>11. ASSUME pc' = "parse", Received(D, side, M, sent, hit, flips, got')
       PROVE  LinkBody'
  <2>1. DownState(buffer', line', pc', side, sent)
    BY <1>2, <1>6, <1>10, <1>11 DEF DownState
  <2>2. ParserState(buffer', line', rx_sync', pc', scenario'.side, sent')
    BY <2>1, <1>2, <1>5 DEF ParserState, side
  <2>3. line' \in Seq(Tagged(sent')) /\ buffer' \in Seq(Tagged(sent'))
    BY <1>2, <1>3, <1>10 DEF T
  <2>4. Received(buffer' \o line', scenario'.side, scenario'.messages, sent', hit', flips', got')
    BY <1>2, <1>10, <1>11 DEF side, M
  <2> QED
    BY <2>2, <2>3, <2>4 DEF LinkBody
<1>12. Payload(l) = data /\ taken(3) = R[3].b /\ taken(6 + l) = R[6 + l].b /\ buffer[6 + l].f = f
  <2>1. \A k \in 1 .. l : buffer[5 + k] = R[5 + k]
    BY <1>5, <1>6, <1>9
  <2>2. data = [k \in 1 .. l |-> R[5 + k].b]
    BY <1>1 DEF FrameAt
  <2>3. buffer[3] = R[3] /\ buffer[6 + l] = R[6 + l] /\ R[6 + l].f = f
    BY <1>2, <1>5, <1>6, <1>9
  <2> QED
    BY <2>1, <2>2, <2>3 DEF Payload, taken
<1>13. LET right == R[6 + l].b = calc_chk(R[3].b, data)
       IN  IF right /\ Raises(R[3].b, data)
             THEN pc' = "dead" /\ UNCHANGED got
             ELSE /\ got' = IF right THEN got \o Understood(handle_downlink(R[3].b, data), f) ELSE got
                  /\ UNCHANGED pc
  <2>1. \A c, d : calc_checksum(c, d) = calc_chk(c, d)
    BY DEF calc_checksum, calc_chk
  <2> QED
    BY <2>1, <1>9, <1>12 DEF ParseFrame
<1>14. CASE f \in hit
  BY <1>2, <1>7, <1>8, <1>11, <1>13, <1>14
<1>15. CASE f \notin hit
  <2>1. DownMessage(m) /\ Command(side, m) = rc_cmd_t[m.cmd] /\ Data(side, m) = pld(m)
    BY <1>5, <1>6 DEF Command, Data
  <2>2. ~Raises(R[3].b, data) /\ handle_downlink(R[3].b, data) = <<Heard(m)>>
    BY <2>1, <1>7, <1>15, DownHeard
  <2>3. pc' = "parse" /\ got' = got \o Understood(<<Heard(m)>>, f)
    BY <2>2, <1>2, <1>7, <1>13, <1>15
  <2>4. got' = Append(got, [m |-> Heard(m), f |-> f])
    <3> DEFINE G == [m : {Heard(x) : x \in M}, f : Nat]
    <3>1. got \in Seq(G)
      BY DEF LinkInv, LinkBody, Received, Heeded, M
    <3>2. [m |-> Heard(m), f |-> f] \in G
      BY <1>6
    <3> HIDE DEF G
    <3>3. got \o Understood(<<Heard(m)>>, f) = Append(got, [m |-> Heard(m), f |-> f])
      BY <3>1, <3>2, OneUnderstood
    <3> QED
      BY <3>3, <2>3
  <2>5. ~TooLong(side, m) /\ m.cmd # "CMD_RSP"
    BY <2>1, <1>5, DownData DEF TooLong
  <2> QED
    BY <2>3, <2>4, <2>5, <1>8, <1>11, <1>15
<1> QED
  BY <1>14, <1>15

LEMMA SendRight ==
  ASSUME LinkInv, NEW m \in scenario.messages, Send(m)
  PROVE  LinkInv'
<1> DEFINE side == scenario.side
           M == scenario.messages
           t == Append(sent, m)
           X == Stamped(side, m, Len(sent) + 1)
           R == buffer \o line
           C == R \o X
<1>1. scenario \in Scenarios /\ sent \in Seq(M) /\ flips \in Nat
  BY DEF LinkInv, LinkTypes
<1>2. \A x \in M : Message(side, x)
  BY <1>1, ScenarioRight
<1>3. /\ sent' = t /\ line' = line \o X
      /\ UNCHANGED <<scenario, rx_sync, buffer, pc, got, hit, broken, flips>>
  <2>1. Pack(m) = Packed(side, m)
    BY <1>1, ScenarioRight
  <2> QED
    BY <2>1 DEF Send, Stamped, Size
<1>4. /\ t \in Seq(M) /\ Len(t) = Len(sent) + 1 /\ Len(sent) \in Nat
      /\ \A f \in 1 .. Len(sent) : t[f] = sent[f] /\ sent[f] \in M /\ f \in 1 .. Len(sent) + 1
  BY <1>1, SentRight
<1>5. LinkTypes'
  BY <1>1, <1>3, <1>4 DEF LinkTypes
<1>6. ASSUME Clean'
      PROVE  LinkBody'
  <2>1. Clean
    <3>1. broken = 0 /\ flips <= 1 /\ \A k \in 1 .. Len(t) : ~Misleads(side, t[k])
      BY <1>3, <1>6 DEF Clean
    <3> HIDE DEF t
    <3>2. \A k \in 1 .. Len(sent) : ~Misleads(side, sent[k])
      BY <3>1, <1>4
    <3> QED
      BY <3>1, <3>2 DEF Clean
  <2>2. LinkBody
    BY <2>1 DEF LinkInv
  <2> DEFINE T == Tagged(sent)
             V == Tagged(t)
  <2>3. line \in Seq(T) /\ buffer \in Seq(T) /\ Received(R, side, M, sent, hit, flips, got)
    BY <2>2 DEF LinkBody
  <2>4. Message(side, m) /\ m \in M
    BY <1>2
  <2>5. X \in Seq(V) /\ Len(X) = Size(side, m) /\ Size(side, m) \in Nat /\ Size(side, m) >= 6
        /\ \A p \in 1 .. Size(side, m) : X[p].p = p
    <3>1. Size(side, m) \in Nat /\ Size(side, m) >= 6
      BY <2>4, SizeRight
    <3>2. X \in Seq(V) /\ Len(X) = Size(side, m)
      <4>1. sent \in Seq(M) /\ m \in M /\ Message(side, m)
        BY <1>1, <2>4
      <4> HIDE DEF M, side
      <4>2. Stamped(side, m, Len(sent) + 1) \in Seq(Tagged(Append(sent, m)))
        BY <4>1, StampedRight, Zenon
      <4>3. Len(Stamped(side, m, Len(sent) + 1)) = Size(side, m)
        BY <3>1 DEF Stamped
      <4> QED
        BY <4>2, <4>3, Zenon
    <3>3. \A p \in 1 .. Size(side, m) : X[p].p = p
      BY DEF Stamped
    <3> QED
      BY <3>1, <3>2, <3>3
  <2> HIDE DEF t, X, V
  <2>6. line \in Seq(V) /\ buffer \in Seq(V)
    <3>1. \A y \in T : y \in V
      BY <1>4 DEF T, V, Tagged
    <3> HIDE DEF T
    <3> QED
      BY <2>3, <3>1
  <2>7. line' \in Seq(V) /\ buffer' \o line' = C
    <3>1. line \o X \in Seq(V)
      BY <2>5, <2>6, JoinedRight
    <3>2. (buffer \o line) \o X = buffer \o (line \o X)
      BY <2>5, <2>6, Associative
    <3>3. buffer' \o line' = buffer \o (line \o X)
      BY <1>3
    <3> QED
      BY <3>1, <3>2, <3>3, <1>3
  <2> HIDE DEF R, side, M
  <2>8. Stream(C, side, t)
    BY <1>1, <1>2, <2>3, <2>4, StreamSent DEF Received, t, X
  <2>9. Changes(C, side, t, hit, flips)
    BY <1>1, <1>2, <2>3, <2>4, ChangesSent DEF Received, t, X
  <2>10. /\ R # << >> => C # << >> /\ C[1] = R[1]
         /\ R = << >> => C = X
         /\ R \in Seq(V)
    <3>1. R \in Seq(V)
      BY <2>6, JoinedRight DEF R
    <3>2. Len(C) = Len(R) + Len(X) /\ \A k \in 1 .. Len(R) : C[k] = R[k]
      BY <3>1, <2>5, JoinedRight, ZenonT(30)
    <3>3. R = << >> => C = X
      BY <2>5, Empty
    <3> HIDE DEF C
    <3> QED
      BY <3>1, <3>2, <3>3, <2>5
  <2>11. Over(C, t) = Over(R, sent) /\ Over(R, sent) \in Int /\ Over(R, sent) <= Len(sent)
    <3>1. CASE R = << >>
      <4>1. C # << >> /\ C[1].f = Len(sent) + 1
        <5>1. X # << >> /\ 1 \in 1 .. Size(side, m)
          BY <2>5
        <5>2. X[1].f = Len(sent) + 1
          BY <5>1, <1>1, <2>4, StampedRight DEF X
        <5> QED
          BY <5>1, <5>2, <3>1, <2>10
      <4> HIDE DEF C
      <4> QED
        BY <4>1, <3>1, <1>4 DEF Over
    <3>2. CASE R # << >>
      <4>1. R[1].f \in 1 .. Len(sent)
        <5>1. R \in Seq(Tagged(sent)) /\ 1 \in 1 .. Len(R)
          BY <3>2, <2>3 DEF Received, Stream
        <5> QED
          BY <5>1, TaggedRight
      <4> HIDE DEF C
      <4> QED
        BY <4>1, <3>2, <2>10, <1>4 DEF Over
    <3> QED
      BY <3>1, <3>2
  <2>12. Heeded(got, M, side, t, hit, Over(C, t))
    <3> DEFINE d == Over(R, sent)
    <3>1. d \in Int /\ d <= Len(sent) /\ Heeded(got, M, side, sent, hit, d) /\ Over(C, t) = d
      BY <2>3, <2>11 DEF Received
    <3> HIDE DEF d, C
    <3>2. Heeded(got, M, side, t, hit, d)
      BY <3>1, <1>1, <2>4, HeededSent DEF t
    <3> QED
      BY <3>1, <3>2
  <2>13. ParserState(buffer, line', rx_sync, pc, side, t)
    <3>1. \A y \in V : y \in T => t[y.f] = sent[y.f]
      BY <1>4 DEF T, Tagged
    <3>2. (buffer # << >> => t[buffer[1].f] = sent[buffer[1].f])
          /\ (line # << >> => t[line[1].f] = sent[line[1].f])
      <4>1. (buffer # << >> => buffer[1] \in T) /\ (line # << >> => line[1] \in T)
        <5> HIDE DEF T
        <5> QED
          BY <2>3
      <4> QED
        BY <4>1, <1>4 DEF T, Tagged
    <3>3. line' # << >> => \/ line # << >> /\ line'[1] = line[1]
                           \/ line = << >> /\ line'[1].p = 1
      <4> DEFINE L == line \o X
      <4>1. Len(L) = Len(line) + Len(X) /\ (\A k \in 1 .. Len(line) : L[k] = line[k])
        BY <2>5, <2>6, JoinedRight, ZenonT(30)
      <4>2. line = << >> => L = X
        BY <2>5, Empty
      <4>3. X[1].p = 1
        BY <2>5
      <4> HIDE DEF L
      <4>4. line # << >> => L[1] = line[1]
        BY <4>1, <2>6
      <4> QED
        BY <4>2, <4>3, <4>4, <1>3 DEF L
    <3>4. CASE side = "up"
      <4>1. pc = "read" /\ UpState(buffer, line, rx_sync, side, sent)
        BY <2>2, <3>4 DEF LinkBody, ParserState, side
      <4>2. rx_sync \in 0 .. 2 /\ (rx_sync = 0 => buffer = << >>)
            /\ (rx_sync # 0 => buffer # << >>)
        BY <4>1, <2>6 DEF UpState
      <4>3. line' # << >> /\ rx_sync = 0 => line'[1].p = 1 \/ Skipped(line'[1], side, t)
        BY <4>1, <3>2, <3>3 DEF UpState, Skipped
      <4>4. rx_sync = 1 => Len(buffer) = 1 /\ (buffer[1].p = 1 \/ (Skipped(buffer[1], side, t)
                                                                  /\ buffer[1].b = SYNC1))
        BY <4>1, <4>2, <3>2 DEF UpState, Skipped
      <4>5. rx_sync = 2 => /\ Len(buffer) >= 2 /\ buffer[1].p = 1
                           /\ Len(buffer) < Size(side, t[buffer[1].f])
                           /\ TooLong(side, t[buffer[1].f]) => Len(buffer) < 5
        BY <4>1, <4>2, <3>2 DEF UpState
      <4> QED
        BY <4>1, <4>2, <4>3, <4>4, <4>5, <3>4 DEF UpState, ParserState
    <3>5. CASE side # "up"
      <4>1. DownState(buffer, line, pc, side, sent)
        BY <2>2, <3>5 DEF LinkBody, ParserState, side
      <4>2. C # << >> => C[1].p = 1
        <5>1. CASE R = << >>
          BY <5>1, <2>5, <2>10
        <5>2. CASE R # << >>
          BY <5>2, <4>1, <2>10 DEF DownState, R
        <5> QED
          BY <5>1, <5>2
      <4>3. buffer \o line' = C
        BY <2>7, <1>3
      <4>4. DownState(buffer, line', pc, side, t)
        BY <4>1, <4>2, <4>3, <3>2 DEF DownState
      <4> QED
        BY <4>4, <3>5 DEF ParserState
    <3> QED
      BY <3>4, <3>5
  <2>14. Received(C, side, M, t, hit, flips, got)
    BY <2>8, <2>9, <2>12 DEF Received
  <2>15. /\ line' \in Seq(Tagged(sent')) /\ buffer' \in Seq(Tagged(sent'))
         /\ Received(buffer' \o line', scenario'.side, scenario'.messages, sent', hit', flips', got')
    BY <1>3, <2>6, <2>7, <2>14 DEF V, side, M
  <2>16. ParserState(buffer', line', rx_sync', pc', scenario'.side, sent')
    BY <1>3, <2>13 DEF side
  <2> QED
    BY <2>15, <2>16 DEF LinkBody
<1> QED
  BY <1>5, <1>6 DEF LinkInv

LEMMA FlipRight ==
  ASSUME LinkInv, NEW v \in Byte, Flip(v)
  PROVE  LinkInv'
<1> DEFINE side == scenario.side
           M == scenario.messages
           T == Tagged(sent)
           R == buffer \o line
           C == buffer \o line'
           b == line[1]
           k == Len(buffer) + 1
<1>1. scenario \in Scenarios /\ sent \in Seq(M) /\ flips \in Nat
  BY DEF LinkInv, LinkTypes
<1>2. \A x \in M : Message(side, x)
  BY <1>1, ScenarioRight
<1>3. /\ line # << >> /\ v # b.b /\ flips' = flips + 1 /\ hit' = hit \cup {b.f}
      /\ line' = [line EXCEPT ![1].b = v]
      /\ broken' = IF broken = 0 /\ Boundary(b) THEN b.f ELSE broken
      /\ UNCHANGED <<scenario, rx_sync, buffer, pc, sent, got>>
  BY DEF Flip
<1>4. LinkTypes'
  BY <1>1, <1>3 DEF LinkTypes
<1>5. ASSUME Clean'
      PROVE  LinkBody'
  <2>1. flips = 0 /\ (broken # 0 => broken' # 0)
    BY <1>1, <1>3, <1>5 DEF Clean
  <2>2. Clean
    BY <2>1, <1>3, <1>5 DEF Clean
  <2>3. LinkBody
    BY <2>2 DEF LinkInv
  <2>4. line \in Seq(T) /\ buffer \in Seq(T) /\ Received(R, side, M, sent, hit, flips, got)
        /\ ParserState(buffer, line, rx_sync, pc, side, sent)
    BY <2>3 DEF LinkBody
  <2> HIDE DEF T
  <2>5. b \in T /\ 1 \in 1 .. Len(line)
    BY <2>4, <1>3, FirstAndRest
  <2>6. b.b \in Byte /\ b.f \in 1 .. Len(sent) /\ b.p \in Nat \ {0}
    BY <2>5 DEF T, Tagged
  <2>7. ~Boundary(b)
    <3> HIDE DEF b
    <3>1. broken' = 0 /\ broken = 0
      BY <2>2, <1>5 DEF Clean
    <3>2. b.f # 0
      BY <2>6
    <3> QED
      BY <3>1, <3>2, <1>3
  <2>8. b.p \notin {1, 2, 4, 5} /\ ~TooLong(side, sent[b.f])
    BY <2>7, <1>1, ScenarioRight DEF Boundary
  <2> DEFINE x == [b EXCEPT !.b = v]
  <2>9. x \in T /\ x.b = v /\ x.f = b.f /\ x.p = b.p
    BY <2>5 DEF T, Tagged
  <2>10. /\ line' \in Seq(T) /\ Len(line') = Len(line) /\ line'[1] = x
         /\ \A i \in 1 .. Len(line) : i # 1 => line'[i] = line[i]
    <3>1. line' = [line EXCEPT ![1] = x]
      BY <1>3
    <3> HIDE DEF x, b
    <3> QED
      BY <3>1, <2>4, <2>5, <2>9
  <2> HIDE DEF x
  <2>11. /\ R \in Seq(T) /\ Len(R) = Len(buffer) + Len(line)
         /\ (\A i \in 1 .. Len(buffer) : R[i] = buffer[i])
         /\ (\A i \in 1 .. Len(line) : R[Len(buffer) + i] = line[i])
    BY <2>4, JoinedRight
  <2>12. /\ C \in Seq(T) /\ Len(C) = Len(buffer) + Len(line')
         /\ (\A i \in 1 .. Len(buffer) : C[i] = buffer[i])
         /\ (\A i \in 1 .. Len(line') : C[Len(buffer) + i] = line'[i])
    <3> DEFINE K == line'
    <3>1. K \in Seq(T) /\ buffer \in Seq(T)
      BY <2>4, <2>10
    <3> HIDE DEF K
    <3>2. /\ buffer \o K \in Seq(T) /\ Len(buffer \o K) = Len(buffer) + Len(K)
          /\ (\A i \in 1 .. Len(buffer) : (buffer \o K)[i] = buffer[i])
          /\ (\A i \in 1 .. Len(K) : (buffer \o K)[Len(buffer) + i] = K[i])
      BY <3>1, JoinedRight
    <3> QED
      BY <3>2 DEF K
  <2>13. Len(buffer) \in Nat /\ Len(line) \in Nat
    BY <2>4
  <2> HIDE DEF C, R, b, k, side, M
  <2>14. k \in 1 .. Len(R) /\ R[k] = b /\ C[k] = x /\ Len(C) = Len(R)
    BY <2>5, <2>10, <2>11, <2>12, <2>13 DEF k, b
  <2>15. \A i \in 1 .. Len(R) : i # k => C[i] = R[i]
    <3> TAKE i \in 1 .. Len(R)
    <3> HAVE i # k
    <3>1. CASE i <= Len(buffer)
      <4>1. i \in 1 .. Len(buffer)
        BY <3>1
      <4> QED
        BY <4>1, <2>11, <2>12
    <3>2. CASE i > Len(buffer)
      <4>1. i - Len(buffer) \in 1 .. Len(line) /\ i - Len(buffer) # 1
            /\ Len(buffer) + (i - Len(buffer)) = i
        BY <3>2, <2>11, <2>13 DEF k
      <4>2. C[Len(buffer) + (i - Len(buffer))] = line'[i - Len(buffer)]
        BY <4>1, <2>10, <2>12
      <4>3. R[Len(buffer) + (i - Len(buffer))] = line[i - Len(buffer)]
        BY <4>1, <2>11
      <4> QED
        BY <4>1, <4>2, <4>3, <2>10
    <3> QED
      BY <3>1, <3>2, <2>13
  <2>16. \A i \in 1 .. Len(R) : C[i].f = R[i].f /\ C[i].p = R[i].p /\ (i # k => C[i].b = R[i].b)
    BY <2>9, <2>14, <2>15
  <2>17. Stream(C, side, sent) /\ Changes(C, side, sent, hit', flips')
    <3>1. Stream(R, side, sent) /\ Changes(R, side, sent, hit, 0)
      BY <2>1, <2>4 DEF Received
    <3>2. v # R[k].b /\ R[k].p \notin {1, 2, 4, 5} /\ ~TooLong(side, sent[R[k].f]) /\ C[k].b = v
          /\ C \in Seq(Tagged(sent)) /\ Len(C) = Len(R) /\ k \in 1 .. Len(R)
      BY <1>3, <2>8, <2>9, <2>12, <2>14 DEF b, T
    <3>3. Stream(C, side, sent) /\ Changes(C, side, sent, hit \cup {R[k].f}, 1)
      BY <1>1, <1>2, <3>1, <3>2, <2>16, StreamFlipped
    <3> QED
      BY <3>3, <2>1, <2>14, <1>3
  <2>18. R # << >> /\ C # << >> /\ C[1].f = R[1].f /\ C[1].p = R[1].p
    <3>1. R # << >> /\ C # << >> /\ 1 \in 1 .. Len(R)
      BY <2>11, <2>12, <2>14
    <3> QED
      BY <3>1, <2>16
  <2>19. Heeded(got, M, side, sent, hit', Over(C, sent))
    <3>1. R[1].f <= b.f /\ R[1].f \in 1 .. Len(sent)
      <4>1. R[1].f <= R[k].f
        <5>1. 1 <= k /\ 1 \in 1 .. Len(R)
          BY <2>14, <2>13 DEF k
        <5> QED
          BY <5>1, <2>4, <2>14 DEF Received, Stream
      <4>2. R[1].f \in 1 .. Len(sent)
        <5>1. R \in Seq(Tagged(sent)) /\ 1 \in 1 .. Len(R)
          BY <2>14, <2>11 DEF T
        <5> QED
          BY <5>1, TaggedRight
      <4> QED
        BY <4>1, <4>2, <2>14
    <3> DEFINE d == R[1].f - 1
               e == b.f
    <3>2. d \in Int /\ e \in Int /\ d < e
      BY <3>1, <2>6
    <3>3. Over(R, sent) = d /\ Over(C, sent) = d
      BY <2>18 DEF Over
    <3>4. Heeded(got, M, side, sent, hit, d)
      BY <3>3, <2>4 DEF Received
    <3>5. hit' = hit \cup {e}
      BY <1>3 DEF b
    <3> HIDE DEF d, e
    <3>6. Heeded(got, M, side, sent, hit \cup {e}, d)
      BY <3>2, <3>4, HeededHit
    <3> QED
      BY <3>3, <3>5, <3>6
  <2>20. ParserState(buffer, line', rx_sync, pc, side, sent)
    <3>1. line' # << >> /\ line'[1].p = line[1].p /\ line'[1].f = line[1].f
      <4>1. line' # << >>
        BY <2>5, <2>10
      <4> QED
        BY <4>1, <2>9, <2>10 DEF b
    <3>2. CASE side = "up"
      <4>1. pc = "read" /\ UpState(buffer, line, rx_sync, side, sent)
        BY <2>4, <3>2 DEF ParserState
      <4>2. line[1].p = 1 \/ Skipped(line[1], side, sent) => line'[1].p = 1 \/ Skipped(line'[1], side, sent)
        BY <3>1 DEF Skipped
      <4>3. UpState(buffer, line', rx_sync, side, sent)
        BY <4>1, <4>2, <1>3 DEF UpState
      <4> QED
        BY <4>1, <4>3, <3>2 DEF ParserState
    <3>3. CASE side # "up"
      <4>1. DownState(buffer, line, pc, side, sent)
        BY <2>4, <3>3 DEF ParserState
      <4>2. R[1].p = 1
        BY <4>1, <2>18 DEF DownState, R
      <4>3. DownState(buffer, line', pc, side, sent)
        BY <4>1, <4>2, <2>18 DEF DownState, C
      <4> QED
        BY <4>3, <3>3 DEF ParserState
    <3> QED
      BY <3>2, <3>3
  <2>21. Received(C, side, M, sent, hit', flips', got)
    BY <2>17, <2>19 DEF Received
  <2>22. /\ line' \in Seq(Tagged(sent')) /\ buffer' \in Seq(Tagged(sent'))
         /\ Received(buffer' \o line', scenario'.side, scenario'.messages, sent', hit', flips', got')
    BY <1>3, <2>4, <2>10, <2>21 DEF T, C, side, M
  <2>23. ParserState(buffer', line', rx_sync', pc', scenario'.side, sent')
    BY <1>3, <2>20 DEF side
  <2> QED
    BY <2>22, <2>23 DEF LinkBody
<1> QED
  BY <1>4, <1>5 DEF LinkInv

LEMMA LoseRight ==
  ASSUME LinkInv, Lose
  PROVE  LinkInv'
<1>1. LinkTypes' /\ (Clean' => Clean)
  BY DEF Lose, LinkInv, LinkTypes, Clean
<1>2. ASSUME Clean'
      PROVE  FALSE
  <2>1. Clean /\ LinkBody
    BY <1>1, <1>2 DEF LinkInv
  <2> DEFINE T == Tagged(sent)
  <2>2. line \in Seq(T) /\ line # << >>
    BY <2>1 DEF LinkBody, Lose
  <2> HIDE DEF T
  <2>3. line[1] \in T
    BY <2>2
  <2>4. line[1].f \in 1 .. Len(sent)
    BY <2>3 DEF T, Tagged
  <2>5. broken = 0 /\ broken' = line[1].f
    BY <2>1 DEF Clean, Lose
  <2> QED
    BY <2>4, <2>5, <1>2 DEF Clean
<1> QED
  BY <1>1, <1>2 DEF LinkInv

LEMMA LinkSteps ==
  ASSUME LinkInv, [LinkNext]_linkVars
  PROVE  LinkInv'
<1>1. CASE UNCHANGED linkVars
  BY <1>1 DEF LinkInv, LinkTypes, Clean, LinkBody, linkVars
<1>2. ASSUME NEW m \in scenario.messages, Send(m)
      PROVE  LinkInv'
  BY <1>2, SendRight
<1>3. ASSUME NEW v \in Byte, Flip(v)
      PROVE  LinkInv'
  BY <1>3, FlipRight
<1>4. CASE Lose
  BY <1>4, LoseRight
<1>5. CASE FeedSync
  BY <1>5, FeedSyncRight, Kept DEF FeedSync
<1>6. CASE FeedFrame
  BY <1>6, FeedFrameRight, Kept DEF FeedFrame
<1>7. ASSUME NEW n \in 1 .. Len(line), Read(n)
      PROVE  LinkInv'
  BY <1>7, ReadRight, Kept DEF Read
<1>8. CASE ParseSkip
  <2>1. ~Clean
    BY <1>8, BeginsRight DEF ParseSkip
  <2> QED
    BY <1>8, <2>1, Kept DEF ParseSkip
<1>9. CASE ParseFrame
  BY <1>9, ParseFrameRight, Kept DEF ParseFrame
<1>10. CASE ParseWait
  BY <1>10, ParseWaitRight, Kept DEF ParseWait
<1> QED
  BY <1>1, <1>2, <1>3, <1>4, <1>5, <1>6, <1>7, <1>8, <1>9, <1>10 DEF LinkNext

LEMMA InOrderFollows ==
  ASSUME LinkInv
  PROVE  FramesInOrder
<1> DEFINE side == scenario.side
           M == scenario.messages
           R == buffer \o line
           T == Tagged(sent)
<1>1. scenario \in Scenarios /\ sent \in Seq(M)
  BY DEF LinkInv, LinkTypes
<1>2. (\A x \in M : Message(side, x)) /\ (\A m : Oversize(m) <=> TooLong(side, m))
      /\ (\A m : FalseStart(m) <=> Misleads(side, m))
  BY <1>1, ScenarioRight
<1>3. SUFFICES ASSUME Clean
               PROVE  /\ pc # "dead"
                      /\ \A k \in DOMAIN got : got[k].f \in Receivable /\ got[k].m = Heard(sent[got[k].f])
                      /\ \A j, k \in DOMAIN got : j < k => got[j].f < got[k].f
                      /\ \A f \in Receivable : Drained \/ (\E k \in DOMAIN got : got[k].f > f)
                                        => \E k \in DOMAIN got : got[k].f = f
  <2>1. DOMAIN sent = 1 .. Len(sent)
    BY <1>1
  <2> QED
    BY <2>1, <1>2 DEF FramesInOrder, Clean
<1>4. /\ line \in Seq(T) /\ buffer \in Seq(T) /\ Received(R, side, M, sent, hit, flips, got)
      /\ ParserState(buffer, line, rx_sync, pc, side, sent)
  BY <1>3 DEF LinkInv, LinkBody
<1>5. Receivable = Sound(side, sent, hit)
  <2>1. DOMAIN sent = 1 .. Len(sent)
    BY <1>1
  <2> QED
    BY <2>1, <1>2 DEF Receivable, Sound
<1>6. pc # "dead"
  BY <1>4 DEF ParserState, DownState
<1> DEFINE d == Over(R, sent)
           S == Sound(side, sent, hit)
<1>7. /\ DOMAIN got = 1 .. Len(got)
      /\ \A k \in 1 .. Len(got) : got[k].f \in S /\ got[k].f <= d /\ got[k].m = Heard(sent[got[k].f])
      /\ \A j, k \in 1 .. Len(got) : j < k => got[j].f < got[k].f
      /\ \A f \in S : f <= d => \E k \in 1 .. Len(got) : got[k].f = f
  <2>1. Heeded(got, M, side, sent, hit, d)
    BY <1>4 DEF Received
  <2> QED
    BY <2>1 DEF Heeded
<1>8. S \subseteq 1 .. Len(sent) /\ Len(sent) \in Nat
  BY <1>1 DEF Sound
<1>9. d \in Int
  <2>1. CASE R = << >>
    BY <2>1, <1>8 DEF Over
  <2>2. CASE R # << >>
    <3>1. R \in Seq(T) /\ 1 \in 1 .. Len(R)
      BY <2>2, <1>4 DEF Received, Stream
    <3>2. R[1].f \in Int
      BY <3>1, TaggedRight
    <3> QED
      BY <2>2, <3>2 DEF Over
  <2> QED
    BY <2>1, <2>2
<1>10. ASSUME NEW f \in S, Drained
       PROVE  f <= d
  <2>1. line = << >> /\ pc = "read"
    BY <1>10 DEF Drained
  <2>2. R = buffer
    BY <2>1, <1>4, Empty
  <2>3. CASE R = << >>
    <3>1. d = Len(sent)
      BY <2>3 DEF Over
    <3> HIDE DEF d
    <3> QED
      BY <3>1, <1>8
  <2>4. CASE R # << >>
    <3> DEFINE r == R[1].f
               m == sent[r]
    <3>1. R \in Seq(T) /\ 1 \in 1 .. Len(R) /\ Len(R) \in Nat
      BY <2>4, <1>4 DEF Received, Stream
    <3>2. r \in 1 .. Len(sent)
      BY <3>1, TaggedRight
    <3>3. R[1].p = 1 => Size(side, m) \in 6 .. Len(R)
      BY <2>4, <1>1, <1>2, <1>4, WholeFrame DEF Received
    <3>4. d = r - 1
      BY <2>4 DEF Over
    <3> HIDE DEF d, r, R
    <3>5. CASE side = "up"
      <4>1. UpState(buffer, line, rx_sync, side, sent)
        BY <3>5, <1>4 DEF ParserState
      <4>2. rx_sync = 1
        <5>1. rx_sync # 0
          BY <4>1, <2>2, <2>4 DEF UpState
        <5>2. rx_sync # 2
          BY <4>1, <2>2, <3>1, <3>3 DEF UpState, r
        <5> QED
          BY <4>1, <5>1, <5>2 DEF UpState
      <4>3. Len(R) = 1 /\ Skipped(R[1], side, sent)
        <5>1. Len(R) = 1 /\ (R[1].p = 1 \/ Skipped(R[1], side, sent))
          BY <4>1, <4>2, <2>2 DEF UpState
        <5> QED
          BY <5>1, <3>3
      <4>4. TooLong(side, m)
        BY <4>3 DEF Skipped, r
      <4>5. f # r /\ f \in 1 .. Len(sent)
        BY <4>4, <1>8 DEF Sound
      <4>6. r = Len(sent)
        BY <4>3, <2>4, <1>4 DEF Received, Stream, R, r
      <4> QED
        BY <3>4, <4>5, <4>6, <1>8
    <3>6. CASE side # "up"
      <4>1. DownState(buffer, line, pc, side, sent)
        BY <3>6, <1>4 DEF ParserState
      <4>2. R[1].p = 1 /\ Len(buffer) < Size(side, sent[buffer[1].f])
        BY <4>1, <2>1, <2>2, <2>4 DEF DownState, R
      <4> QED
        BY <4>2, <2>2, <3>1, <3>3 DEF r
    <3> QED
      BY <3>5, <3>6
  <2> QED
    BY <2>3, <2>4
<1>11. ASSUME NEW f \in S, NEW k \in 1 .. Len(got), got[k].f > f
       PROVE  f <= d
  <2>1. got[k].f \in Int /\ f \in Int /\ got[k].f <= d
    BY <1>7, <1>8
  <2> HIDE DEF d
  <2> QED
    BY <2>1, <1>9, <1>11
<1> HIDE DEF d, S, R, T, side, M
<1> QED
  BY <1>5, <1>6, <1>7, <1>10, <1>11 DEF S

\* Whatever the messages, the bytes and the sizes: while no noise has damaged the
\* boundaries of a frame, and at most one byte has been changed, the receivers of
\* both ends (rc_feed_byte of the MCU, _parse_rx of the bridge) understand the
\* messages in their order, whole up to their room, and miss only those that they
\* may.
THEOREM FramesArriveInOrder == LinkSpec => []FramesInOrder
<1>1. LinkInit => LinkInv
  BY LinkStarts
<1>2. LinkInv /\ [LinkNext]_linkVars => LinkInv'
  BY LinkSteps
<1>3. LinkInv => FramesInOrder
  BY InOrderFollows
<1> QED
  BY <1>1, <1>2, <1>3, PTL DEF LinkSpec

-----------------------------------------------------------------------------
(* Link, behind a damaged frame *)

\* No frame is shorter than z, and the longest that a parser can wait for: the
\* MCU refuses longer ones, the bridge takes any length that two bytes can say.
Least(side, s, z) == \A k \in 1 .. Len(s) : z <= Size(side, s[k])
Longest(side) == 6 + (IF side = "up" THEN RC_FRAME_MAX_PAYLOAD ELSE W * W - 1)

\* A frame that a parser which lost its way in frame b may be in the middle of
Near(side, s, b, f) ==
  \A z \in Nat : Least(side, s, z) => (f - 1 - b) * z + 2 <= Longest(side)

\* What is under way when frame b may have been damaged
Follows(x, y, side, s, b) ==
  \/ y.f = x.f /\ (x.f # b => y.p = x.p + 1)
  \/ y.f = x.f + 1 /\ (x.f # b => x.p = Size(side, s[x.f])) /\ (y.f # b => y.p = 1)

Course(R, side, s, b) ==
  /\ R \in Seq(Tagged(s))
  /\ \A k \in 1 .. Len(R) : R[k].f # b => R[k].p <= Size(side, s[R[k].f]) /\ ~Wrong(R[k], side, s)
  /\ \A k \in 1 .. Len(R) - 1 : Follows(R[k], R[k + 1], side, s, b)
  /\ R # << >> => /\ R[Len(R)].f = Len(s)
                  /\ Len(s) # b => R[Len(R)].p = Size(side, s[Len(s)])

\* Where a parser can be: at the beginning of a frame, in the damaged one or in
\* one that is near
Placed(x, side, s, b) ==
  x.p = 1 \/ x.f = b \/ (b # 0 /\ x.f > b /\ Near(side, s, b, x.f))

\* Frame d, if it is not near, was the last to be understood.
Told(g, side, s, b, d) ==
  \/ b = 0 \/ d <= b \/ Near(side, s, b, d) \/ s[d].cmd = "CMD_RSP"
  \/ g # << >> /\ g[Len(g)] = [m |-> Heard(s[d]), f |-> d]

Listed(g) == g \in Seq({g[k] : k \in 1 .. Len(g)})

OnCourse(R, side, s, b, g) ==
  /\ Course(R, side, s, b) /\ Listed(g)
  /\ R # << >> => Placed(R[1], side, s, b)
  /\ Told(g, side, s, b, Over(R, s))

\* The parser has synchronised and waits for more.
Starts(B) == B[1].b = SYNC1 /\ B[2].b = SYNC2
Declared(B) == B[4].b + W * B[5].b
Awaits(B, side) ==
  \/ Len(B) < 5
  \/ Declared(B) <= Longest(side) - 6 /\ Len(B) < 6 + Declared(B)

UpWaits(B, sync) ==
  /\ sync \in 0 .. 2
  /\ sync = 0 => B = << >>
  /\ sync = 1 => Len(B) = 1 /\ B[1].b = SYNC1
  /\ sync = 2 => Len(B) >= 2 /\ Starts(B) /\ Awaits(B, "up")

DownWaits(B, at) ==
  /\ at \in {"read", "parse"}
  /\ at = "read" => Len(B) < 5 \/ (Starts(B) /\ Awaits(B, "down"))

Waits(B, sync, at, side) ==
  IF side = "up" THEN at = "read" /\ UpWaits(B, sync) ELSE DownWaits(B, at)

\* No message is too long or looks like synchronisation.
IsPlain(side, m) ==
  ~TooLong(side, m) /\ \A j \in 3 .. Size(side, m) - 1 : Packed(side, m)[j] # SYNC1
Plain == \A k \in 1 .. Len(sent) : IsPlain(scenario.side, sent[k])

\* At most one byte was changed or lost, which damaged a frame if it was.
Once ==
  /\ Plain /\ pc # "dead"
  /\ flips + losses = 0 \/ (flips + losses = 1 /\ broken # 0)

AstrayBody ==
  /\ line \in Seq(Tagged(sent)) /\ buffer \in Seq(Tagged(sent)) /\ broken \in 0 .. Len(sent)
  /\ OnCourse(buffer \o line, scenario.side, sent, broken, got)
  /\ Waits(buffer, rx_sync, pc, scenario.side)

AstrayInv ==
  /\ LinkTypes /\ losses \in Nat /\ (flips + losses = 0 => broken = 0)
  /\ Once => AstrayBody

\* What the definition says first of what is under way
CourseTyped(R, side, M, s, b) ==
  /\ R \in Seq(Tagged(s)) /\ Len(R) \in Nat /\ Len(s) \in Nat
  /\ \A k \in 1 .. Len(R) :
       /\ R[k].f \in 1 .. Len(s) /\ R[k].f \in Int /\ R[k].p \in Nat \ {0}
       /\ R[k].b \in Byte
       /\ s[R[k].f] \in M /\ Size(side, s[R[k].f]) \in Nat /\ Size(side, s[R[k].f]) >= 6
       /\ R[k].f # b => R[k].p <= Size(side, s[R[k].f])
       /\ R[k].f # b => R[k].b = Packed(side, s[R[k].f])[R[k].p]

LEMMA CourseRight ==
  ASSUME NEW side, NEW M, NEW s \in Seq(M), \A x \in M : Message(side, x),
         NEW b, NEW R, Course(R, side, s, b)
  PROVE  CourseTyped(R, side, M, s, b)
<1>1. R \in Seq(Tagged(s)) /\ Len(R) \in Nat /\ Len(s) \in Nat
  BY DEF Course
<1>2. ASSUME NEW k \in 1 .. Len(R)
      PROVE  /\ R[k].f \in 1 .. Len(s) /\ R[k].f \in Int /\ R[k].p \in Nat \ {0}
             /\ R[k].b \in Byte
             /\ s[R[k].f] \in M /\ Size(side, s[R[k].f]) \in Nat /\ Size(side, s[R[k].f]) >= 6
             /\ R[k].f # b => R[k].p <= Size(side, s[R[k].f])
             /\ R[k].f # b => R[k].b = Packed(side, s[R[k].f])[R[k].p]
  <2>1. R[k].f \in 1 .. Len(s) /\ R[k].f \in Int /\ R[k].p \in Nat \ {0} /\ R[k].b \in Byte
    BY <1>1, TaggedRight
  <2>2. s[R[k].f] \in M
    BY <2>1
  <2>3. Size(side, s[R[k].f]) \in Nat /\ Size(side, s[R[k].f]) >= 6
    BY <2>2, SizeRight
  <2>4. R[k].f # b => R[k].p <= Size(side, s[R[k].f]) /\ ~Wrong(R[k], side, s)
    BY DEF Course
  <2>5. R[k].f # b => R[k].b = Packed(side, s[R[k].f])[R[k].p]
    BY <2>4 DEF Wrong
  <2> QED
    BY <2>1, <2>2, <2>3, <2>4, <2>5
<1> QED
  BY <1>1, <1>2 DEF CourseTyped

\* From a byte of frame b, or a later one, to one of frame f, every frame between
\* is passed as a whole.
LEMMA Counted ==
  ASSUME NEW side, NEW M, NEW s \in Seq(M), \A x \in M : Message(side, x),
         NEW b \in Nat, NEW R, Course(R, side, s, b),
         NEW z \in Nat, Least(side, s, z),
         NEW i \in 1 .. Len(R), b <= R[i].f, NEW k \in i .. Len(R)
  PROVE  /\ R[i].f <= R[k].f
         /\ R[i].f < R[k].f => (R[k].f - 1 - R[i].f) * z + R[k].p <= k - i
<1> DEFINE a == R[i].f
           n == Len(R)
           Far(j) == (R[i + j].f - 1 - a) * z + R[i + j].p <= j
           T == {j \in 0 .. n - i : a <= R[i + j].f /\ (a < R[i + j].f => Far(j))}
<1>1. n \in Nat /\ Len(s) \in Nat
      /\ \A j \in 1 .. n : /\ R[j].f \in 1 .. Len(s) /\ R[j].f \in Int /\ R[j].p \in Nat \ {0}
                           /\ Size(side, s[R[j].f]) \in Nat
  <2>1. CourseTyped(R, side, M, s, b)
    BY CourseRight
  <2> QED
    BY <2>1 DEF CourseTyped
<1>2. \A j \in 1 .. n : z <= Size(side, s[R[j].f])
  BY <1>1 DEF Least
<1>3. \A j \in 1 .. n - 1 : Follows(R[j], R[j + 1], side, s, b)
  BY DEF Course
<1>4. a \in Int /\ i \in Nat /\ n - i \in Nat /\ i + 0 = i /\ 0 \in 0 .. n - i
  BY <1>1
<1>5. 0 \in T
  BY <1>4
<1>6. ASSUME NEW j \in 1 .. n - i, j - 1 \in T
      PROVE  j \in T
  <2> DEFINE c == i + (j - 1)
             x == R[c]
             y == R[c + 1]
             q == x.f - 1 - a
  <2>1. c \in 1 .. n - 1 /\ c + 1 \in 1 .. n /\ c + 1 = i + j /\ j \in 0 .. n - i /\ c \in 1 .. n
    BY <1>1, <1>4
  <2>2. /\ x.f \in Int /\ x.p \in Nat /\ y.f \in Int /\ y.p \in Nat
        /\ z <= Size(side, s[x.f]) /\ Size(side, s[x.f]) \in Nat
    BY <1>1, <1>2, <2>1
  <2>3. a <= x.f /\ (a < x.f => q * z + x.p <= j - 1)
    BY <1>6
  <2>4. Follows(x, y, side, s, b)
    BY <1>3, <2>1
  <2> HIDE DEF x, y, c, T, a
  <2>5. q \in Int /\ q * z \in Int /\ (q + 1) * z = q * z + z
    <3>1. q \in Int
      <4>1. x.f \in Int /\ a \in Int
        BY <2>2, <1>4
      <4> QED
        BY <4>1
    <3> HIDE DEF q
    <3> QED
      BY <3>1
  <2>6. a <= y.f /\ (a < y.f => (y.f - 1 - a) * z + y.p <= j)
    <3>1. CASE y.f = x.f /\ (x.f # b => y.p = x.p + 1)
      <4>1. a < y.f => x.f # b
        BY <3>1, <1>4, <2>2 DEF a
      <4>2. y.f - 1 - a = q
        BY <3>1
      <4> HIDE DEF q
      <4>3. (y.f - 1 - a) * z = q * z
        BY <4>2
      <4>4. a < y.f => q * z + y.p <= j
        <5> DEFINE u == q * z
        <5>1. u \in Int /\ (a < x.f => u + x.p <= j - 1)
          BY <2>3, <2>5
        <5> HIDE DEF u
        <5>2. a < y.f => y.p = x.p + 1 /\ a < x.f
          BY <3>1, <4>1
        <5>3. j \in Int
          BY <2>1
        <5>4. x.p \in Int
          BY <2>2
        <5>5. a < x.f => u + (x.p + 1) <= j
          BY <5>1, <5>3, <5>4
        <5> QED
          BY <5>2, <5>5 DEF u
      <4>5. a <= y.f
        BY <3>1, <2>3
      <4> QED
        BY <4>3, <4>4, <4>5
    <3>2. CASE /\ y.f = x.f + 1 /\ (x.f # b => x.p = Size(side, s[x.f]))
               /\ (y.f # b => y.p = 1)
      <4>1. y.f # b
        BY <3>2, <1>4, <2>2, <2>3 DEF a
      <4>2. y.f - 1 - a = q + 1
        BY <3>2, <2>2, <1>4
      <4>3. CASE x.f = a
        <5>1. y.f - 1 - a = 0 /\ y.p = 1 /\ a <= y.f
          BY <3>2, <4>1, <4>3, <1>4
        <5>2. (y.f - 1 - a) * z = 0
          BY <5>1
        <5> QED
          BY <5>1, <5>2
      <4>4. CASE a < x.f
        <5>1. x.p = Size(side, s[x.f]) /\ y.p = 1 /\ a <= y.f
          BY <3>2, <4>1, <4>4, <1>4, <2>2 DEF a
        <5> HIDE DEF q
        <5>2. (y.f - 1 - a) * z = q * z + z
          BY <4>2, <2>5
        <5> QED
          BY <5>1, <5>2, <4>4, <2>2, <2>3, <2>5
      <4> QED
        BY <4>3, <4>4, <2>2, <2>3, <1>4
    <3> QED
      BY <3>1, <3>2, <2>4 DEF Follows
  <2> QED
    BY <2>1, <2>6 DEF T, y
<1> HIDE DEF T
<1>7. k - i \in T
  <2>1. \A j \in 0 .. n - i : j \in T
    BY <1>4, <1>5, <1>6, UpTo
  <2> QED
    BY <2>1, <1>1, <1>4
<1>8. i + (k - i) = k
  BY <1>4
<1> QED
  BY <1>7, <1>8 DEF T

\* A frame that was not damaged is there as a whole.
LEMMA WholeCourse ==
  ASSUME NEW side, NEW M, NEW s \in Seq(M), \A x \in M : Message(side, x),
         NEW b, NEW R, Course(R, side, s, b), R # << >>, R[1].p = 1, R[1].f # b,
         NEW f, f = R[1].f, NEW z, z = Size(side, s[f])
  PROVE  /\ f \in 1 .. Len(s) /\ s[f] \in M /\ Message(side, s[f]) /\ z \in 6 .. Len(R)
         /\ \A k \in 1 .. z : /\ k \in 1 .. Len(R) /\ R[k].f = f /\ R[k].p = k
                              /\ R[k].b = Packed(side, s[f])[k]
         /\ z < Len(R) => R[z + 1].f = f + 1 /\ (f + 1 # b => R[z + 1].p = 1)
         /\ z = Len(R) => f = Len(s)
<1> DEFINE n == Len(R)
           T == {j \in 0 .. z - 1 : j + 1 <= n /\ R[j + 1].f = f /\ R[j + 1].p = j + 1}
<1>1. CourseTyped(R, side, M, s, b)
  BY CourseRight
<1>2. n \in Nat /\ n # 0 /\ 1 \in 1 .. n
  BY <1>1 DEF CourseTyped
<1>3. f \in 1 .. Len(s) /\ s[f] \in M /\ z \in Nat /\ z >= 6 /\ f \in Int
  BY <1>1, <1>2 DEF CourseTyped
<1>4. \A k \in 1 .. n - 1 : Follows(R[k], R[k + 1], side, s, b)
  BY DEF Course
<1>5. R[n].f = Len(s) /\ (Len(s) # b => R[n].p = Size(side, s[Len(s)]))
  BY DEF Course
<1>6. 0 \in T
  BY <1>2, <1>3
<1>7. ASSUME NEW j \in 1 .. z - 1, j - 1 \in T
      PROVE  j \in T
  <2>1. j \in Nat /\ j <= n /\ R[j].f = f /\ R[j].p = j /\ j < z /\ j \in 0 .. z - 1
    <3>1. (j - 1) + 1 = j /\ j \in Nat /\ j < z
      BY <1>3
    <3> QED
      BY <3>1, <1>7, <1>3
  <2>2. j # n
    BY <2>1, <1>3, <1>5
  <2>3. j \in 1 .. n - 1 /\ j + 1 \in 1 .. n /\ j + 1 <= n
    BY <2>1, <2>2, <1>2
  <2>4. Follows(R[j], R[j + 1], side, s, b)
    BY <2>3, <1>4
  <2>5. R[j + 1].f = f /\ R[j + 1].p = j + 1
    BY <2>1, <2>4, <1>3 DEF Follows
  <2> QED
    BY <2>1, <2>3, <2>5
<1>8. \A j \in 0 .. z - 1 : j \in T
  <2> HIDE DEF T
  <2>1. z - 1 \in Nat
    BY <1>3
  <2> QED
    BY <2>1, <1>6, <1>7, UpTo
<1>9. \A k \in 1 .. z : k \in 1 .. n /\ R[k].f = f /\ R[k].p = k
  <2> TAKE k \in 1 .. z
  <2>1. k - 1 \in 0 .. z - 1 /\ (k - 1) + 1 = k
    BY <1>3
  <2>2. k - 1 \in T
    BY <2>1, <1>8
  <2> QED
    BY <2>1, <2>2, <1>2, <1>3
<1> HIDE DEF T
<1>10. z \in 1 .. n /\ z \in 1 .. z
  BY <1>3, <1>9
<1>11. \A k \in 1 .. z : R[k].b = Packed(side, s[f])[k]
  <2> TAKE k \in 1 .. z
  <2>1. k \in 1 .. n /\ R[k].f = f /\ R[k].p = k
    BY <1>9
  <2>2. R[k].f # b => R[k].b = Packed(side, s[R[k].f])[R[k].p]
    BY <1>1, <2>1 DEF CourseTyped
  <2> QED
    BY <2>1, <2>2
<1>12. z < n => R[z + 1].f = f + 1 /\ (f + 1 # b => R[z + 1].p = 1)
  <2> SUFFICES ASSUME z < n
               PROVE  R[z + 1].f = f + 1 /\ (f + 1 # b => R[z + 1].p = 1)
    OBVIOUS
  <2>1. z \in 1 .. n - 1 /\ z + 1 \in 1 .. n
    BY <1>2, <1>3
  <2>2. Follows(R[z], R[z + 1], side, s, b) /\ R[z].f = f /\ R[z].p = z
    BY <2>1, <1>4, <1>9, <1>10
  <2>3. R[z + 1].f # b => R[z + 1].p <= Size(side, s[R[z + 1].f])
    BY <2>1, <1>1 DEF CourseTyped
  <2>4. CASE R[z + 1].f = f /\ R[z + 1].p = z + 1
    BY <2>3, <2>4, <1>3
  <2>5. CASE R[z + 1].f = f + 1 /\ (R[z + 1].f # b => R[z + 1].p = 1)
    BY <2>5
  <2> QED
    BY <2>2, <2>4, <2>5 DEF Follows
<1>13. z = n => f = Len(s)
  BY <1>5, <1>9, <1>10
<1> QED
  BY <1>3, <1>9, <1>10, <1>11, <1>12, <1>13

\* What is left after some bytes have been taken
RestAt(R, d, D, s) ==
  /\ D \in Seq(Tagged(s)) /\ Len(D) = Len(R) - d
  /\ \A k \in 1 .. Len(D) : D[k] = R[d + k] /\ d + k \in 1 .. Len(R)
  /\ D = << >> <=> d = Len(R)
  /\ D # << >> => 1 \in 1 .. Len(D) /\ D[1] = R[d + 1] /\ d + 1 \in 1 .. Len(R)

LEMMA CourseRest ==
  ASSUME NEW side, NEW s, NEW b, NEW R, Course(R, side, s, b),
         NEW d \in 0 .. Len(R), NEW D, D = SubSeq(R, d + 1, Len(R))
  PROVE  Course(D, side, s, b) /\ RestAt(R, d, D, s)
<1>1. R \in Seq(Tagged(s)) /\ Len(R) \in Nat /\ d \in Nat
  BY DEF Course
<1>2. /\ D \in Seq(Tagged(s)) /\ Len(D) = Len(R) - d
      /\ \A k \in 1 .. Len(D) : D[k] = R[d + k] /\ d + k \in 1 .. Len(R)
      /\ D = << >> <=> d = Len(R)
  <2> DEFINE T == Tagged(s)
             E == SubSeq(R, d + 1, Len(R))
  <2>1. R \in Seq(T)
    BY <1>1
  <2> HIDE DEF T
  <2>2. /\ E \in Seq(T) /\ Len(E) = Len(R) - d
        /\ \A k \in 1 .. Len(E) : E[k] = R[d + k] /\ d + k \in 1 .. Len(R)
        /\ E = << >> <=> d = Len(R)
    BY <2>1, Dropped
  <2> HIDE DEF E
  <2>3. D = E
    BY DEF E
  <2> QED
    BY <2>2, <2>3 DEF T
<1>3. \A k \in 1 .. Len(D) :
        D[k].f # b => D[k].p <= Size(side, s[D[k].f]) /\ ~Wrong(D[k], side, s)
  BY <1>2 DEF Course
<1>4. \A k \in 1 .. Len(D) - 1 : Follows(D[k], D[k + 1], side, s, b)
  <2> TAKE k \in 1 .. Len(D) - 1
  <2>1. k \in 1 .. Len(D) /\ k + 1 \in 1 .. Len(D) /\ d + k \in 1 .. Len(R) - 1
        /\ d + (k + 1) = (d + k) + 1
    BY <1>1, <1>2
  <2>2. D[k] = R[d + k] /\ D[k + 1] = R[(d + k) + 1]
    BY <2>1, <1>2
  <2>3. Follows(R[d + k], R[(d + k) + 1], side, s, b)
    BY <2>1 DEF Course
  <2> QED
    BY <2>2, <2>3
<1>5. D # << >> => D[Len(D)] = R[Len(R)] /\ R # << >>
  <2> SUFFICES ASSUME D # << >>
               PROVE  D[Len(D)] = R[Len(R)] /\ R # << >>
    OBVIOUS
  <2>1. Len(D) \in 1 .. Len(D) /\ d + Len(D) = Len(R) /\ Len(R) # 0
    BY <1>1, <1>2
  <2>2. D[Len(D)] = R[d + Len(D)]
    BY <2>1, <1>2
  <2> QED
    BY <2>1, <2>2
<1>6. D # << >> => /\ D[Len(D)].f = Len(s)
                   /\ Len(s) # b => D[Len(D)].p = Size(side, s[Len(s)])
  BY <1>5 DEF Course
<1>7. Course(D, side, s, b)
  BY <1>2, <1>3, <1>4, <1>6 DEF Course
<1>8. D # << >> => 1 \in 1 .. Len(D) /\ D[1] = R[d + 1] /\ d + 1 \in 1 .. Len(R)
  <2> SUFFICES ASSUME D # << >>
               PROVE  1 \in 1 .. Len(D) /\ D[1] = R[d + 1] /\ d + 1 \in 1 .. Len(R)
    OBVIOUS
  <2>1. 1 \in 1 .. Len(D)
    BY <1>1, <1>2
  <2> QED
    BY <2>1, <1>2
<1> QED
  BY <1>2, <1>7, <1>8 DEF RestAt

LEMMA NearLess ==
  ASSUME NEW side, NEW s, NEW b \in Int, NEW f \in Int, Near(side, s, b, f), NEW e \in Int, e <= f
  PROVE  Near(side, s, b, e)
<1> SUFFICES ASSUME NEW z \in Nat, Least(side, s, z)
             PROVE  (e - 1 - b) * z + 2 <= Longest(side)
  BY DEF Near
<1> DEFINE q == f - 1 - b
           r == e - 1 - b
           c == f - e
<1>1. q * z + 2 <= Longest(side)
  BY DEF Near
<1>2. q \in Int /\ r \in Int /\ c \in Nat /\ q = r + c
  OBVIOUS
<1> HIDE DEF q, r, c
<1>3. c * z \in Nat /\ q * z = r * z + c * z /\ r * z \in Int
  BY <1>2
<1>4. Longest(side) \in Int
  BY SizesAssumption, BytesAssumption DEF Longest
<1>5. r * z + 2 <= Longest(side)
  <2> DEFINE u == r * z
             v == c * z
             w == q * z
  <2>1. u \in Int /\ v \in Nat /\ w = u + v /\ w + 2 <= Longest(side)
    BY <1>1, <1>3
  <2> HIDE DEF u, v, w
  <2>2. u + 2 <= Longest(side)
    BY <2>1, <1>4
  <2> QED
    BY <2>2 DEF u
<1> QED
  BY <1>5 DEF r

\* Where a parser is after it has taken some bytes
Lands(D, side, s, b) ==
  /\ D # << >> => Placed(D[1], side, s, b)
  /\ Over(D, s) <= b \/ Near(side, s, b, Over(D, s))

LEMMA LongestRight ==
  ASSUME NEW side
  PROVE  Longest(side) \in Nat /\ Longest(side) >= 7
<1>1. RC_FRAME_MAX_PAYLOAD \in Nat /\ RC_FRAME_MAX_PAYLOAD >= 1
  BY SizesAssumption
<1>2. W * W - 1 \in Nat /\ W * W - 1 >= 1
  BY BytesAssumption
<1> QED
  BY <1>1, <1>2 DEF Longest

\* From the damaged frame it does not get beyond the frames that are near.
LEMMA Strays ==
  ASSUME NEW side, NEW M, NEW s \in Seq(M), \A x \in M : Message(side, x),
         NEW b \in 1 .. Len(s), NEW R, Course(R, side, s, b), R # << >>, R[1].f = b,
         NEW n \in 1 .. Len(R), n <= Longest(side), NEW D, D = SubSeq(R, n + 1, Len(R))
  PROVE  Lands(D, side, s, b)
<1>1. CourseTyped(R, side, M, s, b)
  BY CourseRight
<1>2. Len(R) \in Nat /\ 1 \in 1 .. Len(R) /\ n \in 0 .. Len(R) /\ n \in Nat /\ b \in Nat /\ b <= R[1].f
      /\ Len(s) \in Nat /\ Longest(side) \in Nat /\ Longest(side) >= 7
  BY <1>1, LongestRight DEF CourseTyped
<1>3. RestAt(R, n, D, s)
  BY <1>2, CourseRest
<1>4. ASSUME NEW k \in 1 .. Len(R), NEW z \in Nat, Least(side, s, z)
      PROVE  b <= R[k].f /\ (b < R[k].f => (R[k].f - 1 - b) * z + R[k].p <= k - 1)
  BY <1>2, <1>4, Counted
<1>5. CASE D # << >>
  <2> DEFINE x == R[n + 1]
  <2>1. D[1] = x /\ n + 1 \in 1 .. Len(R)
    BY <1>3, <1>5 DEF RestAt
  <2>2. x.f \in Int /\ x.p \in Nat \ {0} /\ Over(D, s) = x.f - 1
    BY <2>1, <1>1, <1>5 DEF Over, CourseTyped
  <2>3. ASSUME NEW z \in Nat, Least(side, s, z)
        PROVE  b <= x.f /\ (b < x.f => (x.f - 1 - b) * z + x.p <= n)
    <3>1. b <= x.f /\ (b < x.f => (x.f - 1 - b) * z + x.p <= (n + 1) - 1)
      BY <2>1, <2>3, <1>4
    <3>2. (n + 1) - 1 = n
      BY <1>2
    <3> QED
      BY <3>1, <3>2
  <2> HIDE DEF x
  <2>4. b <= x.f
    <3>1. Least(side, s, 0)
      <4> SUFFICES ASSUME NEW k \in 1 .. Len(s)
                   PROVE  0 <= Size(side, s[k])
        BY DEF Least
      <4>1. Message(side, s[k])
        <5>1. s[k] \in M
          OBVIOUS
        <5> QED
          BY <5>1
      <4>2. Size(side, s[k]) \in Nat
        BY <4>1, SizeRight
      <4> QED
        BY <4>2
    <3> QED
      BY <3>1, <2>3
  <2>5. ASSUME b < x.f, x.p >= 2
        PROVE  Near(side, s, b, x.f)
    <3> SUFFICES ASSUME NEW z \in Nat, Least(side, s, z)
                 PROVE  (x.f - 1 - b) * z + 2 <= Longest(side)
      BY DEF Near
    <3> DEFINE u == (x.f - 1 - b) * z
    <3>1. u \in Int /\ u + x.p <= n
      BY <2>2, <2>3, <2>5, <1>2
    <3> HIDE DEF u
    <3>2. u + 2 <= Longest(side)
      BY <3>1, <2>2, <2>5, <1>2
    <3> QED
      BY <3>2 DEF u
  <2>6. ASSUME b < x.f - 1
        PROVE  Near(side, s, b, x.f - 1)
    <3> SUFFICES ASSUME NEW z \in Nat, Least(side, s, z)
                 PROVE  (x.f - 1 - 1 - b) * z + 2 <= Longest(side)
      BY DEF Near
    <3> DEFINE q == x.f - 1 - 1 - b
               u == q * z
    <3> DEFINE e == x.f
    <3>0. e \in Int /\ b \in Int /\ b < e - 1
      BY <2>2, <2>6, <1>2
    <3> HIDE DEF e
    <3>1. e - 1 - 1 - b \in Nat /\ (e - 1 - 1 - b) + 1 = e - 1 - b /\ b < e
      BY <3>0
    <3>6. q \in Nat /\ q + 1 = x.f - 1 - b /\ b < x.f
      BY <3>1 DEF e
    <3> HIDE DEF q
    <3>2. (q + 1) * z + x.p <= n
      BY <3>6, <2>3
    <3>3. u \in Nat /\ (q + 1) * z = u + z /\ (z = 0 => u = 0)
      BY <3>6
    <3> HIDE DEF u
    <3>4. u + z + x.p <= n
      BY <3>2, <3>3
    <3>5. u + 2 <= Longest(side)
      BY <3>3, <3>4, <2>2, <1>2
    <3> QED
      BY <3>5 DEF u, q
  <2>7. Placed(x, side, s, b)
    BY <2>2, <2>4, <2>5, <1>2 DEF Placed
  <2>8. x.f - 1 <= b \/ Near(side, s, b, x.f - 1)
    BY <2>2, <2>6, <1>2
  <2> QED
    BY <2>1, <2>2, <2>7, <2>8 DEF Lands
<1>6. CASE D = << >>
  <2> DEFINE l == Len(s)
             k == Len(R)
  <2>1. Over(D, s) = l /\ n = k /\ k \in 1 .. Len(R) /\ R[k].f = l
        /\ (l # b => R[k].p = Size(side, s[l]))
    BY <1>2, <1>3, <1>6 DEF Over, Course, RestAt
  <2>2. R[k].p \in Nat /\ Size(side, s[R[k].f]) >= 6 /\ Size(side, s[R[k].f]) \in Nat
    BY <2>1, <1>1 DEF CourseTyped
  <2>3. ASSUME b < l
        PROVE  Near(side, s, b, l)
    <3> SUFFICES ASSUME NEW z \in Nat, Least(side, s, z)
                 PROVE  (l - 1 - b) * z + 2 <= Longest(side)
      BY DEF Near
    <3> DEFINE u == (l - 1 - b) * z
    <3>1. u \in Int
      BY <1>2
    <3>2. R[k].p >= 6
      BY <2>1, <2>2, <2>3, <1>2
    <3>3. u + R[k].p <= k - 1
      BY <2>1, <2>3, <1>4
    <3> DEFINE e == R[k].p
    <3>5. e \in Int /\ e >= 6 /\ u + e <= k - 1 /\ k \in Int /\ k <= Longest(side)
      BY <3>2, <3>3, <2>1, <2>2, <1>2
    <3> HIDE DEF u, k, e
    <3>4. u + 2 <= Longest(side)
      BY <3>1, <3>5, <1>2
    <3> QED
      BY <3>4 DEF u
  <2> QED
    BY <2>1, <2>3, <1>2, <1>6 DEF Lands
<1> QED
  BY <1>5, <1>6

\* In the middle of a later frame it skips a byte.
LEMMA Skips ==
  ASSUME NEW side, NEW M, NEW s \in Seq(M), \A x \in M : Message(side, x),
         NEW b \in 1 .. Len(s), NEW R, Course(R, side, s, b), R # << >>,
         b < R[1].f, Near(side, s, b, R[1].f),
         NEW n, n = 1, NEW D, D = SubSeq(R, n + 1, Len(R))
  PROVE  Lands(D, side, s, b)
<1> DEFINE f == R[1].f
           x == R[2]
<1>1. CourseTyped(R, side, M, s, b)
  BY CourseRight
<1>2. Len(R) \in Nat /\ 1 \in 1 .. Len(R) /\ n \in 0 .. Len(R) /\ b \in Int /\ f \in Int
  BY <1>1 DEF CourseTyped
<1>3. RestAt(R, n, D, s)
  BY <1>2, CourseRest
<1>4. CASE D # << >>
  <2>1. 1 \in 1 .. Len(R) - 1 /\ n + 1 = 2 /\ 1 + 1 = 2 /\ 2 \in 1 .. Len(R)
    BY <1>2, <1>3, <1>4 DEF RestAt
  <2>2. D[1] = x
    BY <2>1, <1>3, <1>4 DEF RestAt
  <2>3. Follows(R[1], x, side, s, b)
    BY <2>1 DEF Course
  <2>4. x.f \in Int /\ Over(D, s) = x.f - 1
    BY <2>1, <2>2, <1>1, <1>4 DEF Over, CourseTyped
  <2>5. CASE x.f = f
    <3>1. Near(side, s, b, f - 1)
      BY <1>2, NearLess
    <3> QED
      BY <2>2, <2>4, <2>5, <3>1, <1>2 DEF Lands, Placed
  <2>6. CASE x.f = f + 1 /\ (x.f # b => x.p = 1)
    <3>1. x.f - 1 = f /\ x.p = 1
      BY <2>6, <1>2
    <3> QED
      BY <2>2, <2>4, <3>1 DEF Lands, Placed
  <2> QED
    BY <2>3, <2>5, <2>6 DEF Follows
<1>5. CASE D = << >>
  <2>1. Over(D, s) = Len(s) /\ R[1].f = Len(s)
    BY <1>2, <1>3, <1>5 DEF Over, Course, RestAt
  <2> QED
    BY <2>1, <1>5 DEF Lands
<1> QED
  BY <1>4, <1>5

\* The first frame under way, which was not damaged
Regular(side, M, s, b, R, f, m, l, data, D) ==
  /\ f \in 1 .. Len(s) /\ f = R[1].f /\ m = s[f] /\ m \in M /\ Message(side, m)
  /\ l \in Nat /\ Size(side, m) = 6 + l /\ 6 + l \in 6 .. Len(R)
  /\ \A k \in 1 .. 6 + l : k \in 1 .. Len(R) /\ R[k].f = f
  /\ R[1].b = SYNC1 /\ R[2].b = SYNC2 /\ R[4].b + W * R[5].b = l
  /\ R[3].b = Command(side, m) /\ data = Data(side, m)
  /\ calc_chk(R[3].b, data) = R[6 + l].b
  /\ D = SubSeq(R, (6 + l) + 1, Len(R)) /\ Over(D, s) = f
  /\ D # << >> => Placed(D[1], side, s, b)

LEMMA RegularFrame ==
  ASSUME NEW side, NEW M, NEW s \in Seq(M), \A x \in M : Message(side, x),
         NEW b, NEW R, Course(R, side, s, b), R # << >>, R[1].p = 1, R[1].f # b,
         NEW f, NEW m, NEW l, NEW data, NEW D, FrameAt(side, s, R, f, m, l, data, D)
  PROVE  Regular(side, M, s, b, R, f, m, l, data, D)
<1> DEFINE z == Size(side, m)
           F == Packed(side, m)
           cmd == Command(side, m)
           P == Data(side, m)
           n == Len(R)
<1>1. f = R[1].f /\ m = s[f] /\ l = Len(P) /\ data = [k \in 1 .. l |-> R[5 + k].b]
      /\ D = SubSeq(R, z + 1, n)
  BY DEF FrameAt
<1>2. /\ f \in 1 .. Len(s) /\ s[f] \in M /\ Message(side, s[f]) /\ Size(side, s[f]) \in 6 .. n
      /\ \A k \in 1 .. Size(side, s[f]) :
           k \in 1 .. n /\ R[k].f = f /\ R[k].p = k /\ R[k].b = Packed(side, s[f])[k]
      /\ Size(side, s[f]) < n => /\ R[Size(side, s[f]) + 1].f = f + 1
                                 /\ f + 1 # b => R[Size(side, s[f]) + 1].p = 1
      /\ Size(side, s[f]) = n => f = Len(s)
  BY <1>1, WholeCourse
<1>3. Message(side, m) /\ m \in M /\ z \in 6 .. n
      /\ \A k \in 1 .. z : k \in 1 .. n /\ R[k].f = f /\ R[k].b = F[k]
  BY <1>1, <1>2
<1>4. Framed(F, cmd, P) /\ P \in Seq(Byte)
  BY <1>3, MessageRight
<1>5. z = 6 + l /\ l \in Nat
  BY <1>1, <1>3, SizeRight
<1>6. /\ F[1] = SYNC1 /\ F[2] = SYNC2 /\ F[3] = cmd /\ F[4] + W * F[5] = l
      /\ \A k \in 1 .. l : F[5 + k] = P[k]
      /\ F[6 + l] = calc_chk(cmd, P)
  BY <1>1, <1>4 DEF Framed
<1>7. /\ 1 \in 1 .. z /\ 2 \in 1 .. z /\ 3 \in 1 .. z /\ 4 \in 1 .. z /\ 5 \in 1 .. z
      /\ 6 + l \in 1 .. z /\ \A k \in 1 .. l : 5 + k \in 1 .. z
  BY <1>5
<1>8. P = [k \in 1 .. l |-> P[k]]
  <2> HIDE DEF P
  <2> QED
    BY <1>1, <1>4
<1> HIDE DEF z, F, cmd, P, n
<1>9. /\ R[1].b = SYNC1 /\ R[2].b = SYNC2 /\ R[4].b + W * R[5].b = l /\ R[3].b = cmd
      /\ R[6 + l].b = calc_chk(cmd, P)
  BY <1>3, <1>6, <1>7
<1>10. data = P
  <2>1. \A k \in 1 .. l : R[5 + k].b = P[k]
    BY <1>3, <1>6, <1>7
  <2> QED
    BY <2>1, <1>1, <1>8
<1>11. n \in Nat /\ z \in 0 .. n /\ Course(R, side, s, b)
  <2>1. n \in Nat
    BY DEF Course, n
  <2> QED
    BY <2>1, <1>3
<1>12. RestAt(R, z, D, s)
  BY <1>1, <1>11, CourseRest DEF n
<1>13. ASSUME D # << >>
       PROVE  Over(D, s) = f /\ Placed(D[1], side, s, b)
  <2>1. D[1] = R[z + 1] /\ z < n
    BY <1>3, <1>11, <1>12, <1>13 DEF RestAt, n
  <2>2. D[1].f = f + 1 /\ (f + 1 # b => D[1].p = 1)
    BY <2>1, <1>1, <1>2 DEF n, z
  <2>3. Over(D, s) = f
    BY <2>2, <1>2, <1>13 DEF Over
  <2>4. Placed(D[1], side, s, b)
    BY <2>2 DEF Placed
  <2> QED
    BY <2>3, <2>4
<1>14. ASSUME D = << >>
       PROVE  Over(D, s) = f
  <2>1. z = n
    BY <1>12, <1>14 DEF RestAt, n
  <2> QED
    BY <2>1, <1>1, <1>2, <1>14 DEF Over, n, z
<1>15. Over(D, s) = f /\ (D # << >> => Placed(D[1], side, s, b))
  BY <1>13, <1>14
<1> QED
  BY <1>1, <1>2, <1>3, <1>5, <1>9, <1>10, <1>15 DEF Regular, z, cmd, P, n

\* In the middle of a frame nothing looks like synchronisation.
LEMMA NoStart ==
  ASSUME NEW side, NEW M, NEW s \in Seq(M), \A x \in M : Message(side, x),
         \A k \in 1 .. Len(s) : IsPlain(side, s[k]),
         NEW b \in Nat, NEW R, Course(R, side, s, b), 2 <= Len(R), b < R[1].f, R[1].p # 1
  PROVE  R[1].b # SYNC1 \/ R[2].b # SYNC2
<1> DEFINE x == R[1]
           y == R[2]
           f == x.f
           p == x.p
           z == Size(side, s[f])
           F == Packed(side, s[f])
<1>1. CourseTyped(R, side, M, s, b)
  BY CourseRight
<1>2. 1 \in 1 .. Len(R) /\ 2 \in 1 .. Len(R) /\ 1 \in 1 .. Len(R) - 1 /\ 1 + 1 = 2
  BY <1>1 DEF CourseTyped
<1>3. /\ f \in 1 .. Len(s) /\ f \in Int /\ p \in Nat \ {0} /\ s[f] \in M /\ z \in Nat /\ z >= 6
      /\ f # b /\ p <= z /\ x.b = F[p]
  BY <1>1, <1>2 DEF CourseTyped
<1>4. /\ y.f \in 1 .. Len(s) /\ s[y.f] \in M /\ y.f \in Int
      /\ y.f # b => y.b = Packed(side, s[y.f])[y.p]
  BY <1>1, <1>2 DEF CourseTyped
<1>5. Follows(x, y, side, s, b)
  BY <1>2 DEF Course
<1>6. \A m \in M : Packed(side, m)[1] = SYNC1 /\ Packed(side, m)[2] = SYNC2
  <2> TAKE m \in M
  <2>1. Framed(Packed(side, m), Command(side, m), Data(side, m))
    BY MessageRight
  <2> QED
    BY <2>1 DEF Framed
<1>7. CASE p = 2
  BY <1>3, <1>6, <1>7, SyncAssumption
<1>8. CASE p \in 3 .. z - 1
  BY <1>3, <1>8 DEF IsPlain
<1>9. CASE p = z
  <2>1. y.f = x.f + 1 /\ (y.f # b => y.p = 1)
    <3>1. 2 \in 1 .. Len(R) /\ (y.f = x.f => y.p <= z)
      BY <1>1, <1>2, <1>3 DEF CourseTyped
    <3>2. CASE y.f = x.f /\ (x.f # b => y.p = x.p + 1)
      BY <3>1, <3>2, <1>3, <1>9
    <3> QED
      BY <3>2, <1>5 DEF Follows
  <2>2. y.f # b /\ y.p = 1
    BY <2>1, <1>3
  <2>3. y.b = SYNC1
    BY <2>2, <1>4, <1>6
  <2> QED
    BY <2>3, SyncAssumption
<1>10. p = 2 \/ p \in 3 .. z - 1 \/ p = z
  <2>1. p \in Nat \ {0} /\ z \in Nat /\ z >= 6 /\ p <= z /\ p # 1
    BY <1>3
  <2> HIDE DEF p, z
  <2> QED
    BY <2>1
<1> QED
  BY <1>7, <1>8, <1>9, <1>10

\* From where it is astray a parser lands near.
LEMMA Strayed ==
  ASSUME NEW side, NEW M, NEW s \in Seq(M), \A x \in M : Message(side, x),
         NEW b \in 0 .. Len(s), NEW R, NEW g, OnCourse(R, side, s, b, g), R # << >>,
         ~(R[1].p = 1 /\ R[1].f # b),
         NEW n \in 1 .. Len(R), n <= Longest(side), R[1].f # b => n = 1,
         NEW h, Listed(h), NEW D, D = SubSeq(R, n + 1, Len(R))
  PROVE  OnCourse(D, side, s, b, h)
<1>1. Course(R, side, s, b) /\ Placed(R[1], side, s, b)
  BY DEF OnCourse
<1>2. CourseTyped(R, side, M, s, b)
  BY <1>1, CourseRight
<1>3. Len(R) \in Nat /\ Len(R) # 0 /\ 1 \in 1 .. Len(R) /\ n \in 0 .. Len(R) /\ Len(s) \in Nat
  BY <1>2 DEF CourseTyped
<1>4. R[1].f \in 1 .. Len(s) /\ R[1].f \in Int
  BY <1>2, <1>3 DEF CourseTyped
<1>5. Course(D, side, s, b)
  BY <1>1, <1>3, CourseRest
<1>6. b \in 1 .. Len(s) /\ Lands(D, side, s, b)
  <2>1. CASE R[1].f = b
    <3>1. b \in 1 .. Len(s)
      BY <2>1, <1>4
    <3> QED
      BY <3>1, <2>1, <1>1, Strays
  <2>2. CASE R[1].f # b
    <3>1. b # 0 /\ b < R[1].f /\ Near(side, s, b, R[1].f)
      BY <2>2, <1>1, <1>4 DEF Placed
    <3>2. b \in 1 .. Len(s) /\ n = 1
      BY <3>1, <2>2, <1>3
    <3> QED
      BY <3>1, <3>2, <1>1, Skips
  <2> QED
    BY <2>1, <2>2
<1> QED
  BY <1>5, <1>6 DEF OnCourse, Lands, Told

\* The history of what was understood, whatever it was
LEMMA ListedRight ==
  ASSUME NEW T, NEW g \in Seq(T)
  PROVE  Listed(g)
<1> DEFINE n == Len(g)
           S == {g[k] : k \in 1 .. n}
<1>1. n \in Nat /\ g = [k \in 1 .. n |-> g[k]]
  OBVIOUS
<1>2. \A k \in 1 .. n : g[k] \in S
  OBVIOUS
<1> HIDE DEF n, S
<1>3. g \in [1 .. n -> S]
  BY <1>1, <1>2
<1>4. g \in Seq(S)
  BY <1>1, <1>3
<1> QED
  BY <1>4 DEF Listed, S, n

LEMMA ListedMore ==
  ASSUME NEW g, Listed(g), NEW q, NEW f, q = << >> \/ \E x : q = <<x>>
  PROVE  /\ Listed(g \o Understood(q, f))
         /\ q = << >> => g \o Understood(q, f) = g
         /\ \A x : q = <<x>> =>
              /\ g \o Understood(q, f) # << >>
              /\ (g \o Understood(q, f))[Len(g \o Understood(q, f))] = [m |-> x, f |-> f]
<1> DEFINE S == {g[k] : k \in 1 .. Len(g)}
           h == g \o Understood(q, f)
<1>1. g \in Seq(S)
  BY DEF Listed
<1> HIDE DEF S
<1>2. ASSUME q = << >>
      PROVE  Listed(h) /\ h = g /\ \A x : q # <<x>>
  <2>1. h = g
    BY <1>1, <1>2, NothingUnderstood
  <2>2. \A x : q # <<x>>
    BY <1>2
  <2> QED
    BY <2>1, <2>2
<1>3. ASSUME NEW x, q = <<x>>
      PROVE  Listed(h) /\ h # << >> /\ h[Len(h)] = [m |-> x, f |-> f]
  <2> DEFINE r == [m |-> x, f |-> f]
             T == S \cup {r}
  <2>1. g \in Seq(T) /\ r \in T
    BY <1>1
  <2>2. h = Append(g, r)
    <3> HIDE DEF T
    <3>1. g \o Understood(<<x>>, f) = Append(g, [m |-> x, f |-> f])
      BY <2>1, OneUnderstood
    <3> QED
      BY <3>1, <1>3
  <2> HIDE DEF T, r, h
  <2>3. Append(g, r) \in Seq(T) /\ Append(g, r) # << >>
    BY <2>1, AppendProperties
  <2>4. Len(Append(g, r)) = Len(g) + 1
    BY <2>1, AppendProperties
  <2>5. Append(g, r)[Len(g) + 1] = r
    BY <2>1
  <2>6. Listed(h)
    BY <2>2, <2>3, ListedRight
  <2> QED
    BY <2>2, <2>3, <2>4, <2>5, <2>6 DEF r
<1>4. Listed(h)
  BY <1>2, <1>3
<1> HIDE DEF h
<1>5. (q = << >> => h = g) /\ \A x : q = <<x>> => h # << >> /\ h[Len(h)] = [m |-> x, f |-> f]
  BY <1>2, <1>3
<1> QED
  BY <1>4, <1>5 DEF h

\* The receivers make at most one message of a frame.
LEMMA Answers ==
  ASSUME NEW cmd, NEW payload
  PROVE  /\ dispatch_frame(cmd, payload) = << >> \/ \E x : dispatch_frame(cmd, payload) = <<x>>
         /\ handle_downlink(cmd, payload) = << >> \/ \E x : handle_downlink(cmd, payload) = <<x>>
<1>1. dispatch_frame(cmd, payload) = << >> \/ \E x : dispatch_frame(cmd, payload) = <<x>>
  <2>1. handle_odom(payload) = << >> \/ \E x : handle_odom(payload) = <<x>>
    BY Zenon DEF handle_odom
  <2>2. handle_path(payload) = << >> \/ \E x : handle_path(payload) = <<x>>
    BY Zenon DEF handle_path
  <2>3. handle_kfs(payload) = << >> \/ \E x : handle_kfs(payload) = <<x>>
    BY Zenon DEF handle_kfs
  <2>4. handle_zone_i_path(payload) = << >> \/ \E x : handle_zone_i_path(payload) = <<x>>
    BY Zenon DEF handle_zone_i_path
  <2>5. dispatch_frame(cmd, payload) \in
          {handle_odom(payload), handle_path(payload), handle_kfs(payload),
           handle_zone_i_path(payload), << >>}
    BY DEF dispatch_frame
  <2> QED
    BY <2>1, <2>2, <2>3, <2>4, <2>5
<1>2. handle_downlink(cmd, payload) = << >> \/ \E x : handle_downlink(cmd, payload) = <<x>>
  <2> DEFINE v == handle_downlink(cmd, payload)
             c == DownlinkCMD
  <2>1. \/ v = << >>
        \/ v = <<[cmd |-> "ACK", lead |-> SubSeq(payload, 1, 2), items |-> << >>]>>
        \/ v = <<[cmd |-> "REQ", lead |-> SubSeq(payload, 1, 1), items |-> << >>]>>
        \/ v = <<[cmd |-> "STATUS", lead |-> SubSeq(payload, 1, 1), items |-> << >>]>>
        \/ v = <<[cmd |-> "ZONE_I_INFO", lead |-> << >>,
                  items |-> Items(payload, 1, 2, payload[1])]>>
        \/ v = <<[cmd |-> "DOCK_OK", lead |-> << >>, items |-> << >>]>>
        \/ v = <<[cmd |-> "GO_ZONE_I", lead |-> << >>, items |-> << >>]>>
        \/ v = <<[cmd |-> "DEBUG_HEADING_HOLD", lead |-> unpack_debug(payload), items |-> << >>]>>
        \/ v = <<[cmd |-> "DEBUG_NAV_GOTO", lead |-> unpack_debug(payload), items |-> << >>]>>
    BY DEF handle_downlink
  <2> QED
    BY <2>1, Zenon
<1> QED
  BY <1>1, <1>2

\* A frame that was not damaged begins with the two synchronisation bytes.
LEMMA BeginsFrame ==
  ASSUME NEW side, NEW M, NEW s \in Seq(M), \A x \in M : Message(side, x),
         NEW b, NEW R, Course(R, side, s, b), R # << >>, R[1].p = 1, R[1].f # b
  PROVE  Starts(R) /\ Len(R) \in Nat /\ Len(R) >= 6
<1> DEFINE f == R[1].f
           z == Size(side, s[f])
           F == Packed(side, s[f])
<1>1. Message(side, s[f]) /\ z \in 6 .. Len(R) /\ \A k \in 1 .. z : R[k].b = F[k]
  BY WholeCourse
<1>2. F[1] = SYNC1 /\ F[2] = SYNC2
  <2>1. Framed(F, Command(side, s[f]), Data(side, s[f]))
    BY <1>1, MessageRight
  <2> HIDE DEF F
  <2> QED
    BY <2>1 DEF Framed
<1> HIDE DEF f, z, F
<1>3. Len(R) \in Nat
  BY DEF Course
<1>4. 1 \in 1 .. z /\ 2 \in 1 .. z
  BY <1>1
<1> QED
  BY <1>1, <1>2, <1>3, <1>4 DEF Starts

\* A byte that nothing begins with is passed over.
LEMMA PassOne ==
  ASSUME NEW side, NEW M, NEW s \in Seq(M), \A x \in M : Message(side, x),
         NEW b \in 0 .. Len(s), NEW R, NEW g, OnCourse(R, side, s, b, g), R # << >>,
         ~Starts(R), NEW D, D = SubSeq(R, 2, Len(R))
  PROVE  OnCourse(D, side, s, b, g)
<1> DEFINE n == 1
<1>1. Course(R, side, s, b) /\ Listed(g)
  BY DEF OnCourse
<1>2. ~(R[1].p = 1 /\ R[1].f # b)
  BY <1>1, BeginsFrame
<1>3. n \in 1 .. Len(R) /\ n <= Longest(side) /\ (R[1].f # b => n = 1)
  <2>1. Len(R) \in Nat /\ Len(R) # 0
    BY <1>1 DEF Course
  <2> QED
    BY <2>1, LongestRight
<1>4. D = SubSeq(R, n + 1, Len(R))
  OBVIOUS
<1> HIDE DEF n
<1> QED
  BY <1>1, <1>2, <1>3, <1>4, Strayed

\* What a parser takes for a frame and consumes: the frame that begins there, or
\* anything in the damaged one
LEMMA TakesFrame ==
  ASSUME NEW side, NEW M, NEW s \in Seq(M), \A x \in M : Message(side, x),
         \A k \in 1 .. Len(s) : IsPlain(side, s[k]),
         NEW b \in 0 .. Len(s), NEW R, NEW g, OnCourse(R, side, s, b, g), R # << >>,
         Starts(R), 2 <= Len(R),
         NEW n \in 1 .. Len(R), n <= Longest(side), NEW D, D = SubSeq(R, n + 1, Len(R)),
         NEW h, Listed(h),
         R[1].p = 1 /\ R[1].f # b =>
           n = Size(side, s[R[1].f]) /\ Told(h, side, s, b, R[1].f)
  PROVE  OnCourse(D, side, s, b, h)
<1>1. Course(R, side, s, b) /\ Placed(R[1], side, s, b)
  BY DEF OnCourse
<1>2. CASE ~(R[1].p = 1 /\ R[1].f # b)
  <2>1. R[1].f = b
    <3>1. b < R[1].f /\ R[1].p # 1 => R[1].b # SYNC1 \/ R[2].b # SYNC2
      <4>1. b \in Nat
        OBVIOUS
      <4> QED
        BY <4>1, <1>1, NoStart
    <3> QED
      BY <3>1, <1>1, <1>2 DEF Placed, Starts
  <2> QED
    BY <2>1, <1>2, Strayed
<1>3. CASE R[1].p = 1 /\ R[1].f # b
  <2> DEFINE f == R[1].f
             m == s[f]
             l == Len(Data(side, m))
             data == [k \in 1 .. l |-> R[5 + k].b]
             E == SubSeq(R, Size(side, m) + 1, Len(R))
  <2>1. FrameAt(side, s, R, f, m, l, data, E)
    BY DEF FrameAt
  <2>2. E = D
    BY <1>3
  <2>3. f = R[1].f
    OBVIOUS
  <2> HIDE DEF f, m, l, data, E
  <2>4. Regular(side, M, s, b, R, f, m, l, data, E)
    BY <2>1, <1>1, <1>3, RegularFrame
  <2>5. Over(D, s) = f /\ (D # << >> => Placed(D[1], side, s, b))
    BY <2>2, <2>4 DEF Regular
  <2>6. Course(D, side, s, b)
    <3>1. n \in 0 .. Len(R)
      OBVIOUS
    <3> QED
      BY <3>1, <1>1, CourseRest
  <2> QED
    BY <2>3, <2>5, <2>6, <1>3 DEF OnCourse
<1> QED
  BY <1>2, <1>3

\* The length that a frame declares
LEMMA DeclaredRight ==
  ASSUME NEW s, NEW B \in Seq(Tagged(s)), Len(B) >= 5
  PROVE  Declared(B) \in Nat /\ Declared(B) <= W * W - 1
<1>1. 4 \in 1 .. Len(B) /\ 5 \in 1 .. Len(B)
  <2>1. Len(B) \in Nat
    OBVIOUS
  <2> QED
    BY <2>1
<1>2. B[4].b \in Byte /\ B[5].b \in Byte
  BY <1>1, TaggedRight
<1> DEFINE x == B[4].b
           y == B[5].b
           u == W - 1 - y
<1>3. W \in Nat /\ x \in 0 .. W - 1 /\ y \in 0 .. W - 1
  BY <1>2, BytesAssumption DEF Byte
<1> HIDE DEF x, y
<1>4. u \in Nat /\ y = (W - 1) - u
  BY <1>3
<1> HIDE DEF u
<1>5. W * u \in Nat /\ W * y \in Nat /\ W * W \in Nat /\ W * y = (W * W - W) - W * u
  <2>1. \A i, j \in Nat : i * j \in Nat
    OBVIOUS
  <2>2. W * y = (W * W - W) - W * u
    BY <1>3, <1>4
  <2> QED
    BY <2>1, <2>2, <1>3, <1>4
<1>6. x + W * y \in Nat /\ x + W * y <= W * W - 1
  BY <1>3, <1>5
<1> QED
  BY <1>6 DEF Declared, x, y

LEMMA AstrayFeedSync ==
  ASSUME LinkTypes, AstrayBody, FeedSync
  PROVE  AstrayBody'
<1> DEFINE side == scenario.side
           M == scenario.messages
           T == Tagged(sent)
           R == buffer \o line
           c == line[1]
           rest == Tail(line)
           Ok(Q) == OnCourse(Q, side, sent, broken, got)
<1>1. scenario \in Scenarios /\ sent \in Seq(M)
  BY DEF LinkTypes
<1>2. (\A x \in M : Message(side, x)) /\ side = "up"
  BY <1>1, ScenarioRight DEF FeedSync
<1>3. line \in Seq(T) /\ buffer \in Seq(T) /\ Ok(R) /\ broken \in 0 .. Len(sent)
  BY DEF AstrayBody
<1>4. pc = "read" /\ UpWaits(buffer, rx_sync)
  BY <1>2 DEF AstrayBody, Waits
<1>5. line # << >> /\ rx_sync \in {0, 1} /\ line' = rest
  BY <1>4 DEF FeedSync, UpWaits
<1>6. /\ c.b = SYNC1 => rx_sync' = 1 /\ buffer' = <<c>>
      /\ c.b = SYNC2 /\ rx_sync = 1 => rx_sync' = 2 /\ buffer' = Append(buffer, c)
      /\ c.b # SYNC1 /\ ~(c.b = SYNC2 /\ rx_sync = 1) => rx_sync' = 0 /\ buffer' = << >>
  BY SyncAssumption DEF FeedSync
<1>7. c \in T /\ rest \in Seq(T) /\ line = <<c>> \o rest /\ <<c>> \in Seq(T)
      /\ rest = SubSeq(line, 2, Len(line))
  BY <1>3, <1>5, FirstAndRest
<1>8. ASSUME Ok(buffer' \o line'), buffer' \in Seq(T), UpWaits(buffer', rx_sync')
      PROVE  AstrayBody'
  <2>1. UNCHANGED <<scenario, pc, sent, got, broken>>
    BY DEF FeedSync
  <2>2. Waits(buffer', rx_sync', pc', scenario'.side)
    BY <2>1, <1>2, <1>4, <1>8 DEF Waits
  <2> QED
    BY <2>1, <2>2, <1>3, <1>5, <1>7, <1>8 DEF AstrayBody
<1>9. <<c>> \o line' = line /\ << >> \o line' = rest /\ << >> \in Seq(T) /\ << >> \o line = line
  BY <1>3, <1>5, <1>7, Empty
<1>10. Len(<<c>>) = 1 /\ <<c>>[1] = c
  OBVIOUS
<1> HIDE DEF R, T, rest, c, side, M
<1>11. ASSUME Ok(line), c.b = SYNC1 \/ ~(c.b = SYNC2 /\ rx_sync = 1)
       PROVE  AstrayBody'
  <2>1. CASE c.b = SYNC1
    <3>1. rx_sync' = 1 /\ buffer' = <<c>>
      BY <1>6, <2>1
    <3>2. UpWaits(buffer', rx_sync')
      BY <3>1, <2>1, <1>10 DEF UpWaits
    <3> QED
      BY <3>1, <3>2, <1>7, <1>8, <1>9, <1>11
  <2>2. CASE c.b # SYNC1
    <3>1. rx_sync' = 0 /\ buffer' = << >>
      BY <2>2, <1>6, <1>11
    <3>2. Ok(rest)
      <4>1. ~Starts(line)
        BY <2>2 DEF Starts, c
      <4> QED
        BY <4>1, <1>1, <1>2, <1>3, <1>5, <1>7, <1>11, PassOne
    <3>3. UpWaits(buffer', rx_sync')
      BY <3>1 DEF UpWaits
    <3> QED
      BY <3>1, <3>2, <3>3, <1>8, <1>9
  <2> QED
    BY <2>1, <2>2
<1>12. CASE rx_sync = 0
  <2>1. buffer = << >>
    BY <1>4, <1>12 DEF UpWaits
  <2>2. Ok(line)
    BY <2>1, <1>3, <1>9 DEF R
  <2> QED
    BY <2>2, <1>11, <1>12
<1>13. CASE rx_sync = 1
  <2> DEFINE x == buffer[1]
  <2>1. Len(buffer) = 1 /\ x.b = SYNC1
    BY <1>4, <1>13 DEF UpWaits
  <2>2. buffer = <<x>> /\ x \in T /\ Append(buffer, c) = <<x, c>>
    BY <2>1, <1>3, <1>7, Single
  <2> HIDE DEF x
  <2>3. R = <<x>> \o line /\ R # << >> /\ R[1] = x /\ R[2] = c /\ R \in Seq(T)
    BY <2>2, <1>3, <1>5 DEF R, c
  <2>4. CASE c.b = SYNC2
    <3>1. rx_sync' = 2 /\ buffer' = <<x, c>>
      BY <2>2, <2>4, <1>6, <1>13
    <3>2. <<x, c>> \in Seq(T) /\ <<x, c>> \o rest = <<x>> \o (<<c>> \o rest)
          /\ Len(<<x, c>>) = 2 /\ <<x, c>>[1] = x /\ <<x, c>>[2] = c
      BY <2>2, <1>7
    <3>3. buffer' \in Seq(T) /\ buffer' \o line' = R
      BY <3>1, <3>2, <2>3, <1>5, <1>7
    <3>4. UpWaits(buffer', rx_sync')
      BY <3>1, <3>2, <2>1, <2>4 DEF UpWaits, Starts, Awaits, x
    <3> QED
      BY <3>3, <3>4, <1>3, <1>8
  <2>5. CASE c.b # SYNC2
    <3>1. ~Starts(R)
      BY <2>3, <2>5 DEF Starts
    <3>2. line = SubSeq(R, 2, Len(R))
      <4> DEFINE X == <<x>>
                 D == SubSeq(X, 2, Len(X))
      <4>1. X \in Seq(T) /\ Len(X) = 1 /\ 1 \in 0 .. Len(X) /\ D = << >>
        BY <2>2
      <4> DEFINE d == 1
      <4> HIDE DEF X
      <4>2. d \in 0 .. Len(X) /\ SubSeq(X, d + 1, Len(X)) = << >>
        BY <4>1
      <4> HIDE DEF d
      <4>3. << >> \o line = SubSeq(X \o line, d + 1, Len(X \o line))
        BY <4>1, <4>2, <1>3, DroppedBoth
      <4> QED
        BY <4>3, <2>3, <1>9 DEF X, d
    <3>3. Ok(line)
      BY <3>1, <3>2, <2>3, <1>1, <1>2, <1>3, PassOne
    <3> QED
      BY <3>3, <2>5, <1>11
  <2> QED
    BY <2>4, <2>5
<1> QED
  BY <1>5, <1>12, <1>13

LEMMA AstrayFeedFrame ==
  ASSUME LinkTypes, Plain, AstrayBody, FeedFrame
  PROVE  AstrayBody'
<1> DEFINE side == scenario.side
           M == scenario.messages
           T == Tagged(sent)
           R == buffer \o line
           c == line[1]
           rest == Tail(line)
           B == Append(buffer, c)
           n == Len(buffer)
           read(k) == [j \in 1 .. k |-> B[5 + j].b]
           len == B[4].b + W * B[5].b
           Ok(Q) == OnCourse(Q, side, sent, broken, got')
<1>1. scenario \in Scenarios /\ sent \in Seq(M)
  BY DEF LinkTypes
<1>2. (\A x \in M : Message(side, x)) /\ side = "up"
  BY <1>1, ScenarioRight DEF FeedFrame
<1>3. /\ line \in Seq(T) /\ buffer \in Seq(T) /\ OnCourse(R, side, sent, broken, got)
      /\ broken \in 0 .. Len(sent)
  BY DEF AstrayBody
<1>4. pc = "read" /\ UpWaits(buffer, rx_sync)
  BY <1>2 DEF AstrayBody, Waits
<1>5. /\ line # << >> /\ rx_sync = 2 /\ line' = rest
      /\ rx_sync' = IF FrameState(B) = "more" THEN 2 ELSE 0
      /\ buffer' = IF FrameState(B) = "more" THEN B ELSE << >>
      /\ got' = IF FrameState(B) = "whole" /\ calc_chk(B[3].b, read(len)) = c.b
                  THEN got \o Understood(dispatch_frame(B[3].b, read(len)), c.f)
                  ELSE got
  BY DEF FeedFrame
<1>6. c \in T /\ rest \in Seq(T)
  BY <1>3, <1>5, FirstAndRest
<1>7. n >= 2 /\ n \in Nat /\ Starts(buffer) /\ Awaits(buffer, "up")
  BY <1>3, <1>4, <1>5 DEF UpWaits
<1>8. ASSUME Ok(buffer' \o line'), buffer' \in Seq(T), UpWaits(buffer', rx_sync')
      PROVE  AstrayBody'
  <2>1. UNCHANGED <<scenario, pc, sent, broken>>
    BY DEF FeedFrame
  <2>2. Waits(buffer', rx_sync', pc', scenario'.side)
    BY <2>1, <1>2, <1>4, <1>8 DEF Waits
  <2> QED
    BY <2>1, <2>2, <1>3, <1>5, <1>6, <1>8 DEF AstrayBody
<1>9. /\ B \in Seq(T) /\ Len(B) = n + 1 /\ B \o rest = R /\ R \in Seq(T) /\ R # << >>
      /\ \A k \in 1 .. n + 1 : B[k] = R[k]
      /\ rest = SubSeq(R, n + 2, Len(R)) /\ Len(R) >= n + 1 /\ Len(R) \in Nat
      /\ R[n + 1] = c
  <2>1. Moved(buffer, line, n, R, B, rest)
    BY DEF Moved
  <2>2. line \in Seq(T) /\ buffer \in Seq(T) /\ line # << >>
    BY <1>3, <1>5
  <2> HIDE DEF T, R, B, n, rest
  <2>3. B \in Seq(T) /\ Len(B) = n + 1 /\ R \in Seq(T) /\ R # << >>
    BY <2>1, <2>2, Taken
  <2>4. B \o rest = R
    BY <2>1, <2>2, Taken
  <2>5. \A k \in 1 .. n + 1 : B[k] = R[k]
    BY <2>1, <2>2, Taken
  <2>6. rest = SubSeq(R, n + 2, Len(R)) /\ Len(R) >= n + 1 /\ Len(R) \in Nat
    BY <2>1, <2>2, Taken
  <2>7. R[n + 1] = c
    BY <2>1, <2>2, Taken
  <2> QED
    BY <2>3, <2>4, <2>5, <2>6, <2>7
<1>10. \A k \in 1 .. n : B[k] = buffer[k]
  <2> HIDE DEF c, T
  <2> QED
    BY <1>3, <1>6
<1> HIDE DEF R, T, rest, c, side, M, B
<1>11. Starts(R) /\ Starts(B)
  <2>1. 1 \in 1 .. n /\ 2 \in 1 .. n /\ 1 \in 1 .. n + 1 /\ 2 \in 1 .. n + 1
    BY <1>7
  <2> QED
    BY <2>1, <1>7, <1>9, <1>10 DEF Starts
<1>12. FrameState(B) = IF n + 1 < 5 THEN "more"
                       ELSE IF len > RC_FRAME_MAX_PAYLOAD THEN "refused"
                       ELSE IF n + 1 < 6 + len THEN "more" ELSE "whole"
  BY <1>9 DEF FrameState
<1>13. Longest(side) = 6 + RC_FRAME_MAX_PAYLOAD /\ Longest("up") = 6 + RC_FRAME_MAX_PAYLOAD
       /\ RC_FRAME_MAX_PAYLOAD \in Nat \ {0}
  BY <1>2, SizesAssumption DEF Longest
<1>14. n >= 5 => len = Declared(buffer)
  <2>1. n >= 5 => 4 \in 1 .. n /\ 5 \in 1 .. n
    BY <1>7
  <2> QED
    BY <2>1, <1>10 DEF Declared
<1>15. n + 1 >= 5 => len \in Nat
  <2>1. Declared(B) = len
    BY DEF Declared
  <2> HIDE DEF len
  <2> QED
    BY <2>1, <1>9, DeclaredRight DEF T
<1>16. len = Declared(B)
  BY DEF Declared
<1> HIDE DEF len, n
\* The frame is not over.
<1>17. CASE FrameState(B) = "more"
  <2>1. rx_sync' = 2 /\ buffer' = B /\ got' = got
    BY <1>5, <1>17
  <2>2. Awaits(B, "up")
    BY <1>7, <1>9, <1>12, <1>13, <1>15, <1>16, <1>17 DEF Awaits
  <2>3. UpWaits(buffer', rx_sync')
    BY <2>1, <2>2, <1>7, <1>9, <1>11 DEF UpWaits
  <2> QED
    BY <2>1, <2>3, <1>3, <1>5, <1>8, <1>9
\* It is refused, or whole.
<1>18. CASE FrameState(B) # "more"
  <2>1. rx_sync' = 0 /\ buffer' = << >>
    BY <1>5, <1>18
  <2>2. UpWaits(buffer', rx_sync')
    BY <2>1 DEF UpWaits
  <2>3. buffer' \o line' = rest /\ buffer' \in Seq(T)
    BY <2>1, <1>5, <1>6, Empty
  <2>4. n + 1 >= 5 /\ (n < 5 \/ (n + 1 <= 6 + len /\ len <= RC_FRAME_MAX_PAYLOAD))
    <3>1. n + 1 >= 5
      BY <1>7, <1>12, <1>18
    <3>2. n < 5 \/ (Declared(buffer) <= Longest("up") - 6 /\ n < 6 + Declared(buffer))
      BY <1>7 DEF Awaits, n
    <3>3. n >= 5 => len <= RC_FRAME_MAX_PAYLOAD /\ n < 6 + len
      BY <3>2, <1>7, <1>13, <1>14
    <3> QED
      BY <3>1, <3>3, <1>7, <1>15
  <2>5. n + 1 \in 1 .. Len(R) /\ n + 1 <= Longest(side)
    <3>1. n + 1 <= Longest(side)
      BY <2>4, <1>7, <1>13, <1>15
    <3> QED
      BY <3>1, <1>7, <1>9
  <2>6. Listed(got')
    <3>1. Listed(got)
      BY <1>3 DEF OnCourse
    <3> DEFINE q == dispatch_frame(B[3].b, read(len))
    <3>2. q = << >> \/ \E x : q = <<x>>
      BY Answers
    <3> HIDE DEF q
    <3>3. Listed(got \o Understood(q, c.f))
      BY <3>1, <3>2, ListedMore
    <3>4. got' = got \/ got' = got \o Understood(q, c.f)
      BY <1>5 DEF q
    <3> QED
      BY <3>1, <3>3, <3>4
  <2>7. ASSUME R[1].p = 1, R[1].f # broken
        PROVE  n + 1 = Size(side, sent[R[1].f]) /\ Told(got', side, sent, broken, R[1].f)
    <3> DEFINE f == R[1].f
               m == sent[f]
               l == Len(Data(side, m))
               data == [k \in 1 .. l |-> R[5 + k].b]
               E == SubSeq(R, Size(side, m) + 1, Len(R))
    <3>1. FrameAt(side, sent, R, f, m, l, data, E)
      BY DEF FrameAt
    <3>2. data = [k \in 1 .. l |-> R[5 + k].b] /\ f = R[1].f
      OBVIOUS
    <3> HIDE DEF f, m, l, data, E
    <3>3. Regular(side, M, sent, broken, R, f, m, l, data, E)
      <4>1. Course(R, side, sent, broken)
        BY <1>3 DEF OnCourse
      <4> QED
        BY <3>1, <4>1, <2>7, <1>1, <1>2, <1>9, RegularFrame
    <3>4. /\ f \in 1 .. Len(sent) /\ m = sent[f] /\ m \in M /\ Message(side, m)
          /\ l \in Nat /\ Size(side, m) = 6 + l
          /\ \A k \in 1 .. 6 + l : R[k].f = f
          /\ R[4].b + W * R[5].b = l /\ R[3].b = Command(side, m) /\ data = Data(side, m)
          /\ calc_chk(R[3].b, data) = R[6 + l].b
      BY <3>3 DEF Regular
    <3>5. len = l /\ B[3] = R[3]
      <4>1. 3 \in 1 .. n + 1 /\ 4 \in 1 .. n + 1 /\ 5 \in 1 .. n + 1
        BY <2>4, <1>7
      <4> QED
        BY <4>1, <3>4, <1>9 DEF len
    <3>6. l <= RC_FRAME_MAX_PAYLOAD
      <4>1. ~TooLong(side, m)
        BY <3>4, <1>2 DEF Plain, IsPlain, side
      <4>2. ~(6 + l > 6 + RC_FRAME_MAX_PAYLOAD)
        BY <4>1, <3>4, <1>2 DEF TooLong
      <4> QED
        BY <4>2, <3>4, <1>13
    <3>7. FrameState(B) = "whole" /\ n + 1 = 6 + l
      BY <3>4, <3>5, <3>6, <2>4, <1>7, <1>12, <1>13, <1>18
    <3>8. c = R[6 + l] /\ c.f = f
      <4>1. 6 + l \in 1 .. 6 + l
        BY <3>4
      <4> QED
        BY <4>1, <3>4, <3>7, <1>9
    <3>9. read(l) = data
      <4>1. \A k \in 1 .. l : 5 + k \in 1 .. n + 1
        BY <3>4, <3>7
      <4> QED
        BY <4>1, <3>2, <1>9
    <3> HIDE DEF read
    <3>10. got' = got \o Understood(dispatch_frame(R[3].b, data), f)
      BY <3>4, <3>5, <3>7, <3>8, <3>9, <1>5
    <3>11. UpMessage(m) /\ Command(side, m) = UplinkCMD[m.cmd] /\ Data(side, m) = payload_up(m)
      BY <3>4, <1>2 DEF Message, Command, Data
    <3>12. dispatch_frame(R[3].b, data) = IF m.cmd = "CMD_RSP" THEN << >> ELSE <<Heard(m)>>
      BY <3>4, <3>11, UpHeard, ZenonT(30)
    <3>13. m.cmd # "CMD_RSP" => got' # << >> /\ got'[Len(got')] = [m |-> Heard(m), f |-> f]
      <4> SUFFICES ASSUME m.cmd # "CMD_RSP"
                   PROVE  got' # << >> /\ got'[Len(got')] = [m |-> Heard(m), f |-> f]
        OBVIOUS
      <4> DEFINE y == Heard(m)
                 g == got \o Understood(<<y>>, f)
      <4>1. got' = g
        BY <3>10, <3>12
      <4>2. Listed(got)
        BY <1>3 DEF OnCourse
      <4> HIDE DEF y
      <4>3. g # << >> /\ g[Len(g)] = [m |-> y, f |-> f]
        BY <4>2, ListedMore
      <4> HIDE DEF g
      <4> QED
        BY <4>1, <4>3 DEF y
    <3>14. Told(got', side, sent, broken, f)
      BY <3>4, <3>13 DEF Told
    <3> QED
      BY <3>2, <3>4, <3>7, <3>14
  <2>8. Ok(rest)
    <3> DEFINE k == n + 1
    <3>1. k \in 1 .. Len(R) /\ k <= Longest(side) /\ rest = SubSeq(R, k + 1, Len(R))
          /\ (R[1].p = 1 /\ R[1].f # broken =>
                k = Size(side, sent[R[1].f]) /\ Told(got', side, sent, broken, R[1].f))
      <4>1. n + 2 = (n + 1) + 1
        BY <1>7
      <4> QED
        BY <4>1, <2>5, <2>7, <1>9
    <3>2. 2 <= Len(R) /\ \A j \in 1 .. Len(sent) : IsPlain(side, sent[j])
      BY <1>7, <1>9 DEF Plain, side
    <3> HIDE DEF k
    <3> QED
      BY <3>1, <3>2, <2>6, <1>1, <1>2, <1>3, <1>9, <1>11, TakesFrame
  <2> QED
    BY <2>2, <2>3, <2>8, <1>8
<1> QED
  BY <1>17, <1>18

LEMMA AstrayRead ==
  ASSUME AstrayBody, NEW n \in 1 .. Len(line), Read(n)
  PROVE  AstrayBody'
<1> DEFINE T == Tagged(sent)
           side == scenario.side
<1>1. line \in Seq(T) /\ buffer \in Seq(T) /\ broken \in 0 .. Len(sent)
      /\ OnCourse(buffer \o line, side, sent, broken, got)
  BY DEF AstrayBody
<1>2. /\ buffer' = buffer \o SubSeq(line, 1, n) /\ line' = SubSeq(line, n + 1, Len(line))
      /\ pc' = "parse" /\ UNCHANGED <<scenario, sent, got, broken>> /\ side # "up"
  BY DEF Read, Up
<1> HIDE DEF T, side
<1>3. buffer' \in Seq(T) /\ line' \in Seq(T) /\ buffer' \o line' = buffer \o line
  BY <1>1, <1>2, CutInTwo
<1>4. DownWaits(buffer', pc')
  BY <1>2 DEF DownWaits
<1> QED
  BY <1>1, <1>2, <1>3, <1>4 DEF AstrayBody, Waits, T, side

\* What the bridge's parser sees
LEMMA AstrayParsed ==
  ASSUME LinkTypes, AstrayBody, pc = "parse", Len(buffer) >= 5, NEW R, R = buffer \o line
  PROVE  /\ line \in Seq(Tagged(sent)) /\ buffer \in Seq(Tagged(sent)) /\ R # << >>
         /\ OnCourse(R, scenario.side, sent, broken, got) /\ broken \in 0 .. Len(sent)
         /\ scenario.side # "up" /\ sent \in Seq(scenario.messages)
         /\ \A x \in scenario.messages : Message(scenario.side, x)
         /\ Len(buffer) \in Nat /\ Len(R) \in Nat /\ Len(buffer) <= Len(R)
         /\ \A k \in 1 .. Len(buffer) : buffer[k] = R[k]
         /\ Synchronised <=> Starts(R)
         /\ pay_len = Declared(R) /\ pay_len \in Nat /\ pay_len <= W * W - 1
<1> DEFINE T == Tagged(sent)
<1>1. /\ line \in Seq(T) /\ buffer \in Seq(T)
      /\ OnCourse(R, scenario.side, sent, broken, got) /\ broken \in 0 .. Len(sent)
  BY DEF AstrayBody
<1>2. scenario.side # "up"
  BY DEF AstrayBody, Waits
<1>3. sent \in Seq(scenario.messages) /\ \A x \in scenario.messages : Message(scenario.side, x)
  BY ScenarioRight DEF LinkTypes
<1>4. Declared(buffer) \in Nat /\ Declared(buffer) <= W * W - 1 /\ pay_len = Declared(buffer)
  BY <1>1, DeclaredRight DEF Declared, pay_len, taken
<1> HIDE DEF T
<1>5. /\ Len(buffer) \in Nat /\ R \in Seq(T)
      /\ \A k \in 1 .. Len(buffer) : buffer[k] = R[k]
      /\ Len(R) = Len(buffer) + Len(line) /\ Len(line) \in Nat
  <2> DEFINE V == buffer \o line
  <2>1. V \in Seq(T) /\ Len(V) = Len(buffer) + Len(line) /\ \A k \in 1 .. Len(buffer) : V[k] = buffer[k]
    BY <1>1, JoinedRight
  <2>2. Len(buffer) \in Nat /\ Len(line) \in Nat
    BY <1>1
  <2>3. V = R
    OBVIOUS
  <2> HIDE DEF V
  <2> QED
    BY <2>1, <2>2, <2>3
<1>6. R # << >>
  <2>1. Len(R) # 0
    BY <1>5
  <2> QED
    BY <2>1
<1>7. buffer[1] = R[1] /\ buffer[2] = R[2] /\ buffer[4] = R[4] /\ buffer[5] = R[5]
  <2>1. 1 \in 1 .. Len(buffer) /\ 2 \in 1 .. Len(buffer) /\ 4 \in 1 .. Len(buffer)
        /\ 5 \in 1 .. Len(buffer)
    BY <1>5
  <2> QED
    BY <2>1, <1>5
<1>8. (Synchronised <=> Starts(R)) /\ Declared(R) = Declared(buffer)
  BY <1>7 DEF Synchronised, Starts, taken, Declared
<1>9. Len(buffer) <= Len(R) /\ Len(R) \in Nat
  BY <1>5
<1> QED
  BY <1>1, <1>2, <1>3, <1>4, <1>5, <1>6, <1>8, <1>9 DEF T

LEMMA AstrayParseSkip ==
  ASSUME LinkTypes, AstrayBody, ParseSkip
  PROVE  AstrayBody'
<1> DEFINE T == Tagged(sent)
           R == buffer \o line
           n == 1
           D == SubSeq(R, 2, Len(R))
<1>1. R = buffer \o line
  OBVIOUS
<1>2. /\ pc = "parse" /\ Len(buffer) >= 5 /\ ~Synchronised /\ buffer' = Tail(buffer)
      /\ UNCHANGED <<scenario, line, rx_sync, pc, sent, got, broken>>
  BY DEF ParseSkip
<1> HIDE DEF R, T
<1>3. /\ line \in Seq(T) /\ buffer \in Seq(T) /\ R # << >>
      /\ OnCourse(R, scenario.side, sent, broken, got) /\ broken \in 0 .. Len(sent)
      /\ scenario.side # "up" /\ sent \in Seq(scenario.messages)
      /\ \A x \in scenario.messages : Message(scenario.side, x)
      /\ ~Starts(R)
  BY <1>1, <1>2, AstrayParsed DEF T
<1>4. buffer' \in Seq(T) /\ buffer' \o line = D
  <2>1. n \in 0 .. Len(buffer) /\ n + 1 = 2
    <3>1. Len(buffer) \in Nat
      BY <1>3
    <3> QED
      BY <3>1, <1>2
  <2>2. buffer' = SubSeq(buffer, 2, Len(buffer))
    <3>1. buffer # << >>
      <4>1. Len(<< >>) = 0
        OBVIOUS
      <4> QED
        BY <4>1, <1>2
    <3> QED
      BY <3>1, <1>2, <1>3, FirstAndRest
  <2> HIDE DEF n
  <2>3. buffer' = SubSeq(buffer, n + 1, Len(buffer))
    BY <2>1, <2>2
  <2>4. n \in 0 .. Len(buffer) /\ line \in Seq(T) /\ buffer \in Seq(T)
    BY <2>1, <1>3
  <2>5. SubSeq(buffer, n + 1, Len(buffer)) \in Seq(T)
        /\ SubSeq(buffer, n + 1, Len(buffer)) \o line = SubSeq(R, n + 1, Len(R))
    BY <2>4, DroppedBoth DEF R
  <2> HIDE DEF D
  <2>6. D = SubSeq(R, n + 1, Len(R))
    BY <2>1 DEF D
  <2> QED
    BY <2>3, <2>5, <2>6
<1>5. OnCourse(D, scenario.side, sent, broken, got)
  BY <1>3, PassOne
<1>6. DownWaits(buffer', pc')
  BY <1>2 DEF DownWaits
<1> HIDE DEF D
<1> QED
  BY <1>2, <1>3, <1>4, <1>5, <1>6 DEF AstrayBody, Waits, T

LEMMA AstrayParseWait ==
  ASSUME LinkTypes, AstrayBody, ParseWait
  PROVE  AstrayBody'
<1> DEFINE R == buffer \o line
<1>1. /\ pc = "parse" /\ pc' = "read" /\ UNCHANGED <<scenario, line, buffer, sent, got, broken>>
      /\ Len(buffer) < 5 \/ (Len(buffer) >= 5 /\ Synchronised /\ Len(buffer) < 6 + pay_len)
  BY DEF ParseWait
<1>2. scenario.side # "up"
  BY <1>1 DEF AstrayBody, Waits
<1>3. DownWaits(buffer, "read")
  <2>1. CASE Len(buffer) < 5
    BY <2>1 DEF DownWaits
  <2>2. CASE Len(buffer) >= 5 /\ Synchronised /\ Len(buffer) < 6 + pay_len
    <3>1. pay_len = Declared(buffer) /\ Starts(buffer)
      BY <2>2 DEF Declared, pay_len, taken, Starts, Synchronised
    <3>2. pay_len \in Nat /\ pay_len <= W * W - 1
      BY <2>2, <1>1, AstrayParsed
    <3>3. Longest("down") - 6 = W * W - 1
      <4>1. W * W \in Nat
        BY BytesAssumption
      <4> QED
        BY <4>1 DEF Longest
    <3> QED
      BY <2>2, <3>1, <3>2, <3>3 DEF DownWaits, Awaits
  <2> QED
    BY <2>1, <2>2, <1>1
<1> QED
  BY <1>1, <1>2, <1>3 DEF AstrayBody, Waits

LEMMA AstrayParseFrame ==
  ASSUME LinkTypes, Plain, AstrayBody, ParseFrame, pc' # "dead"
  PROVE  AstrayBody'
<1> DEFINE side == scenario.side
           M == scenario.messages
           T == Tagged(sent)
           R == buffer \o line
           n == 6 + pay_len
           D == SubSeq(R, n + 1, Len(R))
           data == Payload(pay_len)
           e == buffer[6 + pay_len].f
           right == taken(6 + pay_len) = calc_chk(taken(3), data)
           q == handle_downlink(taken(3), data)
           Ok(Q) == OnCourse(Q, side, sent, broken, got')
<1>1. R = buffer \o line
  OBVIOUS
<1>2. /\ pc = "parse" /\ Len(buffer) >= 5 /\ Synchronised /\ Len(buffer) >= 6 + pay_len
      /\ buffer' = Rest(buffer, pay_len)
      /\ UNCHANGED <<scenario, line, sent, broken>>
  BY DEF ParseFrame
<1>3. IF right /\ Raises(taken(3), data)
        THEN pc' = "dead" /\ UNCHANGED got
        ELSE got' = (IF right THEN got \o Understood(q, e) ELSE got) /\ UNCHANGED pc
  <2>1. \A c, d : calc_checksum(c, d) = calc_chk(c, d)
    BY DEF calc_checksum, calc_chk
  <2> QED
    BY <2>1 DEF ParseFrame
<1>4. pc' = "parse" /\ got' = IF right THEN got \o Understood(q, e) ELSE got
  BY <1>2, <1>3
<1>5. /\ n = 6 + pay_len /\ D = SubSeq(R, n + 1, Len(R))
      /\ data = [k \in 1 .. pay_len |-> buffer[5 + k].b] /\ e = buffer[n].f
      /\ right <=> buffer[n].b = calc_chk(buffer[3].b, data)
      /\ q = handle_downlink(buffer[3].b, data)
      /\ buffer' = SubSeq(buffer, 5 + pay_len + 2, Len(buffer))
  BY <1>2 DEF Payload, taken, Rest
<1> HIDE DEF R, T, D, data, q, e, right, n
<1>6. /\ line \in Seq(T) /\ buffer \in Seq(T) /\ R # << >>
      /\ OnCourse(R, side, sent, broken, got) /\ broken \in 0 .. Len(sent)
      /\ side # "up" /\ sent \in Seq(M) /\ \A x \in M : Message(side, x)
      /\ Len(buffer) \in Nat /\ Len(R) \in Nat /\ Len(buffer) <= Len(R)
      /\ \A k \in 1 .. Len(buffer) : buffer[k] = R[k]
      /\ Starts(R) /\ pay_len = Declared(R) /\ pay_len \in Nat /\ pay_len <= W * W - 1
  BY <1>1, <1>2, AstrayParsed DEF T
<1> HIDE DEF side, M
<1>7. /\ n \in 1 .. Len(R) /\ n <= Longest(side) /\ n \in 0 .. Len(buffer) /\ 2 <= Len(R)
      /\ n \in 1 .. Len(buffer) /\ 3 \in 1 .. Len(buffer) /\ 5 + pay_len + 2 = n + 1
      /\ \A k \in 1 .. pay_len : 5 + k \in 1 .. Len(buffer)
  <2>1. Longest(side) = 6 + (W * W - 1)
    BY <1>6 DEF Longest
  <2> DEFINE w == W * W
  <2>2. w \in Nat
    BY BytesAssumption
  <2>3. pay_len <= w - 1 /\ Longest(side) = 6 + (w - 1)
    BY <2>1, <1>6
  <2> HIDE DEF w
  <2> DEFINE p == pay_len
             i == Len(buffer)
             j == Len(R)
  <2>4. n = 6 + p /\ p \in Nat /\ i \in Nat /\ j \in Nat /\ i <= j /\ i >= 6 + p /\ p <= w - 1
    BY <2>3, <1>2, <1>5, <1>6
  <2> HIDE DEF p, i, j
  <2>5. /\ n \in 1 .. j /\ n \in 0 .. i /\ 2 <= j /\ n \in 1 .. i /\ 3 \in 1 .. i
        /\ 5 + p + 2 = n + 1 /\ \A k \in 1 .. p : 5 + k \in 1 .. i
    BY <2>4
  <2>6. n <= Longest(side)
    BY <2>2, <2>3, <2>4
  <2> QED
    BY <2>5, <2>6 DEF p, i, j
<1>8. buffer' \in Seq(T) /\ buffer' \o line = D
  <2>1. buffer' = SubSeq(buffer, n + 1, Len(buffer))
    BY <1>5, <1>7
  <2>2. buffer' \in Seq(T) /\ buffer' \o line = SubSeq(R, n + 1, Len(R))
    BY <2>1, <1>6, <1>7, DroppedBoth DEF R
  <2> QED
    BY <2>2, <1>5
<1>9. Listed(got')
  <2>1. Listed(got)
    BY <1>6 DEF OnCourse
  <2>2. q = << >> \/ \E x : q = <<x>>
    BY <1>5, Answers
  <2>3. Listed(got \o Understood(q, e))
    BY <2>1, <2>2, ListedMore
  <2> QED
    BY <2>1, <2>3, <1>4
<1>10. ASSUME R[1].p = 1, R[1].f # broken
       PROVE  n = Size(side, sent[R[1].f]) /\ Told(got', side, sent, broken, R[1].f)
  <2> DEFINE f == R[1].f
             m == sent[f]
             l == Len(Data(side, m))
             d == [k \in 1 .. l |-> R[5 + k].b]
             E == SubSeq(R, Size(side, m) + 1, Len(R))
  <2>1. FrameAt(side, sent, R, f, m, l, d, E)
    BY DEF FrameAt
  <2>2. d = [k \in 1 .. l |-> R[5 + k].b] /\ f = R[1].f
    OBVIOUS
  <2> HIDE DEF f, m, l, d, E
  <2>3. Regular(side, M, sent, broken, R, f, m, l, d, E)
    <3>1. Course(R, side, sent, broken)
      BY <1>6 DEF OnCourse
    <3> QED
      BY <2>1, <3>1, <1>6, <1>10, RegularFrame
  <2>4. /\ f \in 1 .. Len(sent) /\ m = sent[f] /\ m \in M /\ Message(side, m)
        /\ l \in Nat /\ Size(side, m) = 6 + l
        /\ \A k \in 1 .. 6 + l : R[k].f = f
        /\ Declared(R) = l /\ R[3].b = Command(side, m) /\ d = Data(side, m)
        /\ calc_chk(R[3].b, d) = R[6 + l].b
    BY <2>3 DEF Regular, Declared
  <2>5. pay_len = l /\ n = 6 + l
    BY <2>4, <1>5, <1>6
  <2>6. data = d
    BY <2>2, <2>5, <1>5, <1>6, <1>7
  <2>7. buffer[3] = R[3] /\ buffer[n] = R[6 + l] /\ R[6 + l].f = f
    <3>1. 6 + l \in 1 .. 6 + l
      BY <2>4
    <3> QED
      BY <3>1, <2>4, <2>5, <1>6, <1>7
  <2>8. right /\ q = handle_downlink(R[3].b, d) /\ e = f
    BY <2>4, <2>6, <2>7, <1>5
  <2>9. DownMessage(m) /\ Command(side, m) = rc_cmd_t[m.cmd] /\ Data(side, m) = pld(m)
    BY <2>4, <1>6 DEF Message, Command, Data
  <2>10. q = <<Heard(m)>>
    BY <2>4, <2>8, <2>9, DownHeard
  <2>11. got' # << >> /\ got'[Len(got')] = [m |-> Heard(m), f |-> f]
    <3> DEFINE y == Heard(m)
               g == got \o Understood(<<y>>, f)
    <3>1. got' = g
      BY <2>8, <2>10, <1>4
    <3>2. Listed(got)
      BY <1>6 DEF OnCourse
    <3> HIDE DEF y
    <3>3. g # << >> /\ g[Len(g)] = [m |-> y, f |-> f]
      BY <3>2, ListedMore
    <3> HIDE DEF g
    <3> QED
      BY <3>1, <3>3 DEF y
  <2>12. Told(got', side, sent, broken, f)
    BY <2>4, <2>11 DEF Told
  <2> QED
    BY <2>2, <2>4, <2>5, <2>12
<1>11. Ok(D)
  <2>1. \A k \in 1 .. Len(sent) : IsPlain(side, sent[k])
    BY DEF Plain, side
  <2> QED
    BY <2>1, <1>5, <1>6, <1>7, <1>9, <1>10, TakesFrame
<1>12. DownWaits(buffer', pc')
  BY <1>4 DEF DownWaits
<1>13. /\ line' \in Seq(Tagged(sent')) /\ buffer' \in Seq(Tagged(sent'))
       /\ broken' \in 0 .. Len(sent')
  BY <1>2, <1>6, <1>8 DEF T
<1>14. OnCourse(buffer' \o line', scenario'.side, sent', broken', got')
  BY <1>2, <1>8, <1>11 DEF side
<1>15. Waits(buffer', rx_sync', pc', scenario'.side)
  BY <1>2, <1>6, <1>12 DEF Waits, side
<1> QED
  BY <1>13, <1>14, <1>15 DEF AstrayBody

\* What is under way when a message has been sent behind it
LEMMA CourseSent ==
  ASSUME NEW side, NEW M, NEW s \in Seq(M), \A x \in M : Message(side, x), NEW m \in M,
         NEW b \in 0 .. Len(s), NEW R, NEW g, OnCourse(R, side, s, b, g)
  PROVE  OnCourse(R \o Stamped(side, m, Len(s) + 1), side, Append(s, m), b, g)
<1> DEFINE n == Len(R)
           z == Size(side, m)
           t == Append(s, m)
           B == Stamped(side, m, Len(s) + 1)
           C == R \o B
           l == Len(s)
           T == Tagged(t)
<1>1. Course(R, side, s, b) /\ Listed(g) /\ (R # << >> => Placed(R[1], side, s, b))
      /\ Told(g, side, s, b, Over(R, s))
  BY DEF OnCourse
<1>2. Message(side, m) /\ z \in Nat /\ z >= 6
  BY SizeRight
<1>3. /\ t \in Seq(M) /\ Len(t) = l + 1 /\ l \in Nat
      /\ \A f \in 1 .. l : t[f] = s[f] /\ s[f] \in M /\ f \in 1 .. l + 1
      /\ t[l + 1] = m
  BY SentRight
<1>4. /\ B \in Seq(T) /\ Len(B) = z
      /\ \A p \in 1 .. z : B[p].b = Packed(side, m)[p] /\ B[p].f = l + 1 /\ B[p].p = p
  <2>1. B \in Seq(T)
    BY <1>2, StampedRight, Zenon
  <2>2. Len(B) = z /\ \A p \in 1 .. z : B[p].b = Packed(side, m)[p] /\ B[p].f = l + 1 /\ B[p].p = p
    BY <1>2 DEF Stamped
  <2> QED
    BY <2>1, <2>2
<1>5. CourseTyped(R, side, M, s, b)
  BY <1>1, CourseRight
<1> HIDE DEF t, B
<1>6. R \in Seq(T) /\ n \in Nat
  <2>1. \A y \in Tagged(s) : y \in T
    BY <1>3 DEF T, Tagged
  <2> DEFINE U == Tagged(s)
  <2>2. R \in Seq(U) /\ \A y \in U : y \in T
    BY <2>1, <1>5 DEF CourseTyped
  <2> HIDE DEF U, T
  <2> QED
    BY <2>2
<1> HIDE DEF T
<1>7. /\ C \in Seq(T) /\ Len(C) = n + z
      /\ (\A k \in 1 .. n : C[k] = R[k]) /\ (\A k \in 1 .. z : C[n + k] = B[k])
  <2>1. R \in Seq(T) /\ B \in Seq(T)
    BY <1>4, <1>6
  <2>2. /\ C \in Seq(T) /\ Len(C) = Len(R) + Len(B)
        /\ (\A k \in 1 .. Len(R) : C[k] = R[k]) /\ (\A k \in 1 .. Len(B) : C[Len(R) + k] = B[k])
    BY <2>1, JoinedRight
  <2> HIDE DEF C, z
  <2> QED
    BY <2>2, <1>4
<1> HIDE DEF C, n, z
<1>8. \A k \in 1 .. n : /\ R[k].f \in 1 .. l /\ R[k].f \in Int /\ t[R[k].f] = s[R[k].f]
  BY <1>3, <1>5 DEF CourseTyped, n
<1>9. \A k \in 1 .. n + z : k \in 1 .. n \/ (k - n \in 1 .. z /\ n + (k - n) = k)
  BY <1>2, <1>6
<1>10. \A k \in 1 .. Len(C) : C[k].f # b => C[k].p <= Size(side, t[C[k].f]) /\ ~Wrong(C[k], side, t)
  <2> SUFFICES ASSUME NEW k \in 1 .. Len(C), C[k].f # b
               PROVE  C[k].p <= Size(side, t[C[k].f]) /\ ~Wrong(C[k], side, t)
    OBVIOUS
  <2>1. CASE k \in 1 .. n
    <3>1. R[k].p <= Size(side, s[R[k].f]) /\ ~Wrong(R[k], side, s)
      BY <2>1, <1>1, <1>7 DEF Course, n
    <3> QED
      BY <2>1, <3>1, <1>7, <1>8 DEF Wrong
  <2>2. CASE k - n \in 1 .. z /\ n + (k - n) = k
    <3> DEFINE j == k - n
    <3>1. C[k] = B[j] /\ j \in 1 .. z
      BY <2>2, <1>7
    <3> HIDE DEF j
    <3>2. C[k].f = l + 1 /\ C[k].p = j /\ C[k].b = Packed(side, m)[j]
      BY <3>1, <1>4
    <3> QED
      BY <3>1, <3>2, <1>2, <1>3 DEF Wrong, z
  <2> QED
    BY <2>1, <2>2, <1>7, <1>9
<1>11. \A k \in 1 .. Len(C) - 1 : Follows(C[k], C[k + 1], side, t, b)
  <2> TAKE k \in 1 .. Len(C) - 1
  <2>0. k \in Nat \ {0} /\ k <= n + z - 1
    BY <1>2, <1>6, <1>7
  <2>1. CASE k < n
    <3>1. k \in 1 .. n /\ k + 1 \in 1 .. n /\ k \in 1 .. n - 1
      BY <2>0, <2>1, <1>6
    <3>2. Follows(R[k], R[k + 1], side, s, b)
      BY <3>1, <1>1 DEF Course, n
    <3> QED
      BY <3>1, <3>2, <1>7, <1>8 DEF Follows
  <2>2. CASE k = n
    <3>1. k \in 1 .. n /\ 1 \in 1 .. z /\ R # << >>
      BY <2>0, <2>2, <1>2, <1>6 DEF n
    <3>2. C[k] = R[n] /\ C[k + 1] = B[1]
      BY <3>1, <2>2, <1>7
    <3>3. R[n].f = l /\ (l # b => R[n].p = Size(side, s[l])) /\ t[l] = s[l]
      BY <3>1, <2>2, <1>1, <1>8 DEF Course, n
    <3>4. B[1].f = l + 1 /\ B[1].p = 1
      BY <3>1, <1>4
    <3> QED
      BY <3>2, <3>3, <3>4 DEF Follows
  <2>3. CASE k > n
    <3> DEFINE j == k - n
    <3>1. j \in 1 .. z /\ j + 1 \in 1 .. z /\ n + j = k /\ n + (j + 1) = k + 1
      BY <2>0, <2>3, <1>2, <1>6
    <3> HIDE DEF j
    <3>2. C[n + j] = B[j] /\ C[n + (j + 1)] = B[j + 1]
      BY <3>1, <1>7
    <3>3. C[k] = B[j] /\ C[k + 1] = B[j + 1]
      BY <3>1, <3>2
    <3>4. B[j].f = l + 1 /\ B[j + 1].f = l + 1 /\ B[j].p = j /\ B[j + 1].p = j + 1
      BY <3>1, <1>4
    <3> QED
      BY <3>3, <3>4 DEF Follows
  <2> QED
    BY <2>0, <2>1, <2>2, <2>3, <1>6
<1>12. C # << >> /\ C[Len(C)].f = l + 1 /\ C[Len(C)].p = z
  <2>1. z \in 1 .. z /\ Len(C) # 0
    BY <1>2, <1>6, <1>7
  <2>2. C[n + z] = B[z] /\ B[z].f = l + 1 /\ B[z].p = z
    BY <2>1, <1>4, <1>7
  <2>3. C # << >>
    BY <2>1
  <2> QED
    BY <2>2, <2>3, <1>7
<1>13. Course(C, side, t, b)
  BY <1>3, <1>7, <1>10, <1>11, <1>12 DEF Course, T, z
<1>14. \A f \in Int : Near(side, s, b, f) => Near(side, t, b, f)
  <2>1. ASSUME NEW c, Least(side, t, c)
        PROVE  Least(side, s, c)
    BY <2>1, <1>3 DEF Least
  <2> QED
    BY <2>1 DEF Near
<1>15. Placed(C[1], side, t, b)
  <2>1. CASE R = << >>
    <3>1. n = 0 /\ 1 \in 1 .. z
      BY <2>1, <1>2 DEF n
    <3>2. C[n + 1] = B[1] /\ n + 1 = 1
      BY <3>1, <1>7
    <3> QED
      BY <3>1, <3>2, <1>4 DEF Placed
  <2>2. CASE R # << >>
    <3>1. 1 \in 1 .. n
      <4>1. n # 0
        BY <2>2, <1>6 DEF n
      <4> QED
        BY <4>1, <1>6
    <3> QED
      BY <2>2, <3>1, <1>1, <1>7, <1>8, <1>14 DEF Placed
  <2> QED
    BY <2>1, <2>2
<1>16. Over(C, t) = Over(R, s) /\ Over(R, s) \in Int /\ Over(R, s) <= l
  <2>1. CASE R = << >>
    <3>1. n = 0 /\ 1 \in 1 .. z
      BY <2>1, <1>2 DEF n
    <3>2. C[n + 1] = B[1] /\ n + 1 = 1
      BY <3>1, <1>7
    <3>3. C[1].f = l + 1
      BY <3>1, <3>2, <1>4
    <3> QED
      BY <2>1, <3>3, <1>3, <1>12 DEF Over
  <2>2. CASE R # << >>
    <3>1. 1 \in 1 .. n
      <4>1. n # 0
        BY <2>2, <1>6 DEF n
      <4> QED
        BY <4>1, <1>6
    <3>2. C[1] = R[1]
      BY <3>1, <1>7
    <3> QED
      BY <2>2, <3>1, <3>2, <1>3, <1>8, <1>12 DEF Over
  <2> QED
    BY <2>1, <2>2
<1>17. Told(g, side, t, b, Over(C, t))
  <2> DEFINE d == Over(R, s)
  <2>1. d \in Int /\ d <= l /\ Over(C, t) = d /\ Told(g, side, s, b, d)
    BY <1>1, <1>16
  <2> HIDE DEF d
  <2>2. b < d => d \in 1 .. l
    <3>1. b \in Nat
      OBVIOUS
    <3> QED
      BY <3>1, <2>1, <1>3
  <2>3. b < d => t[d] = s[d]
    BY <2>2, <1>3
  <2>4. b < d \/ d <= b
    BY <2>1
  <2> QED
    BY <2>1, <2>3, <2>4, <1>14 DEF Told
<1> QED
  BY <1>1, <1>13, <1>15, <1>17 DEF OnCourse, C, B, t

LEMMA AstraySend ==
  ASSUME LinkTypes, AstrayBody, NEW m \in scenario.messages, Send(m)
  PROVE  AstrayBody'
<1> DEFINE side == scenario.side
           M == scenario.messages
           t == Append(sent, m)
           X == Stamped(side, m, Len(sent) + 1)
           R == buffer \o line
           C == R \o X
           T == Tagged(sent)
           V == Tagged(t)
<1>1. scenario \in Scenarios /\ sent \in Seq(M)
  BY DEF LinkTypes
<1>2. \A x \in M : Message(side, x)
  BY <1>1, ScenarioRight
<1>3. /\ sent' = t /\ line' = line \o X
      /\ UNCHANGED <<scenario, rx_sync, buffer, pc, got, broken>>
  <2>1. Pack(m) = Packed(side, m)
    BY <1>1, ScenarioRight
  <2> QED
    BY <2>1 DEF Send, Stamped, Size
<1>4. Len(t) = Len(sent) + 1 /\ Len(sent) \in Nat
  BY <1>1, SentRight
<1>5. /\ line \in Seq(T) /\ buffer \in Seq(T) /\ OnCourse(R, side, sent, broken, got)
      /\ broken \in 0 .. Len(sent) /\ Waits(buffer, rx_sync, pc, side)
  BY DEF AstrayBody
<1>6. X \in Seq(V)
  <2>1. sent \in Seq(M) /\ m \in M /\ Message(side, m)
    BY <1>1, <1>2
  <2> HIDE DEF M, side
  <2> QED
    BY <2>1, StampedRight, Zenon
<1>7. OnCourse(C, side, t, broken, got)
  <2>1. sent \in Seq(M) /\ m \in M
    BY <1>1
  <2> HIDE DEF M, side, R
  <2> QED
    BY <2>1, <1>2, <1>5, CourseSent
<1> HIDE DEF t, X
<1>8. line \in Seq(V) /\ buffer \in Seq(V)
  <2>1. \A y \in T : y \in V
    BY <1>4 DEF T, V, Tagged
  <2> HIDE DEF T, V
  <2> QED
    BY <2>1, <1>5
<1> HIDE DEF V
<1>9. line' \in Seq(V) /\ buffer' \o line' = C
  <2>1. line \o X \in Seq(V)
    BY <1>6, <1>8, JoinedRight
  <2>2. (buffer \o line) \o X = buffer \o (line \o X)
    BY <1>6, <1>8, Associative
  <2>3. buffer' \o line' = buffer \o (line \o X)
    BY <1>3
  <2> QED
    BY <2>1, <2>2, <2>3, <1>3
<1> HIDE DEF R, C, T, M
<1>10. broken \in 0 .. Len(t)
  BY <1>4, <1>5
<1>11. /\ line' \in Seq(Tagged(sent')) /\ buffer' \in Seq(Tagged(sent'))
       /\ broken' \in 0 .. Len(sent')
  BY <1>3, <1>8, <1>9, <1>10 DEF V
<1>12. OnCourse(buffer' \o line', scenario'.side, sent', broken', got')
  BY <1>3, <1>7, <1>9 DEF side
<1>13. Waits(buffer', rx_sync', pc', scenario'.side)
  BY <1>3, <1>5 DEF side
<1> QED
  BY <1>11, <1>12, <1>13 DEF AstrayBody

\* What is under way, up to a byte of it, before anything has been damaged
Undamaged(R, side, M, s, k) ==
  /\ CourseTyped(R, side, M, s, 0) /\ R # << >> /\ R[1].p = 1 /\ R[1].f <= R[k].f
  /\ 1 \in 1 .. Len(R)
  /\ \A i \in 1 .. Len(R) :
       R[i].f # 0 /\ R[i].p <= Size(side, s[R[i].f]) /\ ~Wrong(R[i], side, s)
  /\ \A i \in 1 .. Len(R) - 1 :
       \/ R[i + 1].f = R[i].f /\ R[i + 1].p = R[i].p + 1
       \/ R[i + 1].f = R[i].f + 1 /\ R[i].p = Size(side, s[R[i].f]) /\ R[i + 1].p = 1
  /\ R[Len(R)].f = Len(s) /\ R[Len(R)].p = Size(side, s[Len(s)])

LEMMA Whole ==
  ASSUME NEW side, NEW M, NEW s \in Seq(M), \A x \in M : Message(side, x),
         NEW R, NEW g, OnCourse(R, side, s, 0, g), NEW k \in 1 .. Len(R)
  PROVE  Undamaged(R, side, M, s, k)
<1> DEFINE z == 0
<1>1. Course(R, side, s, 0) /\ (R # << >> => Placed(R[1], side, s, 0))
  BY DEF OnCourse
<1>2. CourseTyped(R, side, M, s, 0)
  BY <1>1, CourseRight
<1>3. Len(R) \in Nat /\ 1 \in 1 .. Len(R) /\ R # << >>
  BY <1>2 DEF CourseTyped
<1>4. \A i \in 1 .. Len(R) : R[i].f # 0 /\ R[i].f \in Nat
  BY <1>2 DEF CourseTyped
<1>5. \A i \in 1 .. Len(R) - 1 : i \in 1 .. Len(R) /\ i + 1 \in 1 .. Len(R)
  BY <1>3
<1>6. R[1].p = 1
  BY <1>1, <1>3, <1>4 DEF Placed
<1>7. R[1].f <= R[k].f
  <2>1. Least(side, s, z)
    <3> SUFFICES ASSUME NEW j \in 1 .. Len(s)
                 PROVE  0 <= Size(side, s[j])
      BY DEF Least
    <3>1. s[j] \in M
      OBVIOUS
    <3> QED
      BY <3>1, SizeRight
  <2> DEFINE c == 0
             i == 1
  <2>2. c \in Nat /\ i \in 1 .. Len(R) /\ c <= R[i].f /\ k \in i .. Len(R) /\ Course(R, side, s, c)
        /\ z \in Nat
    BY <1>1, <1>3, <1>4
  <2> HIDE DEF c, i, z
  <2>3. R[i].f <= R[k].f
    BY <2>1, <2>2, Counted
  <2> QED
    BY <2>3 DEF i
<1>8. \A i \in 1 .. Len(R) :
        R[i].f # 0 /\ R[i].p <= Size(side, s[R[i].f]) /\ ~Wrong(R[i], side, s)
  BY <1>1, <1>4 DEF Course
<1>9. \A i \in 1 .. Len(R) - 1 :
        \/ R[i + 1].f = R[i].f /\ R[i + 1].p = R[i].p + 1
        \/ R[i + 1].f = R[i].f + 1 /\ R[i].p = Size(side, s[R[i].f]) /\ R[i + 1].p = 1
  BY <1>1, <1>4, <1>5 DEF Course, Follows
<1>10. R[Len(R)].f = Len(s) /\ R[Len(R)].p = Size(side, s[Len(s)])
  <2>1. Len(s) # 0
    <3>1. Len(R) \in 1 .. Len(R)
      BY <1>3
    <3> QED
      BY <3>1, <1>1, <1>3, <1>4 DEF Course
  <2> QED
    BY <2>1, <1>1, <1>3 DEF Course
<1> QED
  BY <1>2, <1>3, <1>6, <1>7, <1>8, <1>9, <1>10 DEF Undamaged

LEMMA CourseFlipped ==
  ASSUME NEW side, NEW M, NEW s \in Seq(M), \A x \in M : Message(side, x),
         NEW R, NEW g, OnCourse(R, side, s, 0, g), NEW k \in 1 .. Len(R), NEW b, b = R[k].f,
         NEW C \in Seq(Tagged(s)), Len(C) = Len(R),
         \A i \in 1 .. Len(R) : C[i].f = R[i].f /\ C[i].p = R[i].p /\ (i # k => C[i].b = R[i].b)
  PROVE  OnCourse(C, side, s, b, g)
<1>1. /\ CourseTyped(R, side, M, s, 0) /\ R # << >> /\ R[1].p = 1 /\ R[1].f <= b
      /\ 1 \in 1 .. Len(R)
      /\ \A i \in 1 .. Len(R) :
           R[i].f # 0 /\ R[i].p <= Size(side, s[R[i].f]) /\ ~Wrong(R[i], side, s)
      /\ \A i \in 1 .. Len(R) - 1 :
           \/ R[i + 1].f = R[i].f /\ R[i + 1].p = R[i].p + 1
           \/ R[i + 1].f = R[i].f + 1 /\ R[i].p = Size(side, s[R[i].f]) /\ R[i + 1].p = 1
      /\ R[Len(R)].f = Len(s) /\ R[Len(R)].p = Size(side, s[Len(s)])
  <2>1. Undamaged(R, side, M, s, k)
    BY Whole
  <2> QED
    BY <2>1 DEF Undamaged
<1>2. Len(R) \in Nat /\ R[1].f \in Int /\ b \in Int /\ R[k].f = b
  BY <1>1 DEF CourseTyped
<1>3. \A i \in 1 .. Len(C) : C[i].f # b => C[i].p <= Size(side, s[C[i].f]) /\ ~Wrong(C[i], side, s)
  <2> SUFFICES ASSUME NEW i \in 1 .. Len(C), C[i].f # b
               PROVE  C[i].p <= Size(side, s[C[i].f]) /\ ~Wrong(C[i], side, s)
    OBVIOUS
  <2>1. i # k /\ i \in 1 .. Len(R)
    BY <1>2
  <2>2. C[i].f = R[i].f /\ C[i].p = R[i].p /\ C[i].b = R[i].b
    BY <2>1
  <2> QED
    BY <2>1, <2>2, <1>1 DEF Wrong
<1>4. \A i \in 1 .. Len(C) - 1 : Follows(C[i], C[i + 1], side, s, b)
  <2> TAKE i \in 1 .. Len(C) - 1
  <2>1. i \in 1 .. Len(R) - 1 /\ i \in 1 .. Len(R) /\ i + 1 \in 1 .. Len(R)
    BY <1>2
  <2>2. C[i].f = R[i].f /\ C[i].p = R[i].p /\ C[i + 1].f = R[i + 1].f /\ C[i + 1].p = R[i + 1].p
    BY <2>1
  <2> QED
    BY <2>1, <2>2, <1>1 DEF Follows
<1>5. C # << >> /\ C[Len(C)].f = Len(s) /\ C[Len(C)].p = Size(side, s[Len(s)])
  <2>1. Len(R) \in 1 .. Len(R)
    BY <1>1, <1>2
  <2>2. C # << >>
    BY <2>1
  <2> QED
    BY <2>1, <2>2, <1>1
<1>6. Course(C, side, s, b)
  BY <1>3, <1>4, <1>5 DEF Course
<1>7. C[1].p = 1 /\ C[1].f = R[1].f
  BY <1>1
<1>8. Over(C, s) <= b
  BY <1>1, <1>2, <1>5, <1>7 DEF Over
<1>9. Listed(g)
  BY DEF OnCourse
<1> QED
  BY <1>6, <1>7, <1>8, <1>9 DEF OnCourse, Placed, Told

LEMMA CourseLost ==
  ASSUME NEW side, NEW M, NEW s \in Seq(M), \A x \in M : Message(side, x),
         NEW R, NEW g, OnCourse(R, side, s, 0, g), NEW k \in 1 .. Len(R), NEW b, b = R[k].f,
         NEW C \in Seq(Tagged(s)), Len(C) = Len(R) - 1,
         \A i \in 1 .. Len(C) : C[i] = IF i < k THEN R[i] ELSE R[i + 1]
  PROVE  OnCourse(C, side, s, b, g)
<1> DEFINE n == Len(R)
           z(f) == Size(side, s[f])
<1>1. /\ CourseTyped(R, side, M, s, 0) /\ R # << >> /\ R[1].p = 1 /\ R[1].f <= b
      /\ 1 \in 1 .. n
      /\ \A i \in 1 .. n : R[i].f # 0 /\ R[i].p <= z(R[i].f) /\ ~Wrong(R[i], side, s)
      /\ \A i \in 1 .. n - 1 :
           \/ R[i + 1].f = R[i].f /\ R[i + 1].p = R[i].p + 1
           \/ R[i + 1].f = R[i].f + 1 /\ R[i].p = z(R[i].f) /\ R[i + 1].p = 1
      /\ R[n].f = Len(s) /\ R[n].p = z(Len(s))
  <2>1. Undamaged(R, side, M, s, k)
    BY Whole
  <2> QED
    BY <2>1 DEF Undamaged
<1>2. n \in Nat /\ k \in 1 .. n /\ Len(C) = n - 1 /\ Len(s) \in Nat
  BY <1>1 DEF CourseTyped
<1>3. \A i \in 1 .. n : R[i].f \in Int /\ R[i].p \in Nat /\ z(R[i].f) \in Nat /\ z(R[i].f) >= 6
  BY <1>1 DEF CourseTyped
<1>4. R[k].f = b /\ b \in Int
  BY <1>2, <1>3
<1> HIDE DEF n, z
<1>5. \A i \in 1 .. n - 1 : /\ i < k => i \in 1 .. n /\ C[i] = R[i]
                            /\ ~(i < k) => i + 1 \in 1 .. n /\ C[i] = R[i + 1]
  BY <1>2
<1>6. \A i \in 1 .. Len(C) : C[i].f # b => C[i].p <= z(C[i].f) /\ ~Wrong(C[i], side, s)
  BY <1>1, <1>2, <1>5
<1>7. \A i \in 1 .. Len(C) - 1 : Follows(C[i], C[i + 1], side, s, b)
  <2> TAKE i \in 1 .. Len(C) - 1
  <2>1. i \in 1 .. n - 1 /\ i + 1 \in 1 .. n - 1 /\ i \in 1 .. n /\ i + 1 \in 1 .. n
        /\ i + 2 \in 1 .. n /\ (i + 1) + 1 = i + 2 /\ i \in Int
    BY <1>2
  <2>2. CASE i + 1 < k
    <3>1. C[i] = R[i] /\ C[i + 1] = R[i + 1]
      BY <2>1, <2>2, <1>2, <1>5
    <3> QED
      BY <2>1, <3>1, <1>1 DEF Follows, z
  <2>3. CASE i + 1 = k
    <3> DEFINE x == R[i]
               y == R[i + 2]
               w == R[k]
    <3>1. C[i] = x /\ C[i + 1] = y
      BY <2>1, <2>3, <1>2, <1>5
    <3>2. \/ w.f = x.f /\ w.p = x.p + 1
          \/ w.f = x.f + 1 /\ x.p = z(x.f) /\ w.p = 1
      BY <2>1, <2>3, <1>1
    <3>3. \/ y.f = w.f /\ y.p = w.p + 1
          \/ y.f = w.f + 1 /\ w.p = z(w.f) /\ y.p = 1
      BY <2>1, <2>3, <1>1
    <3>4. x.f \in Int /\ y.f \in Int /\ w.f = b /\ x.p \in Nat /\ y.p \in Nat /\ z(b) >= 6 /\ z(b) \in Nat
      BY <2>1, <2>3, <1>3, <1>4
    <3> HIDE DEF x, y, w
    <3>5. \/ x.f = b /\ y.f = b
          \/ x.f = b /\ y.f = b + 1 /\ y.p = 1
          \/ y.f = b /\ y.f = x.f + 1 /\ x.p = z(x.f)
      BY <3>2, <3>3, <3>4
    <3>6. Follows(x, y, side, s, b)
      BY <3>4, <3>5 DEF Follows, z
    <3> QED
      BY <3>1, <3>6
  <2>4. CASE i + 1 > k
    <3>1. C[i] = R[i + 1] /\ C[i + 1] = R[i + 2]
      BY <2>1, <2>4, <1>2, <1>5
    <3>2. \/ R[i + 2].f = R[i + 1].f /\ R[i + 2].p = R[i + 1].p + 1
          \/ R[i + 2].f = R[i + 1].f + 1 /\ R[i + 1].p = z(R[i + 1].f) /\ R[i + 2].p = 1
      BY <2>1, <1>1
    <3> QED
      BY <3>1, <3>2 DEF Follows, z
  <2> QED
    BY <2>1, <2>2, <2>3, <2>4, <1>2
<1>8. ASSUME C # << >>
      PROVE  C[Len(C)].f = Len(s) /\ (Len(s) # b => C[Len(C)].p = z(Len(s)))
  <2>1. Len(C) # 0
    BY <1>8
  <2>2. n - 1 \in 1 .. n - 1 /\ n - 1 \in 1 .. n /\ (n - 1) + 1 = n /\ n \in 1 .. n
    BY <2>1, <1>2
  <2>3. CASE k < n
    <3>1. C[n - 1] = R[n]
      <4>1. ~(n - 1 < k)
        BY <2>3, <1>2
      <4> QED
        BY <4>1, <2>2, <1>5
    <3> QED
      BY <3>1, <1>1, <1>2
  <2>4. CASE k = n
    <3>1. C[n - 1] = R[n - 1]
      BY <2>2, <2>4, <1>2, <1>5
    <3>2. \/ R[n].f = R[n - 1].f
          \/ R[n].f = R[n - 1].f + 1 /\ R[n].p = 1
      BY <2>2, <1>1
    <3>3. R[n].p >= 6 /\ R[n].f = Len(s)
      BY <2>2, <1>1, <1>3
    <3>4. R[n - 1].f = Len(s) /\ Len(s) = b
      BY <2>4, <3>2, <3>3, <1>4
    <3> QED
      BY <3>1, <3>4, <1>2
  <2> QED
    BY <2>3, <2>4, <1>2
<1>9. Course(C, side, s, b)
  BY <1>6, <1>7, <1>8 DEF Course, z
<1>10. /\ C # << >> => Placed(C[1], side, s, b)
       /\ Over(C, s) <= b
  <2>1. CASE C = << >>
    <3>1. n = 1 /\ k = n
      <4>1. Len(C) = 0
        BY <2>1
      <4> QED
        BY <4>1, <1>2
    <3>2. Over(C, s) = b
      BY <2>1, <3>1, <1>1, <1>4 DEF Over
    <3> QED
      BY <2>1, <3>2, <1>4
  <2>2. CASE C # << >>
    <3>1. 1 \in 1 .. n - 1 /\ 1 \in 1 .. n /\ 1 + 1 = 2 /\ 2 \in 1 .. n
      <4>1. Len(C) # 0
        BY <2>2
      <4> QED
        BY <4>1, <1>2
    <3>2. Over(C, s) = C[1].f - 1
      BY <2>2 DEF Over
    <3>3. CASE 1 < k
      <4>1. C[1] = R[1]
        BY <3>1, <3>3, <1>5
      <4> QED
        BY <3>1, <3>2, <4>1, <1>1, <1>3, <1>4 DEF Placed
    <3>4. CASE k = 1
      <4>1. C[1] = R[2]
        BY <3>1, <3>4, <1>5
      <4>2. R[2].f = R[1].f \/ (R[2].f = R[1].f + 1 /\ R[2].p = 1)
        BY <3>1, <1>1
      <4> QED
        BY <3>1, <3>2, <3>4, <4>1, <4>2, <1>3, <1>4 DEF Placed
    <3> QED
      BY <3>3, <3>4, <1>2
  <2> QED
    BY <2>1, <2>2
<1>11. Listed(g)
  BY DEF OnCourse
<1> QED
  BY <1>9, <1>10, <1>11 DEF OnCourse, Told

LEMMA AstrayFlip ==
  ASSUME LinkTypes, AstrayBody, broken = 0, NEW v \in Byte, Flip(v), broken' # 0
  PROVE  AstrayBody'
<1> DEFINE side == scenario.side
           M == scenario.messages
           T == Tagged(sent)
           R == buffer \o line
           C == buffer \o line'
           c == line[1]
           k == Len(buffer) + 1
           x == [c EXCEPT !.b = v]
<1>1. sent \in Seq(M) /\ \A y \in M : Message(side, y)
  BY ScenarioRight DEF LinkTypes
<1>2. /\ line # << >> /\ line' = [line EXCEPT ![1].b = v] /\ broken' = c.f
      /\ UNCHANGED <<scenario, rx_sync, buffer, pc, sent, got>>
  BY DEF Flip
<1>3. /\ line \in Seq(T) /\ buffer \in Seq(T) /\ OnCourse(R, side, sent, 0, got)
      /\ Waits(buffer, rx_sync, pc, side)
  BY DEF AstrayBody
<1> HIDE DEF T
<1>4. c \in T /\ 1 \in 1 .. Len(line)
  BY <1>2, <1>3, FirstAndRest
<1>5. x \in T /\ x.f = c.f /\ x.p = c.p
  BY <1>4 DEF T, Tagged
<1>6. /\ line' \in Seq(T) /\ Len(line') = Len(line) /\ line'[1] = x
      /\ \A i \in 1 .. Len(line) : i # 1 => line'[i] = line[i]
  <2>1. line' = [line EXCEPT ![1] = x]
    BY <1>2
  <2> HIDE DEF x, c
  <2> QED
    BY <2>1, <1>3, <1>4, <1>5
<1> HIDE DEF x
<1>7. /\ R \in Seq(T) /\ Len(R) = Len(buffer) + Len(line)
      /\ (\A i \in 1 .. Len(buffer) : R[i] = buffer[i])
      /\ (\A i \in 1 .. Len(line) : R[Len(buffer) + i] = line[i])
  BY <1>3, JoinedRight
<1>8. /\ C \in Seq(T) /\ Len(C) = Len(buffer) + Len(line')
      /\ (\A i \in 1 .. Len(buffer) : C[i] = buffer[i])
      /\ (\A i \in 1 .. Len(line') : C[Len(buffer) + i] = line'[i])
  <2> DEFINE K == line'
  <2>1. K \in Seq(T) /\ buffer \in Seq(T)
    BY <1>3, <1>6
  <2> HIDE DEF K
  <2>2. /\ buffer \o K \in Seq(T) /\ Len(buffer \o K) = Len(buffer) + Len(K)
        /\ (\A i \in 1 .. Len(buffer) : (buffer \o K)[i] = buffer[i])
        /\ (\A i \in 1 .. Len(K) : (buffer \o K)[Len(buffer) + i] = K[i])
    BY <2>1, JoinedRight
  <2> QED
    BY <2>2 DEF K
<1>9. Len(buffer) \in Nat /\ Len(line) \in Nat
  BY <1>3
<1> HIDE DEF C, R, c, k, side, M
<1>10. k \in 1 .. Len(R) /\ R[k] = c /\ C[k] = x /\ Len(C) = Len(R)
  BY <1>4, <1>6, <1>7, <1>8, <1>9 DEF k, c
<1>11. \A i \in 1 .. Len(R) : i # k => C[i] = R[i]
  <2> TAKE i \in 1 .. Len(R)
  <2> HAVE i # k
  <2>1. CASE i <= Len(buffer)
    <3>1. i \in 1 .. Len(buffer)
      BY <2>1
    <3> QED
      BY <3>1, <1>7, <1>8
  <2>2. CASE i > Len(buffer)
    <3>1. i - Len(buffer) \in 1 .. Len(line) /\ i - Len(buffer) # 1
          /\ Len(buffer) + (i - Len(buffer)) = i
      BY <2>2, <1>7, <1>9 DEF k
    <3>2. C[Len(buffer) + (i - Len(buffer))] = line'[i - Len(buffer)]
      BY <3>1, <1>6, <1>8
    <3>3. R[Len(buffer) + (i - Len(buffer))] = line[i - Len(buffer)]
      BY <3>1, <1>7
    <3> QED
      BY <3>1, <3>2, <3>3, <1>6
  <2> QED
    BY <2>1, <2>2, <1>9
<1>12. \A i \in 1 .. Len(R) : C[i].f = R[i].f /\ C[i].p = R[i].p /\ (i # k => C[i].b = R[i].b)
  BY <1>5, <1>10, <1>11
<1>13. OnCourse(C, side, sent, c.f, got)
  <2> DEFINE b == c.f
  <2>1. b = R[k].f
    BY <1>10
  <2>2. C \in Seq(Tagged(sent))
    BY <1>8 DEF T
  <2> HIDE DEF b
  <2>3. OnCourse(C, side, sent, b, got)
    BY <2>1, <2>2, <1>1, <1>3, <1>10, <1>12, CourseFlipped
  <2> QED
    BY <2>3 DEF b
<1>14. c.f \in 0 .. Len(sent)
  BY <1>4 DEF T, Tagged
<1>15. /\ line' \in Seq(Tagged(sent')) /\ buffer' \in Seq(Tagged(sent'))
       /\ broken' \in 0 .. Len(sent')
  BY <1>2, <1>3, <1>6, <1>14 DEF T
<1>16. OnCourse(buffer' \o line', scenario'.side, sent', broken', got')
  BY <1>2, <1>13 DEF C, side
<1>17. Waits(buffer', rx_sync', pc', scenario'.side)
  BY <1>2, <1>3 DEF side
<1> QED
  BY <1>15, <1>16, <1>17 DEF AstrayBody

LEMMA AstrayLose ==
  ASSUME LinkTypes, AstrayBody, broken = 0, Lose
  PROVE  AstrayBody'
<1> DEFINE side == scenario.side
           M == scenario.messages
           T == Tagged(sent)
           R == buffer \o line
           V == Tail(line)
           C == buffer \o V
           c == line[1]
           n == Len(buffer)
           k == n + 1
<1>1. sent \in Seq(M) /\ \A y \in M : Message(side, y)
  BY ScenarioRight DEF LinkTypes
<1>2. /\ line # << >> /\ line' = V /\ broken' = c.f
      /\ UNCHANGED <<scenario, rx_sync, buffer, pc, sent, got>>
  BY DEF Lose
<1>3. /\ line \in Seq(T) /\ buffer \in Seq(T) /\ OnCourse(R, side, sent, 0, got)
      /\ Waits(buffer, rx_sync, pc, side)
  BY DEF AstrayBody
<1> HIDE DEF T
<1>4. c \in T /\ V \in Seq(T) /\ Len(V) = Len(line) - 1 /\ 1 \in 1 .. Len(line)
      /\ \A i \in 1 .. Len(V) : V[i] = line[i + 1] /\ i + 1 \in 1 .. Len(line)
  <2>1. c \in T /\ V \in Seq(T) /\ Len(V) = Len(line) - 1 /\ 1 \in 1 .. Len(line)
    BY <1>2, <1>3
  <2>2. \A i \in 1 .. Len(line) - 1 : V[i] = line[i + 1] /\ i + 1 \in 1 .. Len(line)
    BY <1>2, <1>3
  <2> QED
    BY <2>1, <2>2
<1> HIDE DEF V
<1>5. /\ R \in Seq(T) /\ Len(R) = n + Len(line)
      /\ (\A i \in 1 .. n : R[i] = buffer[i])
      /\ (\A i \in 1 .. Len(line) : R[n + i] = line[i])
  BY <1>3, JoinedRight
<1>6. /\ C \in Seq(T) /\ Len(C) = n + Len(V)
      /\ (\A i \in 1 .. n : C[i] = buffer[i])
      /\ (\A i \in 1 .. Len(V) : C[n + i] = V[i])
  <2>1. buffer \in Seq(T) /\ V \in Seq(T)
    BY <1>3, <1>4
  <2> QED
    BY <2>1, JoinedRight
<1>7. n \in Nat /\ Len(line) \in Nat
  BY <1>3
<1> HIDE DEF C, R, c, k, n, side, M
<1>8. k \in 1 .. Len(R) /\ R[k] = c /\ Len(C) = Len(R) - 1
  BY <1>4, <1>5, <1>6, <1>7 DEF k, c
<1>9. \A i \in 1 .. Len(C) : C[i] = IF i < k THEN R[i] ELSE R[i + 1]
  <2> TAKE i \in 1 .. Len(C)
  <2>1. CASE i <= n
    <3>1. i \in 1 .. n /\ i < k
      BY <2>1, <1>7 DEF k
    <3> QED
      BY <3>1, <1>5, <1>6
  <2>2. CASE i > n
    <3> DEFINE j == i - n
    <3>1. j \in 1 .. Len(V) /\ n + j = i /\ ~(i < k) /\ n + (j + 1) = i + 1
      BY <2>2, <1>4, <1>6, <1>7 DEF k
    <3> HIDE DEF j
    <3>2. C[n + j] = V[j] /\ V[j] = line[j + 1] /\ R[n + (j + 1)] = line[j + 1]
      BY <3>1, <1>4, <1>5, <1>6
    <3> QED
      BY <3>1, <3>2
  <2> QED
    BY <2>1, <2>2, <1>7
<1>10. OnCourse(C, side, sent, c.f, got)
  <2> DEFINE b == c.f
  <2>1. b = R[k].f
    BY <1>8
  <2>2. C \in Seq(Tagged(sent))
    BY <1>6 DEF T
  <2> HIDE DEF b
  <2>3. OnCourse(C, side, sent, b, got)
    BY <2>1, <2>2, <1>1, <1>3, <1>8, <1>9, CourseLost
  <2> QED
    BY <2>3 DEF b
<1>11. c.f \in 0 .. Len(sent)
  BY <1>4 DEF T, Tagged
<1>12. /\ line' \in Seq(Tagged(sent')) /\ buffer' \in Seq(Tagged(sent'))
       /\ broken' \in 0 .. Len(sent')
  BY <1>2, <1>3, <1>4, <1>11 DEF T
<1>13. OnCourse(buffer' \o line', scenario'.side, sent', broken', got')
  BY <1>2, <1>10 DEF C, side
<1>14. Waits(buffer', rx_sync', pc', scenario'.side)
  BY <1>2, <1>3 DEF side
<1> QED
  BY <1>12, <1>13, <1>14 DEF AstrayBody

LEMMA AstrayStarts ==
  ASSUME LinkInit
  PROVE  AstrayInv
<1>1. scenario \in Scenarios /\ line = << >> /\ buffer = << >> /\ sent = << >> /\ got = << >>
      /\ broken = 0 /\ flips = 0 /\ losses = 0 /\ rx_sync = 0 /\ pc = "read"
  BY DEF LinkInit
<1>2. LinkTypes /\ losses \in Nat
  BY <1>1 DEF LinkTypes
<1> DEFINE side == scenario.side
           R == buffer \o line
           T == Tagged(sent)
<1>3. R = << >> /\ line \in Seq(T) /\ buffer \in Seq(T) /\ R \in Seq(T) /\ Len(R) = 0
      /\ Len(buffer) = 0 /\ broken \in 0 .. Len(sent)
  BY <1>1
<1> HIDE DEF R, side, T
<1>4. Course(R, side, sent, broken)
  BY <1>3 DEF Course, T
<1>5. Listed(got)
  <2> DEFINE S == {}
  <2>1. got \in Seq(S)
    BY <1>1
  <2> HIDE DEF S
  <2> QED
    BY <2>1, ListedRight
<1>6. OnCourse(R, side, sent, broken, got)
  BY <1>1, <1>3, <1>4, <1>5 DEF OnCourse, Told
<1>7. Waits(buffer, rx_sync, pc, side)
  <2>1. UpWaits(buffer, rx_sync)
    BY <1>1 DEF UpWaits
  <2>2. DownWaits(buffer, pc)
    BY <1>1, <1>3 DEF DownWaits
  <2> QED
    BY <2>1, <2>2, <1>1 DEF Waits
<1>8. AstrayBody
  BY <1>3, <1>6, <1>7 DEF AstrayBody, R, side, T
<1> QED
  BY <1>1, <1>2, <1>8 DEF AstrayInv

\* The steps of the parsers
LEMMA AstrayKept ==
  ASSUME AstrayInv, UNCHANGED <<scenario, sent, broken, flips, losses>>,
         pc = "dead" => pc' = "dead",
         LinkTypes /\ Plain /\ AstrayBody /\ pc' # "dead" => AstrayBody'
  PROVE  AstrayInv'
<1>1. LinkTypes' /\ LinkTypes /\ losses' \in Nat /\ (flips' + losses' = 0 => broken' = 0)
  BY DEF AstrayInv, LinkTypes
<1>2. Once' => Once /\ pc' # "dead"
  BY DEF Once, Plain
<1>3. Once => Plain /\ AstrayBody
  BY DEF AstrayInv, Once
<1> QED
  BY <1>1, <1>2, <1>3 DEF AstrayInv

\* The steps of the noise
LEMMA AstrayDamaged ==
  ASSUME AstrayInv, UNCHANGED <<scenario, sent, pc>>,
         flips' \in Nat, losses' \in Nat, flips' + losses' = flips + losses + 1,
         LinkTypes /\ AstrayBody /\ broken = 0 /\ broken' # 0 => AstrayBody'
  PROVE  AstrayInv'
<1>1. LinkTypes' /\ LinkTypes
  BY DEF AstrayInv, LinkTypes
<1>2. flips \in Nat /\ losses \in Nat /\ (flips + losses = 0 => broken = 0)
  BY DEF AstrayInv, LinkTypes
<1>3. flips' + losses' # 0 /\ (flips' + losses' = 1 => flips + losses = 0)
  <2> DEFINE i == flips
             j == losses
             k == flips'
             l == losses'
  <2>1. i \in Nat /\ j \in Nat /\ k \in Nat /\ l \in Nat /\ k + l = i + j + 1
    BY <1>2, Zenon
  <2> HIDE DEF i, j, k, l
  <2>2. k + l # 0 /\ (k + l = 1 => i + j = 0)
    BY <2>1
  <2> QED
    BY <2>2, Zenon DEF i, j, k, l
<1>4. Once' => Once /\ broken = 0 /\ broken' # 0
  <2> SUFFICES ASSUME Once'
               PROVE  Once /\ broken = 0 /\ broken' # 0
    OBVIOUS
  <2>1. Plain' /\ pc' # "dead" /\ flips' + losses' = 1 /\ broken' # 0
    BY <1>3 DEF Once
  <2>2. flips + losses = 0
    BY <2>1, <1>3
  <2> QED
    BY <2>1, <2>2, <1>2 DEF Once, Plain
<1>5. Once => AstrayBody
  BY DEF AstrayInv
<1> QED
  BY <1>1, <1>3, <1>4, <1>5 DEF AstrayInv

LEMMA AstraySteps ==
  ASSUME AstrayInv, [LinkNext]_linkVars
  PROVE  AstrayInv'
<1>0. flips \in Nat /\ losses \in Nat
  BY DEF AstrayInv, LinkTypes
<1>1. CASE UNCHANGED linkVars
  BY <1>1, AstrayKept DEF AstrayBody, linkVars
<1>2. ASSUME NEW m \in scenario.messages, Send(m)
      PROVE  AstrayInv'
  <2>1. sent' = Append(sent, m) /\ UNCHANGED <<scenario, pc, broken, flips, losses>>
    BY <1>2 DEF Send
  <2>2. sent \in Seq(scenario.messages) /\ LinkTypes
    BY DEF AstrayInv, LinkTypes
  <2>3. /\ sent' \in Seq(scenario.messages) /\ Len(sent') = Len(sent) + 1 /\ Len(sent) \in Nat
        /\ \A k \in 1 .. Len(sent) : sent'[k] = sent[k] /\ k \in 1 .. Len(sent) + 1
    BY <2>1, <2>2, SentRight
  <2>4. LinkTypes'
    BY <2>1, <2>2, <2>3 DEF LinkTypes
  <2>5. Plain' => Plain
    BY <2>1, <2>3 DEF Plain
  <2>6. Once' => Once
    BY <2>1, <2>5 DEF Once
  <2>7. Once => AstrayBody'
    BY <1>2, <2>2, AstraySend DEF AstrayInv
  <2> QED
    BY <2>1, <2>4, <2>6, <2>7 DEF AstrayInv
<1>3. ASSUME NEW v \in Byte, Flip(v)
      PROVE  AstrayInv'
  <2>1. UNCHANGED <<scenario, sent, pc>> /\ flips' = flips + 1 /\ losses' = losses
    BY <1>3 DEF Flip
  <2>2. flips' \in Nat /\ losses' \in Nat /\ flips' + losses' = flips + losses + 1
    BY <2>1, <1>0
  <2>3. LinkTypes /\ AstrayBody /\ broken = 0 /\ broken' # 0 => AstrayBody'
    BY <1>3, AstrayFlip
  <2> QED
    BY <2>1, <2>2, <2>3, AstrayDamaged
<1>4. CASE Lose
  <2>1. UNCHANGED <<scenario, sent, pc>> /\ losses' = losses + 1 /\ flips' = flips
    BY <1>4 DEF Lose
  <2>2. flips' \in Nat /\ losses' \in Nat /\ flips' + losses' = flips + losses + 1
    BY <2>1, <1>0
  <2>3. LinkTypes /\ AstrayBody /\ broken = 0 /\ broken' # 0 => AstrayBody'
    BY <1>4, AstrayLose
  <2> QED
    BY <2>1, <2>2, <2>3, AstrayDamaged
<1>5. CASE FeedSync
  BY <1>5, AstrayFeedSync, AstrayKept DEF FeedSync
<1>6. CASE FeedFrame
  BY <1>6, AstrayFeedFrame, AstrayKept DEF FeedFrame
<1>7. ASSUME NEW n \in 1 .. Len(line), Read(n)
      PROVE  AstrayInv'
  BY <1>7, AstrayRead, AstrayKept DEF Read
<1>8. CASE ParseSkip
  BY <1>8, AstrayParseSkip, AstrayKept DEF ParseSkip
<1>9. CASE ParseFrame
  BY <1>9, AstrayParseFrame, AstrayKept DEF ParseFrame
<1>10. CASE ParseWait
  BY <1>10, AstrayParseWait, AstrayKept DEF ParseWait
<1> QED
  BY <1>1, <1>2, <1>3, <1>4, <1>5, <1>6, <1>7, <1>8, <1>9, <1>10 DEF LinkNext

\* How many whole frames may be lost
LEMMA SwallowedRight ==
  ASSUME NEW l \in Nat, l >= 7, NEW z \in Nat, z >= 6, NEW q, q = (l - 1 + z - 1) \div z,
         NEW a \in Int, NEW c \in Nat, a > c + q
  PROVE  (a - 1 - c) * z + 2 > l
<1> DEFINE u == l - 1 + z - 1
           v == q * z
           r == u % z
           e == a - 1 - c - q
           w == (a - 1 - c) * z
<1>1. u \in Nat /\ u = l + z - 2
  OBVIOUS
<1>2. q \in Int /\ r \in 0 .. z - 1 /\ u = z * q + r
  <2> HIDE DEF u
  <2>1. u \div z \in Int /\ u % z \in 0 .. z - 1 /\ u = z * (u \div z) + (u % z)
    BY <1>1
  <2>2. q = u \div z
    BY DEF u
  <2> QED
    BY <2>1, <2>2
<1>3. z * q = v /\ v \in Int
  BY <1>2
<1>4. e \in Nat /\ w = v + e * z
  BY <1>2
<1>5. e * z \in Nat
  <2> HIDE DEF e
  <2>1. \A i, j \in Nat : i * j \in Nat
    OBVIOUS
  <2> QED
    BY <2>1, <1>4
<1> DEFINE t == e * z
<1>6. t \in Nat /\ w = v + t
  BY <1>4, <1>5
<1> HIDE DEF u, v, r, e, w, t
<1>7. w + 2 > l
  BY <1>1, <1>2, <1>3, <1>6
<1> QED
  BY <1>7 DEF w

\* A parser that waits for more, and has everything, is in the last frame that is
\* near, if it is in one at all.
LEMMA NothingLeft ==
  ASSUME NEW side, NEW M, NEW s \in Seq(M), \A x \in M : Message(side, x),
         \A k \in 1 .. Len(s) : IsPlain(side, s[k]),
         NEW b \in 1 .. Len(s), NEW R, NEW g, OnCourse(R, side, s, b, g), R # << >>,
         NEW sync, Waits(R, sync, "read", side),
         NEW z \in Nat, z >= 6, Least(side, s, z), b < Len(s)
  PROVE  (Len(s) - 1 - b) * z + 2 <= Longest(side)
<1> DEFINE n == Len(R)
           l == Len(s)
           f == R[1].f
           u == (l - 1 - b) * z
           L == Longest(side)
<1>1. Course(R, side, s, b) /\ Placed(R[1], side, s, b)
  BY DEF OnCourse
<1>2. CourseTyped(R, side, M, s, b)
  BY <1>1, CourseRight
<1>3. n \in Nat /\ 1 \in 1 .. n /\ n \in 1 .. n /\ l \in Nat /\ b \in Nat /\ b \in Int
  BY <1>2 DEF CourseTyped
<1>4. R[n].f = l /\ R[n].p = Size(side, s[l]) /\ R[n].p \in Nat /\ R[n].p >= 6
  <2>1. R[n].f = l /\ R[n].p = Size(side, s[l])
    BY <1>1, <1>3 DEF Course
  <2> QED
    BY <2>1, <1>2, <1>3 DEF CourseTyped
<1>5. f \in 1 .. l /\ f \in Int
  BY <1>2, <1>3 DEF CourseTyped
<1>6. L \in Nat /\ L >= 7
  BY LongestRight
\* What it has read
<1>7. \/ n < 5
      \/ Starts(R) /\ Declared(R) <= L - 6 /\ n < 6 + Declared(R) /\ n >= 5
  <2>1. CASE side = "up"
    <3>1. UpWaits(R, sync)
      BY <2>1 DEF Waits
    <3> HIDE DEF L
    <3>2. sync = 1 \/ sync = 2
      BY <3>1 DEF UpWaits
    <3>3. sync = 1 => n < 5
      <4>1. sync = 1 => n = 1
        BY <3>1, Zenon DEF UpWaits
      <4> HIDE DEF n
      <4> QED
        BY <4>1
    <3>4. sync = 2 => n < 5 \/ (Starts(R) /\ Declared(R) <= L - 6 /\ n < 6 + Declared(R))
      BY <2>1, <3>1 DEF UpWaits, Awaits, L
    <3> QED
      BY <3>2, <3>3, <3>4, <1>3
  <2>2. CASE side # "up"
    <3>1. DownWaits(R, "read")
      BY <2>2 DEF Waits
    <3>2. Longest(side) = Longest("down")
      BY <2>2 DEF Longest
    <3> QED
      BY <3>1, <3>2, <1>3 DEF DownWaits, Awaits
  <2> QED
    BY <2>1, <2>2
<1>8. n >= 5 => Declared(R) \in Nat
  <2>1. R \in Seq(Tagged(s))
    BY <1>1 DEF Course
  <2> QED
    BY <2>1, DeclaredRight
<1>9. n < L
  <2> DEFINE d == Declared(R)
  <2> HIDE DEF d, n, L
  <2>1. n < 5 \/ (d <= L - 6 /\ n < 6 + d /\ n >= 5)
    BY <1>7 DEF d
  <2> QED
    BY <2>1, <1>3, <1>6, <1>8 DEF d
\* It is not at the beginning of a frame.
<1>10. ~(R[1].p = 1 /\ f # b)
  <2> SUFFICES ASSUME R[1].p = 1, f # b
               PROVE  FALSE
    OBVIOUS
  <2> DEFINE m == s[f]
             k == Len(Data(side, m))
             data == [i \in 1 .. k |-> R[5 + i].b]
             E == SubSeq(R, Size(side, m) + 1, Len(R))
  <2>1. FrameAt(side, s, R, f, m, k, data, E)
    BY DEF FrameAt
  <2> HIDE DEF m, k, data, E, f
  <2>2. Regular(side, M, s, b, R, f, m, k, data, E)
    BY <2>1, <1>1, RegularFrame DEF f
  <2>3. k \in Nat /\ 6 + k \in 6 .. n /\ Declared(R) = k
    BY <2>2 DEF Regular, Declared
  <2> QED
    BY <2>3, <1>3, <1>7
<1>11. b <= f
  BY <1>3, <1>5, <1>10, <1>1 DEF Placed
<1>12. f <= l /\ (f < l => (l - 1 - f) * z + R[n].p <= n - 1)
  <2> DEFINE i == 1
  <2>1. i \in 1 .. Len(R) /\ b <= R[i].f /\ n \in i .. Len(R)
    BY <1>3, <1>11
  <2> HIDE DEF i
  <2>2. R[i].f <= R[n].f /\ (R[i].f < R[n].f => (R[n].f - 1 - R[i].f) * z + R[n].p <= n - i)
    BY <2>1, <1>1, <1>3, Counted
  <2> QED
    BY <2>2, <1>4 DEF i
<1>13. CASE f = b
  <2>1. u + R[n].p <= n - 1
    BY <1>12, <1>13
  <2>2. u \in Int
    BY <1>3
  <2> HIDE DEF u, n, L
  <2>3. u + 2 <= L
    BY <2>1, <2>2, <1>3, <1>4, <1>6, <1>9
  <2> QED
    BY <2>3 DEF u, L
<1>14. CASE f # b
  <2>1. b < f /\ Near(side, s, b, f) /\ R[1].p # 1
    BY <1>1, <1>10, <1>14 DEF Placed
  <2>2. CASE f = l
    BY <2>1, <2>2 DEF Near
  <2>3. CASE f # l
    <3> DEFINE e == l - 1 - f
               t == e * z
    <3>1. e \in Nat /\ t + R[n].p <= n - 1
      BY <2>3, <1>3, <1>5, <1>12
    <3>2. t \in Nat
      <4> HIDE DEF e
      <4>1. \A i, j \in Nat : i * j \in Nat
        OBVIOUS
      <4> QED
        BY <4>1, <3>1
    <3> HIDE DEF t, e, n
    <3>3. n >= 7
      BY <3>1, <3>2, <1>3, <1>4
    <3>4. R[1].b # SYNC1 \/ R[2].b # SYNC2
      <4>1. 2 <= Len(R)
        BY <3>3 DEF n
      <4> QED
        BY <4>1, <2>1, <1>1, <1>3, NoStart
    <3> QED
      BY <3>3, <3>4, <1>3, <1>7 DEF Starts
  <2> QED
    BY <2>2, <2>3
<1> QED
  BY <1>13, <1>14

LEMMA ResynchronisesFollows ==
  ASSUME AstrayInv
  PROVE  Resynchronises
<1> DEFINE side == scenario.side
           M == scenario.messages
           R == buffer \o line
           l == Len(sent)
           Z(k) == Size(side, sent[k])
           sizes == {Len(Pack(sent[k])) : k \in DOMAIN sent}
<1>1. scenario \in Scenarios /\ sent \in Seq(M)
  BY DEF AstrayInv, LinkTypes
<1>2. /\ \A x \in M : Message(side, x)
      /\ Up <=> side = "up"
      /\ \A m : Pack(m) = Packed(side, m)
      /\ \A m : Oversize(m) <=> TooLong(side, m)
  BY <1>1, ScenarioRight
<1>3. DOMAIN sent = 1 .. l /\ l \in Nat
  BY <1>1
<1>4. SUFFICES ASSUME Drained, broken # 0, flips + losses = 1,
                      \A k \in DOMAIN sent : ~Oversize(sent[k]) /\
                        \A j \in 3 .. Len(Pack(sent[k])) - 1 : Pack(sent[k])[j] # SYNC1,
                      sent[l].cmd # "CMD_RSP",
                      NEW size \in sizes, \A other \in sizes : size <= other,
                      l > broken + Swallowed(size)
               PROVE  got # << >> /\ got[Len(got)] = [m |-> Heard(sent[l]), f |-> l]
  BY Zenon DEF Resynchronises
<1>5. Plain
  BY <1>2, <1>3, <1>4 DEF Plain, IsPlain, Size
<1>6. Once /\ AstrayBody
  BY <1>4, <1>5 DEF AstrayInv, Once, Drained
<1>7. /\ OnCourse(R, side, sent, broken, got) /\ broken \in 1 .. l
      /\ Waits(buffer, rx_sync, pc, side) /\ R = buffer /\ pc = "read"
  <2> DEFINE T == Tagged(sent)
  <2>1. line = << >> /\ pc = "read" /\ buffer \in Seq(T)
    BY <1>4, <1>6 DEF AstrayBody, Drained
  <2> HIDE DEF T
  <2>2. buffer \o << >> = buffer
    BY <2>1, Empty
  <2> QED
    BY <2>1, <2>2, <1>4, <1>6 DEF AstrayBody
<1>8. /\ size \in Nat /\ size >= 6 /\ Least(side, sent, size)
  <2>1. sizes = {Z(k) : k \in 1 .. l}
    BY <1>2, <1>3 DEF Size
  <2>2. \A k \in 1 .. l : Z(k) \in Nat /\ Z(k) >= 6
    <3> TAKE k \in 1 .. l
    <3>1. Message(side, sent[k])
      BY <1>1, <1>2
    <3> QED
      BY <3>1, SizeRight
  <2> HIDE DEF sizes, Z
  <2>3. size \in Nat /\ size >= 6 /\ \A k \in 1 .. l : size <= Z(k)
    BY <2>1, <2>2, <1>4
  <2> QED
    BY <2>3 DEF Least, Z
<1>9. (l - 1 - broken) * size + 2 > Longest(side) /\ broken < l
  <2> DEFINE L == Longest(side)
             q == (L - 1 + size - 1) \div size
  <2>1. L \in Nat /\ L >= 7
    BY LongestRight
  <2>2. Swallowed(size) = q
    BY <1>2 DEF Swallowed, LongestFrame, Longest
  <2>3. l \in Int /\ broken \in Nat /\ l > broken + q
    BY <2>2, <1>3, <1>4, <1>7
  <2> DEFINE b == broken
             a == l
  <2>4. a \in Int /\ b \in Nat /\ a > b + q
    BY <2>3
  <2>5. q \in Nat
    <3> DEFINE u == L - 1 + size - 1
    <3>1. u \in Nat
      BY <2>1, <1>8
    <3> HIDE DEF u
    <3>2. u \div size \in Nat
      BY <3>1, <1>8
    <3> QED
      BY <3>2 DEF u
  <2>6. q = (L - 1 + size - 1) \div size
    OBVIOUS
  <2> HIDE DEF L, q, a, b
  <2>7. (a - 1 - b) * size + 2 > L
    BY <2>1, <2>4, <2>6, <1>8, SwallowedRight
  <2>8. b < a
    BY <2>4, <2>5
  <2> QED
    BY <2>7, <2>8 DEF L, a, b
<1>10. ~((l - 1 - broken) * size + 2 <= Longest(side))
  <2> DEFINE u == (l - 1 - broken) * size
             L == Longest(side)
  <2>1. u \in Int /\ L \in Nat /\ u + 2 > L
    BY <1>3, <1>7, <1>8, <1>9, LongestRight
  <2> HIDE DEF u, L
  <2>2. ~(u + 2 <= L)
    BY <2>1
  <2> QED
    BY <2>2 DEF u, L
<1> HIDE DEF R, side, M, sizes
<1>11. R = << >>
  <2> SUFFICES ASSUME R # << >>
               PROVE  FALSE
    OBVIOUS
  <2>1. \A k \in 1 .. Len(sent) : IsPlain(side, sent[k])
    BY <1>5 DEF Plain, side
  <2>2. Waits(R, rx_sync, "read", side)
    BY <1>7
  <2>3. (Len(sent) - 1 - broken) * size + 2 <= Longest(side)
    BY <2>1, <2>2, <1>1, <1>2, <1>7, <1>8, <1>9, NothingLeft
  <2> QED
    BY <2>3, <1>10
<1>12. Told(got, side, sent, broken, l)
  BY <1>7, <1>11 DEF OnCourse, Over
<1>13. ~Near(side, sent, broken, l)
  BY <1>8, <1>10 DEF Near
<1>14. ~(l <= broken)
  BY <1>3, <1>7, <1>9
<1> QED
  BY <1>4, <1>12, <1>13, <1>14 DEF Told

\* One byte that was changed or lost, and damaged the boundaries of a frame, costs
\* the receivers of both ends (rc_feed_byte of the MCU, _parse_rx of the bridge)
\* no more than the whole frames that fit in the longest one that they may wait
\* for: for every size of a byte and number of frames, and all messages that do
\* not hold the first synchronisation byte themselves.
THEOREM LinkResynchronises == LinkSpec => []Resynchronises
<1>1. LinkInit => AstrayInv
  BY AstrayStarts
<1>2. AstrayInv /\ [LinkNext]_linkVars => AstrayInv'
  BY AstraySteps
<1>3. AstrayInv => Resynchronises
  BY ResynchronisesFollows
<1> QED
  BY <1>1, <1>2, <1>3, PTL DEF LinkSpec

=============================================================================
