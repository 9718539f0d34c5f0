---------------------------- MODULE SerialBridge ----------------------------
(***************************************************************************)
(* The SerialBridge node of serial_bridge.py: the ROS executor, one thread *)
(* that runs the odometry subscription and the three timers, against the   *)
(* receive thread _rx_loop.  They share the port, its flags and the origin *)
(* _odom_offset that odometry is made relative to; of these only the       *)
(* origin and latest_odom are under self.lock.  The device can be          *)
(* unplugged and come back at any time, and the MCU can reset.             *)
(*                                                                         *)
(* A step is what runs between two accesses to shared attributes; a        *)
(* critical section of self.lock is one step.  Positions are small         *)
(* integers (one coordinate stands for all four).  Time since the last     *)
(* frame is kept as "never", "recent" (at most 1 s) and "stale".           *)
(***************************************************************************)
EXTENDS Integers

CONSTANTS Poses,      \* raw positions that the odometry reports
          NoOrigin,   \* _odom_offset is None
          External0   \* was a port opened before the node was created?

ASSUME PosesAssumption == Poses \subseteq Int /\ NoOrigin \notin Poses
ASSUME ExternalAssumption == External0 \in BOOLEAN

None == "none"

VARIABLES
  present, samePath,  \* a device is plugged in; under the path of self.ser
  signal,             \* the MCU's AB AB AB waits in the device's buffer
  ser,                \* self.ser: "none", "open", "stale" (device gone), "closed"
  serial_ok, was_lost,          \* serial_ok, _serial_was_lost
  fired,                        \* _heartbeat_fired
  lastFrame,                    \* age of _last_frame_time
  reset_detected, running,      \* _reset_detected (nothing sets it), running
  offset, latest, raw,          \* _odom_offset, latest_odom, last raw odometry
  epc, rpc,                     \* step of the executor, of the receive thread
  fires               \* history: heartbeat zeroings since the last frame (to 2)

bridgeEnv == <<present, samePath, signal>>
port == <<ser, serial_ok, was_lost>>
pose == <<offset, latest, raw>>
bridgeVars == <<bridgeEnv, port, fired, lastFrame, reset_detected, running, pose, epc, rpc,
          fires>>

\* _init_serial opens a port that is there before the node is made, or none.
_init_serial == IF External0 THEN "open" ELSE None

BridgeInit ==
  /\ present = External0 /\ samePath = TRUE /\ signal = FALSE
  /\ ser = _init_serial
  /\ serial_ok = External0
  /\ was_lost = FALSE
  /\ fired = FALSE
  /\ lastFrame = "never"
  /\ reset_detected = FALSE /\ running = TRUE
  /\ offset = NoOrigin /\ latest = 0 /\ raw = 0
  /\ epc = "spin" /\ rpc = "top"
  /\ fires = 0

\* self._odom_offset = None, under the lock
DropOrigin ==
  /\ offset' = NoOrigin
  /\ UNCHANGED <<latest, raw>>

-----------------------------------------------------------------------------
(* The executor *)

\* Fault: the pose is computed against the origin of the previous message.
odom_cb_Stale ==
  /\ epc = "spin"
  /\ \E x \in Poses :
       /\ raw' = x
       /\ latest' = IF offset = NoOrigin THEN x ELSE x - offset
       /\ offset' = IF offset = NoOrigin THEN x ELSE offset
       /\ fired' = IF offset = NoOrigin THEN FALSE ELSE fired
  /\ UNCHANGED <<bridgeEnv, port, lastFrame, reset_detected, running, epc, rpc, fires>>

\* The first odometry after the origin was dropped becomes the new origin.
odom_cb ==
  /\ epc = "spin"
  /\ \E x \in Poses :
       /\ raw' = x
       /\ offset' = IF offset = NoOrigin THEN x ELSE offset
       /\ latest' = x - offset'
       /\ fired' = IF offset = NoOrigin THEN FALSE ELSE fired
  /\ UNCHANGED <<bridgeEnv, port, lastFrame, reset_detected, running, epc, rpc, fires>>

\* send_odom and _write_serial: a write to a stale port fails.
send_odom ==
  /\ epc = "spin"
  /\ serial_ok /\ ser = "stale"
  /\ serial_ok' = FALSE
  /\ UNCHANGED <<bridgeEnv, ser, was_lost, fired, lastFrame, reset_detected, running,
                 pose, epc, rpc, fires>>

HeartbeatDue == lastFrame = "stale" /\ serial_ok /\ ~fired

_check_reset ==
  /\ epc = "spin"
  /\ reset_detected \/ HeartbeatDue
  /\ IF reset_detected
       THEN epc' = "down" /\ UNCHANGED <<fired, fires>>
       ELSE /\ fired' = TRUE
            /\ fires' = IF fires = 0 THEN 1 ELSE 2
            /\ epc' = "zero"
  /\ UNCHANGED <<bridgeEnv, port, lastFrame, reset_detected, running, pose, rpc>>

\* _odom_offset = None at the end of _check_reset and of _retry_serial
ZeroOrigin ==
  /\ epc = "zero"
  /\ DropOrigin
  /\ epc' = "spin"
  /\ UNCHANGED <<bridgeEnv, port, fired, lastFrame, reset_detected, running, rpc, fires>>

\* _retry_serial: the path of an open port has vanished.
RetryLost ==
  /\ epc = "spin"
  /\ ser # None /\ serial_ok
  /\ ~(present /\ samePath)
  /\ was_lost' = TRUE
  /\ epc' = "close"
  /\ UNCHANGED <<bridgeEnv, ser, serial_ok, fired, lastFrame, reset_detected, running,
                 pose, rpc, fires>>

RetryClose ==
  /\ epc = "close"
  /\ ser' = "closed"
  /\ epc' = "forget"
  /\ UNCHANGED <<bridgeEnv, serial_ok, was_lost, fired, lastFrame, reset_detected,
                 running, pose, rpc, fires>>

RetryForget ==
  /\ epc = "forget"
  /\ ser' = None
  /\ epc' = "notok"
  /\ UNCHANGED <<bridgeEnv, serial_ok, was_lost, fired, lastFrame, reset_detected,
                 running, pose, rpc, fires>>

\* Fault: the port is gone but serial_ok keeps saying it is there.
RetryNotOk_Forgotten ==
  /\ epc = "notok"
  /\ epc' = "scan"
  /\ UNCHANGED <<bridgeEnv, port, fired, lastFrame, reset_detected, running, pose, rpc,
                 fires>>

RetryNotOk ==
  /\ epc = "notok"
  /\ serial_ok' = FALSE
  /\ epc' = "scan"
  /\ UNCHANGED <<bridgeEnv, ser, was_lost, fired, lastFrame, reset_detected, running,
                 pose, rpc, fires>>

\* Fault: a port object that failed is kept and never opened again.
RetryScan_KeepPort ==
  /\ \/ epc = "spin" /\ ser = None /\ ~serial_ok
     \/ epc = "scan"
  /\ IF present
       THEN ser' = "open" /\ samePath' = TRUE /\ epc' = "opened"
       ELSE epc' = "spin" /\ UNCHANGED <<ser, samePath>>
  /\ UNCHANGED <<present, signal, serial_ok, was_lost, fired, lastFrame,
                 reset_detected, running, pose, rpc, fires>>

\* The scan of the device files; a port is opened and assigned to self.ser.
RetryScan ==
  /\ \/ epc = "spin" /\ ~(ser # None /\ serial_ok)
     \/ epc = "scan"
  /\ IF present
       THEN ser' = "open" /\ samePath' = TRUE /\ epc' = "opened"
       ELSE epc' = "spin" /\ UNCHANGED <<ser, samePath>>
  /\ UNCHANGED <<present, signal, serial_ok, was_lost, fired, lastFrame,
                 reset_detected, running, pose, rpc, fires>>

RetryOpened ==
  /\ epc = "opened"
  /\ serial_ok' = TRUE
  /\ fired' = (was_lost \/ fired)
  /\ epc' = IF was_lost THEN "zero" ELSE "spin"
  /\ UNCHANGED <<bridgeEnv, ser, was_lost, lastFrame, reset_detected, running, pose, rpc,
                 fires>>

\* Ctrl-C: destroy stops the receive thread and closes the port.
destroy ==
  /\ epc = "spin"
  /\ epc' = "down"
  /\ running' = FALSE
  /\ ser' = IF ser = None THEN None ELSE "closed"
  /\ UNCHANGED <<bridgeEnv, serial_ok, was_lost, fired, lastFrame, reset_detected, pose,
                 rpc, fires>>

RetrySteps == RetryClose \/ RetryForget \/ RetryNotOk \/ RetryOpened \/ ZeroOrigin
_retry_serial == RetryLost \/ RetryScan

-----------------------------------------------------------------------------
(* The receive thread *)

RxUnchanged == UNCHANGED <<present, samePath, ser, running, reset_detected,
                           epc>>

\* An attribute of None, or the descriptor of a closed port, is used: an
\* exception that _rx_loop does not catch ends the thread.  (read itself reports
\* a closed port with a SerialException, which is caught.)
Dies == ser \in {None, "closed"}

\* while self.running; if self.ser and self.ser.is_open: two reads of self.ser
RxTop ==
  /\ rpc = "top"
  /\ running => ser # None
  /\ rpc' = IF running THEN "isopen" ELSE "done"
  /\ RxUnchanged
  /\ UNCHANGED <<signal, serial_ok, was_lost, fired, lastFrame, pose, fires>>

RxIsOpen ==
  /\ rpc = "isopen"
  /\ rpc' = CASE ser = None -> "dead" [] ser = "closed" -> "top" [] OTHER -> "inwaiting"
  /\ RxUnchanged
  /\ UNCHANGED <<signal, serial_ok, was_lost, fired, lastFrame, pose, fires>>

\* in_waiting: an error on a stale port, else something to read or nothing
RxInWaiting ==
  /\ rpc = "inwaiting"
  /\ rpc' \in IF Dies THEN {"dead"}
              ELSE IF ser = "stale" THEN {"error"} ELSE {"read", "top"}
  /\ RxUnchanged
  /\ UNCHANGED <<signal, serial_ok, was_lost, fired, lastFrame, pose, fires>>

RxReadFails ==
  /\ rpc = "read"
  /\ ser # "open"
  /\ rpc' \in CASE ser = None -> {"dead"}
               [] ser = "closed" -> {"dead", "error"}
               [] OTHER -> {"error"}
  /\ RxUnchanged
  /\ UNCHANGED <<signal, serial_ok, was_lost, fired, lastFrame, pose, fires>>

\* What is read holds no reset signal, or only part of one: the rest comes
\* with the next read and three bytes in a row are never seen.
RxRead ==
  /\ rpc = "read"
  /\ ser = "open"
  /\ rpc' \in {"top", "frame"}
  /\ signal' \in {signal, FALSE}
  /\ RxUnchanged
  /\ UNCHANGED <<serial_ok, was_lost, fired, lastFrame, pose, fires>>

\* b'\xab\xab\xab' in data
RxReadSignal ==
  /\ rpc = "read"
  /\ ser = "open"
  /\ signal
  /\ signal' = FALSE
  /\ fired' = TRUE
  /\ rpc' = "zero"
  /\ RxUnchanged
  /\ UNCHANGED <<serial_ok, was_lost, lastFrame, pose, fires>>

RxZeroOrigin ==
  /\ rpc = "zero"
  /\ DropOrigin
  /\ rpc' \in {"top", "frame"}
  /\ RxUnchanged
  /\ UNCHANGED <<signal, serial_ok, was_lost, fired, lastFrame, fires>>

\* _parse_rx hands a frame to _handle_downlink, which notes the time; a frame
\* whose payload is short or whose STATUS is unknown raises there.
RxFrame ==
  /\ rpc = "frame"
  /\ lastFrame' = "recent"
  /\ fires' = 0
  /\ rpc' \in {"top", "dead"}
  /\ RxUnchanged
  /\ UNCHANGED <<signal, serial_ok, was_lost, fired, pose>>

\* except (OSError, SerialException): two assignments, then a sleep
RxError ==
  /\ rpc = "error"
  /\ serial_ok' = FALSE
  /\ rpc' = "lost"
  /\ RxUnchanged
  /\ UNCHANGED <<signal, was_lost, fired, lastFrame, pose, fires>>

RxLost ==
  /\ rpc = "lost"
  /\ was_lost' = TRUE
  /\ rpc' = "top"
  /\ RxUnchanged
  /\ UNCHANGED <<signal, serial_ok, fired, lastFrame, pose, fires>>

RxStep == RxTop \/ RxIsOpen \/ RxInWaiting \/ RxReadFails \/ RxRead \/ RxReadSignal
          \/ RxZeroOrigin \/ RxFrame \/ RxError \/ RxLost

-----------------------------------------------------------------------------
(* The device, the MCU and time *)

EnvUnchanged == UNCHANGED <<serial_ok, was_lost, fired, reset_detected, running, pose,
                            epc, rpc, fires>>

Unplug ==
  /\ present
  /\ present' = FALSE
  /\ signal' = FALSE
  /\ ser' = IF ser = "open" THEN "stale" ELSE ser
  /\ EnvUnchanged /\ UNCHANGED <<samePath, lastFrame>>

\* The device comes back under the same path or, while the old descriptor is
\* open, under the next free one.
Replug ==
  /\ ~present
  /\ present' = TRUE
  /\ samePath' \in BOOLEAN
  /\ EnvUnchanged /\ UNCHANGED <<signal, ser, lastFrame>>

\* The MCU restarts without leaving the bus and sends AB AB AB.
MCUReset ==
  /\ present
  /\ signal' = TRUE
  /\ EnvUnchanged /\ UNCHANGED <<present, samePath, ser, lastFrame>>

\* More than 1.0 s pass after the last frame.
FrameAges ==
  /\ lastFrame = "recent"
  /\ lastFrame' = "stale"
  /\ EnvUnchanged /\ UNCHANGED <<present, samePath, signal, ser>>

BridgeNext ==
  \/ odom_cb \/ send_odom \/ _check_reset \/ _retry_serial \/ RetrySteps \/ destroy
  \/ RxStep
  \/ Unplug \/ Replug \/ MCUReset \/ FrameAges

BridgeSpec == BridgeInit /\ [][BridgeNext]_bridgeVars

\* The executor serves every callback that is ready again and again, the
\* receive thread runs, and odometry keeps coming.
BridgeFairness ==
  /\ SF_bridgeVars(odom_cb) /\ SF_bridgeVars(send_odom) /\ SF_bridgeVars(_check_reset)
  /\ SF_bridgeVars(_retry_serial)
  /\ WF_bridgeVars(RetrySteps) /\ WF_bridgeVars(RxStep) /\ WF_bridgeVars(FrameAges)

FairBridgeSpec == BridgeSpec /\ BridgeFairness

-----------------------------------------------------------------------------
(* Properties *)

\* The type invariant.
TypeOK ==
  /\ present \in BOOLEAN /\ samePath \in BOOLEAN /\ signal \in BOOLEAN
  /\ ser \in {None, "open", "stale", "closed"}
  /\ serial_ok \in BOOLEAN /\ was_lost \in BOOLEAN /\ fired \in BOOLEAN
  /\ lastFrame \in {"never", "recent", "stale"}
  /\ reset_detected \in BOOLEAN /\ running \in BOOLEAN
  /\ offset \in Poses \cup {NoOrigin} /\ raw \in Poses \cup {0} /\ latest \in Int
  /\ epc \in {"spin", "zero", "close", "forget", "notok", "scan", "opened", "down"}
  /\ rpc \in {"top", "isopen", "inwaiting", "read", "frame", "zero", "error",
              "lost", "dead", "done"}
  /\ fires \in 0 .. 2

\* Between two callbacks serial_ok speaks of a port object that exists and was
\* not closed, although the receive thread clears the flag behind the
\* executor's back and the executor replaces the port behind the thread's.
PortKnown == epc = "spin" /\ serial_ok => ser \in {"open", "stale"}

\* The pose to be sent is always the last raw pose relative to the origin in
\* force, whenever either thread drops that origin.
PoseRelative == offset # NoOrigin => latest = raw - offset

\* "no trigger before the first frame has arrived after the start"
\* (_check_reset's comment): the heartbeat never zeroes a silent start.
HeartbeatQuietAtStart == lastFrame = "never" => fires = 0

\* When the device stays, the bridge ends up with an open port for good,
\* whichever thread noticed the loss and whether or not the receive thread
\* survived it, unless it is stopped.
Recovers ==
  <>[]present => <>(epc = "down") \/ <>[](serial_ok /\ ser = "open")

=============================================================================
