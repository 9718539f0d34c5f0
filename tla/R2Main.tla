------------------------------- MODULE R2Main -------------------------------
(***************************************************************************)
(* The match state machine of r2_main.py, fed by the frames that the MCU   *)
(* sends and that SerialBridge._handle_downlink turns into topics.         *)
(*                                                                         *)
(*   MCU --frames--> _handle_downlink --/r2/lower_state--> lower_state_cb  *)
(*                         |                                    |          *)
(*                         +--> downlink_queue      state_machine_loop     *)
(*                                                      every 50 ms        *)
(*                                                                         *)
(* The MCU's own program is not in the repository.  Its part of the match  *)
(* is taken from the protocol and the match flow: it drives to the end     *)
(* tips, grabs them, forwards what R1 tells it, and drives on.  The route  *)
(* through the forest is ForestPlanner's.                                  *)
(***************************************************************************)
EXTENDS ForestPlanner

CONSTANTS Depth,      \* depth of the topic's queue (10 in the code)
          MaxQueue,   \* bound: entries of downlink_queue
          MaxTargets  \* bound: blocks to collect from

ASSUME DepthAssumption ==
  Depth \in Nat \ {0} /\ MaxQueue \in Nat /\ MaxTargets \in Nat

\* LowerState
IDLE == 0
MOVING == 1
AT_TARGET == 2
GRABBING == 3
DONE == 4

\* Downlink frames: only a STATUS carries a state that matters here.
STATUS(s) == [cmd |-> "STATUS", state |-> s]
Frame(cmd) == [cmd |-> cmd, state |-> IDLE]

\* What the MCU reports in the course of a match, in order
Mission == <<STATUS(MOVING), STATUS(AT_TARGET), STATUS(GRABBING), STATUS(DONE),
             Frame("ZONE_I_INFO"), Frame("DOCK_OK"), Frame("GO_ZONE_I"),
             STATUS(MOVING), STATUS(DONE)>>

Phases == {"INIT", "MOVE_TO_ENDTIPS", "GRAB_ENDTIPS", "WAIT_DOCK", "RECV_ZONE_I_INFO",
           "PLAN_PATH", "SEND_PATH", "WAIT_DOCK_OK", "ENTER_ZONE_I", "NAVIGATE_FOREST",
           "RETURN", "IDLE"}

VARIABLES
  patient,           \* does the MCU hold a state until R2Main has acted on it?
  mcu,               \* steps of Mission done
  topic,             \* messages on their way to lower_state_cb
  downlink_queue,    \* SerialBridge.downlink_queue: kinds of the frames queued
  phase, lower_state,
  zone_i_kfs,        \* the layout: [block_id, kfs_type] of each KFS
  forest_path,
  dock_ok_received, go_zone_i_requested,
  ticked,            \* the timer has run since lower_state was last written
  restarted          \* history: the nodes were restarted

main == <<phase, zone_i_kfs, forest_path, dock_ok_received, go_zone_i_requested>>
env == <<patient, restarted>>
vars == <<env, mcu, topic, downlink_queue, main, lower_state, ticked>>

Start ==
  /\ phase' = "INIT" /\ lower_state' = IDLE /\ zone_i_kfs' = {} /\ forest_path' = << >>
  /\ dock_ok_received' = FALSE /\ go_zone_i_requested' = FALSE

Init ==
  /\ patient \in BOOLEAN /\ restarted = FALSE
  /\ mcu = 0 /\ topic = << >> /\ downlink_queue = << >>
  /\ phase = "INIT" /\ lower_state = IDLE /\ zone_i_kfs = {} /\ forest_path = << >>
  /\ dock_ok_received = FALSE /\ go_zone_i_requested = FALSE
  /\ ticked = FALSE

-----------------------------------------------------------------------------
(* SerialBridge._handle_downlink *)

\* A topic with KEEP_LAST Depth forgets its oldest message.
Publish(q, m) == IF Len(q) < Depth THEN Append(q, m) ELSE Append(Tail(q), m)

\* Fault: a REQ is taken for a STATUS, its request number for a state.
_handle_downlink_Confused(f) ==
  /\ topic' = Publish(topic, IF f.cmd = "REQ" THEN AT_TARGET ELSE f.state)
  /\ downlink_queue' = Append(downlink_queue, f.cmd)

\* A STATUS is published and queued.  ZONE_I_INFO is queued, and published as a
\* bare count that zone_i_info_cb only logs; DOCK_OK, GO_ZONE_I and REQ are
\* queued.  Nobody takes from the queue.
_handle_downlink(f) ==
  /\ topic' = IF f.cmd = "STATUS" THEN Publish(topic, f.state) ELSE topic
  /\ downlink_queue' = Append(downlink_queue, f.cmd)

\* The MCU goes on with its mission and says so.
MCUStep ==
  /\ mcu < Len(Mission)
  /\ patient => topic = << >> /\ ticked
  /\ mcu' = mcu + 1
  /\ _handle_downlink(Mission[mcu + 1])
  /\ ticked' = FALSE
  /\ UNCHANGED <<env, main, lower_state>>

\* The MCU asks for data, as often as the bound on the queue leaves room for
\* the rest of the mission.
MCURequest ==
  /\ Len(downlink_queue) + (Len(Mission) - mcu) < MaxQueue
  /\ _handle_downlink(Frame("REQ"))
  /\ UNCHANGED <<env, mcu, main, lower_state, ticked>>

-----------------------------------------------------------------------------
(* R2Main *)

lower_state_cb ==
  /\ topic # << >>
  /\ lower_state' = Head(topic)
  /\ topic' = Tail(topic)
  /\ ticked' = FALSE
  /\ UNCHANGED <<env, mcu, downlink_queue, main>>

\* Fault: arrival is expected to be reported as DONE.
NextPhase_WaitDone ==
  CASE phase = "INIT" -> "MOVE_TO_ENDTIPS"
    [] phase = "MOVE_TO_ENDTIPS" /\ lower_state = DONE -> "GRAB_ENDTIPS"
    [] phase = "GRAB_ENDTIPS" /\ lower_state = AT_TARGET -> "WAIT_DOCK"
    [] OTHER -> phase

\* state_machine_loop's transitions; WAIT_DOCK is a bare pass.
NextPhase ==
  CASE phase = "INIT" -> "MOVE_TO_ENDTIPS"
    [] phase = "MOVE_TO_ENDTIPS" /\ lower_state = AT_TARGET -> "GRAB_ENDTIPS"
    [] phase = "GRAB_ENDTIPS" /\ lower_state = DONE -> "WAIT_DOCK"
    [] phase = "RECV_ZONE_I_INFO" /\ zone_i_kfs # {} -> "PLAN_PATH"
    [] phase = "PLAN_PATH" -> "SEND_PATH"
    [] phase = "SEND_PATH" -> "WAIT_DOCK_OK"
    [] phase = "WAIT_DOCK_OK" /\ dock_ok_received -> "ENTER_ZONE_I"
    [] phase = "ENTER_ZONE_I" /\ go_zone_i_requested -> "NAVIGATE_FOREST"
    [] phase = "NAVIGATE_FOREST" /\ lower_state = DONE -> "IDLE"
    [] OTHER -> phase

\* Only the KFS that are R2's are collected.
target_blocks == {info.block_id : info \in {kfs \in zone_i_kfs : kfs.kfs_type = 2}}

\* PLAN_PATH; without targets the path stays.
PlanPath ==
  IF phase = "PLAN_PATH" /\ target_blocks # {}
    THEN forest_path' \in plan_route(ENTRANCE_BLOCKS[1], target_blocks)
    ELSE UNCHANGED forest_path

state_machine_loop ==
  /\ phase' = NextPhase
  /\ PlanPath
  /\ ticked' = (NextPhase = phase)
  /\ UNCHANGED <<env, mcu, topic, downlink_queue, zone_i_kfs, dock_ok_received,
                 go_zone_i_requested, lower_state>>

\* r2_restart_loop.sh brings all nodes up again; the MCU goes on undisturbed.
Restart ==
  /\ Start
  /\ topic' = << >> /\ downlink_queue' = << >> /\ ticked' = FALSE
  /\ restarted' = TRUE
  /\ UNCHANGED <<patient, mcu>>

Next == MCUStep \/ MCURequest \/ lower_state_cb \/ state_machine_loop \/ Restart

\* The callbacks are served and the timer fires; the match goes on.
Fairness == WF_vars(MCUStep) /\ WF_vars(lower_state_cb) /\ WF_vars(state_machine_loop)

Spec == Init /\ [][Next]_vars /\ Fairness

-----------------------------------------------------------------------------
(* Properties *)

\* R2Main never runs ahead of the robot: it believes that the robot is at the
\* end tips, or holds them, only when the MCU has got that far, whatever
\* messages the topic dropped and however often the nodes were restarted.
NeverAhead ==
  /\ phase \notin {"INIT", "MOVE_TO_ENDTIPS"} => mcu >= 2
  /\ phase \notin {"INIT", "MOVE_TO_ENDTIPS", "GRAB_ENDTIPS"} => mcu >= 4

\* An MCU that holds each state until R2Main has acted on it gets R2Main to the
\* wait for the dock, unless the nodes are restarted on the way: a restart
\* forgets the phase, and the MCU does not report its states again.
ReachesDock == (patient /\ mcu = 0) ~> (phase = "WAIT_DOCK" \/ restarted)

\* Whatever blocks R1 names for the match, and in whichever order the planner takes
\* those that are equally near, the route goes from block to neighbouring block, from
\* the first entrance past all of them and out by an entrance.
RoutesCollect ==
  (mcu = 0 /\ phase = "INIT" /\ downlink_queue = << >> /\ ~restarted) =>
    \A targets \in {t \in SUBSET Blocks : Cardinality(t) <= MaxTargets} :
      \A route \in plan_route(ENTRANCE_BLOCKS[1], targets) :
        /\ route # << >> /\ Head(route) = ENTRANCE_BLOCKS[1]
        /\ targets \subseteq ToSet(route) /\ Last(route) \in ToSet(ENTRANCE_BLOCKS)
        /\ \A n \in 1 .. Len(route) - 1 : route[n + 1] \in FOREST_LAYOUT[route[n]]
=============================================================================
