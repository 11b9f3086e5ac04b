---------------------------- MODULE MaplessPatrol ----------------------------
(***************************************************************************)
(* The lidar patrol without a map, scripts/run_lidar_auto_patrol.py: the   *)
(* ROS node of lite3_ros/patrol_rclpy_node.py drives PatrolController      *)
(* (lite3_behavior), whose finite state machine, return-home controller,   *)
(* arbiter and safety filter decide one velocity per timer tick; the       *)
(* readiness gate decides whether the tick's output reaches the robot.     *)
(*                                                                         *)
(* One thread spins the node, so every callback is one action.  Poses are  *)
(* abstracted to what is decided from them: whether a distance or an angle *)
(* has been covered.  A sensor's age is never, fresh or stale; the gate    *)
(* and the filter have the same limits and are read in the same tick.      *)
(*                                                                         *)
(* The lidar is looked at only in front (within front_angle_rad), while a  *)
(* lane after a turn is driven backwards: nothing in the code looks where  *)
(* that motion goes, and no property here says that anything does.         *)
(***************************************************************************)
EXTENDS Integers

CONSTANTS
  MaxLanes,       \* PatrolContext.max_lane_count
  ConfirmFrames,  \* BoundaryConfig.confirm_frames, 1 in the controller
  LaneBound       \* bound of the model: lane_index stays at most this

ASSUME MaplessAssumption ==
  /\ MaxLanes \in Nat \ {0} /\ ConfirmFrames \in Nat \ {0}
  /\ LaneBound \in Nat /\ LaneBound >= MaxLanes

Sensors == {"scan", "odom", "imu"}
States == {"IDLE", "INIT", "MOVE_ALONG_LANE", "END_OF_LANE", "SHIFT_TO_NEXT_LANE",
           "TURN_AROUND", "PAUSE_AND_RETURN_HOME", "RETURN_HOME", "FINISH", "ERROR"}
ActiveStates == States \ {"IDLE", "FINISH", "ERROR"}
Motions == {"forward", "backward", "side", "turn", "home"}
Velocities == Motions \cup {"zero"}
Commands == {"patrol_start", "return_home", "emergency_stop", "reset"}

VARIABLES
  ctl,         \* the controller's machine: see CtlInit
  emergency,   \* _emergency_stop, and the safety filter's
  front,       \* the last scan: none yet, clear, or something within reach
  hits,        \* the boundary detector's _hit_count, up to ConfirmFrames
  consumed,    \* _boundary_lane_end_consumed
  age,         \* the time since each sensor was heard
  started,     \* the node's _patrol_started
  running,     \* the script's loop
  wire,        \* the velocity the robot was last told
  sent,        \* history: what the last step told it
  cleared,     \* history: a scan without a lane end, or a reset, since a lane ended
  authorised,  \* history: a command asks for motion, given without emergency
  sendFailed   \* history: a datagram could not be sent

inputs == <<front, hits, consumed, age>>
vars == <<ctl, emergency, inputs, started, running, wire, sent, cleared, authorised,
          sendFailed>>

\* The state machine with its context, the return-home controller, the marks
\* from which a shift and a turn are measured, and the home pose.
CtlInit == [state |-> "IDLE", lane |-> 0, forward |-> TRUE, returning |-> FALSE,
            shiftMark |-> FALSE, turnMark |-> FALSE, home |-> FALSE]

Init ==
  /\ ctl = CtlInit
  /\ emergency = FALSE
  /\ front = "none" /\ hits = 0 /\ consumed = FALSE
  /\ age = [s \in Sensors |-> "never"]
  /\ started = FALSE /\ running = TRUE
  /\ wire = "zero" /\ sent = "nothing"
  /\ cleared = TRUE /\ authorised = FALSE /\ sendFailed = FALSE

-----------------------------------------------------------------------------
(* PatrolFSM.                                                              *)

\* An event moves the machine if it is in one of the states; otherwise it is
\* ignored.
On(c, states, next) ==
  IF c.state \in states THEN [c EXCEPT !.state = next] ELSE c

ReturnHomeEvent(c) == On(c, ActiveStates, "PAUSE_AND_RETURN_HOME")
LaneEnd(c) == On(c, {"MOVE_ALONG_LANE"}, "END_OF_LANE")
ShiftDone(c) == On(c, {"SHIFT_TO_NEXT_LANE"}, "TURN_AROUND")
ReturnDone(c) == On(c, {"RETURN_HOME"}, "IDLE")

TurnDone(c) ==
  [c EXCEPT !.lane = @ + 1,
            !.forward = ~@,
            !.state = IF c.lane + 1 >= MaxLanes THEN "FINISH" ELSE "MOVE_ALONG_LANE"]

\* The lane count goes back to its first value only from FINISH.
ResetEvent(c) ==
  [c EXCEPT !.state = "IDLE",
            !.lane = IF c.state = "FINISH" THEN 0 ELSE @,
            !.forward = IF c.state = "FINISH" THEN TRUE ELSE @]

FsmTick(c) ==
  CASE c.state = "INIT" -> [c EXCEPT !.state = "MOVE_ALONG_LANE"]
    [] c.state = "END_OF_LANE" -> [c EXCEPT !.state = "SHIFT_TO_NEXT_LANE"]
    [] c.state = "PAUSE_AND_RETURN_HOME" -> [c EXCEPT !.state = "RETURN_HOME"]
    [] OTHER -> c

\* A turn flips the direction, and with it the sign of the next lane's speed.
FsmVelocity(c) ==
  CASE c.state = "MOVE_ALONG_LANE" -> IF c.forward THEN "forward" ELSE "backward"
    [] c.state = "SHIFT_TO_NEXT_LANE" -> "side"
    [] c.state = "TURN_AROUND" -> "turn"
    [] OTHER -> "zero"

-----------------------------------------------------------------------------
(* The operator.                                                           *)

\* patrol_start makes the present pose the home; outside IDLE the machine
\* ignores it.  return_home starts the return controller in every state.
StartPatrol(c) == On([c EXCEPT !.home = TRUE], {"IDLE"}, "INIT")
StartReturn(c) == ReturnHomeEvent([c EXCEPT !.returning = TRUE])
Stopped(c) == [c EXCEPT !.state = "ERROR"]

\* Wrong: RESET leaves the return-home controller running.
ResetKeepsReturn(c) ==
  ResetEvent([c EXCEPT !.shiftMark = FALSE, !.turnMark = FALSE])

ResetAll(c) ==
  ResetEvent([c EXCEPT !.returning = FALSE, !.shiftMark = FALSE, !.turnMark = FALSE])

\* What the command needs; without it the callback raises.
Possible(command) ==
  CASE command = "patrol_start" -> age["odom"] # "never"
    [] command = "return_home" -> ctl.home
    [] OTHER -> command \in Commands

\* Wrong: the script leaves without a last stop.
LeaveMoving ==
  /\ running' = FALSE
  /\ sent' = "nothing"
  /\ UNCHANGED <<wire, sendFailed>>

\* Leaving the loop, by its time limit or an exception: the script's last act
\* is to stop the robot.
Leave ==
  /\ running' = FALSE
  /\ \/ wire' = "zero" /\ sent' = "zero" /\ UNCHANGED sendFailed
     \/ sendFailed' = TRUE /\ sent' = "nothing" /\ UNCHANGED wire

OperatorCommand(command) ==
  /\ running
  /\ Possible(command)
  /\ ctl' = CASE command = "patrol_start" -> StartPatrol(ctl)
              [] command = "return_home" -> StartReturn(ctl)
              [] command = "emergency_stop" -> Stopped(ctl)
              [] command = "reset" -> ResetAll(ctl)
  /\ emergency' = CASE command = "emergency_stop" -> TRUE
                    [] command = "reset" -> FALSE
                    [] OTHER -> emergency
  /\ consumed' = (consumed /\ command # "reset")
  /\ cleared' = (cleared \/ command = "reset")
  /\ started' = (started \/ command = "patrol_start")
  /\ authorised' = CASE command \in {"emergency_stop", "reset"} -> FALSE
                     [] OTHER -> authorised \/ ~emergency
  /\ sent' = "nothing"
  /\ UNCHANGED <<front, hits, age, running, wire, sendFailed>>

\* A command that is unknown or comes too early ends the script.
BadCommand ==
  /\ running
  /\ \E command \in Commands \cup {"other"} : ~Possible(command)
  /\ Leave
  /\ UNCHANGED <<ctl, emergency, inputs, started, cleared, authorised>>

-----------------------------------------------------------------------------
(* The sensors.                                                            *)

Heard(s) == age' = [age EXCEPT ![s] = "fresh"]

\* The detector's count of frames in a row with something within reach.
Count(seen) ==
  IF seen = "clear" THEN 0 ELSE IF hits < ConfirmFrames THEN hits + 1 ELSE hits

\* Wrong: every scan makes the lane end count again.
OnScanAgain ==
  /\ running
  /\ Heard("scan")
  /\ front' \in {"clear", "near"}
  /\ hits' = Count(front')
  /\ consumed' = FALSE
  /\ cleared' = (cleared \/ hits' # ConfirmFrames)
  /\ sent' = "nothing"
  /\ UNCHANGED <<ctl, emergency, started, running, wire, authorised, sendFailed>>

\* Too few valid points count as clear.
OnScan ==
  /\ running
  /\ Heard("scan")
  /\ front' \in {"clear", "near"}
  /\ hits' = Count(front')
  /\ consumed' = (consumed /\ hits' = ConfirmFrames)
  /\ cleared' = (cleared \/ hits' # ConfirmFrames)
  /\ sent' = "nothing"
  /\ UNCHANGED <<ctl, emergency, started, running, wire, authorised, sendFailed>>

\* A scan with a bad angle increment raises.
BadScan ==
  /\ running
  /\ Leave
  /\ UNCHANGED <<ctl, emergency, inputs, started, cleared, authorised>>

OnOdomOrImu(s) ==
  /\ running
  /\ Heard(s)
  /\ sent' = "nothing"
  /\ UNCHANGED <<ctl, emergency, front, hits, consumed, started, running, wire,
                 cleared, authorised, sendFailed>>

TimePasses(s) ==
  /\ running
  /\ age[s] = "fresh"
  /\ age' = [age EXCEPT ![s] = "stale"]
  /\ sent' = "nothing"
  /\ UNCHANGED <<ctl, emergency, front, hits, consumed, started, running, wire,
                 cleared, authorised, sendFailed>>

-----------------------------------------------------------------------------
(* One tick of the controller.                                             *)

\* _apply_boundary: a lane end counts once until the way is free again.
AtBoundary == hits = ConfirmFrames
ApplyBoundary(c, taken) == IF AtBoundary /\ ~taken THEN LaneEnd(c) ELSE c

\* _apply_progress_events: the first tick of a shift or a turn only marks
\* where it began; later ones may find it done.  A finished shift begins the
\* turn in the same tick.
DropMarks(c) ==
  [c EXCEPT !.shiftMark = @ /\ c.state = "SHIFT_TO_NEXT_LANE",
            !.turnMark = @ /\ c.state = "TURN_AROUND"]

ShiftProgress(c) ==
  IF c.state # "SHIFT_TO_NEXT_LANE" THEN {c}
  ELSE IF ~c.shiftMark THEN {[c EXCEPT !.shiftMark = TRUE]}
  ELSE {c, ShiftDone([c EXCEPT !.shiftMark = FALSE])}

TurnProgress(c) ==
  IF c.state # "TURN_AROUND" THEN {c}
  ELSE IF ~c.turnMark THEN {[c EXCEPT !.turnMark = TRUE]}
  ELSE {c, TurnDone([c EXCEPT !.turnMark = FALSE])}

ApplyProgress(c) ==
  IF age["odom"] = "never" THEN {DropMarks(c)}
  ELSE UNION {TurnProgress(d) : d \in ShiftProgress(DropMarks(c))}

\* Wrong: the machine stays in the pause while the robot drives home.
KeepPause(c) == c

\* The return-home controller has the robot until it is home.
LeavePause(c) == IF c.state = "PAUSE_AND_RETURN_HOME" THEN FsmTick(c) ELSE c
Arrived(c) == ReturnDone([c EXCEPT !.returning = FALSE])

\* The controller after the tick and the velocity asked for.
PatrolTick(c) == {[ctl |-> FsmTick(c), velocity |-> FsmVelocity(c)]}
Move(c) ==
  IF ~c.returning THEN PatrolTick(c)
  ELSE {[ctl |-> LeavePause(c), velocity |-> "home"]}
         \cup PatrolTick(Arrived(LeavePause(c)))

Outcomes(c, taken) ==
  UNION {Move(d) : d \in ApplyProgress(ApplyBoundary(c, taken))}

\* CommandArbiter.select, without a manual command.
Select(velocity) == IF emergency THEN "zero" ELSE velocity

\* SafetyFilter._stop_reason; the command was marked in this very tick.
Fresh(s) == age[s] = "fresh"
MustStop == emergency \/ (\E s \in Sensors : ~Fresh(s)) \/ front = "near"

\* ReadinessGate.check; the script sets its four flags.
Ready == \A s \in Sensors : Fresh(s)

-----------------------------------------------------------------------------
(* The node's timer.                                                       *)

\* RuntimeMotionOutput.publish, which only a ready tick reaches.
Publish(velocity) ==
  LET told == IF MustStop THEN "zero" ELSE Select(velocity)
  IN IF Ready THEN wire' = told /\ sent' = told
              ELSE sent' = "nothing" /\ UNCHANGED wire

\* The first ready tick starts the patrol, and ticks the controller again.
AutoStart == Ready /\ ~started

Bounded(c) == c.lane <= LaneBound

\* Where a tick can take the controller, by way of the automatic start.
TickOutcomes ==
  LET first == Outcomes(ctl, consumed)
  IN IF AutoStart
       THEN UNION {Outcomes(StartPatrol(o.ctl), consumed \/ AtBoundary) : o \in first}
       ELSE first

\* The step takes the robot out of a lane at the lane's end.
LaneEnded == ctl.state = "MOVE_ALONG_LANE" /\ ctl'.state = "SHIFT_TO_NEXT_LANE"

Tick ==
  /\ running
  /\ \E o \in TickOutcomes :
       /\ Bounded(o.ctl)
       /\ ctl' = o.ctl
       /\ Publish(o.velocity)
  /\ cleared' = (cleared /\ ~LaneEnded)
  /\ consumed' = (consumed \/ AtBoundary)
  /\ started' = (started \/ AutoStart)
  /\ authorised' = (authorised \/ (AutoStart /\ ~emergency))
  /\ UNCHANGED <<emergency, front, hits, age, running, sendFailed>>

\* The send fails: publish tries a stop and raises, and the script ends.
SendFails ==
  /\ running /\ Ready
  /\ running' = FALSE
  /\ sendFailed' = TRUE
  /\ sent' = "nothing"
  /\ wire' \in Velocities
  /\ UNCHANGED <<ctl, emergency, inputs, started, cleared, authorised>>

TimeUp ==
  /\ running
  /\ Leave
  /\ UNCHANGED <<ctl, emergency, inputs, started, cleared, authorised>>

-----------------------------------------------------------------------------

Next ==
  \/ \E command \in Commands : OperatorCommand(command)
  \/ BadCommand
  \/ OnScan \/ BadScan
  \/ \E s \in {"odom", "imu"} : OnOdomOrImu(s)
  \/ \E s \in Sensors : TimePasses(s)
  \/ Tick \/ SendFails \/ TimeUp

Spec == Init /\ [][Next]_vars

\* The loop looks at its time limit at least every 0.1 seconds.
FairSpec == Spec /\ WF_vars(TimeUp)

-----------------------------------------------------------------------------
(* Properties.                                                             *)

\* The variables stay in their types; a return has a home, and a home has been
\* a pose, which is what the code's assertion and None tests rely on.
MaplessTypeOK ==
  /\ ctl \in [state : States, lane : 0 .. LaneBound, forward : BOOLEAN,
              returning : BOOLEAN, shiftMark : BOOLEAN, turnMark : BOOLEAN,
              home : BOOLEAN]
  /\ emergency \in BOOLEAN
  /\ front \in {"none", "clear", "near"}
  /\ hits \in 0 .. ConfirmFrames
  /\ consumed \in BOOLEAN
  /\ age \in [Sensors -> {"never", "fresh", "stale"}]
  /\ started \in BOOLEAN /\ running \in BOOLEAN
  /\ wire \in Velocities /\ sent \in Velocities \cup {"nothing"}
  /\ cleared \in BOOLEAN /\ authorised \in BOOLEAN /\ sendFailed \in BOOLEAN
  /\ ctl.returning => ctl.home
  /\ ctl.home => age["odom"] # "never"

\* The two machines agree on who moves the robot: the patrol is never in a
\* lane, a shift or a turn while the return-home controller is active, and
\* never waits in a return state for a controller that has already finished.
OneOwner ==
  /\ ctl.returning =>
       ctl.state \in {"PAUSE_AND_RETURN_HOME", "RETURN_HOME", "IDLE", "INIT",
                      "FINISH", "ERROR"}
  /\ ctl.state \in {"PAUSE_AND_RETURN_HOME", "RETURN_HOME"} => ctl.returning

\* The types, and one machine at a time that owns the robot.
MaplessInv == MaplessTypeOK /\ OneOwner

\* A motion is sent only for a command given outside an emergency, after the
\* last emergency or reset: a reset revives neither the motion that was
\* stopped nor anything asked for in between.
ResetForgets ==
  /\ sent \in Motions => authorised /\ ~emergency
  /\ ~authorised => /\ ctl.state \in {"IDLE", "FINISH", "ERROR"}
                    /\ ctl.returning => emergency

\* One boundary ends one lane.  The boundary that ended a lane is still within
\* reach during the shift and the turn, and may be for the whole next lane: that
\* lane ends only after a scan that showed no lane end, or an operator's reset.
OneLanePerBoundary == [][LaneEnded => cleared]_vars

\* The script ends, and unless a send failed it leaves the robot stopped.
EndsStopped == <>[](~running /\ (wire = "zero" \/ sendFailed))
=============================================================================
