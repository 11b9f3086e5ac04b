------------------------ MODULE MaplessPatrol_proofs ------------------------
(***************************************************************************)
(* Proofs about MaplessPatrol, for any number of lanes, any number of      *)
(* frames that confirm a boundary and any bound on the lane index.         *)
(***************************************************************************)
EXTENDS MaplessPatrol, TLAPS

USE MaplessAssumption DEF MaplessAssumption

-----------------------------------------------------------------------------
(* What every part of a tick does to the controller's machine.             *)

\* The machine before the bound on the lane index is applied.
Controllers == [state : States, lane : Nat, forward : BOOLEAN, returning : BOOLEAN,
                shiftMark : BOOLEAN, turnMark : BOOLEAN, home : BOOLEAN]

Resting == {"IDLE", "FINISH", "ERROR"}
Homeward == {"PAUSE_AND_RETURN_HOME", "RETURN_HOME"}

\* One machine at a time owns the robot, and a return has a home: OneOwner and
\* the code's assertion, of any machine.
Owned(c) ==
  /\ c.returning => c.state \in Homeward \cup Resting \cup {"INIT"}
  /\ c.state \in Homeward => c.returning
  /\ c.returning => c.home

\* From c to d the home stays, no return begins, and a machine at rest rests.
Ticks(c, d) ==
  /\ d \in Controllers /\ Owned(d)
  /\ d.home = c.home
  /\ d.returning => c.returning
  /\ c.state \in Resting => d.state = c.state

LEMMA TicksTransitive ==
  ASSUME NEW c, NEW d, NEW e, Ticks(c, d), Ticks(d, e)
  PROVE  Ticks(c, e)
BY DEF Ticks

\* An event is ignored or moves the machine.
LEMMA EventMoves ==
  ASSUME NEW c \in Controllers, NEW states, NEW next \in States
  PROVE  /\ On(c, states, next) \in Controllers
         /\ On(c, states, next).state = IF c.state \in states THEN next ELSE c.state
         /\ On(c, states, next).home = c.home
         /\ On(c, states, next).returning = c.returning
BY DEF On, Controllers

LEMMA LaneEndTicks ==
  ASSUME NEW c \in Controllers, Owned(c)
  PROVE  Ticks(c, LaneEnd(c))
<1>1. "END_OF_LANE" \in States
  BY DEF States
<1> QED  BY <1>1, EventMoves DEF LaneEnd, Ticks, Owned, Homeward, Resting

LEMMA DropMarksTicks ==
  ASSUME NEW c \in Controllers, Owned(c)
  PROVE  Ticks(c, DropMarks(c))
<1>1. DropMarks(c) \in Controllers
  BY DEF DropMarks, Controllers
<1>2. /\ DropMarks(c).state = c.state /\ DropMarks(c).home = c.home
      /\ DropMarks(c).returning = c.returning
  BY DEF DropMarks, Controllers
<1> QED  BY <1>1, <1>2 DEF Ticks, Owned

LEMMA ShiftTicks ==
  ASSUME NEW c \in Controllers, Owned(c), NEW d \in ShiftProgress(c)
  PROVE  Ticks(c, d)
<1>1. CASE d = c
  BY <1>1 DEF Ticks
<1>2. CASE c.state = "SHIFT_TO_NEXT_LANE" /\ d = [c EXCEPT !.shiftMark = TRUE]
  <2>1. /\ d \in Controllers /\ d.state = c.state /\ d.home = c.home
        /\ d.returning = c.returning
    BY <1>2 DEF Controllers
  <2> QED  BY <2>1 DEF Ticks, Owned
<1>3. CASE c.state = "SHIFT_TO_NEXT_LANE" /\ d = ShiftDone([c EXCEPT !.shiftMark = FALSE])
  <2> DEFINE e == [c EXCEPT !.shiftMark = FALSE]
  <2>1. /\ e \in Controllers /\ e.state = c.state /\ e.home = c.home
        /\ e.returning = c.returning
    BY <1>3 DEF Controllers
  <2>2. d = On(e, {"SHIFT_TO_NEXT_LANE"}, "TURN_AROUND") /\ "TURN_AROUND" \in States
    BY <1>3 DEF ShiftDone, States
  <2> HIDE DEF e
  <2>3. /\ d \in Controllers /\ d.state = "TURN_AROUND" /\ d.home = c.home
        /\ d.returning = c.returning
    BY <1>3, <2>1, <2>2, EventMoves
  <2> QED  BY <1>3, <2>3 DEF Ticks, Owned, Homeward, Resting
<1> QED  BY <1>1, <1>2, <1>3 DEF ShiftProgress

LEMMA TurnTicks ==
  ASSUME NEW c \in Controllers, Owned(c), NEW d \in TurnProgress(c)
  PROVE  Ticks(c, d)
<1>1. CASE d = c
  BY <1>1 DEF Ticks
<1>2. CASE c.state = "TURN_AROUND" /\ d = [c EXCEPT !.turnMark = TRUE]
  <2>1. /\ d \in Controllers /\ d.state = c.state /\ d.home = c.home
        /\ d.returning = c.returning
    BY <1>2 DEF Controllers
  <2> QED  BY <2>1 DEF Ticks, Owned
<1>3. CASE c.state = "TURN_AROUND" /\ d = TurnDone([c EXCEPT !.turnMark = FALSE])
  <2> DEFINE e == [c EXCEPT !.turnMark = FALSE]
  <2>1. /\ e \in Controllers /\ e.home = c.home /\ e.returning = c.returning
    BY <1>3 DEF Controllers
  <2>2. d = TurnDone(e)
    BY <1>3
  <2> HIDE DEF e
  <2>3. /\ d \in Controllers /\ d.home = e.home /\ d.returning = e.returning
        /\ d.state \in {"FINISH", "MOVE_ALONG_LANE"}
    <3> DEFINE n == e.lane + 1
               f == ~e.forward
               s == IF e.lane + 1 >= MaxLanes THEN "FINISH" ELSE "MOVE_ALONG_LANE"
    <3>1. n \in Nat /\ f \in BOOLEAN /\ s \in {"FINISH", "MOVE_ALONG_LANE"}
      BY <2>1 DEF Controllers
    <3>2. d = [e EXCEPT !.lane = n, !.forward = f, !.state = s]
      BY <2>2 DEF TurnDone
    <3> HIDE DEF n, f, s
    <3> QED  BY <2>1, <3>1, <3>2 DEF Controllers, States
  <2> QED  BY <1>3, <2>1, <2>3 DEF Ticks, Owned, Homeward, Resting
<1> QED  BY <1>1, <1>2, <1>3 DEF TurnProgress

\* _apply_boundary and _apply_progress_events.
LEMMA ProgressTicks ==
  ASSUME NEW c \in Controllers, Owned(c), NEW taken,
         NEW d \in ApplyProgress(ApplyBoundary(c, taken))
  PROVE  Ticks(c, d)
<1> DEFINE b == ApplyBoundary(c, taken)
<1>1. Ticks(c, b)
  BY LaneEndTicks DEF ApplyBoundary, Ticks
<1> HIDE DEF b
<1>2. b \in Controllers /\ Owned(b)
  BY <1>1 DEF Ticks
<1>3. Ticks(b, DropMarks(b)) /\ DropMarks(b) \in Controllers /\ Owned(DropMarks(b))
  BY <1>2, DropMarksTicks DEF Ticks
<1>4. d \in ApplyProgress(b)
  BY DEF b
<1>5. CASE d = DropMarks(b)
  BY <1>1, <1>3, <1>5, TicksTransitive
<1>6. CASE d \in UNION {TurnProgress(e) : e \in ShiftProgress(DropMarks(b))}
  <2>1. PICK e \in ShiftProgress(DropMarks(b)) : d \in TurnProgress(e)
    BY <1>6
  <2>2. Ticks(DropMarks(b), e) /\ e \in Controllers /\ Owned(e)
    BY <1>3, ShiftTicks DEF Ticks
  <2>3. Ticks(e, d)
    BY <2>1, <2>2, TurnTicks
  <2> QED  BY <1>1, <1>3, <2>2, <2>3, TicksTransitive
<1> QED  BY <1>4, <1>5, <1>6 DEF ApplyProgress

\* A machine that is not returning rests, or one step of the patrol follows.
LEMMA FsmTickTicks ==
  ASSUME NEW c \in Controllers, Owned(c), ~c.returning
  PROVE  Ticks(c, FsmTick(c)) /\ (c.state \in Resting => FsmVelocity(c) = "zero")
<1>1. c.state \notin Homeward
  BY DEF Owned
<1>2. \A next \in States : /\ [c EXCEPT !.state = next] \in Controllers
                           /\ [c EXCEPT !.state = next].state = next
                           /\ [c EXCEPT !.state = next].home = c.home
                           /\ [c EXCEPT !.state = next].returning = c.returning
  BY DEF Controllers
<1>3. \E next \in {"MOVE_ALONG_LANE", "SHIFT_TO_NEXT_LANE"} :
        FsmTick(c) = c \/ (c.state \notin Resting /\ FsmTick(c) = [c EXCEPT !.state = next])
  BY <1>1 DEF FsmTick, Homeward, Resting
<1>4. Ticks(c, FsmTick(c))
  <2>1. PICK next \in {"MOVE_ALONG_LANE", "SHIFT_TO_NEXT_LANE"} :
          FsmTick(c) = c \/ (c.state \notin Resting /\ FsmTick(c) = [c EXCEPT !.state = next])
    BY <1>3
  <2>2. next \in States /\ next \notin Homeward
    BY DEF States, Homeward
  <2> QED  BY <1>2, <2>1, <2>2 DEF Ticks, Owned
<1>5. c.state \in Resting => FsmVelocity(c) = "zero"
  BY DEF Resting, FsmVelocity
<1> QED  BY <1>4, <1>5

LEMMA LeavePauseTicks ==
  ASSUME NEW c \in Controllers, Owned(c)
  PROVE  Ticks(c, LeavePause(c)) /\ LeavePause(c).state # "PAUSE_AND_RETURN_HOME"
<1>1. CASE c.state = "PAUSE_AND_RETURN_HOME"
  <2>1. LeavePause(c) = [c EXCEPT !.state = "RETURN_HOME"]
    BY <1>1 DEF LeavePause, FsmTick
  <2>2. /\ LeavePause(c) \in Controllers /\ LeavePause(c).state = "RETURN_HOME"
        /\ LeavePause(c).home = c.home /\ LeavePause(c).returning = c.returning
    BY <2>1 DEF Controllers, States
  <2> QED  BY <1>1, <2>2 DEF Ticks, Owned, Homeward, Resting
<1>2. CASE c.state # "PAUSE_AND_RETURN_HOME"
  BY <1>2 DEF LeavePause, Ticks
<1> QED  BY <1>1, <1>2

LEMMA ArrivedTicks ==
  ASSUME NEW c \in Controllers, Owned(c), c.state # "PAUSE_AND_RETURN_HOME"
  PROVE  Ticks(c, Arrived(c)) /\ ~Arrived(c).returning
<1> DEFINE e == [c EXCEPT !.returning = FALSE]
<1>1. /\ e \in Controllers /\ e.state = c.state /\ e.home = c.home /\ e.returning = FALSE
  BY DEF Controllers
<1>2. Arrived(c) = On(e, {"RETURN_HOME"}, "IDLE") /\ "IDLE" \in States
  BY DEF Arrived, ReturnDone, States
<1> HIDE DEF e
<1>3. /\ Arrived(c) \in Controllers /\ Arrived(c).home = c.home /\ ~Arrived(c).returning
      /\ Arrived(c).state = IF c.state = "RETURN_HOME" THEN "IDLE" ELSE c.state
  BY <1>1, <1>2, EventMoves
<1> QED  BY <1>3 DEF Ticks, Owned, Homeward, Resting

\* What one tick may lead to: a velocity is asked for, and a machine at rest
\* that is not returning asks for none.
TickResult(c, o) ==
  /\ Ticks(c, o.ctl)
  /\ o.velocity \in Velocities
  /\ c.state \in Resting /\ ~c.returning => o.velocity = "zero"

LEMMA PatrolTickResult ==
  ASSUME NEW c \in Controllers, Owned(c), ~c.returning, NEW o \in PatrolTick(c)
  PROVE  TickResult(c, o)
<1>1. o.ctl = FsmTick(c) /\ o.velocity = FsmVelocity(c)
  BY DEF PatrolTick
<1>2. FsmVelocity(c) \in Velocities
  BY DEF FsmVelocity, Velocities, Motions
<1> QED  BY <1>1, <1>2, FsmTickTicks DEF TickResult

LEMMA MoveResult ==
  ASSUME NEW c \in Controllers, Owned(c), NEW o \in Move(c)
  PROVE  TickResult(c, o)
<1>1. CASE ~c.returning
  BY <1>1, PatrolTickResult DEF Move
<1>2. CASE c.returning /\ o = [ctl |-> LeavePause(c), velocity |-> "home"]
  BY <1>2, LeavePauseTicks DEF TickResult, Velocities, Motions
<1>3. CASE c.returning /\ o \in PatrolTick(Arrived(LeavePause(c)))
  <2> DEFINE p == LeavePause(c)
             a == Arrived(LeavePause(c))
  <2>1. Ticks(c, p) /\ p \in Controllers /\ Owned(p) /\ p.state # "PAUSE_AND_RETURN_HOME"
    BY LeavePauseTicks DEF Ticks
  <2>2. Ticks(p, a) /\ a \in Controllers /\ Owned(a) /\ ~a.returning
    BY <2>1, ArrivedTicks DEF Ticks
  <2>3. TickResult(a, o)
    BY <1>3, <2>2, PatrolTickResult
  <2> HIDE DEF p, a
  <2> QED  BY <1>3, <2>1, <2>2, <2>3, TicksTransitive DEF TickResult
<1> QED  BY <1>1, <1>2, <1>3 DEF Move

\* PatrolController.tick as a whole.
LEMMA OutcomesResult ==
  ASSUME NEW c \in Controllers, Owned(c), NEW taken, NEW o \in Outcomes(c, taken)
  PROVE  TickResult(c, o)
<1>1. PICK d \in ApplyProgress(ApplyBoundary(c, taken)) : o \in Move(d)
  BY DEF Outcomes
<1>2. Ticks(c, d) /\ d \in Controllers /\ Owned(d)
  BY ProgressTicks DEF Ticks
<1>3. TickResult(d, o)
  BY <1>1, <1>2, MoveResult
<1> QED  BY <1>2, <1>3, TicksTransitive DEF TickResult, Ticks

-----------------------------------------------------------------------------
(* The inductive invariant.                                                *)

\* An emergency holds the machine in ERROR.
StopHeld == emergency => ctl.state = "ERROR"

\* A boundary that has ended a lane is spent until it is out of sight.
BoundarySpent == ~cleared => consumed

MaplessIInv == MaplessTypeOK /\ OneOwner /\ ResetForgets /\ StopHeld /\ BoundarySpent

\* The part of it that speaks of the machine.
LEMMA MachineOwned ==
  ASSUME MaplessIInv
  PROVE  ctl \in Controllers /\ Owned(ctl)
<1>1. ctl \in Controllers
  BY DEF MaplessIInv, MaplessTypeOK, Controllers
<1>2. Owned(ctl)
  BY DEF MaplessIInv, MaplessTypeOK, OneOwner, Owned, Homeward, Resting
<1> QED  BY <1>1, <1>2

\* The types of the variables beside the machine.
OthersOK ==
  /\ emergency \in BOOLEAN
  /\ front \in {"none", "clear", "near"}
  /\ hits \in 0 .. ConfirmFrames
  /\ consumed \in BOOLEAN
  /\ age \in [Sensors -> {"never", "fresh", "stale"}]
  /\ started \in BOOLEAN /\ running \in BOOLEAN
  /\ wire \in Velocities /\ sent \in Velocities \cup {"nothing"}
  /\ cleared \in BOOLEAN /\ authorised \in BOOLEAN /\ sendFailed \in BOOLEAN

LEMMA OthersTyped == MaplessIInv => OthersOK
BY DEF MaplessIInv, MaplessTypeOK, OthersOK

\* A machine that is owned, bounded and at home where odometry was heard.
LEMMA MachineKeepsInv ==
  ASSUME ctl' \in Controllers, Owned(ctl'), Bounded(ctl'), OthersOK',
         ctl'.home => age'["odom"] # "never"
  PROVE  MaplessTypeOK' /\ OneOwner'
<1>1. ctl' \in [state : States, lane : 0 .. LaneBound, forward : BOOLEAN, returning : BOOLEAN,
                shiftMark : BOOLEAN, turnMark : BOOLEAN, home : BOOLEAN]
  BY DEF Controllers, Bounded
<1>2. MaplessTypeOK'
  BY <1>1 DEF MaplessTypeOK, OthersOK, Owned
<1>3. OneOwner'
  BY DEF OneOwner, Owned, Homeward, Resting
<1> QED  BY <1>2, <1>3

LEMMA MaplessIInvInit == Init => MaplessIInv
<1> SUFFICES ASSUME Init PROVE MaplessIInv
  OBVIOUS
<1> USE DEF Init, CtlInit
<1>1. MaplessTypeOK
  <2>1. ctl \in [state : States, lane : 0 .. LaneBound, forward : BOOLEAN, returning : BOOLEAN,
                 shiftMark : BOOLEAN, turnMark : BOOLEAN, home : BOOLEAN]
    BY DEF States
  <2>2. ~ctl.returning /\ ~ctl.home
    OBVIOUS
  <2> HIDE DEF CtlInit
  <2>3. /\ front \in {"none", "clear", "near"} /\ hits \in 0 .. ConfirmFrames
        /\ age \in [Sensors -> {"never", "fresh", "stale"}]
        /\ wire \in Velocities /\ sent \in Velocities \cup {"nothing"}
    BY DEF Velocities
  <2>4. /\ emergency \in BOOLEAN /\ consumed \in BOOLEAN /\ started \in BOOLEAN
        /\ running \in BOOLEAN /\ cleared \in BOOLEAN /\ authorised \in BOOLEAN
        /\ sendFailed \in BOOLEAN
    OBVIOUS
  <2> HIDE DEF Init
  <2> QED  BY <2>1, <2>2, <2>3, <2>4 DEF MaplessTypeOK
<1>2. OneOwner /\ ResetForgets /\ StopHeld /\ BoundarySpent
  BY DEF OneOwner, ResetForgets, StopHeld, BoundarySpent, Motions
<1> QED  BY <1>1, <1>2 DEF MaplessIInv

-----------------------------------------------------------------------------
(* Steps that leave the machine alone.                                     *)

\* The script's last act sends no motion.
LEMMA LeavesStopped ==
  ASSUME OthersOK, Leave
  PROVE  /\ sent' \in {"zero", "nothing"} /\ wire' \in Velocities
         /\ running' \in BOOLEAN /\ sendFailed' \in BOOLEAN
BY DEF OthersOK, Leave, Velocities

\* Sensors, time and the ends of the script.
LEMMA QuietStep ==
  ASSUME MaplessIInv,
         \/ BadCommand \/ OnScan \/ BadScan \/ SendFails \/ TimeUp
         \/ \E s \in {"odom", "imu"} : OnOdomOrImu(s)
         \/ \E s \in Sensors : TimePasses(s)
  PROVE  MaplessIInv'
<1>1. /\ UNCHANGED <<ctl, emergency, started, authorised>>
      /\ sent' \in {"zero", "nothing"} /\ wire' \in Velocities
      /\ running' \in BOOLEAN /\ sendFailed' \in BOOLEAN
  <2> USE OthersTyped, LeavesStopped DEF inputs
  <2>1. CASE BadCommand \/ BadScan \/ TimeUp
    BY <2>1 DEF BadCommand, BadScan, TimeUp
  <2>2. CASE OnScan \/ (\E s \in {"odom", "imu"} : OnOdomOrImu(s)) \/ (\E s \in Sensors : TimePasses(s))
    BY <2>2 DEF OnScan, OnOdomOrImu, TimePasses, OthersOK
  <2>3. CASE SendFails
    BY <2>3 DEF SendFails
  <2> QED  BY <2>1, <2>2, <2>3
<1>2. /\ front' \in {"none", "clear", "near"}
      /\ hits' \in 0 .. ConfirmFrames
      /\ consumed' \in BOOLEAN
      /\ age' \in [Sensors -> {"never", "fresh", "stale"}]
      /\ age["odom"] # "never" => age'["odom"] # "never"
      /\ cleared' \in BOOLEAN /\ BoundarySpent'
  <2>0. OthersOK /\ BoundarySpent
    BY OthersTyped DEF MaplessIInv
  <2>1. CASE BadCommand \/ BadScan \/ TimeUp \/ SendFails
    BY <2>0, <2>1 DEF BadCommand, BadScan, TimeUp, SendFails, OthersOK, BoundarySpent, inputs
  <2>2. CASE OnScan
    BY <2>0, <2>2 DEF OnScan, Count, Heard, OthersOK, BoundarySpent, Sensors
  <2>3. CASE \E s \in {"odom", "imu"} : OnOdomOrImu(s)
    BY <2>0, <2>3 DEF OnOdomOrImu, Heard, OthersOK, BoundarySpent, Sensors
  <2>4. CASE \E s \in Sensors : TimePasses(s)
    BY <2>0, <2>4 DEF TimePasses, OthersOK, BoundarySpent, Sensors
  <2> QED  BY <2>1, <2>2, <2>3, <2>4
<1>3. OthersOK'
  BY <1>1, <1>2, OthersTyped DEF OthersOK, Velocities
<1>4. Bounded(ctl)
  BY DEF MaplessIInv, MaplessTypeOK, Bounded
<1>5. ctl' \in Controllers /\ Owned(ctl') /\ Bounded(ctl')
  BY <1>1, <1>4, MachineOwned
<1>6. ctl'.home => age'["odom"] # "never"
  BY <1>1, <1>2 DEF MaplessIInv, MaplessTypeOK
<1>7. MaplessTypeOK' /\ OneOwner'
  BY <1>3, <1>5, <1>6, MachineKeepsInv
<1>8. ResetForgets' /\ StopHeld'
  BY <1>1, <1>2 DEF MaplessIInv, ResetForgets, StopHeld, Motions
<1> QED  BY <1>2, <1>7, <1>8 DEF MaplessIInv

-----------------------------------------------------------------------------
(* The operator.                                                           *)

LEMMA StartPatrolMachine ==
  ASSUME NEW c \in Controllers, Owned(c)
  PROVE  /\ StartPatrol(c) \in Controllers /\ Owned(StartPatrol(c))
         /\ StartPatrol(c).state = IF c.state = "IDLE" THEN "INIT" ELSE c.state
         /\ StartPatrol(c).returning = c.returning
         /\ StartPatrol(c).lane = c.lane
<1> DEFINE e == [c EXCEPT !.home = TRUE]
<1>1. /\ e \in Controllers /\ e.state = c.state /\ e.home = TRUE /\ e.lane = c.lane
      /\ e.returning = c.returning
  BY DEF Controllers
<1>2. StartPatrol(c) = On(e, {"IDLE"}, "INIT") /\ "INIT" \in States
  BY DEF StartPatrol, States
<1> HIDE DEF e
<1>3. On(e, {"IDLE"}, "INIT").lane = e.lane
  BY <1>1 DEF On, Controllers
<1>4. /\ StartPatrol(c) \in Controllers /\ StartPatrol(c).home = TRUE
      /\ StartPatrol(c).state = IF c.state = "IDLE" THEN "INIT" ELSE c.state
      /\ StartPatrol(c).returning = c.returning
  BY <1>1, <1>2, EventMoves
<1> QED  BY <1>1, <1>2, <1>3, <1>4 DEF Owned, Homeward, Resting

LEMMA StartReturnMachine ==
  ASSUME NEW c \in Controllers, Owned(c), c.home
  PROVE  /\ StartReturn(c) \in Controllers /\ Owned(StartReturn(c))
         /\ StartReturn(c).home /\ StartReturn(c).lane = c.lane
         /\ c.state \in Resting => StartReturn(c).state = c.state
<1> DEFINE e == [c EXCEPT !.returning = TRUE]
<1>1. /\ e \in Controllers /\ e.state = c.state /\ e.home = c.home /\ e.lane = c.lane
      /\ e.returning = TRUE
  BY DEF Controllers
<1>2. StartReturn(c) = On(e, ActiveStates, "PAUSE_AND_RETURN_HOME")
      /\ "PAUSE_AND_RETURN_HOME" \in States
  BY DEF StartReturn, ReturnHomeEvent, States
<1> HIDE DEF e
<1>3. On(e, ActiveStates, "PAUSE_AND_RETURN_HOME").lane = e.lane
  BY <1>1 DEF On, Controllers
<1>4. /\ StartReturn(c) \in Controllers
      /\ StartReturn(c).home = c.home /\ StartReturn(c).returning = TRUE
      /\ StartReturn(c).state = IF c.state \in ActiveStates THEN "PAUSE_AND_RETURN_HOME"
                               ELSE c.state
  <2>1. /\ On(e, ActiveStates, "PAUSE_AND_RETURN_HOME") \in Controllers
        /\ On(e, ActiveStates, "PAUSE_AND_RETURN_HOME").home = e.home
        /\ On(e, ActiveStates, "PAUSE_AND_RETURN_HOME").returning = e.returning
        /\ On(e, ActiveStates, "PAUSE_AND_RETURN_HOME").state
             = IF e.state \in ActiveStates THEN "PAUSE_AND_RETURN_HOME" ELSE e.state
    BY <1>1, <1>2, EventMoves
  <2> QED  BY <1>1, <1>2, <2>1
<1>5. c.state \in ActiveStates \/ c.state \in Resting
  BY DEF Controllers, ActiveStates, Resting
<1>6. c.state \in Resting => c.state \notin ActiveStates
  BY DEF ActiveStates, Resting
<1>7. Owned(StartReturn(c))
  BY <1>4, <1>5 DEF Owned, Homeward
<1> QED  BY <1>1, <1>2, <1>3, <1>4, <1>6, <1>7

LEMMA StoppedMachine ==
  ASSUME NEW c \in Controllers, Owned(c)
  PROVE  /\ Stopped(c) \in Controllers /\ Owned(Stopped(c))
         /\ Stopped(c).state = "ERROR" /\ Stopped(c).home = c.home
         /\ Stopped(c).lane = c.lane
<1>1. /\ Stopped(c) \in Controllers /\ Stopped(c).state = "ERROR"
      /\ Stopped(c).home = c.home /\ Stopped(c).returning = c.returning
      /\ Stopped(c).lane = c.lane
  BY DEF Stopped, Controllers, States
<1> QED  BY <1>1 DEF Owned, Homeward, Resting

LEMMA ResetMachine ==
  ASSUME NEW c \in Controllers
  PROVE  /\ ResetAll(c) \in Controllers /\ Owned(ResetAll(c))
         /\ ResetAll(c).state = "IDLE" /\ ResetAll(c).home = c.home
         /\ ~ResetAll(c).returning /\ ResetAll(c).lane \in {0, c.lane}
<1> DEFINE e == [c EXCEPT !.returning = FALSE, !.shiftMark = FALSE, !.turnMark = FALSE]
<1>1. /\ e \in Controllers /\ e.returning = FALSE /\ e.home = c.home /\ e.lane = c.lane
  BY DEF Controllers
<1>2. ResetAll(c) = ResetEvent(e)
  BY DEF ResetAll
<1> HIDE DEF e
<1> DEFINE n == IF e.state = "FINISH" THEN 0 ELSE e.lane
           f == IF e.state = "FINISH" THEN TRUE ELSE e.forward
<1>3. n \in Nat /\ f \in BOOLEAN /\ n \in {0, e.lane}
  BY <1>1 DEF Controllers
<1>4. ResetEvent(e) = [e EXCEPT !.state = "IDLE", !.lane = n, !.forward = f]
  BY DEF ResetEvent
<1> HIDE DEF n, f
<1>5. /\ ResetEvent(e) \in Controllers /\ ResetEvent(e).state = "IDLE"
      /\ ResetEvent(e).home = e.home /\ ResetEvent(e).returning = e.returning
      /\ ResetEvent(e).lane = n
  BY <1>1, <1>3, <1>4 DEF Controllers, States
<1> QED  BY <1>1, <1>2, <1>3, <1>5 DEF Owned, Homeward

\* patrol_start, return_home, emergency_stop and reset.
LEMMA CommandStep ==
  ASSUME MaplessIInv, NEW command \in Commands, OperatorCommand(command)
  PROVE  MaplessIInv'
<1>1. /\ OthersOK /\ ctl \in Controllers /\ Owned(ctl) /\ Bounded(ctl)
      /\ ctl.home => age["odom"] # "never"
  BY OthersTyped, MachineOwned DEF MaplessIInv, MaplessTypeOK, Bounded
<1>2. /\ UNCHANGED <<front, hits, age, running, wire, sendFailed>>
      /\ sent' = "nothing" /\ consumed' \in BOOLEAN /\ started' \in BOOLEAN
      /\ cleared' \in BOOLEAN
  BY <1>1 DEF OperatorCommand, OthersOK
<1>3. command \in {"patrol_start", "return_home", "emergency_stop", "reset"}
  BY DEF Commands
<1>4. /\ ctl' \in Controllers /\ Owned(ctl') /\ Bounded(ctl')
      /\ ctl'.home => age["odom"] # "never"
      /\ emergency' \in BOOLEAN /\ authorised' \in BOOLEAN
      /\ emergency' => ctl'.state = "ERROR"
      /\ ~authorised' => /\ ctl'.state \in Resting
                         /\ ctl'.returning => emergency'
  <2>0. /\ emergency => ctl.state = "ERROR"
        /\ ~authorised => ctl.state \in Resting /\ (ctl.returning => emergency)
        /\ emergency \in BOOLEAN /\ authorised \in BOOLEAN
    BY <1>1 DEF MaplessIInv, StopHeld, ResetForgets, Resting, OthersOK
  <2>1. CASE command = "patrol_start"
    <3>1. /\ ctl' = StartPatrol(ctl) /\ emergency' = emergency
          /\ authorised' = (authorised \/ ~emergency) /\ age["odom"] # "never"
      BY <2>1 DEF OperatorCommand, Possible
    <3>2. /\ ctl' \in Controllers /\ Owned(ctl') /\ ctl'.lane = ctl.lane
          /\ ctl'.state = IF ctl.state = "IDLE" THEN "INIT" ELSE ctl.state
          /\ ctl'.returning = ctl.returning
      BY <1>1, <3>1, StartPatrolMachine
    <3>3. Bounded(ctl')
      BY <1>1, <3>2 DEF Bounded
    <3>4. /\ ctl'.home => age["odom"] # "never"
          /\ emergency' \in BOOLEAN /\ authorised' \in BOOLEAN
      BY <1>1, <2>0, <3>1
    <3>5. emergency' => ctl'.state = "ERROR"
      BY <2>0, <3>1, <3>2 DEF Resting
    <3>6. ~authorised' => ctl'.state \in Resting /\ (ctl'.returning => emergency')
      BY <2>0, <3>1, <3>2 DEF Resting
    <3> QED  BY <3>2, <3>3, <3>4, <3>5, <3>6
  <2>2. CASE command = "return_home"
    <3>1. /\ ctl' = StartReturn(ctl) /\ emergency' = emergency
          /\ authorised' = (authorised \/ ~emergency) /\ ctl.home
      BY <2>2 DEF OperatorCommand, Possible
    <3>2. /\ ctl' \in Controllers /\ Owned(ctl') /\ ctl'.lane = ctl.lane
          /\ ctl.state \in Resting => ctl'.state = ctl.state
      BY <1>1, <3>1, StartReturnMachine
    <3>3. Bounded(ctl')
      BY <1>1, <3>2 DEF Bounded
    <3>4. /\ ctl'.home => age["odom"] # "never"
          /\ emergency' \in BOOLEAN /\ authorised' \in BOOLEAN
      BY <1>1, <2>0, <3>1
    <3>5. emergency' => ctl'.state = "ERROR"
      BY <2>0, <3>1, <3>2 DEF Resting
    <3>6. ~authorised' => ctl'.state \in Resting /\ (ctl'.returning => emergency')
      BY <2>0, <3>1, <3>2 DEF Resting
    <3> QED  BY <3>2, <3>3, <3>4, <3>5, <3>6
  <2>3. CASE command = "emergency_stop"
    <3>1. ctl' = Stopped(ctl) /\ emergency' = TRUE /\ authorised' = FALSE
      BY <2>3 DEF OperatorCommand, Possible
    <3> QED  BY <1>1, <3>1, StoppedMachine DEF Bounded, Resting
  <2>4. CASE command = "reset"
    <3>1. ctl' = ResetAll(ctl) /\ emergency' = FALSE /\ authorised' = FALSE
      BY <2>4 DEF OperatorCommand, Possible
    <3>2. /\ ctl' \in Controllers /\ Owned(ctl') /\ ctl'.lane \in {0, ctl.lane}
          /\ ctl'.state = "IDLE" /\ ctl'.home = ctl.home /\ ~ctl'.returning
      BY <1>1, <3>1, ResetMachine
    <3>3. Bounded(ctl')
      BY <1>1, <3>2 DEF Bounded
    <3> QED  BY <1>1, <3>1, <3>2, <3>3 DEF Resting
  <2> QED  BY <1>3, <2>1, <2>2, <2>3, <2>4
<1>5. OthersOK'
  BY <1>1, <1>2, <1>4 DEF OthersOK
<1>6. MaplessTypeOK' /\ OneOwner'
  BY <1>2, <1>4, <1>5, MachineKeepsInv
<1>7. ResetForgets' /\ StopHeld'
  BY <1>2, <1>4 DEF ResetForgets, StopHeld, Motions, Resting
<1>8. BoundarySpent'
  BY DEF MaplessIInv, BoundarySpent, OperatorCommand
<1> QED  BY <1>6, <1>7, <1>8 DEF MaplessIInv

-----------------------------------------------------------------------------
(* The timer.                                                              *)

\* What a tick does to the machine, by way of the automatic start or not.
LEMMA TickMachine ==
  ASSUME MaplessIInv, NEW o \in TickOutcomes
  PROVE  /\ o.ctl \in Controllers /\ Owned(o.ctl)
         /\ o.velocity \in Velocities
         /\ o.ctl.home => ctl.home \/ AutoStart
         /\ o.ctl.returning => ctl.returning
         /\ ctl.state = "ERROR" => o.ctl.state = "ERROR"
         /\ ~AutoStart /\ ctl.state \in Resting =>
              /\ o.ctl.state = ctl.state
              /\ ~ctl.returning => o.velocity = "zero"
<1>1. ctl \in Controllers /\ Owned(ctl)
  BY MachineOwned
<1>2. CASE ~AutoStart
  <2>1. o \in Outcomes(ctl, consumed)
    BY <1>2 DEF TickOutcomes
  <2>2. TickResult(ctl, o)
    BY <1>1, <2>1, OutcomesResult
  <2> QED  BY <1>2, <2>2 DEF TickResult, Ticks, Resting
<1>3. CASE AutoStart
  <2>1. PICK first \in Outcomes(ctl, consumed) :
          o \in Outcomes(StartPatrol(first.ctl), consumed \/ AtBoundary)
    BY <1>3 DEF TickOutcomes
  <2>2. TickResult(ctl, first) /\ first.ctl \in Controllers /\ Owned(first.ctl)
    BY <1>1, OutcomesResult DEF TickResult, Ticks
  <2> DEFINE c == StartPatrol(first.ctl)
  <2>3. /\ c \in Controllers /\ Owned(c)
        /\ c.state = IF first.ctl.state = "IDLE" THEN "INIT" ELSE first.ctl.state
        /\ c.returning = first.ctl.returning
    BY <2>2, StartPatrolMachine
  <2> HIDE DEF c
  <2>4. TickResult(c, o)
    BY <2>1, <2>3, OutcomesResult DEF c
  <2> QED  BY <1>3, <2>2, <2>3, <2>4 DEF TickResult, Ticks, Resting
<1> QED  BY <1>2, <1>3

\* Without a boundary, or with one that is spent, a lane goes on.
LEMMA LaneGoesOn ==
  ASSUME NEW c \in Controllers, Owned(c), c.state = "MOVE_ALONG_LANE",
         NEW taken \in BOOLEAN, taken \/ ~AtBoundary, NEW o \in Outcomes(c, taken)
  PROVE  o.ctl.state = "MOVE_ALONG_LANE"
<1> DEFINE d == DropMarks(c)
<1>1. ApplyBoundary(c, taken) = c
  BY DEF ApplyBoundary
<1>2. d \in Controllers /\ d.state = "MOVE_ALONG_LANE" /\ d.returning = c.returning
  BY DEF DropMarks, Controllers
<1> HIDE DEF d
<1>3. ApplyProgress(c) = {d}
  <2>1. ShiftProgress(d) = {d} /\ TurnProgress(d) = {d}
    BY <1>2 DEF ShiftProgress, TurnProgress
  <2> QED  BY <2>1 DEF ApplyProgress, d
<1>4. ~d.returning
  BY <1>2 DEF Owned, Homeward, Resting
<1>5. FsmTick(d) = d
  BY <1>2 DEF FsmTick
<1>6. o.ctl = d
  BY <1>1, <1>3, <1>4, <1>5 DEF Outcomes, Move, PatrolTick
<1> QED  BY <1>2, <1>6

\* The same of the node's tick, by way of the automatic start or not.
LEMMA LaneEndsAtBoundary ==
  ASSUME MaplessIInv, ctl.state = "MOVE_ALONG_LANE", consumed \/ ~AtBoundary,
         NEW o \in TickOutcomes
  PROVE  o.ctl.state = "MOVE_ALONG_LANE"
<1>1. ctl \in Controllers /\ Owned(ctl) /\ consumed \in BOOLEAN
  BY MachineOwned, OthersTyped DEF OthersOK
<1>2. CASE ~AutoStart
  <2>1. o \in Outcomes(ctl, consumed)
    BY <1>2 DEF TickOutcomes
  <2> QED  BY <1>1, <2>1, LaneGoesOn
<1>3. CASE AutoStart
  <2>1. PICK first \in Outcomes(ctl, consumed) :
          o \in Outcomes(StartPatrol(first.ctl), consumed \/ AtBoundary)
    BY <1>3 DEF TickOutcomes
  <2>2. first.ctl.state = "MOVE_ALONG_LANE"
    BY <1>1, LaneGoesOn
  <2>3. first.ctl \in Controllers /\ Owned(first.ctl)
    BY <1>1, OutcomesResult DEF TickResult, Ticks
  <2>4. /\ StartPatrol(first.ctl) \in Controllers /\ Owned(StartPatrol(first.ctl))
        /\ StartPatrol(first.ctl).state = "MOVE_ALONG_LANE"
    BY <2>2, <2>3, StartPatrolMachine
  <2>5. (consumed \/ AtBoundary) \in BOOLEAN
    BY <1>1
  <2>6. (consumed \/ AtBoundary) \/ ~AtBoundary
    OBVIOUS
  <2> QED  BY <2>1, <2>4, <2>5, <2>6, LaneGoesOn
<1> QED  BY <1>2, <1>3

\* A tick that tells the robot to move has asked the arbiter and the filter.
LEMMA PublishSees ==
  ASSUME NEW velocity \in Velocities, Publish(velocity), OthersOK
  PROVE  /\ sent' \in Velocities \cup {"nothing"} /\ wire' \in Velocities
         /\ sent' \in Motions =>
              ~emergency /\ velocity \in Motions
BY DEF Publish, MustStop, Select, OthersOK, Velocities, Motions

LEMMA TickStep == MaplessIInv /\ Tick => MaplessIInv'
<1> SUFFICES ASSUME MaplessIInv, Tick PROVE MaplessIInv'
  OBVIOUS
<1>1. PICK o \in TickOutcomes :
        Bounded(o.ctl) /\ ctl' = o.ctl /\ Publish(o.velocity)
  BY DEF Tick
<1>2. /\ UNCHANGED <<emergency, front, hits, age, running, sendFailed>>
      /\ consumed' \in BOOLEAN /\ started' \in BOOLEAN /\ authorised' \in BOOLEAN
      /\ cleared' \in BOOLEAN
      /\ authorised \/ (AutoStart /\ ~emergency) => authorised'
      /\ ~authorised' => ~authorised /\ (AutoStart => emergency)
  BY OthersTyped DEF Tick, OthersOK
<1>3. /\ o.ctl \in Controllers /\ Owned(o.ctl) /\ o.velocity \in Velocities
      /\ o.ctl.home => ctl.home \/ AutoStart
      /\ o.ctl.returning => ctl.returning
      /\ ctl.state = "ERROR" => o.ctl.state = "ERROR"
      /\ ~AutoStart /\ ctl.state \in Resting =>
           /\ o.ctl.state = ctl.state
           /\ ~ctl.returning => o.velocity = "zero"
  BY TickMachine
<1>4. /\ sent' \in Velocities \cup {"nothing"} /\ wire' \in Velocities
      /\ sent' \in Motions => ~emergency /\ o.velocity \in Motions
  BY <1>1, <1>3, OthersTyped, PublishSees
<1>5. OthersOK'
  BY <1>2, <1>4, OthersTyped DEF OthersOK
<1>6. ctl'.home => age'["odom"] # "never"
  <2>1. ctl.home => age["odom"] # "never"
    BY DEF MaplessIInv, MaplessTypeOK
  <2>2. AutoStart => age["odom"] # "never"
    BY DEF AutoStart, Ready, Fresh, Sensors
  <2> QED  BY <1>1, <1>2, <1>3, <2>1, <2>2
<1>7. MaplessTypeOK' /\ OneOwner'
  BY <1>1, <1>3, <1>5, <1>6, MachineKeepsInv
<1>8. ResetForgets'
  <2>1. /\ emergency => ctl.state = "ERROR"
        /\ ~authorised => ctl.state \in Resting /\ (ctl.returning => emergency)
    BY DEF MaplessIInv, StopHeld, ResetForgets, Resting
  <2>2. sent' \in Motions => authorised' /\ ~emergency'
    <3> SUFFICES ASSUME sent' \in Motions, ~authorised' PROVE FALSE
      BY <1>2, <1>4
    <3>1. ~emergency /\ ~authorised /\ ~AutoStart
      BY <1>2, <1>4
    <3>2. o.velocity = "zero"
      BY <1>3, <2>1, <3>1
    <3> QED  BY <1>4, <3>2 DEF Motions
  <2>3. ~authorised' => ctl'.state \in Resting /\ (ctl'.returning => emergency')
    <3> SUFFICES ASSUME ~authorised'
                 PROVE  o.ctl.state \in Resting /\ (o.ctl.returning => emergency)
      BY <1>1, <1>2
    <3>1. ~authorised /\ (AutoStart => emergency)
      BY <1>2
    <3>2. o.ctl.returning => emergency
      BY <1>3, <2>1, <3>1
    <3>3. o.ctl.state \in Resting
      BY <1>3, <2>1, <3>1 DEF Resting
    <3> QED  BY <3>2, <3>3
  <2> QED  BY <2>2, <2>3 DEF ResetForgets, Resting
<1>9. BoundarySpent'
  <2> SUFFICES ASSUME ~consumed' PROVE cleared'
    BY DEF BoundarySpent
  <2>1. ~consumed /\ ~AtBoundary
    BY DEF Tick
  <2>2. cleared
    BY <2>1 DEF MaplessIInv, BoundarySpent
  <2>3. ~LaneEnded
    BY <1>1, <2>1, LaneEndsAtBoundary DEF LaneEnded
  <2> QED  BY <2>2, <2>3 DEF Tick
<1>10. StopHeld'
  BY <1>1, <1>2, <1>3 DEF MaplessIInv, StopHeld
<1> QED  BY <1>7, <1>8, <1>9, <1>10 DEF MaplessIInv

-----------------------------------------------------------------------------
(* The theorems.                                                           *)

\* The invariant is kept by every callback of the node and every end of the
\* script, for any number of lanes, confirming frames and lane bound.
THEOREM MaplessInvariant == Spec => []MaplessIInv
<1>1. Init => MaplessIInv
  BY MaplessIInvInit
<1>2. MaplessIInv /\ [Next]_vars => MaplessIInv'
  <2> SUFFICES ASSUME MaplessIInv, [Next]_vars PROVE MaplessIInv'
    OBVIOUS
  <2>1. ASSUME NEW command \in Commands, OperatorCommand(command) PROVE MaplessIInv'
    BY <2>1, CommandStep
  <2>2. CASE \/ BadCommand \/ OnScan \/ BadScan \/ SendFails \/ TimeUp
             \/ \E s \in {"odom", "imu"} : OnOdomOrImu(s)
             \/ \E s \in Sensors : TimePasses(s)
    BY <2>2, QuietStep
  <2>3. CASE Tick
    BY <2>3, TickStep
  <2>4. CASE UNCHANGED vars
    <3>1. UNCHANGED <<ctl, emergency, front, hits, consumed, age, started, running, wire,
                      sent, cleared, authorised, sendFailed>>
      BY <2>4 DEF vars, inputs
    <3>2. MaplessTypeOK' /\ OneOwner' /\ StopHeld'
      BY <3>1 DEF MaplessIInv, MaplessTypeOK, OneOwner, StopHeld
    <3>3. ResetForgets' /\ BoundarySpent'
      BY <3>1 DEF MaplessIInv, ResetForgets, BoundarySpent
    <3> QED  BY <3>2, <3>3 DEF MaplessIInv
  <2> QED  BY <2>1, <2>2, <2>3, <2>4 DEF Next
<1> QED  BY <1>1, <1>2, PTL DEF Spec

\* The run's invariant: the types, a home behind every return, and one of the
\* state machine and the return-home controller that owns the robot.
THEOREM OneMachineDrives == Spec => []MaplessInv
<1>1. MaplessIInv => MaplessInv
  BY DEF MaplessIInv, MaplessInv
<1> QED  BY <1>1, MaplessInvariant, PTL

\* A reset forgets what was stopped and what was asked for in an emergency
\* (PatrolController.reset, emergency_stop), the automatic start included.
THEOREM ResetIsComplete == Spec => []ResetForgets
<1>1. MaplessIInv => ResetForgets
  BY DEF MaplessIInv
<1> QED  BY <1>1, MaplessInvariant, PTL

\* The boundary that ended a lane does not end the next one, however long it
\* stays in front of the robot (PatrolController._apply_boundary, on_scan).
THEOREM BoundaryEndsOneLane == Spec => OneLanePerBoundary
<1>1. MaplessIInv /\ [Next]_vars => [LaneEnded => cleared]_vars
  <2> SUFFICES ASSUME MaplessIInv, Next, LaneEnded PROVE cleared
    OBVIOUS
  <2>0. ctl \in Controllers /\ Owned(ctl) /\ ctl.state = "MOVE_ALONG_LANE"
    BY MachineOwned DEF LaneEnded
  <2>1. ASSUME NEW command \in Commands, OperatorCommand(command) PROVE FALSE
    <3>1. ctl' \in {StartPatrol(ctl), Stopped(ctl), ResetAll(ctl)}
            \/ (command = "return_home" /\ ctl.home /\ ctl' = StartReturn(ctl))
      BY <2>1 DEF OperatorCommand, Possible, Commands
    <3>2. /\ StartPatrol(ctl).state = "MOVE_ALONG_LANE" /\ Stopped(ctl).state = "ERROR"
          /\ ResetAll(ctl).state = "IDLE"
      BY <2>0, StartPatrolMachine, StoppedMachine, ResetMachine
    <3>3. StartReturn(ctl).state \in {"MOVE_ALONG_LANE", "PAUSE_AND_RETURN_HOME"}
      <4> DEFINE e == [ctl EXCEPT !.returning = TRUE]
      <4>1. e \in Controllers /\ e.state = "MOVE_ALONG_LANE"
        BY <2>0 DEF Controllers
      <4>2. StartReturn(ctl) = On(e, ActiveStates, "PAUSE_AND_RETURN_HOME")
            /\ "PAUSE_AND_RETURN_HOME" \in States
        BY DEF StartReturn, ReturnHomeEvent, States
      <4> HIDE DEF e
      <4> QED  BY <4>1, <4>2, EventMoves
    <3> QED  BY <3>1, <3>2, <3>3 DEF LaneEnded
  <2>2. CASE \/ BadCommand \/ OnScan \/ BadScan \/ SendFails \/ TimeUp
             \/ \E s \in {"odom", "imu"} : OnOdomOrImu(s)
             \/ \E s \in Sensors : TimePasses(s)
    <3>1. ctl' = ctl
      BY <2>2 DEF BadCommand, OnScan, BadScan, SendFails, TimeUp, OnOdomOrImu, TimePasses
    <3> QED  BY <2>0, <3>1 DEF LaneEnded
  <2>3. CASE Tick
    <3> SUFFICES ASSUME ~cleared PROVE FALSE
      OBVIOUS
    <3>1. consumed
      BY DEF MaplessIInv, BoundarySpent
    <3>2. PICK o \in TickOutcomes : ctl' = o.ctl
      BY <2>3 DEF Tick
    <3>3. o.ctl.state = "MOVE_ALONG_LANE"
      BY <2>0, <3>1, <3>2, LaneEndsAtBoundary
    <3> QED  BY <3>2, <3>3 DEF LaneEnded
  <2> QED  BY <2>1, <2>2, <2>3 DEF Next
<1> QED  BY <1>1, MaplessInvariant, PTL DEF Spec, OneLanePerBoundary
=============================================================================
