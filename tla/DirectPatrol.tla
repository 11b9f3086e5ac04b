---------------------------- MODULE DirectPatrol ----------------------------
(***************************************************************************)
(* The patrol controller the MQTT runtime runs in production,              *)
(* lite3_mqtt/direct_patrol.py: DirectPatrolController over                *)
(* DirectNav2PatrolBackend, called the way run_mqtt_runtime.py and         *)
(* Lite3MqttRuntime (patrol_only) call it.                                 *)
(*                                                                         *)
(* Concurrency: the MQTT network thread and the thread of the internal     *)
(* mission subscriber call the controller; the patrol thread and any       *)
(* number of return-home threads drive the robot.  They share two flags,   *)
(* _stop and the backend's _cancel, and the process's one default ROS      *)
(* context: rclpy.init raises while another thread holds it.               *)
(***************************************************************************)
EXTENDS Naturals

CONSTANTS
  Patrol,    \* the patrol thread (at most one is alive)
  Returns,   \* return-home threads alive at the same time, a bound
  Orphan,    \* stands for every goal no thread waits for any more
  MaxLoops   \* max_loops, 0 = forever

ASSUME PatrolAssumption ==
  /\ Patrol \notin Returns /\ Orphan \notin Returns \cup {Patrol}
  /\ MaxLoops \in Nat

Workers == Returns \cup {Patrol}
Callers == {"mqtt", "ros"}

VARIABLES
  stop,        \* _stop
  cancel,      \* backend._cancel
  latched,     \* _emergency_latched
  home,        \* _home is not None
  context,     \* the default ROS context is initialised
  op,          \* what each caller is in the middle of
  pc,          \* where each worker is
  joins,       \* the return thread's `active` is alive
  spin,        \* spin_after_arrival
  loops,       \* completed loops of the patrol
  requested,   \* goals waiting in the action servers
  driving,     \* goals the action servers execute
  answer,      \* what each worker has been told of its goal
  overlapped   \* history: the patrol was started under a live return-home

flags == <<stop, cancel, latched, home>>
goals == <<requested, driving, answer>>
vars == <<flags, context, op, pc, joins, spin, loops, goals, overlapped>>

Init ==
  /\ stop = FALSE /\ cancel = FALSE /\ latched = FALSE /\ home = FALSE
  /\ context = FALSE
  /\ op = [c \in Callers |-> "idle"]
  /\ pc = [t \in Workers |-> "none"]
  /\ joins = [r \in Returns |-> FALSE]
  /\ spin = [r \in Returns |-> FALSE]
  /\ loops = 0
  /\ requested = {} /\ driving = {}
  /\ answer = [t \in Workers |-> "none"]
  /\ overlapped = FALSE

Alive(t) == pc[t] # "none"

-----------------------------------------------------------------------------
(* The callers.  Patrol commands and mission events run under the          *)
(* runtime's _state_lock and exclude each other; a detection trigger or a  *)
(* lost connection does not take that lock.                                *)

Locked == \E c \in Callers : op[c] \in {"stop", "return", "reset"}

\* START.
Start ==
  /\ op["mqtt"] = "idle" /\ ~Locked
  /\ ~latched /\ ~Alive(Patrol)
  /\ stop' = FALSE
  /\ cancel' = FALSE
  /\ pc' = [pc EXCEPT ![Patrol] = "boot"]
  /\ loops' = 0
  /\ overlapped' = \E r \in Returns : Alive(r)
  /\ UNCHANGED <<latched, home, context, op, joins, spin, goals>>

\* The first half of stop(), _stop.set(), and what precedes it in the caller.
RaiseStop(c, kind) ==
  /\ op[c] = "idle"
  /\ kind \in {"stop", "return", "reset"} => ~Locked
  /\ op' = [op EXCEPT ![c] = kind]
  /\ stop' = TRUE
  /\ UNCHANGED <<cancel, home, context, pc, joins, spin, loops, goals, overlapped>>

\* STOP; a lost connection, prepare_motion, close and the other detections;
\* a Coyote detection; EMERGENCY_STOP; RESET; RETURN_HOME.
Stop == RaiseStop("mqtt", "stop") /\ UNCHANGED latched
Interrupt == RaiseStop("mqtt", "interrupt") /\ UNCHANGED latched
Trigger == RaiseStop("mqtt", "trigger") /\ UNCHANGED latched
EmergencyStop == RaiseStop("mqtt", "stop") /\ latched' = TRUE
Reset == RaiseStop("mqtt", "reset") /\ UNCHANGED latched
ReturnHome(c) ==
  /\ ~latched /\ home
  /\ RaiseStop(c, "return")
  /\ UNCHANGED latched

\* The second half of stop(), backend.cancel_active(), and what follows it.
RaiseCancel(c) ==
  /\ op[c] \in {"stop", "interrupt", "trigger", "return", "reset"}
  /\ cancel' = TRUE
  /\ op' = [op EXCEPT ![c] = IF @ = "trigger" THEN "capture" ELSE "idle"]
  /\ \/ /\ op[c] = "return"
        /\ \E r \in Returns :
             /\ ~Alive(r)
             /\ pc' = [pc EXCEPT ![r] = "joining"]
             /\ joins' = [joins EXCEPT ![r] = Alive(Patrol)]
             \* a mission event spins if its source is the Coyote search
             /\ \E s \in IF c = "ros" THEN BOOLEAN ELSE {FALSE} :
                  spin' = [spin EXCEPT ![r] = s]
        /\ UNCHANGED <<latched, home>>
     \/ /\ op[c] = "reset"
        /\ latched' = FALSE /\ home' = FALSE
        /\ UNCHANGED <<pc, joins, spin>>
     \/ /\ op[c] \notin {"return", "reset"}
        /\ UNCHANGED <<latched, home, pc, joins, spin>>
  /\ UNCHANGED <<stop, context, loops, goals, overlapped>>

\* capture_home on the MQTT thread: refused while latched, or while another
\* thread holds the ROS context.
OpenCapture ==
  /\ op["mqtt"] = "capture"
  /\ \/ /\ ~latched /\ ~context
        /\ context' = TRUE
        /\ op' = [op EXCEPT !["mqtt"] = "capturing"]
     \/ /\ latched \/ context
        /\ op' = [op EXCEPT !["mqtt"] = "idle"]
        /\ UNCHANGED context
  /\ UNCHANGED <<flags, pc, joins, spin, loops, goals, overlapped>>

\* A pose was received, or the wait timed out.
CloseCapture ==
  /\ op["mqtt"] = "capturing"
  /\ context' = FALSE
  /\ op' = [op EXCEPT !["mqtt"] = "idle"]
  /\ home' \in {home, TRUE}
  /\ UNCHANGED <<stop, cancel, latched, pc, joins, spin, loops,
                 goals, overlapped>>

-----------------------------------------------------------------------------
(* Steps of the worker threads.                                            *)

Goto(t, there) == pc' = [pc EXCEPT ![t] = there]

\* The thread ends; a return thread that joins the patrol thread wakes up.
Ends(t) ==
  /\ Goto(t, "none")
  /\ joins' = IF t = Patrol THEN [r \in Returns |-> FALSE] ELSE joins
  /\ spin' = IF t \in Returns THEN [spin EXCEPT ![t] = FALSE] ELSE spin

Goes(t, there) == Goto(t, there) /\ UNCHANGED <<joins, spin>>

callerVars == <<stop, latched, op, overlapped>>

\* Wrong variant: rclpy.init inside the try block, so that its failure runs the
\* finally block too.
OpenSessionInTry(t, here, there) ==
  /\ pc[t] = here
  /\ \/ ~context /\ context' = TRUE /\ Goes(t, there)
     \/ context /\ context' = FALSE /\ Ends(t)
  /\ UNCHANGED <<callerVars, cancel, home, loops, goals>>

\* rclpy.init: the context is taken, or the exception ends the thread.
OpenSession(t, here, there) ==
  /\ pc[t] = here
  /\ \/ ~context /\ context' = TRUE /\ Goes(t, there)
     \/ context /\ Ends(t) /\ UNCHANGED context
  /\ UNCHANGED <<callerVars, cancel, home, loops, goals>>

\* The finally block of a session.  A goal nobody waits for any more stays
\* with its server.
CloseSession(t) ==
  /\ context' = FALSE
  /\ requested' = {IF g = t THEN Orphan ELSE g : g \in requested}
  /\ driving' = {IF g = t THEN Orphan ELSE g : g \in driving}
  /\ answer' = [answer EXCEPT ![t] = "none"]
  /\ UNCHANGED <<callerVars, cancel, home, loops>>

\* A session is left by an exception, or by a return value.
Raise(t) == CloseSession(t) /\ Ends(t)
Return(t, there) == CloseSession(t) /\ Goes(t, there)

\* capture_current_pose.
StartCapture(t) == OpenSession(t, "boot", "capturing")

Captured(t) ==
  /\ pc[t] = "capturing"
  /\ \/ Return(t, IF t = Patrol THEN "captured" ELSE "preparing")
     \/ Raise(t)

Local == UNCHANGED <<callerVars, context, goals>>

\* A look at _stop: leave the loop, or go on.
CheckStop(here, there) ==
  /\ pc[Patrol] = here
  /\ IF stop THEN Ends(Patrol) ELSE Goes(Patrol, there)
  /\ Local /\ UNCHANGED <<cancel, home, loops>>

\* _run: leave, or save the captured pose as home; then once round the loop.
PatrolCaptured == CheckStop("captured", "saving")

PatrolSaves ==
  /\ pc[Patrol] = "saving"
  /\ home' = TRUE
  /\ Goes(Patrol, "looping")
  /\ Local /\ UNCHANGED <<cancel, loops>>

PatrolLoops == CheckStop("looping", "preparing")

\* prepare_route: the patrol checks _stop once more after it, a return-home
\* thread goes straight on.
PrepareRoute(t) ==
  /\ pc[t] = "preparing"
  /\ cancel' = FALSE
  /\ Goes(t, IF t = Patrol THEN "prepared" ELSE "opening")
  /\ Local /\ UNCHANGED <<home, loops>>

\* Wrong variant: no second look at _stop.
PatrolPreparedUnchecked ==
  /\ pc[Patrol] = "prepared" /\ Goes(Patrol, "opening")
  /\ Local /\ UNCHANGED <<cancel, home, loops>>

PatrolPrepared == CheckStop("prepared", "opening")

LastLoop == loops + 1 = MaxLoops

\* After send_route: _stop, a failure or the loop limit end the patrol.
PatrolReturned ==
  /\ pc[Patrol] \in {"returned", "failed"}
  /\ \/ /\ stop \/ pc[Patrol] = "failed" \/ LastLoop
        /\ Ends(Patrol)
        /\ UNCHANGED loops
     \/ /\ ~stop /\ pc[Patrol] = "returned" /\ ~LastLoop
        /\ loops' = IF MaxLoops = 0 THEN 0 ELSE loops + 1
        /\ Goes(Patrol, "looping")
  /\ Local /\ UNCHANGED <<cancel, home>>

\* Wrong variant: the return-home goes on although the join timed out.
ReturnJoinsAnyway(r) ==
  /\ pc[r] = "joining" /\ Goes(r, "boot")
  /\ Local /\ UNCHANGED <<cancel, home, loops>>

\* _return_home: wait for the patrol thread, at most five seconds.
ReturnJoins(r) ==
  /\ pc[r] = "joining"
  /\ IF joins[r] THEN Ends(r) ELSE Goes(r, "boot")
  /\ Local /\ UNCHANGED <<cancel, home, loops>>

\* The route is done: give up, turn round, or call on_complete.
ReturnFails(r) ==
  /\ pc[r] = "failed"
  /\ Ends(r) /\ Local /\ UNCHANGED <<cancel, home, loops>>

ReturnSpins(r) ==
  /\ pc[r] = "returned" /\ spin[r]
  /\ Goes(r, "spinOpening") /\ Local /\ UNCHANGED <<cancel, home, loops>>

ReturnCompletes(r) ==
  /\ pc[r] = "spun" \/ (pc[r] = "returned" /\ ~spin[r])
  /\ Ends(r) /\ Local /\ UNCHANGED <<cancel, home, loops>>

-----------------------------------------------------------------------------
(* DirectNav2PatrolBackend.send_route and spin: one session each.          *)

OpenRoute(t) == OpenSession(t, "opening", "waiting")
OpenSpin(r) == OpenSession(r, "spinOpening", "spinWaiting")

\* After wait_for_server: unavailable, already cancelled, or send the goal.
ServerUnavailable(t) == pc[t] \in {"waiting", "spinWaiting"} /\ Raise(t)

CanceledBeforeGoal(t) ==
  /\ pc[t] \in {"waiting", "spinWaiting"}
  /\ cancel
  /\ Return(t, "failed")

SendGoal(t) ==
  /\ pc[t] \in {"waiting", "spinWaiting"}
  /\ ~cancel
  /\ Goes(t, IF pc[t] = "waiting" THEN "accepting" ELSE "spinAccepting")
  /\ requested' = requested \cup {t}
  /\ UNCHANGED <<callerVars, context, cancel, home, loops, driving, answer>>

\* The acceptance loops look at a deadline only, never at the cancel request.
TakeAccepted(t) ==
  /\ pc[t] \in {"accepting", "spinAccepting"}
  /\ answer[t] \in {"accepted", "succeeded", "aborted"}
  /\ Goes(t, IF pc[t] = "accepting" THEN "running" ELSE "spinning")
  /\ Local /\ UNCHANGED <<cancel, home, loops>>

TakeRejected(t) ==
  /\ pc[t] \in {"accepting", "spinAccepting"}
  /\ answer[t] = "rejected"
  /\ Return(t, "failed")

\* Wrong variant: spin's acceptance loop has no deadline.
AcceptanceTimeoutRouteOnly(t) == pc[t] = "accepting" /\ Raise(t)

AcceptanceTimeout(t) == pc[t] \in {"accepting", "spinAccepting"} /\ Raise(t)

\* send_route, result loop: the operator's cancel request, or the route
\* deadline, which may pass at any moment.
RequestCancel(t) ==
  /\ pc[t] = "running"
  /\ Goes(t, "canceling")
  /\ Local /\ UNCHANGED <<cancel, home, loops>>

CancelTimeout(t) == pc[t] = "canceling" /\ Return(t, "failed")

TakeResult(t) ==
  /\ pc[t] \in {"running", "canceling"}
  /\ answer[t] \in {"succeeded", "aborted"}
  /\ Return(t, IF answer[t] = "succeeded" /\ ~cancel THEN "returned" ELSE "failed")

\* spin, result loop: a cancel or the deadline is passed on without waiting
\* for its effect.
LeaveSpin(r) == pc[r] = "spinning" /\ Return(r, "failed")

TakeSpinResult(r) ==
  /\ pc[r] = "spinning"
  /\ answer[r] \in {"succeeded", "aborted"}
  /\ Return(r, IF answer[r] = "succeeded" THEN "spun" ELSE "failed")

-----------------------------------------------------------------------------
(* The action servers of Nav2 (external): a goal is accepted or rejected,  *)
(* and one that is being executed ends at any moment, in any way.          *)

clientVars == <<flags, context, op, pc, joins, spin, loops, overlapped>>

Tell(g, what) == answer' = IF g = Orphan THEN answer ELSE [answer EXCEPT ![g] = what]

ServerAnswers(g) ==
  /\ g \in requested
  /\ requested' = requested \ {g}
  /\ \/ driving' = driving \cup {g} /\ Tell(g, "accepted")
     \/ driving' = driving /\ Tell(g, "rejected")
  /\ UNCHANGED clientVars

ServerFinishes(g) ==
  /\ g \in driving
  /\ driving' = driving \ {g}
  /\ Tell(g, "succeeded") \/ Tell(g, "aborted")
  /\ UNCHANGED <<clientVars, requested>>

-----------------------------------------------------------------------------
Caller ==
  \/ Start \/ Stop \/ Interrupt \/ Trigger \/ EmergencyStop \/ Reset
  \/ \E c \in Callers : ReturnHome(c)

CallerGoesOn == OpenCapture \/ CloseCapture \/ \E c \in Callers : RaiseCancel(c)

RouteStep(t) ==
  \/ StartCapture(t) \/ Captured(t) \/ PrepareRoute(t) \/ OpenRoute(t)
  \/ ServerUnavailable(t) \/ CanceledBeforeGoal(t) \/ SendGoal(t)
  \/ TakeAccepted(t) \/ TakeRejected(t) \/ AcceptanceTimeout(t)
  \/ RequestCancel(t) \/ CancelTimeout(t) \/ TakeResult(t)

PatrolStep ==
  \/ RouteStep(Patrol)
  \/ PatrolCaptured \/ PatrolSaves \/ PatrolLoops \/ PatrolPrepared \/ PatrolReturned

ReturnStep(r) ==
  \/ RouteStep(r)
  \/ ReturnJoins(r) \/ ReturnFails(r) \/ ReturnSpins(r) \/ ReturnCompletes(r)
  \/ OpenSpin(r) \/ LeaveSpin(r) \/ TakeSpinResult(r)

Server == \E g \in Workers \cup {Orphan} : ServerAnswers(g) \/ ServerFinishes(g)

Next == Caller \/ CallerGoesOn \/ PatrolStep \/ (\E r \in Returns : ReturnStep(r)) \/ Server

Spec == Init /\ [][Next]_vars

\* Threads run, and every wait in them has a deadline, so no step of a thread
\* waits for the action servers.
Fairness ==
  /\ WF_vars(CallerGoesOn)
  /\ WF_vars(PatrolStep)
  /\ \A r \in Returns : WF_vars(ReturnStep(r))

FairSpec == Spec /\ Fairness

-----------------------------------------------------------------------------
(* Properties.                                                             *)

Kinds == {"idle", "stop", "interrupt", "trigger", "return", "reset", "capture", "capturing"}

Stages == {"none", "joining", "boot", "capturing", "captured", "saving", "looping",
           "preparing", "prepared", "opening", "waiting", "accepting", "running",
           "canceling", "returned", "failed", "spinOpening", "spinWaiting",
           "spinAccepting", "spinning", "spun"}

Answers == {"none", "accepted", "rejected", "succeeded", "aborted"}

PatrolTypeOK ==
  /\ stop \in BOOLEAN /\ cancel \in BOOLEAN /\ latched \in BOOLEAN /\ home \in BOOLEAN
  /\ context \in BOOLEAN
  /\ op \in [Callers -> Kinds]
  /\ pc \in [Workers -> Stages]
  /\ joins \in [Returns -> BOOLEAN]
  /\ spin \in [Returns -> BOOLEAN]
  /\ loops \in Nat /\ (loops = 0 \/ loops < MaxLoops)
  /\ requested \subseteq Workers \cup {Orphan}
  /\ driving \subseteq Workers \cup {Orphan}
  /\ answer \in [Workers -> Answers]
  /\ overlapped \in BOOLEAN

InSession(t) == pc[t] \in {"capturing", "waiting", "accepting", "running",
                           "canceling", "spinWaiting", "spinAccepting", "spinning"}
Sessions == {t \in Workers : InSession(t)}
              \cup {c \in Callers : op[c] = "capturing"}

\* The default ROS context belongs to at most one thread, and no thread shuts
\* it down under another: a session that failed to open never closes one.
OneRosSession ==
  \A t, u \in Sessions : t = u /\ context

\* The types, and the exclusion that the sessions rely on.
PatrolInv == PatrolTypeOK /\ OneRosSession

\* No caller is between the two halves of stop().
StopSettled == \A c \in Callers : op[c] \in {"idle", "capture", "capturing"}

\* A STOP is never lost between prepare_route and send_route: from the last
\* look at _stop on, the backend's cancel request stays raised, unless the
\* patrol was started while a return-home was still under way.
StopReachesPatrol ==
  stop /\ StopSettled /\ ~overlapped
    /\ pc[Patrol] \in {"opening", "waiting", "accepting", "running", "canceling"}
  => cancel

\* A return-home drives only after the patrol it interrupted is gone.
ReturnAfterPatrol ==
  \A r \in Returns :
    pc[r] \notin {"none", "joining"} /\ Alive(Patrol) => overlapped

\* "emergency stop is latched; RESET required": while it is latched every
\* thread that drives the robot has been told to cancel.
EmergencyStopsMotion ==
  latched /\ StopSettled =>
    \A t \in Workers :
      pc[t] \in {"accepting", "running", "spinAccepting", "spinning"} => cancel

\* A stopped patrol thread ends, unless START takes the stop back.
StopEndsPatrol == stop ~> ~stop \/ ~Alive(Patrol)

\* Every return-home thread ends, whatever Nav2 does.
ReturnEnds == \A r \in Returns : Alive(r) ~> ~Alive(r)

\* No thread of the controller is left behind, whatever Nav2 answers.
WorkersEnd == StopEndsPatrol /\ ReturnEnds
=============================================================================
