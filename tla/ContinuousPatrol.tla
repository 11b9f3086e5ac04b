--------------------------- MODULE ContinuousPatrol ---------------------------
(***************************************************************************)
(* The general patrol controller, ContinuousPatrolController of            *)
(* lite3_mqtt/patrol.py, over the watched Nav2PatrolBackend: the type      *)
(* Lite3MqttRuntime is written against.  Production runs its sibling of    *)
(* module DirectPatrol, which has no startup gate.                         *)
(*                                                                         *)
(* The MQTT thread calls the controller, one call at a time.  The patrol   *)
(* thread, one return-home thread and the thread of a motion preparation   *)
(* share the flags, the startup gate's lock and the process's ROS context. *)
(* A worker walks through stages; before some of them it looks at its      *)
(* stop flag.  What NavLease models of prepare_route, wait_until_ready and *)
(* send_route is reduced here to what they do to the flags.                *)
(***************************************************************************)
EXTENDS Naturals

CONSTANT MaxLoops   \* max_loops, 0 = forever

ASSUME ContinuousAssumption == MaxLoops \in Nat

Workers == {"patrol", "return"}
Threads == Workers \cup {"prepare"}

VARIABLES
  stop,          \* _stop
  returnCancel,  \* _return_cancel
  cancel,        \* backend._cancel
  latched,       \* _emergency_latched
  home,          \* _home is not None
  lock,          \* the thread that holds _startup_lock, or "none"
  host,          \* the navigation stack on the perception host
  context,       \* the thread that holds the default ROS context, or "none"
  op,            \* the call the MQTT thread is in the middle of
  at,            \* the stage of each thread
  phase,         \* where in that stage: the test, its start, the lock, its work
  joins,         \* the patrol thread that return-home waits for is alive
  loops,         \* completed loops
  halted         \* history: a stop took full effect and nothing was started since

flags == <<stop, returnCancel, cancel, latched, home>>
shared == <<lock, host, context>>
vars == <<flags, shared, op, at, phase, joins, loops, halted>>

Init ==
  /\ stop = FALSE /\ returnCancel = FALSE /\ cancel = FALSE
  /\ latched = FALSE /\ home = FALSE
  /\ lock = "none" /\ context = "none"
  /\ host \in {"down", "up"}
  /\ op = "idle"
  /\ at = [t \in Threads |-> "none"]
  /\ phase = [t \in Threads |-> "start"]
  /\ joins = FALSE /\ loops = 0
  /\ halted = FALSE

Alive(t) == at[t] # "none"

-----------------------------------------------------------------------------
(* The calls.                                                              *)

Start ==
  /\ op = "idle"
  /\ ~latched /\ \A t \in Workers : ~Alive(t)
  /\ stop' = FALSE /\ returnCancel' = TRUE
  /\ at' = [at EXCEPT !["patrol"] = "boot"]
  /\ phase' = [phase EXCEPT !["patrol"] = "start"]
  /\ loops' = 0
  /\ halted' = FALSE
  /\ UNCHANGED <<cancel, latched, home, shared, op, joins>>

\* stop() and the calls made of it: STOP, EMERGENCY_STOP, RESET and close.
RaiseStop(kind) ==
  /\ op = "idle"
  /\ op' = kind
  /\ stop' = TRUE
  /\ latched' = (latched \/ kind = "emergency")
  /\ UNCHANGED <<returnCancel, cancel, home, shared, at, phase, joins, loops, halted>>

RaiseReturnCancel ==
  /\ op \in {"stop", "emergency", "reset"}
  /\ ~returnCancel
  /\ returnCancel' = TRUE
  /\ UNCHANGED <<stop, cancel, latched, home, shared, op, at, phase, joins, loops, halted>>

RaiseCancel ==
  /\ op \in {"stop", "emergency", "reset"} /\ returnCancel
  /\ cancel' = TRUE
  /\ halted' = TRUE
  /\ op' = IF op = "reset" THEN "forget" ELSE "idle"
  /\ UNCHANGED <<stop, returnCancel, latched, home, shared, at, phase, joins, loops>>

\* The rest of reset().
Forget ==
  /\ op = "forget"
  /\ op' = "idle"
  /\ latched' = FALSE /\ home' = FALSE
  /\ UNCHANGED <<stop, returnCancel, cancel, shared, at, phase, joins, loops, halted>>

\* return_home(): the flags under the lock, then the backend, then the thread.
ReturnHome ==
  /\ op = "idle"
  /\ ~latched /\ home /\ ~Alive("return")
  /\ stop' = TRUE /\ returnCancel' = FALSE
  /\ op' = "return"
  /\ joins' = Alive("patrol")
  /\ halted' = FALSE
  /\ UNCHANGED <<cancel, latched, home, shared, at, phase, loops>>

SendHome ==
  /\ op = "return"
  /\ cancel' = TRUE
  /\ op' = "idle"
  /\ at' = [at EXCEPT !["return"] = "joining"]
  /\ phase' = [phase EXCEPT !["return"] = "start"]
  /\ UNCHANGED <<stop, returnCancel, latched, home, shared, joins, loops, halted>>

\* prepare_motion(), on the runtime's preparation worker.
PrepareMotion ==
  /\ ~Alive("prepare") /\ ~latched
  /\ at' = [at EXCEPT !["prepare"] = "barrier"]
  /\ phase' = [phase EXCEPT !["prepare"] = "start"]
  /\ UNCHANGED <<flags, shared, op, joins, loops, halted>>

-----------------------------------------------------------------------------
(* The stages.                                                             *)

Following(t) ==
  CASE at[t] = "boot" -> "gate"
    [] at[t] = "gate" -> "capture"
    [] at[t] = "capture" -> IF t = "patrol" THEN "preflight" ELSE "route"
    [] at[t] \in {"preflight", "route"} -> "barrier"
    [] at[t] = "barrier" -> IF t = "prepare" THEN "none" ELSE "prepare"
    [] at[t] = "prepare" -> "send"

\* Wrong: no look at the flag between prepare_route and send_route.
TestedNotAtSend == [patrol |-> {"gate", "capture", "preflight", "barrier", "prepare"},
                    return |-> {"capture", "barrier"},
                    prepare |-> {}]

\* The stages before which the thread looks at its stop flag.
Tested == [patrol |-> {"gate", "capture", "preflight", "barrier", "prepare", "send"},
           return |-> {"capture", "barrier", "send"},
           prepare |-> {}]

Goto(t, stage) ==
  /\ at' = [at EXCEPT ![t] = stage]
  /\ phase' = [phase EXCEPT ![t] = IF stage \in Tested[t] THEN "test" ELSE "start"]

End(t) == Goto(t, "none")

Quit(t) == IF t = "patrol" THEN stop ELSE returnCancel

Look(t) ==
  /\ Alive(t) /\ phase[t] = "test"
  /\ IF Quit(t)
     THEN /\ End(t)
          /\ cancel' = (cancel \/ (t = "return" /\ at[t] # "capture"))
     ELSE /\ phase' = [phase EXCEPT ![t] = "start"]
          /\ UNCHANGED <<at, cancel>>
  /\ UNCHANGED <<stop, returnCancel, latched, home, shared, op, joins, loops, halted>>

\* Wrong: return-home goes ahead when its wait has run out.
JoinRegardless ==
  /\ at["return"] = "joining"
  /\ Goto("return", "capture")
  /\ UNCHANGED <<flags, shared, op, joins, loops, halted>>

\* The return-home thread waits for the patrol, and gives up after 10 s.
Join ==
  /\ at["return"] = "joining"
  /\ IF joins /\ Alive("patrol") THEN End("return") ELSE Goto("return", "capture")
  /\ UNCHANGED <<flags, shared, op, joins, loops, halted>>

\* prepare_route: it raises for good once a goal's fate is unknown.
PrepareRoute(t) ==
  /\ at[t] \in {"boot", "route", "prepare"} /\ phase[t] = "start"
  /\ \/ cancel' = FALSE /\ Goto(t, Following(t))
     \/ End(t) /\ UNCHANGED cancel
  /\ UNCHANGED <<stop, returnCancel, latched, home, shared, op, joins, loops, halted>>

\* A route is valid from here, or none is; a valid one fixes the home pose.
Preflight ==
  /\ at["patrol"] = "preflight" /\ phase["patrol"] = "start"
  /\ \/ home' = TRUE /\ Goto("patrol", "barrier")
     \/ End("patrol") /\ UNCHANGED home
  /\ UNCHANGED <<stop, returnCancel, cancel, latched, shared, op, joins, loops, halted>>

\* _ensure_startup_ready: the lock, and inside it the perception host.  The
\* stack that is down is asked to start, and then asked for until its deadline.
TakeLock(t) ==
  /\ at[t] \in {"gate", "barrier"} /\ phase[t] = "start"
  /\ lock = "none"
  /\ lock' = t
  /\ phase' = [phase EXCEPT ![t] = "locked"]
  /\ UNCHANGED <<flags, host, context, op, at, joins, loops, halted>>

HostReady(t) ==
  /\ phase[t] \in {"locked", "polling"} /\ host = "up"
  /\ phase' = [phase EXCEPT ![t] = "checked"]
  /\ UNCHANGED <<flags, shared, op, at, joins, loops, halted>>

HostStarts(t) ==
  /\ phase[t] = "locked" /\ host # "up"
  /\ host' = "starting"
  /\ phase' = [phase EXCEPT ![t] = "polling"]
  /\ UNCHANGED <<flags, lock, context, op, at, joins, loops, halted>>

\* The stack itself comes up, or dies.
HostChanges ==
  /\ host' = IF host = "starting" THEN "up" ELSE "down"
  /\ host # "down"
  /\ UNCHANGED <<flags, lock, context, op, at, phase, joins, loops, halted>>

Released(t) == IF lock = t THEN "none" ELSE lock

\* rclpy.init: it raises while another thread's session is open.
OpenSession(t) ==
  /\ \/ phase[t] = "checked"
     \/ at[t] \in {"capture", "send"} /\ phase[t] = "start"
  /\ IF context = "none"
     THEN /\ context' = t
          /\ phase' = [phase EXCEPT ![t] = "open"]
          /\ UNCHANGED <<lock, at>>
     ELSE End(t) /\ lock' = Released(t) /\ UNCHANGED context
  /\ UNCHANGED <<flags, host, op, joins, loops, halted>>

\* Readiness and the pose capture have deadlines: they succeed or they raise.
CloseSession(t) ==
  /\ at[t] \in {"gate", "barrier", "capture"} /\ phase[t] = "open"
  /\ context' = "none" /\ lock' = Released(t)
  /\ Goto(t, Following(t)) \/ End(t)
  /\ UNCHANGED <<flags, host, op, joins, loops, halted>>

\* Wrong: the lock outlives a perception host that refuses.
HostFailsHolding(t) ==
  /\ phase[t] \in {"locked", "polling"}
  /\ End(t)
  /\ UNCHANGED <<flags, shared, op, joins, loops, halted>>

\* The perception host refuses, or is not ready in time, before any ROS session.
HostFails(t) ==
  /\ phase[t] \in {"locked", "polling"}
  /\ lock' = Released(t)
  /\ End(t)
  /\ UNCHANGED <<flags, host, context, op, joins, loops, halted>>

\* send_route returns: canceled, failed, or with the route driven.  The patrol
\* then ends or starts its next loop.
RouteEnds(t) ==
  /\ at[t] = "send" /\ phase[t] = "open"
  /\ context' = "none"
  /\ \/ End(t) /\ UNCHANGED loops
     \/ /\ t = "patrol" /\ ~stop /\ ~cancel
        /\ loops' = IF MaxLoops = 0 THEN 0 ELSE loops + 1
        /\ MaxLoops = 0 \/ loops + 1 < MaxLoops
        /\ Goto(t, "barrier")
  /\ UNCHANGED <<flags, lock, host, op, joins, halted>>

Work(t) ==
  \/ Look(t) \/ PrepareRoute(t) \/ TakeLock(t) \/ HostReady(t) \/ HostStarts(t)
  \/ HostFails(t) \/ OpenSession(t) \/ CloseSession(t)

Next ==
  \/ Start \/ ReturnHome \/ SendHome \/ PrepareMotion
  \/ \E kind \in {"stop", "emergency", "reset"} : RaiseStop(kind)
  \/ RaiseReturnCancel \/ RaiseCancel \/ Forget
  \/ Join \/ Preflight \/ HostChanges
  \/ \E t \in Threads : Work(t) \/ RouteEnds(t)

Spec == Init /\ [][Next]_vars

\* A thread that can go on does; a call finishes; send_route answers a cancel.
\* A goal that nobody cancels may take for ever.  The lock is contended by at
\* most two threads, and each command brings the other only once.
FairSpec ==
  /\ Spec
  /\ WF_vars(SendHome \/ RaiseReturnCancel \/ RaiseCancel \/ Forget)
  /\ WF_vars(Join) /\ WF_vars(Preflight)
  /\ \A t \in Threads : /\ WF_vars(Work(t)) /\ SF_vars(TakeLock(t))
                        /\ WF_vars(cancel /\ RouteEnds(t))

-----------------------------------------------------------------------------
(* Properties.                                                             *)

Stages == {"none", "joining", "boot", "gate", "capture", "preflight", "route", "barrier",
           "prepare", "send"}

Phases == {"test", "start", "locked", "polling", "checked", "open"}

ContinuousTypeOK ==
  /\ \A f \in {stop, returnCancel, cancel, latched, home, joins, halted} : f \in BOOLEAN
  /\ {lock, context} \subseteq Threads \cup {"none"}
  /\ op \in {"idle", "stop", "emergency", "reset", "forget", "return"}
  /\ at \in [Threads -> Stages]
  /\ phase \in [Threads -> Phases]
  /\ host \in {"down", "starting", "up"}
  /\ loops \in Nat /\ (MaxLoops = 0 => loops = 0)

\* The return-home thread touches the robot only after the patrol thread is
\* gone (_return_home_after_stop), and no patrol begins under it (start()), so
\* that one thread at a time clears and obeys the backend's cancel flag.
OneDriver == at["return"] \notin {"none", "joining"} => ~Alive("patrol")

ContinuousInv == ContinuousTypeOK /\ OneDriver

\* A stop is never lost to a prepare_route that clears the backend's flag at
\* the same moment: once stop() is through, a route that is being driven is
\* being canceled; and an emergency is always such a stop.
StopSticks ==
  /\ halted => \A t \in Workers : at[t] = "send" /\ phase[t] # "test" => cancel
  /\ latched /\ op = "idle" => halted

\* After a stop both workers end, whatever Nav2, the perception host and the
\* preparation thread do, unless the operator starts one again.
StopEnds == halted ~> ~halted \/ \A t \in Workers : ~Alive(t)
=============================================================================
