# Formal models of the Lite3 patrol robot software

TLA+ modules, TLC configurations and TLAPS proofs for the software in this
repository: a Lite3 quadruped that patrols a route, obeys MQTT commands, reacts
to detections, and drives through ROS 2 / Nav2.

Run everything from this directory: `tlc -config MCX.cfg MCX.tla` checks a
configuration, `tlapm X_proofs.tla` checks proofs. Paths below are relative to
the repository; `lite3_mqtt/…` is short for `src/lite3_mqtt/…`.

## 1. Inventory

Two hosts share one ROS graph: the IQ9 computer (MQTT runtime, Coyote bridge,
perception) and the *perception host* (Nav2, lidar, navigation watchdog).

| Component | State it keeps | Operations | What makes it correct |
|---|---|---|---|
| Navigation watchdog, `scripts/run_nav_watchdog.py` | armed, stale latch, pending reset and token, quiet timer, outstanding cancel RPCs, drain error | heartbeat, reset request, 0.2 s timer | no goal runs without a live client for longer than the timeout; a reset never completes while a cancel RPC can still hit somebody's goal |
| Watched patrol backend, `lite3_mqtt/patrol.py` (`Nav2PatrolBackend`, `NavGoalStatusState`, `NavSafetyState`) | cancel request, goal uncertainty, tokens, clean cancel rounds | wait_until_ready, prepare_route, send_route, cancel_active | every goal is covered by the watchdog from the request to its end, through timeouts, lost messages and crashes |
| Continuous patrol controller, `lite3_mqtt/patrol.py`, with `lite3_mqtt/perception_host.py` as its gate | stop flag, return cancel, latch, threads, home, startup lock | start, stop, prepare_motion, return_home, emergency_stop, reset, close | one thread drives at a time; a stop survives every `prepare_route`; every worker ends after a stop |
| Direct patrol controller and backend, `lite3_mqtt/direct_patrol.py` (production) | stop flag, shared cancel request, emergency latch, home, patrol thread, return threads | start, stop, capture_home, return_home, emergency_stop, reset, close | STOP and EMERGENCY_STOP reach the thread that drives; one ROS session at a time; every thread ends |
| MQTT runtime, `lite3_mqtt/runtime.py`, `media.py`, `scripts/run_mqtt_runtime.py` | recent commands and their newest time, recent events and missions, mission reservation, detection slots, worker queues, closed flag | MQTT message, mission event, detection, motion preparation, home captured, shutdown | commands are applied once and in order; a detection slot is never lost; nothing starts after close, and close ends |
| MQTT client, `lite3_mqtt/client.py` | session, subscription pending, publications waiting for an answer | connect, subscribe, deliver, publish, disconnect, stop | a patrol does not outlive the session it was started in; every wait for the broker is bounded |
| Coyote motion controller, `lite3_mqtt/coyote_bridge.py`, with `lite3_motion/local_avoidance.py` and the gated sink of the bridge script | armed search and its event, stored status, search phase, detour, guard, hold and emergency flags, gate | status, trigger, 20 Hz tick, stop, emergency stop, reset, pause/resume | the robot moves for a triggered search only; the gate closes on a standing robot; every search ends and is answered at most once |
| Coyote bridge process, `scripts/run_coyote_mqtt_bridge.py`, `lite3_motion/direct_return.py` | mission slot, Stand toggle, LED, armed bark and bark loops, captures, return vectors, homes, completion thread | trigger, stand, search order, capture, gesture, COMPLETE, way home, Sit, lost connection | one mission moves the robot at a time; its cues end with it; the report comes before the way home; the slot is given back |
| Coyote ROS node, `lite3_ros/coyote_bridge_rclpy_node.py` | search orders, poses, posture, one executor | statuses, ticks, announcements, posture and pose callbacks | a callback that blocks starves all the others |
| Media spool, `lite3_perception/coyote_spool.py`, `coyote_pipeline.py`, `coyote_bridge.py` | per event an image and a manifest that is ready, sending, published or failed; the worker's queue | write, announce, claim, submit, release, publish, complete, fail, close | an image is sent at most once, through crashes and duplicated announcements; none is forgotten; no partial artefact is visible |
| Mapless patrol, `scripts/run_lidar_auto_patrol.py`, `lite3_ros/patrol_rclpy_node.py`, `lite3_behavior`, `lite3_control`, `lite3_navigation`, lidar boundary detector | FSM state and lane, return-home controller, marks of a shift or a turn, emergency flag, sensor ages, boundary hits | operator commands, scans, odometry, IMU, timer tick, time limit | two machines never own the robot at once; a reset revives nothing; one boundary ends one lane; the filter's stop reaches the robot; the script leaves a standing robot |
| Steering laws, cameras, IQ9 tools, voice, ASR, web, configuration | mostly numeric or external | | see *Not modelled* |

Interactions: MQTT commands reach the runtime on paho's network thread; the
runtime calls the patrol controller under its state lock (detections and lost
connections do without it); the controller's worker threads talk to the Nav2
action servers; the watched backend exchanges heartbeat, arm-ack, reset and
reset-ack topics with the watchdog; the watchdog calls cancel-all on the same
action servers; a detection of the runtime reserves a mission and publishes the
trigger that the bridge process takes; the bridge orders a search from its motion
controller, captures return vectors, publishes COMPLETE and drives home by
itself; the images of a search go through the spool's files.

What is hard here: two hosts and lossy topics between them; a fail-safe whose
own cancel requests may arrive late; threads that share two flags and one ROS
context; deadlines racing late answers; process restarts. `PROJECT.json` lists
each hazard at its line.

## 2. Plan

1. `FailSafe`, `NavWatchdog`, `NavLease`: the safety core across two hosts.
2. `DirectPatrol`: the production controller with its threads.
3. `MediaDelivery`, `CoyoteSpool`: writer, reader and bounded media worker with
   crashes; the abstract delivery.
4. `SearchSession`, `CoyoteMotion`: the search controller with avoidance, guard,
   pause and emergency latch; the abstract session.
5. `CoyoteMission`: the mission life cycle, over the abstract `SearchSession`.
6. `MqttRuntime`: runtime, client and media worker as one process.
7. `MaplessPatrol`: state machine, arbiter, filter, gate and return home.
8. `ContinuousPatrol`: the general controller with its startup gate.

All eight are written, checked and proved: every safety invariant and every action
property of the passing runs is a theorem, and so are the three refinements
(section 5). What is left for a later sitting: a watchdog that
restarts (section 6), the waypoint tools of `lite3_iq9`, and abstract
specifications that `DirectPatrol` and `MqttRuntime` could be shown to implement.

## 3. Modules and how they correspond to the code

**`FailSafe`** is what the watchdog promises, without services, tokens or time:
a mode, whether a reset is draining, and whether any cancel RPC is outstanding.

**`NavWatchdog`** models `NavHeartbeatWatchdog`. rclpy runs its callbacks one at
a time, so each is one action: `OnHeartbeat`, `OnResetRequest` (both through
`BeginReset`) and one action per exit of the timer `_check` (`CheckDrainBlocked`,
`CheckDrainQuiet`, `CheckResetDone`, `CheckStaleHold`, `CheckStaleCancel`).
`last_heartbeat` and `reset_quiet_since` become ages, capped just above the
constant they are compared with; the table of futures becomes `rpc`, one state
per service. `Answer`, `Rediscover` and `Tick` are the environment. The acks
the watchdog publishes are grow-only sets of tokens.

**`NavLease`** extends it with the client (`Nav2PatrolBackend`), the link and the
action server. `pc` follows `wait_until_ready` (`readying`), the handover to
`send_route` (`ready`), arming, each waypoint, acceptance, the running goal, the
arrival check (`settling`); a dead process is `idle` until its next call.
Assumptions:
- heartbeats and reset requests are two topics, each readiness makes its own
  publisher of resets and each route its own of heartbeats, and the watchdog has a
  subscription per topic. So the link keeps order per publisher only, which here
  is per token: a queue that drops its oldest message when full and may lose or
  delay any message for any time, past the end of its publisher and past whatever
  later publishers sent. `Deliver` takes the head of any of them. Acknowledgements
  arrive at any later time or never;
- the Coyote output node is one more publisher of reset requests
  (coyote_bridge_rclpy_node.py:299), which repeats its token and does not look at
  the patrol. As it may publish at any moment and the link may keep its request for
  any time, the watchdog may take one at any moment (`Handoff`). The node exists only
  with `--motion-output ros`, and the launch file starts the bridge with `udp`
  (lite3_system.launch.py:73), so its tokens are a constant, empty in `nav_lease` and
  not in `nav_lease_live`. Its acknowledgement changes nothing of the lease;
- `stray` is a history variable: what messages of other publishers than the one in
  use have done to the watchdog since the last handshake began;
- the action's status stream is up to date by the time a clean cancel round is
  counted, and a goal request that still waits in the server is handled before
  the second clean round is answered (`ServerProbed`): this is the reason the
  code has two rounds separated by `nav_idle_quiet_sec`. Without it the reset
  could be asked for under a goal nobody has seen yet;
- a route starts only from granted readiness, as `_run_loop` calls
  `_ensure_startup_ready` on every loop; the watchdog process stays up;
- geometry, clearances, stall detection and arrival tolerances are
  nondeterministic outcomes, and a `reading` says at each step that looks whether samples
  (`Unsafe`) or the graph (`Unready`) are in order. A goal handle or result that is `None` is the answer "lost".

**`DirectPatrol`** models `DirectPatrolController` over `DirectNav2PatrolBackend`
as `run_mqtt_runtime.py` uses it. Shared: `_stop`, `_cancel`, the latch, `home`
and the default ROS context. `stop()` is two steps (`RaiseStop`, `RaiseCancel`)
because a worker may run between its two assignments; callers that hold the
runtime's `_state_lock` exclude each other (`Locked`), detections and lost
connections do not. Each worker has a `pc`; each ROS session starts with
`OpenSession` (rclpy.init raises when another thread holds the context) and ends
in its `finally` block (`CloseSession`). Deadlines may pass at any moment. A goal
that its thread abandons is kept as `Orphan`. START is one step, since its two
clears precede the thread it starts and exclude every other locked caller.

**`MediaDelivery`** is what the spool promises of an image: offered once, taken,
perhaps given back untouched, handed to MQTT at most once, settled at most once.

**`CoyoteSpool`** models the files and the three threads around them. `image` and
`manifests` are what is on disk; every change of them is one `os.replace`
(`Rename`, `WriteManifest`), so a crash between two actions is a crash between two
file operations. The producer (`StartEpisode` … `WriteManifest`) is
`_start_episode` with `write_image`. The bridge's executor is a single thread, so
`_submit_manifest` runs `Receive`, the claim and then `Submit` or `Release` without
another callback in between: `claiming` is its local variable. The worker
(`Take`, `Publish`, `Complete`, `Fail`) is `CoyoteMediaWorker._run`. `Close` and
`CloseDone` are the clean-up order of `run_coyote_mqtt_bridge.py` and the worker's
`close`; a worker that misses its join timeout dies with the process
(`BridgeCrash`). `sends` and `lost` are history variables. Assumptions: an event id
is used once (`new_event_id`), one producer and one bridge run at a time, the
internal topic may drop a message or keep copies of it, a publication that raises
after `client.publish` may have been sent. A tombstone that cannot be written is
the second disjunct of `Fail`, `Release` and `ClaimUnreadable`.

**`SearchSession`** is what the mission layer may rely on when it asks for a
search: an event is taken at most once, one search runs at a time, and a search
ends with one answer for its event or is dropped without one.

**`CoyoteMotion`** models `CoyoteMotionController`. Its lock covers each method
whole, so an action is a method: `Tick`, `StartSearch`, `HandleStatus` and
`RejectStatus`, `Stop`, `EmergencyStop`, `Reset`, and the pause and resume around a
long jump (`LongJump`, `JumpDeclined` for an event that has had its jump,
`Resume`). `ctl` holds the controller's fields, `sink` the
`GatedUdpMotionSink` with the last velocity on the wire, `answers` the COMPLETE
callbacks. A tick is a pipeline, as in the code: `Wanted` (the status, or the
search), `Arbitrate` (the avoidance policy may replace the velocity and the
reason), `Guard` (time and progress limits), `TickSink` (send, or stop and
release); each stage returns the set of decisions it may take. Abstractions:
- poses, yaw errors, pulses, sweep counts and the side of a turn are outcomes a
  stage may choose; clearances are what `Views` says, one view per tick;
- a status is one of four reports; its age and the session timer are flags that
  advance by `StatusAges` and `SessionTimeout`; the guard's timers may have run
  out whenever they are read;
- events are fewer than the 256 the code remembers, so none is evicted; sending
  does not raise; the sequence numbers of patrol commands are left out, their
  effect is `Stop`, `EmergencyStop` or `Reset`.

**`CoyoteMission`** extends `SearchSession` with the threads of the bridge process
around a search. `slot`, `start` and `attempt` are `CoyoteMissionStartRoutine` and its
thread; `ordered`, `complete` and `ExecutorBusy` are the queue, the topic and the one
executor thread that the ROS callbacks share; `work` is the completion routine
and then the way home and the Sit, a step per wait. `led`, `armedCue` and `barking`
are the cues, `capture`, `vectors` and `homes` what the way home needs. Motion Host is
external: Stand/Sit is a toggle (`HostToggles`), a command may be lost, the robot gets
up in its own time, and what the bridge sees of it is late (`PostureArrives`). A
search that ends with NOT_FOUND takes the robot home inside the callback of its
COMPLETE, so `PostureArrives` and `PoseArrives` wait until it returns. `faulted` is a
history variable: a lost connection, a failed or doubled command, a failing
device, a dropped or refused search. Distances and vectors are outcomes (`Moved`,
`MoveFails`).

**`MqttRuntime`** is the other process: `Lite3MqttRuntime` under
`run_mqtt_runtime.py`, over `PahoMqttClient` and `DetectionMediaPublisher`. What the
network thread does in one callback under `_state_lock` is one action; a callback
that waits (`capture_home`) holds the thread in `network`. `patrolOnly` chooses at the
start between the deployed mode and the full one, in which `handle_message`
remembers commands. `Command` stands for duplicate, late and failing commands
(`AcceptCommand`, `ForgetCommand`), `Detection`, `Coyote` and `BrokenCup` for triggers,
`MissionEvent`, `HomeReached` and `Release` for the mission and its reservation,
`TakeDetection` … `EndTask` for the media worker, `PrepareMotion` for the other
executor, `Shutdown` … `StopClient` for the steps of `main` and `close`. `link` is the
session: joined, subscribed, refused or down. The patrol is reduced to what the
runtime tells it; `DirectPatrol` models what becomes of that.

**`MaplessPatrol`** models one process with one thread: every callback, the timer's
tick and the end of the loop is an action. A tick is a pipeline as in
`PatrolController.tick`: `ApplyBoundary`, `ApplyProgress`, the return controller or
`PatrolTick`, then `Select`, `MustStop` and `Ready` decide what is sent. The first tick
that is ready starts the patrol and runs the controller twice, as the code does.
`ctl` joins the state machine, its context, the return-home controller, the marks of
a shift or turn and the home pose. Distances and angles are outcomes; an age is
never, fresh or stale. The command timeout cannot expire, since the command is
marked in the tick that reads it, and no manual command is ever set in this
program, so both are left out.

**`ContinuousPatrol`** models `ContinuousPatrolController` over the watched backend.
`stop()` is three steps (its two flags and the backend's), and `return_home` two.
The patrol, the return-home and the preparation thread walk through stages (`at`);
in a stage, `phase` is the look at the stop flag (`Look`, where `Tested` says the code
has one), the start, the wait inside the gate's lock for the perception host, and
the ROS session. `PrepareRoute` clears the backend's cancel request; the looks
before and after it are what `StopSticks` is about. `HostReady`, `HostStarts` and
`HostFails` are `ensure_navigation`: it asks, starts the stack, polls until its
deadline. Not deployed: `run_mqtt_runtime.py` uses the direct controller.

**`NavLease_proofs`** (the watchdog, its abstraction and the lease),
**`DirectPatrol_proofs`**, **`CoyoteSpool_proofs`**, **`CoyoteMotion_proofs`**,
**`CoyoteMission_proofs`**, **`MqttRuntime_proofs`**, **`MaplessPatrol_proofs`** and
**`ContinuousPatrol_proofs`** hold the theorems.

Definitions whose comment calls them wrong are plausible mistakes of the
code (a missing guard, a forgotten reset, an off-by-one); replacing the correct
definition by them makes the property they are paired with in `PROJECT.json`
fail, which is how the properties were tested.

## 4. Runs

| Run | Checks | Bounds and why they are enough |
|---|---|---|
| `watchdog` | `WatchdogInv`, `AckedResetIsClean`, `DrainErrorIsFinal`, `ImplementsFailSafe` | two services (one can lag or fail while the other is fine), two tokens (a request superseding another), every timeout 2 ticks (before, at, after). 20 320 states. The same properties are proved for all values. |
| `nav_lease` | `LeaseInv`, `GoalAlwaysWatched`, `DisarmsOnlyWhenIdle` | three tokens: two handshakes and a route between them or after them, or a handshake and two routes, so what an old lease, an old reset or a predecessor process leaves behind meets a new one; two waypoints with one retry; one message per publisher on the link (a repeated reset in a queue of one replaces its own copy: `DisarmsOnlyWhenIdle` sees it when it is sent first, and again after that copy was taken or lost). 829 000 states. The properties are proved for all values. |
| `nav_lease_live` | `OrphanStopped` | one handshake and one route, one message per publisher, and reset requests of the Coyote node at any moment: one goal is enough to be orphaned in every way. 273 224 states. That `GoalAlwaysWatched` holds beside the Coyote node, too, is theorem `GoalsAreWatched`. |
| `direct_patrol` | `PatrolInv`, `StopReachesPatrol`, `ReturnAfterPatrol`, `WorkersEnd` | the patrol thread and one return-home thread, a loop limit of two. 336 512 states. The safety properties are proved for all values. |
| `direct_patrol_emergency` | `EmergencyStopsMotion`, violated | finding below |
| `coyote_spool` | `SpoolSafety`, `ManifestsTellTruth`, `NoClaimForgotten`, `ImplementsDelivery`, `OfferedIsSettled` | three events and a queue of one: one event with the worker, one queued, one refused. Crashes and restarts are not bounded. 68 166 states. The safety properties are proved for all values. |
| `coyote_motion` | `MotionSafety`, `EmergencyIsSilent`, `UnarmedMotionIsDetour`, `FoundIsSeen`, `ImplementsSession` | two events (one searched, one coalesced or next) and both detection types (one armed, one whose statuses arrive anyway), every view, every age, any number of stops and resets. Events and types are symmetric. 111 107 states. The same properties are proved for all values. |
| `coyote_motion_live` | `SearchEnds` | one event and type: a search ends or not by itself. |
| `coyote_mission` | `MissionInv`, `CuesBelongToSlot`, `CompleteBeforeHome`, `StrandedOnlyByFault`, `MissionSettles` | two missions, so that a second trigger meets every step of the first and what the first left behind; two Stand/Sit commands under way, so that a late one undoes another. 318 019 states. The safety properties are proved for all values. |
| `mqtt_runtime` | `RuntimeInv`, `CommandsInOrder`, `PatrolNeedsLink`, `ClosedStartsNothing`, `CloseEnds` | a command log of two, so that it evicts, and an event memory of two, which two events never overflow (that an eviction takes no pending event is theorem `SlotsAreKept`, for any memory at least as large as the slots); two slots as in the code; two events and a few timestamps; sessions and failures are not bounded. 688 740 states. The safety properties are proved for all values. |
| `mapless_patrol` | `MaplessInv`, `ResetForgets`, `OneLanePerBoundary`, `EndsStopped` | two lanes as in the code, one confirming frame as configured; the lane number, which an emergency in FINISH keeps, up to 4. 46 465 states. The safety properties are proved for all values. |
| `continuous_patrol` | `ContinuousInv`, `StopSticks`, `StopEnds` | two loops: a first one and one that comes round again; the three threads are all there are. 63 656 states. The safety properties are proved for all values. |

`LeaseInv`, `PatrolInv`, `SpoolSafety`, `MotionSafety`, `MissionInv`, `RuntimeInv`, `MaplessInv`
and `ContinuousInv` each join the module's type invariant with the one property
named beside it in the module: a handshake leaves a reset watchdog
(`ReadyMeansReset`), ROS sessions exclude each other (`OneRosSession`), no image is
sent twice (`SentAtMostOnce`), the gate closes on a standing robot
(`ReleasedMeansStopped`), one part of one mission acts at a time (`OneMover`), media
slots and memories agree (`PendingOnce`), one machine owns the robot (`OneOwner`), one
thread drives (`OneDriver`).

`CommandsInOrder` speaks of commands that lie fewer than `CommandMemory` apart,
one less than the log holds: a command that fails is taken out of the log, but
the entry it pushed out does not come back.

`StrandedOnlyByFault` does not say that the slot is always given back: a search
that is dropped, refused or never answered, and a way home that fails before its
Sit, keep it until the process restarts. What it says is that only a fault or the
NOT_FOUND way home leads there, and a search that the controller ends without an
answer counts as a fault; `MissionSettles` says that no thread waits for ever on
the way.

**Fairness.** `nav_lease_live`: the watchdog's timer fires and time passes (a
timer on a spinning executor), the action server handles its queue, finishes a
goal it is canceling, and answers a cancel-all that is repeated for ever (strong
fairness, as the service may come and go before discovery settles). Nothing is
assumed of the client or of the link.
`direct_patrol`: threads run and callers finish; nothing is assumed of
Nav2, since every wait in the code has its own deadline. `coyote_spool`: the
bridge in the end stays up and connected (before, it may crash and lose its
connection at will); its timer, its executor and its worker run; and a claim that
is possible again and again is made, as the poll announces a ready manifest
every 50 ms and only a claim stops it. `coyote_motion_live`: time passes, the tick
timer goes on firing (only of ticks that find the session over is it needed), and a
long jump ends in `Resume`, as its thread waits with timeouts only; nothing is
assumed of statuses or sensors. `coyote_mission`: the stand thread and the
completion thread run, and each of their waits has a deadline in the code; the
executor, when it is free, takes orders and COMPLETE events; a search ends, which
is what `SearchEnds` shows of the controller. Nothing is assumed of Motion Host, the
audio service or the broker. `mqtt_runtime`: the two executors' threads and the
steps of the shutdown run, and the pose capture has its timeout; nothing is
assumed of the broker, whose answer the worker awaits with a timeout.
`mapless_patrol`: the loop looks at its time limit. `continuous_patrol`: threads run,
calls finish, readiness and pose capture have deadlines, and `send_route` returns once
it was canceled (`OrphanStopped` and the deadlines of `NavLease` are behind that);
an uncanceled goal may last for ever. The startup lock is strongly fair: at most
two threads want it at a time, and the preparation comes back only with another
detection.

### Finding

* `direct_patrol_emergency`: RETURN_HOME is accepted, EMERGENCY_STOP follows
  before the new thread reaches `prepare_route()` (direct_patrol.py:204). That
  call clears the cancel request without looking at the latch, and the robot
  drives home while the emergency stop is latched.

Facts the models contain, and the properties are worded around:

* Readiness repeats its reset request every second until it sees the acknowledgement
  (patrol.py:1138), on another topic than the heartbeats, and the watchdog knows a
  repetition only while that request is pending (run_nav_watchdog.py:89). A copy that is
  taken after the route's first heartbeat runs `_begin_reset` and disarms the watchdog
  under the goal. The next heartbeat arms it again, but where `send_route` gives up a
  goal whose end it did not see, no heartbeat follows, and the watchdog that should cancel
  the goal by itself (patrol.py:1191) is off. The reset request of the Coyote node
  does the same. This is `"disarm" \in stray`: `GoalAlwaysWatched` shows that such a
  message of another publisher is the only way the watch is lost, `OrphanStopped`
  that without one the goal is stopped.
* A sensor falls silent during a motion of the lidar patrol. The safety filter answers
  the tick with a stop (test_patrol_controller.py:94), but the readiness gate has the
  same limits, and a tick that is not ready sends nothing (patrol_rclpy_node.py:183): the
  robot keeps the velocity it was told last, and an operator's emergency stop given
  meanwhile is not sent either, until the sensor is back or the script ends
  (`EndsStopped`). Whether the motion host drops an old velocity is not in the
  repository.
* START is accepted during a return-home (direct_patrol.py:64). After a STOP the
  return thread's `prepare_route()` clears the shared cancel request, and the patrol
  thread, past its last look at `_stop`, drives its route to the end.
  `StopReachesPatrol` shows that this is the only way a STOP is lost (`overlapped`).
* When an image cannot be encoded or written, `_write_media_failure`
  (coyote_pipeline.py:505) calls `write_failure` with a `duration_ms` the spool's method
  does not take. The `TypeError` is caught and logged, nothing is queued, and the
  consumer never learns of the failure (`EpisodeFails`). The video path of the same
  file calls a `write_video` the spool does not have.
* The session of a search times out in a detour around an obstacle. `tick()` reports
  NOT_FOUND and disarms, but the list of reasons for which it forgets the detour
  (coyote_bridge.py:745) has neither `search_session_timeout` nor `not_detected`. The
  policy goes on replacing the zero velocity, so the output is not released and the
  robot moves without a search until its last status is stale.
  `UnarmedMotionIsDetour` shows that there is no other way.
* After NOT_FOUND the way home runs on the executor's thread
  (run_coyote_mqtt_bridge.py:1629): no pose or posture arrives while it lasts, so it
  can only succeed from where the robot already is (`ExecutorBusy`).
* A lost connection latches the bridge's emergency stop, and the bridge does not
  subscribe to the topic a RESET would come from: only a restart clears it.
* A lane after a turn is driven backwards (patrol_fsm.py:85,
  test_patrol_fsm.py:143), while the lidar is looked at in front only: in `Motions`
  that is `backward`. A reset outside FINISH keeps the lane number and the direction,
  so a patrol started after an emergency may begin backwards. What is in front
  stops every motion, the side shift after a lane end included.
* A boundary that was in front before the patrol began is spent (`consumed`) when the
  first lane does, and does not end it: the robot stands in the lane until a scan
  shows the way free.
* The startup gate restarts the watchdog on every call (perception_host.py:109), and
  a motion preparation that waited for the gate's lock may make that call while the
  next patrol drives; the armed flag of that patrol is then gone.
* RESET clears the home pose, and a patrol thread past its last look at the stop
  flag stores its own home afterwards (direct_patrol.py:150, patrol.py:380).

## 5. Proofs

**The watchdog** (first part of `NavLease_proofs`), for every set of services, every set of nonzero
tokens and every positive timeout (`WatchdogAssumption`):

* `WatchdogInv` is inductive. It conjoins the type invariant,
  `OutstandingOnlyWhileStale`, `QuietMeansDrained`, `StaleKeepsCanceling` and
  `ArmedOrDraining`. The last one is not checked for its own sake: without it a
  completed reset could clear `stale` under an armed watchdog, and the trip step
  could not be shown to leave `quietAge` alone.
* each named part as a theorem of the specification;
* the action properties `AckedResetIsClean` and `DrainErrorIsFinal`, from the
  invariant and one step lemma per action;
* `WatchdogImplementsFailSafe`: under the mapping `modeBar`, `outstandingBar` the
  initial state maps to `Abstract!Init` and each action to an abstract step or a
  stutter.
* `CancelNeedsTrip`, of the abstract specification: an outstanding cancel exists only
  while tripped.

**The lease** (second part of `NavLease_proofs`), for any link depth and route length
besides, and any tokens of the Coyote node (`LeaseAssumption`). `GoalAlwaysWatched` (over a
goal in the server the watchdog is armed or cancelling, unless a stray message took
the watch off) is not inductive: it needs to know why the client may send a goal, and
what its own publisher may still have on the way. `Protocol` adds:

* `TokensFresh`: the tokens to come are new to the link, to every acknowledgement and
  to the pending reset, so no old acknowledgement answers a new request;
* `OwnMessages`: the publisher in use sends one kind of message, resets in a handshake
  and heartbeats on a route, and readiness asks for a reset only when there is no
  goal. It says nothing of other publishers: theirs may be taken at any moment;
* `ResetHeld`, `ReadyMeansReset`: an acknowledged reset stands until a late heartbeat of
  another publisher arms the watchdog again (`"arm" \in stray`);
* `Leased`: once the arming is acknowledged the watchdog is armed for the rest of the
  route, unless a disarm or a reset of another publisher came (`"disarm" \in stray`); the
  next heartbeat of the route takes that back;
* `ProbesTell`, `GoalKnown`: what the clean rounds of cancel-all and the goal's answers
  let the client conclude about the server.

The proof has one lemma per group of steps; `DeliverKeeps` and `HandoffKeeps` are where a
message meets the watchdog. `GoalsAreNotDisarmed` is about the client: it publishes
no disarm and no reset request under a goal, its own or a predecessor's.
`LeaseRunsWatchdog` shows that the composition is a behaviour of `WatchdogSpec`, hence
that every theorem of the first part holds under this client, the refinement included
(`LeaseImplementsFailSafe`).

`CoyoteSpool_proofs` proves, for every set of events and every queue capacity
(`SpoolAssumption`):

* `SpoolInv` with `ClosingIsQuiet` is inductive. Its parts beyond the properties:
  `EpisodeOrder` (only a finished episode has a manifest), `HeldOnce` (the
  executor, the queue and the worker never hold the same claim, and the queue has
  no repetitions), `ClaimOnDisk` (what is held or lost is exactly `sending` on
  disk) and `SendsFollowClaim` (the count is zero until the claim is published).
  `SentAtMostOnce` is not inductive without them: a second send needs two holders
  of one event, or a claim of an event that was sent before. `ClosingIsQuiet`
  says that the executor has stopped before the worker is drained, which is what
  makes the drain complete;
* each safety property of the run as a theorem, `SpoolIsSafe` from its two parts;
* `SpoolImplementsDelivery`: the stage of an event is read off its manifest; every
  file operation maps to one abstract step, crashes and the queue to stutters.

The lemmas `QueuedAppend`, `DistinctAppend` and `QueuedTail` say what `Append` and
`Tail` do to the set of a queue without repetitions; `LetGo` is shared by the
four ways in which a claim ends.

`CoyoteMotion_proofs` proves, for any sets of events and detection types and either
value of `RequireScan` and `EnableLongJump`:

* lemmas about the stages of a tick. `Searching`: a search decision changes at most
  the phase and the observation that was not revisited. `Sound`: whatever a stage
  does, a search is never begun, its event never changes while it lasts, and a
  callback is made for it once, when it ends. `Avoided`: what the avoidance policy
  makes move without a search is a detour. `TickSound` puts the stages together;
* `MotionInv` is inductive. Beyond the properties it says that after an emergency
  stop there is no search and the gate is closed (`EmergencyReleased`; otherwise the
  next tick could move), and, in `ControllerInv`, that an armed search has an event
  and that the stored status is of its type;
* each safety property of the run as a theorem, the action property `FoundIsSeen`,
  and `MotionImplementsSession`: a tick maps to `Answer`, `Drop` or a stutter, a
  trigger to `Begin` or `Coalesce`.

`DirectPatrol_proofs` proves, for any number of return-home threads alive at the same
time and any loop limit (`PatrolAssumption`; the run has one such thread), `PatrolInv`,
`ReturnAfterPatrol` and `StopReachesPatrol`. Beyond them the invariant says which stages
each thread function has (`StagesKept`), that the ROS context stays up for the one
thread inside it (`SessionsKept`), and that a return home about to join knows of
the living patrol unless a START overtook it (`JoinsKept`), without which the step
after a timed-out join could drive beside the patrol.

`ContinuousPatrol_proofs` proves, for any loop limit, `ContinuousInv` and `StopSticks`. The
invariant adds what the return home found alive (`JoinsKnown`), that it looks at no flag
before its join (`JoinsFirst`), that a preparation only passes the barrier, and what a
finished `stop()` leaves behind (`CallsKept`): its two flags stay up until a call clears
them, which is why the look after `prepare_route` catches a stop that came before it.

`MaplessPatrol_proofs` proves, for any number of lanes and of confirming frames,
`MaplessInv`, `ResetForgets` and `OneLanePerBoundary`. `LaneBound`, the cap on the lane number
that an emergency in FINISH keeps, is arbitrary too. `Ticks` and `TickResult` say
what one stage of a tick may change and compose (`TicksTransitive`), so that a tick is
their composition; the invariant adds `StopHeld` (an emergency holds the machine in
ERROR) and `BoundarySpent` (a boundary that ended a lane is consumed until it is out of
sight), from which `LaneEndsAtBoundary` shows that a lane goes on.

`CoyoteMission_proofs` proves, for any events and outcomes (`MissionAssumption`), `MissionInv`,
`CuesBelongToSlot`, `CompleteBeforeHome` and `StrandedOnlyByFault`. The heart is `Turns`: while
one stage of a mission is on, those before and after it are empty and all carry
the slot's event; `OneMover` is a consequence. `CuesInTurn` says that each stage finds the
cues of the one before it off, `ReportsAnswered` that what is on its way to MQTT was
answered, `RefusalsAreFaults` and `SomebodyWorks` that a slot without a worker is the
work of a fault. `MissionRunsSession` shows that the missions use the search as
`SearchSession` allows, and from what that promises follows `CompleteIsFinal`: MQTT is told
at most one outcome of each event.

`MqttRuntime_proofs` proves, for any events and timestamps, any sizes of the memories and
any number of media slots (`RuntimeAssumption`), `RuntimeInv`, `CommandsInOrder`,
`PatrolNeedsLink` and `ClosedStartsNothing`:

* `PendingIsNewest`: the pending events, the worker's first, are the newest part of the
  memory of events in the same order. The worker being serial, nothing newer is ever
  finished before them; and since the memory holds an event for every slot, the one it
  evicts is not pending. `PendingOnce` does not follow without that order: the
  assumption `EventMemory >= Slots` (256 and 2 in the code) is needed and used here;
* `LogIsNewest`, `LastBoundsLog`: the log of commands is the newest part of what was
  carried out and lacks at most one place of its memory, since a failed command has taken
  the oldest entry with it; `_last_patrol_timestamp` bounds the log. That is why the
  property speaks of commands less than `CommandMemory` apart;
* `PatrolClosed`: after the step that closes the patrol none runs, whence the link may go.

Its lemmas about sequences: `RememberFacts` (what a bounded memory keeps),
`RemoveAtFacts` and `ForgetOnce` (`deque.remove` of an entry that occurs once), `BoundedMax`
(the maximum of a bounded set of naturals). `Forget` is `RemoveFirst` of the community
modules: it has no recursion and takes out the first occurrence only, as
`deque.remove` does.

The inductive invariants were given to TLC on the instances of the runs before they were
proved.

**Only model-checked**: all liveness (`OrphanStopped`, `WorkersEnd`, `OfferedIsSettled`,
`SearchEnds`, `MissionSettles`, `CloseEnds`, `EndsStopped`, `StopEnds`), since the prover handles
neither fairness nor ENABLED. `EmergencyStopsMotion` is
violated by the code (the finding). Two hazards have no property (`run_nav_watchdog.py:38`,
`direct_patrol.py:366`); their notes in `PROJECT.json` say why.

## 6. Not modelled

The components marked *not_modelled* in `PROJECT.json` with their reasons.
Inside the modelled ones: the zero-velocity output of the watchdog, geometry and
sensor values, logging, configuration errors, `rclpy` being shut down from
outside (equivalent to a lost disarm), a failure of node creation after
`rclpy.init`, and process exit in `close()`. A watchdog that restarts while a goal
runs forgets its latch; the code keeps nothing on disk, so no property is stated.
In the spool: `status.json`, a file that is only ever replaced, `write_failure` (no
caller reaches it without an exception), and video artefacts.
In the mission: the missions that the topics MISSION_START and HOME_REACHED would
bring (nothing publishes them here), the long jump, which is disabled in this
script and belongs to `CoyoteMotion`, and errors of local files in the preparation of
speech. In the runtime: parsing and formatting of payloads, the video topic and the
retry loops inside paho. In the continuous controller: a controller without a
startup gate, and the mission events of the runtime, whose `spin_after_arrival` its
`return_home` does not take. In the mapless patrol: the recorded path of the odometry,
which nothing reads.
