----------------------------- MODULE MqttRuntime -----------------------------
(***************************************************************************)
(* The MQTT runtime process: lite3_mqtt/runtime.py (Lite3MqttRuntime) under *)
(* scripts/run_mqtt_runtime.py, over lite3_mqtt/client.py and media.py.    *)
(*                                                                         *)
(* Threads: Paho's network thread (commands, triggers and link callbacks,  *)
(* one after the other), the internal mission receiver, the two one-thread *)
(* executors, the return-home thread's callback and the main thread.  What *)
(* runs under _state_lock is one action.  The patrol is kept to what the   *)
(* runtime tells it; DirectPatrol models its threads and goals.            *)
(*                                                                         *)
(* patrolOnly is how the script deploys the runtime; without it every      *)
(* message goes to handle_message, which remembers the commands.           *)
(***************************************************************************)
EXTENDS Naturals, Sequences, FiniteSets, SequencesExt, FiniteSetsExt

CONSTANTS
  Times,          \* timestamps of commands
  Events,         \* event ids of triggers and mission events
  NoEvent, Plain, \* no return home; a return that reports to nobody
  CommandMemory,  \* 64: _recent_patrol_commands.maxlen
  EventMemory,    \* 256: _recent_events.maxlen, _mission_events.maxlen
  Slots           \* max_pending_detections, 2

ASSUME RuntimeAssumption ==
  /\ Times \subseteq Nat /\ IsFiniteSet(Times)
  /\ NoEvent \notin Events /\ Plain \notin Events /\ NoEvent # Plain
  /\ CommandMemory \in Nat \ {0, 1}
  \* the worker is serial: at most Slots - 1 later events join a pending one
  /\ Slots \in Nat \ {0} /\ EventMemory \in Nat /\ EventMemory >= Slots

Actions == {"START", "STOP", "RETURN_HOME", "EMERGENCY_STOP", "RESET"}
Enabling == {"START", "RETURN_HOME", "RESET"}
Keys == Times \X Actions
Never == 0     \* _last_patrol_timestamp is None: older than every command

VARIABLES
  patrolOnly,  \* patrol_only
  phase,       \* the main thread: start-up, running, the steps of close
  link,        \* the MQTT session
  network,     \* the event whose capture_home holds the network thread
  patrolling,  \* a patrol thread that has not been told to stop
  homeward,    \* the return home in progress, by the event it reports to
  latched,     \* _emergency_latched
  home,        \* the patrol's _home is set
  reserved,    \* _active_coyote_mission_id
  missions,    \* _mission_events
  commands,    \* _recent_patrol_commands
  last,        \* _last_patrol_timestamp
  done,        \* history: the last CommandMemory commands carried out
  free,        \* _detection_slots
  queue,       \* the detection worker's queue
  worker,      \* its thread: event and step
  events,      \* _recent_events
  prepare      \* the motion-prepare worker; _motion_prepare_pending

patrol == <<patrolling, homeward, latched, home>>
log == <<commands, last, done>>
media == <<free, queue, worker, events>>
vars == <<patrolOnly, phase, link, network, patrol, reserved, missions, log,
          media, prepare>>

Idle == [event |-> NoEvent, step |-> "idle"]

Init ==
  /\ patrolOnly \in BOOLEAN
  /\ phase = "starting" /\ link = "down" /\ network = NoEvent
  /\ patrolling = FALSE /\ homeward = NoEvent /\ latched = FALSE /\ home = FALSE
  /\ reserved = NoEvent /\ missions = <<>>
  /\ commands = <<>> /\ last = Never /\ done = <<>>
  /\ free = Slots /\ queue = <<>> /\ worker = Idle /\ events = <<>>
  /\ prepare = "idle"

Closed == phase \notin {"starting", "running"}

\* The network thread is free to take the next message; a partly rejected
\* subscription still delivers the topics that were granted.
Delivering == link \in {"joined", "ready", "refused"} /\ network = NoEvent

\* A bounded memory takes x in, and lets its oldest entry go when it is full.
Remember(memory, x, size) ==
  Append(IF Len(memory) = size THEN Tail(memory) ELSE memory, x)

Forget(memory, x) == RemoveFirst(memory, x)

-----------------------------------------------------------------------------
(* What the runtime tells the patrol.                                      *)

StopPatrol == patrolling' = FALSE /\ homeward' = NoEvent

\* return_home, for the event that wants to hear of the arrival.
SendHome(report) ==
  \/ /\ ~latched /\ home
     /\ ~patrolOnly => homeward = NoEvent
     /\ patrolling' = FALSE
     /\ homeward' = report
     /\ UNCHANGED <<latched, home>>
  \/ /\ latched \/ ~home \/ (~patrolOnly /\ homeward # NoEvent)
     /\ UNCHANGED patrol

Handle(action) ==
  \/ /\ action = "START"
     /\ patrolling' = (patrolling \/ (~latched /\ (patrolOnly \/ homeward = NoEvent)))
     /\ UNCHANGED <<homeward, latched, home>>
  \/ /\ action = "STOP"
     /\ StopPatrol
     /\ UNCHANGED <<latched, home>>
  \/ /\ action = "RETURN_HOME"
     /\ SendHome(Plain)
  \/ /\ action = "EMERGENCY_STOP"
     /\ StopPatrol
     /\ latched' = TRUE
     /\ UNCHANGED home
  \/ /\ action = "RESET"
     /\ StopPatrol
     /\ latched' = FALSE /\ home' = FALSE

\* The backend fails: a stop has set its flags by then, the rest has not
\* happened.
HandleFails(action) ==
  /\ \/ /\ action \in {"START", "RETURN_HOME"}
        /\ UNCHANGED <<patrolling, homeward>>
     \/ /\ action \in {"STOP", "EMERGENCY_STOP", "RESET"}
        /\ StopPatrol
  /\ latched' = (latched \/ action = "EMERGENCY_STOP")
  /\ UNCHANGED home

-----------------------------------------------------------------------------
(* Patrol commands.                                                        *)

Accepted(t, a) ==
  /\ <<t, a>> \notin ToSet(commands)
  /\ a \in Enabling => t > last

Remembered(t, a) == Remember(commands, <<t, a>>, CommandMemory)

AcceptCommand(t, a) ==
  /\ commands' = Remembered(t, a)
  /\ last' = Max({t, last})

\* Wrong: the time of the last command goes with the failed one.
ForgetTime(t, a) ==
  /\ commands' = Forget(Remembered(t, a), <<t, a>>)
  /\ last' = Never

\* A failed command may be sent again; what it pushed out stays forgotten.
ForgetCommand(t, a) ==
  /\ commands' = Forget(Remembered(t, a), <<t, a>>)
  /\ last' = Max({Never} \cup {k[1] : k \in ToSet(commands')})

\* handle_message, the AUTO_PATROL topic.
Command(t, a) ==
  /\ Delivering
  /\ ~Closed
  /\ \/ /\ patrolOnly
        /\ Handle(a)
        /\ UNCHANGED log
     \/ /\ ~patrolOnly
        /\ Accepted(t, a)
        /\ \/ /\ Handle(a)
              /\ AcceptCommand(t, a)
              /\ done' = Remember(done, <<t, a>>, CommandMemory)
           \/ /\ HandleFails(a)
              /\ ForgetCommand(t, a)
              /\ UNCHANGED done
  /\ UNCHANGED <<patrolOnly, phase, link, network, reserved, missions, media, prepare>>

-----------------------------------------------------------------------------
(* Detections.                                                             *)

\* Wrong: a duplicate keeps the slot it was given.
ReportLeaksSlot(e) ==
  \/ /\ free > 0 /\ ~Closed
     /\ free' = free - 1
     /\ \/ /\ e \notin ToSet(events)
           /\ events' = Remember(events, e, EventMemory)
           /\ queue' = Append(queue, e)
        \/ /\ e \in ToSet(events)
           /\ UNCHANGED <<events, queue>>
     /\ UNCHANGED worker
  \/ /\ free = 0 \/ Closed
     /\ UNCHANGED media

\* report_detection: dropped without a slot; the slot goes back if the
\* runtime is closed or the event is a duplicate.
Report(e) ==
  \/ /\ free > 0 /\ ~Closed /\ e \notin ToSet(events)
     /\ free' = free - 1
     /\ events' = Remember(events, e, EventMemory)
     /\ queue' = Append(queue, e)
     /\ UNCHANGED worker
  \/ /\ free = 0 \/ Closed \/ e \in ToSet(events)
     /\ UNCHANGED media

\* on_message, a broken cup.
BrokenCup(e) ==
  /\ patrolOnly /\ Delivering
  /\ StopPatrol
  /\ Report(e)
  /\ UNCHANGED <<patrolOnly, phase, link, network, latched, home, reserved,
                 missions, log, prepare>>

\* on_message, a Coyote: reserve the mission, then capture the home pose on
\* the network thread.
Coyote(e) ==
  /\ patrolOnly /\ Delivering
  /\ StopPatrol
  /\ \/ /\ ~Closed /\ reserved = NoEvent
        /\ reserved' = e
        /\ network' = e
     \/ /\ Closed \/ reserved # NoEvent
        /\ UNCHANGED <<reserved, network>>
  /\ UNCHANGED <<patrolOnly, phase, link, latched, home, missions, log, media, prepare>>

Release(e) == reserved' = IF reserved = e THEN NoEvent ELSE reserved

HomeCaptured ==
  /\ network # NoEvent
  /\ network' = NoEvent
  /\ \/ /\ ~latched
        /\ home' = TRUE
        /\ UNCHANGED reserved
     \/ /\ Release(network)
        /\ UNCHANGED home
  /\ UNCHANGED <<patrolOnly, phase, link, patrolling, homeward, latched, missions,
                 log, media, prepare>>

\* prepare_detection_motion: one preparation at a time.
AskPrepare ==
  prepare' = IF ~Closed /\ prepare = "idle" THEN "queued" ELSE prepare

\* handle_message, either detection topic, without patrol_only.
Detection(e) ==
  /\ ~patrolOnly /\ Delivering
  /\ StopPatrol
  /\ AskPrepare
  /\ Report(e)
  /\ UNCHANGED <<patrolOnly, phase, link, network, latched, home, reserved,
                 missions, log>>

PrepareMotion ==
  /\ \/ prepare = "queued" /\ prepare' = "running"
     \/ prepare = "running" /\ prepare' = "idle"
  /\ UNCHANGED <<patrolOnly, phase, link, network, patrol, reserved, missions, log, media>>

-----------------------------------------------------------------------------
(* The detection worker, _publish_detection_task.                          *)

At(step) == worker.step = step
GoTo(step) == worker' = [worker EXCEPT !.step = step]

TakeDetection ==
  /\ At("idle") /\ queue # <<>>
  /\ worker' = [event |-> Head(queue), step |-> "capture"]
  /\ queue' = Tail(queue)
  /\ UNCHANGED <<free, events>>

\* publish_detection: without an image the message says FAIL; publish_json
\* raises unless connected, and waits publish_timeout_sec for the broker.
BeginPublish ==
  /\ At("capture")
  /\ GoTo(IF link = "ready" THEN "wait" ELSE "failed")
  /\ UNCHANGED <<free, queue, events>>

Published ==
  /\ At("wait") /\ link \in {"joined", "ready", "refused"}
  /\ GoTo("sent")
  /\ UNCHANGED <<free, queue, events>>

\* Wrong: the wait has no timeout.
NoPublishTimeout == FALSE /\ UNCHANGED media

PublishTimeout ==
  /\ At("wait")
  /\ GoTo("failed")
  /\ UNCHANGED <<free, queue, events>>

\* A failed event may be reported again.
EndTask ==
  /\ worker.step \in {"sent", "failed"}
  /\ worker' = Idle
  /\ free' = free + 1
  /\ events' = IF At("failed") THEN Forget(events, worker.event) ELSE events
  /\ UNCHANGED queue

Worker ==
  /\ TakeDetection \/ BeginPublish \/ Published \/ PublishTimeout \/ EndTask
  /\ UNCHANGED <<patrolOnly, phase, link, network, patrol, reserved, missions,
                 log, prepare>>

-----------------------------------------------------------------------------
(* Missions and the patrol's own progress.                                 *)

\* Wrong: _closed is not looked at again under the lock.
MissionEventUnchecked(e) ==
  /\ patrolOnly
  /\ e \notin ToSet(missions)
  /\ missions' = Remember(missions, e, EventMemory)
  /\ \E report \in {e, Plain} : SendHome(report)
  /\ UNCHANGED <<patrolOnly, phase, link, network, reserved, log, media, prepare>>

\* handle_mission_event on the receiver's thread; only a Coyote's return
\* reports its arrival.
MissionEvent(e) ==
  /\ patrolOnly /\ ~Closed
  /\ e \notin ToSet(missions)
  /\ missions' = Remember(missions, e, EventMemory)
  /\ \E report \in {e, Plain} : SendHome(report)
  /\ UNCHANGED <<patrolOnly, phase, link, network, reserved, log, media, prepare>>

\* The return succeeds: publish_coyote_home_reached releases the mission.
HomeReached ==
  /\ homeward # NoEvent
  /\ homeward' = NoEvent
  /\ Release(homeward)
  /\ UNCHANGED <<patrolOnly, phase, link, network, patrolling, latched, home,
                 missions, log, media, prepare>>

ReturnFails ==
  /\ homeward # NoEvent
  /\ homeward' = NoEvent
  /\ UNCHANGED <<patrolOnly, phase, link, network, patrolling, latched, home,
                 reserved, missions, log, media, prepare>>

\* The patrol captures its own home, or ends by itself.
PatrolProgress ==
  /\ patrolling
  /\ \/ home' = TRUE /\ UNCHANGED patrolling
     \/ patrolling' = FALSE /\ UNCHANGED home
  /\ UNCHANGED <<patrolOnly, phase, link, network, homeward, latched, reserved,
                 missions, log, media, prepare>>

-----------------------------------------------------------------------------
(* The MQTT session.                                                       *)

Serving == phase # "stopped" /\ network = NoEvent
LinkOnly == UNCHANGED <<patrolOnly, phase, network, reserved, missions, log,
                        media, prepare>>

\* _on_connect: a subscribe request that fails disconnects, and Paho does not
\* come back from a disconnect of its own.
OnConnect ==
  /\ Serving /\ link = "down"
  /\ link' \in {"joined", "dead"}
  /\ LinkOnly /\ UNCHANGED patrol

\* _on_subscribe: a rejected subscription is never asked for again.
OnSubscribe ==
  /\ Serving /\ link = "joined"
  /\ link' \in {"ready", "refused"}
  /\ LinkOnly /\ UNCHANGED patrol

\* Wrong: the callback looks at the connected flag before it stops the patrol.
OnDisconnectIfReady ==
  /\ Serving /\ link \in {"joined", "ready", "refused"}
  /\ link' = "down"
  /\ IF ~Closed /\ link = "ready"
       THEN StopPatrol ELSE UNCHANGED <<patrolling, homeward>>
  /\ LinkOnly /\ UNCHANGED <<latched, home>>

\* _on_disconnect and handle_connection_lost.
OnDisconnect ==
  /\ Serving /\ link \in {"joined", "ready", "refused"}
  /\ link' = "down"
  /\ \/ Closed /\ UNCHANGED <<patrolling, homeward>>
     \/ ~Closed /\ StopPatrol
  /\ LinkOnly /\ UNCHANGED <<latched, home>>

-----------------------------------------------------------------------------
(* The main thread.                                                        *)

MainOnly == UNCHANGED <<patrolOnly, network, latched, home, reserved, missions,
                        log, media, prepare>>

\* client.start waits for the subscription; without it the process ends.
Start ==
  /\ phase = "starting"
  /\ \/ /\ link = "ready"
        /\ phase' = "running"
        /\ UNCHANGED link
     \/ /\ link # "ready" /\ network = NoEvent
        /\ phase' = "closing"
        /\ link' = "dead"
  /\ MainOnly /\ UNCHANGED <<patrolling, homeward>>

\* SIGTERM, or the end of --run-seconds; close sets _closed.
Shutdown ==
  /\ phase = "running"
  /\ phase' = "closing"
  /\ MainOnly /\ UNCHANGED <<link, patrolling, homeward>>

\* patrol.close, then both executors are waited for, then the client stops.
ClosePatrol ==
  /\ phase = "closing"
  /\ phase' = "draining"
  /\ StopPatrol
  /\ MainOnly /\ UNCHANGED link

Drained ==
  /\ phase = "draining"
  /\ prepare = "idle" /\ queue = <<>> /\ At("idle")
  /\ phase' = "disconnecting"
  /\ MainOnly /\ UNCHANGED <<link, patrolling, homeward>>

StopClient ==
  /\ phase = "disconnecting" /\ network = NoEvent
  /\ phase' = "stopped"
  /\ link' = "dead"
  /\ MainOnly /\ UNCHANGED <<patrolling, homeward>>

Main == Start \/ Shutdown \/ ClosePatrol \/ Drained \/ StopClient

-----------------------------------------------------------------------------

Next ==
  \/ \E t \in Times, a \in Actions : Command(t, a)
  \/ \E e \in Events : BrokenCup(e) \/ Coyote(e) \/ Detection(e) \/ MissionEvent(e)
  \/ HomeCaptured \/ PrepareMotion \/ Worker
  \/ HomeReached \/ ReturnFails \/ PatrolProgress
  \/ OnConnect \/ OnSubscribe \/ OnDisconnect
  \/ Main

Spec == Init /\ [][Next]_vars

\* The executors' threads and the shutdown's steps run, the pose capture on
\* the network thread has a timeout.  Nothing is assumed of the broker.
FairSpec ==
  /\ Spec
  /\ WF_vars(PrepareMotion) /\ WF_vars(Worker) /\ WF_vars(HomeCaptured)
  /\ WF_vars(ClosePatrol) /\ WF_vars(Drained) /\ WF_vars(StopClient)

-----------------------------------------------------------------------------
(* Properties.                                                             *)

\* The variables stay in their types, the memories within their sizes.
RuntimeTypeOK ==
  /\ patrolOnly \in BOOLEAN
  /\ phase \in {"starting", "running", "closing", "draining", "disconnecting", "stopped"}
  /\ link \in {"down", "joined", "ready", "refused", "dead"}
  /\ network \in Events \cup {NoEvent}
  /\ patrolling \in BOOLEAN /\ latched \in BOOLEAN /\ home \in BOOLEAN
  /\ homeward \in Events \cup {NoEvent, Plain}
  /\ reserved \in Events \cup {NoEvent}
  /\ missions \in Seq(Events) /\ Len(missions) <= EventMemory
  /\ commands \in Seq(Keys) /\ Len(commands) <= CommandMemory
  /\ last \in Times \cup {Never}
  /\ done \in Seq(Keys) /\ Len(done) <= CommandMemory
  /\ free \in 0 .. Slots /\ queue \in Seq(Events)
  /\ worker.event \in Events \cup {NoEvent}
  /\ events \in Seq(Events) /\ Len(events) <= EventMemory
  /\ prepare \in {"idle", "queued", "running"}

\* Among the last CommandMemory commands carried out, none is carried out
\* twice and an enabling one is newer than all before it: commands that failed
\* in between, and made the log forget, do not open it for old commands.  A
\* failed command costs the log its oldest entry, hence one place less.
CommandsInOrder ==
  \A i, j \in DOMAIN done :
    (i < j /\ j - i < CommandMemory) =>
      /\ done[i] # done[j]
      /\ done[j][2] \in Enabling => done[j][1] > done[i][1]

\* A patrol runs only over the session it was started in: a lost connection
\* stops it before the next session can begin, whatever became of the
\* subscription, unless the process is already closing the patrol itself.
PatrolNeedsLink ==
  patrolling => link \in {"joined", "ready", "refused"} \/ phase = "closing"

Pending == queue \o (IF At("idle") THEN <<>> ELSE <<worker.event>>)

\* No slot of the media queue is lost, and an event whose image is pending is
\* remembered, so that a duplicate trigger cannot queue it a second time.
PendingOnce ==
  /\ free + Len(Pending) = Slots
  /\ IsInjective(Pending)
  /\ ToSet(Pending) \subseteq ToSet(events)

\* The types, the sizes of the memories, and the accounts of the media queue.
RuntimeInv == RuntimeTypeOK /\ PendingOnce

\* After _closed is set nothing new starts: no patrol, no return home, no
\* capture, no task, whichever thread was about to.
ClosedStartsNothing ==
  [][Closed => /\ patrolling' => patrolling
               /\ homeward' \in {homeward, NoEvent}
               /\ network' \in {network, NoEvent}
               /\ Len(queue') <= Len(queue)]_vars

\* Closing ends: the executors drain and the process stops, whether or not
\* the broker ever answers.
CloseEnds == phase = "closing" ~> phase = "stopped"

=============================================================================
