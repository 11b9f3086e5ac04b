---------------------------- MODULE CoyoteMission ----------------------------
(***************************************************************************)
(* One Coyote mission in the bridge process, scripts/                      *)
(* run_coyote_mqtt_bridge.py: stand up, search, gesture, return home, sit. *)
(*                                                                         *)
(* Threads: the MQTT thread (Trigger, LoseConnection), the stand thread    *)
(* (variable start), the completion thread (variable work) and the one     *)
(* executor thread that runs every ROS callback, the motion tick and, for  *)
(* a NOT_FOUND search, the whole way home (ExecutorBusy).                  *)
(*                                                                         *)
(* The search itself is the abstract SearchSession, which CoyoteMotion     *)
(* implements.  At TARGET_REACHED the motion sink is released in the tick  *)
(* that answers, so the routine's wait for the release never waits here.   *)
(* External: Motion Host's posture, the audio service, the broker.         *)
(***************************************************************************)
EXTENDS SearchSession, FiniteSets, Naturals

CONSTANT MaxToggles   \* Stand/Sit commands under way at a time, a bound

ASSUME MissionAssumption == NoEvent \notin Events /\ MaxToggles \in Nat

VARIABLES
  slot,       \* CoyoteMissionStartRoutine._active_event_id
  toggled,    \* its _stand_toggle_event_id
  start,      \* where its thread is
  attempt,    \* Stand toggles sent by it
  ordered,    \* events in the queue search_events
  complete,   \* COMPLETE events on their ROS topic: <<event, outcome>>
  work,       \* the way home: its event and step
  led,        \* MissionLedUdpClient._active_event_id
  armedCue,   \* CoyoteAudioCue._armed_event_id
  barking,    \* its _started_event_ids: a bark loop is on
  capture,    \* RealSense start capture of each event
  vectors,    \* events with a return vector
  homes,      \* events with a home pose
  posture,    \* Motion Host: the robot's posture
  toggles,    \* Stand/Sit commands under way to Motion Host
  seen,       \* the last posture the bridge was told
  poseKnown,  \* a Motion Host pose has been received
  connected,  \* the MQTT client is connected
  latched,    \* the motion controller's emergency latch
  published,  \* COMPLETE messages handed to MQTT: <<event, outcome>>
  faulted     \* history: something outside the bridge went wrong

mission == <<slot, toggled, start, attempt>>
audio == <<armedCue, barking>>
captures == <<capture, vectors, homes>>
robot == <<posture, toggles, seen, poseKnown>>
mqtt == <<connected, latched, published>>
vars == <<svars, mission, ordered, complete, work, led, audio, captures,
          robot, mqtt, faulted>>

NoWork == [event |-> NoEvent, step |-> "none"]

Init ==
  /\ SessionInit
  /\ slot = NoEvent /\ toggled = NoEvent /\ start = "none" /\ attempt = 0
  /\ ordered = {} /\ complete = {} /\ work = NoWork
  /\ led = NoEvent /\ armedCue = NoEvent /\ barking = {}
  /\ capture = [e \in Events |-> "none"] /\ vectors = {} /\ homes = {}
  /\ posture \in {"sitting", "standing"} /\ toggles = 0
  /\ seen = "unknown" /\ poseKnown = FALSE
  /\ connected = TRUE /\ latched = FALSE /\ published = {}
  /\ faulted = FALSE

Fault == faulted' = TRUE
NoFault == UNCHANGED faulted

\* A NOT_FOUND mission goes home inside the callback of its COMPLETE event.
ExecutorBusy == work.step # "none" /\ <<work.event, "NOT_FOUND">> \in answers

-----------------------------------------------------------------------------
(* CoyoteMissionStartRoutine *)

\* MissionLedUdpClient: the lamp follows the event that switched it on.
LedOn(e) == led' = e
LedOff(e) == led' = IF led = e THEN NoEvent ELSE led

\* start(): the mission is accepted, and its thread begins.
Accept(e) == slot' = e /\ LedOn(e) /\ start' = "speaking" /\ attempt' = 0

TriggerAnytime(e) ==   \* wrong variant: the running mission is not looked at
  /\ connected
  /\ Accept(e)
  /\ UNCHANGED <<svars, toggled, ordered, complete, work, audio, captures,
                 robot, mqtt, faulted>>

\* on_trigger: a trigger is ignored while a mission holds the slot.  An event
\* that comes a second time counts as a fault of its sender.
Trigger(e) ==
  /\ connected
  /\ slot = NoEvent
  /\ Accept(e)
  /\ faulted' = (faulted \/ e \in taken)
  /\ UNCHANGED <<svars, toggled, ordered, complete, work, audio, captures,
                 robot, mqtt>>

FailKeepsLed ==   \* wrong variant: on_mission_failed is not called
  /\ slot' = NoEvent /\ toggled' = NoEvent /\ start' = "none" /\ attempt' = 0
  /\ UNCHANGED led

\* The except branch of _run.
MissionFails ==
  /\ LedOff(slot)
  /\ slot' = NoEvent /\ toggled' = NoEvent /\ start' = "none" /\ attempt' = 0

others == <<svars, ordered, complete, work, audio, captures, mqtt>>

\* before_stand: play the prepared phrase and wait for the audio service.
SpeechEnds ==
  /\ start = "speaking" /\ start' = "deciding"
  /\ UNCHANGED <<others, slot, toggled, attempt, led, robot, faulted>>

SpeechFails ==
  /\ start = "speaking" /\ MissionFails /\ Fault
  /\ UNCHANGED <<others, robot>>

\* A Stand/Sit command leaves for Motion Host; beyond the bound it is lost.
SendToggle == toggles' = IF toggles < MaxToggles THEN toggles + 1 ELSE toggles

ToggleToStand ==
  /\ SendToggle /\ toggled' = slot
  /\ start' = "observing" /\ attempt' = attempt + 1
  /\ UNCHANGED <<slot, led, posture, seen, poseKnown>>

Proceed(there) ==
  /\ start' = there
  /\ UNCHANGED <<slot, toggled, attempt, led, robot>>

AskToStand ==
  /\ start = "deciding"
  /\ IF seen = "standing" THEN Proceed("gait") ELSE ToggleToStand
  /\ UNCHANGED <<others, faulted>>

\* _wait_for_basic_state returns as soon as the posture is one of those asked
\* for, also when it already was.
StandObserved ==
  /\ \/ start = "observing" /\ seen \in {"rising", "standing"}
     \/ start = "rising" /\ seen = "standing"
  /\ Proceed(IF seen = "standing" THEN "gait" ELSE "rising")
  /\ UNCHANGED <<others, faulted>>

\* A wait runs out: toggle once more, or give up.
StandTimeout ==
  /\ \/ start = "observing" /\ seen \notin {"rising", "standing"}
     \/ start = "rising" /\ seen # "standing"
  /\ \/ attempt = 1 /\ ToggleToStand
     \/ attempt = 2 /\ MissionFails /\ UNCHANGED robot
  /\ Fault
  /\ UNCHANGED others

\* _prepare_fast_search_gait and capture_then_enqueue_search; the thread ends.
ReadyToSearch ==
  /\ start = "gait" /\ start' = "none" /\ attempt' = 0
  /\ capture' = [capture EXCEPT ![slot] = IF @ = "none" THEN "pending" ELSE @]
  /\ homes' = IF poseKnown THEN homes \union {slot} ELSE homes
  /\ armedCue' = slot
  /\ ordered' = ordered \union {slot}
  /\ UNCHANGED <<svars, slot, toggled, complete, work, led, barking,
                 vectors, robot, mqtt, faulted>>

-----------------------------------------------------------------------------
(* The executor: tick, statuses, robot state, COMPLETE events *)

notSearch == <<mission, work, audio, captures, robot, connected, published>>

\* _tick_motion and start_search: refused while the emergency latch is set
\* or when the event was searched before, which nobody is told.
TakeOrder(e) ==
  /\ ~ExecutorBusy /\ e \in ordered
  /\ ordered' = ordered \ {e}
  /\ IF latched \/ e \in taken THEN UNCHANGED svars
     ELSE IF session = NoEvent THEN Begin(e) ELSE Coalesce(e)
  /\ UNCHANGED <<notSearch, complete, led, latched, faulted>>

\* publish_coyote_complete, called by the controller.
SearchAnswers(outcome) ==
  /\ ~ExecutorBusy /\ Answer(outcome)
  /\ LedOff(session)
  /\ complete' = complete \union {<<session, outcome>>}
  /\ UNCHANGED <<notSearch, ordered, latched, faulted>>

\* A motion guard or a status that does not parse ends the search without a
\* COMPLETE.
SearchDropped ==
  /\ ~ExecutorBusy /\ Drop /\ Fault
  /\ UNCHANGED <<notSearch, ordered, complete, led, latched>>

\* CoyoteAudioCue.observe: a centred, tall target starts the armed bark loop.
Bark ==
  /\ ~ExecutorBusy
  /\ armedCue # NoEvent
  /\ barking' = barking \union {armedCue}
  /\ UNCHANGED <<svars, mission, ordered, complete, work, led, armedCue,
                 captures, robot, mqtt, faulted>>

\* capture_when_target_centered: a centred status starts the RealSense start
\* capture of any event that still waits for one; its thread ends, with an
\* observation or without.
CaptureStart(e) ==
  /\ capture[e] = "pending"
  /\ capture' = [capture EXCEPT ![e] = "done"]
  /\ UNCHANGED <<svars, mission, ordered, complete, work, led, audio, vectors,
                 homes, robot, mqtt, faulted>>

notRobot == <<svars, mission, ordered, complete, work, led, audio, captures,
              mqtt, faulted>>

PostureArrives ==
  /\ ~ExecutorBusy /\ seen # posture
  /\ seen' = posture
  /\ UNCHANGED <<notRobot, posture, toggles, poseKnown>>

PoseArrives ==
  /\ ~ExecutorBusy /\ ~poseKnown
  /\ poseKnown' = TRUE
  /\ UNCHANGED <<notRobot, posture, toggles, seen>>

\* handle_coyote_complete_event: the gesture starts in a thread of its own; a
\* search without a target is reported and taken home at once.
TakeComplete(e, outcome) ==
  /\ ~ExecutorBusy /\ <<e, outcome>> \in complete
  /\ complete' = complete \ {<<e, outcome>>}
  /\ barking' = barking \ {e}
  /\ armedCue' = IF armedCue = e THEN NoEvent ELSE armedCue
  /\ \/ /\ outcome = "TARGET_REACHED"
        /\ work' = [event |-> e, step |-> "capture"]
        /\ UNCHANGED <<published, faulted>>
     \/ /\ outcome = "NOT_FOUND" /\ connected
        /\ published' = published \union {<<e, outcome>>}
        /\ work' = [event |-> e, step |-> "homing"]
        /\ NoFault
     \/ /\ outcome = "NOT_FOUND"   \* publish_json raises
        /\ Fault
        /\ UNCHANGED <<work, published>>
  /\ UNCHANGED <<svars, mission, ordered, led, captures, robot, connected, latched>>

-----------------------------------------------------------------------------
(* CompletionActionRoutine, handoff_return_home, sit_after_home *)

notWork == <<svars, ordered, complete, led, audio, capture, homes, connected, latched>>

Goto(step) == work' = [work EXCEPT !.step = step]

\* The routine or the callback ends in an exception; the slot stays taken.
Abandon == work' = NoWork

\* capture_stop_and_calculate: a vector takes a start and a stop observation.
FinishCapture ==
  /\ work.step = "capture" /\ Goto("gesture")
  /\ \/ UNCHANGED vectors
     \/ /\ capture[work.event] = "done"
        /\ vectors' = vectors \union {work.event}
  /\ UNCHANGED <<notWork, mission, robot, published, faulted>>

\* Manual mode, Fast gait, two zero velocities, Slow gait.
FastAndSlow ==
  /\ work.step = "gesture" /\ Goto("cue")
  /\ UNCHANGED <<notWork, mission, vectors, robot, published, faulted>>

CueWithoutReport ==   \* wrong variant: a failed report is only logged
  /\ work.step = "cue" /\ Goto("turn")
  /\ UNCHANGED <<notWork, mission, vectors, robot, published, faulted>>

\* speak_deterrence_after_slow: however the phrase ends, report COMPLETE.
CueEnds ==
  /\ work.step = "cue"
  /\ \/ /\ connected
        /\ published' = published \union {<<work.event, "TARGET_REACHED">>}
        /\ Goto("turn") /\ NoFault
     \/ Abandon /\ Fault /\ UNCHANGED published   \* publish_json raises
  /\ UNCHANGED <<notWork, mission, vectors, robot>>

Hello ==
  /\ work.step = "hello" /\ Goto("homing")
  /\ UNCHANGED <<notWork, mission, vectors, robot, published, faulted>>

HomingNeedsPose ==   \* wrong variant: without home and vector nothing is done
  /\ work.step = "homing"
  /\ IF work.event \in homes \union vectors THEN Goto("driving") ELSE Abandon
  /\ UNCHANGED <<notWork, mission, vectors, robot, published, faulted>>

\* handoff_return_home
Homing ==
  /\ work.step = "homing"
  /\ Goto(IF work.event \in homes \union vectors THEN "driving" ELSE "sit")
  /\ UNCHANGED <<notWork, mission, vectors, robot, published, faulted>>

After == [turn |-> "hello", driving |-> "facing", facing |-> "sit"]

\* DirectReturnExecutor: the turn before Hello, run_to_position or run, the
\* turn at home.  Each ends when the pose says so.  A pose that no callback
\* updates is at best the home position itself.
Moved ==
  /\ work.step \in DOMAIN After
  /\ IF ExecutorBusy THEN work.step = "driving" ELSE poseKnown
  /\ Goto(After[work.step])
  /\ UNCHANGED <<notWork, mission, vectors, robot, published, faulted>>

\* A deadline passes, progress stalls or there is no pose.
MoveFails ==
  /\ work.step \in DOMAIN After
  /\ Abandon
  /\ faulted' = (faulted \/ ~ExecutorBusy)
  /\ UNCHANGED <<notWork, mission, vectors, robot, published>>

\* The finally block of sit_after_home.
FreeSlot ==
  /\ slot' = IF slot = work.event THEN NoEvent ELSE slot
  /\ toggled' = IF toggled = work.event THEN NoEvent ELSE toggled
  /\ work' = NoWork
  /\ UNCHANGED <<start, attempt>>

SitDown ==
  /\ work.step = "sit"
  /\ \/ /\ toggled = work.event
        /\ SendToggle /\ Goto("sitting")
        /\ UNCHANGED mission
     \/ toggled # work.event /\ FreeSlot /\ UNCHANGED toggles
  /\ UNCHANGED <<notWork, vectors, posture, seen, poseKnown, published, faulted>>

SitConfirmed ==
  /\ work.step = "sitting" /\ seen = "sitting" /\ FreeSlot
  /\ UNCHANGED <<notWork, vectors, robot, published, faulted>>

SitTimeoutKept ==   \* wrong variant: the wait for the posture has no deadline
  FALSE /\ UNCHANGED vars

SitTimeout ==
  /\ work.step = "sitting" /\ seen # "sitting" /\ FreeSlot
  /\ faulted' = (faulted \/ ~ExecutorBusy)
  /\ UNCHANGED <<notWork, vectors, robot, published>>

-----------------------------------------------------------------------------
(* The MQTT client and Motion Host *)

\* on_connection_lost: emergency_stop() from the MQTT thread.  The process
\* never subscribes to the topic a RESET would come from.
LoseConnection ==
  /\ connected /\ connected' = FALSE /\ latched' = TRUE /\ Fault
  /\ IF session = NoEvent THEN UNCHANGED svars ELSE Drop
  /\ UNCHANGED <<mission, ordered, complete, work, led, audio, captures, robot,
                 published>>

Reconnect ==
  /\ ~connected /\ connected' = TRUE
  /\ UNCHANGED <<svars, mission, ordered, complete, work, led, audio, captures,
                 robot, latched, published, faulted>>

\* Stand/Sit is a toggle; while the robot gets up it has no effect.
HostToggles ==
  /\ toggles > 0 /\ toggles' = toggles - 1
  /\ posture' = CASE posture = "sitting" -> "rising"
                  [] posture = "standing" -> "sitting"
                  [] OTHER -> posture
  /\ UNCHANGED <<notRobot, seen, poseKnown>>

ToggleLost ==
  /\ toggles > 0 /\ toggles' = toggles - 1 /\ Fault
  /\ UNCHANGED <<svars, mission, ordered, complete, work, led, audio, captures,
                 mqtt, posture, seen, poseKnown>>

HostStands ==
  /\ posture = "rising" /\ posture' = "standing"
  /\ UNCHANGED <<notRobot, toggles, seen, poseKnown>>

-----------------------------------------------------------------------------
StandThread ==
  \/ SpeechEnds \/ SpeechFails \/ AskToStand \/ StandObserved \/ StandTimeout
  \/ ReadyToSearch

WorkThread ==
  \/ FinishCapture \/ FastAndSlow \/ CueEnds \/ Hello \/ Homing
  \/ Moved \/ MoveFails \/ SitDown \/ SitConfirmed \/ SitTimeout

Callback ==
  \/ \E e \in Events : TakeOrder(e) \/ \E o \in Outcomes : TakeComplete(e, o)
  \/ PostureArrives \/ PoseArrives

Next ==
  \/ \E e \in Events : Trigger(e) \/ CaptureStart(e)
  \/ StandThread \/ WorkThread \/ Callback \/ Bark
  \/ \E o \in Outcomes : SearchAnswers(o)
  \/ SearchDropped
  \/ LoseConnection \/ Reconnect
  \/ HostToggles \/ ToggleLost \/ HostStands

Spec == Init /\ [][Next]_vars

\* The threads run, and all their waits have deadlines; the executor, when it
\* is free, works through its callbacks; a search ends (CoyoteMotion's
\* SearchEnds).
Fairness ==
  /\ WF_vars(StandThread)
  /\ WF_vars(WorkThread)
  /\ WF_vars(\E e \in Events : TakeOrder(e))
  /\ WF_vars(\E e \in Events, o \in Outcomes : TakeComplete(e, o))
  /\ WF_vars(SearchDropped \/ \E o \in Outcomes : SearchAnswers(o))

FairSpec == Spec /\ Fairness

-----------------------------------------------------------------------------
(* Properties *)

Steps == {"capture", "gesture", "cue", "turn", "hello", "homing", "driving",
          "facing", "sit", "sitting"}
MaybeEvent == Events \union {NoEvent}

\* Every variable has the type the code gives it.
MissionTypeOK ==
  /\ slot \in MaybeEvent /\ toggled \in MaybeEvent /\ attempt \in 0 .. 2
  /\ start \in {"none", "speaking", "deciding", "observing", "rising", "gait"}
  /\ ordered \subseteq Events /\ complete \subseteq Events \X Outcomes
  /\ work \in [event : Events, step : Steps] \union {NoWork}
  /\ led \in MaybeEvent /\ armedCue \in MaybeEvent /\ barking \subseteq Events
  /\ capture \in [Events -> {"none", "pending", "done"}]
  /\ vectors \subseteq Events /\ homes \subseteq Events
  /\ posture \in {"sitting", "rising", "standing"} /\ toggles \in 0 .. MaxToggles
  /\ seen \in {"unknown", "sitting", "rising", "standing"}
  /\ poseKnown \in BOOLEAN /\ connected \in BOOLEAN /\ latched \in BOOLEAN
  /\ published \subseteq Events \X Outcomes /\ faulted \in BOOLEAN

\* What the bridge is doing about event e, in whatever thread or queue.
Doing(e) ==
  {a \in {"stand", "order", "search", "report", "work"} :
     \/ a = "stand" /\ start # "none" /\ slot = e
     \/ a = "order" /\ e \in ordered
     \/ a = "search" /\ session = e
     \/ a = "report" /\ \E o \in Outcomes : <<e, o>> \in complete
     \/ a = "work" /\ work.event = e}

\* "Motion ownership is not acquired until Fast gait and Navigation mode are
\* both settled, so no tracking UDP packet races this setup": the stand
\* routine, the search, the gesture and the way home take turns, and all of
\* them act for the one mission that holds the slot.
OneMover ==
  \A e \in Events : Doing(e) # {} => slot = e /\ Cardinality(Doing(e)) = 1

\* The types, and one mover for the one mission.
MissionInv == MissionTypeOK /\ OneMover

\* What a mission switches on (LED, bark loop, armed bark, Stand toggle) is
\* its own: a slot is never given back with one of them left on.
CuesBelongToSlot ==
  /\ {led, toggled, armedCue} \subseteq {slot, NoEvent}
  /\ barking \subseteq {slot}

\* "Finish the deterrence cue before publishing external COMPLETE", and go
\* home only after that: what is reported is what the search answered, and no
\* way home begins before the report was handed over.
CompleteBeforeHome ==
  /\ published \subseteq answers
  /\ work.step \in Steps \ {"capture", "gesture", "cue"} =>
       \E o \in Outcomes : <<work.event, o>> \in published

\* A mission that holds the slot, with nobody left to work for it.
Stranded(e) == slot = e /\ Doing(e) = {}

\* The slot of a mission always has somebody who works for it and will give it
\* back, unless something failed or the way home ran on the executor's own
\* thread.  A search that is refused, or dropped without an answer, counts as
\* such a failure.
StrandedOnlyByFault ==
  \A e \in Events : Stranded(e) => faulted \/ <<e, "NOT_FOUND">> \in answers

\* No wait in any of the threads lasts for ever.
MissionSettles == \A e \in Events : slot = e ~> slot # e \/ Stranded(e)
=============================================================================
