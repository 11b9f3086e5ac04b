----------------------------- MODULE CoyoteMotion -----------------------------
(***************************************************************************)
(* The Coyote motion controller of the bridge process                      *)
(* (lite3_mqtt/coyote_bridge.py, CoyoteMotionController) with its local    *)
(* avoidance policy and the gated UDP sink that carries its velocities.    *)
(*                                                                         *)
(* Every method runs under the controller's lock, so one action is one     *)
(* method.  Callers are the executor thread (status, tick, start_search),  *)
(* the MQTT thread (emergency stop) and the long jump thread.              *)
(*                                                                         *)
(* Geometry is data here: poses, yaw errors, pulse timing, sweep counts    *)
(* and the side of a turn are not kept.  Where the code compares them, the *)
(* model takes either branch.  Times are flags: the session timer and the  *)
(* age of the stored status advance by actions of their own; the motion    *)
(* guard's timers may have run out whenever they are read.                 *)
(***************************************************************************)
EXTENDS FiniteSets, Naturals

CONSTANTS
    Events,          \* detection events (fewer than the 256 remembered)
    Types,           \* detection types: COYOTE, BROKEN_CUP
    NoEvent, NoType,
    RequireScan,     \* the controller's require_scan (FALSE in the bridge)
    EnableLongJump   \* ENABLE_LONG_JUMP of the bridge

ASSUME RequireScanBool == RequireScan \in BOOLEAN
ASSUME LongJumpBool == EnableLongJump \in BOOLEAN
ASSUME NoEventNew == NoEvent \notin Events
ASSUME NoTypeNew == NoType \notin Types

VARIABLES
    ctl,      \* the controller's fields
    sink,     \* GatedUdpMotionSink: may it send, and the last velocity sent
    answers   \* COMPLETE callbacks made: <<event, outcome>>

vars == <<ctl, sink, answers>>

Outcomes == {"TARGET_REACHED", "NOT_FOUND"}
Velocities == {"zero", "forward", "turn"}

\* A parsed status: not_detected, forward/center, stop/center, stop/left-right.
Reports == {"lost", "ahead", "near", "side"}
Ages == {"future", "fresh", "stale"}

Scanning == {"primary_turn", "secondary_turn"}
Reacquiring == {"reacquire_anchor", "reacquire_observe", "reacquire_sweep"}
Phases == Scanning \union Reacquiring
          \union {"idle", "wait_reposition_scan", "reposition_turn", "advance"}
Keys == {"none", "align", "search_turn", "search_advance", "track_forward"}

Controller ==
    [armed : BOOLEAN, kind : Types \union {NoType},
     event : Events \union {NoEvent},
     expired : BOOLEAN,                    \* session timer has run out
     searching : SUBSET Types,             \* _detection_state is "searching"
     recent : SUBSET Events,
     status : Reports \union {"none"}, statusType : Types \union {NoType},
     synthetic : BOOLEAN, age : Ages,
     seen : BOOLEAN,                       \* an observation not yet revisited
     phase : Phases, key : Keys,           \* key: _motion_key of the guard
     detour : {"idle", "turn", "bypass"},  \* LocalAvoidancePolicy._phase
     hold : BOOLEAN, emergency : BOOLEAN,
     jumped : SUBSET Events]               \* long_jump_event_ids

MotionInit ==
    /\ ctl = [armed |-> FALSE, kind |-> NoType, event |-> NoEvent,
              expired |-> FALSE, searching |-> {}, recent |-> {},
              status |-> "none", statusType |-> NoType,
              synthetic |-> FALSE, age |-> "fresh", seen |-> FALSE,
              phase |-> "idle", key |-> "none", detour |-> "idle",
              hold |-> FALSE, emergency |-> FALSE, jumped |-> {}]
    /\ sink = [active |-> FALSE, wire |-> "zero"]
    /\ answers = {}

-----------------------------------------------------------------------------
(* The sink *)

Acquire(s) == [s EXCEPT !.active = TRUE]
Send(s, velocity) == IF s.active THEN [s EXCEPT !.wire = velocity] ELSE s
Release(s) == [s EXCEPT !.active = FALSE]

StopAfterRelease(s) == Send(Release(s), "zero")   \* wrong variant: swapped order
StopKeepingOutput(s) == Send(s, "zero")           \* wrong variant: no release

\* _send_stop and then _release_output_locked.
StopAndRelease(s) == Release(Send(s, "zero"))

-----------------------------------------------------------------------------
(* What the methods share *)

NoStatus(c) ==
    [c EXCEPT !.status = "none", !.statusType = NoType,
              !.synthetic = FALSE, !.age = "fresh"]

\* A not_detected status made up by the controller, stamped now.
Synthesize(c) ==
    [c EXCEPT !.status = "lost", !.synthetic = TRUE, !.age = "fresh"]

Disarm(c) ==
    [c EXCEPT !.armed = FALSE, !.kind = NoType, !.expired = FALSE,
              !.phase = "idle"]

\* The fields that completion, abort and stop all reset.
EndSearch(c) ==
    [Disarm(c) EXCEPT !.event = NoEvent, !.seen = FALSE, !.key = "none"]

StopLocked(c) == [NoStatus(EndSearch(c)) EXCEPT !.hold = FALSE]

\* _status_reason
StatusReason(c, ready) ==
    IF ~ready THEN "transport_not_ready"
    ELSE IF c.status = "none" THEN "no_status"
    ELSE IF c.age = "future" THEN "future_status"
    ELSE IF c.age = "stale" THEN "stale_status"
    ELSE IF c.status = "lost" THEN "not_detected"
    ELSE IF c.status = "ahead" THEN "forward"
    ELSE "motion_stop"

-----------------------------------------------------------------------------
(* Deciding a command: a decision is the controller's new fields, the      *)
(* velocity, the reason the code gives for it, and the callbacks made.     *)

Decide(c, velocity, why) ==
    [ctl |-> c, velocity |-> velocity, why |-> why, answered |-> {}]

\* What a tick reads besides the controller: is the transport ready, is
\* odometry fresh, is the clearance snapshot fresh, what it says ahead
\* ("clear" stands for no return, too) and of the sides: the wanted one is
\* open, only the other one is, neither is.  Views that differ only in what
\* no branch looks at are left out.
Views ==
    {view \in [ready : BOOLEAN, odom : BOOLEAN, fresh : BOOLEAN,
               front : {"clear", "slow", "near", "hard"},
               side : {"open", "other", "closed"}] :
        /\ view.ready \/ view.odom
        /\ view.fresh \/ RequireScan \/ (view.front = "clear" /\ view.side = "open")}

ScanFresh(view) == RequireScan => view.fresh
TurnClear(view) == RequireScan => view.side = "open"
FrontClear(view) == RequireScan => view.front \in {"clear", "slow"}

CompleteArmed(c, outcome, why) ==   \* wrong variant: does not disarm
    [ctl |-> [c EXCEPT !.searching = @ \ {c.kind}],
     velocity |-> "zero", why |-> why,
     answered |-> IF c.event = NoEvent THEN {} ELSE {<<c.event, outcome>>}]

\* _complete_active_detection_locked
Complete(c, outcome, why) ==
    [ctl |-> [EndSearch(c) EXCEPT !.searching = @ \ {c.kind}],
     velocity |-> "zero", why |-> why,
     answered |-> IF c.event = NoEvent THEN {} ELSE {<<c.event, outcome>>}]

AbortMoving(c, why) ==   \* wrong variant: disarms and lets the velocity out
    Decide(EndSearch(c), "forward", why)

\* _abort_motion_locked: no callback, and the detection stays "searching".
Abort(c, why) == Decide(EndSearch(c), "zero", why)

\* _reposition_turn_command_locked
RepositionTurn(c) ==
    {Decide([c EXCEPT !.phase = "advance"], "zero", "search_reposition_aligned"),
     Decide(c, "turn", "search_reposition_turn")}

\* _begin_reposition_locked: needs at least one known clearance.
BeginReposition(c) ==
    RepositionTurn([c EXCEPT !.phase = "reposition_turn"])
    \union {Decide(c, "zero", "lidar_stale")}

\* The robot has left its place or has seen a whole turn: pick a new place.
Reposition(c, view) ==
    IF ScanFresh(view) THEN BeginReposition(c)
    ELSE {Decide(c, "zero", "search_wait_lidar")}

\* _reacquire_anchor_command_locked: face the remembered pose, drive there,
\* look at the target's bearing.
ReacquireAnchor(c, view) ==
    {Decide(c, "turn", "reacquire_turn"),
     Decide([c EXCEPT !.phase = "reacquire_observe"], "zero", "reacquire_ready"),
     IF FrontClear(view)
     THEN Decide(c, "forward", "reacquire_drive")
     ELSE Decide([c EXCEPT !.phase = "primary_turn"], "zero", "reacquire_blocked")}

\* Turn in pulses over the side where the target was last seen.
ReacquireSweep(c, view) ==
    LET leave == [c EXCEPT !.phase = "wait_reposition_scan"]
        sweep == [c EXCEPT !.phase = "reacquire_sweep"]
    IN  IF ~TurnClear(view)
        THEN {Decide(leave, "zero", "reacquire_sector_blocked")}
        ELSE {Decide(leave, "zero", "reacquire_sector_complete")}
             \union {Decide(sweep, v, "reacquire_sweep") : v \in {"turn", "zero"}}

\* _advance_command_locked
Advance(c) ==
    {Decide([c EXCEPT !.phase = "secondary_turn"], "zero", "search_advance_complete"),
     Decide(c, "forward", "search_advance")}

\* The tail of _search_command_locked: turn in pulses, reverse once when the
\* side is blocked, move on after a whole turn.
Scan(c, view) ==
    IF TurnClear(view)
    THEN {Decide(c, v, "search_turn") : v \in {"turn", "zero"}}
         \union Reposition([c EXCEPT !.phase = "wait_reposition_scan"], view)
    ELSE IF c.phase = "primary_turn"
    THEN {Decide([c EXCEPT !.phase = "secondary_turn"], "zero", "search_reverse")}
    ELSE {Decide(c, "zero", "search_turn_blocked")}

SearchPhase(c, view) ==
    CASE c.phase = "wait_reposition_scan" -> Reposition(c, view)
      [] c.phase \in Scanning -> Scan(c, view)
      [] c.phase = "idle" -> IF ScanFresh(view)
                             THEN Scan([c EXCEPT !.phase = "primary_turn"], view)
                             ELSE {Decide(c, "zero", "lidar_stale")}
      [] OTHER ->
          IF ~ScanFresh(view) THEN {Decide(c, "zero", "lidar_stale")}
          ELSE CASE c.phase = "reposition_turn" -> RepositionTurn(c)
                 [] c.phase = "reacquire_anchor" -> ReacquireAnchor(c, view)
                 [] c.phase = "reacquire_observe" ->
                      {Decide(c, "zero", "reacquire_observe")}
                      \union ReacquireSweep(c, view)
                 [] c.phase = "reacquire_sweep" -> ReacquireSweep(c, view)
                 [] OTHER -> Advance(c)

\* _search_command_locked: an observation that was not revisited yet and is
\* not too old goes before any other search.
SearchCommand(c, view) ==
    IF ~view.odom THEN {Decide(c, "zero", "odom_stale")}
    ELSE IF c.seen /\ c.phase \notin Reacquiring
    THEN LET revisited == [c EXCEPT !.seen = FALSE]
         IN  ReacquireAnchor([revisited EXCEPT !.phase = "reacquire_anchor"], view)
             \union SearchPhase(revisited, view)
    ELSE SearchPhase(c, view)

\* _detected_stop_command_locked: complete in front of the target, or turn
\* to it in pulses.
DetectedStop(c, view) ==
    IF c.status = "near"
    THEN {Complete(c, "TARGET_REACHED", "target_centered")}
    ELSE IF ~ScanFresh(view) THEN {Decide(c, "zero", "lidar_stale")}
    ELSE IF ~view.odom THEN {Decide(c, "zero", "odom_stale")}
    ELSE {Decide(c, v, "align") : v \in {"turn", "zero"}}

\* The status a tick works with: an armed search keeps its made-up status
\* fresh, and replaces a status that went stale by a made-up one.
Refreshed(c, ready) ==
    IF c.armed /\ (c.synthetic \/ StatusReason(c, ready) = "stale_status")
    THEN Synthesize(c)
    ELSE c

\* The decision of tick() before arbitration.
Wanted(old, view) ==
    LET c == Refreshed(old, view.ready)
        why == StatusReason(c, view.ready)
    IN  CASE c.armed /\ c.expired ->
               {Complete(c, "NOT_FOUND", "search_session_timeout")}
          [] ~c.armed /\ why \in {"forward", "motion_stop"} ->
               {Decide(c, "zero", "detection_not_armed")}
          [] c.armed /\ ~c.expired /\ why = "forward" ->
               {IF ~ScanFresh(view) THEN Decide(c, "zero", "lidar_stale")
                ELSE IF ~view.odom THEN Decide(c, "zero", "odom_stale")
                ELSE Decide(c, "forward", "forward")}
          [] c.armed /\ ~c.expired /\ why = "motion_stop" -> DetectedStop(c, view)
          [] c.armed /\ ~c.expired /\ why = "not_detected" -> SearchCommand(c, view)
          [] OTHER ->
               {Decide(IF why \in {"future_status", "stale_status"}
                       THEN Disarm(c) ELSE c, "zero", why)}

-----------------------------------------------------------------------------
(* LocalAvoidancePolicy: may replace the decided velocity. *)

Override(c, detour, velocity, why) ==
    Decide([c EXCEPT !.detour = detour], velocity, why)

\* _active_detour: turn until the front is open, then drive past, unless
\* something is right ahead.  The empty set: the detour is over (or none).
ActiveDetour(c, view) ==
    LET turn == IF view.side = "closed"
                THEN Override(c, "turn", "zero", "obstacle_no_turn_clearance")
                ELSE Override(c, "turn", "turn", "obstacle_avoid")
        bypass == Override(c, "bypass", "forward", "obstacle_bypass")
    IN  IF c.detour = "idle" THEN {}
        ELSE IF view.front = "hard"
        THEN {Override(c, "idle", "zero", "obstacle_hard_stop")}
        ELSE IF c.detour = "turn"
        THEN {turn} \union (IF view.front = "near" THEN {} ELSE {bypass})
        ELSE IF view.front = "near"
        THEN {Override(c, "turn", "turn", "obstacle_avoid")}
        ELSE {bypass}

\* The rest of arbitrate(), when no detour is under way.
AvoidObstacle(d, view) ==
    LET c == [d.ctl EXCEPT !.detour = "idle"]
        kept == [d EXCEPT !.ctl = c]
    IN  CASE d.velocity = "zero" -> kept
          [] d.velocity = "forward" ->
               (CASE view.front = "clear" -> kept
                  [] view.front = "slow" -> Override(c, "idle", "forward", "obstacle_slow")
                  [] view.front = "hard" -> Override(c, "idle", "zero", "obstacle_hard_stop")
                  [] view.side = "closed" ->
                       Override(c, "idle", "zero", "obstacle_no_turn_clearance")
                  [] OTHER -> Override(c, "turn", "turn", "obstacle_avoid"))
          [] OTHER ->
               (CASE view.side = "open" -> kept
                  [] view.side = "other" -> Override(c, "idle", "turn", "obstacle_turn")
                  [] OTHER -> Override(c, "idle", "zero", "obstacle_turn_blocked"))

\* The reasons for which tick() forgets a detour before it arbitrates.
DetourEnds ==
    {"target_centered", "detection_not_armed", "transport_not_ready",
     "future_status", "stale_status", "no_status"}

\* A detour goes on even when the decided velocity is zero.  A bypass may
\* be over at any time.  Callbacks already made stay made.
Arbitrate(decided, view) ==
    LET d == IF decided.why \in DetourEnds
             THEN [decided EXCEPT !.ctl.detour = "idle"] ELSE decided
        active == ActiveDetour(d.ctl, view)
        over == d.ctl.detour = "idle" \/ (d.ctl.detour = "bypass"
                                          /\ view.front \in {"clear", "slow"})
        result == active \union (IF over THEN {AvoidObstacle(d, view)} ELSE {})
    IN  IF view.fresh THEN {[r EXCEPT !.answered = d.answered] : r \in result}
        ELSE {d}

-----------------------------------------------------------------------------
(* The motion guard *)

\* _motion_key_for_reason, without the direction.
KeyFor(why) ==
    CASE why = "align" -> "align"
      [] why \in {"search_turn", "search_reposition_turn", "reacquire_turn",
                  "reacquire_sweep", "obstacle_avoid", "obstacle_turn"} -> "search_turn"
      [] why \in {"search_advance", "reacquire_drive"} -> "search_advance"
      [] why \in {"forward", "obstacle_slow", "obstacle_bypass"} -> "track_forward"
      [] OTHER -> "none"

\* _guard_motion_locked: a movement of one kind has a time limit and must
\* make progress.  A turn without progress only pauses.
Guard(d) ==
    LET key == KeyFor(d.why)
        aborted(why) == [Abort(d.ctl, why) EXCEPT !.answered = d.answered]
        running == [d EXCEPT !.ctl.key = key]
        overtime ==
            {aborted("motion_phase_timeout"),
             IF key \in {"align", "search_turn"}
             THEN [d EXCEPT !.ctl.key = "none", !.velocity = "zero",
                            !.why = "turn_progress_wait"]
             ELSE aborted("motion_progress_timeout")}
    IN  IF d.velocity = "zero"
        THEN {IF key = d.ctl.key THEN d ELSE [d EXCEPT !.ctl.key = "none"]}
        ELSE IF key = "none" THEN {aborted("motion_reason_invalid")}
        ELSE {running} \union (IF key = d.ctl.key THEN overtime ELSE {})

\* _should_release_locked
ReleaseReasons ==
    {"future_status", "lidar_stale", "motion_phase_timeout",
     "motion_progress_timeout", "motion_reason_invalid", "no_status",
     "not_detected", "odom_stale", "search_session_timeout",
     "search_turn_blocked", "stale_status", "target_centered",
     "transport_not_ready"}

-----------------------------------------------------------------------------
(* The methods *)

TickSink(d) ==
    IF d.velocity = "zero" /\ ~d.ctl.armed /\ d.why \in ReleaseReasons
    THEN StopAndRelease(sink)
    ELSE Send(sink, d.velocity)

\* All a tick may come to: decide, let the avoidance policy replace the
\* decision, let the guard stop it.
TickDecisions ==
    UNION {UNION {UNION {Guard(a) : a \in Arbitrate(w, view)}
                     : w \in Wanted(ctl, view)}
              : view \in Views}

\* tick(), at 20 Hz on the executor thread.
Tick ==
    /\ ~ctl.hold
    /\ \E d \in TickDecisions :
          /\ ctl' = d.ctl
          /\ sink' = TickSink(d)
          /\ answers' = answers \union d.answered

StatusOfAnyType(type) ==   \* wrong variant: whose status it is goes unchecked
    ctl.status # "none" /\ ~ctl.synthetic /\ ctl.age = "fresh"

\* A status freshly received, neither made up nor of another type.
StatusIsFresh(type) ==
    ctl.status # "none" /\ ctl.statusType = type
    /\ ~ctl.synthetic /\ ctl.age = "fresh"

\* start_search(), from the queue of accepted triggers.
StartSearch(e, type) ==
    /\ ~ctl.emergency
    /\ e \notin ctl.recent
    /\ IF ctl.armed
       THEN /\ ctl' = [ctl EXCEPT !.recent = @ \union {e}]
            /\ UNCHANGED sink
       ELSE LET kept == IF StatusIsFresh(type) THEN ctl
                        ELSE [Synthesize(ctl) EXCEPT !.statusType = type]
            IN  /\ ctl' = [kept EXCEPT
                              !.recent = @ \union {e}, !.hold = FALSE,
                              !.searching = @ \union {type},
                              !.armed = TRUE, !.kind = type, !.event = e,
                              !.expired = FALSE, !.seen = FALSE,
                              !.phase = "primary_turn"]
                /\ sink' = Send(Acquire(sink), "zero")
    /\ UNCHANGED answers

\* handle_status() with a well-formed status of some age.  It is taken only
\* for a type being searched; an advisory to stop is applied at once.
HandleStatus(type, report, age, ready) ==
    LET stored == [ctl EXCEPT !.status = report, !.statusType = type,
                              !.synthetic = FALSE, !.age = age,
                              !.seen = @ \/ report # "lost"]
    IN  /\ IF type \notin ctl.searching
           THEN /\ sink' = Send(sink, "zero")
                /\ UNCHANGED ctl
           ELSE /\ ~ctl.armed \/ ctl.kind = type
                /\ ctl' = stored
                /\ sink' = IF StatusReason(stored, ready) = "forward"
                           THEN sink ELSE Send(sink, "zero")
        /\ UNCHANGED answers

\* handle_status() with a status that does not parse.
RejectStatus(type) ==
    /\ ~ctl.armed \/ ctl.kind = type
    /\ ctl' = [NoStatus(Disarm(ctl)) EXCEPT !.key = "none"]
    /\ sink' = StopAndRelease(sink)
    /\ UNCHANGED answers

\* stop(), and the patrol commands START, STOP and RETURN_HOME.
Stop ==
    /\ ctl' = StopLocked(ctl)
    /\ sink' = StopAndRelease(sink)
    /\ UNCHANGED answers

\* emergency_stop(), also on a lost MQTT connection (MQTT thread).
EmergencyStop ==
    /\ ctl' = [StopLocked(ctl) EXCEPT !.emergency = TRUE]
    /\ sink' = StopAndRelease(sink)
    /\ UNCHANGED answers

Reset ==
    /\ ctl' = [StopLocked(ctl) EXCEPT !.emergency = FALSE]
    /\ sink' = StopAndRelease(sink)
    /\ UNCHANGED answers

\* pause_for_external_action() goes ahead.
Pausable == ctl.armed /\ ~ctl.hold

\* resume_after_external_action() goes ahead.
Resumable == ctl.armed /\ ctl.hold

\* start_long_jump_when_ready(): the output is paused and, once per event, the
\* thread begins that jumps.
LongJump ==
    /\ EnableLongJump
    /\ Pausable /\ ctl.event \notin ctl.jumped
    /\ ctl' = [ctl EXCEPT !.hold = TRUE, !.jumped = @ \union {ctl.event}]
    /\ sink' = StopAndRelease(sink)
    /\ UNCHANGED answers

\* The event has had its jump: the pause is taken back in the same callback,
\* and leaves a stop behind.
JumpDeclined ==
    /\ EnableLongJump
    /\ Pausable /\ ctl.event \in ctl.jumped
    /\ sink' = Send(Acquire(StopAndRelease(sink)), "zero")
    /\ UNCHANGED <<ctl, answers>>

\* The thread of the jump ends well: tracking resumes.  On any failure, a
\* timeout included, it ends with Stop.
Resume ==
    /\ Resumable
    /\ ctl' = [ctl EXCEPT !.hold = FALSE]
    /\ sink' = Send(Acquire(sink), "zero")
    /\ UNCHANGED answers

TimeoutWhileUnseen ==   \* wrong variant: a visible target holds the timer
    /\ ctl.armed /\ ~ctl.expired /\ ctl.synthetic
    /\ ctl' = [ctl EXCEPT !.expired = TRUE]
    /\ UNCHANGED <<sink, answers>>

\* The search timer runs out (search_session_timeout_sec).
SessionTimeout ==
    /\ ctl.armed /\ ~ctl.expired
    /\ ctl' = [ctl EXCEPT !.expired = TRUE]
    /\ UNCHANGED <<sink, answers>>

\* Time passes for the stored status.
StatusAges ==
    /\ ctl.status # "none" /\ ctl.age # "stale"
    /\ ctl' = [ctl EXCEPT !.age = IF @ = "future" THEN "fresh" ELSE "stale"]
    /\ UNCHANGED <<sink, answers>>

StatusArrives ==
    \E type \in Types :
       \/ \E report \in Reports, age \in Ages, ready \in BOOLEAN :
             HandleStatus(type, report, age, ready)
       \/ RejectStatus(type)

MotionNext ==
    \/ Tick
    \/ \E e \in Events, type \in Types : StartSearch(e, type)
    \/ StatusArrives
    \/ Stop
    \/ EmergencyStop
    \/ Reset
    \/ LongJump
    \/ JumpDeclined
    \/ Resume
    \/ SessionTimeout
    \/ StatusAges

MotionSpec == MotionInit /\ [][MotionNext]_vars

\* The tick timer and the clock go on (of the ticks, only those that find
\* the session over are needed); the jump thread waits with timeouts only
\* and ends by resuming or, on any failure, by stop().
FairMotionSpec ==
    /\ MotionSpec
    /\ WF_vars(ctl.expired /\ Tick)
    /\ WF_vars(SessionTimeout)
    /\ WF_vars(Resume)

-----------------------------------------------------------------------------
(* Properties *)

\* Fields have their types.
MotionTypeOK ==
    /\ ctl \in Controller
    /\ sink \in [active : BOOLEAN, wire : Velocities]
    /\ answers \subseteq (Events \X Outcomes)

\* "CoyoteMotionController sends the terminal zero before release()": the
\* robot was told to stand still whenever the sink is closed.
ReleasedMeansStopped == ~sink.active => sink.wire = "zero"

\* The types, and a closed sink over a standing robot.
MotionSafety == MotionTypeOK /\ ReleasedMeansStopped

\* After an emergency stop nothing moves the robot until RESET: not a tick
\* under way, not a status that arrives late, not a detour left over.
EmergencyIsSilent == ctl.emergency => sink.wire = "zero" /\ ~ctl.armed

\* "Inference never acquires motion by itself": without a triggered search only
\* a detour begun under a search still moves the robot.
UnarmedMotionIsDetour ==
    sink.wire # "zero" /\ ~ctl.armed => ctl.detour # "idle"

\* TARGET_REACHED is reported for the armed event only on a fresh status of
\* its own type that saw the target close and centred.
FoundIsSeen ==
    [][\A e \in Events :
          <<e, "TARGET_REACHED">> \in answers' \ answers =>
             /\ ctl.armed /\ ctl.event = e
             /\ ctl.statusType = ctl.kind
             /\ ctl.status = "near" /\ ctl.age = "fresh"]_vars

\* Every search ends, whatever the statuses and sensors do.
SearchEnds ==
    \A e \in Events :
       (ctl.armed /\ ctl.event = e) ~> ~(ctl.armed /\ ctl.event = e)

\* The controller is a search session for the mission layer.
Session == INSTANCE SearchSession WITH
    session <- IF ctl.armed THEN ctl.event ELSE NoEvent,
    taken <- ctl.recent

ImplementsSession == Session!SessionSpec

=============================================================================
