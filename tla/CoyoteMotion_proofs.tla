------------------------- MODULE CoyoteMotion_proofs -------------------------
(***************************************************************************)
(* Proofs about the Coyote motion controller, for any sets of events and   *)
(* detection types.  A tick is a pipeline of stages, each of which yields  *)
(* a set of decisions; the lemmas say what a stage leaves alone, and the   *)
(* invariant follows from the decisions that come out at the end.          *)
(***************************************************************************)
EXTENDS CoyoteMotion, TLAPS

Answers == Events \X Outcomes

\* A decision, whatever its reason says.
IsDecision(d) ==
    /\ d = [ctl |-> d.ctl, velocity |-> d.velocity, why |-> d.why,
            answered |-> d.answered]
    /\ d.ctl \in Controller
    /\ d.velocity \in Velocities
    /\ d.answered \subseteq Answers

-----------------------------------------------------------------------------
(* Searching *)

\* While it searches, a tick changes at most the phase and the observation
\* that was not revisited.
Keeps(c, k) ==
    /\ k \in Controller
    /\ k.armed = c.armed /\ k.kind = c.kind /\ k.event = c.event
    /\ k.recent = c.recent /\ k.jumped = c.jumped
    /\ k.status = c.status /\ k.statusType = c.statusType
    /\ k.synthetic = c.synthetic /\ k.emergency = c.emergency

Searching(c, d) ==
    IsDecision(d) /\ d.answered = {} /\ Keeps(c, d.ctl)

\* A new phase keeps the rest of the controller.
LEMMA PhaseKeeps ==
    ASSUME NEW c \in Controller, NEW p \in Phases
    PROVE  Keeps(c, [c EXCEPT !.phase = p])
  BY DEF Keeps, Controller

\* A search may go on from a controller that was kept.
LEMMA KeepsTransitive ==
    ASSUME NEW c, NEW k, NEW d, Keeps(c, k), Searching(k, d)
    PROVE  Searching(c, d)
  BY DEF Searching, Keeps

LEMMA RepositionTurnKeeps ==
    ASSUME NEW c \in Controller, NEW d \in RepositionTurn(c)
    PROVE  Searching(c, d)
  BY DEF RepositionTurn, Decide, Searching, IsDecision, Keeps, Controller,
         Phases, Velocities

LEMMA RepositionKeeps ==
    ASSUME NEW c \in Controller, NEW view, NEW d \in Reposition(c, view)
    PROVE  Searching(c, d)
  <1> DEFINE turning == [c EXCEPT !.phase = "reposition_turn"]
  <1>1. turning \in Controller /\ Keeps(c, turning)
    BY PhaseKeeps DEF Keeps, Phases
  <1>2. CASE d \in RepositionTurn(turning)
    <2>1. Searching(turning, d)
      BY <1>1, <1>2, RepositionTurnKeeps
    <2> QED  BY <1>1, <2>1, KeepsTransitive
  <1>3. CASE d \in {Decide(c, "zero", "lidar_stale"),
                    Decide(c, "zero", "search_wait_lidar")}
    BY <1>3 DEF Decide, Searching, IsDecision, Keeps, Velocities
  <1> QED  BY <1>2, <1>3 DEF Reposition, BeginReposition

LEMMA ReacquireKeeps ==
    ASSUME NEW c \in Controller, NEW view,
           NEW d \in ReacquireAnchor(c, view) \union ReacquireSweep(c, view)
    PROVE  Searching(c, d)
  BY DEF ReacquireAnchor, ReacquireSweep, Decide, Searching, IsDecision, Keeps,
         Controller, Phases, Scanning, Reacquiring, Velocities

LEMMA ScanKeeps ==
    ASSUME NEW c \in Controller, NEW view, NEW d \in Scan(c, view)
    PROVE  Searching(c, d)
  <1> DEFINE moved == [c EXCEPT !.phase = "wait_reposition_scan"]
  <1>1. moved \in Controller /\ Keeps(c, moved)
    BY PhaseKeeps DEF Keeps, Phases
  <1>2. CASE d \in Reposition(moved, view)
    <2>1. Searching(moved, d)
      BY <1>1, <1>2, RepositionKeeps
    <2> QED  BY <1>1, <2>1, KeepsTransitive
  <1>3. CASE d \notin Reposition(moved, view)
    BY <1>3 DEF Scan, Decide, Searching, IsDecision, Keeps, Controller, Phases,
                Scanning, Velocities
  <1> QED  BY <1>2, <1>3

LEMMA SearchPhaseKeeps ==
    ASSUME NEW c \in Controller, NEW view, NEW d \in SearchPhase(c, view)
    PROVE  Searching(c, d)
  <1> DEFINE begun == [c EXCEPT !.phase = "primary_turn"]
  <1>1. begun \in Controller /\ Keeps(c, begun)
    BY PhaseKeeps DEF Keeps, Phases, Scanning
  <1>2. CASE d \in Scan(begun, view)
    <2>1. Searching(begun, d)
      BY <1>1, <1>2, ScanKeeps
    <2> QED  BY <1>1, <2>1, KeepsTransitive
  <1>3. CASE d \in Scan(c, view) \union Reposition(c, view)
                   \union ReacquireAnchor(c, view) \union ReacquireSweep(c, view)
    BY <1>3, ScanKeeps, RepositionKeeps, ReacquireKeeps
  <1>4. CASE d \in RepositionTurn(c) \union Advance(c)
                   \union {Decide(c, "zero", "lidar_stale"),
                           Decide(c, "zero", "reacquire_observe")}
    BY <1>4 DEF RepositionTurn, Advance, Decide, Searching, IsDecision, Keeps,
                Controller, Phases, Scanning, Velocities
  <1> QED  BY <1>2, <1>3, <1>4 DEF SearchPhase

LEMMA SearchCommandKeeps ==
    ASSUME NEW c \in Controller, NEW view, NEW d \in SearchCommand(c, view)
    PROVE  Searching(c, d)
  <1> DEFINE revisited == [c EXCEPT !.seen = FALSE]
             anchored == [revisited EXCEPT !.phase = "reacquire_anchor"]
  <1>1. revisited \in Controller /\ Keeps(c, revisited)
    BY DEF Keeps, Controller
  <1>2. anchored \in Controller /\ Keeps(revisited, anchored)
    BY <1>1, PhaseKeeps DEF Keeps, Phases, Reacquiring
  <1>3. CASE d \in ReacquireAnchor(anchored, view) \union SearchPhase(revisited, view)
    <2>1. Searching(revisited, d)
      <3>1. CASE d \in ReacquireAnchor(anchored, view)
        BY <1>2, <3>1, ReacquireKeeps, KeepsTransitive
      <3>2. CASE d \in SearchPhase(revisited, view)
        BY <1>1, <3>2, SearchPhaseKeeps
      <3> QED  BY <1>3, <3>1, <3>2
    <2> QED  BY <1>1, <2>1, KeepsTransitive
  <1>4. CASE d \in SearchPhase(c, view)
    BY <1>4, SearchPhaseKeeps
  <1>5. CASE d = Decide(c, "zero", "odom_stale")
    BY <1>5 DEF Decide, Searching, IsDecision, Keeps, Velocities
  <1> QED  BY <1>3, <1>4, <1>5 DEF SearchCommand

-----------------------------------------------------------------------------
(* Ticks *)

\* A controller that has not begun a search: what it has kept of c.
SameSearch(c, k) ==
    /\ k.armed => c.armed /\ k.event = c.event /\ k.kind = c.kind
    /\ k.recent = c.recent /\ k.jumped = c.jumped
    /\ k.emergency = c.emergency
    /\ k.statusType = c.statusType
    /\ \/ k.status = c.status /\ k.synthetic = c.synthetic
       \/ k.status = "lost" /\ c.status # "none"

\* Callbacks are made for the armed event only, once, and end its search;
\* success is reported of a fresh status that saw the target.
SoundAnswer(c, d) ==
    \/ d.answered = {}
    \/ /\ c.armed /\ ~d.ctl.armed
       /\ \E outcome \in Outcomes :
             /\ d.answered = {<<c.event, outcome>>}
             /\ outcome = "TARGET_REACHED" => c.status = "near" /\ c.age = "fresh"

Sound(c, d) == IsDecision(d) /\ SameSearch(c, d.ctl) /\ SoundAnswer(c, d)

\* What the invariant says of the controller alone.
ControllerInv(c) ==
    /\ c \in Controller
    /\ c.armed => c.event \in Events
    /\ c.armed /\ c.status # "none" => c.statusType = c.kind
    /\ c.synthetic => c.status # "none"

LEMMA RefreshedKeeps ==
    ASSUME NEW c, ControllerInv(c), NEW ready
    PROVE  LET k == Refreshed(c, ready)
           IN  /\ k \in Controller /\ SameSearch(c, k)
               /\ k.armed = c.armed /\ k.event = c.event
               /\ k = c \/ k.status = "lost"
  <1>1. CASE Refreshed(c, ready) = c
    BY <1>1 DEF ControllerInv, SameSearch
  <1>2. CASE Refreshed(c, ready) = Synthesize(c) /\ c.status # "none"
    BY <1>2 DEF ControllerInv, Synthesize, Controller, Reports, Ages, SameSearch
  <1> QED  BY <1>1, <1>2 DEF ControllerInv, Refreshed, StatusReason

\* The end of a search, answered or not.
LEMMA EndSearchEnds ==
    ASSUME NEW c \in Controller
    PROVE  LET k == EndSearch(c)
           IN  /\ k \in Controller /\ ~k.armed /\ SameSearch(c, k)
  <1>1. Disarm(c) \in Controller /\ ~Disarm(c).armed /\ SameSearch(c, Disarm(c))
    BY DEF Disarm, Controller, Phases, SameSearch
  <1> QED  BY <1>1 DEF EndSearch, Controller, Keys, SameSearch

LEMMA CompleteEnds ==
    ASSUME NEW c \in Controller, c.event \in Events, NEW outcome \in Outcomes, NEW why
    PROVE  LET d == Complete(c, outcome, why)
           IN  /\ IsDecision(d) /\ SameSearch(c, d.ctl) /\ ~d.ctl.armed
               /\ d.velocity = "zero" /\ d.answered = {<<c.event, outcome>>}
  <1> DEFINE k == EndSearch(c)
             quiet == [k EXCEPT !.searching = @ \ {c.kind}]
  <1>1. k \in Controller /\ ~k.armed /\ SameSearch(c, k)
    BY EndSearchEnds
  <1> HIDE DEF k
  <1>2. quiet \in Controller /\ ~quiet.armed /\ SameSearch(c, quiet)
    BY <1>1 DEF Controller, SameSearch
  <1>3. Complete(c, outcome, why) =
            [ctl |-> quiet, velocity |-> "zero", why |-> why,
             answered |-> {<<c.event, outcome>>}]
    BY NoEventNew DEF Complete, k
  <1> HIDE DEF quiet
  <1> QED  BY <1>2, <1>3 DEF IsDecision, Answers, Velocities

\* What tick() decides before arbitration: it moves only while armed.
LEMMA WantedSound ==
    ASSUME NEW c, ControllerInv(c), NEW view, NEW d \in Wanted(c, view)
    PROVE  Sound(c, d) /\ (d.velocity # "zero" => d.ctl.armed)
  <1> DEFINE k == Refreshed(c, view.ready)
             why == StatusReason(k, view.ready)
  <1>1. /\ k \in Controller /\ SameSearch(c, k)
        /\ k.armed = c.armed /\ k.event = c.event
        /\ k = c \/ k.status = "lost"
    BY RefreshedKeeps
  <1> HIDE DEF k
  <1>2. CASE k.armed /\ Searching(k, d)
    BY <1>1, <1>2 DEF Searching, Keeps, SameSearch, Sound, SoundAnswer
  <1>3. ASSUME k.armed, NEW outcome \in Outcomes, NEW reason,
               d = Complete(k, outcome, reason),
               outcome = "TARGET_REACHED" => k.status = "near" /\ k.age = "fresh"
        PROVE  Sound(c, d) /\ d.velocity = "zero"
    <2>1. /\ IsDecision(d) /\ SameSearch(k, d.ctl) /\ ~d.ctl.armed
          /\ d.velocity = "zero" /\ d.answered = {<<k.event, outcome>>}
      BY <1>1, <1>3, CompleteEnds DEF ControllerInv
    <2> QED  BY <1>1, <1>3, <2>1 DEF SameSearch, Sound, SoundAnswer
  <1>4. ASSUME NEW reason, d = Decide(k, "zero", reason)
        PROVE  Sound(c, d) /\ d.velocity = "zero"
    BY <1>1, <1>4 DEF Decide, IsDecision, Velocities, Sound, SoundAnswer
  <1>5. ASSUME NEW reason, d = Decide(Disarm(k), "zero", reason)
        PROVE  Sound(c, d) /\ d.velocity = "zero"
    BY <1>1, <1>5 DEF Decide, Disarm, IsDecision, Velocities, Sound, SoundAnswer,
                      SameSearch, Controller, Phases
  <1>6. ASSUME k.armed, NEW velocity \in Velocities, NEW reason,
               d = Decide(k, velocity, reason)
        PROVE  Sound(c, d) /\ d.ctl.armed
    BY <1>1, <1>6 DEF Decide, IsDecision, Sound, SoundAnswer
  <1>7. ASSUME k.armed, why = "motion_stop", d \in DetectedStop(k, view)
        PROVE  Sound(c, d) /\ (d.velocity # "zero" => d.ctl.armed)
    <2>1. k.age = "fresh"
      BY <1>1, <1>7 DEF StatusReason, Controller, Ages
    <2>2. CASE k.status = "near"
      BY <1>3, <1>7, <2>1, <2>2 DEF DetectedStop, Outcomes
    <2>3. CASE k.status # "near"
      BY <1>6, <1>7, <2>3 DEF DetectedStop, Velocities
    <2> QED  BY <2>2, <2>3
  <1>8. ASSUME k.armed, d \in SearchCommand(k, view)
        PROVE  Sound(c, d) /\ (d.velocity # "zero" => d.ctl.armed)
    BY <1>1, <1>2, <1>8, SearchCommandKeeps DEF Searching, Keeps
  <1> QED
    BY <1>3, <1>4, <1>5, <1>6, <1>7, <1>8 DEF Wanted, Outcomes, Velocities, k

\* The avoidance policy may replace the velocity and moves its own phase;
\* what it makes move without a search is a detour.
Avoided(d, r) ==
    /\ IsDecision(r)
    /\ \E phase \in {"idle", "turn", "bypass"} :
          r.ctl = [d.ctl EXCEPT !.detour = phase]
    /\ r.velocity # "zero" => d.velocity # "zero" \/ r.ctl.detour # "idle"

LEMMA OverrideAvoids ==
    ASSUME NEW d, IsDecision(d), NEW phase \in {"idle", "turn", "bypass"},
           NEW velocity \in Velocities, NEW why,
           velocity # "zero" => d.velocity # "zero" \/ phase # "idle"
    PROVE  Avoided(d, Override(d.ctl, phase, velocity, why))
  BY DEF Avoided, Override, Decide, IsDecision, Controller

LEMMA ActiveDetourAvoids ==
    ASSUME NEW d, IsDecision(d), NEW view, NEW r \in ActiveDetour(d.ctl, view)
    PROVE  Avoided(d, r)
  BY OverrideAvoids DEF ActiveDetour, Velocities

LEMMA AvoidObstacleAvoids ==
    ASSUME NEW d, IsDecision(d), NEW view
    PROVE  Avoided(d, AvoidObstacle(d, view))
  <1> DEFINE c == [d.ctl EXCEPT !.detour = "idle"]
             kept == [d EXCEPT !.ctl = c]
  <1>1. Avoided(d, kept)
    BY DEF Avoided, IsDecision, Controller
  <1>2. ASSUME NEW phase \in {"idle", "turn", "bypass"}, NEW velocity \in Velocities,
               NEW why, velocity # "zero" => d.velocity # "zero"
        PROVE  Avoided(d, Override(c, phase, velocity, why))
    <2>1. Override(c, phase, velocity, why) = Override(d.ctl, phase, velocity, why)
      BY DEF Override, Decide, IsDecision, Controller
    <2> QED  BY <1>2, <2>1, OverrideAvoids
  <1>3. \/ AvoidObstacle(d, view) = kept
        \/ \E phase \in {"idle", "turn", "bypass"}, velocity \in Velocities :
              /\ d.velocity # "zero"
              /\ \E why : AvoidObstacle(d, view) = Override(c, phase, velocity, why)
    BY DEF AvoidObstacle, Velocities
  <1> QED  BY <1>1, <1>2, <1>3

LEMMA ArbitrateKeeps ==
    ASSUME NEW d, IsDecision(d), NEW view, NEW r \in Arbitrate(d, view)
    PROVE  Avoided(d, r) /\ r.answered = d.answered
  <1> DEFINE e == IF d.why \in DetourEnds
                  THEN [d EXCEPT !.ctl.detour = "idle"] ELSE d
  <1>1. /\ IsDecision(e) /\ e.velocity = d.velocity /\ e.answered = d.answered
        /\ \E phase \in {"idle", "turn", "bypass"} :
              e.ctl = [d.ctl EXCEPT !.detour = phase]
    BY DEF IsDecision, Controller
  <1> HIDE DEF e
  <1>2. ASSUME NEW x, Avoided(e, x)
        PROVE  Avoided(d, [x EXCEPT !.answered = d.answered])
    <2>1. PICK phase \in {"idle", "turn", "bypass"} :
             x.ctl = [e.ctl EXCEPT !.detour = phase]
      BY <1>2 DEF Avoided
    <2>2. x.ctl = [d.ctl EXCEPT !.detour = phase]
      BY <1>1, <2>1 DEF IsDecision, Controller
    <2>3. IsDecision([x EXCEPT !.answered = d.answered])
      BY <1>2 DEF Avoided, IsDecision
    <2> QED  BY <1>1, <1>2, <2>2, <2>3 DEF Avoided, IsDecision
  <1>3. ASSUME NEW x, Avoided(e, x)
        PROVE  [x EXCEPT !.answered = d.answered].answered = d.answered
    BY <1>3 DEF Avoided, IsDecision
  <1>4. CASE r = e /\ ~view.fresh
    BY <1>1, <1>4 DEF Avoided, IsDecision, Controller
  <1>5. CASE \E x \in ActiveDetour(e.ctl, view) \union {AvoidObstacle(e, view)} :
                r = [x EXCEPT !.answered = e.answered]
    BY <1>1, <1>2, <1>3, <1>5, ActiveDetourAvoids, AvoidObstacleAvoids
  <1> QED  BY <1>4, <1>5 DEF Arbitrate, e

\* The guard lets a decision pass or stops it; it may end a search, and then
\* nobody is called back.
LEMMA GuardKeeps ==
    ASSUME NEW d, IsDecision(d), NEW g \in Guard(d)
    PROVE  /\ IsDecision(g) /\ g.answered = d.answered
           /\ g.velocity \in {"zero", d.velocity}
           /\ \/ \E key \in Keys : g.ctl = [d.ctl EXCEPT !.key = key]
              \/ g.ctl = EndSearch(d.ctl) /\ g.velocity = "zero"
  <1>1. KeyFor(d.why) \in Keys /\ d.ctl.key \in Keys /\ "none" \in Keys
    BY DEF KeyFor, Keys, IsDecision, Controller
  <1>2. ASSUME NEW key \in Keys
        PROVE  [d.ctl EXCEPT !.key = key] \in Controller
    BY DEF IsDecision, Controller
  <1>3. CASE \E why : g = [Abort(d.ctl, why) EXCEPT !.answered = d.answered]
    <2>1. EndSearch(d.ctl) \in Controller
      BY EndSearchEnds DEF IsDecision
    <2> QED  BY <1>3, <2>1 DEF Abort, Decide, IsDecision, Velocities
  <1>4. CASE g = d
    BY <1>1, <1>4 DEF IsDecision, Controller
  <1>5. CASE \E key \in Keys : g = [d EXCEPT !.ctl.key = key]
    BY <1>2, <1>5 DEF IsDecision
  <1>6. CASE g = [d EXCEPT !.ctl.key = "none", !.velocity = "zero",
                           !.why = "turn_progress_wait"]
    BY <1>1, <1>2, <1>6 DEF IsDecision, Velocities
  <1> QED  BY <1>1, <1>3, <1>4, <1>5, <1>6 DEF Guard

\* What comes out of the pipeline of a tick.
LEMMA TickSound ==
    ASSUME ControllerInv(ctl), NEW d \in TickDecisions
    PROVE  /\ Sound(ctl, d)
           /\ d.velocity # "zero" => d.ctl.armed \/ d.ctl.detour # "idle"
  <1>1. PICK view \in Views :
           d \in UNION {UNION {Guard(a) : a \in Arbitrate(w, view)}
                           : w \in Wanted(ctl, view)}
    BY DEF TickDecisions
  <1>2. PICK w \in Wanted(ctl, view) :
           d \in UNION {Guard(a) : a \in Arbitrate(w, view)}
    BY <1>1
  <1>3. PICK a \in Arbitrate(w, view) : d \in Guard(a)
    BY <1>2
  <1>4. Sound(ctl, w) /\ (w.velocity # "zero" => w.ctl.armed)
    BY WantedSound
  <1>5. Avoided(w, a) /\ a.answered = w.answered
    BY <1>4, ArbitrateKeeps DEF Sound
  <1>6. /\ Sound(ctl, a)
        /\ a.velocity # "zero" => a.ctl.armed \/ a.ctl.detour # "idle"
    BY <1>4, <1>5 DEF Sound, Avoided, IsDecision, SameSearch, SoundAnswer, Controller
  <1>7. /\ IsDecision(d) /\ d.answered = a.answered
        /\ d.velocity \in {"zero", a.velocity}
        /\ \/ \E key \in Keys : d.ctl = [a.ctl EXCEPT !.key = key]
           \/ d.ctl = EndSearch(a.ctl) /\ d.velocity = "zero"
    BY <1>3, <1>5, GuardKeeps DEF Avoided
  <1>8. CASE \E key \in Keys : d.ctl = [a.ctl EXCEPT !.key = key]
    BY <1>6, <1>7, <1>8 DEF Sound, IsDecision, SameSearch, SoundAnswer, Controller
  <1>9. CASE d.ctl = EndSearch(a.ctl) /\ d.velocity = "zero"
    <2>1. d.ctl \in Controller /\ ~d.ctl.armed /\ SameSearch(a.ctl, d.ctl)
      BY <1>6, <1>9, EndSearchEnds DEF Sound, IsDecision
    <2> QED  BY <1>6, <1>7, <1>9, <2>1 DEF Sound, SameSearch, SoundAnswer
  <1> QED  BY <1>7, <1>8, <1>9

-----------------------------------------------------------------------------
(* The invariant *)

\* After an emergency stop there is neither a search nor an open sink: the
\* next tick could open or use one otherwise.
EmergencyReleased == ctl.emergency => ~ctl.armed /\ ~sink.active

MotionInv ==
    /\ MotionTypeOK
    /\ ControllerInv(ctl)
    /\ ReleasedMeansStopped
    /\ UnarmedMotionIsDetour
    /\ EmergencyReleased

LEMMA MotionInvInit == MotionInit => MotionInv
  BY DEF MotionInit, MotionInv, MotionTypeOK, ControllerInv, ReleasedMeansStopped,
         UnarmedMotionIsDetour, EmergencyReleased, Controller, Reports, Ages,
         Phases, Keys, Velocities

\* A step that stops, releases, and leaves no search behind.
LEMMA StoppedInv ==
    ASSUME MotionInv, sink' = StopAndRelease(sink), UNCHANGED answers,
           ControllerInv(ctl'), ctl'.emergency => ~ctl'.armed
    PROVE  MotionInv'
  BY DEF MotionInv, MotionTypeOK, ControllerInv, ReleasedMeansStopped,
         UnarmedMotionIsDetour, EmergencyReleased, StopAndRelease, Send, Release,
         Velocities

LEMMA TickInv == MotionInv /\ Tick => MotionInv'
  <1> SUFFICES ASSUME MotionInv, Tick PROVE MotionInv'
    OBVIOUS
  <1>1. PICK d \in TickDecisions :
           ctl' = d.ctl /\ sink' = TickSink(d) /\ answers' = answers \union d.answered
    BY DEF Tick
  <1>2. /\ Sound(ctl, d)
        /\ d.velocity # "zero" => d.ctl.armed \/ d.ctl.detour # "idle"
    BY TickSound DEF MotionInv
  <1>3. ControllerInv(ctl')
    BY <1>1, <1>2 DEF MotionInv, ControllerInv, Sound, IsDecision, SameSearch
  <1>4. /\ sink' \in [active : BOOLEAN, wire : Velocities]
        /\ sink'.active => sink.active /\ sink'.wire = d.velocity
        /\ ~sink'.active => sink'.wire = "zero"
    BY <1>1, <1>2 DEF TickSink, StopAndRelease, Send, Release, Sound, IsDecision,
       MotionInv, MotionTypeOK, ReleasedMeansStopped, Velocities
  <1>5. MotionTypeOK' /\ ReleasedMeansStopped'
    BY <1>1, <1>2, <1>3, <1>4 DEF MotionInv, MotionTypeOK, ReleasedMeansStopped,
       ControllerInv, Sound, IsDecision, Answers
  <1>6. UnarmedMotionIsDetour' /\ EmergencyReleased'
    BY <1>1, <1>2, <1>4 DEF MotionInv, UnarmedMotionIsDetour, EmergencyReleased,
       Sound, SameSearch
  <1> QED  BY <1>3, <1>5, <1>6 DEF MotionInv

LEMMA SynthesizeTyped ==
    ASSUME NEW c \in Controller, NEW type \in Types
    PROVE  [Synthesize(c) EXCEPT !.statusType = type] \in Controller
  BY DEF Synthesize, Controller, Reports, Ages

LEMMA StartSearchInv ==
    ASSUME MotionInv, NEW e \in Events, NEW type \in Types, StartSearch(e, type)
    PROVE  MotionInv'
  <1>1. CASE ctl.armed
    BY <1>1 DEF StartSearch, MotionInv, MotionTypeOK, ControllerInv,
       ReleasedMeansStopped, UnarmedMotionIsDetour, EmergencyReleased, Controller
  <1>2. CASE ~ctl.armed
    <2> DEFINE kept == IF StatusIsFresh(type) THEN ctl
                       ELSE [Synthesize(ctl) EXCEPT !.statusType = type]
    <2>1. /\ kept \in Controller /\ kept.statusType = type
          /\ kept.status # "none" /\ kept.emergency = ctl.emergency
      <3>1. CASE StatusIsFresh(type)
        BY <3>1 DEF MotionInv, MotionTypeOK, StatusIsFresh
      <3>2. CASE ~StatusIsFresh(type)
        BY <3>2, SynthesizeTyped DEF MotionInv, MotionTypeOK, Synthesize, Controller
      <3> QED  BY <3>1, <3>2
    <2>2. /\ ctl' = [kept EXCEPT
                        !.recent = @ \union {e}, !.hold = FALSE,
                        !.searching = @ \union {type},
                        !.armed = TRUE, !.kind = type, !.event = e,
                        !.expired = FALSE, !.seen = FALSE,
                        !.phase = "primary_turn"]
          /\ sink' = Send(Acquire(sink), "zero")
          /\ ~ctl.emergency /\ UNCHANGED answers
      BY <1>2 DEF StartSearch
    <2> HIDE DEF kept
    <2>3. /\ ControllerInv(ctl') /\ ctl'.armed
          /\ ctl'.emergency = ctl.emergency
      BY <2>1, <2>2 DEF ControllerInv, Controller, Phases, Scanning
    <2>4. sink' = [active |-> TRUE, wire |-> "zero"]
      BY <2>2 DEF Send, Acquire, MotionInv, MotionTypeOK
    <2>5. MotionTypeOK' /\ ReleasedMeansStopped'
      <3>1. ctl' \in Controller /\ answers' \subseteq (Events \X Outcomes)
        BY <2>2, <2>3 DEF ControllerInv, MotionInv, MotionTypeOK
      <3>2. sink' \in [active : BOOLEAN, wire : Velocities]
        BY <2>4 DEF Velocities
      <3> QED  BY <2>4, <3>1, <3>2 DEF MotionTypeOK, ReleasedMeansStopped
    <2>6. UnarmedMotionIsDetour' /\ EmergencyReleased'
      BY <2>2, <2>3 DEF UnarmedMotionIsDetour, EmergencyReleased
    <2> QED  BY <2>3, <2>5, <2>6 DEF MotionInv
  <1> QED  BY <1>1, <1>2

LEMMA StatusArrivesInv == MotionInv /\ StatusArrives => MotionInv'
  <1>1. ASSUME MotionInv, NEW type \in Types, NEW report \in Reports,
               NEW age \in Ages, NEW ready \in BOOLEAN,
               HandleStatus(type, report, age, ready)
        PROVE  MotionInv'
    <2>1. sink' = sink \/ sink' = Send(sink, "zero")
      BY <1>1 DEF HandleStatus
    <2>2. /\ ControllerInv(ctl') /\ ctl'.armed = ctl.armed
          /\ ctl'.emergency = ctl.emergency /\ ctl'.detour = ctl.detour
      <3>1. CASE ctl' = ctl
        BY <1>1, <3>1 DEF MotionInv
      <3>2. CASE type \in ctl.searching
        <4>1. PICK seen \in BOOLEAN :
                 ctl' = [ctl EXCEPT !.status = report, !.statusType = type,
                                    !.synthetic = FALSE, !.age = age, !.seen = seen]
          BY <1>1, <3>2 DEF HandleStatus, MotionInv, ControllerInv, Controller
        <4>2. ~ctl.armed \/ ctl.kind = type
          BY <1>1, <3>2 DEF HandleStatus
        <4> QED  BY <1>1, <4>1, <4>2 DEF MotionInv, ControllerInv, Controller
      <3> QED  BY <1>1, <3>1, <3>2 DEF HandleStatus
    <2>3. UNCHANGED answers
      BY <1>1 DEF HandleStatus
    <2> QED
      BY <1>1, <2>1, <2>2, <2>3 DEF MotionInv, MotionTypeOK, ControllerInv,
         ReleasedMeansStopped, UnarmedMotionIsDetour, EmergencyReleased, Send,
         Velocities
  <1>2. ASSUME MotionInv, NEW type \in Types, RejectStatus(type)
        PROVE  MotionInv'
    <2>1. Disarm(ctl) \in Controller /\ ~Disarm(ctl).armed
      BY <1>2 DEF Disarm, MotionInv, MotionTypeOK, Controller, Phases
    <2>2. ControllerInv(ctl') /\ ~ctl'.armed
      BY <1>2, <2>1 DEF RejectStatus, NoStatus, ControllerInv, Controller, Ages, Keys
    <2> QED  BY <1>2, <2>2, StoppedInv DEF RejectStatus
  <1> QED  BY <1>1, <1>2 DEF StatusArrives

LEMMA StopLockedStops ==
    ASSUME NEW c \in Controller
    PROVE  LET k == StopLocked(c)
           IN  ControllerInv(k) /\ ~k.armed /\ k.recent = c.recent
  <1>1. EndSearch(c) \in Controller /\ ~EndSearch(c).armed
        /\ EndSearch(c).recent = c.recent
    BY EndSearchEnds DEF SameSearch
  <1> QED  BY <1>1 DEF StopLocked, NoStatus, ControllerInv, Controller, Ages

LEMMA StopsInv == MotionInv /\ (Stop \/ EmergencyStop \/ Reset) => MotionInv'
  <1> SUFFICES ASSUME MotionInv, Stop \/ EmergencyStop \/ Reset PROVE MotionInv'
    OBVIOUS
  <1>1. ControllerInv(StopLocked(ctl)) /\ ~StopLocked(ctl).armed
    BY StopLockedStops DEF MotionInv, MotionTypeOK
  <1>2. ControllerInv(ctl') /\ ~ctl'.armed
    BY <1>1 DEF Stop, EmergencyStop, Reset, ControllerInv, Controller
  <1> QED  BY <1>2, StoppedInv DEF Stop, EmergencyStop, Reset

LEMMA JumpInv == MotionInv /\ (LongJump \/ JumpDeclined \/ Resume) => MotionInv'
  <1>1. ASSUME MotionInv, LongJump PROVE MotionInv'
    <2>1. ControllerInv(ctl') /\ ctl'.emergency = ctl.emergency /\ ctl'.armed
      BY <1>1 DEF LongJump, Pausable, MotionInv, ControllerInv, Controller
    <2> QED
      BY <1>1, <2>1, StoppedInv DEF LongJump, MotionInv, EmergencyReleased
  <1>2. ASSUME MotionInv, Resume PROVE MotionInv'
    BY <1>2 DEF Resume, Resumable, MotionInv, MotionTypeOK, ControllerInv, ReleasedMeansStopped,
       UnarmedMotionIsDetour, EmergencyReleased, Send, Acquire, Controller, Velocities
  <1>3. ASSUME MotionInv, JumpDeclined PROVE MotionInv'
    BY <1>3 DEF JumpDeclined, Pausable, MotionInv, MotionTypeOK, ControllerInv,
       ReleasedMeansStopped, UnarmedMotionIsDetour, EmergencyReleased, StopAndRelease,
       Send, Acquire, Release, Controller, Velocities
  <1> QED  BY <1>1, <1>2, <1>3

LEMMA TimeInv == MotionInv /\ (SessionTimeout \/ StatusAges) => MotionInv'
  <1> SUFFICES ASSUME MotionInv, SessionTimeout \/ StatusAges PROVE MotionInv'
    OBVIOUS
  <1>1. CASE SessionTimeout
    BY <1>1 DEF SessionTimeout, MotionInv, MotionTypeOK, ControllerInv,
       ReleasedMeansStopped, UnarmedMotionIsDetour, EmergencyReleased, Controller
  <1>2. CASE StatusAges
    <2>1. PICK age \in Ages : ctl' = [ctl EXCEPT !.age = age]
      BY <1>2 DEF StatusAges, Ages
    <2> QED
      BY <1>2, <2>1 DEF StatusAges, MotionInv, MotionTypeOK, ControllerInv,
         ReleasedMeansStopped, UnarmedMotionIsDetour, EmergencyReleased, Controller
  <1> QED  BY <1>1, <1>2

LEMMA MotionInvNext == MotionInv /\ [MotionNext]_vars => MotionInv'
  <1>1. CASE UNCHANGED vars
    BY <1>1 DEF vars, MotionInv, MotionTypeOK, ControllerInv, ReleasedMeansStopped,
       UnarmedMotionIsDetour, EmergencyReleased
  <1> QED
    BY <1>1, TickInv, StartSearchInv, StatusArrivesInv, StopsInv, JumpInv, TimeInv
       DEF MotionNext

\* The invariant of the controller, from which the rest follows.
THEOREM MotionInvariant == MotionSpec => []MotionInv
  BY MotionInvInit, MotionInvNext, PTL DEF MotionSpec

\* Every field keeps its type: in particular no phase, key or detour is lost
\* in the pipeline of a tick.
THEOREM MotionTypeCorrect == MotionSpec => []MotionTypeOK
  <1>1. MotionInv => MotionTypeOK
    BY DEF MotionInv
  <1> QED  BY <1>1, MotionInvariant, PTL

\* The gate of the sink closes on a standing robot only.
THEOREM GateClosesOnStandingRobot == MotionSpec => []ReleasedMeansStopped
  <1>1. MotionInv => ReleasedMeansStopped
    BY DEF MotionInv
  <1> QED  BY <1>1, MotionInvariant, PTL

\* Both together, as the run checks them.
THEOREM MotionIsSafe == MotionSpec => []MotionSafety
  <1> QED  BY MotionTypeCorrect, GateClosesOnStandingRobot, PTL DEF MotionSafety

\* Nothing moves the robot between an emergency stop and RESET.
THEOREM EmergencySilence == MotionSpec => []EmergencyIsSilent
  <1>1. MotionInv => EmergencyIsSilent
    BY DEF MotionInv, ReleasedMeansStopped, EmergencyReleased, EmergencyIsSilent
  <1> QED  BY <1>1, MotionInvariant, PTL

\* A robot that moves without a search is in a detour begun under one.
THEOREM UnarmedMotion == MotionSpec => []UnarmedMotionIsDetour
  <1>1. MotionInv => UnarmedMotionIsDetour
    BY DEF MotionInv
  <1> QED  BY <1>1, MotionInvariant, PTL

-----------------------------------------------------------------------------
(* Answers *)

\* A step other than a tick calls nobody back.
LEMMA OthersSilent == [MotionNext]_vars => Tick \/ UNCHANGED answers
  BY DEF MotionNext, vars, StartSearch, StatusArrives, HandleStatus, RejectStatus,
     Stop, EmergencyStop, Reset, LongJump, JumpDeclined, Resume, SessionTimeout, StatusAges

LEMMA FoundIsSeenStep ==
    ASSUME MotionInv, [MotionNext]_vars, NEW e \in Events,
           <<e, "TARGET_REACHED">> \in answers' \ answers
    PROVE  /\ ctl.armed /\ ctl.event = e
           /\ ctl.statusType = ctl.kind
           /\ ctl.status = "near" /\ ctl.age = "fresh"
  <1>1. Tick
    BY OthersSilent
  <1>2. PICK d \in TickDecisions : answers' = answers \union d.answered
    BY <1>1 DEF Tick
  <1>3. SoundAnswer(ctl, d)
    BY TickSound DEF MotionInv, Sound
  <1>4. PICK outcome \in Outcomes :
           /\ ctl.armed /\ d.answered = {<<ctl.event, outcome>>}
           /\ outcome = "TARGET_REACHED" => ctl.status = "near" /\ ctl.age = "fresh"
    BY <1>2, <1>3 DEF SoundAnswer
  <1>5. <<e, "TARGET_REACHED">> = <<ctl.event, outcome>>
    BY <1>2, <1>4
  <1>6. ctl.event = e /\ ctl.status = "near" /\ ctl.age = "fresh"
    BY <1>4, <1>5
  <1> QED  BY <1>4, <1>6 DEF MotionInv, ControllerInv

\* TARGET_REACHED is never reported on somebody else's status, on a stale
\* one, or for an event whose search is over.
THEOREM FoundMeansSeen == MotionSpec => FoundIsSeen
  <1>1. MotionInv /\ [MotionNext]_vars =>
           [\A e \in Events :
               <<e, "TARGET_REACHED">> \in answers' \ answers =>
                  /\ ctl.armed /\ ctl.event = e
                  /\ ctl.statusType = ctl.kind
                  /\ ctl.status = "near" /\ ctl.age = "fresh"]_vars
    BY FoundIsSeenStep
  <1> QED  BY <1>1, MotionInvariant, PTL DEF MotionSpec, FoundIsSeen

-----------------------------------------------------------------------------
(* The controller is a search session. *)

LEMMA TickIsSession ==
    ASSUME MotionInv, Tick
    PROVE  [Session!SessionNext]_(Session!svars)
  <1>1. PICK d \in TickDecisions :
           ctl' = d.ctl /\ answers' = answers \union d.answered
    BY DEF Tick
  <1>2. SameSearch(ctl, d.ctl) /\ SoundAnswer(ctl, d)
    BY TickSound DEF MotionInv, Sound
  <1>3. ctl'.recent = ctl.recent
    BY <1>1, <1>2 DEF SameSearch
  <1>4. CASE d.answered # {}
    <2>1. PICK outcome \in Outcomes : d.answered = {<<ctl.event, outcome>>}
      BY <1>2, <1>4 DEF SoundAnswer
    <2>2. ctl.armed /\ ~ctl'.armed /\ ctl.event # NoEvent
      BY <1>1, <1>2, <1>4, NoEventNew DEF SoundAnswer, MotionInv, ControllerInv
    <2>3. Session!Answer(outcome)
      BY <1>1, <1>3, <2>1, <2>2 DEF Session!Answer
    <2> QED  BY <2>3 DEF Session!SessionNext
  <1>5. CASE d.answered = {} /\ ctl.armed /\ ~ctl'.armed
    <2>1. ctl.event # NoEvent
      BY <1>5, NoEventNew DEF MotionInv, ControllerInv
    <2>2. Session!Drop
      BY <1>1, <1>3, <1>5, <2>1 DEF Session!Drop
    <2> QED  BY <2>2 DEF Session!SessionNext
  <1>6. CASE d.answered = {} /\ ~(ctl.armed /\ ~ctl'.armed)
    BY <1>1, <1>2, <1>3, <1>6 DEF Session!svars, SameSearch
  <1> QED  BY <1>4, <1>5, <1>6

LEMMA StartSearchIsSession ==
    ASSUME MotionInv, NEW e \in Events, NEW type \in Types, StartSearch(e, type)
    PROVE  Session!Begin(e) \/ Session!Coalesce(e)
  <1>1. CASE ctl.armed
    <2>1. ctl.event # NoEvent
      BY <1>1, NoEventNew DEF MotionInv, ControllerInv
    <2>2. /\ ctl'.armed /\ ctl'.event = ctl.event
          /\ ctl'.recent = ctl.recent \union {e}
      BY <1>1 DEF StartSearch, MotionInv, MotionTypeOK, Controller
    <2> QED  BY <1>1, <2>1, <2>2 DEF StartSearch, Session!Coalesce
  <1>2. CASE ~ctl.armed
    <2> DEFINE kept == IF StatusIsFresh(type) THEN ctl
                       ELSE [Synthesize(ctl) EXCEPT !.statusType = type]
    <2>1. kept \in Controller /\ kept.recent = ctl.recent
      <3>1. ctl \in Controller
        BY DEF MotionInv, MotionTypeOK
      <3>2. [Synthesize(ctl) EXCEPT !.statusType = type].recent = ctl.recent
        BY <3>1 DEF Synthesize, Controller
      <3> QED  BY <3>1, <3>2, SynthesizeTyped
    <2>2. ctl' = [kept EXCEPT
                     !.recent = @ \union {e}, !.hold = FALSE,
                     !.searching = @ \union {type},
                     !.armed = TRUE, !.kind = type, !.event = e,
                     !.expired = FALSE, !.seen = FALSE,
                     !.phase = "primary_turn"]
      BY <1>2 DEF StartSearch
    <2> HIDE DEF kept
    <2>3. /\ ctl'.armed /\ ctl'.event = e
          /\ ctl'.recent = ctl.recent \union {e}
      BY <2>1, <2>2 DEF Controller
    <2> QED  BY <1>2, <2>3 DEF StartSearch, Session!Begin
  <1> QED  BY <1>1, <1>2

\* A step that leaves the search alone, or ends it without an answer.
LEMMA QuietIsSession ==
    ASSUME MotionInv, UNCHANGED answers, ctl'.recent = ctl.recent,
           ctl'.armed => ctl.armed /\ ctl'.event = ctl.event
    PROVE  [Session!SessionNext]_(Session!svars)
  <1>1. CASE ctl.armed /\ ~ctl'.armed
    <2>1. ctl.event # NoEvent
      BY <1>1, NoEventNew DEF MotionInv, ControllerInv
    <2>2. Session!Drop
      BY <1>1, <2>1 DEF Session!Drop
    <2> QED  BY <2>2 DEF Session!SessionNext
  <1>2. CASE ~(ctl.armed /\ ~ctl'.armed)
    BY <1>2 DEF Session!svars
  <1> QED  BY <1>1, <1>2

LEMMA OtherIsSession ==
    ASSUME MotionInv,
           StatusArrives \/ Stop \/ EmergencyStop \/ Reset \/ LongJump
              \/ JumpDeclined \/ Resume \/ SessionTimeout \/ StatusAges
    PROVE  [Session!SessionNext]_(Session!svars)
  <1>1. ctl \in Controller
    BY DEF MotionInv, MotionTypeOK
  <1>2. CASE StatusArrives
    <2>1. CASE \E type \in Types : RejectStatus(type)
      BY <1>1, <2>1, QuietIsSession
         DEF RejectStatus, NoStatus, Disarm, Controller
    <2>2. CASE \E type \in Types, report \in Reports, age \in Ages, ready \in BOOLEAN :
                  HandleStatus(type, report, age, ready)
      <3>1. /\ UNCHANGED answers /\ ctl'.recent = ctl.recent
            /\ ctl'.armed = ctl.armed /\ ctl'.event = ctl.event
        BY <1>1, <2>2 DEF HandleStatus, Controller
      <3> QED  BY <3>1, QuietIsSession
    <2> QED  BY <1>2, <2>1, <2>2 DEF StatusArrives
  <1>3. CASE Stop \/ EmergencyStop \/ Reset
    <2>1. /\ StopLocked(ctl) \in Controller /\ ~StopLocked(ctl).armed
          /\ StopLocked(ctl).recent = ctl.recent
      BY <1>1, StopLockedStops DEF ControllerInv
    <2> QED
      BY <1>3, <2>1, QuietIsSession DEF Stop, EmergencyStop, Reset, Controller
  <1>4. CASE LongJump \/ JumpDeclined \/ Resume \/ SessionTimeout \/ StatusAges
    BY <1>1, <1>4, QuietIsSession
       DEF LongJump, JumpDeclined, Pausable, Resume, Resumable, SessionTimeout,
           StatusAges, Controller
  <1> QED  BY <1>2, <1>3, <1>4

\* What the mission layer sees of the controller is a search session: each
\* event is taken once, and its search is answered once or dropped.
THEOREM MotionImplementsSession == MotionSpec => ImplementsSession
  <1>1. MotionInit => Session!SessionInit
    BY DEF MotionInit, Session!SessionInit
  <1>2. MotionInv /\ [MotionNext]_vars => [Session!SessionNext]_(Session!svars)
    <2> SUFFICES ASSUME MotionInv, [MotionNext]_vars
                 PROVE  [Session!SessionNext]_(Session!svars)
      OBVIOUS
    <2>1. CASE UNCHANGED vars
      BY <2>1 DEF vars, Session!svars
    <2>2. CASE \E e \in Events, type \in Types : StartSearch(e, type)
      BY <2>2, StartSearchIsSession DEF Session!SessionNext
    <2> QED  BY <2>1, <2>2, TickIsSession, OtherIsSession DEF MotionNext
  <1> QED
    BY <1>1, <1>2, MotionInvariant, PTL
       DEF MotionSpec, ImplementsSession, Session!SessionSpec

=============================================================================
