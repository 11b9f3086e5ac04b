------------------------------ MODULE NavLease ------------------------------
(***************************************************************************)
(* The lease protocol that keeps a Nav2 goal of the patrol under watch:    *)
(* Nav2PatrolBackend.wait_until_ready and send_route (lite3_mqtt/patrol.py)*)
(* on one host, the watchdog (NavWatchdog) on another, and the Nav2 action *)
(* server, which is external and modelled by how the two use it.           *)
(*                                                                         *)
(* One client process drives one navigation action.  Each readiness makes  *)
(* its own publisher of reset requests and each route its own publisher of *)
(* heartbeats, and destroys it at its end.  The link keeps the messages of *)
(* one token in order and orders nothing else: what a publisher sent may   *)
(* be taken after it is gone, and after messages that were sent later.     *)
(* Any message may be lost, and a full history drops its oldest            *)
(* (KEEP_LAST).  A publisher whose readiness takes a second token counts   *)
(* as two, which only adds behaviours.  The Coyote output node, when it    *)
(* drives through ROS, is one more publisher of reset requests (Handoff).  *)
(*                                                                         *)
(* Acknowledgements may arrive at any later moment, or never: the client   *)
(* reads the watchdog's sets of published acks.                            *)
(***************************************************************************)
EXTENDS NavWatchdog, Sequences

CONSTANTS
  NavService,   \* the cancel service of the action the route uses
  MaxToken,     \* bound: tokens the client may use
  LinkDepth,    \* bound: messages of one token in transit to the watchdog
  RouteLength,  \* waypoints of the route
  CoyoteTokens  \* the tokens of the Coyote output node; none unless its bridge
                \* runs with --motion-output ros

ASSUME LeaseAssumption ==
  /\ NavService \in Services
  /\ MaxToken \in Nat
  /\ CoyoteTokens \subseteq Nat /\ \A t \in CoyoteTokens : MaxToken < t
  /\ Tokens = 1 .. MaxToken \cup CoyoteTokens
  /\ LinkDepth \in Nat \ {0}
  /\ RouteLength \in Nat \ {0}

VARIABLES
  pc,              \* where the client process is
  token,           \* watchdog_reset["token"] or watchdog_arm["token"]
  nextToken,       \* the next value of the client's _new_nav_token, strictly
                   \* increasing
  cancel,          \* self._cancel, while a route can read it
  uncertain,       \* self._goal_state_uncertain
  goalMayBeActive, \* send_route's goal_may_be_active
  stopping,        \* acceptance_cancel_reason or cancel_reason is not None
  waypoint,        \* waypoint_index, from 1
  retries,         \* arrival_retry_count
  probe,           \* readiness: the cancel-all call of the action
  rounds,          \* clean_cancel_rounds
  probeError,      \* cancel_error is not None
  goal,            \* the action server's goal
  reply,           \* goal response on its way to the client
  result,          \* terminal result on its way to the client
  cancelSent,      \* the client's own cancel_goal_async is on its way
  link,            \* per client token, its messages on their way to the watchdog
  stray            \* history: what other publishers than the client's present
                   \* one made the watchdog do, since the last handshake began:
                   \* "arm", or "disarm" that no later heartbeat made good

routeVars == <<goalMayBeActive, stopping, waypoint, retries>>
probeVars == <<probe, rounds, probeError>>
serverVars == <<goal, reply, result, cancelSent>>
linkVars == <<link, stray>>
leaseVars == <<pc, token, nextToken, cancel, uncertain, routeVars, probeVars,
                 serverVars, linkVars>>
vars == <<watchdogVars, leaseVars>>

\* What the publisher that uses a token sends: the token on the heartbeat
\* topic, 0 on the heartbeat topic, the token on the reset topic.
Messages == {"heartbeat", "disarm", "reset"}

Transmit(t, m) ==
  link' = [link EXCEPT ![t] = Append(IF Len(@) = LinkDepth THEN Tail(@) ELSE @, m)]

LeaseInit ==
  /\ WatchdogInit
  /\ pc = "idle"
  /\ token = NoToken
  /\ nextToken = 1
  /\ cancel = FALSE /\ uncertain = FALSE
  /\ goalMayBeActive = FALSE /\ stopping = FALSE
  /\ waypoint = 1 /\ retries = 0
  /\ probe = "none" /\ rounds = 0 /\ probeError = FALSE
  /\ goal = "none" /\ reply = "none" /\ result = "none" /\ cancelSent = FALSE
  /\ link = [t \in 1 .. MaxToken |-> <<>>]
  /\ stray = {}

-----------------------------------------------------------------------------
(* wait_until_ready: two clean cancel-all rounds, then the reset handshake *)
(* with the watchdog.                                                      *)

\* The action's status stream shows a goal that is not terminal.
StatusNonterminal == goal \in {"executing", "canceling"}

\* What the safety subscriptions and the ROS graph say at a step that looks: all
\* well, a reason of the graph (nodes, topics, the publishers of /cmd_vel, the
\* parameters of the controller), or one of the samples.
Readings == {"ok", "graph", "unsafe"}

\* NavSafetyState.blocking_reasons: odometry, localization, a costmap or the
\* commanded velocity is missing, stale or out of its limits.
Unsafe(reading) == reading = "unsafe"

\* A reason of the ROS graph (nodes, topics, the publishers of /cmd_vel, the
\* parameters of the controller) or of the samples.
Unready(reading) == reading = "graph" \/ Unsafe(reading)

\* Wrong variant: one clean round of cancel-all is enough.
BlockedOnce(reading) ==
  rounds < 1 \/ StatusNonterminal \/ probeError \/ Unready(reading)

\* last_reasons is not empty.
Blocked(reading) ==
  rounds < 2 \/ StatusNonterminal \/ probeError \/ Unready(reading)

\* A new call: its locals are fresh, and gone when it returns.
StartReadiness ==
  /\ pc = "idle"
  /\ pc' = "readying"
  /\ UNCHANGED <<watchdogVars, token, nextToken, cancel, uncertain, routeVars,
                 probeVars, serverVars, linkVars>>

\* cancel_probe_needed: the next cancel-all call of the action.
SendProbe ==
  /\ pc = "readying"
  /\ probe = "none" /\ ~probeError /\ rounds < 2
  /\ probe' = "sent"
  /\ UNCHANGED <<watchdogVars, pc, token, nextToken, cancel, uncertain, routeVars,
                 rounds, probeError, serverVars, linkVars>>

\* mark_cancel_response, mark_cancel_error.
TakeProbe ==
  /\ pc = "readying"
  /\ probe \in {"clean", "canceling", "refused"}
  /\ probe' = "none"
  /\ probeError' = (probeError \/ probe = "refused")
  /\ rounds' = IF probe = "refused" THEN rounds
               ELSE IF probe = "clean" /\ ~StatusNonterminal THEN rounds + 1 ELSE 0
  /\ UNCHANGED <<watchdogVars, pc, token, nextToken, cancel, uncertain, routeVars,
                 serverVars, linkVars>>

\* NavGoalStatusState.update with a goal that is not terminal.
TakeStatus ==
  /\ pc = "readying"
  /\ StatusNonterminal
  /\ rounds' = 0
  /\ UNCHANGED <<watchdogVars, pc, token, nextToken, cancel, uncertain, routeVars,
                 probe, probeError, serverVars, linkVars>>

RequestReset(reading) ==
  /\ pc = "readying"
  /\ ~Blocked(reading)
  /\ \/ /\ token = NoToken
        /\ nextToken <= MaxToken
        /\ token' = nextToken
        /\ nextToken' = nextToken + 1
        /\ stray' = {}
     \/ /\ token # NoToken
        /\ UNCHANGED <<token, nextToken, stray>>
  /\ Transmit(token', "reset")
  /\ UNCHANGED <<watchdogVars, pc, cancel, uncertain, routeVars, probeVars,
                 serverVars>>

\* Readiness became unsafe again: "an old acknowledgment must not authorize a
\* later state".
DropReset(reading) ==
  /\ pc = "readying"
  /\ Blocked(reading)
  /\ token # NoToken
  /\ token' = NoToken
  /\ UNCHANGED <<watchdogVars, pc, nextToken, cancel, uncertain, routeVars,
                 probeVars, serverVars, linkVars>>

ResetAckedAny == resetAcks # {}   \* wrong variant: the token is not compared
ResetAcked == token \in resetAcks

FinishReadiness(reading) ==
  /\ pc = "readying"
  /\ ~Blocked(reading) /\ ResetAcked
  /\ pc' = "ready"
  /\ token' = NoToken
  /\ probe' = "none" /\ rounds' = 0 /\ probeError' = FALSE
  /\ UNCHANGED <<watchdogVars, nextToken, cancel, uncertain, routeVars,
                 serverVars, linkVars>>

\* The readiness deadline.
ReadinessTimeout ==
  /\ pc = "readying"
  /\ pc' = "idle"
  /\ token' = NoToken
  /\ probe' = "none" /\ rounds' = 0 /\ probeError' = FALSE
  /\ UNCHANGED <<watchdogVars, nextToken, cancel, uncertain, routeVars,
                 serverVars, linkVars>>

-----------------------------------------------------------------------------
(* prepare_route and send_route.                                           *)

\* The finally block of send_route: a goal that may still be active leaves the
\* heartbeat to expire and latches uncertainty; otherwise the lease is given up.
LeaveRoute(mayBeActive) ==
  /\ pc' = "idle"
  /\ token' = NoToken
  /\ cancel' = FALSE
  /\ goalMayBeActive' = FALSE /\ stopping' = FALSE
  /\ waypoint' = 1 /\ retries' = 0
  /\ reply' = "none" /\ result' = "none" /\ cancelSent' = FALSE
  /\ uncertain' = (uncertain \/ mayBeActive)
  /\ IF mayBeActive THEN UNCHANGED link ELSE Transmit(token, "disarm")
  /\ UNCHANGED <<watchdogVars, nextToken, probeVars, goal, stray>>

\* prepare_route refuses an uncertain backend; otherwise it clears the cancel
\* request and send_route creates its arm token.
StartRoute ==
  /\ pc = "ready"
  /\ ~uncertain
  /\ nextToken <= MaxToken
  /\ pc' = "arming"
  /\ token' = nextToken
  /\ nextToken' = nextToken + 1
  /\ cancel' = FALSE
  /\ UNCHANGED <<watchdogVars, uncertain, routeVars, probeVars, serverVars,
                 linkVars>>

\* Readiness without a route (prepare_motion), a STOP in between, or the
\* exception of prepare_route.
SkipRoute ==
  /\ pc = "ready"
  /\ pc' = "idle"
  /\ UNCHANGED <<watchdogVars, token, nextToken, cancel, uncertain, routeVars,
                 probeVars, serverVars, linkVars>>

SendHeartbeat(reading) ==
  /\ \/ pc = "arming" /\ ~Unsafe(reading)
     \/ pc \in {"accepting", "running"} /\ ~stopping /\ ~Unsafe(reading)
     \/ pc = "settling"
  /\ ~cancel
  /\ Transmit(token, "heartbeat")
  /\ UNCHANGED <<watchdogVars, pc, token, nextToken, cancel, uncertain, routeVars,
                 probeVars, serverVars, stray>>

ArmAcked == token \in armAcks

Armed ==
  /\ pc = "arming"
  /\ ArmAcked
  /\ pc' = "waypoint"
  /\ UNCHANGED <<watchdogVars, token, nextToken, cancel, uncertain, routeVars,
                 probeVars, serverVars, linkVars>>

\* Cancelled, unsafe, or a deadline passed before a goal was sent.
GiveUpBeforeGoal ==
  /\ pc \in {"arming", "waypoint"}
  /\ LeaveRoute(FALSE)

\* _wait_for_safe_samples returned, and no STOP came meanwhile.
GoalAllowed(reading) == ~Unsafe(reading) /\ ~cancel

SendGoal(reading) ==
  /\ pc = "waypoint"
  /\ GoalAllowed(reading)
  /\ pc' = "accepting"
  /\ goal' = "requested"
  /\ goalMayBeActive' = TRUE
  /\ stopping' = FALSE
  /\ reply' = "none" /\ result' = "none" /\ cancelSent' = FALSE
  /\ UNCHANGED <<watchdogVars, token, nextToken, cancel, uncertain, waypoint,
                 retries, probeVars, linkVars>>

\* A reason to stop is found: STOP, the route deadline, an unsafe sample or
\* graph, or a stall.  An accepted goal is cancelled.
DecideToStop ==
  /\ pc \in {"accepting", "running"}
  /\ ~stopping
  /\ stopping' = TRUE
  /\ cancelSent' = (pc = "running")
  /\ UNCHANGED <<watchdogVars, pc, token, nextToken, cancel, uncertain,
                 goalMayBeActive, waypoint, retries, probeVars, goal, reply,
                 result, linkVars>>

TakeAccepted ==
  /\ pc = "accepting" /\ reply = "accepted"
  /\ pc' = "running"
  /\ cancelSent' = stopping
  /\ UNCHANGED <<watchdogVars, token, nextToken, cancel, uncertain, routeVars,
                 probeVars, goal, reply, result, linkVars>>

\* The goal was rejected; without a goal handle it may still be active.
TakeRejected ==
  /\ pc = "accepting" /\ reply \in {"rejected", "lost"}
  /\ LeaveRoute(reply = "lost")

\* ACCEPTANCE_TIMEOUT or CANCEL_TIMEOUT.
GoalTimeout ==
  /\ \/ pc = "accepting" /\ reply = "none"
     \/ pc = "running" /\ stopping /\ result = "none"
  /\ LeaveRoute(goalMayBeActive)

\* A terminal result that ends the route.
TakeFailure ==
  /\ pc = "running"
  /\ result # "none"
  /\ result # "succeeded" \/ stopping
  /\ LeaveRoute(result = "lost")

TakeSuccess ==
  /\ pc = "running"
  /\ result = "succeeded" /\ ~stopping
  /\ pc' = "settling"
  /\ goalMayBeActive' = FALSE
  /\ UNCHANGED <<watchdogVars, token, nextToken, cancel, uncertain, stopping,
                 waypoint, retries, probeVars, serverVars, linkVars>>

RetryLeft == retries < 1

\* The arrival pose is wrong: the same waypoint once more, or ARRIVAL_MISMATCH.
ArrivalMismatch ==
  /\ pc = "settling"
  /\ \/ /\ RetryLeft
        /\ pc' = "waypoint"
        /\ retries' = retries + 1
        /\ UNCHANGED <<watchdogVars, token, nextToken, cancel, uncertain,
                       goalMayBeActive, stopping, waypoint, probeVars,
                      serverVars, linkVars>>
     \/ LeaveRoute(FALSE)

\* The arrival is confirmed and the dwell is over.
NextWaypoint ==
  /\ pc = "settling"
  /\ \/ /\ waypoint < RouteLength
        /\ pc' = "waypoint"
        /\ waypoint' = waypoint + 1
        /\ retries' = 0
        /\ UNCHANGED <<watchdogVars, token, nextToken, cancel, uncertain,
                       goalMayBeActive, stopping, probeVars, serverVars, linkVars>>
     \/ /\ waypoint = RouteLength
        /\ LeaveRoute(FALSE)

-----------------------------------------------------------------------------
(* The rest of the client process and its surroundings.                    *)

\* cancel_active, from a STOP in any thread.  Outside a route nothing reads the
\* request before prepare_route clears it.
CancelActive ==
  /\ pc \in {"arming", "waypoint", "accepting", "running", "settling"}
  /\ cancel' = TRUE
  /\ UNCHANGED <<watchdogVars, pc, token, nextToken, uncertain, routeVars, probeVars,
                 serverVars, linkVars>>

\* The process dies, in any state, without running its finally blocks.  Down is
\* no state of its own: a new process is "idle" until its first call.
Crash ==
  /\ pc' = "idle"
  /\ token' = NoToken
  /\ cancel' = FALSE /\ uncertain' = FALSE
  /\ goalMayBeActive' = FALSE /\ stopping' = FALSE
  /\ waypoint' = 1 /\ retries' = 0
  /\ probe' = "none" /\ rounds' = 0 /\ probeError' = FALSE
  /\ reply' = "none" /\ result' = "none" /\ cancelSent' = FALSE
  /\ UNCHANGED <<watchdogVars, nextToken, goal, linkVars>>

\* The watchdog takes the oldest message of a token; Lose drops it instead.
TakeMessage(t, m) ==
  \/ m = "heartbeat" /\ OnHeartbeat(t)
  \/ m = "disarm" /\ OnHeartbeat(Disarm)
  \/ m = "reset" /\ OnResetRequest(t)

Astray(t, m) ==
  IF t # token THEN stray \cup {IF m = "heartbeat" THEN "arm" ELSE "disarm"}
  ELSE IF m = "heartbeat" /\ ~stale /\ ~resetPending THEN stray \ {"disarm"}
  ELSE stray

Deliver(t) ==
  /\ link[t] # <<>>
  /\ TakeMessage(t, Head(link[t]))
  /\ link' = [link EXCEPT ![t] = Tail(@)]
  /\ stray' = Astray(t, Head(link[t]))
  /\ UNCHANGED <<pc, token, nextToken, cancel, uncertain, routeVars, probeVars,
                 serverVars>>

\* The Coyote output node publishes the reset request of its handoff t whatever
\* Nav2 is doing, at any moment and as often as its timer fires, and the request
\* may be on its way for any time: it is taken at any moment.
Handoff(t) ==
  /\ OnResetRequest(t)
  /\ stray' = stray \cup {"disarm"}
  /\ UNCHANGED <<pc, token, nextToken, cancel, uncertain, routeVars, probeVars,
                 serverVars, link>>

Lose(t) ==
  /\ link[t] # <<>>
  /\ link' = [link EXCEPT ![t] = Tail(@)]
  /\ UNCHANGED <<watchdogVars, pc, token, nextToken, cancel, uncertain, routeVars,
                 probeVars, serverVars, stray>>

-----------------------------------------------------------------------------
(* The Nav2 action server (external).                                      *)

\* Whatever the client no longer waits for is dropped with its ROS node.
Listening(state) == pc = state

ServerAnswers ==
  /\ goal = "requested"
  /\ \/ goal' = "executing" /\ reply' \in (IF Listening("accepting")
                                           THEN {"accepted", "lost"} ELSE {"none"})
     \/ goal' = "none" /\ reply' = IF Listening("accepting") THEN "rejected" ELSE "none"
  /\ UNCHANGED <<watchdogVars, pc, token, nextToken, cancel, uncertain, routeVars,
                 probeVars, result, cancelSent, linkVars>>

ServerFinishes ==
  /\ goal \in {"executing", "canceling"}
  /\ goal' = "none"
  /\ result' \in (IF Listening("accepting") \/ Listening("running")
                  THEN {"succeeded", "stopped", "lost"} ELSE {"none"})
  /\ UNCHANGED <<watchdogVars, pc, token, nextToken, cancel, uncertain, routeVars,
                 probeVars, reply, cancelSent, linkVars>>

\* The server handles the client's cancel request.
ServerCancels ==
  /\ cancelSent
  /\ goal = "executing"
  /\ goal' = "canceling"
  /\ UNCHANGED <<watchdogVars, pc, token, nextToken, cancel, uncertain, routeVars,
                 probeVars, reply, result, cancelSent, linkVars>>

\* The server handles a readiness probe.  A request still waiting in the server
\* is handled before a second round is answered: that is what the second round,
\* sent nav_idle_quiet_sec after the first, is for.
ServerProbed ==
  /\ probe = "sent"
  /\ rounds = 1 => goal # "requested"
  /\ \/ /\ probe' = IF goal = "executing" THEN "canceling" ELSE "clean"
        /\ goal' = IF goal = "executing" THEN "canceling" ELSE goal
     \/ /\ probe' = "refused"
        /\ UNCHANGED goal
  /\ UNCHANGED <<watchdogVars, pc, token, nextToken, cancel, uncertain, routeVars,
                 rounds, probeError, reply, result, cancelSent, linkVars>>

\* The server handles a cancel-all call of the watchdog.
ServerAccepts(s) ==
  /\ Answer(s, "accepted")
  /\ goal' = IF s = NavService /\ goal = "executing" THEN "canceling" ELSE goal
  /\ UNCHANGED <<pc, token, nextToken, cancel, uncertain, routeVars, probeVars,
                  reply, result, cancelSent, linkVars>>

ServerRefuses(s) ==
  /\ Answer(s, "refused")
  /\ UNCHANGED leaseVars

-----------------------------------------------------------------------------
Client ==
  \/ \E reading \in Readings :
       \/ RequestReset(reading) \/ DropReset(reading) \/ FinishReadiness(reading)
       \/ SendHeartbeat(reading) \/ SendGoal(reading)
  \/ StartReadiness \/ SendProbe \/ TakeProbe \/ TakeStatus \/ ReadinessTimeout
  \/ StartRoute \/ SkipRoute \/ Armed \/ GiveUpBeforeGoal \/ DecideToStop
  \/ TakeAccepted \/ TakeRejected \/ GoalTimeout \/ TakeFailure \/ TakeSuccess
  \/ ArrivalMismatch \/ NextWaypoint \/ CancelActive \/ Crash

Server ==
  \/ ServerAnswers \/ ServerFinishes \/ ServerCancels \/ ServerProbed
  \/ \E s \in Services : ServerAccepts(s) \/ ServerRefuses(s)

\* The watchdog's own steps: its timer, the passing of time, discovery.
Watchdog == /\ \/ Check \/ Tick
               \/ \E s \in Services : Rediscover(s)
            /\ UNCHANGED leaseVars

Link ==
  \/ \E t \in 1 .. MaxToken : Deliver(t) \/ Lose(t)
  \/ \E t \in CoyoteTokens : Handoff(t)

LeaseNext == Client \/ Server \/ Watchdog \/ Link

\* The watchdog's timer fires and time passes; the action server works through
\* its queues, accepts a cancel request that keeps being repeated and finishes a
\* canceled goal; discovery settles with the cancel service reachable.  Nothing
\* is asked of the link.
Fairness ==
  /\ WF_vars(Check /\ UNCHANGED leaseVars)
  /\ WF_vars(Tick /\ UNCHANGED leaseVars)
  /\ WF_vars(ServerAnswers)
  /\ WF_vars(goal = "canceling" /\ ServerFinishes)
  /\ SF_vars(ServerAccepts(NavService))
  /\ <>[](NavService \in ready)

LeaseSpec == LeaseInit /\ [][LeaseNext]_vars
FairLeaseSpec == LeaseSpec /\ Fairness

-----------------------------------------------------------------------------
LeaseTypeOK ==
  /\ WatchdogTypeOK
  /\ pc \in {"idle", "readying", "ready", "arming", "waypoint", "accepting",
             "running", "settling"}
  /\ token \in 1 .. MaxToken \cup {NoToken}
  /\ nextToken \in 1 .. MaxToken + 1
  /\ cancel \in BOOLEAN /\ uncertain \in BOOLEAN
  /\ goalMayBeActive \in BOOLEAN /\ stopping \in BOOLEAN
  /\ waypoint \in 1 .. RouteLength /\ retries \in 0 .. 1
  /\ probe \in {"none", "sent", "clean", "canceling", "refused"}
  /\ rounds \in 0 .. 2 /\ probeError \in BOOLEAN
  /\ goal \in {"none", "requested", "executing", "canceling"}
  /\ reply \in {"none", "accepted", "rejected", "lost"}
  /\ result \in {"none", "succeeded", "stopped", "lost"}
  /\ cancelSent \in BOOLEAN
  /\ link \in [1 .. MaxToken -> Seq(Messages)]
  /\ \A t \in 1 .. MaxToken : Len(link[t]) <= LinkDepth
  /\ stray \in SUBSET {"arm", "disarm"}

\* From the moment a goal request leaves the client until the goal is terminal,
\* the watchdog holds the lease, or is cancelling since it expired: through
\* timeouts, an uncertain end of the route, crashes and restarts.  Only a
\* disarm or a reset request of another publisher than the one in use - the
\* closed publisher of an earlier handshake or route, or the Coyote node - can
\* take the watch off, until the next heartbeat of the route arms it again.
GoalAlwaysWatched == goal # "none" => armed \/ "disarm" \in stray

\* The publisher of a token puts a message on the link.
Publishes(t, m) ==
  /\ link'[t] # link[t] /\ Len(link'[t]) >= Len(link[t])
  /\ link'[t][Len(link'[t])] = m

\* The patrol client never publishes a reset request or a disarm while a goal
\* may reach the robot, its own or one that a predecessor left behind
\* (test_restart_readiness_never_resets_watchdog_while_goal_is_active, for
\* every interleaving).  The Coyote node, whose requests are not on this link,
\* does not look.
DisarmsOnlyWhenIdle ==
  [][\A t \in 1 .. MaxToken : Publishes(t, "disarm") \/ Publishes(t, "reset")
                             => goal = "none"]_vars

\* When readiness is granted no goal is left, and the watchdog has really been
\* reset since the handshake began: nothing of an earlier lease or stale
\* episode could cancel the goal about to be sent, unless a heartbeat of a
\* publisher long gone came in late and armed it again.
ReadyMeansReset ==
  pc = "ready" =>
    /\ goal = "none"
    /\ "arm" \notin stray => /\ ~armed /\ ~stale
                             /\ \A s \in Services : rpc[s] = "none"

\* The types, and the handshake that an armed lease rests on.
LeaseInv == LeaseTypeOK /\ ReadyMeansReset

Orphaned == goal # "none" /\ pc \notin {"accepting", "running"}

\* A goal that no client looks after any more is eventually stopped ("Stop
\* refreshing the heartbeat so the perception-host watchdog cancels the goal
\* independently"), unless a message of another publisher disarms the watchdog.
OrphanStopped == Orphaned ~> goal = "none" \/ "disarm" \in stray
=============================================================================
