----------------------------- MODULE NavWatchdog -----------------------------
(***************************************************************************)
(* The perception-host navigation watchdog, scripts/run_nav_watchdog.py.   *)
(*                                                                         *)
(* One ROS node, one single-threaded executor: every callback is atomic.   *)
(* A client keeps the watchdog armed by publishing a nonzero heartbeat     *)
(* token; when heartbeats stop for longer than HeartbeatTimeout the        *)
(* watchdog latches "stale", publishes zero velocity and calls cancel-all  *)
(* on every navigation action.  A reset handshake is the only way out.     *)
(*                                                                         *)
(* Time is counted in ticks of an unspecified length.  Ages are bounded    *)
(* just above the constant they are compared with, which loses nothing:    *)
(* the code only asks whether the constant has been reached.               *)
(***************************************************************************)
EXTENDS Integers

CONSTANTS
  Services,          \* the cancel-all services, CANCEL_SERVICES
  Tokens,            \* the nonzero UInt64 tokens clients use
  NoToken,           \* reset_token is None
  HeartbeatTimeout,  \* timeout_sec
  QuietTicks,        \* reset_quiet_sec
  CancelPeriod       \* the 1.0 s between two rounds of cancel requests

ASSUME WatchdogAssumption ==
  /\ Tokens \subseteq Nat \ {0}
  /\ NoToken \notin Nat
  /\ HeartbeatTimeout \in Nat \ {0}
  /\ QuietTicks \in Nat \ {0}
  /\ CancelPeriod \in Nat \ {0}

VARIABLES
  heartbeatAge,  \* ticks since last_heartbeat, or None
  armed,         \* self.armed
  stale,         \* self.stale, the fail-safe latch
  resetPending,  \* self.reset_pending
  resetToken,    \* self.reset_token
  quietAge,      \* ticks since reset_quiet_since, or None
  drainError,    \* self.cancel_drain_error
  cancelWait,    \* ticks until next_cancel_attempt
  rpc,           \* cancel_futures: the state of each service's future
  ready,         \* the services that are reachable (environment)
  armAcks,       \* tokens ever published on watchdog_arm_ack
  resetAcks      \* tokens ever published on watchdog_reset_ack

timerVars == <<heartbeatAge, quietAge, cancelWait>>
latchVars == <<armed, stale, resetPending, resetToken, drainError>>
watchdogVars == <<timerVars, latchVars, rpc, ready, armAcks, resetAcks>>

Disarm == 0   \* heartbeat payload 0
None == -1    \* an instant the code holds as None
\* "none": no future held; "sent": not done(); the other two are done().
RpcStates == {"none", "sent", "accepted", "refused"}

Done(s) == rpc[s] \in {"accepted", "refused"}

WatchdogInit ==
  /\ heartbeatAge = None
  /\ armed = FALSE
  /\ stale = FALSE
  /\ resetPending = FALSE
  /\ resetToken = NoToken
  /\ quietAge = None
  /\ drainError = FALSE
  /\ cancelWait = 0
  /\ rpc = [s \in Services |-> "none"]
  /\ ready = Services
  /\ armAcks = {}
  /\ resetAcks = {}

-----------------------------------------------------------------------------
(* The subscription callbacks.                                             *)

\* Wrong variant of _begin_reset: the watchdog stays armed.
BeginResetArmed(token) ==
  /\ resetPending' = TRUE /\ resetToken' = token /\ quietAge' = None
  /\ UNCHANGED <<heartbeatAge, armed, stale, drainError, cancelWait, rpc, ready,
                 armAcks, resetAcks>>

\* _begin_reset: forget the heartbeat, start (or restart) draining.
BeginReset(token) ==
  /\ heartbeatAge' = None
  /\ armed' = FALSE
  /\ resetPending' = TRUE
  /\ resetToken' = token
  /\ quietAge' = None
  /\ UNCHANGED <<stale, drainError, cancelWait, rpc, ready, armAcks, resetAcks>>

\* Wrong variant of _on_heartbeat: the acknowledgement goes out before the latch
\* and the reset are looked at.
OnHeartbeatAckFirst(data) ==
  \/ data = Disarm /\ BeginReset(NoToken)
  \/ /\ data # Disarm
     /\ armAcks' = armAcks \cup {data}
     /\ armed' = (armed \/ (~stale /\ ~resetPending))
     /\ heartbeatAge' = IF ~stale /\ ~resetPending THEN 0 ELSE heartbeatAge
     /\ UNCHANGED <<stale, resetPending, resetToken, quietAge, drainError,
                    cancelWait, rpc, ready, resetAcks>>

\* _on_heartbeat: 0 disarms; any other token re-arms and is acknowledged,
\* unless the fail-safe is latched or a reset is under way.
OnHeartbeat(data) ==
  \/ data = Disarm /\ BeginReset(NoToken)
  \/ /\ data # Disarm
     /\ ~stale /\ ~resetPending
     /\ heartbeatAge' = 0
     /\ armed' = TRUE
     /\ armAcks' = armAcks \cup {data}
     /\ UNCHANGED <<stale, resetPending, resetToken, quietAge, drainError,
                    cancelWait, rpc, ready, resetAcks>>
  \/ data # Disarm /\ (stale \/ resetPending) /\ UNCHANGED watchdogVars

\* _on_reset_request: 0 and a repetition of the pending request change nothing.
OnResetRequest(token) ==
  LET ignored == token = 0 \/ (resetPending /\ resetToken = token)
  IN  \/ ignored /\ UNCHANGED watchdogVars
      \/ ~ignored /\ BeginReset(token)

-----------------------------------------------------------------------------
(* The timer callback _check, one action for each of its exits.            *)

\* _harvest_cancel_futures: every finished future is dropped, a failed one
\* is remembered.
Harvested == [s \in Services |-> IF Done(s) THEN "none" ELSE rpc[s]]
HarvestErrorForgets == \E s \in Services : rpc[s] = "refused"   \* wrong variant
HarvestError == drainError \/ \E s \in Services : rpc[s] = "refused"
StillPendingNever == FALSE   \* wrong variant: unanswered requests overlooked
StillPending == \E s \in Services : rpc[s] = "sent"

\* Reset under way, but an RPC is unanswered, one failed, or a cancel service
\* is unreachable: the quiet period starts over.
CheckDrainBlocked ==
  /\ resetPending
  /\ StillPending \/ HarvestError \/ ready # Services
  /\ rpc' = Harvested
  /\ drainError' = HarvestError
  /\ quietAge' = None
  /\ UNCHANGED <<heartbeatAge, cancelWait, armed, stale, resetPending,
                 resetToken, ready, armAcks, resetAcks>>

\* Wrong variant: unanswered requests do not block the reset.
DrainClearEarly == resetPending /\ ~HarvestError /\ ready = Services

DrainClear ==
  /\ resetPending
  /\ ~StillPending /\ ~HarvestError /\ ready = Services

\* Everything is drained: the quiet period starts, or has not elapsed yet.
CheckDrainQuiet ==
  /\ DrainClear
  /\ quietAge < QuietTicks
  /\ rpc' = Harvested
  /\ quietAge' = IF quietAge = None THEN 0 ELSE quietAge
  /\ UNCHANGED <<heartbeatAge, cancelWait, latchVars, ready, armAcks, resetAcks>>

\* The reset completes, and is acknowledged if a client asked for it.  The
\* code's cancel_futures.clear() finds the table already empty.
CheckResetDone ==
  /\ DrainClear
  /\ quietAge >= QuietTicks
  /\ rpc' = Harvested
  /\ stale' = FALSE
  /\ resetPending' = FALSE
  /\ resetToken' = NoToken
  /\ quietAge' = None
  /\ cancelWait' = 0
  /\ resetAcks' = resetAcks \cup ({resetToken} \ {NoToken})
  /\ UNCHANGED <<heartbeatAge, armed, drainError, ready, armAcks>>

HeartbeatExpired ==
  /\ ~resetPending
  /\ armed /\ heartbeatAge # None
  /\ heartbeatAge > HeartbeatTimeout

\* Stale, and the next round of cancel requests is not due yet.
CheckStaleHold ==
  /\ HeartbeatExpired
  /\ cancelWait > 0
  /\ stale' = TRUE
  /\ rpc' = Harvested
  /\ drainError' = HarvestError
  /\ UNCHANGED <<timerVars, armed, resetPending, resetToken, ready, armAcks,
                 resetAcks>>

\* Wrong variant: only the first round of a stale episode sends requests.
CheckStaleCancelOnce ==
  /\ HeartbeatExpired /\ cancelWait = 0
  /\ stale' = TRUE /\ drainError' = HarvestError /\ cancelWait' = CancelPeriod
  /\ rpc' = [s \in Services |->
               IF ~stale /\ rpc[s] = "none" /\ s \in ready THEN "sent" ELSE Harvested[s]]
  /\ UNCHANGED <<heartbeatAge, quietAge, armed, resetPending, resetToken, ready,
                 armAcks, resetAcks>>

\* Stale, and a round of cancel requests is sent to every reachable service
\* that has no request in flight.
CheckStaleCancel ==
  /\ HeartbeatExpired
  /\ cancelWait = 0
  /\ stale' = TRUE
  /\ drainError' = HarvestError
  /\ cancelWait' = CancelPeriod
  /\ rpc' = [s \in Services |->
               IF Harvested[s] = "none" /\ s \in ready THEN "sent" ELSE Harvested[s]]
  /\ UNCHANGED <<heartbeatAge, quietAge, armed, resetPending, resetToken, ready,
                 armAcks, resetAcks>>

\* The exits that change something; "not armed" and "not expired" return.
Check == \/ CheckDrainBlocked \/ CheckDrainQuiet \/ CheckResetDone
         \/ CheckStaleHold \/ CheckStaleCancel

-----------------------------------------------------------------------------
(* The environment: time, the action servers' answers, discovery.          *)

Older(age, bound) == IF age = None \/ age > bound THEN age ELSE age + 1

Tick ==
  /\ heartbeatAge' = Older(heartbeatAge, HeartbeatTimeout)
  /\ quietAge' = Older(quietAge, QuietTicks - 1)
  /\ cancelWait' = IF cancelWait = 0 THEN 0 ELSE cancelWait - 1
  /\ UNCHANGED <<latchVars, rpc, ready, armAcks, resetAcks>>

\* The action server answers a cancel-all call: return_code 0, or anything
\* else (an exception of the future included).
Answer(s, answer) ==
  /\ rpc[s] = "sent"
  /\ answer \in {"accepted", "refused"}
  /\ rpc' = [rpc EXCEPT ![s] = answer]
  /\ UNCHANGED <<timerVars, latchVars, ready, armAcks, resetAcks>>

\* A service is lost from, or found again in, the DDS graph.
Rediscover(s) ==
  /\ ready' = IF s \in ready THEN ready \ {s} ELSE ready \cup {s}
  /\ UNCHANGED <<timerVars, latchVars, rpc, armAcks, resetAcks>>

-----------------------------------------------------------------------------
(* The watchdog under clients that may publish anything at any moment: the *)
(* patrol backend, the Coyote output node, or several of each.             *)

ClientMessage ==
  \/ \E data \in Tokens \cup {Disarm} : OnHeartbeat(data)
  \/ \E token \in Tokens \cup {0} : OnResetRequest(token)

Environment ==
  \/ ClientMessage
  \/ Tick
  \/ \E s \in Services : Rediscover(s) \/ \E a \in {"accepted", "refused"} : Answer(s, a)

WatchdogNext == Check \/ Environment

WatchdogSpec == WatchdogInit /\ [][WatchdogNext]_watchdogVars

-----------------------------------------------------------------------------
(* Properties.                                                             *)

\* Every variable has the type the code gives it.
WatchdogTypeOK ==
  /\ heartbeatAge \in 0 .. HeartbeatTimeout + 1 \cup {None}
  /\ armed \in BOOLEAN
  /\ stale \in BOOLEAN
  /\ resetPending \in BOOLEAN
  /\ resetToken \in Tokens \cup {NoToken}
  /\ quietAge \in 0 .. QuietTicks \cup {None}
  /\ drainError \in BOOLEAN
  /\ cancelWait \in 0 .. CancelPeriod
  /\ rpc \in [Services -> RpcStates]
  /\ ready \in SUBSET Services
  /\ armAcks \in SUBSET Tokens
  /\ resetAcks \in SUBSET Tokens

\* A cancel request whose answer is still open belongs to a latched stale
\* episode: once stale is cleared no earlier cancel-all can reach a new goal.
\* (The comment in _begin_reset: "keep the stale latch and zero output until
\* every already-sent RPC has completed".)
OutstandingOnlyWhileStale ==
  \A s \in Services : rpc[s] # "none" => stale

\* The quiet period is counted only while a reset is draining and with every
\* cancel request answered successfully and collected.
QuietMeansDrained ==
  quietAge # None => /\ resetPending
                     /\ ~drainError
                     /\ \A s \in Services : rpc[s] = "none"

\* While stale and not being reset, the watchdog stays armed with the expired
\* heartbeat: nothing but a reset can interrupt the repeated cancellation.
StaleKeepsCanceling ==
  stale /\ ~resetPending => /\ armed
                            /\ heartbeatAge > HeartbeatTimeout

\* The watchdog never arms under a reset: the client that holds an arm
\* acknowledgement and the client that holds a pending reset exclude each other.
ArmedOrDraining == ~(armed /\ resetPending)

\* A reset is acknowledged only to leave a watchdog that is neither armed nor
\* stale and that has no cancel request of any kind in flight.
AckedResetIsClean ==
  [][resetAcks' # resetAcks =>
       /\ ~armed' /\ ~stale'
       /\ \A s \in Services : rpc'[s] = "none" /\ rpc[s] = "none"]_watchdogVars

\* A failed cancel request blocks every later reset: the fail-safe, once
\* stale, can then never be cleared by this process.
DrainErrorIsFinal ==
  [][drainError => drainError' /\ (stale => stale') /\ resetAcks' = resetAcks]_watchdogVars

\* The inductive invariant behind the properties above.
WatchdogInv ==
  /\ WatchdogTypeOK
  /\ OutstandingOnlyWhileStale
  /\ QuietMeansDrained
  /\ StaleKeepsCanceling
  /\ ArmedOrDraining

-----------------------------------------------------------------------------
(* Refinement: the watchdog implements FailSafe.                           *)

modeBar == IF stale THEN "tripped" ELSE IF armed THEN "armed" ELSE "disarmed"
outstandingBar == \E s \in Services : rpc[s] # "none"

Abstract == INSTANCE FailSafe WITH mode <- modeBar, draining <- resetPending,
                                   outstanding <- outstandingBar

\* Every step of the watchdog is a step the abstract fail-safe allows.
ImplementsFailSafe == Abstract!Spec
=============================================================================
