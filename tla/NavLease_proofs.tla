--------------------------- MODULE NavLease_proofs ---------------------------
(***************************************************************************)
(* Proofs about the navigation watchdog and about the lease protocol that  *)
(* runs over it, for any cancel services, tokens and timeouts, any depth   *)
(* of the link and any length of the route.  The watchdog comes first: its *)
(* theorems are about WatchdogSpec, and LeaseRunsWatchdog at the end says  *)
(* that every behaviour of the protocol is one of WatchdogSpec.            *)
(***************************************************************************)
EXTENDS NavLease, TLAPS

USE DEF WatchdogAssumption

-----------------------------------------------------------------------------
(* What the pieces of the timer callback do.                               *)

\* _harvest_cancel_futures keeps a table of the futures' states.
LEMMA HarvestedType ==
  ASSUME rpc \in [Services -> RpcStates]
  PROVE  /\ Harvested \in [Services -> RpcStates]
         /\ \A s \in Services : Harvested[s] \in {"none", "sent"}
         /\ \A s \in Services : rpc[s] = "none" => Harvested[s] = "none"
  BY DEF Harvested, RpcStates, Done

\* If nothing is pending, harvesting empties the table.
LEMMA HarvestedDrained ==
  ASSUME rpc \in [Services -> RpcStates], ~StillPending
  PROVE  \A s \in Services : Harvested[s] = "none"
  BY DEF Harvested, RpcStates, Done, StillPending

\* Ages never decrease and never leave their range.
LEMMA OlderAge ==
  ASSUME NEW bound \in Nat, NEW age \in 0 .. bound + 1 \cup {None}
  PROVE  /\ Older(age, bound) \in 0 .. bound + 1 \cup {None}
         /\ Older(age, bound) = None <=> age = None
         /\ age # None => Older(age, bound) >= age
  BY DEF Older, None

-----------------------------------------------------------------------------
(* The inductive invariant.                                                *)

\* It holds when the node starts.
LEMMA WatchdogInvInit == WatchdogInit => WatchdogInv
<1> SUFFICES ASSUME WatchdogInit
             PROVE  WatchdogInv
  OBVIOUS
<1>1. rpc \in [Services -> RpcStates]
  BY DEF WatchdogInit, RpcStates
<1>2. cancelWait \in 0 .. CancelPeriod
  BY WatchdogAssumption DEF WatchdogInit
<1>3. WatchdogTypeOK
  BY <1>1, <1>2 DEF WatchdogInit, WatchdogTypeOK
<1> QED
  BY <1>3 DEF WatchdogInit, WatchdogInv, OutstandingOnlyWhileStale,
     QuietMeansDrained, StaleKeepsCanceling, ArmedOrDraining

\* A reset request, with or without a token, preserves it.
LEMMA WatchdogInvBeginReset ==
  ASSUME WatchdogInv, NEW asked \in Tokens \cup {NoToken}, BeginReset(asked)
  PROVE  WatchdogInv'
  BY DEF WatchdogInv, BeginReset, WatchdogTypeOK, OutstandingOnlyWhileStale,
         QuietMeansDrained, StaleKeepsCanceling, ArmedOrDraining

\* Every step of a client preserves it.
LEMMA WatchdogInvClient ==
  ASSUME WatchdogInv, ClientMessage
  PROVE  WatchdogInv'
<1> USE DEF WatchdogInv
<1>1. CASE UNCHANGED watchdogVars
  BY <1>1 DEF watchdogVars, timerVars, latchVars, WatchdogTypeOK,
     OutstandingOnlyWhileStale, QuietMeansDrained, StaleKeepsCanceling, ArmedOrDraining
<1>2. ASSUME NEW data \in Tokens \cup {Disarm}, OnHeartbeat(data)
      PROVE  WatchdogInv'
  <2>1. CASE BeginReset(NoToken)
    BY <2>1, WatchdogInvBeginReset
  <2>2. CASE /\ data # Disarm
             /\ ~stale /\ ~resetPending
             /\ heartbeatAge' = 0
             /\ armed' = TRUE
             /\ armAcks' = armAcks \cup {data}
             /\ UNCHANGED <<stale, resetPending, resetToken, quietAge, drainError,
                            cancelWait, rpc, ready, resetAcks>>
    <3>1. WatchdogTypeOK'
      BY <2>2, WatchdogAssumption DEF WatchdogTypeOK
    <3> QED
      BY <2>2, <3>1 DEF OutstandingOnlyWhileStale, QuietMeansDrained,
         StaleKeepsCanceling, ArmedOrDraining
  <2> QED BY <1>1, <1>2, <2>1, <2>2 DEF OnHeartbeat
<1>3. ASSUME NEW asked \in Tokens \cup {0}, OnResetRequest(asked)
      PROVE  WatchdogInv'
  BY <1>1, <1>3, WatchdogInvBeginReset DEF OnResetRequest
<1> QED BY <1>2, <1>3 DEF ClientMessage

\* Every exit of the timer callback preserves it.
LEMMA WatchdogInvCheck ==
  ASSUME WatchdogInv, Check
  PROVE  WatchdogInv'
<1> USE DEF WatchdogInv
<1>0. rpc \in [Services -> RpcStates]
  BY DEF WatchdogTypeOK
<1>1. CASE CheckDrainBlocked
  <2>1. WatchdogTypeOK'
    BY <1>0, <1>1, HarvestedType
    DEF CheckDrainBlocked, WatchdogTypeOK, HarvestError
  <2>2. OutstandingOnlyWhileStale'
    BY <1>0, <1>1, HarvestedType DEF CheckDrainBlocked, OutstandingOnlyWhileStale
  <2> QED
    BY <1>1, <2>1, <2>2
    DEF CheckDrainBlocked, QuietMeansDrained, StaleKeepsCanceling, ArmedOrDraining
<1>2. CASE CheckDrainQuiet
  <2> USE DEF CheckDrainQuiet, DrainClear
  <2>1. WatchdogTypeOK'
    BY <1>0, <1>2, HarvestedType, WatchdogAssumption
    DEF WatchdogTypeOK, latchVars, None
  <2>2. \A s \in Services : rpc'[s] = "none"
    BY <1>0, <1>2, HarvestedDrained
  <2>3. QuietMeansDrained'
    BY <1>2, <2>2 DEF latchVars, QuietMeansDrained, HarvestError
  <2> QED
    BY <1>2, <2>1, <2>2, <2>3
    DEF latchVars, OutstandingOnlyWhileStale, StaleKeepsCanceling, ArmedOrDraining
<1>3. CASE CheckResetDone
  <2> USE DEF CheckResetDone, DrainClear
  <2>1. WatchdogTypeOK'
    <3>1. rpc' \in [Services -> RpcStates]
      BY <1>0, <1>3, HarvestedType
    <3>2. cancelWait' \in 0 .. CancelPeriod
      BY <1>3, WatchdogAssumption
    <3>3. resetAcks' \in SUBSET Tokens
      BY <1>3 DEF WatchdogTypeOK
    <3> QED BY <1>3, <3>1, <3>2, <3>3 DEF WatchdogTypeOK
  <2>2. \A s \in Services : rpc'[s] = "none"
    BY <1>0, <1>3, HarvestedDrained
  <2> QED
    BY <1>3, <2>1, <2>2 DEF OutstandingOnlyWhileStale, QuietMeansDrained,
       StaleKeepsCanceling, ArmedOrDraining
<1>4. CASE CheckStaleHold
  <2> USE DEF CheckStaleHold, HeartbeatExpired
  <2>1. WatchdogTypeOK'
    BY <1>0, <1>4, HarvestedType DEF WatchdogTypeOK, timerVars, HarvestError
  <2> QED
    BY <1>4, <2>1 DEF timerVars, OutstandingOnlyWhileStale, QuietMeansDrained,
       StaleKeepsCanceling, ArmedOrDraining
<1>5. CASE CheckStaleCancel
  <2> USE DEF CheckStaleCancel, HeartbeatExpired
  <2>1. rpc' \in [Services -> RpcStates]
    BY <1>0, <1>5, HarvestedType DEF RpcStates
  <2>2. WatchdogTypeOK'
    BY <1>5, <2>1, WatchdogAssumption DEF WatchdogTypeOK, HarvestError
  <2> QED
    BY <1>5, <2>2 DEF OutstandingOnlyWhileStale, QuietMeansDrained,
       StaleKeepsCanceling, ArmedOrDraining
<1> QED BY <1>1, <1>2, <1>3, <1>4, <1>5 DEF Check

\* The passing of time preserves it.
LEMMA WatchdogInvTick ==
  ASSUME WatchdogInv, Tick
  PROVE  WatchdogInv'
<1> USE DEF WatchdogInv
<1>1. /\ heartbeatAge' \in 0 .. HeartbeatTimeout + 1 \cup {None}
      /\ heartbeatAge # None => heartbeatAge' >= heartbeatAge
      /\ heartbeatAge = None => heartbeatAge' = None
  BY OlderAge, WatchdogAssumption DEF WatchdogTypeOK, Tick
<1>2. /\ quietAge' \in 0 .. QuietTicks \cup {None}
      /\ quietAge = None => quietAge' = None
  <2>1. QuietTicks - 1 \in Nat /\ (QuietTicks - 1) + 1 = QuietTicks
    BY WatchdogAssumption
  <2> QED BY <2>1, OlderAge DEF WatchdogTypeOK, Tick
<1>3. WatchdogTypeOK'
  BY <1>1, <1>2, WatchdogAssumption DEF WatchdogTypeOK, Tick, latchVars
<1>4. StaleKeepsCanceling'
  BY <1>1, WatchdogAssumption
  DEF Tick, latchVars, StaleKeepsCanceling, WatchdogTypeOK, None
<1> QED
  BY <1>2, <1>3, <1>4
  DEF Tick, latchVars, OutstandingOnlyWhileStale, QuietMeansDrained, ArmedOrDraining

\* The action servers and discovery preserve it.
LEMMA WatchdogInvServices ==
  ASSUME WatchdogInv, NEW s \in Services,
         Rediscover(s) \/ \E a \in {"accepted", "refused"} : Answer(s, a)
  PROVE  WatchdogInv'
<1> USE DEF WatchdogInv, timerVars, latchVars
<1>1. CASE Rediscover(s)
  BY <1>1 DEF Rediscover, WatchdogTypeOK, OutstandingOnlyWhileStale,
     QuietMeansDrained, StaleKeepsCanceling, ArmedOrDraining
<1>2. ASSUME NEW a \in {"accepted", "refused"}, Answer(s, a)
      PROVE  WatchdogInv'
  <2>1. WatchdogTypeOK'
    BY <1>2 DEF Answer, WatchdogTypeOK, RpcStates
  <2>2. OutstandingOnlyWhileStale' /\ QuietMeansDrained'
    BY <1>2 DEF Answer, WatchdogTypeOK, OutstandingOnlyWhileStale, QuietMeansDrained
  <2> QED
    BY <1>2, <2>1, <2>2 DEF Answer, StaleKeepsCanceling, ArmedOrDraining
<1> QED BY <1>1, <1>2

\* Every step of the watchdog and of its environment preserves it.
LEMMA WatchdogInvStep == WatchdogInv /\ [WatchdogNext]_watchdogVars => WatchdogInv'
<1> SUFFICES ASSUME WatchdogInv, [WatchdogNext]_watchdogVars
             PROVE  WatchdogInv'
  OBVIOUS
<1>1. CASE UNCHANGED watchdogVars
  BY <1>1 DEF WatchdogInv, watchdogVars, timerVars, latchVars, WatchdogTypeOK,
     OutstandingOnlyWhileStale, QuietMeansDrained, StaleKeepsCanceling, ArmedOrDraining
<1>2. CASE WatchdogNext
  BY <1>2, WatchdogInvCheck, WatchdogInvClient, WatchdogInvTick, WatchdogInvServices
  DEF WatchdogNext, Environment
<1> QED BY <1>1, <1>2

\* The inductive invariant holds in every reachable state of the watchdog.
THEOREM WatchdogInvariant == WatchdogSpec => []WatchdogInv
  BY WatchdogInvInit, WatchdogInvStep, PTL DEF WatchdogSpec

\* Every variable of the watchdog keeps the type the code gives it.
THEOREM WatchdogTypeCorrect == WatchdogSpec => []WatchdogTypeOK
  BY WatchdogInvariant, PTL DEF WatchdogInv

\* Once stale is cleared no cancel request of the past can still be answered.
THEOREM NoCancelOutlivesStale == WatchdogSpec => []OutstandingOnlyWhileStale
  BY WatchdogInvariant, PTL DEF WatchdogInv

\* The quiet period is counted only over a drained watchdog.
THEOREM QuietPeriodIsDrained == WatchdogSpec => []QuietMeansDrained
  BY WatchdogInvariant, PTL DEF WatchdogInv

\* Nothing but a reset interrupts the cancellation of a stale watchdog.
THEOREM StaleCancelsOn == WatchdogSpec => []StaleKeepsCanceling
  BY WatchdogInvariant, PTL DEF WatchdogInv

-----------------------------------------------------------------------------
(* Action properties.                                                      *)

\* Of all steps only the end of a reset publishes a reset acknowledgement.
LEMMA OnlyResetDoneAcks ==
  ASSUME WatchdogNext, resetAcks' # resetAcks
  PROVE  CheckResetDone
<1> USE DEF latchVars, timerVars, watchdogVars
<1>1. CASE Check
  BY <1>1 DEF Check, CheckDrainBlocked, CheckDrainQuiet, CheckStaleHold, CheckStaleCancel
<1>2. CASE ClientMessage
  BY <1>2 DEF ClientMessage, OnHeartbeat, OnResetRequest, BeginReset
<1>3. CASE Tick
  BY <1>3 DEF Tick
<1>4. CASE \E s \in Services : Rediscover(s) \/ \E a \in {"accepted", "refused"} : Answer(s, a)
  BY <1>4 DEF Rediscover, Answer
<1> QED BY <1>1, <1>2, <1>3, <1>4 DEF WatchdogNext, Environment

\* The end of a reset finds the table of cancel requests already empty and
\* leaves the watchdog disarmed and not stale.
LEMMA ResetDoneIsClean ==
  ASSUME WatchdogInv, CheckResetDone
  PROVE  /\ ~armed' /\ ~stale'
         /\ \A s \in Services : rpc'[s] = "none" /\ rpc[s] = "none"
<1>1. quietAge # None
  BY WatchdogAssumption DEF CheckResetDone, None
<1>2. \A s \in Services : rpc[s] = "none"
  BY <1>1 DEF WatchdogInv, QuietMeansDrained
<1>3. ~armed
  BY DEF CheckResetDone, DrainClear, WatchdogInv, ArmedOrDraining
<1>4. \A s \in Services : rpc'[s] = "none"
  BY <1>2, HarvestedType DEF CheckResetDone, WatchdogInv, WatchdogTypeOK
<1> QED BY <1>2, <1>3, <1>4 DEF CheckResetDone

\* A reset is acknowledged only out of a drained watchdog, into a clean one.
THEOREM AckedResetsAreClean == WatchdogSpec => AckedResetIsClean
<1>1. WatchdogInv /\ [WatchdogNext]_watchdogVars
        => [resetAcks' # resetAcks =>
              /\ ~armed' /\ ~stale'
              /\ \A s \in Services : rpc'[s] = "none" /\ rpc[s] = "none"]_watchdogVars
  BY OnlyResetDoneAcks, ResetDoneIsClean
<1> QED BY <1>1, WatchdogInvariant, PTL DEF WatchdogSpec, AckedResetIsClean

\* No step forgets a failed cancel request or, after one, clears stale or
\* acknowledges a reset.
LEMMA DrainErrorStep ==
  ASSUME WatchdogTypeOK, WatchdogNext, drainError
  PROVE  drainError' /\ (stale => stale') /\ resetAcks' = resetAcks
<1> USE DEF latchVars, timerVars, watchdogVars, HarvestError
<1>0. drainError = TRUE /\ stale \in BOOLEAN
  BY DEF WatchdogTypeOK
<1>1. CASE Check
  BY <1>0, <1>1 DEF Check, CheckDrainBlocked, CheckDrainQuiet, CheckResetDone, DrainClear,
     CheckStaleHold, CheckStaleCancel
<1>2. CASE ClientMessage
  BY <1>0, <1>2 DEF ClientMessage, OnHeartbeat, OnResetRequest, BeginReset
<1>3. CASE Tick
  BY <1>0, <1>3 DEF Tick
<1>4. CASE \E s \in Services : Rediscover(s) \/ \E a \in {"accepted", "refused"} : Answer(s, a)
  <2>1. UNCHANGED <<stale, drainError, resetAcks>>
    BY <1>4 DEF Rediscover, Answer
  <2> QED BY <1>0, <2>1
<1> QED BY <1>1, <1>2, <1>3, <1>4 DEF WatchdogNext, Environment

\* A failed cancel request blocks every later reset.
THEOREM DrainErrorsAreFinal == WatchdogSpec => DrainErrorIsFinal
<1>1. WatchdogTypeOK /\ [WatchdogNext]_watchdogVars
        => [drainError => drainError' /\ (stale => stale') /\ resetAcks' = resetAcks]_watchdogVars
  BY DrainErrorStep
<1> QED BY <1>1, WatchdogTypeCorrect, PTL DEF WatchdogSpec, DrainErrorIsFinal

-----------------------------------------------------------------------------
(* Refinement: every step is a step of FailSafe, or leaves it unchanged.   *)

\* The watchdog starts as the abstract fail-safe does.
LEMMA RefineInit == WatchdogInit => Abstract!Init
  BY DEF WatchdogInit, Abstract!Init, modeBar, outstandingBar

\* Requests, heartbeats and resets of the clients.
LEMMA RefineClient ==
  ASSUME WatchdogInv, ClientMessage
  PROVE  [Abstract!Next]_Abstract!vars
<1> USE DEF modeBar, outstandingBar
<1>1. CASE UNCHANGED watchdogVars
  BY <1>1 DEF watchdogVars, timerVars, latchVars, Abstract!vars
<1>2. ASSUME NEW asked, BeginReset(asked)
      PROVE  Abstract!BeginReset
  BY <1>2 DEF BeginReset, Abstract!BeginReset, WatchdogInv, ArmedOrDraining
<1>3. ASSUME NEW data \in Tokens \cup {Disarm}, OnHeartbeat(data)
      PROVE  [Abstract!Next]_Abstract!vars
  <2>1. CASE BeginReset(NoToken)
    BY <2>1, <1>2 DEF Abstract!Next
  <2>2. CASE /\ ~stale /\ ~resetPending
             /\ armed' = TRUE
             /\ UNCHANGED <<stale, resetPending, rpc>>
    BY <2>2 DEF Abstract!Next, Abstract!Arm
  <2> QED BY <1>1, <1>3, <2>1, <2>2 DEF OnHeartbeat
<1>4. ASSUME NEW asked \in Tokens \cup {0}, OnResetRequest(asked)
      PROVE  [Abstract!Next]_Abstract!vars
  BY <1>1, <1>2, <1>4 DEF OnResetRequest, Abstract!Next
<1> QED BY <1>3, <1>4 DEF ClientMessage

\* The exits of the timer callback.
LEMMA RefineCheck ==
  ASSUME WatchdogInv, Check
  PROVE  [Abstract!Next]_Abstract!vars
<1> USE DEF modeBar, outstandingBar
<1>0. /\ \A s \in Services : rpc[s] = "none" => Harvested[s] = "none"
      /\ rpc \in [Services -> RpcStates]
  BY HarvestedType DEF WatchdogInv, WatchdogTypeOK
<1>1. CASE CheckDrainBlocked \/ CheckDrainQuiet
  <2>1. /\ UNCHANGED <<armed, stale, resetPending>>
        /\ resetPending
        /\ rpc' = Harvested
    BY <1>1 DEF CheckDrainBlocked, CheckDrainQuiet, DrainClear, latchVars
  <2>2. CASE outstandingBar /\ ~outstandingBar'
    BY <2>1, <2>2 DEF Abstract!Next, Abstract!Drain
  <2>3. CASE outstandingBar' = outstandingBar
    BY <2>1, <2>3 DEF Abstract!vars
  <2>4. outstandingBar' => outstandingBar
    BY <1>0, <2>1
  <2> QED BY <2>2, <2>3, <2>4
<1>2. CASE CheckResetDone
  <2>1. ~outstandingBar /\ ~outstandingBar' /\ ~armed' /\ ~stale'
    BY <1>2, ResetDoneIsClean
  <2> QED
    BY <1>2, <2>1 DEF CheckResetDone, DrainClear, Abstract!Next, Abstract!CompleteReset
<1>3. CASE CheckStaleHold \/ CheckStaleCancel
  <2>1. /\ armed /\ ~resetPending
        /\ stale' = TRUE
        /\ UNCHANGED resetPending
    BY <1>3 DEF CheckStaleHold, CheckStaleCancel, HeartbeatExpired
  <2>2. CASE stale
    BY <2>1, <2>2 DEF Abstract!Next, Abstract!CancelRound
  <2>3. CASE ~stale
    BY <2>1, <2>3 DEF Abstract!Next, Abstract!Trip
  <2> QED BY <2>2, <2>3 DEF WatchdogInv, WatchdogTypeOK
<1> QED BY <1>1, <1>2, <1>3 DEF Check

\* Time, discovery and the answers of the action servers are invisible.
LEMMA RefineServices ==
  ASSUME WatchdogInv,
         \/ Tick
         \/ \E s \in Services : Rediscover(s) \/ \E a \in {"accepted", "refused"} : Answer(s, a)
  PROVE  UNCHANGED Abstract!vars
<1> USE DEF modeBar, outstandingBar, Abstract!vars, timerVars, latchVars
<1>1. CASE Tick
  BY <1>1 DEF Tick
<1>2. ASSUME NEW s \in Services, Rediscover(s)
      PROVE  UNCHANGED Abstract!vars
  BY <1>2 DEF Rediscover
<1>3. ASSUME NEW s \in Services, NEW a \in {"accepted", "refused"}, Answer(s, a)
      PROVE  UNCHANGED Abstract!vars
  <2>1. rpc[s] # "none" /\ rpc'[s] # "none"
    BY <1>3 DEF Answer, WatchdogInv, WatchdogTypeOK
  <2> QED BY <1>3, <2>1 DEF Answer
<1> QED BY <1>1, <1>2, <1>3

\* The watchdog implements the abstract fail-safe.
THEOREM WatchdogImplementsFailSafe == WatchdogSpec => ImplementsFailSafe
<1>1. WatchdogInv /\ [WatchdogNext]_watchdogVars => [Abstract!Next]_Abstract!vars
  <2> SUFFICES ASSUME WatchdogInv, [WatchdogNext]_watchdogVars
               PROVE  [Abstract!Next]_Abstract!vars
    OBVIOUS
  <2>1. CASE UNCHANGED watchdogVars
    BY <2>1 DEF watchdogVars, timerVars, latchVars, Abstract!vars, modeBar, outstandingBar
  <2>2. CASE WatchdogNext
    BY <2>2, RefineCheck, RefineClient, RefineServices DEF WatchdogNext, Environment
  <2> QED BY <2>1, <2>2
<1> QED BY <1>1, RefineInit, WatchdogInvariant, PTL
        DEF WatchdogSpec, ImplementsFailSafe, Abstract!Spec

\* What the abstract fail-safe guarantees: a cancel RPC that could still take
\* effect exists only under the trip that sent it.
THEOREM CancelNeedsTrip == Abstract!Spec => []Abstract!CancelOnlyWhileTripped
<1>1. Abstract!Init => Abstract!CancelOnlyWhileTripped
  BY DEF Abstract!Init, Abstract!CancelOnlyWhileTripped
<1>2. Abstract!CancelOnlyWhileTripped /\ [Abstract!Next]_Abstract!vars
        => Abstract!CancelOnlyWhileTripped'
  BY DEF Abstract!CancelOnlyWhileTripped, Abstract!Next, Abstract!vars, Abstract!Arm,
     Abstract!Trip, Abstract!CancelRound, Abstract!Drain, Abstract!BeginReset,
     Abstract!CompleteReset
<1> QED BY <1>1, <1>2, PTL DEF Abstract!Spec


-----------------------------------------------------------------------------
(* The link.                                                               *)

\* Publishing appends to a queue, and drops its oldest message when it is full.
LEMMA PushQueue ==
  ASSUME NEW q \in Seq(Messages), NEW depth \in Nat \ {0}, Len(q) <= depth,
         NEW m \in Messages, NEW new,
         new = Append(IF Len(q) = depth THEN Tail(q) ELSE q, m)
  PROVE  /\ new \in Seq(Messages) /\ Len(new) <= depth /\ Len(q) <= Len(new)
         /\ Len(new) \in DOMAIN new /\ new[Len(new)] = m
         /\ \A i \in DOMAIN new : new[i] = m \/ \E j \in DOMAIN q : new[i] = q[j]
<1>1. CASE Len(q) = depth
  <2>1. new = Append(Tail(q), m) /\ q # <<>>
    BY <1>1
  <2>2. /\ Tail(q) \in Seq(Messages) /\ Len(Tail(q)) = Len(q) - 1
        /\ \A i \in 1 .. Len(q) - 1 : Tail(q)[i] = q[i + 1] /\ i + 1 \in DOMAIN q
    BY <2>1
  <2> DEFINE rest == Tail(q)
  <2> HIDE DEF rest
  <2>3. rest \in Seq(Messages) /\ new = Append(rest, m) /\ Len(rest) = Len(q) - 1
    BY <2>1, <2>2 DEF rest
  <2>4. /\ new \in Seq(Messages) /\ Len(new) = Len(rest) + 1
        /\ new[Len(new)] = m /\ \A i \in 1 .. Len(rest) : new[i] = rest[i]
    <3>1. new \in Seq(Messages) /\ Len(new) = Len(rest) + 1 /\ Len(rest) \in Nat
      BY <2>3
    <3>2. new[Len(rest) + 1] = m
      BY <2>3
    <3>3. ASSUME NEW i \in 1 .. Len(rest)
          PROVE  new[i] = rest[i]
      BY <2>3, <3>1
    <3> QED  BY <3>1, <3>2, <3>3
  <2>5. \A i \in DOMAIN new : i = Len(new) \/ i \in 1 .. Len(rest)
    BY <2>3, <2>4
  <2>6. \A i \in 1 .. Len(rest) : \E j \in DOMAIN q : rest[i] = q[j]
    BY <2>2, <2>3 DEF rest
  <2> QED  BY <1>1, <2>3, <2>4, <2>5, <2>6
<1>2. CASE Len(q) # depth
  <2>1. new = Append(q, m) /\ Len(q) < depth
    BY <1>2
  <2>2. /\ new \in Seq(Messages) /\ Len(new) = Len(q) + 1
        /\ new[Len(new)] = m /\ \A i \in 1 .. Len(q) : new[i] = q[i]
    BY <2>1
  <2>3. \A i \in DOMAIN new : i = Len(new) \/ i \in DOMAIN q
    BY <2>2
  <2> QED  BY <2>1, <2>2, <2>3
<1> QED  BY <1>1, <1>2

\* Taking the oldest message off a queue.
LEMMA PopQueue ==
  ASSUME NEW q \in Seq(Messages), q # <<>>
  PROVE  /\ Tail(q) \in Seq(Messages) /\ Len(Tail(q)) = Len(q) - 1
         /\ Head(q) \in Messages /\ 1 \in DOMAIN q /\ Head(q) = q[1]
         /\ \A i \in DOMAIN Tail(q) : \E j \in DOMAIN q : Tail(q)[i] = q[j]
<1>1. /\ Tail(q) \in Seq(Messages) /\ Len(Tail(q)) = Len(q) - 1
      /\ Head(q) \in Messages /\ 1 \in DOMAIN q /\ Head(q) = q[1]
      /\ \A i \in 1 .. Len(q) - 1 : Tail(q)[i] = q[i + 1] /\ i + 1 \in DOMAIN q
  OBVIOUS
<1>2. \A i \in DOMAIN Tail(q) : i \in 1 .. Len(q) - 1
  BY <1>1
<1> QED  BY <1>1, <1>2

\* What the types say of tokens and queues.
LEMMA LeaseTypes ==
  ASSUME LeaseTypeOK
  PROVE  /\ link \in [1 .. MaxToken -> Seq(Messages)]
         /\ \A t \in 1 .. MaxToken : link[t] \in Seq(Messages) /\ Len(link[t]) <= LinkDepth
         /\ nextToken \in 1 .. MaxToken + 1 /\ NoToken \notin Tokens /\ 0 \notin Tokens
         /\ 1 .. MaxToken \subseteq Tokens /\ Tokens \subseteq Nat
         /\ token \in Tokens \cup {NoToken} /\ (token \in Tokens => token \in 1 .. MaxToken)
         /\ CoyoteTokens \subseteq Tokens /\ \A t \in CoyoteTokens : t \notin 1 .. MaxToken
         /\ rounds \in 0 .. 2
<1> USE LeaseAssumption, WatchdogAssumption DEF LeaseAssumption, WatchdogAssumption
<1>1. /\ link \in [1 .. MaxToken -> Seq(Messages)] /\ \A t \in 1 .. MaxToken : Len(link[t]) <= LinkDepth
  BY DEF LeaseTypeOK
<1>2. /\ nextToken \in 1 .. MaxToken + 1 /\ token \in 1 .. MaxToken \cup {NoToken}
      /\ rounds \in 0 .. 2
  BY DEF LeaseTypeOK
<1>3. \A t \in CoyoteTokens : t \in Nat /\ t \notin 1 .. MaxToken
  OBVIOUS
<1> QED  BY <1>1, <1>2, <1>3

\* What publishing does to the link.
LEMMA TransmitLink ==
  ASSUME LeaseTypeOK, NEW t \in 1 .. MaxToken, NEW m \in Messages, Transmit(t, m)
  PROVE  /\ link' \in [1 .. MaxToken -> Seq(Messages)]
         /\ \A u \in 1 .. MaxToken : Len(link'[u]) <= LinkDepth
         /\ \A u \in 1 .. MaxToken : u # t => link'[u] = link[u]
         /\ Len(link[t]) <= Len(link'[t]) /\ link'[t][Len(link'[t])] = m
         /\ \A i \in DOMAIN link'[t] :
              link'[t][i] = m \/ \E j \in DOMAIN link[t] : link'[t][i] = link[t][j]
<1> DEFINE q == link[t]
           new == Append(IF Len(q) = LinkDepth THEN Tail(q) ELSE q, m)
<1>1. /\ link \in [1 .. MaxToken -> Seq(Messages)]
      /\ \A u \in 1 .. MaxToken : Len(link[u]) <= LinkDepth
      /\ q \in Seq(Messages) /\ Len(q) <= LinkDepth
  BY LeaseTypes
<1>2. link' = [link EXCEPT ![t] = new]
  BY DEF Transmit
<1>3. link'[t] = new /\ \A u \in 1 .. MaxToken : u # t => link'[u] = link[u]
  BY <1>1, <1>2
<1>4. LinkDepth \in Nat \ {0}
  BY LeaseAssumption DEF LeaseAssumption
<1>5. new = Append(IF Len(q) = LinkDepth THEN Tail(q) ELSE q, m)
  OBVIOUS
<1> HIDE DEF new
<1>6. /\ new \in Seq(Messages) /\ Len(new) <= LinkDepth /\ Len(q) <= Len(new)
      /\ new[Len(new)] = m
      /\ \A i \in DOMAIN new : new[i] = m \/ \E j \in DOMAIN q : new[i] = q[j]
  <2> HIDE DEF q
  <2> QED  BY <1>1, <1>4, <1>5, PushQueue
<1>7. link' \in [1 .. MaxToken -> Seq(Messages)]
  BY <1>1, <1>2, <1>6
<1> QED  BY <1>1, <1>3, <1>6, <1>7

\* What taking or losing the oldest message of a token does to the link.
LEMMA TakenLink ==
  ASSUME LeaseTypeOK, NEW t \in 1 .. MaxToken, link[t] # <<>>,
         link' = [link EXCEPT ![t] = Tail(@)]
  PROVE  /\ link' \in [1 .. MaxToken -> Seq(Messages)]
         /\ \A u \in 1 .. MaxToken : Len(link'[u]) <= LinkDepth
         /\ \A u \in 1 .. MaxToken : Len(link'[u]) < Len(link[u]) \/ link'[u] = link[u]
         /\ \A u \in 1 .. MaxToken : link[u] = <<>> => link'[u] = <<>>
         /\ \A u \in 1 .. MaxToken : \A i \in DOMAIN link'[u] :
              \E j \in DOMAIN link[u] : link'[u][i] = link[u][j]
         /\ Head(link[t]) \in Messages
         /\ 1 \in DOMAIN link[t] /\ Head(link[t]) = link[t][1]
<1> DEFINE q == link[t]
<1>1. /\ link \in [1 .. MaxToken -> Seq(Messages)]
      /\ \A u \in 1 .. MaxToken : link[u] \in Seq(Messages) /\ Len(link[u]) <= LinkDepth
      /\ q \in Seq(Messages) /\ Len(q) <= LinkDepth /\ q # <<>>
  BY LeaseTypes
<1>2. link'[t] = Tail(q) /\ \A u \in 1 .. MaxToken : u # t => link'[u] = link[u]
  BY <1>1
<1>3. /\ Tail(q) \in Seq(Messages) /\ Len(Tail(q)) = Len(q) - 1
      /\ Head(q) \in Messages /\ 1 \in DOMAIN q /\ Head(q) = q[1]
      /\ \A i \in DOMAIN Tail(q) : \E j \in DOMAIN q : Tail(q)[i] = q[j]
  <2> HIDE DEF q
  <2> QED  BY <1>1, PopQueue
<1>4. link' \in [1 .. MaxToken -> Seq(Messages)]
  BY <1>1, <1>3
<1>5. /\ Len(link'[t]) < Len(link[t]) /\ Len(link'[t]) <= LinkDepth
  <2>1. Len(q) \in Nat /\ Len(q) - 1 < Len(q)
    BY <1>1
  <2>2. LinkDepth \in Nat
    BY LeaseAssumption DEF LeaseAssumption
  <2> QED  BY <1>1, <1>2, <1>3, <2>1, <2>2
<1>6. \A u \in 1 .. MaxToken : Len(link'[u]) <= LinkDepth
  BY <1>1, <1>2, <1>5
<1>7. \A u \in 1 .. MaxToken : \A i \in DOMAIN link'[u] :
         \E j \in DOMAIN link[u] : link'[u][i] = link[u][j]
  BY <1>2, <1>3
<1> QED  BY <1>2, <1>3, <1>4, <1>5, <1>6, <1>7

-----------------------------------------------------------------------------
(* The inductive invariant.                                                *)

\* Every token of the client came out of _new_nav_token: those to come are new
\* to the link, to the acknowledgements and to the reset that is pending.
TokensFresh ==
  \A t \in nextToken .. MaxToken :
    link[t] = <<>> /\ t \notin armAcks \cup resetAcks /\ t # resetToken /\ t # token

\* What the rounds of cancel-all tell readiness of a request in the server.
ProbesTell ==
  /\ pc # "readying" => probe = "none" /\ rounds = 0
  /\ probe # "none" => rounds < 2
  /\ pc = "readying" /\ (rounds = 2 \/ (rounds = 1 /\ probe \notin {"none", "sent"}))
       => goal # "requested"

\* Only m is on its way from the publisher in use.
Only(m) == \A i \in DOMAIN link[token] : link[token][i] = m

OnRoute == pc \in {"arming", "waypoint", "accepting", "running", "settling"}

\* A publisher sends one kind of message as long as it is in use, and resets
\* only when there is no goal.
OwnMessages ==
  /\ pc \in {"idle", "ready"} => token = NoToken
  /\ pc = "readying" /\ token # NoToken => goal = "none" /\ Only("reset")
  /\ OnRoute => token # NoToken /\ Only("heartbeat")

\* The reset handshake: once the watchdog has acknowledged the request only the
\* heartbeat of another publisher can undo the reset.
ResetHeld ==
  pc = "readying" /\ token # NoToken /\ token \in resetAcks /\ "arm" \notin stray =>
    ~armed /\ ~stale /\ \A s \in Services : rpc[s] = "none"

\* From the arm acknowledgement to the end of the route only the disarm or the
\* reset of another publisher can undo the arming.
Leased ==
  OnRoute /\ (pc = "arming" => token \in armAcks) => armed \/ "disarm" \in stray

\* What the client may conclude of its goal.
GoalKnown ==
  /\ pc \in {"ready", "arming", "waypoint", "settling"} => goal = "none"
  /\ pc \in {"accepting", "running"} => goalMayBeActive
  /\ pc = "accepting" /\ reply = "rejected" => goal = "none"
  /\ pc \in {"accepting", "running"} /\ result # "none" => goal = "none"

\* The handshakes and the goal.
Protocol ==
  /\ TokensFresh /\ ProbesTell /\ OwnMessages
  /\ ResetHeld /\ ReadyMeansReset /\ Leased /\ GoalKnown /\ GoalAlwaysWatched

LeaseIInv == LeaseTypeOK /\ WatchdogInv /\ Protocol

-----------------------------------------------------------------------------
(* What the steps of the watchdog mean for the lease.                      *)

\* Its own steps neither arm nor disarm it; only the end of a reset
\* acknowledges one, and only of the pending token.
OwnStep ==
  /\ armed' = armed /\ armAcks' = armAcks
  /\ resetPending' => resetPending
  /\ ~resetPending /\ stale => stale'
  /\ ~armed /\ ~stale /\ (\A s \in Services : rpc[s] = "none")
       => ~stale' /\ \A s \in Services : rpc'[s] = "none"
  /\ resetToken' \in {resetToken, NoToken}
  /\ \/ resetAcks' = resetAcks
     \/ /\ resetToken # NoToken /\ resetAcks' = resetAcks \cup {resetToken}
        /\ ~armed' /\ ~stale' /\ \A s \in Services : rpc'[s] = "none"

LEMMA OwnSteps ==
  ASSUME WatchdogInv,
         \/ Check \/ Tick
         \/ \E s \in Services : Rediscover(s) \/ \E a \in {"accepted", "refused"} : Answer(s, a)
  PROVE  OwnStep
<1> USE DEF OwnStep
<1>0. /\ rpc \in [Services -> RpcStates]
      /\ \A s \in Services : rpc[s] = "none" => Harvested[s] = "none"
  BY HarvestedType DEF WatchdogInv, WatchdogTypeOK
<1>1. CASE CheckDrainBlocked
  BY <1>0, <1>1 DEF CheckDrainBlocked
<1>2. CASE CheckDrainQuiet
  BY <1>0, <1>2 DEF CheckDrainQuiet, DrainClear, latchVars
<1>3. CASE CheckResetDone
  <2>1. ~armed' /\ ~stale' /\ \A s \in Services : rpc'[s] = "none"
    BY <1>3, ResetDoneIsClean
  <2> QED  BY <1>3, <2>1 DEF CheckResetDone, DrainClear
<1>4. CASE CheckStaleHold
  BY <1>0, <1>4 DEF CheckStaleHold, HeartbeatExpired
<1>5. CASE CheckStaleCancel
  BY <1>0, <1>5 DEF CheckStaleCancel, HeartbeatExpired
<1>6. CASE Tick
  BY <1>6 DEF Tick, latchVars
<1>7. ASSUME NEW s \in Services, Rediscover(s)
      PROVE  OwnStep
  BY <1>7 DEF Rediscover, latchVars
<1>8. ASSUME NEW s \in Services, NEW a \in {"accepted", "refused"}, Answer(s, a)
      PROVE  OwnStep
  BY <1>8 DEF Answer, latchVars
<1> QED  BY <1>1, <1>2, <1>3, <1>4, <1>5, <1>6, <1>7, <1>8 DEF Check

\* A heartbeat keeps an armed watchdog so, and an acknowledged one leaves it
\* armed.
LEMMA HeartbeatTaken ==
  ASSUME NEW t, t # Disarm, OnHeartbeat(t)
  PROVE  /\ UNCHANGED <<stale, resetPending, resetToken, rpc, resetAcks>>
         /\ armed => armed'
         /\ ~stale /\ ~resetPending => armed'
         /\ \/ armAcks' = armAcks
            \/ armAcks' = armAcks \cup {t} /\ armed'
BY DEF OnHeartbeat, watchdogVars, latchVars

\* A disarm or a reset request arms nothing and acknowledges nothing.
LEMMA ResetTaken ==
  ASSUME NEW t, BeginReset(t) \/ OnResetRequest(t)
  PROVE  /\ UNCHANGED <<stale, rpc, armAcks, resetAcks>>
         /\ armed' => armed
         /\ resetToken' \in {resetToken, t}
BY DEF OnResetRequest, BeginReset, watchdogVars, latchVars

-----------------------------------------------------------------------------
(* The client's steps that transmit nothing.                               *)

\* The types after a step of readiness that leaves the watchdog and the link
\* alone.
LEMMA ReadinessTypes ==
  ASSUME LeaseTypeOK, Protocol, WatchdogTypeOK', NEW reading \in Readings,
         \/ StartReadiness \/ SendProbe \/ TakeProbe \/ TakeStatus
         \/ DropReset(reading) \/ FinishReadiness(reading) \/ ReadinessTimeout
  PROVE  LeaseTypeOK'
<1> USE DEF LeaseTypeOK, routeVars, probeVars, serverVars, linkVars
<1>1. CASE StartReadiness
  BY <1>1 DEF StartReadiness
<1>2. CASE SendProbe
  BY <1>2 DEF SendProbe
<1>3. CASE TakeProbe
  <2>1. rounds \in 0 .. 2 /\ rounds < 2
    <3>1. probe # "none"
      BY <1>3 DEF TakeProbe
    <3>2. ProbesTell
      BY DEF Protocol
    <3> QED  BY <3>1, <3>2, LeaseTypes DEF ProbesTell
  <2>2. rounds' \in {rounds, rounds + 1, 0}
    BY <1>3 DEF TakeProbe
  <2>3. rounds' \in 0 .. 2
    BY <2>1, <2>2
  <2>4. probeError' \in BOOLEAN
    BY <1>3 DEF TakeProbe
  <2> QED  BY <1>3, <2>3, <2>4 DEF TakeProbe
<1>4. CASE TakeStatus
  BY <1>4 DEF TakeStatus
<1>5. CASE DropReset(reading)
  BY <1>5 DEF DropReset
<1>6. CASE FinishReadiness(reading) \/ ReadinessTimeout
  <2>1. /\ pc' \in {"ready", "idle"} /\ token' = NoToken
        /\ probe' = "none" /\ rounds' = 0 /\ probeError' = FALSE
        /\ UNCHANGED <<nextToken, cancel, uncertain, routeVars, serverVars, linkVars>>
    BY <1>6 DEF FinishReadiness, ReadinessTimeout
  <2>2. rounds' \in 0 .. 2
    BY <2>1
  <2>3. probeError' \in BOOLEAN
    BY <2>1
  <2> QED  BY <2>1, <2>2, <2>3
<1> QED  BY <1>1, <1>2, <1>3, <1>4, <1>5, <1>6

\* Readiness up to, and from, the reset handshake.
LEMMA ReadinessSteps ==
  ASSUME LeaseTypeOK, Protocol, NEW reading \in Readings,
         \/ StartReadiness \/ SendProbe \/ TakeProbe \/ TakeStatus
         \/ DropReset(reading) \/ FinishReadiness(reading) \/ ReadinessTimeout
  PROVE  Protocol'
<1>0. nextToken \in Nat /\ NoToken \notin Nat /\ rounds \in 0 .. 2
  BY LeaseTypes, WatchdogAssumption
<1> USE DEF Protocol, TokensFresh, ProbesTell, OwnMessages, OnRoute, ResetHeld,
            ReadyMeansReset, Leased, GoalKnown, GoalAlwaysWatched, Only,
            routeVars, probeVars, serverVars, linkVars, watchdogVars, latchVars
<1>1. CASE StartReadiness
  BY <1>0, <1>1 DEF StartReadiness
<1>2. CASE SendProbe
  BY <1>0, <1>2 DEF SendProbe
<1>3. CASE TakeProbe
  <2>1. pc = "readying" /\ rounds' = 2 => goal # "requested"
    BY <1>0, <1>3 DEF TakeProbe, StatusNonterminal
  <2>2. ProbesTell'
    BY <1>0, <1>3, <2>1 DEF TakeProbe
  <2> QED  BY <1>0, <1>3, <2>2 DEF TakeProbe
<1>4. CASE TakeStatus
  BY <1>0, <1>4 DEF TakeStatus
<1>5. CASE DropReset(reading)
  <2>1. TokensFresh'
    BY <1>0, <1>5 DEF DropReset
  <2> QED  BY <1>0, <1>5, <2>1 DEF DropReset
<1>6. CASE FinishReadiness(reading)
  <2>1. rounds = 2 /\ ~StatusNonterminal
    BY <1>0, <1>6 DEF FinishReadiness, Blocked
  <2>2. goal = "none"
    BY <1>6, <2>1 DEF FinishReadiness, StatusNonterminal, LeaseTypeOK
  <2>3. /\ pc = "readying" /\ token \in resetAcks
        /\ pc' = "ready" /\ token' = NoToken /\ probe' = "none" /\ rounds' = 0
        /\ UNCHANGED <<watchdogVars, nextToken, goal, reply, result, link, stray>>
    BY <1>6 DEF FinishReadiness, ResetAcked
  <2>4. token # NoToken
    BY <2>3, LeaseTypes DEF LeaseTypeOK, WatchdogTypeOK
  <2>5. "arm" \notin stray => ~armed /\ ~stale /\ \A s \in Services : rpc[s] = "none"
    BY <2>3, <2>4
  <2>6. TokensFresh'
    BY <1>0, <2>3
  <2> QED  BY <2>2, <2>3, <2>5, <2>6
<1>7. CASE ReadinessTimeout
  <2>1. TokensFresh'
    BY <1>0, <1>7 DEF ReadinessTimeout
  <2> QED  BY <1>0, <1>7, <2>1 DEF ReadinessTimeout
<1> QED  BY <1>1, <1>2, <1>3, <1>4, <1>5, <1>6, <1>7

\* From readiness to the goal, and the goal from acceptance to its end.
LEMMA RouteTypes ==
  ASSUME LeaseTypeOK, WatchdogTypeOK', NEW reading \in Readings,
         \/ StartRoute \/ SkipRoute \/ Armed \/ SendGoal(reading) \/ DecideToStop
         \/ TakeAccepted \/ TakeSuccess \/ CancelActive
  PROVE  LeaseTypeOK'
<1> USE DEF LeaseTypeOK, routeVars, probeVars, serverVars, linkVars
<1>1. CASE StartRoute
  <2>1. token' \in 1 .. MaxToken /\ nextToken' \in 1 .. MaxToken + 1
    <3>1. nextToken \in 1 .. MaxToken /\ token' = nextToken /\ nextToken' = nextToken + 1
      BY <1>1, LeaseAssumption DEF StartRoute, LeaseAssumption
    <3> QED  BY <3>1, LeaseAssumption DEF LeaseAssumption
  <2>2. pc' = "arming" /\ cancel' \in BOOLEAN
    BY <1>1 DEF StartRoute
  <2>3. UNCHANGED <<uncertain, routeVars, probeVars, serverVars, linkVars>>
    BY <1>1 DEF StartRoute
  <2> QED  BY <2>1, <2>2, <2>3
<1>2. CASE SkipRoute
  BY <1>2 DEF SkipRoute
<1>3. CASE Armed
  BY <1>3 DEF Armed
<1>4. CASE SendGoal(reading)
  <2>1. /\ pc' = "accepting" /\ goal' = "requested" /\ reply' = "none" /\ result' = "none"
        /\ UNCHANGED <<token, nextToken, cancel, uncertain, waypoint, retries, probeVars,
                       linkVars>>
    BY <1>4 DEF SendGoal
  <2>2. goalMayBeActive' \in BOOLEAN /\ stopping' \in BOOLEAN /\ cancelSent' \in BOOLEAN
    BY <1>4 DEF SendGoal
  <2> QED  BY <2>1, <2>2
<1>5. CASE DecideToStop
  <2>1. UNCHANGED <<pc, token, nextToken, cancel, uncertain, goalMayBeActive, waypoint,
                    retries, probeVars, goal, reply, result, linkVars>>
    BY <1>5 DEF DecideToStop
  <2>2. stopping' \in BOOLEAN /\ cancelSent' \in BOOLEAN
    BY <1>5 DEF DecideToStop
  <2> QED  BY <2>1, <2>2
<1>6. CASE TakeAccepted
  <2>1. /\ pc' = "running" /\ cancelSent' = stopping
        /\ UNCHANGED <<token, nextToken, cancel, uncertain, routeVars, probeVars,
                       goal, reply, result, linkVars>>
    BY <1>6 DEF TakeAccepted
  <2> QED  BY <2>1
<1>7. CASE TakeSuccess
  <2>1. /\ pc' = "settling"
        /\ UNCHANGED <<token, nextToken, cancel, uncertain, stopping, waypoint, retries,
                       probeVars, serverVars, linkVars>>
    BY <1>7 DEF TakeSuccess
  <2>2. goalMayBeActive' \in BOOLEAN
    BY <1>7 DEF TakeSuccess
  <2> QED  BY <2>1, <2>2
<1>8. CASE CancelActive
  BY <1>8 DEF CancelActive
<1> QED  BY <1>1, <1>2, <1>3, <1>4, <1>5, <1>6, <1>7, <1>8

\* A new arm token: no message on the link and no acknowledgement carries it.
LEMMA StartRouteKeeps ==
  ASSUME LeaseTypeOK, Protocol, StartRoute
  PROVE  Protocol'
<1>1. /\ pc = "ready" /\ pc' = "arming" /\ token' = nextToken /\ nextToken' = nextToken + 1
      /\ nextToken <= MaxToken
      /\ UNCHANGED <<watchdogVars, probe, rounds, goal, reply, result, goalMayBeActive,
                     link, stray>>
  BY DEF StartRoute, routeVars, probeVars, serverVars, linkVars
<1>2. UNCHANGED <<armed, stale, resetToken, rpc, armAcks, resetAcks>>
  BY <1>1 DEF watchdogVars, latchVars
<1>3. nextToken \in 1 .. MaxToken + 1 /\ MaxToken \in Nat /\ NoToken \notin Nat
  BY LeaseTypes, LeaseAssumption, WatchdogAssumption DEF LeaseAssumption
<1>4. \A t \in nextToken + 1 .. MaxToken : t \in nextToken .. MaxToken /\ t # nextToken
  BY <1>3
<1>5. nextToken \in nextToken .. MaxToken /\ nextToken # NoToken
  BY <1>1, <1>3
<1>6. TokensFresh'
  BY <1>1, <1>2, <1>4 DEF Protocol, TokensFresh
<1>7. link[nextToken] = <<>> /\ nextToken \notin armAcks
  BY <1>5 DEF Protocol, TokensFresh
<1>8. OwnMessages'
  BY <1>1, <1>5, <1>7 DEF OwnMessages, OnRoute, Only
<1>9. Leased'
  BY <1>1, <1>2, <1>7 DEF Leased
<1> QED
  BY <1>1, <1>2, <1>6, <1>8, <1>9
  DEF Protocol, ProbesTell, ResetHeld, ReadyMeansReset, GoalKnown, GoalAlwaysWatched

\* The other steps of the route that transmit nothing.  Sending the goal rests
\* on the lease.
LEMMA RouteSteps ==
  ASSUME LeaseTypeOK, Protocol, NEW reading \in Readings,
         \/ SkipRoute \/ Armed \/ SendGoal(reading) \/ DecideToStop
         \/ TakeAccepted \/ TakeSuccess \/ CancelActive
  PROVE  Protocol'
<1> USE DEF Protocol, TokensFresh, ProbesTell, OwnMessages, OnRoute, ResetHeld,
            ReadyMeansReset, Leased, GoalKnown, GoalAlwaysWatched, Only,
            routeVars, probeVars, serverVars, linkVars, watchdogVars, latchVars
<1>1. CASE SkipRoute
  BY <1>1 DEF SkipRoute
<1>2. CASE Armed
  BY <1>2 DEF Armed, ArmAcked
<1>3. CASE DecideToStop
  BY <1>3 DEF DecideToStop
<1>4. CASE TakeAccepted
  BY <1>4 DEF TakeAccepted
<1>5. CASE TakeSuccess
  BY <1>5 DEF TakeSuccess
<1>6. CASE SendGoal(reading)
  BY <1>6 DEF SendGoal
<1>7. CASE CancelActive
  BY <1>7 DEF CancelActive
<1> QED  BY <1>1, <1>2, <1>3, <1>4, <1>5, <1>6, <1>7

-----------------------------------------------------------------------------
(* The client's steps that transmit.                                       *)

\* A request for a reset: the goal is known to be over.
LEMMA RequestsWithoutGoal ==
  ASSUME LeaseTypeOK, Protocol, NEW reading \in Readings, RequestReset(reading)
  PROVE  goal = "none"
<1>1. rounds = 2 /\ ~StatusNonterminal /\ pc = "readying"
  BY LeaseTypes DEF RequestReset, Blocked
<1> QED  BY <1>1 DEF StatusNonterminal, LeaseTypeOK, Protocol, ProbesTell

LEMMA RequestResetKeeps ==
  ASSUME LeaseTypeOK, Protocol, NEW reading \in Readings, RequestReset(reading),
         WatchdogTypeOK'
  PROVE  LeaseTypeOK' /\ Protocol'
<1>1. /\ pc = "readying" /\ Transmit(token', "reset")
      /\ UNCHANGED <<watchdogVars, pc, cancel, uncertain, routeVars, probeVars,
                     serverVars>>
  BY DEF RequestReset
<1>2. \/ /\ token = NoToken /\ nextToken <= MaxToken
         /\ token' = nextToken /\ nextToken' = nextToken + 1 /\ stray' = {}
      \/ token # NoToken /\ token' = token /\ nextToken' = nextToken /\ stray' = stray
  BY DEF RequestReset
<1>3. /\ nextToken \in 1 .. MaxToken + 1 /\ MaxToken \in Nat /\ NoToken \notin Nat
      /\ 1 .. MaxToken \subseteq Tokens /\ token \in 1 .. MaxToken \cup {NoToken}
  BY LeaseTypes, LeaseAssumption, WatchdogAssumption DEF LeaseAssumption, LeaseTypeOK
<1>4. /\ token' \in 1 .. MaxToken /\ nextToken' \in 1 .. MaxToken + 1
      /\ token' # NoToken
      /\ \A t \in nextToken' .. MaxToken : t \in nextToken .. MaxToken
  <2>1. CASE token = NoToken
    <3>1. token' = nextToken /\ nextToken' = nextToken + 1 /\ nextToken <= MaxToken
      BY <1>2, <2>1
    <3> QED  BY <1>3, <3>1
  <2>2. CASE token # NoToken
    <3>1. token' = token /\ nextToken' = nextToken
      BY <1>2, <2>2
    <3> QED  BY <1>3, <2>2, <3>1
  <2> QED  BY <2>1, <2>2
<1>5. ASSUME NEW t \in nextToken' .. MaxToken
      PROVE  t # token'
  <2>1. CASE token = NoToken
    <3>1. token' = nextToken /\ nextToken' = nextToken + 1 /\ nextToken <= MaxToken
      BY <1>2, <2>1
    <3> QED  BY <1>3, <3>1
  <2>2. CASE token # NoToken
    <3>1. token' = token /\ nextToken' = nextToken
      BY <1>2, <2>2
    <3> QED  BY <3>1 DEF Protocol, TokensFresh
  <2> QED  BY <2>1, <2>2
<1>6. "reset" \in Messages /\ token' \in 1 .. MaxToken
  BY <1>3, <1>4 DEF Messages
<1>7. /\ link' \in [1 .. MaxToken -> Seq(Messages)] /\ \A u \in 1 .. MaxToken : Len(link'[u]) <= LinkDepth
      /\ \A u \in 1 .. MaxToken : u # token' => link'[u] = link[u]
      /\ \A i \in DOMAIN link'[token'] :
           \/ link'[token'][i] = "reset"
           \/ \E j \in DOMAIN link[token'] : link'[token'][i] = link[token'][j]
  <2> DEFINE t == token'
             m == "reset"
  <2> HIDE DEF t, m
  <2>1. Transmit(t, m) /\ t \in 1 .. MaxToken /\ m \in Messages
    BY <1>1, <1>6 DEF t, m
  <2>2. /\ link' \in [1 .. MaxToken -> Seq(Messages)]
        /\ \A u \in 1 .. MaxToken : Len(link'[u]) <= LinkDepth
        /\ \A u \in 1 .. MaxToken : u # t => link'[u] = link[u]
        /\ \A i \in DOMAIN link'[t] :
             link'[t][i] = m \/ \E j \in DOMAIN link[t] : link'[t][i] = link[t][j]
    BY <2>1, TransmitLink
  <2> QED  BY <2>2 DEF t, m
<1>8. UNCHANGED <<armed, stale, resetToken, rpc, armAcks, resetAcks>>
  BY <1>1 DEF watchdogVars, latchVars
<1>9. UNCHANGED <<goalMayBeActive, probe, rounds, goal, reply, result>>
  BY <1>1 DEF routeVars, probeVars, serverVars
<1>10. goal = "none"
  BY RequestsWithoutGoal
<1>11. LeaseTypeOK'
  <2>1. stray' \in SUBSET {"arm", "disarm"}
    BY <1>2 DEF LeaseTypeOK
  <2> QED  BY <1>1, <1>4, <1>7, <2>1 DEF LeaseTypeOK, routeVars, probeVars, serverVars
<1>12. TokensFresh'
  <2>1. ASSUME NEW t \in nextToken' .. MaxToken
        PROVE  link'[t] = <<>>
    <3>1. t \in nextToken .. MaxToken /\ t # token' /\ t \in 1 .. MaxToken
      BY <1>3, <1>4, <1>5
    <3> QED  BY <1>7, <3>1 DEF Protocol, TokensFresh
  <2> QED  BY <1>4, <1>5, <1>8, <2>1 DEF Protocol, TokensFresh
<1>13. CASE token = NoToken
  <2>1. token' \in nextToken .. MaxToken
    BY <1>2, <1>3, <1>4, <1>13
  <2>2. link[token'] = <<>> /\ token' \notin resetAcks
    BY <2>1 DEF Protocol, TokensFresh
  <2>3. \A i \in DOMAIN link'[token'] : link'[token'][i] = "reset"
    BY <1>7, <2>2
  <2>4. OwnMessages' /\ ResetHeld'
    BY <1>1, <1>8, <1>9, <1>10, <2>2, <2>3 DEF OwnMessages, OnRoute, Only, ResetHeld
  <2> QED
    BY <1>1, <1>8, <1>9, <1>10, <1>11, <1>12, <2>4
    DEF Protocol, ProbesTell, ReadyMeansReset, Leased, OnRoute, GoalKnown, GoalAlwaysWatched
<1>14. CASE token # NoToken
  <2>1. token' = token /\ stray' = stray
    BY <1>2, <1>14
  <2>2. \A i \in DOMAIN link[token] : link[token][i] = "reset"
    BY <1>1, <1>14 DEF Protocol, OwnMessages, Only
  <2>3. \A i \in DOMAIN link'[token'] : link'[token'][i] = "reset"
    BY <1>7, <2>1, <2>2
  <2>4. OwnMessages' /\ ResetHeld'
    BY <1>1, <1>8, <1>9, <1>10, <2>1, <2>3 DEF Protocol, OwnMessages, OnRoute, Only, ResetHeld
  <2> QED
    BY <1>1, <1>8, <1>9, <1>10, <1>11, <1>12, <2>4
    DEF Protocol, ProbesTell, ReadyMeansReset, Leased, OnRoute, GoalKnown, GoalAlwaysWatched
<1> QED  BY <1>13, <1>14

\* A heartbeat carries the token of the lease.
LEMMA SendHeartbeatKeeps ==
  ASSUME LeaseTypeOK, Protocol, NEW reading \in Readings, SendHeartbeat(reading),
         WatchdogTypeOK'
  PROVE  LeaseTypeOK' /\ Protocol'
<1>1. /\ Transmit(token, "heartbeat") /\ OnRoute
      /\ UNCHANGED <<watchdogVars, pc, token, nextToken, cancel, uncertain, routeVars,
                     probeVars, serverVars, stray>>
  BY DEF SendHeartbeat, OnRoute
<1>2. token # NoToken /\ token \in 1 .. MaxToken /\ "heartbeat" \in Messages /\ Only("heartbeat")
  BY <1>1, LeaseTypes DEF Protocol, OwnMessages, Messages
<1>3. /\ link' \in [1 .. MaxToken -> Seq(Messages)] /\ \A u \in 1 .. MaxToken : Len(link'[u]) <= LinkDepth
      /\ \A u \in 1 .. MaxToken : u # token => link'[u] = link[u]
      /\ \A i \in DOMAIN link'[token] :
           \/ link'[token][i] = "heartbeat"
           \/ \E j \in DOMAIN link[token] : link'[token][i] = link[token][j]
  <2> DEFINE m == "heartbeat"
  <2> HIDE DEF m
  <2>1. Transmit(token, m) /\ m \in Messages
    BY <1>1, <1>2 DEF m
  <2>2. /\ link' \in [1 .. MaxToken -> Seq(Messages)]
        /\ \A u \in 1 .. MaxToken : Len(link'[u]) <= LinkDepth
        /\ \A u \in 1 .. MaxToken : u # token => link'[u] = link[u]
        /\ \A i \in DOMAIN link'[token] :
             link'[token][i] = m \/ \E j \in DOMAIN link[token] : link'[token][i] = link[token][j]
    BY <1>2, <2>1, TransmitLink
  <2> QED  BY <2>2 DEF m
<1>4. UNCHANGED <<armed, stale, resetToken, rpc, armAcks, resetAcks,
                  goalMayBeActive, probe, rounds, goal, reply, result>>
  BY <1>1 DEF watchdogVars, latchVars, routeVars, probeVars, serverVars
<1>5. LeaseTypeOK'
  BY <1>1, <1>3 DEF LeaseTypeOK, routeVars, probeVars, serverVars
<1>6. TokensFresh'
  <2>1. \A t \in nextToken .. MaxToken : t \in 1 .. MaxToken
    BY LeaseTypes
  <2> QED  BY <1>1, <1>3, <1>4, <2>1 DEF Protocol, TokensFresh
<1>7. OwnMessages'
  <2>1. \A i \in DOMAIN link'[token] : link'[token][i] = "heartbeat"
    BY <1>2, <1>3 DEF Only
  <2> QED  BY <1>1, <1>2, <2>1 DEF OwnMessages, OnRoute, Only
<1> QED
  BY <1>1, <1>4, <1>5, <1>6, <1>7
  DEF Protocol, ProbesTell, ResetHeld, ReadyMeansReset, Leased, OnRoute,
      GoalKnown, GoalAlwaysWatched

\* The end of the route.
LEMMA LeaveRouteKeeps ==
  ASSUME LeaseTypeOK, Protocol, NEW mayBeActive \in BOOLEAN, LeaveRoute(mayBeActive),
         OnRoute, WatchdogTypeOK'
  PROVE  LeaseTypeOK' /\ Protocol'
<1>1. /\ pc' = "idle" /\ token' = NoToken /\ cancel' = FALSE
      /\ goalMayBeActive' = FALSE /\ stopping' = FALSE /\ waypoint' = 1 /\ retries' = 0
      /\ reply' = "none" /\ result' = "none" /\ cancelSent' = FALSE
      /\ UNCHANGED <<watchdogVars, nextToken, probeVars, goal, stray>>
  BY DEF LeaveRoute
<1>2. UNCHANGED <<armed, stale, resetToken, rpc, armAcks, resetAcks, probe, rounds>>
  BY <1>1 DEF watchdogVars, latchVars, probeVars
<1>3. token \in 1 .. MaxToken /\ "disarm" \in Messages /\ token # NoToken
  BY LeaseTypes DEF Protocol, OwnMessages, Messages
<1>4. /\ link' \in [1 .. MaxToken -> Seq(Messages)] /\ \A u \in 1 .. MaxToken : Len(link'[u]) <= LinkDepth
      /\ \A u \in 1 .. MaxToken : u # token => link'[u] = link[u]
  <2>1. CASE mayBeActive
    BY <2>1, LeaseTypes DEF LeaveRoute
  <2>2. CASE ~mayBeActive
    <3> DEFINE m == "disarm"
    <3> HIDE DEF m
    <3>1. Transmit(token, m) /\ m \in Messages
      BY <1>3, <2>2 DEF LeaveRoute, m
    <3> QED  BY <1>3, <3>1, TransmitLink
  <2> QED  BY <2>1, <2>2
<1>5. LeaseTypeOK'
  <2>1. uncertain' \in BOOLEAN
    BY DEF LeaveRoute
  <2>2. waypoint' \in 1 .. RouteLength /\ retries' \in 0 .. 1
    BY <1>1, LeaseAssumption DEF LeaseAssumption
  <2>3. UNCHANGED <<probe, rounds, probeError>>
    BY <1>1 DEF probeVars
  <2>4. /\ pc' = "idle" /\ token' = NoToken /\ cancel' \in BOOLEAN
        /\ goalMayBeActive' \in BOOLEAN /\ stopping' \in BOOLEAN /\ cancelSent' \in BOOLEAN
        /\ reply' = "none" /\ result' = "none"
    BY <1>1
  <2>5. UNCHANGED <<nextToken, goal, stray>>
    BY <1>1
  <2> QED  BY <1>4, <2>1, <2>2, <2>3, <2>4, <2>5 DEF LeaseTypeOK
<1>6. TokensFresh'
  <2>1. \A t \in nextToken .. MaxToken : t \in 1 .. MaxToken /\ t # token /\ t # NoToken
    BY LeaseTypes DEF Protocol, TokensFresh
  <2> QED  BY <1>1, <1>2, <1>4, <2>1 DEF Protocol, TokensFresh
<1> QED
  BY <1>1, <1>2, <1>5, <1>6
  DEF Protocol, ProbesTell, OwnMessages, OnRoute, ResetHeld, ReadyMeansReset,
      Leased, GoalKnown, GoalAlwaysWatched

\* The next waypoint, or the same one once more, under the same lease.
LEMMA WaypointSteps ==
  ASSUME LeaseTypeOK, Protocol, ArrivalMismatch \/ NextWaypoint, WatchdogTypeOK'
  PROVE  LeaseTypeOK' /\ Protocol'
<1>1. pc = "settling" /\ goal = "none" /\ OnRoute
  BY DEF ArrivalMismatch, NextWaypoint, Protocol, GoalKnown, OnRoute
<1>2. CASE LeaveRoute(FALSE)
  BY <1>1, <1>2, LeaveRouteKeeps
<1>3. CASE ~LeaveRoute(FALSE)
  <2>1. /\ pc' = "waypoint"
        /\ UNCHANGED <<watchdogVars, token, nextToken, cancel, uncertain, goalMayBeActive,
                       stopping, probeVars, serverVars, linkVars>>
    BY <1>3 DEF ArrivalMismatch, NextWaypoint
  <2>2. /\ waypoint' = waypoint \/ (waypoint < RouteLength /\ waypoint' = waypoint + 1)
        /\ retries' = 0 \/ (retries < 1 /\ retries' = retries + 1)
    BY <1>3 DEF ArrivalMismatch, NextWaypoint, RetryLeft
  <2>3. waypoint' \in 1 .. RouteLength /\ retries' \in 0 .. 1
    BY <2>2, LeaseAssumption DEF LeaseTypeOK, LeaseAssumption
  <2>4. LeaseTypeOK'
    BY <2>1, <2>3 DEF LeaseTypeOK, probeVars, serverVars, linkVars
  <2>5. UNCHANGED <<armed, stale, resetToken, rpc, armAcks, resetAcks,
                    probe, rounds, goal, reply, result, link, stray>>
    BY <2>1 DEF watchdogVars, latchVars, probeVars, serverVars, linkVars
  <2> QED
    BY <1>1, <2>1, <2>4, <2>5
    DEF Protocol, TokensFresh, ProbesTell, OwnMessages, OnRoute, Only, ResetHeld,
        ReadyMeansReset, Leased, GoalKnown, GoalAlwaysWatched
<1> QED  BY <1>2, <1>3

\* The ends of the route.
LEMMA RouteEnds ==
  ASSUME LeaseTypeOK, Protocol, WatchdogTypeOK',
         GiveUpBeforeGoal \/ TakeRejected \/ GoalTimeout \/ TakeFailure
  PROVE  LeaseTypeOK' /\ Protocol'
<1> USE DEF OnRoute
<1>1. CASE GiveUpBeforeGoal
  BY <1>1, LeaveRouteKeeps DEF GiveUpBeforeGoal
<1>2. CASE TakeRejected
  BY <1>2, LeaveRouteKeeps DEF TakeRejected
<1>3. CASE GoalTimeout
  BY <1>3, LeaveRouteKeeps DEF GoalTimeout, LeaseTypeOK
<1>4. CASE TakeFailure
  BY <1>4, LeaveRouteKeeps DEF TakeFailure
<1> QED  BY <1>1, <1>2, <1>3, <1>4

-----------------------------------------------------------------------------
(* The client's end, the link, the server and the Coyote node.             *)

\* The process dies in any state.
LEMMA CrashKeeps ==
  ASSUME LeaseTypeOK, Protocol, WatchdogTypeOK', Crash
  PROVE  LeaseTypeOK' /\ Protocol'
<1>1. /\ pc' = "idle" /\ token' = NoToken /\ probe' = "none" /\ rounds' = 0
      /\ reply' = "none" /\ result' = "none"
      /\ UNCHANGED <<watchdogVars, nextToken, goal, link, stray>>
  BY DEF Crash, linkVars
<1>2. UNCHANGED <<armed, stale, resetToken, rpc, armAcks, resetAcks>>
  BY <1>1 DEF watchdogVars, latchVars
<1>3. LeaseTypeOK'
  <2>1. waypoint' \in 1 .. RouteLength /\ retries' \in 0 .. 1 /\ rounds' \in 0 .. 2
    BY LeaseAssumption DEF Crash, LeaseAssumption
  <2>2. /\ cancel' \in BOOLEAN /\ uncertain' \in BOOLEAN /\ goalMayBeActive' \in BOOLEAN
        /\ stopping' \in BOOLEAN /\ probeError' \in BOOLEAN /\ cancelSent' \in BOOLEAN
    BY DEF Crash
  <2> QED  BY <1>1, <2>1, <2>2 DEF LeaseTypeOK
<1>4. TokensFresh'
  <2>1. \A t \in nextToken .. MaxToken : t # NoToken
    BY LeaseTypes
  <2> QED  BY <1>1, <1>2, <2>1 DEF Protocol, TokensFresh
<1> QED
  BY <1>1, <1>2, <1>3, <1>4
  DEF Protocol, ProbesTell, OwnMessages, OnRoute, ResetHeld, ReadyMeansReset, Leased,
      GoalKnown, GoalAlwaysWatched

\* A message is lost.
LEMMA LoseKeeps ==
  ASSUME LeaseTypeOK, Protocol, WatchdogTypeOK', NEW t \in 1 .. MaxToken, Lose(t)
  PROVE  LeaseTypeOK' /\ Protocol'
<1>1. /\ link[t] # <<>> /\ link' = [link EXCEPT ![t] = Tail(@)]
      /\ UNCHANGED <<watchdogVars, pc, token, nextToken, cancel, uncertain, routeVars,
                     probeVars, serverVars, stray>>
  BY DEF Lose
<1>2. /\ link' \in [1 .. MaxToken -> Seq(Messages)]
      /\ \A u \in 1 .. MaxToken : Len(link'[u]) <= LinkDepth
      /\ \A u \in 1 .. MaxToken : link[u] = <<>> => link'[u] = <<>>
      /\ \A u \in 1 .. MaxToken : \A i \in DOMAIN link'[u] :
           \E j \in DOMAIN link[u] : link'[u][i] = link[u][j]
  BY <1>1, TakenLink
<1>3. UNCHANGED <<armed, stale, resetToken, rpc, armAcks, resetAcks, goalMayBeActive,
                  probe, rounds, goal, reply, result>>
  BY <1>1 DEF watchdogVars, latchVars, routeVars, probeVars, serverVars
<1>4. LeaseTypeOK'
  BY <1>1, <1>2 DEF LeaseTypeOK, routeVars, probeVars, serverVars
<1>5. TokensFresh'
  <2>1. \A u \in nextToken .. MaxToken : u \in 1 .. MaxToken
    BY LeaseTypes
  <2> QED  BY <1>1, <1>2, <1>3, <2>1 DEF Protocol, TokensFresh
<1>6. token # NoToken => token \in 1 .. MaxToken
  BY LeaseTypes
<1>7. OwnMessages'
  BY <1>1, <1>2, <1>3, <1>6 DEF Protocol, OwnMessages, OnRoute, Only
<1> QED
  BY <1>1, <1>3, <1>4, <1>5, <1>7
  DEF Protocol, ProbesTell, OnRoute, ResetHeld, ReadyMeansReset, Leased, GoalKnown,
      GoalAlwaysWatched

\* The action server answers a goal request, ends a goal, or handles one of
\* the client's cancel calls.
LEMMA ServerSteps ==
  ASSUME LeaseTypeOK, Protocol, WatchdogTypeOK',
         ServerAnswers \/ ServerFinishes \/ ServerCancels \/ ServerProbed
  PROVE  LeaseTypeOK' /\ Protocol'
<1> USE DEF routeVars, probeVars
<1>1. /\ UNCHANGED <<watchdogVars, pc, token, nextToken, cancel, uncertain, routeVars,
                     rounds, probeError, cancelSent, link, stray>>
      /\ goal' # "none" => goal # "none"
      /\ goal' = "requested" => goal = "requested"
      /\ goal' \in {"none", "requested", "executing", "canceling"}
  <2> USE DEF linkVars
  <2>1. CASE ServerAnswers
    BY <2>1 DEF ServerAnswers
  <2>2. CASE ServerFinishes
    BY <2>2 DEF ServerFinishes
  <2>3. CASE ServerCancels
    BY <2>3 DEF ServerCancels
  <2>4. CASE ServerProbed
    BY <2>4 DEF ServerProbed, LeaseTypeOK
  <2> QED  BY <2>1, <2>2, <2>3, <2>4
<1>2. /\ probe' \in {"none", "sent", "clean", "canceling", "refused"}
      /\ probe' # probe => probe = "sent" /\ (rounds = 1 => goal # "requested")
  <2>1. CASE ServerProbed
    BY <2>1 DEF ServerProbed
  <2>2. CASE ~ServerProbed
    BY <2>2 DEF ServerAnswers, ServerFinishes, ServerCancels, LeaseTypeOK
  <2> QED  BY <2>1, <2>2
<1>3. /\ reply' \in {"none", "accepted", "rejected", "lost"}
      /\ reply' # reply /\ reply' = "rejected" => goal' = "none"
  <2>1. CASE ServerAnswers
    BY <2>1 DEF ServerAnswers, Listening
  <2>2. CASE ~ServerAnswers
    BY <2>2 DEF ServerFinishes, ServerCancels, ServerProbed, LeaseTypeOK
  <2> QED  BY <2>1, <2>2
<1>4. /\ result' \in {"none", "succeeded", "stopped", "lost"}
      /\ result' # result => goal' = "none"
  <2>1. CASE ServerFinishes
    BY <2>1 DEF ServerFinishes
  <2>2. CASE ~ServerFinishes
    BY <2>2 DEF ServerAnswers, ServerCancels, ServerProbed, LeaseTypeOK
  <2> QED  BY <2>1, <2>2
<1>5. LeaseTypeOK'
  BY <1>1, <1>2, <1>3, <1>4 DEF LeaseTypeOK
<1>6. UNCHANGED <<armed, stale, resetToken, rpc, armAcks, resetAcks, goalMayBeActive>>
  BY <1>1 DEF watchdogVars, latchVars
<1>7. ProbesTell'
  BY <1>1, <1>2 DEF Protocol, ProbesTell
<1>8. GoalKnown'
  BY <1>1, <1>3, <1>4, <1>5, <1>6 DEF Protocol, GoalKnown, LeaseTypeOK
<1> QED
  BY <1>1, <1>5, <1>6, <1>7, <1>8
  DEF Protocol, TokensFresh, OwnMessages, OnRoute, Only, ResetHeld, ReadyMeansReset,
      Leased, GoalAlwaysWatched

\* A step of the watchdog on its own, or the answer to one of its cancel calls.
LEMMA WatchdogSteps ==
  ASSUME LeaseTypeOK, Protocol, WatchdogTypeOK', OwnStep,
         UNCHANGED <<pc, token, nextToken, cancel, uncertain, routeVars, probeVars,
                     reply, result, cancelSent, linkVars>>,
         goal' = goal \/ (goal = "executing" /\ goal' = "canceling")
  PROVE  LeaseTypeOK' /\ Protocol'
<1>1. UNCHANGED <<pc, token, nextToken, goalMayBeActive, probe, rounds, reply, result,
                  link, stray>>
  BY DEF routeVars, probeVars, linkVars
<1>2. LeaseTypeOK'
  <2>1. goal' \in {"none", "requested", "executing", "canceling"}
    BY DEF LeaseTypeOK
  <2>2. UNCHANGED <<cancel, uncertain, stopping, waypoint, retries, probeError, cancelSent>>
    BY DEF routeVars, probeVars, linkVars
  <2> QED  BY <1>1, <2>1, <2>2 DEF LeaseTypeOK
<1>3. TokensFresh'
  <2>1. /\ armAcks' = armAcks /\ resetToken' \in {resetToken, NoToken}
        /\ resetAcks' = resetAcks \/ resetAcks' = resetAcks \cup {resetToken}
    BY DEF OwnStep
  <2>2. \A t \in nextToken .. MaxToken : t # NoToken
    BY LeaseTypes
  <2> QED  BY <1>1, <2>1, <2>2 DEF Protocol, TokensFresh
<1>4. ResetHeld'
  BY <1>1 DEF Protocol, ResetHeld, OwnStep
<1>5. ReadyMeansReset'
  BY <1>1 DEF Protocol, ReadyMeansReset, OwnStep
<1>6. Leased' /\ GoalAlwaysWatched'
  BY <1>1 DEF Protocol, Leased, OnRoute, GoalAlwaysWatched, OwnStep
<1>7. ProbesTell' /\ OwnMessages' /\ GoalKnown'
  <2>1. ProbesTell /\ OwnMessages /\ GoalKnown
    BY DEF Protocol
  <2>2. goal' = "none" <=> goal = "none"
    OBVIOUS
  <2>3. goal' = "requested" => goal = "requested"
    OBVIOUS
  <2> QED  BY <1>1, <2>1, <2>2, <2>3 DEF ProbesTell, OwnMessages, OnRoute, Only, GoalKnown
<1> QED  BY <1>2, <1>3, <1>4, <1>5, <1>6, <1>7 DEF Protocol

\* The watchdog takes a message.
LEMMA DeliverKeeps ==
  ASSUME LeaseTypeOK, Protocol, WatchdogTypeOK', NEW t \in 1 .. MaxToken, Deliver(t)
  PROVE  LeaseTypeOK' /\ Protocol'
<1> DEFINE m == Head(link[t])
<1>1. /\ link[t] # <<>> /\ TakeMessage(t, m) /\ stray' = Astray(t, m)
      /\ link' = [link EXCEPT ![t] = Tail(@)]
      /\ UNCHANGED <<pc, token, nextToken, cancel, uncertain, routeVars, probeVars,
                     serverVars>>
  BY DEF Deliver
<1>2. UNCHANGED <<goalMayBeActive, probe, rounds, goal, reply, result>>
  BY <1>1 DEF routeVars, probeVars, serverVars
<1>3. /\ link' \in [1 .. MaxToken -> Seq(Messages)] /\ \A u \in 1 .. MaxToken : Len(link'[u]) <= LinkDepth
      /\ \A u \in 1 .. MaxToken : link[u] = <<>> => link'[u] = <<>>
      /\ \A u \in 1 .. MaxToken : \A i \in DOMAIN link'[u] :
           \E j \in DOMAIN link[u] : link'[u][i] = link[u][j]
      /\ m \in Messages /\ 1 \in DOMAIN link[t] /\ m = link[t][1]
  BY <1>1, TakenLink
<1> HIDE DEF m
<1>4. token # NoToken => token \in 1 .. MaxToken
  BY LeaseTypes
<1>5. t # Disarm /\ t # NoToken /\ \A u \in nextToken .. MaxToken : u \in 1 .. MaxToken /\ u # NoToken
  BY LeaseTypes DEF Disarm
<1>6. \A u \in nextToken .. MaxToken : u # t
  BY <1>1, <1>5 DEF Protocol, TokensFresh
<1>7. LeaseTypeOK'
  <2>1. stray' \in SUBSET {"arm", "disarm"}
    BY <1>1 DEF Astray, LeaseTypeOK
  <2> QED  BY <1>1, <1>3, <2>1 DEF LeaseTypeOK, routeVars, probeVars, serverVars
<1>8. OwnMessages'
  BY <1>1, <1>2, <1>3, <1>4 DEF Protocol, OwnMessages, OnRoute, Only
<1>9. t = token => \/ OnRoute /\ m = "heartbeat"
                   \/ pc = "readying" /\ goal = "none" /\ m = "reset"
  <2>1. pc \in {"idle", "ready", "readying"} \/ OnRoute
    BY DEF LeaseTypeOK, OnRoute
  <2> QED  BY <1>3, <1>5, <2>1 DEF Protocol, OwnMessages, Only
<1>10. CASE m = "heartbeat"
  <2>1. OnHeartbeat(t)
    BY <1>1, <1>10 DEF TakeMessage
  <2>2. /\ UNCHANGED <<stale, resetPending, resetToken, rpc, resetAcks>>
        /\ armed => armed'
        /\ ~stale /\ ~resetPending => armed'
        /\ \/ armAcks' = armAcks
           \/ armAcks' = armAcks \cup {t} /\ armed'
    BY <1>5, <2>1, HeartbeatTaken
  <2>3. TokensFresh'
    BY <1>1, <1>3, <1>5, <1>6, <2>2 DEF Protocol, TokensFresh
  <2>4. CASE t # token
    <3>1. stray' = stray \cup {"arm"}
      BY <1>1, <1>10, <2>4 DEF Astray
    <3>2. "arm" \in stray' /\ ("disarm" \in stray => "disarm" \in stray')
      BY <3>1
    <3>3. token \in armAcks' => token \in armAcks
      BY <2>2, <2>4
    <3>4. Leased' /\ GoalAlwaysWatched'
      BY <1>1, <1>2, <2>2, <3>2, <3>3 DEF Protocol, Leased, OnRoute, GoalAlwaysWatched
    <3> QED
      BY <1>1, <1>2, <1>7, <1>8, <2>3, <3>2, <3>4
      DEF Protocol, ProbesTell, ResetHeld, ReadyMeansReset, GoalKnown
  <2>5. CASE t = token
    <3>1. OnRoute /\ m = "heartbeat"
      BY <1>9, <1>10, <2>5
    <3>2. armed' \/ (stray' = stray /\ armAcks' = armAcks /\ armed' = armed)
      <4>1. CASE ~stale /\ ~resetPending
        BY <2>2, <4>1
      <4>2. CASE stale \/ resetPending
        <5>1. stray' = stray
          BY <1>1, <1>10, <2>5, <4>2 DEF Astray
        <5>2. UNCHANGED watchdogVars
          BY <1>5, <2>1, <4>2 DEF OnHeartbeat
        <5> QED  BY <5>1, <5>2 DEF watchdogVars, latchVars
      <4> QED  BY <4>1, <4>2
    <3>3. Leased' /\ GoalAlwaysWatched'
      BY <1>1, <1>2, <3>2 DEF Protocol, Leased, OnRoute, GoalAlwaysWatched
    <3>4. pc # "readying" /\ pc # "ready"
      BY <3>1 DEF OnRoute
    <3> QED
      BY <1>1, <1>2, <1>7, <1>8, <2>3, <3>3, <3>4
      DEF Protocol, ProbesTell, ResetHeld, ReadyMeansReset, GoalKnown
  <2> QED  BY <2>4, <2>5
<1>11. CASE m # "heartbeat"
  <2>1. PICK r \in {t, NoToken} : BeginReset(r) \/ OnResetRequest(r)
    BY <1>1, <1>11 DEF TakeMessage, OnHeartbeat
  <2>2. /\ UNCHANGED <<stale, rpc, armAcks, resetAcks>>
        /\ armed' => armed
        /\ resetToken' \in {resetToken, r}
    BY <2>1, ResetTaken
  <2>3. TokensFresh'
    BY <1>1, <1>3, <1>5, <1>6, <2>2 DEF Protocol, TokensFresh
  <2>4. CASE t # token
    <3>1. stray' = stray \cup {"disarm"}
      BY <1>1, <1>11, <2>4 DEF Astray
    <3>2. "disarm" \in stray' /\ ("arm" \notin stray' => "arm" \notin stray)
      BY <3>1
    <3>3. Leased' /\ GoalAlwaysWatched'
      BY <3>2 DEF Leased, GoalAlwaysWatched
    <3>4. ResetHeld' /\ ReadyMeansReset'
      BY <1>1, <1>2, <2>2, <3>2 DEF Protocol, ResetHeld, ReadyMeansReset
    <3> QED
      BY <1>1, <1>2, <1>7, <1>8, <2>3, <3>3, <3>4 DEF Protocol, ProbesTell, GoalKnown
  <2>5. CASE t = token
    <3>1. pc = "readying" /\ goal = "none"
      BY <1>9, <1>11, <2>5
    <3>2. stray' = stray
      BY <1>1, <1>11, <2>5 DEF Astray
    <3>3. ResetHeld' /\ ReadyMeansReset'
      BY <1>1, <1>2, <2>2, <3>2 DEF Protocol, ResetHeld, ReadyMeansReset
    <3> QED
      BY <1>1, <1>2, <1>7, <1>8, <2>3, <3>1, <3>3
      DEF Protocol, ProbesTell, Leased, OnRoute, GoalKnown, GoalAlwaysWatched
  <2> QED  BY <2>4, <2>5
<1> QED  BY <1>10, <1>11

\* The watchdog takes a reset request of the Coyote node.
LEMMA HandoffKeeps ==
  ASSUME LeaseTypeOK, Protocol, WatchdogTypeOK', NEW t \in CoyoteTokens, Handoff(t)
  PROVE  LeaseTypeOK' /\ Protocol'
<1>1. /\ OnResetRequest(t) /\ stray' = stray \cup {"disarm"}
      /\ UNCHANGED <<pc, token, nextToken, cancel, uncertain, routeVars, probeVars,
                     serverVars, link>>
  BY DEF Handoff
<1>2. UNCHANGED <<goalMayBeActive, probe, rounds, goal, reply, result>>
  BY <1>1 DEF routeVars, probeVars, serverVars
<1>3. /\ UNCHANGED <<stale, rpc, armAcks, resetAcks>>
      /\ armed' => armed
      /\ resetToken' \in {resetToken, t}
  BY <1>1, ResetTaken
<1>4. LeaseTypeOK'
  <2>1. stray' \in SUBSET {"arm", "disarm"}
    BY <1>1 DEF LeaseTypeOK
  <2> QED  BY <1>1, <2>1 DEF LeaseTypeOK, routeVars, probeVars, serverVars
<1>5. TokensFresh'
  <2>1. \A u \in nextToken .. MaxToken : u \in 1 .. MaxToken /\ u # t
    BY LeaseTypes
  <2> QED  BY <1>1, <1>3, <2>1 DEF Protocol, TokensFresh
<1>6. "disarm" \in stray' /\ ("arm" \notin stray' => "arm" \notin stray)
  BY <1>1
<1>7. Leased' /\ GoalAlwaysWatched'
  BY <1>6 DEF Leased, GoalAlwaysWatched
<1>8. ResetHeld' /\ ReadyMeansReset'
  BY <1>1, <1>2, <1>3, <1>6 DEF Protocol, ResetHeld, ReadyMeansReset
<1> QED
  BY <1>1, <1>2, <1>4, <1>5, <1>7, <1>8
  DEF Protocol, ProbesTell, OwnMessages, OnRoute, Only, GoalKnown

-----------------------------------------------------------------------------
(* The theorems.                                                           *)

\* Every step of the lease is a step of the watchdog or leaves it alone.
LEMMA WatchdogRuns ==
  ASSUME LeaseTypeOK, [LeaseNext]_vars
  PROVE  [WatchdogNext]_watchdogVars
<1>1. CASE UNCHANGED vars
  BY <1>1 DEF vars
<1>2. CASE Client
  BY <1>2 DEF Client, StartReadiness, SendProbe, TakeProbe, TakeStatus, RequestReset,
     DropReset, FinishReadiness, ReadinessTimeout, StartRoute, SkipRoute, SendHeartbeat,
     Armed, GiveUpBeforeGoal, SendGoal, DecideToStop, TakeAccepted, TakeRejected,
     GoalTimeout, TakeFailure, TakeSuccess, ArrivalMismatch, NextWaypoint, LeaveRoute,
     CancelActive, Crash
<1>3. CASE Server
  BY <1>3 DEF Server, ServerAnswers, ServerFinishes, ServerCancels, ServerProbed,
     ServerAccepts, ServerRefuses, WatchdogNext, Environment
<1>4. CASE Watchdog
  BY <1>4 DEF Watchdog, WatchdogNext, Environment
<1>5. ASSUME NEW t \in CoyoteTokens, Handoff(t)
      PROVE  [WatchdogNext]_watchdogVars
  <2>1. t \in Tokens
    BY LeaseTypes
  <2> QED  BY <1>5, <2>1 DEF Handoff, WatchdogNext, Environment, ClientMessage
<1>6. ASSUME NEW t \in 1 .. MaxToken, Deliver(t) \/ Lose(t)
      PROVE  [WatchdogNext]_watchdogVars
  <2>1. CASE Deliver(t)
    <3>1. t \in Tokens
      BY LeaseTypes
    <3> QED  BY <2>1, <3>1 DEF Deliver, TakeMessage, WatchdogNext, Environment, ClientMessage
  <2>2. CASE Lose(t)
    BY <2>2 DEF Lose
  <2> QED  BY <1>6, <2>1, <2>2
<1> QED  BY <1>1, <1>2, <1>3, <1>4, <1>5, <1>6 DEF LeaseNext, Link

LEMMA LeaseInvInit == LeaseInit => LeaseIInv
<1> SUFFICES ASSUME LeaseInit
             PROVE  LeaseIInv
  OBVIOUS
<1>1. WatchdogInv
  BY WatchdogInvInit DEF LeaseInit
<1>2. WatchdogTypeOK
  BY <1>1 DEF WatchdogInv
<1>3. /\ link \in [1 .. MaxToken -> Seq(Messages)]
      /\ \A t \in 1 .. MaxToken : link[t] = <<>> /\ Len(link[t]) <= LinkDepth
  BY LeaseAssumption DEF LeaseInit, LeaseAssumption
<1>4. LeaseTypeOK
  <2>1. /\ nextToken \in 1 .. MaxToken + 1 /\ waypoint \in 1 .. RouteLength
        /\ retries \in 0 .. 1 /\ rounds \in 0 .. 2
    BY LeaseAssumption DEF LeaseInit, LeaseAssumption
  <2>2. /\ cancel \in BOOLEAN /\ uncertain \in BOOLEAN /\ goalMayBeActive \in BOOLEAN
        /\ stopping \in BOOLEAN /\ probeError \in BOOLEAN /\ cancelSent \in BOOLEAN
    BY DEF LeaseInit
  <2>3. /\ pc = "idle" /\ token = NoToken /\ probe = "none"
        /\ goal = "none" /\ reply = "none" /\ result = "none" /\ stray = {}
    BY DEF LeaseInit
  <2> QED  BY <1>2, <1>3, <2>1, <2>2, <2>3 DEF LeaseTypeOK
<1>5. TokensFresh
  <2>1. \A t \in nextToken .. MaxToken : t \in 1 .. MaxToken /\ t # NoToken
    BY <1>4, LeaseTypes
  <2> QED  BY <1>3, <2>1 DEF LeaseInit, WatchdogInit, TokensFresh
<1>6. Protocol
  BY <1>5 DEF LeaseInit, Protocol, ProbesTell, OwnMessages, OnRoute, ResetHeld,
     ReadyMeansReset, Leased, GoalKnown, GoalAlwaysWatched
<1> QED  BY <1>1, <1>4, <1>6 DEF LeaseIInv

LEMMA LeaseInvStep == LeaseIInv /\ [LeaseNext]_vars => LeaseIInv'
<1> SUFFICES ASSUME LeaseIInv, [LeaseNext]_vars
             PROVE  LeaseIInv'
  OBVIOUS
<1>0. LeaseTypeOK /\ WatchdogInv /\ Protocol
  BY DEF LeaseIInv
<1>1. WatchdogInv'
  BY <1>0, WatchdogRuns, WatchdogInvStep
<1>2. WatchdogTypeOK'
  BY <1>1 DEF WatchdogInv
<1> SUFFICES LeaseTypeOK' /\ Protocol'
  BY <1>1 DEF LeaseIInv
<1>3. CASE UNCHANGED vars
  <2>1. UNCHANGED <<pc, token, nextToken, cancel, uncertain, goalMayBeActive, stopping,
                    waypoint, retries, probe, rounds, probeError, goal, reply,
                    result, cancelSent, link, stray>>
    BY <1>3 DEF vars, leaseVars, routeVars, probeVars, serverVars, linkVars
  <2>2. UNCHANGED <<armed, stale, resetToken, rpc, armAcks, resetAcks>>
    BY <1>3 DEF vars, watchdogVars, latchVars
  <2>3. LeaseTypeOK'
    BY <1>0, <1>2, <2>1 DEF LeaseTypeOK
  <2> QED
    BY <1>0, <2>1, <2>2, <2>3
    DEF Protocol, TokensFresh, ProbesTell, OwnMessages, OnRoute, Only, ResetHeld,
        ReadyMeansReset, Leased, GoalKnown, GoalAlwaysWatched
<1>4. CASE Client
  BY <1>0, <1>2, <1>4, ReadinessTypes, ReadinessSteps, RequestResetKeeps, RouteTypes,
     StartRouteKeeps, RouteSteps, SendHeartbeatKeeps, WaypointSteps, RouteEnds,
     CrashKeeps DEF Client, Readings
<1>5. CASE ServerAnswers \/ ServerFinishes \/ ServerCancels \/ ServerProbed
  BY <1>0, <1>2, <1>5, ServerSteps
<1>6. ASSUME NEW s \in Services, ServerAccepts(s) \/ ServerRefuses(s)
      PROVE  LeaseTypeOK' /\ Protocol'
  <2>1. Answer(s, "accepted") \/ Answer(s, "refused")
    BY <1>6 DEF ServerAccepts, ServerRefuses
  <2>2. OwnStep
    BY <1>0, <2>1, OwnSteps
  <2>3. /\ UNCHANGED <<pc, token, nextToken, cancel, uncertain, routeVars, probeVars,
                       reply, result, cancelSent, linkVars>>
        /\ goal' = goal \/ (goal = "executing" /\ goal' = "canceling")
    BY <1>6 DEF ServerAccepts, ServerRefuses, leaseVars, serverVars
  <2> QED  BY <1>0, <1>2, <2>2, <2>3, WatchdogSteps
<1>7. CASE Watchdog
  <2>1. OwnStep
    BY <1>0, <1>7, OwnSteps DEF Watchdog
  <2>2. /\ UNCHANGED <<pc, token, nextToken, cancel, uncertain, routeVars, probeVars,
                       reply, result, cancelSent, linkVars>>
        /\ goal' = goal
    BY <1>7 DEF Watchdog, leaseVars, serverVars
  <2> QED  BY <1>0, <1>2, <2>1, <2>2, WatchdogSteps
<1>8. CASE Link
  BY <1>0, <1>2, <1>8, HandoffKeeps, DeliverKeeps, LoseKeeps DEF Link
<1> QED  BY <1>3, <1>4, <1>5, <1>6, <1>7, <1>8 DEF LeaseNext, Server

\* The inductive invariant holds in every reachable state of the protocol.
THEOREM LeaseInvariant == LeaseSpec => []LeaseIInv
  BY LeaseInvInit, LeaseInvStep, PTL DEF LeaseSpec

\* When readiness is granted no goal is left and the watchdog has been reset,
\* unless a heartbeat of another publisher came in after the handshake began.
THEOREM ReadinessIsFresh == LeaseSpec => []LeaseInv
<1>1. LeaseIInv => LeaseInv
  BY DEF LeaseIInv, Protocol, LeaseInv
<1> QED  BY <1>1, LeaseInvariant, PTL

\* From the moment a goal leaves the client until the server has ended it, the
\* watchdog is armed, or a reset or a disarm of another publisher than the one
\* in use has taken the watch off: through lost and late messages, timeouts, an
\* uncertain end of the route, crashes and restarts nothing else can.
THEOREM GoalsAreWatched == LeaseSpec => []GoalAlwaysWatched
<1>1. LeaseIInv => GoalAlwaysWatched
  BY DEF LeaseIInv, Protocol
<1> QED  BY <1>1, LeaseInvariant, PTL

\* What can be published by a step that transmits m of a token, and by one that
\* only takes messages off the link.
LEMMA OnlyTransmitPublishes ==
  ASSUME LeaseTypeOK, NEW t \in 1 .. MaxToken, NEW m \in Messages, Transmit(t, m)
  PROVE  \A u \in 1 .. MaxToken, n \in Messages : Publishes(u, n) => u = t /\ n = m
<1>1. \A u \in 1 .. MaxToken : u # t => link'[u] = link[u]
  BY TransmitLink
<1>2. link'[t][Len(link'[t])] = m
  BY TransmitLink
<1> QED  BY <1>1, <1>2 DEF Publishes

LEMMA TakingPublishesNothing ==
  ASSUME LeaseTypeOK, NEW t \in 1 .. MaxToken, link[t] # <<>>, link' = [link EXCEPT ![t] = Tail(@)]
  PROVE  \A u \in 1 .. MaxToken, n \in Messages : ~Publishes(u, n)
<1>1. \A u \in 1 .. MaxToken : Len(link'[u]) < Len(link[u]) \/ link'[u] = link[u]
  BY TakenLink
<1>2. \A u \in 1 .. MaxToken : Len(link'[u]) \in Nat /\ Len(link[u]) \in Nat
  BY LeaseTypes, TakenLink
<1> QED  BY <1>1, <1>2 DEF Publishes

\* A disarm or a reset request leaves the client only over a goal that is over.
LEMMA DisarmStep ==
  ASSUME LeaseTypeOK, Protocol, [LeaseNext]_vars, NEW u \in 1 .. MaxToken,
         Publishes(u, "disarm") \/ Publishes(u, "reset")
  PROVE  goal = "none"
<1>0. /\ "disarm" \in Messages /\ "reset" \in Messages /\ "heartbeat" \in Messages
      /\ "disarm" # "heartbeat" /\ "reset" # "heartbeat" /\ "disarm" # "reset"
  BY DEF Messages
<1>1. link' # link
  BY DEF Publishes
<1>2. ASSUME NEW reading \in Readings, RequestReset(reading)
      PROVE  goal = "none"
  BY <1>2, RequestsWithoutGoal
<1>3. ASSUME NEW reading \in Readings, SendHeartbeat(reading)
      PROVE  FALSE
  <2>1. Transmit(token, "heartbeat") /\ token \in 1 .. MaxToken
    BY <1>3, LeaseTypes DEF SendHeartbeat, Protocol, OwnMessages, OnRoute
  <2> QED  BY <1>0, <2>1, OnlyTransmitPublishes
<1>4. ASSUME LeaveRoute(TRUE)
      PROVE  FALSE
  BY <1>1, <1>4 DEF LeaveRoute
<1>5. CASE Client
  <2>1. \/ \E reading \in Readings : RequestReset(reading) \/ SendHeartbeat(reading)
        \/ GiveUpBeforeGoal \/ TakeRejected \/ GoalTimeout \/ TakeFailure
        \/ ArrivalMismatch \/ NextWaypoint
    BY <1>1, <1>5 DEF Client, StartReadiness, SendProbe, TakeProbe, TakeStatus, DropReset,
       FinishReadiness, ReadinessTimeout, StartRoute, SkipRoute, Armed, SendGoal,
       DecideToStop, TakeAccepted, TakeSuccess, CancelActive, Crash, linkVars
  <2>2. CASE GiveUpBeforeGoal \/ ArrivalMismatch \/ NextWaypoint
    BY <2>2 DEF GiveUpBeforeGoal, ArrivalMismatch, NextWaypoint, Protocol, GoalKnown
  <2>3. CASE TakeRejected
    <3>1. reply = "rejected" /\ pc = "accepting"
      BY <1>4, <2>3 DEF TakeRejected
    <3> QED  BY <3>1 DEF Protocol, GoalKnown
  <2>4. CASE GoalTimeout
    <3>1. goalMayBeActive = TRUE
      BY <2>4 DEF GoalTimeout, Protocol, GoalKnown, LeaseTypeOK
    <3> QED  BY <1>4, <2>4, <3>1 DEF GoalTimeout
  <2>5. CASE TakeFailure
    BY <2>5 DEF TakeFailure, Protocol, GoalKnown
  <2> QED  BY <1>2, <1>3, <2>1, <2>2, <2>3, <2>4, <2>5
<1>6. ASSUME NEW t \in CoyoteTokens, Handoff(t)
      PROVE  FALSE
  BY <1>1, <1>6 DEF Handoff
<1>7. CASE Link
  <2>1. PICK t \in 1 .. MaxToken : link[t] # <<>> /\ link' = [link EXCEPT ![t] = Tail(@)]
    BY <1>6, <1>7 DEF Link, Deliver, Lose
  <2> QED  BY <1>0, <2>1, TakingPublishesNothing
<1>8. CASE Server \/ Watchdog \/ UNCHANGED vars
  BY <1>1, <1>8 DEF Server, ServerAnswers, ServerFinishes, ServerCancels, ServerProbed,
     ServerAccepts, ServerRefuses, Watchdog, leaseVars, linkVars, vars
<1> QED  BY <1>5, <1>7, <1>8 DEF LeaseNext

\* The patrol client never publishes a disarm or a reset request while a goal
\* may reach the robot, its own or one a predecessor left behind.
THEOREM GoalsAreNotDisarmed == LeaseSpec => DisarmsOnlyWhenIdle
<1>1. LeaseIInv /\ [LeaseNext]_vars =>
        [\A t \in 1 .. MaxToken : Publishes(t, "disarm") \/ Publishes(t, "reset")
                              => goal = "none"]_vars
  <2> SUFFICES ASSUME LeaseIInv, [LeaseNext]_vars, NEW t \in 1 .. MaxToken,
                      Publishes(t, "disarm") \/ Publishes(t, "reset")
               PROVE  goal = "none"
    OBVIOUS
  <2> QED  BY DisarmStep DEF LeaseIInv
<1> QED  BY <1>1, LeaseInvariant, PTL DEF LeaseSpec, DisarmsOnlyWhenIdle

\* The protocol runs the watchdog as specified on its own: what is proved of
\* the watchdog under arbitrary clients holds of it under these.
THEOREM LeaseRunsWatchdog == LeaseSpec => WatchdogSpec
<1>1. LeaseInit => WatchdogInit
  BY DEF LeaseInit
<1>2. LeaseIInv /\ [LeaseNext]_vars => [WatchdogNext]_watchdogVars
  BY WatchdogRuns DEF LeaseIInv
<1> QED  BY <1>1, <1>2, LeaseInvariant, PTL DEF LeaseSpec, WatchdogSpec

\* The lease protocol as a whole is a fail-safe: under its clients, too, the
\* watchdog trips, cancels and recovers as the abstract one does.
THEOREM LeaseImplementsFailSafe == LeaseSpec => ImplementsFailSafe
BY LeaseRunsWatchdog, WatchdogImplementsFailSafe
=============================================================================
