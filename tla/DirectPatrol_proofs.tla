------------------------- MODULE DirectPatrol_proofs -------------------------
(***************************************************************************)
(* Proofs about DirectPatrol, for any number of return-home threads alive  *)
(* at the same time and any loop limit.                                    *)
(***************************************************************************)
EXTENDS DirectPatrol, TLAPS

USE PatrolAssumption DEF PatrolAssumption

-----------------------------------------------------------------------------
(* The inductive invariant.                                                *)

\* Only RETURN_HOME comes from the internal mission subscriber; each worker
\* keeps to the stages of its own thread function.
StagesKept ==
  /\ op["ros"] \in {"idle", "return"}
  /\ pc[Patrol] \notin {"joining", "spinOpening", "spinWaiting", "spinAccepting",
                        "spinning", "spun"}
  /\ \A r \in Returns : pc[r] \notin {"captured", "saving", "looping", "prepared"}

\* One thread at most is between rclpy.init and rclpy.shutdown, and the
\* context stays up for it.
SessionsKept ==
  /\ \A t \in Workers : InSession(t) =>
       /\ context /\ op["mqtt"] # "capturing"
       /\ \A u \in Workers : InSession(u) => t = u
  /\ op["mqtt"] = "capturing" => context

\* A return-home that is about to join the patrol thread knows that it lives,
\* or it has been overtaken by a START.
JoinsKept ==
  \A r \in Returns :
    pc[r] = "joining" /\ Alive(Patrol) => joins[r] \/ overlapped

PatrolIInv ==
  /\ PatrolTypeOK /\ StagesKept /\ SessionsKept /\ JoinsKept
  /\ ReturnAfterPatrol /\ StopReachesPatrol

-----------------------------------------------------------------------------
(* Steps.                                                                  *)

LEMMA PatrolIInvInit == Init => PatrolIInv
<1> SUFFICES ASSUME Init PROVE PatrolIInv
  OBVIOUS
<1> USE DEF Init, Workers, Callers
<1>1. PatrolTypeOK
  BY DEF PatrolTypeOK, Kinds, Stages, Answers
<1>2. StagesKept /\ SessionsKept /\ JoinsKept
  BY DEF StagesKept, SessionsKept, JoinsKept, InSession, Alive
<1>3. ReturnAfterPatrol /\ StopReachesPatrol
  BY DEF ReturnAfterPatrol, StopReachesPatrol, Alive
<1> QED  BY <1>1, <1>2, <1>3 DEF PatrolIInv

\* START.
LEMMA StartStep == PatrolIInv /\ Start => PatrolIInv'
<1> SUFFICES ASSUME PatrolIInv, Start PROVE PatrolIInv'
  OBVIOUS
<1> USE DEF PatrolIInv, Start, Workers, Callers, flags, goals
<1>1. PatrolTypeOK'
  BY DEF PatrolTypeOK, Kinds, Stages, Answers
<1>2. StagesKept'
  BY DEF StagesKept, PatrolTypeOK
<1>3. SessionsKept'
  BY DEF SessionsKept, PatrolTypeOK, InSession
<1>4. JoinsKept'
  BY DEF JoinsKept, PatrolTypeOK, Alive
<1>5. ReturnAfterPatrol'
  <2> SUFFICES ASSUME NEW r \in Returns, pc'[r] # "none" PROVE overlapped'
    BY DEF ReturnAfterPatrol
  <2>1. pc \in [Workers -> Stages] /\ pc' = [pc EXCEPT ![Patrol] = "boot"]
    BY DEF PatrolTypeOK, Kinds, Stages, Answers
  <2>2. pc'[r] = pc[r]
    BY <2>1
  <2>3. \E u \in Returns : Alive(u)
    BY <2>2 DEF Alive
  <2> QED  BY <2>3
<1>6. StopReachesPatrol'
  BY DEF StopReachesPatrol
<1> QED  BY <1>1, <1>2, <1>3, <1>4, <1>5, <1>6

\* The first half of stop().
LEMMA RaiseStopStep ==
  ASSUME PatrolIInv, NEW c \in Callers, NEW kind, RaiseStop(c, kind),
         kind \in {"stop", "interrupt", "trigger", "return", "reset"},
         c = "ros" => kind = "return", latched' \in BOOLEAN
  PROVE  PatrolIInv'
<1> USE DEF PatrolIInv, RaiseStop, Workers, Callers, goals
<1>1. PatrolTypeOK'
  BY DEF PatrolTypeOK, Kinds
<1>2. StagesKept'
  BY DEF StagesKept, PatrolTypeOK
<1>3. SessionsKept'
  BY DEF SessionsKept, PatrolTypeOK, InSession
<1>4. JoinsKept' /\ ReturnAfterPatrol'
  BY DEF JoinsKept, ReturnAfterPatrol, Alive
<1>5. ~StopSettled'
  BY DEF StopSettled, PatrolTypeOK
<1>6. StopReachesPatrol'
  BY <1>5 DEF StopReachesPatrol
<1> QED  BY <1>1, <1>2, <1>3, <1>4, <1>6

\* Every command and every detection.
LEMMA CallerStep == PatrolIInv /\ Caller => PatrolIInv'
<1> SUFFICES ASSUME PatrolIInv, Caller PROVE PatrolIInv'
  OBVIOUS
<1>0. latched \in BOOLEAN
  BY DEF PatrolIInv, PatrolTypeOK
<1>1. CASE Start
  BY <1>1, StartStep
<1>2. CASE Stop \/ Interrupt \/ Trigger \/ Reset
  BY <1>0, <1>2, RaiseStopStep DEF Stop, Interrupt, Trigger, Reset, Callers
<1>3. CASE EmergencyStop
  BY <1>3, RaiseStopStep DEF EmergencyStop, Callers
<1>4. ASSUME NEW c \in Callers, ReturnHome(c) PROVE PatrolIInv'
  BY <1>0, <1>4, RaiseStopStep DEF ReturnHome
<1> QED  BY <1>1, <1>2, <1>3, <1>4 DEF Caller

\* The second half of stop(), and the return-home thread it may start.
LEMMA RaiseCancelStep ==
  ASSUME PatrolIInv, NEW c \in Callers, RaiseCancel(c)
  PROVE  PatrolIInv'
<1> USE DEF PatrolIInv, Workers
<1>1. /\ cancel' = TRUE
      /\ UNCHANGED <<stop, context, loops, requested, driving, answer, overlapped>>
  BY DEF RaiseCancel, goals
<1>2. /\ op' \in [Callers -> Kinds]
      /\ \A d \in Callers : \/ op'[d] = op[d] \/ op'[d] = "idle"
                            \/ op[d] = "trigger" /\ op'[d] = "capture"
  BY DEF RaiseCancel, PatrolTypeOK, Kinds
<1>3. latched' \in BOOLEAN /\ home' \in BOOLEAN /\ spin' \in [Returns -> BOOLEAN]
  BY DEF RaiseCancel, PatrolTypeOK
<1>4. \/ UNCHANGED <<pc, joins>>
      \/ \E r \in Returns : /\ ~Alive(r)
                            /\ pc' = [pc EXCEPT ![r] = "joining"]
                            /\ joins' = [joins EXCEPT ![r] = Alive(Patrol)]
  BY DEF RaiseCancel
<1>5. pc' \in [Workers -> Stages] /\ joins' \in [Returns -> BOOLEAN]
  BY <1>4 DEF PatrolTypeOK, Alive, Stages
<1>6. /\ pc'[Patrol] = pc[Patrol]
      /\ \A t \in Workers : pc'[t] = pc[t] \/ pc'[t] = "joining"
      /\ \A r \in Returns :
           \/ pc'[r] = pc[r] /\ joins'[r] = joins[r]
           \/ pc'[r] = "joining" /\ joins'[r] = (pc[Patrol] # "none")
  BY <1>4 DEF PatrolTypeOK, Alive
<1>7. PatrolTypeOK'
  BY <1>1, <1>2, <1>3, <1>5 DEF PatrolTypeOK
<1>8. StagesKept'
  BY <1>2, <1>6 DEF StagesKept, Callers
<1>9. SessionsKept'
  BY <1>1, <1>2, <1>6 DEF SessionsKept, InSession, Callers
<1>10. JoinsKept'
  BY <1>1, <1>6 DEF JoinsKept, Alive
<1>11. ReturnAfterPatrol'
  BY <1>1, <1>6 DEF ReturnAfterPatrol, Alive
<1>12. StopReachesPatrol'
  BY <1>1 DEF StopReachesPatrol
<1> QED  BY <1>7, <1>8, <1>9, <1>10, <1>11, <1>12

\* capture_home.
LEMMA CaptureStep == PatrolIInv /\ (OpenCapture \/ CloseCapture) => PatrolIInv'
<1> SUFFICES ASSUME PatrolIInv, OpenCapture \/ CloseCapture PROVE PatrolIInv'
  OBVIOUS
<1> USE DEF PatrolIInv
<1>1. /\ UNCHANGED <<stop, cancel, latched, pc, joins, spin, loops, requested, driving,
                     answer, overlapped>>
      /\ home' \in BOOLEAN /\ context' \in BOOLEAN
  BY DEF OpenCapture, CloseCapture, flags, goals, PatrolTypeOK
<1>2. /\ op["mqtt"] \in {"capture", "capturing"}
      /\ op' \in [Callers -> Kinds] /\ op'["ros"] = op["ros"]
  BY DEF OpenCapture, CloseCapture, PatrolTypeOK, Kinds, Callers
<1>3. \/ op["mqtt"] = "capture" /\ ~context /\ context' /\ op'["mqtt"] = "capturing"
      \/ op["mqtt"] = "capture" /\ context /\ context' /\ op'["mqtt"] = "idle"
      \/ op["mqtt"] = "capture" /\ context' = context /\ op'["mqtt"] = "idle"
      \/ op["mqtt"] = "capturing" /\ ~context' /\ op'["mqtt"] = "idle"
  BY DEF OpenCapture, CloseCapture, PatrolTypeOK, Callers
<1>4. PatrolTypeOK'
  BY <1>1, <1>2, <1>3 DEF PatrolTypeOK
<1>5. StagesKept'
  BY <1>1, <1>2 DEF StagesKept
<1>6. SessionsKept'
  BY <1>1, <1>3 DEF SessionsKept, InSession
<1>7. JoinsKept' /\ ReturnAfterPatrol'
  BY <1>1 DEF JoinsKept, ReturnAfterPatrol, Alive
<1>8. StopSettled' => StopSettled
  BY <1>2 DEF StopSettled, Callers
<1>9. StopReachesPatrol'
  BY <1>1, <1>8 DEF StopReachesPatrol
<1> QED  BY <1>4, <1>5, <1>6, <1>7, <1>9

-----------------------------------------------------------------------------
(* The worker threads.  Every step of one of them moves one thread, and    *)
(* what the invariant needs to know of it is the same for all of them.     *)

SessionStages == {"capturing", "waiting", "accepting", "running", "canceling",
                  "spinWaiting", "spinAccepting", "spinning"}

PastLook == {"opening", "waiting", "accepting", "running", "canceling"}

\* Thread t goes on to the stage there.
WorkerMoves(t, there) ==
  /\ UNCHANGED <<stop, latched, op, overlapped>>
  /\ pc' = [pc EXCEPT ![t] = there] /\ pc[t] # "none" /\ there # "joining"
  /\ t = Patrol => there \notin {"spinOpening", "spinWaiting", "spinAccepting",
                                "spinning", "spun"}
  /\ t \in Returns => there \notin {"captured", "saving", "looping", "prepared"}
  /\ joins' = joins \/ (t = Patrol /\ there = "none")
  /\ pc[t] = "joining" => there = "none" \/ ~joins[t]
  /\ \/ context' = context /\ (there \in SessionStages => pc[t] \in SessionStages)
     \/ ~context /\ context'
     \/ ~context' /\ pc[t] \in SessionStages /\ there \notin SessionStages
  /\ t = Patrol /\ there \in PastLook => pc[t] \in PastLook \/ ~stop
  /\ cancel' = cancel \/ (pc[t] = "preparing" /\ there \in {"prepared", "opening"})

\* The types of what else such a step changes.
DataOK ==
  /\ cancel \in BOOLEAN /\ home \in BOOLEAN /\ context \in BOOLEAN
  /\ joins \in [Returns -> BOOLEAN]
  /\ spin \in [Returns -> BOOLEAN]
  /\ loops \in Nat /\ (loops = 0 \/ loops < MaxLoops)
  /\ requested \subseteq Workers \cup {Orphan}
  /\ driving \subseteq Workers \cup {Orphan}
  /\ answer \in [Workers -> Answers]

LEMMA WorkerKeepsInv ==
  ASSUME PatrolIInv, NEW t \in Workers, NEW there \in Stages,
         WorkerMoves(t, there), DataOK'
  PROVE  PatrolIInv'
<1> USE DEF PatrolIInv, WorkerMoves, Workers
<1>1. PatrolTypeOK'
  BY DEF PatrolTypeOK, DataOK
<1>2. /\ pc \in [Workers -> Stages] /\ pc'[t] = there
      /\ \A u \in Workers : u # t => pc'[u] = pc[u]
  BY DEF PatrolTypeOK
<1>3. StagesKept'
  BY <1>2 DEF StagesKept
<1>4. SessionsKept'
  <2>1. \A u \in Workers : InSession(u)' => InSession(u) \/ (u = t /\ ~context /\ context')
    BY <1>2 DEF InSession, SessionStages
  <2>2. CASE ~context /\ context'
    BY <1>2, <2>1, <2>2 DEF SessionsKept
  <2>3. CASE context' = context
    BY <1>2, <2>1, <2>3 DEF SessionsKept
  <2>4. CASE ~context' /\ pc[t] \in SessionStages /\ there \notin SessionStages
    <3>1. InSession(t) /\ ~InSession(t)'
      BY <1>2, <2>4 DEF InSession, SessionStages
    <3> QED  BY <1>2, <2>1, <3>1, <2>4 DEF SessionsKept
  <2> QED  BY <2>2, <2>3, <2>4
<1>5. JoinsKept'
  BY <1>2 DEF JoinsKept, Alive
<1>6. ReturnAfterPatrol'
  BY <1>2 DEF ReturnAfterPatrol, JoinsKept, Alive
<1>7. StopReachesPatrol'
  <2> SUFFICES ASSUME stop, StopSettled, ~overlapped, pc'[Patrol] \in PastLook
               PROVE  cancel'
    BY DEF StopReachesPatrol, StopSettled, PastLook
  <2>1. pc[Patrol] \in PastLook
    BY <1>2
  <2>2. cancel
    BY <2>1 DEF StopReachesPatrol, PastLook
  <2>3. t # Patrol => pc[t] # "preparing"
    BY <2>1 DEF ReturnAfterPatrol, Alive, PastLook
  <2>4. t = Patrol => pc[t] # "preparing"
    BY <2>1 DEF PastLook
  <2> QED  BY <2>2, <2>3, <2>4
<1> QED  BY <1>1, <1>3, <1>4, <1>5, <1>6, <1>7

\* A thread that has only moved on, or ended, leaves the rest well typed.
LEMMA MovesOn ==
  ASSUME PatrolIInv, NEW t \in Workers, NEW there,
         Goes(t, there) \/ (there = "none" /\ Ends(t))
  PROVE  /\ pc' = [pc EXCEPT ![t] = there]
         /\ joins' = joins \/ (t = Patrol /\ there = "none")
         /\ joins' \in [Returns -> BOOLEAN] /\ spin' \in [Returns -> BOOLEAN]
  BY DEF PatrolIInv, PatrolTypeOK, Goes, Ends, Goto

\* The finally block of a session leaves its data well typed.
LEMMA ClosesSession ==
  ASSUME PatrolIInv, NEW t \in Workers, CloseSession(t)
  PROVE  /\ ~context' /\ context' \in BOOLEAN
         /\ requested' \subseteq Workers \cup {Orphan}
         /\ driving' \subseteq Workers \cup {Orphan}
         /\ answer' \in [Workers -> Answers]
         /\ UNCHANGED <<stop, latched, op, overlapped, cancel, home, loops>>
<1>1. /\ ~context' /\ context' \in BOOLEAN
      /\ UNCHANGED <<stop, latched, op, overlapped, cancel, home, loops>>
  BY DEF CloseSession, callerVars
<1>2. requested \subseteq Workers \cup {Orphan} /\ driving \subseteq Workers \cup {Orphan}
  BY DEF PatrolIInv, PatrolTypeOK
<1>3. requested' \subseteq Workers \cup {Orphan} /\ driving' \subseteq Workers \cup {Orphan}
  BY <1>2 DEF CloseSession
<1>4. answer' \in [Workers -> Answers]
  BY DEF CloseSession, PatrolIInv, PatrolTypeOK, Answers
<1> QED  BY <1>1, <1>3, <1>4

\* Leaving a session, by an exception or by a return value.
LEMMA LeavesSession ==
  ASSUME PatrolIInv, NEW t \in Workers, NEW there \in Stages \ SessionStages,
         pc[t] \in SessionStages,
         Return(t, there) \/ (there = "none" /\ Raise(t)),
         there \in {"none", "failed", "returned"}
           \/ (t = Patrol /\ there = "captured")
           \/ (t \in Returns /\ there \in {"preparing", "spun"})
  PROVE  PatrolIInv'
<1>1. CloseSession(t) /\ (Goes(t, there) \/ (there = "none" /\ Ends(t)))
  BY DEF Return, Raise
<1>2. WorkerMoves(t, there)
  <2>1. /\ ~context' /\ UNCHANGED <<stop, latched, op, overlapped, cancel>>
        /\ pc' = [pc EXCEPT ![t] = there]
        /\ joins' = joins \/ (t = Patrol /\ there = "none")
    BY <1>1, MovesOn, ClosesSession
  <2>2. pc[t] \notin {"none", "joining"} /\ there # "joining" /\ there \notin PastLook
    BY DEF SessionStages, PastLook
  <2> QED  BY <2>1, <2>2 DEF WorkerMoves
<1>3. DataOK'
  BY <1>1, MovesOn, ClosesSession DEF DataOK, PatrolIInv, PatrolTypeOK
<1> QED  BY <1>2, <1>3, WorkerKeepsInv

\* rclpy.init, at the start of a session or in vain.
LEMMA OpensSession ==
  ASSUME PatrolIInv, NEW t \in Workers, NEW here, NEW there \in SessionStages,
         OpenSession(t, here, there), here \notin {"none", "joining"},
         there \in {"capturing", "waiting"} \/ t \in Returns,
         there = "waiting" => here = "opening"
  PROVE  PatrolIInv'
<1> USE DEF OpenSession, callerVars
<1>1. CASE ~context
  <2>1. Goes(t, there) /\ context' = TRUE
    BY <1>1
  <2>2. WorkerMoves(t, there)
    BY <1>1, <2>1, MovesOn DEF WorkerMoves, SessionStages, PastLook
  <2>3. DataOK'
    BY <2>1, MovesOn DEF DataOK, PatrolIInv, PatrolTypeOK, goals
  <2> QED  BY <2>2, <2>3, WorkerKeepsInv DEF SessionStages, Stages
<1>2. CASE context
  <2>1. Ends(t) /\ context' = context
    BY <1>2
  <2>2. WorkerMoves(t, "none")
    BY <2>1, MovesOn DEF WorkerMoves, SessionStages, PastLook
  <2>3. DataOK'
    BY <2>1, MovesOn DEF DataOK, PatrolIInv, PatrolTypeOK, goals
  <2> QED  BY <2>2, <2>3, WorkerKeepsInv DEF Stages
<1> QED  BY <1>1, <1>2

\* Capturing the pose, opening a session, leaving it: RouteStep's sessions.
LEMMA RouteSessionStep ==
  ASSUME PatrolIInv, NEW t \in Workers,
         \/ StartCapture(t) \/ Captured(t) \/ OpenRoute(t)
         \/ ServerUnavailable(t) \/ CanceledBeforeGoal(t)
         \/ TakeRejected(t) \/ AcceptanceTimeout(t)
         \/ CancelTimeout(t) \/ TakeResult(t)
  PROVE  PatrolIInv'
<1> USE DEF SessionStages, Stages, Workers
<1>1. CASE StartCapture(t)
  BY <1>1, OpensSession DEF StartCapture
<1>2. CASE OpenRoute(t)
  BY <1>2, OpensSession DEF OpenRoute
<1>3. CASE Captured(t)
  BY <1>3, LeavesSession DEF Captured
<1>4. CASE ServerUnavailable(t)
  BY <1>4, LeavesSession DEF ServerUnavailable
<1>5. CASE CanceledBeforeGoal(t)
  BY <1>5, LeavesSession DEF CanceledBeforeGoal
<1>6. CASE TakeRejected(t)
  BY <1>6, LeavesSession DEF TakeRejected
<1>7. CASE AcceptanceTimeout(t)
  BY <1>7, LeavesSession DEF AcceptanceTimeout
<1>8. CASE CancelTimeout(t)
  BY <1>8, LeavesSession DEF CancelTimeout
<1>9. CASE TakeResult(t)
  BY <1>9, LeavesSession DEF TakeResult
<1> QED  BY <1>1, <1>2, <1>3, <1>4, <1>5, <1>6, <1>7, <1>8, <1>9

\* PrepareRoute, SendGoal, TakeAccepted and RequestCancel stay within a route.
LEMMA RouteDriveStep ==
  ASSUME PatrolIInv, NEW t \in Workers,
         PrepareRoute(t) \/ SendGoal(t) \/ TakeAccepted(t) \/ RequestCancel(t)
  PROVE  PatrolIInv'
<1> USE DEF SessionStages, Stages, Workers, Local, callerVars, goals
<1>1. CASE PrepareRoute(t)
  <2> DEFINE there == IF t = Patrol THEN "prepared" ELSE "opening"
  <2>1. WorkerMoves(t, there)
    BY <1>1, MovesOn DEF PrepareRoute, WorkerMoves, PastLook
  <2>2. DataOK'
    BY <1>1, MovesOn DEF PrepareRoute, DataOK, PatrolIInv, PatrolTypeOK
  <2> QED  BY <2>1, <2>2, WorkerKeepsInv
<1>2. CASE SendGoal(t)
  <2> DEFINE there == IF pc[t] = "waiting" THEN "accepting" ELSE "spinAccepting"
  <2>0. t = Patrol => pc[t] # "spinWaiting"
    BY DEF PatrolIInv, StagesKept
  <2>1. WorkerMoves(t, there)
    BY <1>2, <2>0, MovesOn DEF SendGoal, WorkerMoves, PastLook
  <2>2. DataOK'
    BY <1>2, MovesOn DEF SendGoal, DataOK, PatrolIInv, PatrolTypeOK
  <2> QED  BY <2>1, <2>2, WorkerKeepsInv
<1>3. CASE TakeAccepted(t)
  <2> DEFINE there == IF pc[t] = "accepting" THEN "running" ELSE "spinning"
  <2>0. t = Patrol => pc[t] # "spinAccepting"
    BY DEF PatrolIInv, StagesKept
  <2>1. WorkerMoves(t, there)
    BY <1>3, <2>0, MovesOn DEF TakeAccepted, WorkerMoves, PastLook
  <2>2. DataOK'
    BY <1>3, MovesOn DEF TakeAccepted, DataOK, PatrolIInv, PatrolTypeOK
  <2> QED  BY <2>1, <2>2, WorkerKeepsInv
<1>4. CASE RequestCancel(t)
  <2>1. WorkerMoves(t, "canceling")
    BY <1>4, MovesOn DEF RequestCancel, WorkerMoves, PastLook
  <2>2. DataOK'
    BY <1>4, MovesOn DEF RequestCancel, DataOK, PatrolIInv, PatrolTypeOK
  <2> QED  BY <2>1, <2>2, WorkerKeepsInv
<1> QED  BY <1>1, <1>2, <1>3, <1>4

\* A look at _stop moves the patrol thread on only while it is not raised.
LEMMA ChecksStop ==
  ASSUME PatrolIInv, NEW here, NEW there \in Stages, CheckStop(here, there),
         here \notin {"none", "joining"},
         there \in {"saving", "preparing", "opening"}
  PROVE  PatrolIInv'
<1> USE DEF CheckStop, Local, callerVars, goals, Workers, Stages
<1>1. CASE stop
  <2>1. WorkerMoves(Patrol, "none")
    BY <1>1, MovesOn DEF WorkerMoves, PastLook, SessionStages
  <2>2. DataOK'
    BY <1>1, MovesOn DEF DataOK, PatrolIInv, PatrolTypeOK
  <2> QED  BY <2>1, <2>2, WorkerKeepsInv
<1>2. CASE ~stop
  <2>1. WorkerMoves(Patrol, there)
    BY <1>2, MovesOn DEF WorkerMoves, PastLook, SessionStages
  <2>2. DataOK'
    BY <1>2, MovesOn DEF DataOK, PatrolIInv, PatrolTypeOK
  <2> QED  BY <2>1, <2>2, WorkerKeepsInv
<1> QED  BY <1>1, <1>2

\* The patrol thread.
LEMMA PatrolThreadStep == PatrolIInv /\ PatrolStep => PatrolIInv'
<1> SUFFICES ASSUME PatrolIInv, PatrolStep PROVE PatrolIInv'
  OBVIOUS
<1>1. CASE RouteStep(Patrol)
  BY <1>1, RouteSessionStep, RouteDriveStep DEF RouteStep, Workers
<1>2. CASE PatrolCaptured \/ PatrolLoops \/ PatrolPrepared
  BY <1>2, ChecksStop DEF PatrolCaptured, PatrolLoops, PatrolPrepared, Stages
<1> USE DEF Local, callerVars, goals, Workers
<1>3. CASE PatrolSaves
  <2>1. WorkerMoves(Patrol, "looping")
    BY <1>3, MovesOn DEF PatrolSaves, WorkerMoves, PastLook, SessionStages
  <2>2. DataOK'
    BY <1>3, MovesOn DEF PatrolSaves, DataOK, PatrolIInv, PatrolTypeOK
  <2> QED  BY <2>1, <2>2, WorkerKeepsInv DEF Stages
<1>4. CASE PatrolReturned
  <2>1. CASE stop \/ pc[Patrol] = "failed" \/ LastLoop
    <3>1. Ends(Patrol) /\ UNCHANGED loops
      BY <1>4, <2>1 DEF PatrolReturned
    <3>2. WorkerMoves(Patrol, "none")
      BY <1>4, <3>1, MovesOn DEF PatrolReturned, WorkerMoves, PastLook, SessionStages
    <3>3. DataOK'
      BY <1>4, <3>1, MovesOn DEF PatrolReturned, DataOK, PatrolIInv, PatrolTypeOK
    <3> QED  BY <3>2, <3>3, WorkerKeepsInv DEF Stages
  <2>2. CASE ~(stop \/ pc[Patrol] = "failed" \/ LastLoop)
    <3>1. /\ Goes(Patrol, "looping")
          /\ loops' = IF MaxLoops = 0 THEN 0 ELSE loops + 1
      BY <1>4, <2>2 DEF PatrolReturned
    <3>2. WorkerMoves(Patrol, "looping")
      BY <1>4, <3>1, MovesOn DEF PatrolReturned, WorkerMoves, PastLook, SessionStages
    <3>3. loops' \in Nat /\ (loops' = 0 \/ loops' < MaxLoops)
      BY <2>2, <3>1 DEF LastLoop, PatrolIInv, PatrolTypeOK
    <3>4. DataOK'
      BY <1>4, <3>1, <3>3, MovesOn DEF PatrolReturned, DataOK, PatrolIInv, PatrolTypeOK
    <3> QED  BY <3>2, <3>4, WorkerKeepsInv DEF Stages
  <2> QED  BY <2>1, <2>2
<1> QED  BY <1>1, <1>2, <1>3, <1>4 DEF PatrolStep

\* A return-home thread.
LEMMA ReturnThreadStep ==
  ASSUME PatrolIInv, NEW r \in Returns, ReturnStep(r)
  PROVE  PatrolIInv'
<1> USE DEF Workers, SessionStages, Stages
<1>1. CASE RouteStep(r)
  BY <1>1, RouteSessionStep, RouteDriveStep DEF RouteStep
<1>2. CASE OpenSpin(r)
  BY <1>2, OpensSession DEF OpenSpin
<1>3. CASE LeaveSpin(r) \/ TakeSpinResult(r)
  BY <1>3, LeavesSession DEF LeaveSpin, TakeSpinResult
<1>4. CASE ReturnJoins(r) \/ ReturnFails(r) \/ ReturnSpins(r) \/ ReturnCompletes(r)
  <2> USE DEF ReturnJoins, ReturnFails, ReturnSpins, ReturnCompletes, Local, callerVars, goals
  <2>1. PICK there \in {"none", "boot", "spinOpening"} :
          /\ Goes(r, there) \/ (there = "none" /\ Ends(r))
          /\ pc[r] = "joining" => there = "none" \/ ~joins[r]
          /\ pc[r] # "none"
          /\ UNCHANGED <<stop, latched, op, overlapped, context, requested, driving,
                         answer, cancel, home, loops>>
    BY <1>4
  <2>2. WorkerMoves(r, there)
    BY <2>1, MovesOn DEF WorkerMoves
  <2>3. DataOK'
    BY <2>1, MovesOn DEF DataOK, PatrolIInv, PatrolTypeOK
  <2> QED  BY <2>2, <2>3, WorkerKeepsInv
<1> QED  BY <1>1, <1>2, <1>3, <1>4 DEF ReturnStep

\* The action servers change nothing but their goals.
LEMMA ServerStep == PatrolIInv /\ Server => PatrolIInv'
<1> SUFFICES ASSUME PatrolIInv, NEW g \in Workers \cup {Orphan},
                    ServerAnswers(g) \/ ServerFinishes(g)
             PROVE  PatrolIInv'
  BY DEF Server
<1>1. UNCHANGED <<stop, cancel, latched, home, context, op, pc, joins, spin, loops, overlapped>>
  BY DEF ServerAnswers, ServerFinishes, clientVars, flags
<1>2. /\ requested' \subseteq Workers \cup {Orphan}
      /\ driving' \subseteq Workers \cup {Orphan}
  BY DEF ServerAnswers, ServerFinishes, PatrolIInv, PatrolTypeOK
<1>3. answer' \in [Workers -> Answers]
  BY DEF ServerAnswers, ServerFinishes, Tell, Answers, PatrolIInv, PatrolTypeOK
<1>4. PatrolTypeOK'
  BY <1>1, <1>2, <1>3 DEF PatrolIInv, PatrolTypeOK
<1>5. StagesKept' /\ SessionsKept' /\ JoinsKept' /\ ReturnAfterPatrol' /\ StopReachesPatrol'
  BY <1>1 DEF PatrolIInv, StagesKept, SessionsKept, JoinsKept, ReturnAfterPatrol,
              StopReachesPatrol, StopSettled, InSession, Alive
<1> QED  BY <1>4, <1>5 DEF PatrolIInv

-----------------------------------------------------------------------------
(* The theorems.                                                           *)

\* The invariant is kept by every caller, thread and server, for any number of
\* return-home threads and any loop limit.
THEOREM PatrolInvariant == Spec => []PatrolIInv
<1>1. Init => PatrolIInv
  BY PatrolIInvInit
<1>2. PatrolIInv /\ [Next]_vars => PatrolIInv'
  <2> SUFFICES ASSUME PatrolIInv, [Next]_vars PROVE PatrolIInv'
    OBVIOUS
  <2>1. CASE Caller
    BY <2>1, CallerStep
  <2>2. CASE CallerGoesOn
    BY <2>2, CaptureStep, RaiseCancelStep DEF CallerGoesOn
  <2>3. CASE PatrolStep
    BY <2>3, PatrolThreadStep
  <2>4. ASSUME NEW r \in Returns, ReturnStep(r) PROVE PatrolIInv'
    BY <2>4, ReturnThreadStep
  <2>5. CASE Server
    BY <2>5, ServerStep
  <2>6. CASE UNCHANGED vars
    <3>1. UNCHANGED <<stop, cancel, latched, home, context, op, pc, joins, spin, loops,
                      requested, driving, answer, overlapped>>
      BY <2>6 DEF vars, flags, goals
    <3> QED  BY <3>1 DEF PatrolIInv, PatrolTypeOK, StagesKept, SessionsKept, JoinsKept,
                         ReturnAfterPatrol, StopReachesPatrol, StopSettled, InSession, Alive
  <2> QED  BY <2>1, <2>2, <2>3, <2>4, <2>5, <2>6 DEF Next
<1> QED  BY <1>1, <1>2, PTL DEF Spec

\* At most one session is open, whoever opened it, and the context is up for it.
LEMMA SessionsExclude == PatrolIInv => OneRosSession
<1> SUFFICES ASSUME PatrolIInv, NEW t \in Sessions, NEW u \in Sessions
             PROVE  t = u /\ context
  BY DEF OneRosSession
<1>1. op["ros"] # "capturing"
  BY DEF PatrolIInv, StagesKept
<1> QED  BY <1>1 DEF PatrolIInv, SessionsKept, Sessions, Callers

\* The run's invariant: the types, and one ROS session at a time (rclpy.init
\* and rclpy.shutdown of the patrol, return-home and capture threads).
THEOREM PatrolSessionsSafe == Spec => []PatrolInv
<1>1. PatrolIInv => PatrolInv
  BY SessionsExclude DEF PatrolInv, PatrolIInv
<1> QED  BY <1>1, PatrolInvariant, PTL

\* A return-home drives only after the patrol it interrupted is gone, however
\* the join timed out (_return_home).
THEOREM ReturnWaitsForPatrol == Spec => []ReturnAfterPatrol
<1>1. PatrolIInv => ReturnAfterPatrol
  BY DEF PatrolIInv
<1> QED  BY <1>1, PatrolInvariant, PTL

\* A STOP that falls between prepare_route and send_route still cancels the
\* route (_run's second look at _stop, cancel_active).
THEOREM StopIsNotLost == Spec => []StopReachesPatrol
<1>1. PatrolIInv => StopReachesPatrol
  BY DEF PatrolIInv
<1> QED  BY <1>1, PatrolInvariant, PTL
=============================================================================
