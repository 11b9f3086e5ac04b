----------------------- MODULE ContinuousPatrol_proofs -----------------------
(***************************************************************************)
(* Proofs about ContinuousPatrol, for any loop limit.                      *)
(***************************************************************************)
EXTENDS ContinuousPatrol, TLAPS

USE ContinuousAssumption DEF ContinuousAssumption

-----------------------------------------------------------------------------
(* The inductive invariant.                                                *)

\* The patrol thread that a return-home found alive is the only one that can
\* be alive when the return-home joins it.
JoinsKnown ==
  op = "return" \/ at["return"] = "joining" => (Alive("patrol") => joins)

\* A preparation only passes the barrier.
PrepareStays == at["prepare"] \in {"none", "barrier"}

\* A return-home looks at no flag before it has joined the patrol thread.
JoinsFirst == \A t \in Threads : at[t] = "joining" => phase[t] = "start"

\* What the MQTT thread's call has done so far, and what a finished stop()
\* leaves behind.
CallsKept ==
  /\ op \in {"stop", "emergency", "reset"} => stop
  /\ op = "return" => ~latched
  /\ halted => stop /\ returnCancel

ContinuousIInv ==
  /\ ContinuousTypeOK /\ OneDriver /\ StopSticks
  /\ JoinsKnown /\ PrepareStays /\ JoinsFirst /\ CallsKept

LEMMA ContinuousIInvInit == Init => ContinuousIInv
<1> SUFFICES ASSUME Init PROVE ContinuousIInv
  OBVIOUS
<1> USE DEF Init, Threads, Workers
<1>1. ContinuousTypeOK
  BY DEF ContinuousTypeOK, Stages, Phases
<1>2. OneDriver /\ StopSticks /\ JoinsKnown /\ PrepareStays /\ JoinsFirst /\ CallsKept
  BY DEF OneDriver, StopSticks, JoinsKnown, PrepareStays, JoinsFirst, CallsKept, Alive
<1> QED  BY <1>1, <1>2 DEF ContinuousIInv

-----------------------------------------------------------------------------
(* The calls.                                                              *)

LEMMA StartStep == ContinuousIInv /\ Start => ContinuousIInv'
<1> SUFFICES ASSUME ContinuousIInv, Start PROVE ContinuousIInv'
  OBVIOUS
<1> USE DEF ContinuousIInv, Start, shared, Threads, Workers
<1>1. ContinuousTypeOK'
  BY DEF ContinuousTypeOK, Stages, Phases
<1>2. /\ at["return"] = "none" /\ at'["return"] = "none"
      /\ at'["prepare"] = at["prepare"]
  BY DEF ContinuousTypeOK, Alive
<1>3. OneDriver'
  BY <1>2 DEF OneDriver
<1>4. StopSticks'
  BY DEF StopSticks
<1>5. JoinsKnown' /\ PrepareStays' /\ CallsKept'
  BY <1>2 DEF JoinsKnown, PrepareStays, CallsKept
<1>6. JoinsFirst'
  BY DEF JoinsFirst, ContinuousTypeOK
<1> QED  BY <1>1, <1>3, <1>4, <1>5, <1>6

\* STOP, EMERGENCY_STOP and RESET move no thread.
LEMMA StopCallStep ==
  ASSUME ContinuousIInv,
         \/ \E kind \in {"stop", "emergency", "reset"} : RaiseStop(kind)
         \/ RaiseReturnCancel \/ RaiseCancel \/ Forget
  PROVE  ContinuousIInv'
<1> USE DEF ContinuousIInv, RaiseStop, RaiseReturnCancel, RaiseCancel, Forget, shared
<1>1. UNCHANGED <<at, phase, joins, loops, lock, host, context>>
  OBVIOUS
<1>2. ContinuousTypeOK'
  BY DEF ContinuousTypeOK
<1>3. OneDriver' /\ PrepareStays' /\ JoinsFirst'
  BY <1>1 DEF OneDriver, PrepareStays, JoinsFirst, Alive
<1>4. JoinsKnown'
  BY <1>1 DEF JoinsKnown, Alive
<1>5. StopSticks' /\ CallsKept'
  BY <1>1 DEF StopSticks, CallsKept
<1> QED  BY <1>2, <1>3, <1>4, <1>5

\* RETURN_HOME, and the thread it starts.
LEMMA ReturnCallStep ==
  ASSUME ContinuousIInv, ReturnHome \/ SendHome
  PROVE  ContinuousIInv'
<1> USE DEF ContinuousIInv, ReturnHome, SendHome, shared, Threads, Workers
<1>1. ContinuousTypeOK'
  BY DEF ContinuousTypeOK, Stages, Phases, Alive
<1>2. /\ at'["patrol"] = at["patrol"] /\ at'["prepare"] = at["prepare"]
      /\ phase'["patrol"] = phase["patrol"]
      /\ at'["return"] \in {at["return"], "joining"}
  BY DEF ContinuousTypeOK
<1>3. OneDriver' /\ PrepareStays'
  BY <1>2 DEF OneDriver, PrepareStays, Alive
<1>4. JoinsKnown'
  BY <1>2 DEF JoinsKnown, Alive
<1>5. StopSticks' /\ CallsKept'
  BY <1>2 DEF StopSticks, CallsKept
<1>6. JoinsFirst'
  BY DEF JoinsFirst, ContinuousTypeOK
<1> QED  BY <1>1, <1>3, <1>4, <1>5, <1>6

-----------------------------------------------------------------------------
(* The threads.                                                            *)

\* Thread t goes on to a stage and a phase of it.
ThreadMoves(t, stage, there) ==
  /\ UNCHANGED <<stop, returnCancel, latched, op, joins, halted>>
  /\ at' = [at EXCEPT ![t] = stage]
  /\ phase' = [phase EXCEPT ![t] = there]
  /\ stage # "none" => at[t] # "none"
  /\ t = "prepare" => stage \in {"none", "barrier"}
  /\ at[t] = "joining" /\ stage # "none" => ~(joins /\ Alive("patrol"))
  /\ stage # "joining"
  /\ stage = "send" /\ there # "test" =>
       at[t] = "send" /\ (phase[t] # "test" \/ ~Quit(t))
  /\ \/ cancel => cancel'
     \/ /\ at[t] \in {"boot", "route", "prepare"}
        /\ stage = "send" => there = "test"

LEMMA ThreadKeepsInv ==
  ASSUME ContinuousIInv, NEW t \in Threads, NEW stage \in Stages, NEW there \in Phases,
         ThreadMoves(t, stage, there),
         cancel' \in BOOLEAN, home' \in BOOLEAN,
         {lock', context'} \subseteq Threads \cup {"none"},
         host' \in {"down", "starting", "up"},
         loops' \in Nat, MaxLoops = 0 => loops' = 0
  PROVE  ContinuousIInv'
<1> USE DEF ContinuousIInv, ThreadMoves, Threads, Workers
<1>1. ContinuousTypeOK'
  BY DEF ContinuousTypeOK
<1>2. /\ at'[t] = stage /\ phase'[t] = there
      /\ \A u \in Threads : u # t => at'[u] = at[u] /\ phase'[u] = phase[u]
  BY DEF ContinuousTypeOK
<1>3. OneDriver'
  BY <1>2 DEF OneDriver, JoinsKnown, Alive
<1>4. JoinsKnown' /\ PrepareStays' /\ JoinsFirst' /\ CallsKept'
  BY <1>2 DEF JoinsKnown, PrepareStays, JoinsFirst, CallsKept, Alive
<1>5. StopSticks'
  <2> SUFFICES ASSUME halted, NEW u \in Workers, at'[u] = "send", phase'[u] # "test"
               PROVE  cancel'
    BY DEF StopSticks
  <2>1. stop /\ returnCancel
    BY DEF CallsKept
  <2>2. at[u] = "send" /\ phase[u] # "test"
    BY <1>2, <2>1 DEF Quit
  <2>3. cancel
    BY <2>2 DEF StopSticks
  <2>4. at[t] \in {"boot", "route", "prepare"} => u # t /\ t \in Workers
    BY <2>2 DEF PrepareStays
  <2>5. at[t] \notin {"boot", "route", "prepare"}
    BY <2>2, <2>4 DEF OneDriver, Alive
  <2> QED  BY <2>3, <2>5
<1> QED  BY <1>1, <1>3, <1>4, <1>5

\* Before sending a route every worker looks at its stop flag.
LEMMA LooksBeforeSend ==
  ASSUME NEW t \in Threads, NEW stage, Goto(t, stage)
  PROVE  \E there \in {"test", "start"} :
           /\ at' = [at EXCEPT ![t] = stage]
           /\ phase' = [phase EXCEPT ![t] = there]
           /\ t \in Workers /\ stage = "send" => there = "test"
<1>1. "send" \in Tested["patrol"] /\ "send" \in Tested["return"]
  BY DEF Tested
<1> QED  BY <1>1 DEF Goto, Threads, Workers

\* The stages in their order.
LEMMA Follows ==
  ASSUME NEW t \in Threads, t = "prepare" => at[t] \in {"none", "barrier"}
  PROVE  /\ at[t] \in {"gate", "barrier", "capture"}
             => Following(t) \in {"capture", "preflight", "route", "prepare", "none"}
         /\ at[t] \in {"boot", "route", "prepare"} => Following(t) \in {"gate", "barrier", "send"}
         /\ t = "prepare" /\ at[t] = "barrier" => Following(t) = "none"
  BY DEF Following

\* A thread that goes to a stage of its own, or ends.
LEMMA GoesOn ==
  ASSUME ContinuousIInv, NEW t \in Threads, NEW stage \in Stages, Goto(t, stage),
         UNCHANGED <<stop, returnCancel, latched, op, joins, halted>>,
         cancel' \in BOOLEAN, home' \in BOOLEAN,
         {lock', context'} \subseteq Threads \cup {"none"},
         host' \in {"down", "starting", "up"},
         loops' \in Nat, MaxLoops = 0 => loops' = 0,
         stage # "none" => at[t] # "none", stage # "joining",
         t = "prepare" => stage \in {"none", "barrier"},
         at[t] = "joining" /\ stage # "none" => ~(joins /\ Alive("patrol")),
         (cancel => cancel') \/ at[t] \in {"boot", "route", "prepare"}
  PROVE  ContinuousIInv'
<1>1. PICK there \in {"test", "start"} :
        /\ at' = [at EXCEPT ![t] = stage]
        /\ phase' = [phase EXCEPT ![t] = there]
        /\ t \in Workers /\ stage = "send" => there = "test"
  BY LooksBeforeSend
<1>2. stage = "send" => t \in Workers
  BY DEF Threads, Workers
<1>3. ThreadMoves(t, stage, there)
  BY <1>1, <1>2 DEF ThreadMoves
<1> QED  BY <1>3, ThreadKeepsInv DEF Phases

\* A thread that stays in its stage.
LEMMA StaysInStage ==
  ASSUME ContinuousIInv, NEW t \in Threads, NEW there \in Phases,
         at' = at, phase' = [phase EXCEPT ![t] = there],
         UNCHANGED <<stop, returnCancel, cancel, latched, home, op, joins, loops, halted>>,
         {lock', context'} \subseteq Threads \cup {"none"},
         host' \in {"down", "starting", "up"},
         at[t] # "joining",
         at[t] = "send" => phase[t] # "test" \/ ~Quit(t)
  PROVE  ContinuousIInv'
<1>1. at[t] \in Stages /\ at' = [at EXCEPT ![t] = at[t]]
  BY DEF ContinuousIInv, ContinuousTypeOK
<1>2. t = "prepare" => at[t] \in {"none", "barrier"}
  BY DEF ContinuousIInv, PrepareStays
<1>3. ThreadMoves(t, at[t], there)
  BY <1>1, <1>2 DEF ThreadMoves
<1>4. /\ cancel' \in BOOLEAN /\ home' \in BOOLEAN
      /\ loops' \in Nat /\ (MaxLoops = 0 => loops' = 0)
  BY DEF ContinuousIInv, ContinuousTypeOK
<1> QED  BY <1>1, <1>3, <1>4, ThreadKeepsInv

\* Looking at the flag, joining the patrol, clearing the cancel flag and
\* checking the route.
LEMMA FlagStep ==
  ASSUME ContinuousIInv, NEW t \in Threads,
         Look(t) \/ Join \/ PrepareRoute(t) \/ Preflight
  PROVE  ContinuousIInv'
<1>1. /\ cancel \in BOOLEAN /\ home \in BOOLEAN /\ loops \in Nat
      /\ {lock, context} \subseteq Threads \cup {"none"}
      /\ host \in {"down", "starting", "up"} /\ (MaxLoops = 0 => loops = 0)
      /\ at["prepare"] \in {"none", "barrier"}
  BY DEF ContinuousIInv, ContinuousTypeOK, PrepareStays
<1> USE DEF Stages, Phases, shared, flags
<1>2. CASE Look(t)
  <2>1. CASE Quit(t)
    <3>1. Goto(t, "none") /\ (cancel => cancel') /\ cancel' \in BOOLEAN
      BY <1>1, <1>2, <2>1 DEF Look, End
    <3> QED  BY <1>1, <1>2, <3>1, GoesOn DEF Look
  <2>2. CASE ~Quit(t)
    <3>1. at' = at /\ phase' = [phase EXCEPT ![t] = "start"] /\ cancel' = cancel
      BY <1>2, <2>2 DEF Look
    <3>2. CASE at[t] # "joining"
      BY <1>1, <1>2, <2>2, <3>1, <3>2, StaysInStage DEF Look
    <3>3. CASE at[t] = "joining"
      BY <1>2, <3>3 DEF Look, ContinuousIInv, JoinsFirst
    <3> QED  BY <3>2, <3>3
  <2> QED  BY <2>1, <2>2
<1>3. CASE Join
  <2>1. PICK stage \in {"none", "capture"} :
          Goto("return", stage) /\ (stage = "none" \/ ~(joins /\ Alive("patrol")))
    BY <1>3 DEF Join, End
  <2> QED  BY <1>1, <1>3, <2>1, GoesOn DEF Join, Threads, Workers
<1>4. CASE PrepareRoute(t)
  <2>1. PICK stage \in {"none", "gate", "barrier", "send"} : Goto(t, stage)
    BY <1>1, <1>4, Follows DEF PrepareRoute, End
  <2>2. cancel' \in BOOLEAN /\ t # "prepare"
    BY <1>1, <1>4 DEF PrepareRoute
  <2> QED  BY <1>1, <1>4, <2>1, <2>2, GoesOn DEF PrepareRoute
<1>5. CASE Preflight
  <2>1. PICK stage \in {"none", "barrier"} : Goto("patrol", stage)
    BY <1>5 DEF Preflight, End
  <2> QED  BY <1>1, <1>5, <2>1, GoesOn DEF Preflight, Threads, Workers
<1> QED  BY <1>2, <1>3, <1>4, <1>5

\* The startup gate: the lock and the perception host.
LEMMA GateStep ==
  ASSUME ContinuousIInv, NEW t \in Threads,
         TakeLock(t) \/ HostReady(t) \/ HostStarts(t) \/ HostFails(t)
  PROVE  ContinuousIInv'
<1>1. /\ cancel \in BOOLEAN /\ home \in BOOLEAN /\ loops \in Nat
      /\ {lock, context} \subseteq Threads \cup {"none"}
      /\ host \in {"down", "starting", "up"} /\ (MaxLoops = 0 => loops = 0)
  BY DEF ContinuousIInv, ContinuousTypeOK
<1>2. at[t] = "joining" => phase[t] = "start"
  BY DEF ContinuousIInv, JoinsFirst
<1> USE DEF Stages, Phases, shared, flags
<1>3. CASE TakeLock(t)
  BY <1>1, <1>3, StaysInStage DEF TakeLock
<1>4. CASE HostReady(t)
  BY <1>1, <1>2, <1>4, StaysInStage DEF HostReady
<1>5. CASE HostStarts(t)
  BY <1>1, <1>2, <1>5, StaysInStage DEF HostStarts
<1>6. CASE HostFails(t)
  <2>1. lock' \in Threads \cup {"none"}
    BY <1>1, <1>6 DEF HostFails, Released
  <2> QED  BY <1>1, <1>6, <2>1, GoesOn DEF HostFails, End
<1> QED  BY <1>3, <1>4, <1>5, <1>6

\* ROS sessions: opening one, and what its end decides.
LEMMA SessionStep ==
  ASSUME ContinuousIInv, NEW t \in Threads,
         OpenSession(t) \/ CloseSession(t) \/ RouteEnds(t)
  PROVE  ContinuousIInv'
<1>1. /\ cancel \in BOOLEAN /\ home \in BOOLEAN /\ loops \in Nat
      /\ {lock, context} \subseteq Threads \cup {"none"}
      /\ host \in {"down", "starting", "up"} /\ (MaxLoops = 0 => loops = 0)
      /\ at["prepare"] \in {"none", "barrier"}
  BY DEF ContinuousIInv, ContinuousTypeOK, PrepareStays
<1>2. at[t] = "joining" => phase[t] = "start"
  BY DEF ContinuousIInv, JoinsFirst
<1>3. Released(t) \in Threads \cup {"none"}
  BY <1>1 DEF Released
<1> USE DEF Stages, Phases, shared, flags
<1>4. CASE OpenSession(t) /\ context = "none"
  <2>1. /\ at' = at /\ phase' = [phase EXCEPT ![t] = "open"]
        /\ context' = t /\ lock' = lock
        /\ UNCHANGED <<stop, returnCancel, cancel, latched, home, host, op, joins, loops, halted>>
    BY <1>4 DEF OpenSession
  <2>2. at[t] # "joining" /\ phase[t] # "test"
    BY <1>2, <1>4 DEF OpenSession
  <2> QED  BY <1>1, <2>1, <2>2, StaysInStage
<1>5. CASE OpenSession(t) /\ context # "none"
  BY <1>1, <1>3, <1>5, GoesOn DEF OpenSession, End
<1>6. CASE CloseSession(t)
  <2>1. PICK stage \in {"none", "capture", "preflight", "route", "prepare"} :
          Goto(t, stage) /\ (t = "prepare" => stage = "none")
    BY <1>1, <1>6, Follows DEF CloseSession, End
  <2> QED  BY <1>1, <1>3, <1>6, <2>1, GoesOn DEF CloseSession
<1>7. CASE RouteEnds(t)
  <2>1. PICK stage \in {"none", "barrier"} : Goto(t, stage)
    BY <1>7 DEF RouteEnds, End
  <2>2. loops' \in Nat /\ (MaxLoops = 0 => loops' = 0)
    BY <1>1, <1>7 DEF RouteEnds
  <2> QED  BY <1>1, <1>7, <2>1, <2>2, GoesOn DEF RouteEnds
<1> QED  BY <1>4, <1>5, <1>6, <1>7

-----------------------------------------------------------------------------
(* The theorems.                                                           *)

\* The invariant is kept by every call and every thread, for any loop limit.
THEOREM ContinuousInvariant == Spec => []ContinuousIInv
<1>1. Init => ContinuousIInv
  BY ContinuousIInvInit
<1>2. ContinuousIInv /\ [Next]_vars => ContinuousIInv'
  <2> SUFFICES ASSUME ContinuousIInv, [Next]_vars PROVE ContinuousIInv'
    OBVIOUS
  <2>1. CASE Start
    BY <2>1, StartStep
  <2>2. CASE ReturnHome \/ SendHome
    BY <2>2, ReturnCallStep
  <2>3. CASE \/ \E kind \in {"stop", "emergency", "reset"} : RaiseStop(kind)
             \/ RaiseReturnCancel \/ RaiseCancel \/ Forget
    BY <2>3, StopCallStep
  <2>4. CASE Join \/ Preflight
    BY <2>4, FlagStep DEF Threads, Workers
  <2>5. ASSUME NEW t \in Threads, Work(t) \/ RouteEnds(t) PROVE ContinuousIInv'
    BY <2>5, FlagStep, GateStep, SessionStep DEF Work
  <2>6. CASE PrepareMotion
    <3>1. /\ UNCHANGED <<stop, returnCancel, cancel, latched, home, lock, host, context, op,
                         joins, loops, halted>>
          /\ at' = [at EXCEPT !["prepare"] = "barrier"]
          /\ phase' = [phase EXCEPT !["prepare"] = "start"]
      BY <2>6 DEF PrepareMotion, flags, shared
    <3>2. ContinuousTypeOK'
      BY <3>1 DEF ContinuousIInv, ContinuousTypeOK, Stages, Phases, Threads, Workers
    <3>3. /\ at'["prepare"] = "barrier"
          /\ \A t \in Workers : at'[t] = at[t] /\ phase'[t] = phase[t]
      BY <3>1 DEF ContinuousIInv, ContinuousTypeOK, Threads, Workers
    <3>4. OneDriver' /\ StopSticks' /\ JoinsKnown' /\ PrepareStays' /\ JoinsFirst' /\ CallsKept'
      BY <3>1, <3>3 DEF ContinuousIInv, OneDriver, StopSticks, JoinsKnown, PrepareStays,
                        JoinsFirst, CallsKept, Alive, Threads, Workers
    <3> QED  BY <3>2, <3>4 DEF ContinuousIInv
  <2>7. CASE HostChanges
    <3>1. /\ UNCHANGED <<stop, returnCancel, cancel, latched, home, lock, context, op, at,
                         phase, joins, loops, halted>>
          /\ host' \in {"down", "starting", "up"}
      BY <2>7 DEF HostChanges, flags
    <3> QED  BY <3>1 DEF ContinuousIInv, ContinuousTypeOK, OneDriver, StopSticks, JoinsKnown,
                         PrepareStays, JoinsFirst, CallsKept, Alive
  <2>8. CASE UNCHANGED vars
    <3>1. UNCHANGED <<stop, returnCancel, cancel, latched, home, lock, host, context, op, at,
                      phase, joins, loops, halted>>
      BY <2>8 DEF vars, flags, shared
    <3> QED  BY <3>1 DEF ContinuousIInv, ContinuousTypeOK, OneDriver, StopSticks, JoinsKnown,
                         PrepareStays, JoinsFirst, CallsKept, Alive
  <2> QED  BY <2>1, <2>2, <2>3, <2>4, <2>5, <2>6, <2>7, <2>8 DEF Next
<1> QED  BY <1>1, <1>2, PTL DEF Spec

\* The run's invariant: the types, and a return-home that touches the robot
\* only after the patrol thread is gone (_return_home_after_stop, start()).
THEOREM OneThreadDrives == Spec => []ContinuousInv
<1>1. ContinuousIInv => ContinuousInv
  BY DEF ContinuousIInv, ContinuousInv
<1> QED  BY <1>1, ContinuousInvariant, PTL

\* A stop that is through, an emergency stop above all, is never undone by a
\* prepare_route that clears the backend's cancel flag.
THEOREM StopNeverUndone == Spec => []StopSticks
<1>1. ContinuousIInv => StopSticks
  BY DEF ContinuousIInv
<1> QED  BY <1>1, ContinuousInvariant, PTL
=============================================================================
