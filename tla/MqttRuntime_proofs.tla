-------------------------- MODULE MqttRuntime_proofs --------------------------
(***************************************************************************)
(* Proofs about the MQTT runtime, for any events and timestamps, any size  *)
(* of its memories and any number of media slots.                          *)
(***************************************************************************)
EXTENDS MqttRuntime, SequenceTheorems, WellFoundedInduction, TLAPS

-----------------------------------------------------------------------------
(* What the bounded memories do.                                           *)

\* A bounded memory drops at most its oldest entry, and ends in the new one.
LEMMA RememberFacts ==
  ASSUME NEW S, NEW s \in Seq(S), NEW x \in S, NEW size \in Nat \ {0}, Len(s) <= size
  PROVE  /\ Remember(s, x, size) \in Seq(S)
         /\ Len(Remember(s, x, size)) = IF Len(s) = size THEN size ELSE Len(s) + 1
         /\ Remember(s, x, size)[Len(Remember(s, x, size))] = x
         /\ \A i \in 1 .. Len(Remember(s, x, size)) - 1 :
              Remember(s, x, size)[i] = IF Len(s) = size THEN s[i + 1] ELSE s[i]
<1> DEFINE kept == IF Len(s) = size THEN Tail(s) ELSE s
<1>1. /\ kept \in Seq(S)
      /\ Len(kept) = IF Len(s) = size THEN size - 1 ELSE Len(s)
      /\ \A i \in 1 .. Len(kept) : kept[i] = IF Len(s) = size THEN s[i + 1] ELSE s[i]
  BY HeadTailProperties, EmptySeq
<1>2. Remember(s, x, size) = Append(kept, x)
  BY DEF Remember
<1> HIDE DEF kept
<1>3. /\ Append(kept, x) \in Seq(S)
      /\ Len(Append(kept, x)) = Len(kept) + 1
      /\ Append(kept, x)[Len(kept) + 1] = x
      /\ \A i \in 1 .. Len(kept) : Append(kept, x)[i] = kept[i]
  BY <1>1
<1>4. Len(kept) \in Nat
  BY <1>1
<1> QED  BY <1>1, <1>2, <1>3, <1>4

\* Removing a place closes the gap.
LEMMA RemoveAtFacts ==
  ASSUME NEW S, NEW s \in Seq(S), NEW k \in 1 .. Len(s)
  PROVE  /\ RemoveAt(s, k) \in Seq(S)
         /\ Len(RemoveAt(s, k)) = Len(s) - 1
         /\ \A i \in 1 .. Len(s) - 1 :
              RemoveAt(s, k)[i] = IF i < k THEN s[i] ELSE s[i + 1]
<1> DEFINE a == SubSeq(s, 1, k - 1)
           b == SubSeq(s, k + 1, Len(s))
<1>0. Len(s) \in Nat /\ k \in Int
  OBVIOUS
<1>1. /\ a \in Seq(S) /\ Len(a) = k - 1
      /\ \A i \in 1 .. k - 1 : a[i] = s[i]
  BY <1>0, SubSeqProperties
<1>2. /\ b \in Seq(S) /\ Len(b) = Len(s) - k
      /\ \A i \in 1 .. Len(s) - k : b[i] = s[k + i]
  <2>1. \A i \in k + 1 .. Len(s) : s[i] \in S
    BY <1>0
  <2>2. /\ b \in Seq(S) /\ Len(b) = IF k + 1 <= Len(s) THEN Len(s) - (k + 1) + 1 ELSE 0
        /\ \A i \in 1 .. Len(s) - (k + 1) + 1 : b[i] = s[(k + 1) + i - 1]
    BY <1>0, <2>1, SubSeqProperties
  <2>3. Len(b) = Len(s) - k
    BY <1>0, <2>2
  <2>4. ASSUME NEW i \in 1 .. Len(s) - k
        PROVE  b[i] = s[k + i]
    <3>1. i \in 1 .. Len(s) - (k + 1) + 1 /\ (k + 1) + i - 1 = k + i
      BY <1>0
    <3> QED  BY <2>2, <3>1
  <2> QED  BY <2>2, <2>3, <2>4
<1>3. RemoveAt(s, k) = a \o b
  BY DEF RemoveAt
<1> HIDE DEF a, b
<1>4. /\ a \o b \in Seq(S) /\ Len(a \o b) = Len(a) + Len(b)
      /\ \A i \in 1 .. Len(a) + Len(b) : (a \o b)[i] = IF i <= Len(a) THEN a[i] ELSE b[i - Len(a)]
  BY <1>1, <1>2, ConcatProperties
<1>5. ASSUME NEW i \in 1 .. Len(s) - 1
      PROVE  (a \o b)[i] = IF i < k THEN s[i] ELSE s[i + 1]
  <2>1. CASE i < k
    BY <1>0, <1>1, <1>2, <1>4, <2>1
  <2>2. CASE i >= k
    <3>1. (a \o b)[i] = b[i - (k - 1)]
      <4>1. i \in 1 .. Len(a) + Len(b) /\ ~ (i <= Len(a)) /\ Len(a) = k - 1
        BY <1>0, <1>1, <1>2, <2>2
      <4> QED  BY <1>4, <4>1
    <3>3. i - (k - 1) \in 1 .. Len(s) - k
      BY <1>0, <2>2
    <3>2. b[i - (k - 1)] = s[k + (i - (k - 1))] /\ k + (i - (k - 1)) = i + 1
      BY <1>0, <1>2, <3>3
    <3> QED  BY <2>2, <3>1, <3>2
  <2>3. i < k \/ i >= k
    BY <1>0
  <2> QED  BY <2>1, <2>2, <2>3
<1> QED  BY <1>0, <1>1, <1>2, <1>3, <1>4, <1>5

\* An entry that occurs once is removed where it occurs.
LEMMA ForgetOnce ==
  ASSUME NEW S, NEW s \in Seq(S), NEW k \in 1 .. Len(s),
         \A i \in 1 .. Len(s) : s[i] = s[k] => i = k
  PROVE  Forget(s, s[k]) = RemoveAt(s, k)
<1>1. {i \in 1 .. Len(s) : s[i] = s[k]} = {k}
  OBVIOUS
<1>2. Min({k}) = k
  BY DEF Min
<1>3. \E i \in 1 .. Len(s) : s[i] = s[k]
  OBVIOUS
<1> QED  BY <1>1, <1>2, <1>3 DEF Forget, RemoveFirst, SelectInSeq

\* A bounded set of naturals has a greatest member, and Max is one.
LEMMA BoundedMax ==
  ASSUME NEW T, T \subseteq Nat, T # {}, NEW bound \in Nat, \A x \in T : x <= bound
  PROVE  Max(T) \in T /\ \A x \in T : x <= Max(T)
<1> DEFINE U == {u \in Nat : \A x \in T : x <= u}
<1>1. U \subseteq Nat /\ U # {}
  BY bound \in U
<1>2. PICK u \in U : \A v \in U : ~ (<<v, u>> \in OpToRel(<, Nat))
  BY <1>1, WFMin, NatLessThanWellFounded
<1>3. \A v \in U : ~ (v < u)
  BY <1>2 DEF OpToRel
<1>4. u \in T
  <2> SUFFICES ASSUME u \notin T
               PROVE  FALSE
    OBVIOUS
  <2>1. \A x \in T : x <= u - 1 /\ u - 1 \in Nat
    <3> TAKE x \in T
    <3>1. x \in Nat /\ x <= u /\ x # u /\ u \in Nat
      OBVIOUS
    <3> QED  BY <3>1
  <2>2. u - 1 \in U
    BY <2>1
  <2> QED  BY <1>3, <2>2
<1>5. \E x \in T : \A y \in T : x >= y
  BY <1>4
<1> QED  BY <1>5 DEF Max

-----------------------------------------------------------------------------
(* The media queue.                                                        *)

Busy == IF At("idle") THEN 0 ELSE 1

MediaTypeOK ==
  /\ free \in 0 .. Slots /\ queue \in Seq(Events)
  /\ events \in Seq(Events) /\ Len(events) <= EventMemory
  /\ worker = Idle \/ worker \in [event : Events, step : {"capture", "wait", "sent", "failed"}]

\* What is pending, the worker's event first, is the newest part of the memory
\* in the same order: the worker is serial, so nothing newer is ever finished.
PendingIsNewest ==
  /\ Len(queue) + Busy <= Len(events)
  /\ \A i \in 1 .. Len(queue) : queue[i] = events[(Len(events) - Len(queue)) + i]
  /\ ~At("idle") => worker.event = events[Len(events) - Len(queue)]

EventsDistinct == \A i, j \in 1 .. Len(events) : events[i] = events[j] => i = j

MediaIInv ==
  MediaTypeOK /\ free + Len(queue) + Busy = Slots /\ EventsDistinct /\ PendingIsNewest

\* A trigger that gets a slot: an event that is evicted for it was not pending,
\* since the memory holds at least one event for every slot.
LEMMA ReportMedia ==
  ASSUME MediaIInv, NEW e \in Events, Report(e)
  PROVE  MediaIInv'
<1> USE DEF MediaIInv, MediaTypeOK
<1>0. /\ Slots \in Nat \ {0} /\ EventMemory \in Nat \ {0} /\ EventMemory >= Slots
      /\ Busy \in {0, 1} /\ Len(queue) \in Nat /\ Len(events) \in Nat
  BY RuntimeAssumption DEF RuntimeAssumption, Busy
<1>1. CASE UNCHANGED media
  BY <1>1 DEF media, Busy, At, EventsDistinct, PendingIsNewest
<1>2. CASE /\ free > 0 /\ e \notin ToSet(events)
           /\ free' = free - 1
           /\ events' = Remember(events, e, EventMemory)
           /\ queue' = Append(queue, e)
           /\ UNCHANGED worker
  <2>1. /\ events' \in Seq(Events)
        /\ Len(events') = IF Len(events) = EventMemory THEN EventMemory ELSE Len(events) + 1
        /\ events'[Len(events')] = e
        /\ \A i \in 1 .. Len(events') - 1 :
             events'[i] = IF Len(events) = EventMemory THEN events[i + 1] ELSE events[i]
    <3> DEFINE new == Remember(events, e, EventMemory)
    <3>1. events \in Seq(Events) /\ Len(events) <= EventMemory /\ EventMemory \in Nat \ {0}
      BY <1>0
    <3>2. events' = new
      BY <1>2
    <3>3. /\ new \in Seq(Events)
          /\ Len(new) = IF Len(events) = EventMemory THEN EventMemory ELSE Len(events) + 1
          /\ new[Len(new)] = e
          /\ \A i \in 1 .. Len(new) - 1 :
               new[i] = IF Len(events) = EventMemory THEN events[i + 1] ELSE events[i]
      BY <3>1, RememberFacts
    <3> HIDE DEF new
    <3> QED  BY <3>2, <3>3
  <2>2. /\ queue' \in Seq(Events) /\ Len(queue') = Len(queue) + 1
        /\ queue'[Len(queue) + 1] = e
        /\ \A i \in 1 .. Len(queue) : queue'[i] = queue[i]
    BY <1>2
  <2>3. Busy' = Busy /\ (At("idle"))' = At("idle") /\ worker' = worker
    BY <1>2 DEF Busy, At
  <2>4. \A i \in 1 .. Len(events) : events[i] # e
    BY <1>2 DEF ToSet
  <2>5. MediaTypeOK' /\ (free + Len(queue) + Busy = Slots)'
    <3>1. free' \in 0 .. Slots /\ free' + Len(queue') + Busy' = Slots
      BY <1>0, <1>2, <2>2, <2>3
    <3>2. Len(events') <= EventMemory
      BY <1>0, <2>1
    <3> QED  BY <2>1, <2>2, <2>3, <3>1, <3>2
  <2>6. EventsDistinct'
    <3>1. \A i \in 1 .. Len(events') - 1 : events'[i] # e
      BY <1>0, <2>1, <2>4
    <3>2. \A i, j \in 1 .. Len(events') - 1 : events'[i] = events'[j] => i = j
      <4>1. CASE Len(events) = EventMemory
        <5> TAKE i, j \in 1 .. Len(events') - 1
        <5>1. i + 1 \in 1 .. Len(events) /\ j + 1 \in 1 .. Len(events)
          BY <1>0, <2>1, <4>1
        <5>2. events'[i] = events[i + 1] /\ events'[j] = events[j + 1]
          BY <2>1, <4>1
        <5>3. events[i + 1] = events[j + 1] => i + 1 = j + 1
          BY <5>1 DEF EventsDistinct
        <5> QED  BY <5>1, <5>2, <5>3
      <4>2. CASE Len(events) # EventMemory
        BY <1>0, <2>1, <4>2 DEF EventsDistinct
      <4> QED  BY <4>1, <4>2
    <3>3. Len(events') \in Nat
      BY <1>0, <2>1
    <3> SUFFICES ASSUME NEW i \in 1 .. Len(events'), NEW j \in 1 .. Len(events'),
                        events'[i] = events'[j]
                 PROVE  i = j
      BY DEF EventsDistinct
    <3>4. CASE i = Len(events') \/ j = Len(events')
      BY <2>1, <3>1, <3>3, <3>4
    <3>5. CASE i # Len(events') /\ j # Len(events')
      BY <3>2, <3>3, <3>5
    <3> QED  BY <3>4, <3>5
  <2>7. Len(queue) + Busy + 1 <= Slots
    BY <1>0, <1>2
  <2>8. ASSUME NEW i \in 1 .. Len(queue')
        PROVE  queue'[i] = events'[(Len(events') - Len(queue')) + i]
    <3>1. CASE i = Len(queue')
      <4>1. (Len(events') - Len(queue')) + i = Len(events')
        <5>1. Len(events') \in Nat /\ Len(queue') \in Nat
          BY <1>0, <2>1, <2>2
        <5> QED  BY <3>1, <5>1
      <4> QED  BY <2>1, <2>2, <3>1, <4>1
    <3>2. CASE i <= Len(queue)
      <4>1. /\ i \in 1 .. Len(queue)
            /\ queue'[i] = events[(Len(events) - Len(queue)) + i]
        BY <1>0, <2>2, <3>2 DEF PendingIsNewest
      <4>2. CASE Len(events) = EventMemory
        <5>1. /\ (Len(events') - Len(queue')) + i \in 1 .. Len(events') - 1
              /\ ((Len(events') - Len(queue')) + i) + 1 = (Len(events) - Len(queue)) + i
          BY <1>0, <2>1, <2>2, <2>7, <4>1, <4>2
        <5> QED  BY <2>1, <4>1, <4>2, <5>1
      <4>3. CASE Len(events) # EventMemory
        <5>1. /\ (Len(events') - Len(queue')) + i \in 1 .. Len(events') - 1
              /\ (Len(events') - Len(queue')) + i = (Len(events) - Len(queue)) + i
          BY <1>0, <2>1, <2>2, <4>1, <4>3 DEF PendingIsNewest
        <5> QED  BY <2>1, <4>1, <4>3, <5>1
      <4> QED  BY <4>2, <4>3
    <3> QED  BY <1>0, <2>2, <3>1, <3>2
  <2>9. ASSUME ~At("idle")
        PROVE  worker.event = events'[Len(events') - Len(queue')]
    <3>1. Busy = 1 /\ worker.event = events[Len(events) - Len(queue)]
      BY <2>9 DEF Busy, PendingIsNewest
    <3>2. CASE Len(events) = EventMemory
      <4>1. /\ Len(events') - Len(queue') \in 1 .. Len(events') - 1
            /\ (Len(events') - Len(queue')) + 1 = Len(events) - Len(queue)
        BY <1>0, <2>1, <2>2, <2>7, <3>1, <3>2
      <4> QED  BY <2>1, <3>1, <3>2, <4>1
    <3>3. CASE Len(events) # EventMemory
      <4>1. /\ Len(events') - Len(queue') \in 1 .. Len(events') - 1
            /\ Len(events') - Len(queue') = Len(events) - Len(queue)
        BY <1>0, <2>1, <2>2, <3>1, <3>3 DEF PendingIsNewest
      <4> QED  BY <2>1, <3>1, <3>3, <4>1
    <3> QED  BY <3>2, <3>3
  <2>10. Len(queue') + Busy' <= Len(events')
    BY <1>0, <2>1, <2>2, <2>3, <2>7 DEF PendingIsNewest
  <2> QED  BY <2>3, <2>5, <2>6, <2>8, <2>9, <2>10 DEF PendingIsNewest
<1> QED  BY <1>1, <1>2 DEF Report

\* The worker takes the oldest pending event.
LEMMA TakeMedia ==
  ASSUME MediaIInv, TakeDetection
  PROVE  MediaIInv'
<1> USE DEF MediaIInv, MediaTypeOK
<1>0. /\ Slots \in Nat /\ Len(queue) \in Nat /\ Len(events) \in Nat
  BY RuntimeAssumption DEF RuntimeAssumption
<1>1. /\ At("idle") /\ queue # <<>> /\ queue' = Tail(queue)
      /\ worker' = [event |-> Head(queue), step |-> "capture"]
      /\ free' = free /\ events' = events
  BY DEF TakeDetection
<1>2. /\ Head(queue) \in Events /\ Head(queue) = queue[1] /\ queue' \in Seq(Events)
      /\ Len(queue') = Len(queue) - 1 /\ Len(queue) >= 1
      /\ \A i \in 1 .. Len(queue') : queue'[i] = queue[i + 1]
  BY <1>1, HeadTailProperties, EmptySeq
<1>3. Busy = 0 /\ Busy' = 1 /\ ~At("idle")' /\ worker'.event = queue[1]
  BY <1>1, <1>2 DEF Busy, At
<1>4. MediaTypeOK' /\ EventsDistinct'
  BY <1>1, <1>2 DEF EventsDistinct
<1>5. (free + Len(queue) + Busy = Slots)' /\ Len(queue') + Busy' <= Len(events')
  BY <1>0, <1>1, <1>2, <1>3 DEF PendingIsNewest
<1>6. ASSUME NEW i \in 1 .. Len(queue')
      PROVE  queue'[i] = events'[(Len(events') - Len(queue')) + i]
  <2>1. i + 1 \in 1 .. Len(queue)
    BY <1>0, <1>2
  <2>2. (Len(events') - Len(queue')) + i = (Len(events) - Len(queue)) + (i + 1)
    BY <1>0, <1>1, <1>2
  <2> QED  BY <1>1, <1>2, <2>1, <2>2 DEF PendingIsNewest
<1>7. worker'.event = events'[Len(events') - Len(queue')]
  <2>1. Len(events') - Len(queue') = (Len(events) - Len(queue)) + 1 /\ 1 \in 1 .. Len(queue)
    BY <1>0, <1>1, <1>2
  <2> QED  BY <1>1, <1>3, <2>1 DEF PendingIsNewest
<1> QED  BY <1>3, <1>4, <1>5, <1>6, <1>7 DEF PendingIsNewest

\* The steps of a publication keep the event.
LEMMA PublishMedia ==
  ASSUME MediaIInv, BeginPublish \/ Published \/ PublishTimeout
  PROVE  MediaIInv'
<1> USE DEF MediaIInv, MediaTypeOK
<1>1. /\ worker.step \in {"capture", "wait"}
      /\ UNCHANGED <<free, queue, events>>
      /\ \E step \in {"wait", "sent", "failed"} : worker' = [worker EXCEPT !.step = step]
  BY DEF BeginPublish, Published, PublishTimeout, At, GoTo
<1>2. worker \in [event : Events, step : {"capture", "wait", "sent", "failed"}]
  BY <1>1 DEF Idle
<1>3. /\ worker' \in [event : Events, step : {"capture", "wait", "sent", "failed"}]
      /\ worker'.event = worker.event /\ worker'.step # "idle"
  BY <1>1, <1>2
<1>4. Busy = 1 /\ Busy' = 1 /\ ~At("idle") /\ ~At("idle")'
  BY <1>1, <1>3 DEF Busy, At
<1>5. MediaTypeOK' /\ EventsDistinct' /\ (free + Len(queue) + Busy = Slots)'
  BY <1>1, <1>3, <1>4 DEF EventsDistinct
<1> QED  BY <1>1, <1>3, <1>4, <1>5 DEF PendingIsNewest

\* The task ends: its slot is free, and a failed event is forgotten, alone.
LEMMA EndMedia ==
  ASSUME MediaIInv, EndTask
  PROVE  MediaIInv'
<1> USE DEF MediaIInv, MediaTypeOK
<1>0. /\ Slots \in Nat /\ Len(queue) \in Nat /\ Len(events) \in Nat
  BY RuntimeAssumption DEF RuntimeAssumption
<1>1. /\ worker.step \in {"sent", "failed"} /\ worker' = Idle /\ free' = free + 1
      /\ queue' = queue
      /\ events' = IF At("failed") THEN Forget(events, worker.event) ELSE events
  BY DEF EndTask
<1>2. Busy = 1 /\ Busy' = 0 /\ ~At("idle") /\ At("idle")'
  BY <1>1 DEF Busy, At, Idle
<1>3. free' \in 0 .. Slots /\ (free + Len(queue) + Busy = Slots)'
  BY <1>0, <1>1, <1>2
<1>4. CASE ~At("failed")
  BY <1>0, <1>1, <1>2, <1>3, <1>4 DEF EventsDistinct, PendingIsNewest
<1>5. CASE At("failed")
  <2> DEFINE k == Len(events) - Len(queue)
  <2>1. k \in 1 .. Len(events) /\ events[k] = worker.event
    BY <1>0, <1>2 DEF PendingIsNewest
  <2>2. events' = RemoveAt(events, k)
    <3>1. \A i \in 1 .. Len(events) : events[i] = events[k] => i = k
      BY <2>1 DEF EventsDistinct
    <3> QED  BY <1>1, <1>5, <2>1, <3>1, ForgetOnce
  <2>3. /\ events' \in Seq(Events) /\ Len(events') = Len(events) - 1
        /\ \A i \in 1 .. Len(events) - 1 : events'[i] = IF i < k THEN events[i] ELSE events[i + 1]
    BY <2>1, <2>2, RemoveAtFacts
  <2>4. MediaTypeOK'
    BY <1>0, <1>1, <1>3, <2>3, RuntimeAssumption DEF RuntimeAssumption
  <2>5. EventsDistinct'
    BY <1>0, <2>1, <2>3 DEF EventsDistinct
  <2>6. ASSUME NEW i \in 1 .. Len(queue')
        PROVE  queue'[i] = events'[(Len(events') - Len(queue')) + i]
    <3>1. i \in 1 .. Len(queue) /\ queue'[i] = events[k + i]
      BY <1>1 DEF PendingIsNewest
    <3>2. (Len(events') - Len(queue')) + i = (k - 1) + i
      <4>1. Len(events') = Len(events) - 1 /\ Len(queue') = Len(queue)
        BY <1>1, <2>3
      <4>2. i \in Int
        BY <3>1
      <4> QED  BY <1>0, <4>1, <4>2
    <3>3. /\ (k - 1) + i \in 1 .. Len(events) - 1 /\ ~ ((k - 1) + i < k)
          /\ ((k - 1) + i) + 1 = k + i
      BY <1>0, <2>1, <3>1
    <3>4. events'[(k - 1) + i] = events[((k - 1) + i) + 1]
      BY <2>3, <3>3
    <3> QED  BY <3>1, <3>2, <3>3, <3>4
  <2>7. Len(queue') + Busy' <= Len(events')
    BY <1>0, <1>1, <1>2, <2>3 DEF PendingIsNewest
  <2> QED  BY <1>2, <1>3, <2>4, <2>5, <2>6, <2>7 DEF PendingIsNewest
<1> QED  BY <1>4, <1>5

-----------------------------------------------------------------------------
(* The command log.                                                        *)

LogTypeOK ==
  /\ commands \in Seq(Keys) /\ Len(commands) <= CommandMemory
  /\ done \in Seq(Keys) /\ Len(done) <= CommandMemory
  /\ last \in Times \cup {Never}

\* The log is the newest part of what was carried out, and lacks at most one
\* place of its memory: a failed command takes the oldest entry with it.
LogIsNewest ==
  /\ Len(commands) <= Len(done)
  /\ \A i \in 1 .. Len(commands) : commands[i] = done[(Len(done) - Len(commands)) + i]
  /\ Len(commands) = Len(done) \/ Len(commands) >= CommandMemory - 1

\* The last time is no earlier than any command in the log.
LastBoundsLog == \A i \in 1 .. Len(commands) : commands[i][1] <= last

LogIInv == LogTypeOK /\ LogIsNewest /\ LastBoundsLog /\ CommandsInOrder

\* The parts of a logged command.
LEMMA KeyParts ==
  ASSUME NEW s \in Seq(Keys), NEW k \in 1 .. Len(s)
  PROVE  s[k] \in Keys /\ s[k][1] \in Times /\ s[k][1] \in Nat
<1>1. s[k] \in Times \X Actions
  BY DEF Keys
<1> QED  BY <1>1, RuntimeAssumption DEF RuntimeAssumption, Keys

LEMMA RememberKey ==
  ASSUME NEW s \in Seq(Keys), Len(s) <= CommandMemory, NEW t \in Times, NEW a \in Actions
  PROVE  LET new == Remember(s, <<t, a>>, CommandMemory)
         IN  /\ new \in Seq(Keys)
             /\ Len(new) = IF Len(s) = CommandMemory THEN CommandMemory ELSE Len(s) + 1
             /\ new[Len(new)] = <<t, a>>
             /\ \A i \in 1 .. Len(new) - 1 :
                  new[i] = IF Len(s) = CommandMemory THEN s[i + 1] ELSE s[i]
<1>1. CommandMemory \in Nat \ {0}
  BY RuntimeAssumption DEF RuntimeAssumption
<1>2. <<t, a>> \in Keys
  BY DEF Keys
<1>3. \A k \in Keys :
        /\ Remember(s, k, CommandMemory) \in Seq(Keys)
        /\ Len(Remember(s, k, CommandMemory)) =
              IF Len(s) = CommandMemory THEN CommandMemory ELSE Len(s) + 1
        /\ Remember(s, k, CommandMemory)[Len(Remember(s, k, CommandMemory))] = k
        /\ \A i \in 1 .. Len(Remember(s, k, CommandMemory)) - 1 :
             Remember(s, k, CommandMemory)[i] = IF Len(s) = CommandMemory THEN s[i + 1] ELSE s[i]
  BY <1>1, RememberFacts
<1> QED  BY <1>2, <1>3, Zenon

LEMMA NotInSet ==
  ASSUME NEW S, NEW s \in Seq(S), NEW x, x \notin ToSet(s)
  PROVE  \A i \in 1 .. Len(s) : s[i] # x
BY DEF ToSet

\* A command is carried out and logged.
LEMMA AcceptLog ==
  ASSUME LogIInv, NEW t \in Times, NEW a \in Actions, Accepted(t, a), AcceptCommand(t, a),
         done' = Remember(done, <<t, a>>, CommandMemory)
  PROVE  LogIInv'
<1> DEFINE key == <<t, a>>
           c == Len(commands)
           d == Len(done)
           cc == Len(commands')
           dd == Len(done')
<1>0. /\ CommandMemory \in Nat \ {0} /\ CommandMemory >= 2 /\ c \in Nat /\ d \in Nat
      /\ t \in Nat /\ last \in Nat /\ key \in Keys
  BY RuntimeAssumption DEF RuntimeAssumption, Never, Keys, LogIInv, LogTypeOK
<1>12. /\ commands \in Seq(Keys) /\ c <= CommandMemory /\ done \in Seq(Keys) /\ d <= CommandMemory
       /\ LogIsNewest /\ LastBoundsLog /\ CommandsInOrder /\ last \in Times \cup {Never}
  BY DEF LogIInv, LogTypeOK
<1>1. /\ commands' \in Seq(Keys)
      /\ cc = IF c = CommandMemory THEN CommandMemory ELSE c + 1
      /\ commands'[cc] = key
      /\ \A i \in 1 .. cc - 1 : commands'[i] = IF c = CommandMemory THEN commands[i + 1] ELSE commands[i]
  <2> DEFINE new == Remember(commands, key, CommandMemory)
  <2>1. commands' = new
    BY DEF AcceptCommand, Remembered
  <2>2. /\ new \in Seq(Keys)
        /\ Len(new) = IF c = CommandMemory THEN CommandMemory ELSE c + 1
        /\ new[Len(new)] = key
        /\ \A i \in 1 .. Len(new) - 1 : new[i] = IF c = CommandMemory THEN commands[i + 1] ELSE commands[i]
    BY <1>12, RememberKey, Zenon
  <2> HIDE DEF new
  <2> QED  BY <2>1, <2>2
<1>2. /\ done' \in Seq(Keys)
      /\ dd = IF d = CommandMemory THEN CommandMemory ELSE d + 1
      /\ done'[dd] = key
      /\ \A i \in 1 .. dd - 1 : done'[i] = IF d = CommandMemory THEN done[i + 1] ELSE done[i]
  <2> DEFINE new == Remember(done, key, CommandMemory)
  <2>1. done' = new
    OBVIOUS
  <2>2. /\ new \in Seq(Keys)
        /\ Len(new) = IF d = CommandMemory THEN CommandMemory ELSE d + 1
        /\ new[Len(new)] = key
        /\ \A i \in 1 .. Len(new) - 1 : new[i] = IF d = CommandMemory THEN done[i + 1] ELSE done[i]
    BY <1>12, RememberKey, Zenon
  <2> HIDE DEF new
  <2> QED  BY <2>1, <2>2
<1>3. last' \in {t, last} /\ t <= last' /\ last <= last'
  <2>1. {t, last} \subseteq Nat /\ {t, last} # {} /\ \A x \in {t, last} : x <= t + last
    BY <1>0
  <2>2. t + last \in Nat
    BY <1>0
  <2>3. Max({t, last}) \in {t, last} /\ \A x \in {t, last} : x <= Max({t, last})
    BY <2>1, <2>2, BoundedMax
  <2> QED  BY <2>3 DEF AcceptCommand
<1>4. cc \in Nat /\ dd \in Nat /\ cc <= CommandMemory /\ dd <= CommandMemory
  BY <1>0, <1>1, <1>2, <1>12
<1>5. LogTypeOK'
  BY <1>0, <1>1, <1>2, <1>3, <1>4, <1>12 DEF LogTypeOK
<1>6. c <= d /\ (c = d \/ c >= CommandMemory - 1)
  BY <1>12 DEF LogIsNewest
<1>7. ASSUME NEW i \in 1 .. cc
      PROVE  commands'[i] = done'[(dd - cc) + i]
  <2>1. CASE i = cc
    <3>1. (dd - cc) + i = dd
      BY <1>4, <2>1
    <3> QED  BY <1>1, <1>2, <2>1, <3>1
  <2>2. CASE i # cc /\ c = CommandMemory
    <3>1. d = CommandMemory /\ cc = c /\ dd = d /\ i \in 1 .. cc - 1 /\ i + 1 \in 1 .. c
      BY <1>0, <1>1, <1>2, <1>4, <1>6, <2>2
    <3>2. (dd - cc) + i = i /\ (d - c) + (i + 1) = i + 1
      BY <1>0, <2>2, <3>1
    <3>3. commands[i + 1] = done[(d - c) + (i + 1)]
      BY <1>12, <3>1 DEF LogIsNewest
    <3> QED  BY <1>1, <1>2, <2>2, <3>1, <3>2, <3>3
  <2>3. CASE i # cc /\ c # CommandMemory
    <3>1. cc = c + 1 /\ i \in 1 .. cc - 1 /\ i \in 1 .. c
      BY <1>0, <1>1, <1>4, <2>3
    <3>2. commands'[i] = done[(d - c) + i]
      BY <1>1, <1>12, <2>3, <3>1 DEF LogIsNewest
    <3>3. CASE d = CommandMemory
      <4>1. dd = d /\ c < d
        BY <1>0, <1>2, <1>6, <2>3, <3>3
      <4>2. (dd - cc) + i \in 1 .. dd - 1 /\ ((dd - cc) + i) + 1 = (d - c) + i
        BY <1>0, <3>1, <4>1
      <4> QED  BY <1>2, <3>2, <3>3, <4>2
    <3>4. CASE d # CommandMemory
      <4>1. dd = d + 1
        BY <1>2, <3>4
      <4>2. (dd - cc) + i \in 1 .. dd - 1 /\ (dd - cc) + i = (d - c) + i
        BY <1>0, <1>6, <3>1, <4>1
      <4> QED  BY <1>2, <3>2, <3>4, <4>2
    <3> QED  BY <3>3, <3>4
  <2> QED  BY <2>1, <2>2, <2>3
<1>8. LogIsNewest'
  <2>1. cc <= dd /\ (cc = dd \/ cc >= CommandMemory - 1)
    BY <1>0, <1>1, <1>2, <1>6
  <2> QED  BY <1>7, <2>1 DEF LogIsNewest
<1>9. LastBoundsLog'
  <2> SUFFICES ASSUME NEW i \in 1 .. cc
               PROVE  commands'[i][1] <= last'
    BY DEF LastBoundsLog
  <2>1. CASE i = cc
    BY <1>1, <1>3, <2>1
  <2>2. CASE i # cc
    <3>1. PICK k \in 1 .. c : commands'[i] = commands[k]
      BY <1>0, <1>1, <1>4, <2>2
    <3>2. commands[k][1] \in Nat /\ commands[k][1] <= last
      BY <1>12, KeyParts DEF LastBoundsLog
    <3> QED  BY <1>0, <1>3, <3>1, <3>2
  <2> QED  BY <2>1, <2>2
\* What was carried out within the reach of the memory is still in the log.
<1>10. ASSUME NEW i \in 1 .. dd - 1, dd - i < CommandMemory
       PROVE  \E k \in 1 .. c : done'[i] = commands[k]
  <2>1. CASE d = CommandMemory
    <3>1. dd = d /\ (i + 1) - (d - c) \in 1 .. c
      BY <1>0, <1>2, <1>4, <1>6, <2>1
    <3>2. (d - c) + ((i + 1) - (d - c)) = i + 1
      BY <1>0, <3>1
    <3>3. commands[(i + 1) - (d - c)] = done[i + 1]
      BY <1>12, <3>1, <3>2 DEF LogIsNewest
    <3> QED  BY <1>2, <2>1, <3>1, <3>3
  <2>2. CASE d # CommandMemory
    <3>1. dd = d + 1 /\ i - (d - c) \in 1 .. c
      BY <1>0, <1>2, <1>4, <1>6, <1>10, <2>2
    <3>2. (d - c) + (i - (d - c)) = i
      BY <1>0, <3>1
    <3>3. commands[i - (d - c)] = done[i]
      BY <1>12, <3>1, <3>2 DEF LogIsNewest
    <3> QED  BY <1>2, <2>2, <3>1, <3>3
  <2> QED  BY <2>1, <2>2
<1>11. CommandsInOrder'
  <2> SUFFICES ASSUME NEW i \in 1 .. dd, NEW j \in 1 .. dd, i < j, j - i < CommandMemory
               PROVE  /\ done'[i] # done'[j]
                      /\ done'[j][2] \in Enabling => done'[j][1] > done'[i][1]
    <3>1. DOMAIN done' = 1 .. dd
      BY <1>2
    <3> QED  BY <3>1 DEF CommandsInOrder
  <2>3. \A m, n \in 1 .. d : m < n /\ n - m < CommandMemory =>
          done[m] # done[n] /\ (done[n][2] \in Enabling => done[n][1] > done[m][1])
    <3>1. DOMAIN done = 1 .. d
      BY <1>12
    <3> QED  BY <1>12, <3>1 DEF CommandsInOrder
  <2>1. CASE j = dd
    <3>1. PICK k \in 1 .. c : done'[i] = commands[k]
      <4>1. i \in 1 .. dd - 1 /\ dd - i < CommandMemory
        BY <1>4, <2>1
      <4> QED  BY <1>10, <4>1
    <3>2. commands[k] # key /\ (a \in Enabling => t > last)
      BY <1>12, NotInSet DEF Accepted
    <3>3. commands[k][1] \in Nat /\ commands[k][1] <= last
      BY <1>12, KeyParts DEF LastBoundsLog
    <3>4. done'[j] = key /\ key[1] = t /\ key[2] = a
      BY <1>2, <2>1
    <3>5. a \in Enabling => t > commands[k][1]
      BY <1>0, <3>2, <3>3
    <3> QED  BY <3>1, <3>2, <3>4, <3>5
  <2>2. CASE j # dd
    <3>1. i \in 1 .. dd - 1 /\ j \in 1 .. dd - 1
      BY <1>4, <2>2
    <3>2. CASE d = CommandMemory
      <4>1. /\ i + 1 \in 1 .. d /\ j + 1 \in 1 .. d /\ i + 1 < j + 1
            /\ (j + 1) - (i + 1) < CommandMemory
        BY <1>0, <1>2, <3>1, <3>2
      <4>2. done'[i] = done[i + 1] /\ done'[j] = done[j + 1]
        BY <1>2, <3>1, <3>2
      <4> QED  BY <2>3, <4>1, <4>2
    <3>3. CASE d # CommandMemory
      <4>1. i \in 1 .. d /\ j \in 1 .. d
        BY <1>0, <1>2, <3>1, <3>3
      <4>2. done'[i] = done[i] /\ done'[j] = done[j]
        BY <1>2, <3>1, <3>3
      <4> QED  BY <2>3, <4>1, <4>2
    <3> QED  BY <3>2, <3>3
  <2> QED  BY <2>1, <2>2
<1> QED  BY <1>5, <1>8, <1>9, <1>11 DEF LogIInv

\* A command fails: it leaves the log again, and so did the oldest entry.
LEMMA FailLog ==
  ASSUME LogIInv, NEW t \in Times, NEW a \in Actions, Accepted(t, a), ForgetCommand(t, a),
         done' = done
  PROVE  LogIInv'
<1> DEFINE key == <<t, a>>
           c == Len(commands)
           d == Len(done)
           new == Remember(commands, key, CommandMemory)
<1>0. /\ CommandMemory \in Nat \ {0} /\ CommandMemory >= 2 /\ c \in Nat /\ d \in Nat
      /\ last \in Nat /\ key \in Keys
  BY RuntimeAssumption DEF RuntimeAssumption, Never, Keys, LogIInv, LogTypeOK
<1>12. /\ commands \in Seq(Keys) /\ c <= CommandMemory /\ done \in Seq(Keys) /\ d <= CommandMemory
       /\ LogIsNewest /\ LastBoundsLog /\ CommandsInOrder /\ last \in Times \cup {Never}
  BY DEF LogIInv, LogTypeOK
<1>1. /\ new \in Seq(Keys)
      /\ Len(new) = IF c = CommandMemory THEN CommandMemory ELSE c + 1
      /\ new[Len(new)] = key
      /\ \A i \in 1 .. Len(new) - 1 : new[i] = IF c = CommandMemory THEN commands[i + 1] ELSE commands[i]
  BY <1>12, RememberKey, Zenon
<1>2. /\ commands' = Forget(new, key)
      /\ last' = Max({Never} \cup {k[1] : k \in ToSet(commands')})
  BY DEF ForgetCommand, Remembered
<1> HIDE DEF new
<1>3. Len(new) \in 1 .. Len(new)
  BY <1>0, <1>1
<1>4. \A i \in 1 .. Len(new) : new[i] = new[Len(new)] => i = Len(new)
  <2>1. \A k \in 1 .. c : commands[k] # key
    BY <1>12, NotInSet DEF Accepted
  <2> QED  BY <1>0, <1>1, <2>1
<1>5. commands' = RemoveAt(new, Len(new))
  BY <1>1, <1>2, <1>3, <1>4, ForgetOnce
<1>6. /\ commands' \in Seq(Keys) /\ Len(commands') = Len(new) - 1
      /\ \A i \in 1 .. Len(new) - 1 : commands'[i] = new[i]
  <2>1. /\ commands' \in Seq(Keys) /\ Len(commands') = Len(new) - 1
        /\ \A i \in 1 .. Len(new) - 1 : commands'[i] = IF i < Len(new) THEN new[i] ELSE new[i + 1]
    BY <1>1, <1>3, <1>5, RemoveAtFacts
  <2>2. \A i \in 1 .. Len(new) - 1 : i < Len(new)
    BY <1>3
  <2> QED  BY <2>1, <2>2
<1>7. /\ Len(commands') = IF c = CommandMemory THEN CommandMemory - 1 ELSE c
      /\ \A i \in 1 .. Len(commands') :
           commands'[i] = IF c = CommandMemory THEN commands[i + 1] ELSE commands[i]
  <2>1. Len(commands') = IF c = CommandMemory THEN CommandMemory - 1 ELSE c
    BY <1>0, <1>1, <1>6
  <2> QED  BY <1>1, <1>6, <2>1
<1>8. \A i \in 1 .. Len(commands') :
        commands'[i][1] \in Times /\ commands'[i][1] \in Nat /\ commands'[i][1] <= last
  <2> TAKE i \in 1 .. Len(commands')
  <2>1. PICK k \in 1 .. c : commands'[i] = commands[k]
    <3>1. CASE c = CommandMemory
      <4>1. i + 1 \in 1 .. c
        BY <1>0, <1>7, <3>1
      <4> QED  BY <1>7, <3>1, <4>1
    <3>2. CASE c # CommandMemory
      BY <1>7, <3>2
    <3> QED  BY <3>1, <3>2
  <2> QED  BY <1>12, <2>1, KeyParts DEF LastBoundsLog
<1>9. /\ last' \in Times \cup {Never}
      /\ \A i \in 1 .. Len(commands') : commands'[i][1] <= last'
  <2> DEFINE T == {Never} \cup {k[1] : k \in ToSet(commands')}
  <2>1. ToSet(commands') = {commands'[i] : i \in 1 .. Len(commands')}
    BY <1>6 DEF ToSet
  <2>2. \A x \in T : x = Never \/ \E i \in 1 .. Len(commands') : x = commands'[i][1]
    BY <2>1
  <2>3. T \subseteq Nat /\ T # {} /\ \A x \in T : x <= last
    <3>1. Never \in Nat /\ Never <= last
      BY <1>0 DEF Never
    <3> QED  BY <1>8, <2>2, <3>1
  <2>4. last' \in T /\ \A x \in T : x <= last'
    <3> HIDE DEF T
    <3> QED  BY <1>0, <2>3, BoundedMax, <1>2 DEF T
  <2>5. \A i \in 1 .. Len(commands') : commands'[i][1] \in T
    BY <2>1
  <2> QED  BY <1>8, <2>2, <2>4, <2>5
<1>10. LogTypeOK'
  <2>1. Len(commands') <= CommandMemory
    BY <1>0, <1>7, <1>12
  <2> QED  BY <1>6, <1>9, <1>12, <2>1 DEF LogTypeOK
<1>11. LogIsNewest'
  <2>1. c <= d /\ (c = d \/ c >= CommandMemory - 1)
    BY <1>12 DEF LogIsNewest
  <2>2. /\ Len(commands') <= Len(done')
        /\ Len(commands') = Len(done') \/ Len(commands') >= CommandMemory - 1
    BY <1>0, <1>7, <2>1
  <2>3. ASSUME NEW i \in 1 .. Len(commands')
        PROVE  commands'[i] = done'[(Len(done') - Len(commands')) + i]
    <3>1. CASE c = CommandMemory
      <4>0. Len(done') = d /\ Len(commands') = c - 1
        BY <1>7, <3>1
      <4>1. i + 1 \in 1 .. c /\ (Len(done') - Len(commands')) + i = (d - c) + (i + 1)
        BY <1>0, <4>0
      <4> QED  BY <1>7, <1>12, <3>1, <4>1 DEF LogIsNewest
    <3>2. CASE c # CommandMemory
      BY <1>0, <1>7, <1>12, <3>2 DEF LogIsNewest
    <3> QED  BY <3>1, <3>2
  <2> QED  BY <2>2, <2>3 DEF LogIsNewest
<1> QED  BY <1>9, <1>10, <1>11, <1>12 DEF LogIInv, LastBoundsLog, CommandsInOrder

-----------------------------------------------------------------------------
(* Who changes the queue, the log and the session.                         *)

LEMMA MediaMoves ==
  ASSUME [Next]_vars
  PROVE  \/ UNCHANGED media
         \/ \E e \in Events : Report(e)
         \/ TakeDetection \/ BeginPublish \/ Published \/ PublishTimeout \/ EndTask
<1>1. CASE Main
  BY <1>1 DEF Main, Start, Shutdown, ClosePatrol, Drained, StopClient, MainOnly
<1>2. CASE OnConnect \/ OnSubscribe \/ OnDisconnect
  BY <1>2 DEF OnConnect, OnSubscribe, OnDisconnect, LinkOnly
<1>3. CASE HomeCaptured \/ PrepareMotion \/ HomeReached \/ ReturnFails \/ PatrolProgress
  BY <1>3 DEF HomeCaptured, PrepareMotion, HomeReached, ReturnFails, PatrolProgress
<1>4. CASE Worker
  BY <1>4 DEF Worker
<1>5. ASSUME NEW e \in Events, BrokenCup(e) \/ Detection(e)
      PROVE  Report(e)
  BY <1>5 DEF BrokenCup, Detection
<1>6. ASSUME NEW e \in Events, Coyote(e) \/ MissionEvent(e)
      PROVE  UNCHANGED media
  BY <1>6 DEF Coyote, MissionEvent
<1>7. ASSUME NEW t \in Times, NEW a \in Actions, Command(t, a)
      PROVE  UNCHANGED media
  BY <1>7 DEF Command
<1>8. CASE UNCHANGED vars
  BY <1>8 DEF vars
<1> QED  BY <1>1, <1>2, <1>3, <1>4, <1>5, <1>6, <1>7, <1>8 DEF Next

LEMMA LogMoves ==
  ASSUME [Next]_vars
  PROVE  \/ UNCHANGED log
         \/ \E t \in Times, a \in Actions :
              /\ Accepted(t, a)
              /\ \/ AcceptCommand(t, a) /\ done' = Remember(done, <<t, a>>, CommandMemory)
                 \/ ForgetCommand(t, a) /\ done' = done
<1>1. CASE Main
  BY <1>1 DEF Main, Start, Shutdown, ClosePatrol, Drained, StopClient, MainOnly
<1>2. CASE OnConnect \/ OnSubscribe \/ OnDisconnect
  BY <1>2 DEF OnConnect, OnSubscribe, OnDisconnect, LinkOnly
<1>3. CASE HomeCaptured \/ PrepareMotion \/ HomeReached \/ ReturnFails \/ PatrolProgress \/ Worker
  BY <1>3 DEF HomeCaptured, PrepareMotion, HomeReached, ReturnFails, PatrolProgress, Worker
<1>4. ASSUME NEW e \in Events, BrokenCup(e) \/ Detection(e) \/ Coyote(e) \/ MissionEvent(e)
      PROVE  UNCHANGED log
  BY <1>4 DEF BrokenCup, Detection, Coyote, MissionEvent
<1>5. ASSUME NEW t \in Times, NEW a \in Actions, Command(t, a)
      PROVE  \/ UNCHANGED log
             \/ /\ Accepted(t, a)
                /\ \/ AcceptCommand(t, a) /\ done' = Remember(done, <<t, a>>, CommandMemory)
                   \/ ForgetCommand(t, a) /\ done' = done
  BY <1>5 DEF Command
<1>6. CASE UNCHANGED vars
  BY <1>6 DEF vars
<1> QED  BY <1>1, <1>2, <1>3, <1>4, <1>5, <1>6 DEF Next

LEMMA MediaStep ==
  ASSUME MediaIInv, [Next]_vars
  PROVE  MediaIInv'
<1>1. CASE UNCHANGED media
  BY <1>1 DEF media, MediaIInv, MediaTypeOK, EventsDistinct, PendingIsNewest, Busy, At
<1> QED  BY <1>1, MediaMoves, ReportMedia, TakeMedia, PublishMedia, EndMedia

LEMMA LogStep ==
  ASSUME LogIInv, [Next]_vars
  PROVE  LogIInv'
<1>1. CASE UNCHANGED log
  BY <1>1 DEF log, LogIInv, LogTypeOK, LogIsNewest, LastBoundsLog, CommandsInOrder
<1> QED  BY <1>1, LogMoves, AcceptLog, FailLog

-----------------------------------------------------------------------------
(* The session and the patrol.                                             *)

Phases == {"starting", "running", "closing", "draining", "disconnecting", "stopped"}
Joined == {"joined", "ready", "refused"}

\* From the step that closes the patrol on, none runs.
PatrolClosed == phase \in {"draining", "disconnecting", "stopped"} => ~patrolling

PatrolIInv ==
  /\ phase \in Phases /\ link \in Joined \cup {"down", "dead"} /\ patrolling \in BOOLEAN
  /\ PatrolNeedsLink /\ PatrolClosed

\* A command or a message reaches the patrol over a session, and, if it starts
\* one, before the process closes.
LEMMA HandleMoves ==
  ASSUME NEW a, Handle(a) \/ HandleFails(a), patrolling \in BOOLEAN
  PROVE  patrolling' \in BOOLEAN
BY DEF Handle, HandleFails, SendHome, StopPatrol, patrol

LEMMA PatrolStep ==
  ASSUME PatrolIInv, [Next]_vars
  PROVE  PatrolIInv'
<1> USE DEF PatrolIInv, PatrolNeedsLink, PatrolClosed, Phases, Joined
<1>1. ASSUME phase' = phase, link' = link, patrolling' \in {patrolling, FALSE}
      PROVE  PatrolIInv'
  <2>1. CASE patrolling' = patrolling
    BY <1>1, <2>1
  <2>2. CASE patrolling' = FALSE
    BY <1>1, <2>2
  <2> QED  BY <1>1, <2>1, <2>2
<1>2. ASSUME NEW t \in Times, NEW a \in Actions, Command(t, a)
      PROVE  PatrolIInv'
  <2>1. UNCHANGED <<phase, link>> /\ link \in Joined /\ phase \in {"starting", "running"}
    BY <1>2 DEF Command, Delivering, Closed
  <2>2. patrolling' \in BOOLEAN
    BY <1>2, HandleMoves DEF Command
  <2> QED  BY <2>1, <2>2
<1>3. ASSUME NEW e \in Events, BrokenCup(e) \/ Coyote(e) \/ Detection(e)
      PROVE  UNCHANGED <<phase, link>> /\ patrolling' = FALSE
  BY <1>3 DEF BrokenCup, Coyote, Detection, StopPatrol
<1>4. ASSUME NEW e \in Events, MissionEvent(e)
      PROVE  UNCHANGED <<phase, link>> /\ patrolling' \in {patrolling, FALSE}
  BY <1>4 DEF MissionEvent, SendHome, patrol
<1>5. CASE HomeCaptured \/ PrepareMotion \/ Worker \/ HomeReached \/ ReturnFails \/ PatrolProgress
  <2>1. UNCHANGED <<phase, link>> /\ patrolling' \in {patrolling, FALSE}
    BY <1>5 DEF HomeCaptured, PrepareMotion, Worker, HomeReached, ReturnFails, PatrolProgress, patrol
  <2> QED  BY <1>1, <2>1
<1>6. CASE OnConnect \/ OnSubscribe
  <2>1. phase' = phase /\ patrolling' = patrolling
    BY <1>6 DEF OnConnect, OnSubscribe, LinkOnly, patrol
  <2>2. \/ link = "down" /\ link' \in {"joined", "dead"}
        \/ link' \in {"ready", "refused"}
    BY <1>6 DEF OnConnect, OnSubscribe
  <2> QED  BY <2>1, <2>2
<1>7. CASE OnDisconnect
  <2>1. phase' = phase /\ link' = "down"
    BY <1>7 DEF OnDisconnect, LinkOnly
  <2>2. CASE phase \notin {"starting", "running"} /\ patrolling' = patrolling
    BY <2>1, <2>2
  <2>3. CASE patrolling' = FALSE
    BY <2>1, <2>3
  <2> QED  BY <1>7, <2>2, <2>3 DEF OnDisconnect, Closed, StopPatrol
<1>8. CASE Start
  BY <1>8 DEF Start
<1>9. CASE Shutdown
  BY <1>9 DEF Shutdown
<1>10. CASE ClosePatrol
  BY <1>10 DEF ClosePatrol, StopPatrol
<1>11. CASE Drained
  BY <1>11 DEF Drained
<1>12. CASE StopClient
  BY <1>12 DEF StopClient
<1>13. CASE UNCHANGED vars
  BY <1>13 DEF vars, patrol
<1> QED
  BY <1>1, <1>2, <1>3, <1>4, <1>5, <1>6, <1>7, <1>8, <1>9, <1>10, <1>11, <1>12, <1>13
  DEF Next, Main

-----------------------------------------------------------------------------
(* The rest of the state.                                                  *)

RestTypeOK ==
  /\ patrolOnly \in BOOLEAN
  /\ network \in Events \cup {NoEvent}
  /\ latched \in BOOLEAN /\ home \in BOOLEAN
  /\ homeward \in Events \cup {NoEvent, Plain}
  /\ reserved \in Events \cup {NoEvent}
  /\ missions \in Seq(Events) /\ Len(missions) <= EventMemory
  /\ prepare \in {"idle", "queued", "running"}

LEMMA RestStep ==
  ASSUME RestTypeOK, [Next]_vars
  PROVE  RestTypeOK'
<1> USE DEF RestTypeOK, patrol
<1>1. ASSUME NEW a \in Actions, Handle(a) \/ HandleFails(a)
      PROVE  latched' \in BOOLEAN /\ home' \in BOOLEAN /\ homeward' \in Events \cup {NoEvent, Plain}
  <2>1. latched' \in BOOLEAN
    BY <1>1 DEF Handle, HandleFails, SendHome
  <2>2. home' \in BOOLEAN
    BY <1>1 DEF Handle, HandleFails, SendHome
  <2>3. homeward' \in Events \cup {NoEvent, Plain}
    BY <1>1 DEF Handle, HandleFails, SendHome, StopPatrol
  <2> QED  BY <2>1, <2>2, <2>3
<1>2. ASSUME NEW t \in Times, NEW a \in Actions, Command(t, a)
      PROVE  RestTypeOK'
  <2>1. UNCHANGED <<patrolOnly, network, reserved, missions, prepare>>
    BY <1>2 DEF Command
  <2>2. Handle(a) \/ HandleFails(a)
    BY <1>2 DEF Command
  <2> QED  BY <1>1, <2>1, <2>2
<1>3. ASSUME NEW e \in Events, BrokenCup(e)
      PROVE  RestTypeOK'
  BY <1>3 DEF BrokenCup, StopPatrol
<1>4. ASSUME NEW e \in Events, Coyote(e)
      PROVE  RestTypeOK'
  BY <1>4 DEF Coyote, StopPatrol
<1>5. ASSUME NEW e \in Events, Detection(e)
      PROVE  RestTypeOK'
  BY <1>5 DEF Detection, StopPatrol, AskPrepare
<1>6. ASSUME NEW e \in Events, MissionEvent(e)
      PROVE  RestTypeOK'
  <2>1. missions' \in Seq(Events) /\ Len(missions') <= EventMemory
    <3>1. EventMemory \in Nat \ {0} /\ Len(missions) \in Nat
      BY RuntimeAssumption DEF RuntimeAssumption
    <3>2. missions' = Remember(missions, e, EventMemory)
      BY <1>6 DEF MissionEvent
    <3>3. /\ Remember(missions, e, EventMemory) \in Seq(Events)
          /\ Len(Remember(missions, e, EventMemory)) =
                IF Len(missions) = EventMemory THEN EventMemory ELSE Len(missions) + 1
      BY <3>1, RememberFacts
    <3> QED  BY <3>1, <3>2, <3>3
  <2>2. /\ UNCHANGED <<patrolOnly, network, reserved, prepare, latched, home>>
        /\ homeward' \in Events \cup {NoEvent, Plain}
    BY <1>6 DEF MissionEvent, SendHome
  <2> QED  BY <2>1, <2>2
<1>7. CASE HomeCaptured
  BY <1>7 DEF HomeCaptured, Release
<1>8. CASE PrepareMotion
  BY <1>8 DEF PrepareMotion
<1>9. CASE HomeReached
  BY <1>9 DEF HomeReached, Release
<1>10. CASE ReturnFails
  BY <1>10 DEF ReturnFails
<1>11. CASE PatrolProgress
  BY <1>11 DEF PatrolProgress
<1>12. CASE OnConnect \/ OnSubscribe \/ OnDisconnect
  BY <1>12 DEF OnConnect, OnSubscribe, OnDisconnect, LinkOnly, StopPatrol
<1>13. CASE Main
  BY <1>13 DEF Main, Start, Shutdown, ClosePatrol, Drained, StopClient, MainOnly, StopPatrol
<1>14. CASE Worker
  BY <1>14 DEF Worker
<1>15. CASE UNCHANGED vars
  BY <1>15 DEF vars
<1> QED
  BY <1>2, <1>3, <1>4, <1>5, <1>6, <1>7, <1>8, <1>9, <1>10, <1>11, <1>12, <1>13, <1>14, <1>15
  DEF Next

-----------------------------------------------------------------------------
(* The theorems.                                                           *)

RuntimeIInv == MediaIInv /\ LogIInv /\ PatrolIInv /\ RestTypeOK

\* Every command, trigger, callback and step of the shutdown, in any order,
\* keeps the queue, the log and the session in step with each other.
THEOREM RuntimeInvariant == Spec => []RuntimeIInv
<1>1. Init => RuntimeIInv
  <2> SUFFICES ASSUME Init
               PROVE  RuntimeIInv
    OBVIOUS
  <2> USE DEF Init
  <2>1. MediaIInv
    <3>1. Len(queue) = 0 /\ Len(events) = 0 /\ At("idle")
      BY DEF At, Idle
    <3>2. MediaTypeOK
      BY <3>1, RuntimeAssumption DEF MediaTypeOK, RuntimeAssumption
    <3>3. free + Len(queue) + Busy = Slots
      BY <3>1, RuntimeAssumption DEF Busy, RuntimeAssumption
    <3>4. EventsDistinct /\ PendingIsNewest
      BY <3>1 DEF EventsDistinct, PendingIsNewest, Busy
    <3> QED  BY <3>2, <3>3, <3>4 DEF MediaIInv
  <2>2. LogIInv
    <3>1. Len(commands) = 0 /\ Len(done) = 0 /\ DOMAIN done = {}
      OBVIOUS
    <3>2. LogTypeOK
      BY <3>1, RuntimeAssumption DEF LogTypeOK, RuntimeAssumption
    <3> QED  BY <3>1, <3>2 DEF LogIInv, LogIsNewest, LastBoundsLog, CommandsInOrder
  <2>3. PatrolIInv
    BY DEF PatrolIInv, Phases, Joined, PatrolNeedsLink, PatrolClosed
  <2>4. RestTypeOK
    <3>1. missions \in Seq(Events) /\ Len(missions) = 0 /\ 0 <= EventMemory
      BY RuntimeAssumption DEF RuntimeAssumption
    <3>2. Len(missions) <= EventMemory
      BY <3>1
    <3> QED  BY <3>1, <3>2 DEF RestTypeOK
  <2> QED  BY <2>1, <2>2, <2>3, <2>4 DEF RuntimeIInv
<1>2. RuntimeIInv /\ [Next]_vars => RuntimeIInv'
  BY MediaStep, LogStep, PatrolStep, RestStep DEF RuntimeIInv
<1> QED  BY <1>1, <1>2, PTL DEF Spec

LEMMA PendingMeaning == MediaIInv => PendingOnce
<1> SUFFICES ASSUME MediaIInv
             PROVE  PendingOnce
  OBVIOUS
<1> DEFINE n == Len(events)
           q == Len(queue)
<1>0. /\ n \in Nat /\ q \in Nat /\ queue \in Seq(Events) /\ q + Busy <= n
      /\ free + q + Busy = Slots /\ free \in 0 .. Slots /\ Slots \in Nat
  BY RuntimeAssumption DEF MediaIInv, MediaTypeOK, PendingIsNewest, RuntimeAssumption
<1>1. /\ Pending \in Seq(Events) /\ Len(Pending) = q + Busy
      /\ \A i \in 1 .. Len(Pending) : Pending[i] = IF i <= q THEN queue[i] ELSE worker.event
  <2>1. CASE At("idle")
    <3>1. Pending = queue
      BY <1>0, <2>1, ConcatEmptySeq DEF Pending
    <3> QED  BY <1>0, <2>1, <3>1 DEF Busy
  <2>2. CASE ~At("idle")
    <3>1. worker.event \in Events
      BY <2>2 DEF MediaIInv, MediaTypeOK, Idle, At
    <3>2. <<worker.event>> \in Seq(Events) /\ Len(<<worker.event>>) = 1 /\ <<worker.event>>[1] = worker.event
      BY <3>1
    <3>3. Pending = queue \o <<worker.event>>
      BY <2>2 DEF Pending
    <3>4. /\ Pending \in Seq(Events) /\ Len(Pending) = q + 1
          /\ \A i \in 1 .. q + 1 :
               Pending[i] = IF i <= q THEN queue[i] ELSE <<worker.event>>[i - q]
      BY <1>0, <3>2, <3>3, ConcatProperties
    <3>5. \A i \in 1 .. q + 1 : ~ (i <= q) => i - q = 1
      BY <1>0
    <3> QED  BY <2>2, <3>2, <3>4, <3>5 DEF Busy
  <2> QED  BY <2>1, <2>2
\* Each entry has its own place in the memory of events.
<1>2. ASSUME NEW i \in 1 .. Len(Pending)
      PROVE  LET k == IF i <= q THEN (n - q) + i ELSE n - q
             IN  k \in 1 .. n /\ Pending[i] = events[k]
  <2>1. CASE i <= q
    <3>1. i \in 1 .. q /\ Pending[i] = queue[i] /\ q <= n
      BY <1>0, <1>1, <2>1 DEF Busy
    <3>2. queue[i] = events[(n - q) + i]
      BY <3>1 DEF MediaIInv, PendingIsNewest
    <3>3. (n - q) + i \in 1 .. n
      BY <1>0, <3>1
    <3> QED  BY <2>1, <3>1, <3>2, <3>3
  <2>2. CASE ~ (i <= q)
    <3>1. Busy = 1 /\ ~At("idle")
      BY <1>0, <1>1, <2>2 DEF Busy
    <3> QED  BY <1>0, <1>1, <2>2, <3>1 DEF MediaIInv, PendingIsNewest
  <2> QED  BY <2>1, <2>2
<1>3. DOMAIN Pending = 1 .. Len(Pending) /\ DOMAIN events = 1 .. n
  BY <1>1 DEF MediaIInv, MediaTypeOK
<1>4. IsInjective(Pending)
  <2> SUFFICES ASSUME NEW i \in 1 .. Len(Pending), NEW j \in 1 .. Len(Pending),
                      Pending[i] = Pending[j]
               PROVE  i = j
    BY <1>3 DEF IsInjective
  <2>1. (IF i <= q THEN (n - q) + i ELSE n - q) = (IF j <= q THEN (n - q) + j ELSE n - q)
    BY <1>2 DEF MediaIInv, EventsDistinct
  <2>2. Len(Pending) <= q + 1 /\ Len(Pending) \in Nat
    BY <1>0, <1>1 DEF Busy
  <2> QED  BY <1>0, <2>1, <2>2
<1>5. ToSet(Pending) \subseteq ToSet(events)
  BY <1>2, <1>3 DEF ToSet
<1>6. free + Len(Pending) = Slots
  BY <1>0, <1>1 DEF Busy
<1> QED  BY <1>4, <1>5, <1>6 DEF PendingOnce

\* No slot of the media queue is ever lost, and no event is pending twice.
THEOREM SlotsAreKept == Spec => []RuntimeInv
<1>1. RuntimeIInv => RuntimeTypeOK
  <2> SUFFICES ASSUME RuntimeIInv
               PROVE  RuntimeTypeOK
    OBVIOUS
  <2>1. worker.event \in Events \cup {NoEvent}
    BY DEF RuntimeIInv, MediaIInv, MediaTypeOK, Idle
  <2> QED
    BY <2>1 DEF RuntimeIInv, MediaIInv, MediaTypeOK, LogIInv, LogTypeOK, PatrolIInv, Phases,
       Joined, RestTypeOK, RuntimeTypeOK
<1>2. RuntimeIInv => PendingOnce
  BY PendingMeaning DEF RuntimeIInv
<1> QED  BY <1>1, <1>2, RuntimeInvariant, PTL DEF RuntimeInv

\* No command is carried out twice and none that enables motion after a newer
\* one, whatever fails and is sent again.
THEOREM CommandsStayInOrder == Spec => []CommandsInOrder
<1>1. RuntimeIInv => CommandsInOrder
  BY DEF RuntimeIInv, LogIInv
<1> QED  BY <1>1, RuntimeInvariant, PTL

\* A patrol never outlives the session it was started in.
THEOREM NoPatrolWithoutLink == Spec => []PatrolNeedsLink
<1>1. RuntimeIInv => PatrolNeedsLink
  BY DEF RuntimeIInv, PatrolIInv
<1> QED  BY <1>1, RuntimeInvariant, PTL
\* After _closed is set no step starts anything: whatever would start a patrol,
\* a return home, a capture or a task looks at _closed under the lock first.
LEMMA ClosedStep ==
  ASSUME Closed, Next, queue \in Seq(Events)
  PROVE  /\ patrolling' => patrolling
         /\ homeward' \in {homeward, NoEvent}
         /\ network' \in {network, NoEvent}
         /\ Len(queue') <= Len(queue)
<1> DEFINE Starts == /\ patrolling' => patrolling
                     /\ homeward' \in {homeward, NoEvent}
                     /\ network' \in {network, NoEvent}
<1>1. Len(queue) \in Nat
  OBVIOUS
<1>2. ASSUME NEW t \in Times, NEW a \in Actions, Command(t, a)
      PROVE  FALSE
  BY <1>2 DEF Command
<1>3. ASSUME NEW e \in Events, MissionEvent(e)
      PROVE  FALSE
  BY <1>3 DEF MissionEvent
<1>4. ASSUME NEW e \in Events, BrokenCup(e) \/ Coyote(e) \/ Detection(e)
      PROVE  Starts /\ queue' = queue
  BY <1>4 DEF BrokenCup, Coyote, Detection, StopPatrol, Report, media
<1>5. CASE Worker
  <2>1. Starts
    BY <1>5 DEF Worker, patrol
  <2>2. CASE TakeDetection
    <3>1. queue # <<>> /\ queue' = Tail(queue)
      BY <2>2 DEF TakeDetection
    <3>2. Len(Tail(queue)) = Len(queue) - 1
      BY <3>1, HeadTailProperties
    <3> QED  BY <1>1, <2>1, <3>1, <3>2
  <2>3. CASE BeginPublish \/ Published \/ PublishTimeout \/ EndTask
    <3>1. queue' = queue
      BY <2>3 DEF BeginPublish, Published, PublishTimeout, EndTask
    <3> QED  BY <1>1, <2>1, <3>1
  <2> QED  BY <1>5, <2>2, <2>3 DEF Worker
<1>6. CASE HomeCaptured \/ PrepareMotion \/ HomeReached \/ ReturnFails \/ PatrolProgress
  BY <1>6 DEF HomeCaptured, PrepareMotion, HomeReached, ReturnFails, PatrolProgress, patrol, media
<1>7. CASE OnConnect \/ OnSubscribe \/ OnDisconnect
  BY <1>7 DEF OnConnect, OnSubscribe, OnDisconnect, LinkOnly, StopPatrol, patrol, media
<1>8. CASE Main
  BY <1>8 DEF Main, Start, Shutdown, ClosePatrol, Drained, StopClient, MainOnly, StopPatrol, media
<1>9. queue' = queue => Len(queue') <= Len(queue)
  BY <1>1
<1> QED  BY <1>2, <1>3, <1>4, <1>5, <1>6, <1>7, <1>8, <1>9 DEF Next

\* Once the process is closing nothing new starts, whichever thread was about
\* to.
THEOREM NothingStartsAfterClose == Spec => ClosedStartsNothing
<1>1. /\ RuntimeIInv
      /\ [Next]_vars
      => [Closed => /\ patrolling' => patrolling
                    /\ homeward' \in {homeward, NoEvent}
                    /\ network' \in {network, NoEvent}
                    /\ Len(queue') <= Len(queue)]_vars
  BY ClosedStep DEF RuntimeIInv, MediaIInv, MediaTypeOK
<1> QED  BY <1>1, RuntimeInvariant, PTL DEF Spec, ClosedStartsNothing
=============================================================================
