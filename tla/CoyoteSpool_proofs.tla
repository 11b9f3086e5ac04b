-------------------------- MODULE CoyoteSpool_proofs --------------------------
(***************************************************************************)
(* Proofs about CoyoteSpool, for any set of events and any queue capacity. *)
(***************************************************************************)
EXTENDS CoyoteSpool, TLAPS

USE DEF SpoolAssumption

-----------------------------------------------------------------------------
(* The queue as a set.                                                     *)

\* Appending a claim adds it to the queue's set.
LEMMA QueuedAppend ==
  ASSUME NEW q \in Seq(Events), NEW c \in Events
  PROVE  {Append(q, c)[i] : i \in DOMAIN Append(q, c)}
           = {q[i] : i \in DOMAIN q} \cup {c}
<1>1. /\ Len(Append(q, c)) = Len(q) + 1
      /\ \A i \in 1 .. Len(q) : Append(q, c)[i] = q[i]
      /\ Append(q, c)[Len(q) + 1] = c
  OBVIOUS
<1> QED  BY <1>1

\* A queue without repetitions keeps none when a new claim is appended.
LEMMA DistinctAppend ==
  ASSUME NEW q \in Seq(Events), NEW c \in Events,
         \A i, j \in DOMAIN q : q[i] = q[j] => i = j,
         c \notin {q[i] : i \in DOMAIN q}
  PROVE  \A i, j \in DOMAIN Append(q, c) : Append(q, c)[i] = Append(q, c)[j] => i = j
<1>1. /\ Len(Append(q, c)) = Len(q) + 1
      /\ \A i \in 1 .. Len(q) : Append(q, c)[i] = q[i]
      /\ Append(q, c)[Len(q) + 1] = c
  OBVIOUS
<1> QED  BY <1>1

\* Taking the head of a queue without repetitions splits its set.
LEMMA QueuedTail ==
  ASSUME NEW q \in Seq(Events), q # <<>>,
         \A i, j \in DOMAIN q : q[i] = q[j] => i = j
  PROVE  /\ Head(q) \in Events
         /\ Tail(q) \in Seq(Events) /\ Len(Tail(q)) = Len(q) - 1
         /\ {q[i] : i \in DOMAIN q} = {Tail(q)[i] : i \in DOMAIN Tail(q)} \cup {Head(q)}
         /\ Head(q) \notin {Tail(q)[i] : i \in DOMAIN Tail(q)}
         /\ \A i, j \in DOMAIN Tail(q) : Tail(q)[i] = Tail(q)[j] => i = j
<1>1. /\ Len(q) \in Nat /\ Len(q) > 0
      /\ Tail(q) \in Seq(Events) /\ Len(Tail(q)) = Len(q) - 1
      /\ Head(q) = q[1]
      /\ \A i \in 1 .. Len(q) - 1 : Tail(q)[i] = q[i + 1]
  OBVIOUS
<1>2. \A i \in 2 .. Len(q) : /\ i - 1 \in 1 .. Len(q) - 1
                             /\ q[i] = Tail(q)[i - 1]
  BY <1>1
<1>3. {q[i] : i \in DOMAIN q} \subseteq {Tail(q)[i] : i \in DOMAIN Tail(q)} \cup {Head(q)}
  <2> SUFFICES ASSUME NEW i \in 1 .. Len(q), q[i] # Head(q)
               PROVE  q[i] \in {Tail(q)[j] : j \in DOMAIN Tail(q)}
    BY <1>1
  <2>1. i \in 2 .. Len(q)
    BY <1>1
  <2>2. i - 1 \in DOMAIN Tail(q)
    BY <1>1, <1>2, <2>1
  <2>3. q[i] = Tail(q)[i - 1]
    BY <1>2, <2>1
  <2> QED  BY <2>2, <2>3
<1>4. {Tail(q)[i] : i \in DOMAIN Tail(q)} \cup {Head(q)} \subseteq {q[i] : i \in DOMAIN q}
  BY <1>1
<1>5. Head(q) \notin {Tail(q)[i] : i \in DOMAIN Tail(q)}
  BY <1>1
<1>6. \A i, j \in DOMAIN Tail(q) : Tail(q)[i] = Tail(q)[j] => i = j
  BY <1>1
<1> QED  BY <1>1, <1>3, <1>4, <1>5, <1>6

-----------------------------------------------------------------------------
(* The invariant.                                                          *)

LEMMA SpoolInvInit == Init => SpoolInv
<1> SUFFICES ASSUME Init PROVE SpoolInv
  OBVIOUS
<1> USE DEF Init
<1>1. Queued = {} /\ Held = {}
  BY DEF Queued, Held
<1>2. SpoolTypeOK
  <2>1. queue \in Seq(Events) /\ Len(queue) <= MaxPending
    BY SpoolAssumption
  <2> QED  BY <2>1 DEF SpoolTypeOK, Producing
<1>3. HeldOnce /\ ClaimOnDisk
  BY <1>1 DEF HeldOnce, ClaimOnDisk
<1>4. OneManifest /\ EpisodeOrder /\ SentAtMostOnce /\ NoClaimForgotten
  BY <1>1 DEF OneManifest, EpisodeOrder, SentAtMostOnce, NoClaimForgotten
<1>5. SendsFollowClaim
  BY <1>1 DEF SendsFollowClaim
<1> QED  BY <1>2, <1>3, <1>4, <1>5 DEF SpoolInv

\* A manifest of an event in one state, spelled out for the provers.
LEMMA ManifestCases ==
  ASSUME SpoolInv, NEW e \in Events
  PROVE  /\ manifests[e] \subseteq ManifestStates
         /\ \A s \in manifests[e] : manifests[e] = {s}
  BY DEF SpoolInv, SpoolTypeOK, OneManifest

\* The producer changes nothing but its own event, which nobody has seen yet.
LEMMA ProducerStep ==
  ASSUME SpoolInv, NEW e \in Events, Producer(e)
  PROVE  SpoolInv'
<1> USE DEF SpoolInv, producerFrame, bridgeVars, Goes, Producing
<1>1. Queued' = Queued /\ Held' = Held
  BY DEF Producer, Queued, Held, StartEpisode, EnsureNew, WriteImage, WriteManifest,
         EpisodeFails, ProducerCrash
<1>2. HeldOnce'
  BY <1>1 DEF HeldOnce, Producer, StartEpisode, EnsureNew, WriteImage, WriteManifest,
              EpisodeFails, ProducerCrash
<1>3. CASE WriteManifest(e)
  <2>1. episode[e] = "written" /\ manifests[e] = {} /\ e \in image
    BY <1>3 DEF WriteManifest, EpisodeOrder
  <2>2. /\ manifests' = [manifests EXCEPT ![e] = {"ready"}]
        /\ episode' = [episode EXCEPT ![e] = "done"]
    BY <1>3, <2>1 DEF WriteManifest, SpoolTypeOK
  <2>3. e \notin Held \cup lost
    BY <2>1 DEF ClaimOnDisk
  <2>4. SpoolTypeOK'
    BY <1>3, <2>2 DEF WriteManifest, SpoolTypeOK, ManifestStates
  <2>5. OneManifest' /\ EpisodeOrder'
    BY <1>3, <2>1, <2>2 DEF WriteManifest, OneManifest, EpisodeOrder, SpoolTypeOK
  <2>6. ClaimOnDisk'
    BY <1>1, <1>3, <2>2, <2>3 DEF WriteManifest, ClaimOnDisk, SpoolTypeOK
  <2>7. SendsFollowClaim'
    BY <1>1, <1>3, <2>1, <2>2 DEF WriteManifest, SendsFollowClaim, SpoolTypeOK
  <2>8. SentAtMostOnce' /\ NoClaimForgotten'
    BY <1>1, <1>3, <2>2 DEF WriteManifest, SentAtMostOnce, NoClaimForgotten, SpoolTypeOK
  <2> QED  BY <1>2, <2>4, <2>5, <2>6, <2>7, <2>8
<1>4. CASE ~WriteManifest(e)
  <2>1. /\ manifests' = manifests /\ image \subseteq image' /\ image' \subseteq Events
        /\ UNCHANGED producerFrame
        /\ \E there \in {"encoding", "checked", "written", "failed", "abandoned"} :
             /\ episode' = [episode EXCEPT ![e] = there]
             /\ there = "written" => e \in image'
        /\ episode[e] # "done"
    BY <1>4 DEF Producer, StartEpisode, EnsureNew, WriteImage, EpisodeFails,
                ProducerCrash, files, SpoolTypeOK
  <2>2. SpoolTypeOK' /\ EpisodeOrder'
    BY <2>1 DEF SpoolTypeOK, EpisodeOrder
  <2>3. OneManifest' /\ ClaimOnDisk' /\ SendsFollowClaim' /\ SentAtMostOnce'
    BY <1>1, <2>1 DEF OneManifest, ClaimOnDisk, SendsFollowClaim, SentAtMostOnce
  <2>4. NoClaimForgotten'
    BY <1>1, <2>1 DEF NoClaimForgotten
  <2> QED  BY <1>2, <2>2, <2>3, <2>4
<1> QED  BY <1>3, <1>4

\* A step that touches neither files nor claims keeps the invariant.
LEMMA FrameStep ==
  ASSUME SpoolInv,
         UNCHANGED <<episode, files, claiming, queue, job, step, sends, lost>>,
         announced' \subseteq Events, connected' \in BOOLEAN,
         bridge' \in {"up", "closing", "down"},
         bridge' = "down" => bridge = "down" \/ Held = {}
  PROVE  SpoolInv'
<1>1. Queued' = Queued /\ Held' = Held
  BY DEF Queued, Held
<1> QED
  BY <1>1 DEF SpoolInv, files, SpoolTypeOK, OneManifest, EpisodeOrder, HeldOnce,
              ClaimOnDisk, SendsFollowClaim, SentAtMostOnce, NoClaimForgotten, Producing

-----------------------------------------------------------------------------
(* Facts shared by the steps that rename a manifest.                       *)

\* An event with a manifest gets another state on disk; no other event does.
LEMMA MoveManifest ==
  ASSUME SpoolInv, NEW e \in Events, NEW s \in ManifestStates,
         manifests[e] # {},
         manifests' = [manifests EXCEPT ![e] = {s}],
         UNCHANGED <<episode, image>>
  PROVE  /\ manifests' \in [Events -> SUBSET ManifestStates]
         /\ manifests'[e] = {s}
         /\ \A f \in Events : f # e => manifests'[f] = manifests[f]
         /\ OneManifest' /\ EpisodeOrder'
<1>1. /\ manifests \in [Events -> SUBSET ManifestStates]
      /\ OneManifest /\ EpisodeOrder
  BY DEF SpoolInv, SpoolTypeOK
<1>2. /\ manifests' \in [Events -> SUBSET ManifestStates]
      /\ manifests'[e] = {s}
      /\ \A f \in Events : f # e => manifests'[f] = manifests[f]
  BY <1>1
<1>3. OneManifest'
  BY <1>1, <1>2 DEF OneManifest
<1>4. EpisodeOrder'
  BY <1>1, <1>2 DEF EpisodeOrder
<1> QED  BY <1>2, <1>3, <1>4

\* Only events are held, and what is held or lost is an event.
LEMMA HeldAreEvents ==
  ASSUME SpoolInv
  PROVE  Queued \subseteq Events /\ Held \subseteq Events /\ lost \subseteq Events
<1>1. /\ queue \in Seq(Events)
      /\ claiming \in Events \cup {NoEvent} /\ job \in Events \cup {NoEvent}
      /\ lost \subseteq Events
  BY DEF SpoolInv, SpoolTypeOK
<1>2. \A i \in DOMAIN queue : queue[i] \in Events
  BY <1>1
<1>3. Queued \subseteq Events
  BY <1>2 DEF Queued
<1> QED  BY <1>1, <1>3 DEF Held

\* Renaming a claim in hand replaces the only manifest it has.
LEMMA RenameClaim ==
  ASSUME SpoolInv, NEW e \in Held, NEW s \in ManifestStates, Rename(e, "sending", s)
  PROVE  /\ e \in Events /\ manifests[e] = {"sending"}
         /\ manifests' = [manifests EXCEPT ![e] = {s}]
<1>1. Held \subseteq Events
  BY HeldAreEvents
<1>2. manifests[e] = {"sending"}
  BY DEF SpoolInv, ClaimOnDisk
<1> QED  BY <1>1, <1>2 DEF Rename, SpoolInv, SpoolTypeOK

\* What leaves the files of the producer alone keeps what they satisfy.
LEMMA SameManifests ==
  ASSUME SpoolInv, UNCHANGED <<episode, files>>
  PROVE  OneManifest' /\ EpisodeOrder'
  BY DEF SpoolInv, files, OneManifest, EpisodeOrder

-----------------------------------------------------------------------------
(* The executor thread.                                                    *)

\* A claim takes an event that nobody holds and that was never handed over.
LEMMA ClaimStep ==
  ASSUME SpoolInv, NEW e \in Events, Claim(e)
  PROVE  SpoolInv'
<1> USE DEF Claim, Receive, Rename, claimFrame
<1>1. manifests[e] = {"ready"}
  BY ManifestCases
<1>2. manifests' = [manifests EXCEPT ![e] = {"sending"}]
  BY <1>1 DEF SpoolInv, SpoolTypeOK
<1>3. e \notin Held \cup lost
  BY <1>1 DEF SpoolInv, ClaimOnDisk
<1>4. Queued' = Queued /\ Held' = Held \cup {e} /\ e \notin Queued /\ e # job
  BY <1>3, SpoolAssumption DEF Queued, Held
<1>5. /\ manifests' \in [Events -> SUBSET ManifestStates]
      /\ manifests'[e] = {"sending"}
      /\ \A f \in Events : f # e => manifests'[f] = manifests[f]
      /\ OneManifest' /\ EpisodeOrder'
  BY <1>1, <1>2, MoveManifest DEF ManifestStates
<1>6. SpoolTypeOK'
  BY <1>5 DEF SpoolInv, SpoolTypeOK, Producing
<1>7. HeldOnce'
  BY <1>4, SpoolAssumption DEF SpoolInv, HeldOnce
<1>8. ClaimOnDisk'
  BY <1>3, <1>4, <1>5 DEF SpoolInv, ClaimOnDisk
<1>9. SendsFollowClaim'
  BY <1>1, <1>4, <1>5 DEF SpoolInv, SendsFollowClaim
<1>10. NoClaimForgotten' /\ SentAtMostOnce'
  BY <1>4, <1>5 DEF SpoolInv, NoClaimForgotten, SentAtMostOnce
<1> QED  BY <1>5, <1>6, <1>7, <1>8, <1>9, <1>10 DEF SpoolInv

\* The claim about to be submitted is in no other hand.
LEMMA ClaimingAlone ==
  ASSUME SpoolInv, claiming # NoEvent
  PROVE  /\ claiming \in Events /\ claiming \in Held
         /\ claiming \notin Queued /\ claiming # job /\ claiming \notin lost
         /\ sends[claiming] = 0 /\ bridge # "down"
<1>1. claiming \in Events /\ claiming \in Held
  BY DEF SpoolInv, SpoolTypeOK, Held
<1>2. claiming \notin Queued /\ claiming # job /\ bridge # "down"
  BY <1>1 DEF SpoolInv, HeldOnce
<1>3. claiming \notin lost
  BY <1>1 DEF SpoolInv, ClaimOnDisk
<1>4. sends[claiming] = 0
  BY <1>1 DEF SpoolInv, SendsFollowClaim
<1> QED  BY <1>1, <1>2, <1>3, <1>4

\* A holder lets go of its claim e, into a state on disk that fits what was
\* sent of it or into the set of the lost; the rest of the claims stay put.
LEMMA LetGo ==
  ASSUME SpoolInv, NEW e \in Held,
         Held' = Held \ {e}, HeldOnce', SendsFollowClaim', SentAtMostOnce',
         SpoolTypeOK', UNCHANGED <<episode, image>>,
         \/ \E s \in ManifestStates \ {"sending"} :
              Rename(e, "sending", s) /\ UNCHANGED lost
         \/ UNCHANGED manifests /\ lost' = lost \cup {e}
  PROVE  SpoolInv'
<1>1. e \notin lost
  BY DEF SpoolInv, ClaimOnDisk
<1>2. CASE UNCHANGED manifests /\ lost' = lost \cup {e}
  <2>1. OneManifest' /\ EpisodeOrder'
    BY <1>2, SameManifests DEF files
  <2>2. ClaimOnDisk' /\ NoClaimForgotten'
    BY <1>2 DEF SpoolInv, ClaimOnDisk, NoClaimForgotten
  <2> QED  BY <2>1, <2>2 DEF SpoolInv
<1>3. ASSUME NEW s \in ManifestStates \ {"sending"},
             Rename(e, "sending", s), UNCHANGED lost
      PROVE  SpoolInv'
  <2>1. e \in Events /\ manifests[e] = {"sending"}
        /\ manifests' = [manifests EXCEPT ![e] = {s}]
    BY <1>3, RenameClaim
  <2>2. /\ manifests'[e] = {s}
        /\ \A f \in Events : f # e => manifests'[f] = manifests[f]
        /\ OneManifest' /\ EpisodeOrder'
    BY <2>1, MoveManifest
  <2>3. Held \cup lost \subseteq Events
    BY HeldAreEvents
  <2>4. ClaimOnDisk'
    BY <1>1, <1>3, <2>2, <2>3 DEF SpoolInv, ClaimOnDisk
  <2>5. NoClaimForgotten'
    BY <1>3, <2>1, <2>2 DEF SpoolInv, NoClaimForgotten
  <2> QED  BY <2>2, <2>4, <2>5 DEF SpoolInv
<1> QED  BY <1>2, <1>3

\* The executor lets go of its claim: it is unreadable, or the queue is full.
LEMMA ExecutorLetsGo ==
  ASSUME SpoolInv, claiming # NoEvent, claiming' = NoEvent,
         UNCHANGED <<announced, queue, claimFrame>>,
         \/ \E s \in {"failed", "ready"} :
              Rename(claiming, "sending", s) /\ UNCHANGED lost
         \/ UNCHANGED manifests /\ lost' = lost \cup {claiming}
  PROVE  SpoolInv'
<1> USE DEF claimFrame
<1>1. /\ claiming \in Events /\ claiming \in Held
      /\ claiming \notin Queued /\ claiming # job
      /\ sends[claiming] = 0 /\ bridge # "down"
  BY ClaimingAlone
<1>2. Queued' = Queued /\ Held' = Held \ {claiming} /\ NoEvent \notin Queued'
  BY <1>1, HeldAreEvents, SpoolAssumption DEF Queued, Held
<1>3. HeldOnce'
  BY <1>1, <1>2 DEF SpoolInv, HeldOnce
<1>4. \/ /\ \E s \in {"failed", "ready"} :
              /\ Rename(claiming, "sending", s)
              /\ manifests' = [manifests EXCEPT ![claiming] = {s}]
         /\ UNCHANGED lost
      \/ UNCHANGED manifests /\ lost' = lost \cup {claiming}
  BY <1>1, RenameClaim DEF ManifestStates
<1>5. SpoolTypeOK'
  BY <1>1, <1>4 DEF SpoolInv, SpoolTypeOK, Producing, ManifestStates
<1>6. SendsFollowClaim' /\ SentAtMostOnce'
  <2>1. SentAtMostOnce'
    BY DEF SpoolInv, SentAtMostOnce
  <2>2. manifests[claiming] = {"sending"} /\ manifests \in [Events -> SUBSET ManifestStates]
    BY <1>1 DEF SpoolInv, ClaimOnDisk, SpoolTypeOK
  <2>3. \A f \in Events : \/ manifests'[f] = manifests[f]
                          \/ f = claiming /\ manifests'[f] \in {{"failed"}, {"ready"}}
    BY <1>4, <2>2
  <2>4. SendsFollowClaim'
    BY <1>1, <1>2, <2>3, SpoolAssumption DEF SpoolInv, SendsFollowClaim
  <2> QED  BY <2>1, <2>4
<1>7. \/ \E s \in ManifestStates \ {"sending"} :
           Rename(claiming, "sending", s) /\ UNCHANGED lost
      \/ UNCHANGED manifests /\ lost' = lost \cup {claiming}
  BY DEF ManifestStates
<1> QED  BY <1>1, <1>2, <1>3, <1>5, <1>6, <1>7, LetGo

\* Submit moves the claim from the executor to the end of the queue.
LEMMA SubmitStep ==
  ASSUME SpoolInv, Submit
  PROVE  SpoolInv'
<1> USE SpoolAssumption DEF claimFrame, Submit
<1>1. /\ claiming \in Events /\ claiming \notin Queued /\ claiming # job
      /\ sends[claiming] = 0 /\ bridge # "down"
  BY ClaimingAlone
<1>2. queue \in Seq(Events)
  BY DEF SpoolInv, SpoolTypeOK
<1>3. Queued' = Queued \cup {claiming}
  BY <1>1, <1>2, QueuedAppend DEF Queued
<1>4. Held' = Held
  BY <1>1, <1>3 DEF Held
<1>5. \A i, j \in DOMAIN queue' : queue'[i] = queue'[j] => i = j
  <2>1. claiming \notin {queue[i] : i \in DOMAIN queue}
    BY <1>1 DEF Queued
  <2>2. \A i, j \in DOMAIN queue : queue[i] = queue[j] => i = j
    BY DEF SpoolInv, HeldOnce
  <2>3. queue' = Append(queue, claiming)
    OBVIOUS
  <2> QED  BY <1>1, <1>2, <2>1, <2>2, <2>3, DistinctAppend
<1>6. HeldOnce'
  <2>1. NoEvent \notin Queued'
    BY <1>1, <1>3, HeldAreEvents
  <2>2. claiming' \notin Queued' /\ job' \notin Queued' /\ bridge' # "down"
    BY <1>1, <1>3, <2>1 DEF SpoolInv, HeldOnce
  <2>3. step' = "idle" <=> job' = NoEvent
    BY DEF SpoolInv, HeldOnce
  <2> QED  BY <1>5, <2>2, <2>3 DEF HeldOnce
<1>7. SpoolTypeOK'
  <2>1. queue' \in Seq(Events) /\ Len(queue') <= MaxPending
    BY <1>1, <1>2
  <2> QED  BY <2>1 DEF SpoolInv, SpoolTypeOK, Producing
<1>8. ClaimOnDisk' /\ NoClaimForgotten' /\ SentAtMostOnce'
  BY <1>4 DEF SpoolInv, SentAtMostOnce, ClaimOnDisk, NoClaimForgotten
<1>9. SendsFollowClaim'
  BY <1>1, <1>3 DEF SpoolInv, SendsFollowClaim
<1>10. OneManifest' /\ EpisodeOrder'
  BY SameManifests DEF files
<1> QED  BY <1>6, <1>7, <1>8, <1>9, <1>10 DEF SpoolInv

-----------------------------------------------------------------------------
(* The worker thread.                                                      *)

\* Take moves the first claim of the queue to the worker.
LEMMA TakeStep ==
  ASSUME SpoolInv, Take
  PROVE  SpoolInv'
<1> USE SpoolAssumption DEF workerFrame, Take, Running
<1>1. /\ queue \in Seq(Events) /\ queue # <<>>
      /\ \A i, j \in DOMAIN queue : queue[i] = queue[j] => i = j
      /\ job = NoEvent /\ claiming \notin Queued
      /\ Queued = {queue[i] : i \in DOMAIN queue}
      /\ Queued' = {queue'[i] : i \in DOMAIN queue'}
  BY DEF SpoolInv, SpoolTypeOK, HeldOnce, Queued
<1>2. /\ job' \in Events
      /\ queue' \in Seq(Events) /\ Len(queue') = Len(queue) - 1
      /\ Queued = Queued' \cup {job'}
      /\ job' \notin Queued'
      /\ \A i, j \in DOMAIN queue' : queue'[i] = queue'[j] => i = j
  <2>1. /\ Head(queue) \in Events
        /\ Tail(queue) \in Seq(Events) /\ Len(Tail(queue)) = Len(queue) - 1
        /\ Queued = {Tail(queue)[i] : i \in DOMAIN Tail(queue)} \cup {Head(queue)}
        /\ Head(queue) \notin {Tail(queue)[i] : i \in DOMAIN Tail(queue)}
        /\ \A i, j \in DOMAIN Tail(queue) : Tail(queue)[i] = Tail(queue)[j] => i = j
    BY <1>1, QueuedTail
  <2>2. job' = Head(queue) /\ queue' = Tail(queue)
    OBVIOUS
  <2>3. Queued' = {Tail(queue)[i] : i \in DOMAIN Tail(queue)}
    BY <1>1, <2>2
  <2> HIDE DEF Take
  <2> QED  BY <2>1, <2>2, <2>3
<1>3. Held' = Held
  BY <1>1, <1>2 DEF Held
<1>4. HeldOnce'
  BY <1>1, <1>2 DEF HeldOnce
<1>5. SpoolTypeOK'
  BY <1>1, <1>2 DEF SpoolInv, SpoolTypeOK, Producing
<1>6. ClaimOnDisk' /\ NoClaimForgotten' /\ SentAtMostOnce'
  BY <1>3 DEF SpoolInv, SentAtMostOnce, ClaimOnDisk, NoClaimForgotten
<1>7. SendsFollowClaim'
  BY <1>1, <1>2 DEF SpoolInv, SendsFollowClaim
<1>8. OneManifest' /\ EpisodeOrder'
  BY SameManifests DEF files
<1> QED  BY <1>4, <1>5, <1>6, <1>7, <1>8 DEF SpoolInv

\* The claim the worker holds is in no other hand.
LEMMA JobAlone ==
  ASSUME SpoolInv, step # "idle"
  PROVE  /\ job \in Events /\ job \in Held /\ manifests[job] = {"sending"}
         /\ job \notin Queued /\ job # claiming
<1>1. job # NoEvent /\ job \in Events /\ job \in Held
  BY DEF SpoolInv, SpoolTypeOK, HeldOnce, Held
<1>2. manifests[job] = {"sending"}
  BY <1>1 DEF SpoolInv, ClaimOnDisk
<1>3. job \notin Queued /\ job # claiming
  BY <1>1 DEF SpoolInv, HeldOnce
<1> QED  BY <1>1, <1>2, <1>3

\* Publishing changes the count and the worker's place, never the files.
LEMMA PublishStep ==
  ASSUME SpoolInv, Publish
  PROVE  SpoolInv'
<1> USE DEF workerFrame, Publish, Running
<1>1. /\ job \in Events /\ manifests[job] = {"sending"}
      /\ job \notin Queued /\ job # claiming /\ sends[job] = 0
  BY JobAlone DEF SpoolInv, SendsFollowClaim
<1>2. /\ \/ sends' = [sends EXCEPT ![job] = 1] /\ step' \in {"completing", "failing"}
         \/ sends' = sends /\ step' = "failing"
      /\ sends \in [Events -> Nat]
  BY <1>1 DEF SpoolInv, SpoolTypeOK
<1>3. Queued' = Queued /\ Held' = Held
  BY DEF Queued, Held
<1>4. HeldOnce' /\ ClaimOnDisk' /\ NoClaimForgotten'
  BY <1>2, <1>3 DEF SpoolInv, HeldOnce, ClaimOnDisk, NoClaimForgotten
<1>5. SpoolTypeOK'
  BY <1>1, <1>2 DEF SpoolInv, SpoolTypeOK, Producing
<1>6. SentAtMostOnce'
  BY <1>1, <1>2 DEF SpoolInv, SentAtMostOnce
<1>7. SendsFollowClaim'
  BY <1>1, <1>2, <1>3 DEF SpoolInv, SendsFollowClaim
<1>8. OneManifest' /\ EpisodeOrder'
  BY SameManifests DEF files
<1> QED  BY <1>4, <1>5, <1>6, <1>7, <1>8 DEF SpoolInv

\* The worker lets go of its claim: it is complete, or it has failed.
LEMMA WorkerLetsGo ==
  ASSUME SpoolInv, step # "idle", job' = NoEvent, step' = "idle",
         UNCHANGED <<queue, sends, workerFrame>>,
         \/ \E s \in {"published", "failed"} :
              /\ Rename(job, "sending", s)
              /\ s = "published" => step = "completing"
              /\ UNCHANGED lost
         \/ UNCHANGED manifests /\ lost' = lost \cup {job}
  PROVE  SpoolInv'
<1> USE SpoolAssumption DEF workerFrame
<1>1. /\ job \in Events /\ job \in Held /\ manifests[job] = {"sending"}
      /\ job \notin Queued /\ job # claiming
      /\ step = "completing" => sends[job] = 1
  BY JobAlone DEF SpoolInv, SendsFollowClaim
<1>2. Queued' = Queued /\ Held' = Held \ {job} /\ NoEvent \notin Queued'
  BY <1>1, HeldAreEvents DEF Queued, Held
<1>3. HeldOnce'
  BY <1>1, <1>2 DEF SpoolInv, HeldOnce
<1>4. \/ /\ \E s \in {"published", "failed"} :
              /\ manifests' = [manifests EXCEPT ![job] = {s}]
              /\ s = "published" => step = "completing"
         /\ UNCHANGED lost
      \/ UNCHANGED manifests /\ lost' = lost \cup {job}
  BY <1>1, RenameClaim DEF ManifestStates
<1>5. SpoolTypeOK'
  BY <1>1, <1>4 DEF SpoolInv, SpoolTypeOK, Producing, ManifestStates
<1>6. SentAtMostOnce'
  BY DEF SpoolInv, SentAtMostOnce
<1>7. SendsFollowClaim'
  <2>1. \A f \in Events :
          \/ manifests'[f] = manifests[f]
          \/ /\ f = job /\ manifests'[f] \in {{"failed"}, {"published"}}
             /\ manifests'[f] = {"published"} => sends[f] = 1
    <3>1. manifests \in [Events -> SUBSET ManifestStates]
      BY DEF SpoolInv, SpoolTypeOK
    <3>2. ASSUME NEW s \in {"published", "failed"},
                 manifests' = [manifests EXCEPT ![job] = {s}],
                 s = "published" => sends[job] = 1
          PROVE  \A f \in Events : f = job => manifests'[f] = {s}
      BY <3>1, <3>2
    <3>3. "published" \notin {"failed"}
      OBVIOUS
    <3> QED  BY <1>1, <1>4, <3>1, <3>2, <3>3
  <2> QED  BY <1>1, <1>2, <2>1 DEF SpoolInv, SendsFollowClaim
<1>8. \/ \E s \in ManifestStates \ {"sending"} :
           Rename(job, "sending", s) /\ UNCHANGED lost
      \/ UNCHANGED manifests /\ lost' = lost \cup {job}
  BY DEF ManifestStates
<1> QED  BY <1>1, <1>2, <1>3, <1>5, <1>6, <1>7, <1>8, LetGo

-----------------------------------------------------------------------------
(* The bridge process, and all steps together.                             *)

\* Nothing is held once the worker is drained and the executor shut down.
LEMMA ClosedHoldsNothing ==
  ASSUME SpoolInv, WorkerDrained, claiming = NoEvent
  PROVE  Held = {} /\ job = NoEvent
<1>1. queue = <<>> /\ job = NoEvent
  BY DEF WorkerDrained, SpoolInv, HeldOnce
<1>2. Queued = {}
  BY <1>1 DEF Queued
<1> QED  BY <1>1, <1>2 DEF Held

\* A dead process leaves all its claims behind, as "sending" on disk.
LEMMA BridgeCrashStep ==
  ASSUME SpoolInv, BridgeCrash
  PROVE  SpoolInv'
<1> USE SpoolAssumption DEF BridgeCrash, processFrame
<1>1. Queued' = {} /\ Held' = {}
  BY DEF Queued, Held
<1>2. HeldOnce'
  BY <1>1 DEF HeldOnce
<1>3. SpoolTypeOK'
  <2>1. lost' \subseteq Events
    BY HeldAreEvents
  <2>2. queue' \in Seq(Events) /\ Len(queue') <= MaxPending
    OBVIOUS
  <2> QED  BY <2>1, <2>2 DEF SpoolInv, SpoolTypeOK, files, Producing
<1>4. ClaimOnDisk' /\ NoClaimForgotten' /\ SentAtMostOnce'
  BY <1>1 DEF SpoolInv, ClaimOnDisk, NoClaimForgotten, SentAtMostOnce, files
<1>5. SendsFollowClaim'
  BY <1>1 DEF SpoolInv, SendsFollowClaim, files
<1>6. OneManifest' /\ EpisodeOrder'
  BY SameManifests
<1> QED  BY <1>2, <1>3, <1>4, <1>5, <1>6 DEF SpoolInv

\* The order in which the bridge is closed keeps every claim accounted for.
LEMMA CloseDoneStep ==
  ASSUME SpoolInv, CloseDone, claiming = NoEvent
  PROVE  SpoolInv'
<1>1. Held = {} /\ job = NoEvent /\ step = "idle"
  BY ClosedHoldsNothing DEF CloseDone, WorkerDrained
<1>2. announced \subseteq Events /\ connected \in BOOLEAN
  BY DEF SpoolInv, SpoolTypeOK
<1>3. /\ UNCHANGED <<episode, files, claiming, queue, job, step, sends, lost>>
      /\ announced' \subseteq Events /\ connected' \in BOOLEAN /\ bridge' = "down"
  BY <1>1, <1>2 DEF CloseDone, processFrame
<1> QED  BY <1>1, <1>3, FrameStep

\* While the bridge closes, the executor has nothing in hand: SpoolInv with
\* this last part is inductive.
ClosingIsQuiet == bridge # "up" => claiming = NoEvent

LEMMA ProcessStep ==
  ASSUME SpoolInv, ClosingIsQuiet, Process
  PROVE  SpoolInv'
<1> USE DEF processFrame
<1>1. announced \subseteq Events /\ connected \in BOOLEAN /\ bridge \in {"up", "closing", "down"}
  BY DEF SpoolInv, SpoolTypeOK
<1>2. CASE Close
  BY <1>1, <1>2, FrameStep DEF Close
<1>3. CASE CloseDone
  BY <1>3, CloseDoneStep DEF CloseDone, ClosingIsQuiet
<1>4. CASE BridgeCrash
  BY <1>4, BridgeCrashStep
<1>5. CASE BridgeStart
  BY <1>1, <1>5, FrameStep DEF BridgeStart
<1>6. CASE ConnectionChanges
  BY <1>1, <1>6, FrameStep DEF ConnectionChanges, bridgeVars
<1> QED  BY <1>2, <1>3, <1>4, <1>5, <1>6 DEF Process

LEMMA ExecutorStep ==
  ASSUME SpoolInv, Executor
  PROVE  SpoolInv'
<1> USE DEF claimFrame
<1>1. announced \subseteq Events /\ connected \in BOOLEAN /\ bridge \in {"up", "closing", "down"}
  BY DEF SpoolInv, SpoolTypeOK
<1>2. CASE Poll
  BY <1>1, <1>2, FrameStep DEF Poll, files
<1>3. CASE ClaimUnreadable
  BY <1>3, ExecutorLetsGo DEF ClaimUnreadable
<1>4. CASE Submit
  BY <1>4, SubmitStep
<1>5. CASE Release
  BY <1>5, ExecutorLetsGo DEF Release
<1>6. ASSUME NEW e \in Events, Drop(e) PROVE SpoolInv'
  BY <1>1, <1>6, FrameStep DEF Drop, files
<1>7. ASSUME NEW e \in Events, Claim(e) PROVE SpoolInv'
  BY <1>7, ClaimStep
<1>8. ASSUME NEW e \in Events, ClaimRefused(e) PROVE SpoolInv'
  BY <1>1, <1>8, FrameStep DEF ClaimRefused, Receive, files
<1> QED  BY <1>2, <1>3, <1>4, <1>5, <1>6, <1>7, <1>8 DEF Executor

LEMMA WorkerStep ==
  ASSUME SpoolInv, Worker
  PROVE  SpoolInv'
<1>1. CASE Take
  BY <1>1, TakeStep
<1>2. CASE Publish
  BY <1>2, PublishStep
<1>3. CASE Complete
  <2>1. announced \subseteq Events /\ connected \in BOOLEAN /\ bridge \in {"up", "closing", "down"}
    BY DEF SpoolInv, SpoolTypeOK
  <2>2. CASE Rename(job, "sending", "published") /\ job' = NoEvent /\ step' = "idle"
    BY <1>3, <2>2, WorkerLetsGo DEF Complete
  <2>3. CASE step' = "failing" /\ UNCHANGED <<manifests, job>>
    <3>1. Queued' = Queued /\ Held' = Held
      BY <1>3, <2>3 DEF Complete, workerFrame, Queued, Held
    <3>2. SpoolTypeOK' /\ HeldOnce'
      BY <1>3, <2>3, <3>1 DEF Complete, workerFrame, SpoolInv, SpoolTypeOK, HeldOnce, Producing
    <3>3. ClaimOnDisk' /\ NoClaimForgotten' /\ SentAtMostOnce'
      BY <1>3, <2>3, <3>1 DEF Complete, SpoolInv, ClaimOnDisk, NoClaimForgotten, SentAtMostOnce
    <3>4. SendsFollowClaim'
      BY <1>3, <2>3, <3>1 DEF Complete, workerFrame, SpoolInv, SendsFollowClaim
    <3>5. OneManifest' /\ EpisodeOrder'
      BY <1>3, <2>3, SameManifests DEF Complete, workerFrame, files
    <3> QED  BY <3>2, <3>3, <3>4, <3>5 DEF SpoolInv
  <2> QED  BY <1>3, <2>2, <2>3 DEF Complete
<1>4. CASE Fail
  BY <1>4, WorkerLetsGo DEF Fail
<1> QED  BY <1>1, <1>2, <1>3, <1>4 DEF Worker

LEMMA ClosingIsQuietStep ==
  ASSUME SpoolInv, ClosingIsQuiet, Next
  PROVE  ClosingIsQuiet'
<1>1. CASE \E e \in Events : Producer(e)
  BY <1>1 DEF Producer, StartEpisode, EnsureNew, WriteImage, WriteManifest, EpisodeFails,
              ProducerCrash, producerFrame, bridgeVars, ClosingIsQuiet
<1>2. CASE Executor
  BY <1>2 DEF Executor, Poll, ClaimUnreadable, Submit, Release, Drop, Claim, ClaimRefused,
              Receive, claimFrame, ClosingIsQuiet
<1>3. CASE Worker
  BY <1>3 DEF Worker, Take, Publish, Complete, Fail, workerFrame, ClosingIsQuiet
<1>4. CASE Process
  BY <1>4 DEF Process, Close, CloseDone, BridgeCrash, BridgeStart, ConnectionChanges,
              bridgeVars, ClosingIsQuiet
<1> QED  BY <1>1, <1>2, <1>3, <1>4 DEF Next

-----------------------------------------------------------------------------
(* The theorems.                                                           *)

\* The inductive invariant holds of every reachable state of the spool, for
\* any set of events and any capacity of the worker's queue.
THEOREM SpoolInvariant == Spec => [](SpoolInv /\ ClosingIsQuiet)
<1>1. Init => SpoolInv /\ ClosingIsQuiet
  BY SpoolInvInit DEF Init, ClosingIsQuiet
<1>2. SpoolInv /\ ClosingIsQuiet /\ [Next]_vars => (SpoolInv /\ ClosingIsQuiet)'
  <2> SUFFICES ASSUME SpoolInv, ClosingIsQuiet, [Next]_vars
               PROVE  (SpoolInv /\ ClosingIsQuiet)'
    OBVIOUS
  <2>1. CASE UNCHANGED vars
    <3>1. announced \subseteq Events /\ connected \in BOOLEAN
          /\ bridge \in {"up", "closing", "down"}
      BY DEF SpoolInv, SpoolTypeOK
    <3>2. SpoolInv'
      BY <2>1, <3>1, FrameStep DEF vars, bridgeVars
    <3> QED  BY <2>1, <3>2 DEF vars, bridgeVars, ClosingIsQuiet
  <2>2. CASE Next
    BY <2>2, ProducerStep, ExecutorStep, WorkerStep, ProcessStep, ClosingIsQuietStep DEF Next
  <2> QED  BY <2>1, <2>2
<1> QED  BY <1>1, <1>2, PTL DEF Spec

\* Every variable keeps its type; the queue keeps its capacity.
THEOREM SpoolTypeCorrect == Spec => []SpoolTypeOK
<1>1. SpoolInv => SpoolTypeOK
  BY DEF SpoolInv
<1> QED  BY <1>1, SpoolInvariant, PTL

\* Whatever crashes, restarts and duplicated messages happen, no image is
\* handed to MQTT twice.
THEOREM ImageSentAtMostOnce == Spec => []SentAtMostOnce
<1>1. SpoolInv => SentAtMostOnce
  BY DEF SpoolInv
<1> QED  BY <1>1, SpoolInvariant, PTL

\* Both together, as the run checks them.
THEOREM SpoolIsSafe == Spec => []SpoolSafety
<1> QED  BY SpoolTypeCorrect, ImageSentAtMostOnce, PTL DEF SpoolSafety

\* No event is ever in two states on disk.
THEOREM ManifestIsUnique == Spec => []OneManifest
<1>1. SpoolInv => OneManifest
  BY DEF SpoolInv
<1> QED  BY <1>1, SpoolInvariant, PTL

\* Whoever sees a manifest finds the image it describes.
THEOREM MediaBeforeManifest == Spec => []ManifestHasImage
<1>1. SpoolInv => ManifestHasImage
  BY DEF SpoolInv, EpisodeOrder, ManifestHasImage
<1> QED  BY <1>1, SpoolInvariant, PTL

\* A manifest that says published, or ready, is right about what was sent.
THEOREM ManifestTellsTruth == Spec => []FilesTellTruth
<1>1. SpoolInv => FilesTellTruth
  <2> SUFFICES ASSUME SpoolInv, NEW e \in Events
               PROVE  /\ "published" \in manifests[e] => sends[e] = 1
                      /\ "ready" \in manifests[e] => sends[e] = 0
    BY DEF FilesTellTruth
  <2>1. \A s \in manifests[e] : manifests[e] = {s}
    BY ManifestCases
  <2> QED  BY <2>1 DEF SpoolInv, SendsFollowClaim
<1> QED  BY <1>1, SpoolInvariant, PTL

\* One state per event, an image behind each manifest, and the truth in it.
THEOREM ManifestsAreTrue == Spec => []ManifestsTellTruth
BY ManifestIsUnique, MediaBeforeManifest, ManifestTellsTruth, PTL DEF ManifestsTellTruth

\* A claim leaves the bridge's hands only through a crash or a tombstone that
\* could not be written.
THEOREM ClaimsAccountedFor == Spec => []NoClaimForgotten
<1>1. SpoolInv => NoClaimForgotten
  BY DEF SpoolInv
<1> QED  BY <1>1, SpoolInvariant, PTL

-----------------------------------------------------------------------------
(* The spool implements MediaDelivery.                                     *)

StageOf(s) == IF s = "ready" THEN "offered"
              ELSE IF s = "sending" THEN "taken" ELSE "settled"

\* The stage of an event with one manifest.
LEMMA StageOfManifest ==
  ASSUME NEW e \in Events, NEW s \in ManifestStates, manifests[e] = {s}
  PROVE  Stage(e) = StageOf(s)
<1>1. \A t : t \in manifests[e] <=> t = s
  OBVIOUS
<1>2. manifests[e] # {}
  OBVIOUS
<1> QED  BY <1>1, <1>2 DEF Stage, StageOf, ManifestStates

\* A step that gives e the one manifest s moves the stage of e, and no other.
LEMMA StageMoves ==
  ASSUME SpoolInv, NEW e \in Events, NEW s \in ManifestStates,
         manifests' = [manifests EXCEPT ![e] = {s}]
  PROVE  [f \in Events |-> Stage(f)]'
           = [[f \in Events |-> Stage(f)] EXCEPT ![e] = StageOf(s)]
<1>1. manifests'[e] = {s} /\ \A f \in Events : f # e => manifests'[f] = manifests[f]
  BY DEF SpoolInv, SpoolTypeOK
<1>2. Stage(e)' = StageOf(s)
  <2>1. \A t : t \in manifests'[e] <=> t = s
    BY <1>1
  <2>2. manifests'[e] # {}
    BY <1>1
  <2> QED  BY <2>1, <2>2 DEF Stage, StageOf, ManifestStates
<1>3. \A f \in Events : f # e => Stage(f)' = Stage(f)
  BY <1>1 DEF Stage
<1> QED  BY <1>2, <1>3

\* Neither files nor counts change: the abstract delivery stutters.
LEMMA DeliveryStutters ==
  ASSUME UNCHANGED <<manifests, sends>>
  PROVE  UNCHANGED Abstract!vars
BY DEF Abstract!vars, Stage

LEMMA RefineProducer ==
  ASSUME SpoolInv, NEW e \in Events, Producer(e)
  PROVE  [Abstract!Next]_Abstract!vars
<1>1. CASE WriteManifest(e)
  <2>1. manifests[e] = {}
    BY <1>1 DEF WriteManifest, SpoolInv, EpisodeOrder
  <2>2. manifests' = [manifests EXCEPT ![e] = {"ready"}]
    BY <1>1, <2>1 DEF WriteManifest, SpoolInv, SpoolTypeOK
  <2>3. Stage(e) = "new"
    BY <2>1 DEF Stage
  <2>4. [f \in Events |-> Stage(f)]'
          = [[f \in Events |-> Stage(f)] EXCEPT ![e] = "offered"]
    BY <2>2, StageMoves DEF ManifestStates, StageOf
  <2>5. UNCHANGED sends
    BY <1>1 DEF WriteManifest, producerFrame
  <2> QED  BY <2>3, <2>4, <2>5 DEF Abstract!Next, Abstract!Offer
<1>2. CASE ~WriteManifest(e)
  <2>1. UNCHANGED <<manifests, sends>>
    BY <1>2 DEF Producer, StartEpisode, EnsureNew, WriteImage, EpisodeFails,
                ProducerCrash, files, producerFrame
  <2> QED  BY <2>1, DeliveryStutters
<1> QED  BY <1>1, <1>2

LEMMA RefineClaim ==
  ASSUME SpoolInv, NEW e \in Events, Claim(e)
  PROVE  [Abstract!Next]_Abstract!vars
<1> USE DEF Claim, Receive, Rename, claimFrame
<1>1. manifests[e] = {"ready"}
  BY ManifestCases
<1>2. manifests' = [manifests EXCEPT ![e] = {"sending"}]
  BY <1>1 DEF SpoolInv, SpoolTypeOK
<1>3. Stage(e) = "offered"
  BY <1>1, StageOfManifest DEF ManifestStates, StageOf
<1>4. [f \in Events |-> Stage(f)]'
        = [[f \in Events |-> Stage(f)] EXCEPT ![e] = "taken"]
  BY <1>2, StageMoves DEF ManifestStates, StageOf
<1> QED  BY <1>3, <1>4 DEF Abstract!Next, Abstract!Take

\* A claim in hand is closed, or given back as long as nothing was sent.
LEMMA RefineLetGo ==
  ASSUME SpoolInv, NEW e \in Held, UNCHANGED sends,
         \/ \E s \in {"published", "failed"} : Rename(e, "sending", s)
         \/ Rename(e, "sending", "ready") /\ sends[e] = 0
         \/ UNCHANGED manifests
  PROVE  [Abstract!Next]_Abstract!vars
<1>1. e \in Events /\ Stage(e) = "taken"
  <2>1. e \in Events /\ manifests[e] = {"sending"}
    BY HeldAreEvents DEF SpoolInv, ClaimOnDisk
  <2> QED  BY <2>1, StageOfManifest DEF ManifestStates, StageOf
<1>2. ASSUME NEW s \in {"published", "failed"}, Rename(e, "sending", s)
      PROVE  Abstract!Settle(e)
  <2>1. manifests' = [manifests EXCEPT ![e] = {s}]
    BY <1>2, RenameClaim DEF ManifestStates
  <2>2. [f \in Events |-> Stage(f)]'
          = [[f \in Events |-> Stage(f)] EXCEPT ![e] = "settled"]
    BY <1>1, <2>1, StageMoves DEF ManifestStates, StageOf
  <2> QED  BY <1>1, <2>2 DEF Abstract!Settle
<1>3. CASE Rename(e, "sending", "ready") /\ sends[e] = 0
  <2>1. manifests' = [manifests EXCEPT ![e] = {"ready"}]
    BY <1>3, RenameClaim DEF ManifestStates
  <2>2. [f \in Events |-> Stage(f)]'
          = [[f \in Events |-> Stage(f)] EXCEPT ![e] = "offered"]
    BY <1>1, <2>1, StageMoves DEF ManifestStates, StageOf
  <2>3. e \notin {f \in Events : sends[f] > 0}
    BY <1>3
  <2>4. {f \in Events : sends[f] > 0}' = {f \in Events : sends[f] > 0}
    OBVIOUS
  <2>5. Abstract!GiveBack(e)
    BY <1>1, <2>2, <2>3, <2>4 DEF Abstract!GiveBack
  <2> QED  BY <1>1, <2>5 DEF Abstract!Next
<1>4. CASE UNCHANGED manifests
  BY <1>4, DeliveryStutters
<1> QED  BY <1>1, <1>2, <1>3, <1>4 DEF Abstract!Next

LEMMA RefineExecutor ==
  ASSUME SpoolInv, Executor
  PROVE  [Abstract!Next]_Abstract!vars
<1>1. CASE Poll \/ Submit \/ \E e \in Events : Drop(e) \/ ClaimRefused(e)
  BY <1>1, DeliveryStutters DEF Poll, Submit, Drop, ClaimRefused, claimFrame
<1>2. ASSUME NEW e \in Events, Claim(e) PROVE [Abstract!Next]_Abstract!vars
  BY <1>2, RefineClaim
<1>3. CASE ClaimUnreadable
  BY <1>3, ClaimingAlone, RefineLetGo DEF ClaimUnreadable, claimFrame
<1>4. CASE Release
  BY <1>4, ClaimingAlone, RefineLetGo DEF Release, claimFrame
<1> QED  BY <1>1, <1>2, <1>3, <1>4 DEF Executor

LEMMA RefineWorker ==
  ASSUME SpoolInv, Worker
  PROVE  [Abstract!Next]_Abstract!vars
<1>1. CASE Take
  BY <1>1, DeliveryStutters DEF Take
<1>2. CASE Publish
  <2>1. /\ job \in Events /\ manifests[job] = {"sending"} /\ sends[job] = 0
        /\ sends \in [Events -> Nat]
    BY <1>2, JobAlone DEF Publish, SpoolInv, SendsFollowClaim, SpoolTypeOK
  <2>2. CASE UNCHANGED sends
    BY <1>2, <2>2, DeliveryStutters DEF Publish
  <2>3. CASE sends' = [sends EXCEPT ![job] = @ + 1]
    <3>1. Stage(job) = "taken"
      BY <2>1, StageOfManifest DEF ManifestStates, StageOf
    <3>2. {e \in Events : sends[e] > 0}' = {e \in Events : sends[e] > 0} \cup {job}
      BY <2>1, <2>3
    <3>3. [e \in Events |-> Stage(e)]' = [e \in Events |-> Stage(e)]
      BY <1>2 DEF Publish, Stage
    <3> QED  BY <2>1, <3>1, <3>2, <3>3 DEF Abstract!Next, Abstract!Hand
  <2> QED  BY <1>2, <2>2, <2>3 DEF Publish
<1>3. CASE Complete
  BY <1>3, JobAlone, RefineLetGo DEF Complete
<1>4. CASE Fail
  BY <1>4, JobAlone, RefineLetGo DEF Fail
<1> QED  BY <1>1, <1>2, <1>3, <1>4 DEF Worker

\* The spool, with its files, threads and crashes, implements the delivery.
THEOREM SpoolImplementsDelivery == Spec => ImplementsDelivery
<1>1. Init => Abstract!Init
  BY DEF Init, Abstract!Init, Stage
<1>2. SpoolInv /\ [Next]_vars => [Abstract!Next]_Abstract!vars
  <2> SUFFICES ASSUME SpoolInv, [Next]_vars PROVE [Abstract!Next]_Abstract!vars
    OBVIOUS
  <2>1. CASE UNCHANGED vars
    BY <2>1, DeliveryStutters DEF vars, files
  <2>2. CASE Process
    BY <2>2, DeliveryStutters DEF Process, Close, CloseDone, BridgeCrash, BridgeStart,
            ConnectionChanges, processFrame, files
  <2> QED  BY <2>1, <2>2, RefineProducer, RefineExecutor, RefineWorker DEF Next
<1> QED  BY <1>1, <1>2, SpoolInvariant, PTL DEF Spec, ImplementsDelivery, Abstract!Spec
=============================================================================
