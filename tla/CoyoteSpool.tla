----------------------------- MODULE CoyoteSpool -----------------------------
(***************************************************************************)
(* The spool that carries an image from the perception process to MQTT:    *)
(* CoyoteMediaSpool (lite3_perception/coyote_spool.py) and the episodes of *)
(* its producer (coyote_pipeline.py), CoyoteSpoolReader and                *)
(* CoyoteMediaWorker (lite3_mqtt/coyote_bridge.py), and the two ROS nodes  *)
(* that announce and claim (lite3_ros/coyote_bridge_rclpy_node.py).        *)
(*                                                                         *)
(* Three actors: the producer process; the bridge's ROS executor, a single *)
(* thread; the bridge's worker thread.  Either process may die between any *)
(* two file operations and start again; the files stay.  Every file        *)
(* operation is one os.replace, hence atomic.                              *)
(***************************************************************************)
EXTENDS Naturals, Sequences

CONSTANTS
  Events,      \* event ids, one for each episode of the producer
  NoEvent,     \* no claim in hand
  MaxPending   \* max_pending, the capacity of the worker's queue

ASSUME SpoolAssumption ==
  /\ NoEvent \notin Events
  /\ MaxPending \in Nat \ {0}

VARIABLES
  episode,    \* where the producer is with each event
  image,      \* the events whose image.jpg is complete
  manifests,  \* for each event, the states s with an image.<s>.json on disk
  announced,  \* the events with a message on the internal image topic
  connected,  \* the MQTT client is connected and subscribed
  bridge,     \* the bridge process: "up", "closing" or "down"
  claiming,   \* the claim the executor thread is about to submit
  queue,      \* the worker's queue
  job,        \* the claim the worker holds
  step,       \* what the worker does with it next
  sends,      \* history: how often each image was handed to the MQTT client
  lost        \* history: claims a crash or a failed tombstone left behind

files == <<image, manifests>>
bridgeVars == <<announced, bridge, claiming, queue, job, step>>
vars == <<episode, files, connected, bridgeVars, sends, lost>>

ManifestStates == {"ready", "sending", "published", "failed"}

Init ==
  /\ episode = [e \in Events |-> "none"]
  /\ image = {}
  /\ manifests = [e \in Events |-> {}]
  /\ announced = {}
  /\ connected = FALSE
  /\ bridge = "up"
  /\ claiming = NoEvent
  /\ queue = <<>>
  /\ job = NoEvent /\ step = "idle"
  /\ sends = [e \in Events |-> 0]
  /\ lost = {}

Queued == {queue[i] : i \in DOMAIN queue}

\* The claims somebody in the bridge process holds.
Held == (Queued \cup {claiming, job}) \ {NoEvent}

\* os.replace within the directory of e.
Rename(e, from, to) ==
  /\ from \in manifests[e]
  /\ manifests' = [manifests EXCEPT ![e] = (@ \ {from}) \cup {to}]

-----------------------------------------------------------------------------
(* The producer: _start_episode, write_image.  It works on one event at a  *)
(* time, and an event id is never used again.                              *)

Producing == {"encoding", "checked", "written"}
Goes(e, there) == episode' = [episode EXCEPT ![e] = there]
producerFrame == <<connected, bridgeVars, sends, lost>>

StartEpisode(e) ==
  /\ episode[e] = "none"
  /\ \A f \in Events : episode[f] \notin Producing
  /\ Goes(e, "encoding")
  /\ UNCHANGED <<files, producerFrame>>

\* The frame is encoded and _ensure_new_artifact finds no manifest of e.
EnsureNew(e) ==
  /\ episode[e] = "encoding"
  /\ manifests[e] = {}
  /\ Goes(e, "checked")
  /\ UNCHANGED <<files, producerFrame>>

WriteImage(e) ==
  /\ episode[e] = "checked"
  /\ image' = image \cup {e}
  /\ Goes(e, "written")
  /\ UNCHANGED <<manifests, producerFrame>>

\* Wrong variant: the manifest first.
WriteManifestFirst(e) ==
  /\ episode[e] \in {"checked", "written"}
  /\ manifests' = [manifests EXCEPT ![e] = @ \cup {"ready"}]
  /\ Goes(e, "done")
  /\ UNCHANGED <<image, producerFrame>>

WriteManifest(e) ==
  /\ episode[e] = "written"
  /\ manifests' = [manifests EXCEPT ![e] = @ \cup {"ready"}]
  /\ Goes(e, "done")
  /\ UNCHANGED <<image, producerFrame>>

\* Encoding, checking or writing raised.  _write_media_failure then calls
\* write_failure with a duration_ms it does not take: a TypeError, logged.
EpisodeFails(e) ==
  /\ episode[e] \in Producing
  /\ Goes(e, "failed")
  /\ UNCHANGED <<files, producerFrame>>

ProducerCrash(e) ==
  /\ episode[e] \in Producing
  /\ Goes(e, "abandoned")
  /\ UNCHANGED <<files, producerFrame>>

-----------------------------------------------------------------------------
(* The executor thread of the bridge.                                      *)

claimFrame == <<episode, image, connected, bridge, job, step, sends>>

\* CoyoteSpoolAdapterNode._poll: every ready manifest, again and again.
Poll ==
  /\ bridge = "up" /\ claiming = NoEvent
  /\ connected
  /\ announced' = announced \cup {e \in Events : "ready" \in manifests[e]}
  /\ UNCHANGED <<manifests, claiming, queue, lost, claimFrame>>

\* A message on the image topic is taken; further copies of it may wait.
Receive(e) ==
  /\ bridge = "up" /\ claiming = NoEvent
  /\ e \in announced
  /\ announced' \in {announced, announced \ {e}}

Drop(e) ==
  /\ e \in announced
  /\ announced' = announced \ {e}
  /\ UNCHANGED <<manifests, claiming, queue, lost, claimFrame>>

\* claim: at most one caller can rename ready to sending.
Claim(e) ==
  /\ Receive(e)
  /\ manifests[e] \cap {"published", "failed"} = {}
  /\ Rename(e, "ready", "sending")
  /\ claiming' = e
  /\ UNCHANGED <<queue, lost, claimFrame>>

ClaimRefused(e) ==
  /\ Receive(e)
  /\ manifests[e] \cap {"published", "failed"} # {} \/ "ready" \notin manifests[e]
  /\ UNCHANGED <<manifests, claiming, queue, lost, claimFrame>>

\* The manifest cannot be read back: fail, which may itself raise.
ClaimUnreadable ==
  /\ claiming # NoEvent
  /\ \/ Rename(claiming, "sending", "failed") /\ UNCHANGED lost
     \/ UNCHANGED manifests /\ lost' = lost \cup {claiming}
  /\ claiming' = NoEvent
  /\ UNCHANGED <<announced, queue, claimFrame>>

Submit ==
  /\ claiming # NoEvent
  /\ Len(queue) < MaxPending
  /\ queue' = Append(queue, claiming)
  /\ claiming' = NoEvent
  /\ UNCHANGED <<manifests, announced, lost, claimFrame>>

\* Wrong variant: the claim is not given back.
ReleaseForgotten ==
  /\ claiming # NoEvent /\ Len(queue) = MaxPending
  /\ claiming' = NoEvent
  /\ UNCHANGED <<manifests, announced, queue, lost, claimFrame>>

\* The queue is full: release, which may itself raise.
Release ==
  /\ claiming # NoEvent
  /\ Len(queue) = MaxPending
  /\ \/ Rename(claiming, "sending", "ready") /\ UNCHANGED lost
     \/ UNCHANGED manifests /\ lost' = lost \cup {claiming}
  /\ claiming' = NoEvent
  /\ UNCHANGED <<announced, queue, claimFrame>>

-----------------------------------------------------------------------------
(* The worker thread, CoyoteMediaWorker._run.                              *)

workerFrame == <<episode, image, connected, announced, bridge, claiming>>
Running == bridge # "down"

Take ==
  /\ Running
  /\ step = "idle" /\ queue # <<>>
  /\ job' = Head(queue)
  /\ queue' = Tail(queue)
  /\ step' = "publishing"
  /\ UNCHANGED <<manifests, sends, lost, workerFrame>>

\* Wrong variant: an unconfirmed publication is tried again.
PublishRetrying ==
  /\ Running /\ step = "publishing"
  /\ connected /\ job \in image
  /\ sends' = [sends EXCEPT ![job] = @ + 1]
  /\ step' \in {"completing", "publishing"}
  /\ UNCHANGED <<manifests, queue, job, lost, workerFrame>>

\* publish: the image is read and handed over.  It raises without effect when
\* the file has changed or the client is disconnected, and after the fact when
\* the client does not confirm in time.
Publish ==
  /\ Running
  /\ step = "publishing"
  /\ \/ /\ connected /\ job \in image
        /\ sends' = [sends EXCEPT ![job] = @ + 1]
        /\ step' \in {"completing", "failing"}
     \/ /\ step' = "failing"
        /\ UNCHANGED sends
  /\ UNCHANGED <<manifests, queue, job, lost, workerFrame>>

Complete ==
  /\ Running
  /\ step = "completing"
  /\ \/ /\ Rename(job, "sending", "published")
        /\ job' = NoEvent /\ step' = "idle"
     \/ /\ step' = "failing"
        /\ UNCHANGED <<manifests, job>>
  /\ UNCHANGED <<queue, sends, lost, workerFrame>>

\* Wrong variant: a failed claim is given back for another attempt.
FailRetrying ==
  /\ Running /\ step = "failing"
  /\ Rename(job, "sending", "ready")
  /\ job' = NoEvent /\ step' = "idle"
  /\ UNCHANGED <<queue, sends, lost, workerFrame>>

\* _fail_claim: the tombstone, or an exception that is only logged.
Fail ==
  /\ Running
  /\ step = "failing"
  /\ \/ Rename(job, "sending", "failed") /\ UNCHANGED lost
     \/ UNCHANGED manifests /\ lost' = lost \cup {job}
  /\ job' = NoEvent /\ step' = "idle"
  /\ UNCHANGED <<queue, sends, workerFrame>>

-----------------------------------------------------------------------------
(* The life of the bridge process, and its connection.                     *)

processFrame == <<episode, files, connected, sends>>

\* The executor is shut down, then the worker is closed: it drains its queue.
Close ==
  /\ bridge = "up" /\ claiming = NoEvent
  /\ bridge' = "closing"
  /\ announced' = {}
  /\ UNCHANGED <<claiming, queue, job, step, lost, processFrame>>

WorkerDrainedEarly == queue = <<>>   \* wrong variant: the current claim is not awaited
WorkerDrained == queue = <<>> /\ step = "idle"

CloseDone ==
  /\ bridge = "closing"
  /\ WorkerDrained
  /\ bridge' = "down"
  /\ job' = NoEvent /\ step' = "idle"
  /\ UNCHANGED <<announced, claiming, queue, lost, processFrame>>

\* The process dies (or the worker does not stop in time, and dies with it).
BridgeCrash ==
  /\ Running
  /\ bridge' = "down"
  /\ announced' = {}
  /\ claiming' = NoEvent /\ queue' = <<>> /\ job' = NoEvent /\ step' = "idle"
  /\ lost' = lost \cup Held
  /\ UNCHANGED processFrame

BridgeStart ==
  /\ bridge = "down"
  /\ bridge' = "up"
  /\ UNCHANGED <<announced, claiming, queue, job, step, lost, processFrame>>

ConnectionChanges ==
  /\ connected' = ~connected
  /\ UNCHANGED <<episode, files, bridgeVars, sends, lost>>

-----------------------------------------------------------------------------
Producer(e) == \/ StartEpisode(e) \/ EnsureNew(e) \/ WriteImage(e) \/ WriteManifest(e)
               \/ EpisodeFails(e) \/ ProducerCrash(e)

Executor == \/ Poll \/ ClaimUnreadable \/ Submit \/ Release
            \/ \E e \in Events : Drop(e) \/ Claim(e) \/ ClaimRefused(e)

Worker == Take \/ Publish \/ Complete \/ Fail

Process == Close \/ CloseDone \/ BridgeCrash \/ BridgeStart \/ ConnectionChanges

Next == (\E e \in Events : Producer(e)) \/ Executor \/ Worker \/ Process

Spec == Init /\ [][Next]_vars

\* The bridge is started and, in the end, stays up and connected; its timer
\* fires, its topic delivers a message that is sent again and again, and its
\* two threads run.
Fairness ==
  /\ <>[](bridge = "up" /\ connected)
  /\ WF_vars(Poll)
  /\ \A e \in Events : SF_vars(Claim(e))
  /\ WF_vars(ClaimUnreadable \/ Submit \/ Release)
  /\ WF_vars(Worker)

FairSpec == Spec /\ Fairness

-----------------------------------------------------------------------------
(* Properties.                                                             *)

SpoolTypeOK ==
  /\ episode \in [Events -> {"none", "done", "failed", "abandoned"} \cup Producing]
  /\ image \subseteq Events
  /\ manifests \in [Events -> SUBSET ManifestStates]
  /\ announced \subseteq Events
  /\ connected \in BOOLEAN
  /\ bridge \in {"up", "closing", "down"}
  /\ claiming \in Events \cup {NoEvent}
  /\ queue \in Seq(Events) /\ Len(queue) <= MaxPending
  /\ job \in Events \cup {NoEvent}
  /\ step \in {"idle", "publishing", "completing", "failing"}
  /\ sends \in [Events -> Nat]
  /\ lost \subseteq Events

\* "Read atomic spool entries and claim each artifact at most once": no image
\* is handed to MQTT twice, whatever crashes, restarts or duplicated messages.
SentAtMostOnce == \A e \in Events : sends[e] <= 1

\* The types, the capacity of the queue, and no image sent twice.
SpoolSafety == SpoolTypeOK /\ SentAtMostOnce

\* An event has one state on disk at any time, so every reader sees the same.
OneManifest ==
  \A e \in Events : \A s, t \in manifests[e] : s = t

\* "Write final media first and a ready manifest last": a manifest never
\* points to an image that is missing or incomplete.
ManifestHasImage == \A e \in Events : manifests[e] # {} => e \in image

\* The files tell the truth: published means handed over, and an event that is
\* offered (again) has never been handed over.
FilesTellTruth ==
  \A e \in Events : /\ "published" \in manifests[e] => sends[e] = 1
                    /\ "ready" \in manifests[e] => sends[e] = 0

\* Whoever reads the event directories, at any moment, reads the truth: one
\* state per event, a complete image behind it, and the right end of its claim.
ManifestsTellTruth == OneManifest /\ ManifestHasImage /\ FilesTellTruth

\* A claim is forgotten only by a crash or by a tombstone that cannot be
\* written, never by a full queue or a shutdown.
NoClaimForgotten ==
  \A e \in Events : "sending" \in manifests[e] => e \in Held \cup lost

\* Every image that is offered is eventually published or marked failed.
OfferedIsSettled ==
  \A e \in Events :
    "ready" \in manifests[e] ~>
      manifests[e] \cap {"published", "failed"} # {} \/ e \in lost

\* The parts of the inductive invariant that the properties above rest on.

\* Only a finished episode has a manifest, and only a written one an image.
EpisodeOrder ==
  \A e \in Events : /\ episode[e] # "done" => manifests[e] = {}
                    /\ episode[e] \in {"written", "done"} => e \in image

\* Each claim is held once: in the executor, the queue or the worker.
HeldOnce ==
  /\ \A i, j \in DOMAIN queue : queue[i] = queue[j] => i = j
  /\ claiming \notin Queued /\ job \notin Queued
  /\ claiming # NoEvent => claiming # job
  /\ step = "idle" <=> job = NoEvent
  /\ bridge = "down" => Held = {}

\* A claim in hand is "sending" on disk, and one left behind stays so.
ClaimOnDisk ==
  /\ \A e \in Held \cup lost : manifests[e] = {"sending"}
  /\ Held \cap lost = {}

\* An image is handed over between "sending" and the end of its claim.
SendsFollowClaim ==
  \A e \in Events :
    /\ manifests[e] \in {{}, {"ready"}} => sends[e] = 0
    /\ manifests[e] = {"published"} => sends[e] = 1
    /\ e \in Queued \cup {claiming} => sends[e] = 0
    /\ e = job /\ step = "publishing" => sends[e] = 0
    /\ e = job /\ step = "completing" => sends[e] = 1

SpoolInv ==
  /\ SpoolTypeOK /\ OneManifest /\ EpisodeOrder
  /\ HeldOnce /\ ClaimOnDisk /\ SendsFollowClaim
  /\ SentAtMostOnce /\ NoClaimForgotten

-----------------------------------------------------------------------------
(* Refinement: the spool implements MediaDelivery.                         *)

Stage(e) ==
  IF manifests[e] = {} THEN "new"
  ELSE IF "ready" \in manifests[e] THEN "offered"
  ELSE IF "sending" \in manifests[e] THEN "taken" ELSE "settled"

Abstract == INSTANCE MediaDelivery
  WITH stage <- [e \in Events |-> Stage(e)],
       handed <- {e \in Events : sends[e] > 0}

ImplementsDelivery == Abstract!Spec
=============================================================================
