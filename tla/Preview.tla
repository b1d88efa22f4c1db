------------------------------ MODULE Preview ------------------------------
(***************************************************************************)
(* The preview relay (kinugasa-media/src/moq.rs): the publication of each  *)
(* camera, a task that reads the camera's packets from a bounded broadcast *)
(* channel and groups them into the frames of a track; the listener, whose *)
(* tasks serve subscribers for as long as their token grants; and the      *)
(* shutdown, which waits for all of these tasks.                           *)
(*                                                                         *)
(* moq-net and moq-tokio are external: their calls succeed or fail. Packets*)
(* are numbered as the worker of their camera sends them.                  *)
(***************************************************************************)
EXTENDS Naturals, Sequences

CONSTANTS
  Sessions,
  Cameras, NoCamera,
  SessionOf,        \* the session of each camera
  Tokens, NoToken,
  Subscribers,
  Lifetime,         \* of a token
  Capacity,         \* preview_queue_capacity
  MaxFrames,        \* of a group: 256
  MaxBytes,         \* of a group: 1024 * 1024
  Size(_),          \* the bytes of each packet
  MaxTime,          \* bound: the clock
  MaxPackets        \* bound: the packets of each camera

ASSUME CamerasAssumption ==
  /\ Sessions # {}
  /\ NoCamera \notin Cameras /\ SessionOf \in [Cameras -> Sessions]
ASSUME TokensAssumption == NoToken \notin Tokens
ASSUME LimitsAssumption ==
  /\ Lifetime \in Nat \ {0} /\ Capacity \in Nat \ {0} /\ MaxFrames \in Nat \ {0}
  /\ MaxBytes \in Nat /\ MaxTime \in Nat /\ MaxPackets \in [Cameras -> Nat]
ASSUME SizeAssumption ==
  \A c \in Cameras : \A p \in 1 .. MaxPackets[c] : Size(p) \in Nat

VARIABLES
  now,        \* the clock
  issued,     \* the tokens issued so far
  grants,     \* of the PreviewAuthorizer
  previews,   \* the sessions of the MoqState
  published,  \* the cameras of its sessions
  sender,     \* the cameras whose worker keeps its end of the broadcast channel
  sent,       \* the packets sent to the channel of a camera
  stream,     \* what the task of a camera has read and published
  task,       \* the task of its publication
  stopped,    \* the cameras whose publication was sent a stop
  subscriber, \* the requests of subscribers and their tasks
  relay,      \* the relay: serving, or on its way down
  draining,   \* publications that the shutdown has still to stop
  awaited     \* the publication whose task it waits for

accessVars      == <<issued, grants>>
publicationVars == <<published, sender, sent, stream, task, stopped>>
shutdownVars    == <<relay, draining, awaited>>
vars == <<now, accessVars, previews, publicationVars, subscriber, shutdownVars>>

\* A frame of a track: its packet, whether it is the first of a group, and the
\* bytes of the track up to its end.
Frame == [packet : Nat \ {0}, opens : BOOLEAN, end : Nat]

\* first, next: the packet the subscription begins with, and reads next.
\* group: the last group of the track is open, with these counters.
Stream == [first : Nat \ {0}, next : Nat \ {0}, skipped : Nat,
           track : Seq(Frame), group : BOOLEAN, frames : Nat, bytes : Nat]

NewStream(c) ==
  [first |-> sent[c] + 1, next |-> sent[c] + 1, skipped |-> 0,
   track |-> <<>>, group |-> FALSE, frames |-> 0, bytes |-> 0]

Grant == [session : Sessions, expires : 0 .. MaxTime]

Subscriber ==
  [phase : {"none", "requested", "authorized", "accepting", "open", "ended"},
   session : Sessions, token : Tokens \cup {NoToken}, expires : 0 .. MaxTime]

Nobody ==
  [phase |-> "none", session |-> CHOOSE s \in Sessions : TRUE, token |-> NoToken, expires |-> 0]

TypeOK ==
  /\ now \in 0 .. MaxTime
  /\ issued \subseteq Tokens
  /\ DOMAIN grants \subseteq issued /\ \A k \in DOMAIN grants : grants[k] \in Grant
  /\ previews \subseteq Sessions
  /\ published \subseteq {c \in Cameras : SessionOf[c] \in previews}
  /\ sender \subseteq Cameras /\ stopped \subseteq Cameras
  /\ sent \in [Cameras -> Nat]
  /\ \A c \in Cameras : sent[c] \in 0 .. MaxPackets[c] /\ stream[c].next <= sent[c] + 1
  /\ stream \in [Cameras -> Stream]
  /\ task \in [Cameras -> {"none", "running", "ended", "failed"}]
  /\ subscriber \in [Subscribers -> Subscriber]
  /\ relay \in {"serving", "stopping", "stopped"}
  /\ draining \subseteq Cameras
  /\ awaited \in Cameras \cup {NoCamera}

Init ==
  /\ now = 0
  /\ issued = {} /\ grants = <<>>
  /\ previews = {} /\ published = {} /\ sender = {}
  /\ sent = [c \in Cameras |-> 0]
  /\ stream = [c \in Cameras |-> NewStream(c)]
  /\ task = [c \in Cameras |-> "none"] /\ stopped = {}
  /\ subscriber = [u \in Subscribers |-> Nobody]
  /\ relay = "serving" /\ draining = {} /\ awaited = NoCamera

\* Bound: the clock stands until a token is issued.
Tick ==
  /\ now < MaxTime /\ issued # {}
  /\ now' = now + 1
  /\ UNCHANGED <<accessVars, previews, publicationVars, subscriber, shutdownVars>>

-----------------------------------------------------------------------------
(* Publications: provision_camera, revoke_camera and their callers.        *)

IsPublished(c) == c \in published /\ task[c] = "running"

\* A publication that runs is kept; one whose task has ended is replaced. The
\* passes do this until the endpoint of the camera is saved, and not once more.
ProvisionCamera(c) ==
  /\ relay = "serving" /\ c \notin stopped
  /\ previews' = previews \cup {SessionOf[c]}
  /\ sender' = sender \cup {c}
  /\ published' = published \cup {c}
  /\ IF IsPublished(c) THEN UNCHANGED <<stream, task>>
     ELSE /\ stream' = [stream EXCEPT ![c] = NewStream(c)]
          /\ task' = [task EXCEPT ![c] = "running"]
  /\ UNCHANGED <<now, accessVars, sent, stopped, subscriber, shutdownVars>>

\* The broadcast is not created, or not announced: a camera that is new is not
\* registered, and one that is known has lost its ended publication.
ProvisionFails(c) ==
  /\ relay = "serving" /\ c \notin stopped /\ ~ IsPublished(c)
  /\ previews' = previews \cup {SessionOf[c]}
  /\ published' = published \ {c}
  /\ UNCHANGED <<now, accessVars, sender, sent, stream, task, stopped,
                 subscriber, shutdownVars>>

\* The entry is dropped, which stops its task.
RevokeCamera(c) ==
  /\ relay = "serving" /\ c \in sender \ stopped
  /\ published' = published \ {c}
  /\ stopped' = stopped \cup {c}
  /\ UNCHANGED <<now, accessVars, previews, sender, sent, stream, task,
                 subscriber, shutdownVars>>

\* The worker, which ends after its camera is revoked.
SendPacket(c) ==
  /\ c \in sender /\ sent[c] < MaxPackets[c]
  /\ sent' = [sent EXCEPT ![c] = @ + 1]
  /\ UNCHANGED <<now, accessVars, previews, published, sender, stream, task,
                 stopped, subscriber, shutdownVars>>

WorkerEnds(c) ==
  /\ relay = "serving" /\ c \in sender \cap stopped
  /\ sender' = sender \ {c}
  /\ UNCHANGED <<now, accessVars, previews, published, sent, stream, task,
                 stopped, subscriber, shutdownVars>>

-----------------------------------------------------------------------------
(* publish_camera.                                                         *)

Closed(c) == c \notin sender /\ stream[c].next > sent[c]

Lagged(c) == sent[c] + 1 - stream[c].next > Capacity

\* The open group is finished, and the counters are reset.
Rotated(s) == [s EXCEPT !.group = FALSE, !.frames = 0, !.bytes = 0]

IsFull(s, p) ==
  s.group /\ (s.bytes + Size(p) > MaxBytes \/ s.frames >= MaxFrames)

\* The bytes of a track.
Bytes(track) == IF track = <<>> THEN 0 ELSE track[Len(track)].end

\* A packet is a frame of the open group, or of a new one.
WithFrame(s, p) ==
  [s EXCEPT !.group = TRUE, !.frames = @ + 1, !.bytes = @ + Size(p),
            !.track = Append(@, [packet |-> p, opens |-> ~ s.group,
                                 end |-> Bytes(@) + Size(p)])]

\* Mutant of WriteFrame: the packet that does not fit is lost with the rotation.
WriteIfItFits(s, p) == IF IsFull(s, p) THEN Rotated(s) ELSE WithFrame(s, p)

WriteFrame(s, p) == WithFrame(IF IsFull(s, p) THEN Rotated(s) ELSE s, p)

\* A step of the task that leaves it running.
StreamBecomes(c, s) ==
  /\ task[c] = "running"
  /\ stream' = [stream EXCEPT ![c] = s]
  /\ UNCHANGED <<now, accessVars, previews, published, sender, sent, task,
                 stopped, subscriber, shutdownVars>>

TaskEnds(c, how) ==
  /\ task[c] = "running"
  /\ task' = [task EXCEPT ![c] = how]
  /\ stream' = [stream EXCEPT ![c] = Rotated(@)]
  /\ UNCHANGED <<now, accessVars, previews, published, sender, sent,
                 stopped, subscriber, shutdownVars>>

Rotate(c) == stream[c].group /\ StreamBecomes(c, Rotated(stream[c]))

\* Mutant of Lag: a receiver that lags behind is taken for closed.
LagIsClosed(c) == Lagged(c) /\ TaskEnds(c, "ended")

\* The oldest packet that the channel still has is read next.
Lag(c) ==
  /\ Lagged(c)
  /\ LET oldest == sent[c] + 1 - Capacity IN
     StreamBecomes(c, [stream[c] EXCEPT !.skipped = @ + oldest - stream[c].next,
                                        !.next = oldest])

Publish(c) ==
  /\ stream[c].next <= sent[c] /\ ~ Lagged(c)
  /\ StreamBecomes(c, [WriteFrame(stream[c], stream[c].next) EXCEPT !.next = @ + 1])

\* The stop is seen, or the end of the worker.
PublicationEnds(c) == (c \in stopped \/ Closed(c)) /\ TaskEnds(c, "ended")

\* moq-net refuses a group or a frame.
PublicationFails(c) == TaskEnds(c, "failed")

-----------------------------------------------------------------------------
(* Access: create_preview_access, and the tasks of the listener.           *)

Valid == {k \in DOMAIN grants : grants[k].expires > now}

CreatePreviewAccess(s, k) ==
  /\ relay = "serving" /\ k \notin issued /\ now + Lifetime <= MaxTime
  /\ previews' = previews \cup {s}
  /\ issued' = issued \cup {k}
  /\ grants' = [j \in Valid \cup {k} |->
                  IF j = k THEN [session |-> s, expires |-> now + Lifetime] ELSE grants[j]]
  /\ UNCHANGED <<now, publicationVars, subscriber, shutdownVars>>

SubscriberBecomes(u, s) ==
  /\ subscriber' = [subscriber EXCEPT ![u] = s]
  /\ UNCHANGED <<now, issued, previews, publicationVars, shutdownVars>>

\* The listener may take a request before it sees that it is to close.
Request(u, s, k) ==
  /\ relay # "stopped" /\ subscriber[u].phase = "none"
  /\ SubscriberBecomes(u, [phase |-> "requested", session |-> s, token |-> k, expires |-> 0])
  /\ UNCHANGED grants

\* Mutant of Authorize: a token is good for the preview of every session.
AuthorizeAnySession(u) ==
  LET me == subscriber[u] IN
  /\ me.phase = "requested"
  /\ grants' = [k \in Valid |-> grants[k]]
  /\ SubscriberBecomes(u,
       IF me.token \in Valid
       THEN [me EXCEPT !.phase = "authorized", !.expires = grants[me.token].expires]
       ELSE [me EXCEPT !.phase = "ended"])

\* authorize: the grants that have expired are forgotten first.
Authorize(u) ==
  LET me == subscriber[u]
      granted == me.token \in Valid /\ grants[me.token].session = me.session
  IN /\ me.phase = "requested"
     /\ grants' = [k \in Valid |-> grants[k]]
     /\ SubscriberBecomes(u,
          IF granted THEN [me EXCEPT !.phase = "authorized", !.expires = grants[me.token].expires]
          ELSE [me EXCEPT !.phase = "ended"])

Consume(u) ==
  LET me == subscriber[u] IN
  /\ me.phase = "authorized"
  /\ SubscriberBecomes(u,
       [me EXCEPT !.phase = IF me.session \in previews THEN "accepting" ELSE "ended"])
  /\ UNCHANGED grants

Accept(u) ==
  /\ subscriber[u].phase = "accepting"
  /\ \E phase \in {"open", "ended"} :
       SubscriberBecomes(u, [subscriber[u] EXCEPT !.phase = phase])
  /\ UNCHANGED grants

\* Mutant of Expire: the listener keeps the timers, and drops them as it closes.
ExpireWhileListening(u) ==
  /\ relay = "serving" /\ subscriber[u].phase = "open" /\ now >= subscriber[u].expires
  /\ SubscriberBecomes(u, [subscriber[u] EXCEPT !.phase = "ended"])
  /\ UNCHANGED grants

\* The timer of an accepted subscriber fires, at once if it is late.
Expire(u) ==
  /\ subscriber[u].phase = "open" /\ now >= subscriber[u].expires
  /\ SubscriberBecomes(u, [subscriber[u] EXCEPT !.phase = "ended"])
  /\ UNCHANGED grants

\* The subscriber goes away, or is closed with the listener.
Leave(u) ==
  /\ subscriber[u].phase = "open"
  /\ SubscriberBecomes(u, [subscriber[u] EXCEPT !.phase = "ended"])
  /\ UNCHANGED grants

SubscriberStep(u) == Authorize(u) \/ Consume(u) \/ Accept(u) \/ Expire(u)

-----------------------------------------------------------------------------
(* MoqServer::shutdown.                                                    *)

\* Mutant of Shutdown: the sessions are forgotten, their cameras are not.
ShutdownKeepingCameras ==
  /\ relay = "serving"
  /\ relay' = "stopping"
  /\ draining' = published /\ previews' = {}
  /\ UNCHANGED <<now, accessVars, publicationVars, subscriber, awaited>>

\* The publications are taken out of the state, but not dropped: each is
\* stopped when its turn comes.
Shutdown ==
  /\ relay = "serving"
  /\ relay' = "stopping"
  /\ draining' = published /\ published' = {} /\ previews' = {}
  /\ UNCHANGED <<now, accessVars, sender, sent, stream, task, stopped,
                 subscriber, awaited>>

\* Mutant of StopPublication: the task is awaited, and told nothing.
AwaitPublication(c) ==
  /\ c \in draining /\ awaited = NoCamera
  /\ draining' = draining \ {c} /\ awaited' = c
  /\ UNCHANGED <<now, accessVars, previews, publicationVars, subscriber, relay>>

StopPublication(c) ==
  /\ c \in draining /\ awaited = NoCamera
  /\ draining' = draining \ {c} /\ awaited' = c
  /\ stopped' = stopped \cup {c}
  /\ UNCHANGED <<now, accessVars, previews, published, sender, sent, stream,
                 task, subscriber, relay>>

PublicationJoined ==
  /\ awaited # NoCamera /\ task[awaited] # "running"
  /\ awaited' = NoCamera
  /\ UNCHANGED <<now, accessVars, previews, publicationVars, subscriber, relay, draining>>

\* run_listener has joined the tasks of its subscribers.
ListenerJoined ==
  /\ relay = "stopping" /\ draining = {} /\ awaited = NoCamera
  /\ \A u \in Subscribers : subscriber[u].phase \in {"none", "ended"}
  /\ relay' = "stopped"
  /\ UNCHANGED <<now, accessVars, previews, publicationVars, subscriber, draining, awaited>>

-----------------------------------------------------------------------------

Step ==
  \/ Tick
  \/ \E c \in Cameras :
       \/ ProvisionCamera(c) \/ ProvisionFails(c) \/ RevokeCamera(c)
       \/ SendPacket(c) \/ WorkerEnds(c)
       \/ Rotate(c) \/ Lag(c) \/ Publish(c) \/ PublicationEnds(c) \/ PublicationFails(c)
       \/ StopPublication(c)
  \/ \E s \in Sessions, k \in Tokens : CreatePreviewAccess(s, k)
  \/ \E u \in Subscribers :
       \/ \E s \in Sessions, k \in Tokens \cup {NoToken} : Request(u, s, k)
       \/ SubscriberStep(u) \/ Leave(u)
  \/ Shutdown \/ PublicationJoined \/ ListenerJoined

\* The relay is down.
Terminated == relay = "stopped" /\ UNCHANGED vars

Next == Step \/ Terminated

\* Fairness: time goes on, the runtime polls a task that can make progress, and
\* select! picks at random among its branches that are ready: a publication
\* that is told to stop sees it at last, however many packets there are.
Fairness ==
  /\ WF_vars(Tick)
  /\ \A c \in Cameras : WF_vars(PublicationEnds(c)) /\ WF_vars(StopPublication(c))
  /\ \A u \in Subscribers : WF_vars(SubscriberStep(u))
  /\ WF_vars(PublicationJoined) /\ WF_vars(ListenerJoined)

Spec == Init /\ [][Next]_vars /\ Fairness

-----------------------------------------------------------------------------
(* Properties.                                                             *)

\* A camera that is served has a publication that runs, unless moq-net failed
\* it: no lag, rotation, repeated provisioning or subscriber ends one.
ServedIsPublished ==
  relay = "serving" =>
    \A c \in sender \ stopped : IsPublished(c) \/ task[c] = "failed"

\* The shutdown stops every publication: none is left that runs on, whether it was
\* revoked, replaced or failed before.
NothingOutlivesRelay ==
  relay = "stopped" => \A c \in Cameras : task[c] = "running" => c \in stopped

\* A publication lives as long as its camera is served, and not beyond the relay.
PublicationLives == ServedIsPublished /\ NothingOutlivesRelay

\* The frames a .. b of a track are of one group.
InOneGroup(track, a, b) == \A i \in a + 1 .. b : ~ track[i].opens

\* The track carries the packets in order, each once and none that the task has
\* not read, and lacks none but those it was told to have lagged behind.
TrackIsWhole(s) ==
  /\ \A i, j \in DOMAIN s.track : i < j => s.track[i].packet < s.track[j].packet
  /\ \A i \in DOMAIN s.track : s.track[i].packet \in s.first .. s.next - 1
  /\ Len(s.track) + s.skipped = s.next - s.first

\* No group grows beyond its limits, but for a single packet that does.
GroupsAreBounded(track) ==
  \A a \in DOMAIN track : \A b \in a .. Len(track) :
    InOneGroup(track, a, b) =>
      /\ b - a < MaxFrames
      /\ a = b \/ track[b].end - track[a].end + Size(track[a].packet) <= MaxBytes

StreamIsWhole ==
  \A c \in Cameras : TrackIsWhole(stream[c]) /\ GroupsAreBounded(stream[c].track)

\* A subscriber is let in, and served, by a grant for its session that ends no later
\* than its own time, or did: passes of the clock, other tokens and the forgetting of
\* grants between its request and its acceptance change nothing of it.
AccessIsGranted ==
  \A u \in Subscribers :
    LET me == subscriber[u] IN
    me.phase \in {"authorized", "accepting", "open"} =>
      /\ me.token \in issued
      /\ IF me.token \in DOMAIN grants
         THEN grants[me.token] = [session |-> me.session, expires |-> me.expires]
         ELSE me.expires <= now

\* A subscriber is served no longer than its token grants, though it never goes
\* away itself, and though it is accepted late.
AccessEnds ==
  \A u \in Subscribers : subscriber[u].phase = "open" ~> subscriber[u].phase = "ended"

\* The shutdown comes to its end: every task it waits for ends by itself or was
\* told to, though no worker, camera or subscriber has gone away.
ShutdownReturns == relay = "stopping" ~> relay = "stopped"
=============================================================================
