--------------------------- MODULE PreviewProofs ---------------------------
(***************************************************************************)
(* Theorems about module Preview, for any sessions, cameras, tokens and    *)
(* subscribers, any capacity of the channel and any limits of a group.     *)
(***************************************************************************)
EXTENDS Preview, TLAPS

-----------------------------------------------------------------------------
(* Types.                                                                  *)

LEMMA NewStreamType ==
  ASSUME NEW c \in Cameras, sent[c] \in Nat
  PROVE  NewStream(c) \in Stream
BY DEF NewStream, Stream

LEMMA BytesType ==
  ASSUME NEW track \in Seq(Frame)
  PROVE  Bytes(track) \in Nat
<1>1. CASE track = <<>>
  BY <1>1 DEF Bytes
<1>2. CASE track # <<>>
  <2>1. Len(track) \in DOMAIN track
    BY <1>2
  <2>2. track[Len(track)] \in Frame
    BY <2>1
  <2> QED
    BY <1>2, <2>2 DEF Bytes, Frame
<1> QED
  BY <1>1, <1>2

LEMMA RotatedType ==
  ASSUME NEW s \in Stream
  PROVE  Rotated(s) \in Stream
BY DEF Rotated, Stream

LEMMA StreamUpdated ==
  ASSUME NEW s \in Stream, NEW n \in Nat, NEW b \in Nat, NEW t \in Seq(Frame)
  PROVE  [s EXCEPT !.group = TRUE, !.frames = n, !.bytes = b, !.track = t] \in Stream
BY DEF Stream

LEMMA StreamAdvanced ==
  ASSUME NEW s \in Stream, NEW n \in Nat \ {0}
  PROVE  LET v == [s EXCEPT !.next = n]
         IN /\ v \in Stream /\ v.next = n /\ v.first = s.first /\ v.skipped = s.skipped
            /\ v.group = s.group /\ v.frames = s.frames /\ v.bytes = s.bytes
            /\ v.track = s.track
BY DEF Stream

\* What a packet leaves of the stream, field by field.
LEMMA WithFrameFields ==
  ASSUME NEW s \in Stream, NEW p \in Nat \ {0}, Size(p) \in Nat
  PROVE  /\ WithFrame(s, p) \in Stream
         /\ WithFrame(s, p).first = s.first /\ WithFrame(s, p).next = s.next
         /\ WithFrame(s, p).skipped = s.skipped
         /\ WithFrame(s, p).group = TRUE
         /\ WithFrame(s, p).frames = s.frames + 1
         /\ WithFrame(s, p).bytes = s.bytes + Size(p)
         /\ WithFrame(s, p).track = Append(s.track,
              [packet |-> p, opens |-> ~ s.group, end |-> Bytes(s.track) + Size(p)])
<1> DEFINE f == [packet |-> p, opens |-> ~ s.group, end |-> Bytes(s.track) + Size(p)]
           t == Append(s.track, f)
           n == s.frames + 1
           b == s.bytes + Size(p)
           r == [s EXCEPT !.group = TRUE, !.frames = n, !.bytes = b, !.track = t]
<1>1. s.track \in Seq(Frame) /\ s.group \in BOOLEAN /\ s.frames \in Nat /\ s.bytes \in Nat
  BY DEF Stream
<1>2. f \in Frame
  BY <1>1, BytesType DEF Frame
<1>3. t \in Seq(Frame) /\ n \in Nat /\ b \in Nat
  BY <1>1, <1>2
<1>4. WithFrame(s, p) = r
  BY DEF WithFrame, Stream
<1> HIDE DEF f, t, n, b
<1>5. r \in Stream
  BY <1>3, StreamUpdated
<1>6. r.first = s.first /\ r.next = s.next /\ r.skipped = s.skipped
  BY DEF Stream
<1>7. r.group = TRUE /\ r.frames = n /\ r.bytes = b /\ r.track = t
  BY DEF Stream
<1> HIDE DEF r
<1> QED
  BY <1>4, <1>5, <1>6, <1>7 DEF f, t, n, b

LEMMA TypeInit == Init => TypeOK
<1> SUFFICES ASSUME Init
             PROVE  TypeOK
  OBVIOUS
<1> USE CamerasAssumption, LimitsAssumption
<1>1. \A c \in Cameras : NewStream(c) \in Stream /\ NewStream(c).next = 1
  BY NewStreamType DEF Init, NewStream
<1>2. stream \in [Cameras -> Stream] /\ \A c \in Cameras : stream[c].next <= sent[c] + 1
  BY <1>1 DEF Init
<1>3. subscriber \in [Subscribers -> Subscriber]
  <2>1. (CHOOSE x \in Sessions : TRUE) \in Sessions
    OBVIOUS
  <2>2. Nobody \in Subscriber
    BY <2>1 DEF Nobody, Subscriber
  <2> QED
    BY <2>2 DEF Init
<1> QED
  BY <1>2, <1>3 DEF Init, TypeOK

-----------------------------------------------------------------------------
(* The steps that change the stream of a camera.                           *)

\* What a step makes of the stream of its camera.
Streamed(c, s) ==
  /\ task[c] = "running" /\ task' \in [Cameras -> {"none", "running", "ended", "failed"}]
  /\ s \in Stream /\ s.next <= sent[c] + 1
  /\ stream' = [stream EXCEPT ![c] = s]
  /\ UNCHANGED <<now, accessVars, previews, published, sender, sent,
                 stopped, subscriber, shutdownVars>>

StreamStep(c) ==
  Rotate(c) \/ Lag(c) \/ Publish(c) \/ PublicationEnds(c) \/ PublicationFails(c)

LEMMA PublishedPacket ==
  ASSUME TypeOK, NEW c \in Cameras, stream[c].next <= sent[c]
  PROVE  stream[c].next \in Nat \ {0} /\ Size(stream[c].next) \in Nat
<1>1. stream[c].next \in Nat \ {0} /\ sent[c] \in 0 .. MaxPackets[c] /\ MaxPackets[c] \in Nat
  BY LimitsAssumption DEF TypeOK, Stream
<1> QED
  BY <1>1, SizeAssumption

\* What the packet p makes of stream s, field by field: u is left of s by the rotation.
Written(s, p, u, v) ==
  /\ p \in Nat \ {0} /\ Size(p) \in Nat
  /\ u \in Stream
  /\ IF IsFull(s, p) THEN ~ u.group /\ u.frames = 0 /\ u.bytes = 0
     ELSE u.group = s.group /\ u.frames = s.frames /\ u.bytes = s.bytes
  /\ v \in Stream /\ v.first = s.first /\ v.next = p + 1 /\ v.skipped = s.skipped
  /\ v.group = TRUE /\ v.frames = u.frames + 1 /\ v.bytes = u.bytes + Size(p)
  /\ v.track = Append(s.track,
       [packet |-> p, opens |-> ~ u.group, end |-> Bytes(s.track) + Size(p)])

LEMMA WriteFrameFields ==
  ASSUME NEW s \in Stream, NEW p \in Nat \ {0}, Size(p) \in Nat,
         NEW u, u = IF IsFull(s, p) THEN Rotated(s) ELSE s,
         NEW v, v = [WriteFrame(s, p) EXCEPT !.next = p + 1]
  PROVE  Written(s, p, u, v) /\ WriteFrame(s, p).next = s.next
<1> DEFINE w == WriteFrame(s, p)
           z == [w EXCEPT !.next = p + 1]
<1>1. /\ u \in Stream /\ u.track = s.track
      /\ u.first = s.first /\ u.skipped = s.skipped /\ u.next = s.next
      /\ IF IsFull(s, p) THEN ~ u.group /\ u.frames = 0 /\ u.bytes = 0
         ELSE u.group = s.group /\ u.frames = s.frames /\ u.bytes = s.bytes
  <2>1. CASE IsFull(s, p)
    BY <2>1 DEF Rotated, Stream
  <2>2. CASE ~ IsFull(s, p)
    BY <2>2
  <2> QED
    BY <2>1, <2>2
<1>2. w = WithFrame(u, p)
  BY Zenon DEF WriteFrame
<1>3. v = z
  OBVIOUS
<1> HIDE DEF w
<1>4. /\ w \in Stream /\ w.first = s.first /\ w.skipped = s.skipped /\ w.next = s.next
      /\ w.group = TRUE /\ w.frames = u.frames + 1 /\ w.bytes = u.bytes + Size(p)
      /\ w.track = Append(s.track,
           [packet |-> p, opens |-> ~ u.group, end |-> Bytes(s.track) + Size(p)])
  <2>1. /\ w \in Stream /\ w.first = u.first /\ w.skipped = u.skipped /\ w.next = u.next
        /\ w.group = TRUE /\ w.frames = u.frames + 1 /\ w.bytes = u.bytes + Size(p)
        /\ w.track = Append(u.track,
             [packet |-> p, opens |-> ~ u.group, end |-> Bytes(u.track) + Size(p)])
    BY ZenonT(60), <1>1, <1>2, WithFrameFields
  <2> QED
    BY <1>1, <2>1, Zenon
<1> w \in Stream
  BY <1>4
<1>5. /\ z \in Stream /\ z.first = w.first /\ z.next = p + 1 /\ z.skipped = w.skipped
      /\ z.group = w.group /\ z.frames = w.frames /\ z.bytes = w.bytes /\ z.track = w.track
  <2> HIDE DEF z
  <2>1. p + 1 \in Nat \ {0}
    OBVIOUS
  <2> QED
    BY <2>1, StreamAdvanced DEF z
<1> HIDE DEF z
<1>6. w.next = s.next => WriteFrame(s, p).next = s.next
  BY DEF w
<1> QED
  BY <1>1, <1>3, <1>4, <1>5, <1>6, Zenon DEF Written

LEMMA StreamSteps ==
  ASSUME TypeOK, NEW c \in Cameras, StreamStep(c)
  PROVE  \E s : Streamed(c, s)
<1>0. /\ stream[c] \in Stream /\ stream[c].next <= sent[c] + 1 /\ sent[c] \in Nat
      /\ task \in [Cameras -> {"none", "running", "ended", "failed"}]
      /\ stream[c].next \in Nat \ {0} /\ stream[c].skipped \in Nat
  BY DEF TypeOK, Stream
<1>1. Rotated(stream[c]) \in Stream /\ Rotated(stream[c]).next = stream[c].next
  BY <1>0 DEF Rotated, Stream
<1>2. CASE Rotate(c)
  BY <1>0, <1>1, <1>2 DEF Rotate, StreamBecomes, Streamed
<1>3. CASE Lag(c)
  <2> DEFINE oldest == sent[c] + 1 - Capacity
             s == [stream[c] EXCEPT !.skipped = @ + oldest - stream[c].next, !.next = oldest]
  <2>1. Capacity \in Nat \ {0} /\ oldest \in Nat \ {0} /\ oldest > stream[c].next
    BY <1>0, <1>3, LimitsAssumption DEF Lag, Lagged
  <2>2. stream[c].skipped + oldest - stream[c].next \in Nat
    BY <1>0, <2>1
  <2>3. s \in Stream /\ s.next = oldest
    BY <1>0, <2>1, <2>2 DEF Stream
  <2>4. oldest <= sent[c] + 1
    BY <1>0, <2>1
  <2> QED
    BY <1>0, <1>3, <2>3, <2>4 DEF Lag, StreamBecomes, Streamed
<1>4. CASE Publish(c)
  <2> DEFINE p == stream[c].next
             s == [WriteFrame(stream[c], p) EXCEPT !.next = p + 1]
  <2>1. p \in Nat \ {0} /\ Size(p) \in Nat /\ p <= sent[c]
    BY <1>4, PublishedPacket DEF Publish
  <2>2. PICK u : u = IF IsFull(stream[c], p) THEN Rotated(stream[c]) ELSE stream[c]
    OBVIOUS
  <2>3. PICK v : v = s
    OBVIOUS
  <2>4. Written(stream[c], p, u, v) /\ WriteFrame(stream[c], p).next = p
    BY <1>0, <2>1, <2>2, <2>3, WriteFrameFields, Zenon
  <2>5. Streamed(c, s)
    BY <1>0, <1>4, <2>1, <2>3, <2>4 DEF Publish, StreamBecomes, Streamed, Written
  <2> QED
    BY <2>5
<1>5. CASE PublicationEnds(c) \/ PublicationFails(c)
  BY <1>0, <1>1, <1>5 DEF PublicationEnds, PublicationFails, TaskEnds, Streamed
<1> QED
  BY <1>2, <1>3, <1>4, <1>5 DEF StreamStep

-----------------------------------------------------------------------------
(* The type invariant.                                                     *)

LEMMA TypeStep == TypeOK /\ [Next]_vars => TypeOK'
<1> SUFFICES ASSUME TypeOK, [Next]_vars
             PROVE  TypeOK'
  OBVIOUS
<1> USE CamerasAssumption, LimitsAssumption DEF TypeOK, accessVars, publicationVars, shutdownVars
<1>1. CASE Tick
  BY <1>1 DEF Tick
<1>2. ASSUME NEW c \in Cameras, ProvisionCamera(c)
      PROVE  TypeOK'
  <2>1. NewStream(c) \in Stream /\ NewStream(c).next = sent[c] + 1
    BY NewStreamType DEF NewStream
  <2> QED
    BY SMTT(60), <1>2, <2>1 DEF ProvisionCamera
<1>3. ASSUME NEW c \in Cameras, ProvisionFails(c) \/ RevokeCamera(c) \/ WorkerEnds(c)
      PROVE  TypeOK'
  BY <1>3 DEF ProvisionFails, RevokeCamera, WorkerEnds
<1>4. ASSUME NEW c \in Cameras, SendPacket(c)
      PROVE  TypeOK'
  <2>1. \A d \in Cameras : stream[d].next \in Nat /\ MaxPackets[d] \in Nat
    BY DEF Stream
  <2> QED
    BY <1>4, <2>1 DEF SendPacket
<1>5. ASSUME NEW c \in Cameras, NEW s, Streamed(c, s)
      PROVE  TypeOK'
  BY <1>5 DEF Streamed
<1>6. ASSUME NEW c \in Cameras, StopPublication(c)
      PROVE  TypeOK'
  BY <1>6 DEF StopPublication
<1>7. ASSUME NEW s \in Sessions, NEW k \in Tokens, CreatePreviewAccess(s, k)
      PROVE  TypeOK'
  <2>1. /\ issued' = issued \cup {k} /\ DOMAIN grants' = Valid \cup {k}
        /\ \A j \in Valid \cup {k} :
             grants'[j] = IF j = k THEN [session |-> s, expires |-> now + Lifetime] ELSE grants[j]
        /\ previews' = previews \cup {s} /\ now + Lifetime <= MaxTime
        /\ UNCHANGED <<now, publicationVars, subscriber, shutdownVars>>
    BY <1>7 DEF CreatePreviewAccess
  <2>2. [session |-> s, expires |-> now + Lifetime] \in Grant
    BY <2>1 DEF Grant
  <2>3. DOMAIN grants' \subseteq issued' /\ \A j \in DOMAIN grants' : grants'[j] \in Grant
    BY <2>1, <2>2 DEF Valid
  <2> QED
    BY <2>1, <2>3
<1>8. ASSUME NEW u \in Subscribers, NEW s \in Sessions, NEW k \in Tokens \cup {NoToken}, Request(u, s, k)
      PROVE  TypeOK'
  BY <1>8 DEF Request, SubscriberBecomes, Subscriber
<1>9. ASSUME NEW u \in Subscribers, Authorize(u)
      PROVE  TypeOK'
  <2> DEFINE me == subscriber[u]
             granted == me.token \in Valid /\ grants[me.token].session = me.session
  <2>1. me \in Subscriber
    OBVIOUS
  <2>2. granted => grants[me.token].expires \in 0 .. MaxTime
    BY DEF Valid, Grant
  <2>3. PICK s \in Subscriber :
          /\ subscriber' = [subscriber EXCEPT ![u] = s]
          /\ UNCHANGED <<now, issued, previews, publicationVars, shutdownVars>>
    <3>1. CASE granted
      BY <1>9, <2>1, <2>2, <3>1 DEF Authorize, SubscriberBecomes, Subscriber
    <3>2. CASE ~ granted
      BY <1>9, <2>1, <3>2 DEF Authorize, SubscriberBecomes, Subscriber
    <3> QED
      BY <3>1, <3>2
  <2>4. DOMAIN grants' \subseteq issued' /\ \A j \in DOMAIN grants' : grants'[j] \in Grant
    BY <1>9, <2>3 DEF Authorize, Valid
  <2> QED
    BY <2>3, <2>4
<1>10. ASSUME NEW u \in Subscribers, Consume(u) \/ Accept(u) \/ Expire(u) \/ Leave(u)
       PROVE  TypeOK'
  BY <1>10 DEF Consume, Accept, Expire, Leave, SubscriberBecomes, Subscriber
<1>11. CASE Shutdown
  BY <1>11 DEF Shutdown
<1>12. CASE PublicationJoined \/ ListenerJoined
  BY <1>12 DEF PublicationJoined, ListenerJoined
<1>13. CASE Terminated \/ UNCHANGED vars
  BY <1>13 DEF Terminated, vars
<1> QED
  BY <1>1, <1>2, <1>3, <1>4, <1>5, <1>6, <1>7, <1>8, <1>9, <1>10, <1>11, <1>12, <1>13, StreamSteps
     DEF Next, Step, SubscriberStep, StreamStep

\* The variables of the preview relay keep their types; a published camera is one of a
\* session that is known, and no task reads ahead of its channel.
THEOREM PreviewTypes == Spec => []TypeOK
<1> QED
  BY TypeInit, TypeStep, PTL DEF Spec

-----------------------------------------------------------------------------
(* The tracks.                                                             *)

\* Every frame of a track ends where the one before it ends, or later by its bytes.
EndsAgree(track) ==
  /\ \A i \in DOMAIN track :
       track[i].packet \in Nat /\ Size(track[i].packet) \in Nat /\ track[i].end \in Nat
  /\ \A i, j \in DOMAIN track : i < j => track[i].end + Size(track[j].packet) <= track[j].end

\* The open group is made of the last frames, which the counters count.
GroupIsCounted(s) ==
  IF s.group
  THEN LET g == Len(s.track) - s.frames + 1
       IN /\ s.frames \in 1 .. Len(s.track) /\ s.frames <= MaxFrames
          /\ s.track[g].opens
          /\ s.bytes = s.track[Len(s.track)].end - s.track[g].end + Size(s.track[g].packet)
          /\ s.frames = 1 \/ s.bytes <= MaxBytes
  ELSE s.frames = 0 /\ s.bytes = 0

StreamInv(s) ==
  TrackIsWhole(s) /\ GroupsAreBounded(s.track) /\ EndsAgree(s.track) /\ GroupIsCounted(s)

LEMMA NewStreamInv ==
  ASSUME NEW c \in Cameras, sent[c] \in Nat
  PROVE  StreamInv(NewStream(c))
BY DEF NewStream, StreamInv, TrackIsWhole, GroupsAreBounded, EndsAgree, GroupIsCounted

LEMMA RotatedInv ==
  ASSUME NEW s \in Stream, StreamInv(s)
  PROVE  StreamInv(Rotated(s))
<1>1. /\ Rotated(s).track = s.track /\ Rotated(s).first = s.first /\ Rotated(s).next = s.next
      /\ Rotated(s).skipped = s.skipped
      /\ Rotated(s).group = FALSE /\ Rotated(s).frames = 0 /\ Rotated(s).bytes = 0
  BY DEF Rotated, Stream
<1> QED
  BY <1>1 DEF StreamInv, TrackIsWhole, GroupIsCounted

\* Track w is track t with one frame more.
Grown(t, w, n) ==
  /\ n \in Nat /\ DOMAIN t = 1 .. n /\ Len(t) = n
  /\ DOMAIN w = 1 .. n + 1 /\ Len(w) = n + 1
  /\ \A i \in 1 .. n : w[i] = t[i]

LEMMA FrameAppended ==
  ASSUME NEW t \in Seq(Frame), NEW f \in Frame
  PROVE  Grown(t, Append(t, f), Len(t)) /\ Append(t, f)[Len(t) + 1] = f
BY DEF Grown

InOrder(t, first, last) ==
  /\ \A i, j \in DOMAIN t : i < j => t[i].packet < t[j].packet
  /\ \A i \in DOMAIN t : t[i].packet \in first .. last

LEMMA OrderGrows ==
  ASSUME NEW n, NEW t, NEW w, Grown(t, w, n), NEW p \in Nat, NEW first \in Nat, first <= p,
         InOrder(t, first, p - 1), w[n + 1].packet = p
  PROVE  InOrder(w, first, p)
<1> USE DEF InOrder
<1>1. \A i \in DOMAIN w : i \in 1 .. n \/ i = n + 1
  BY DEF Grown
<1>2. \A i \in 1 .. n : w[i].packet \in first .. p - 1
  BY DEF Grown
<1>3. \A i \in DOMAIN w : w[i].packet \in first .. p
  BY <1>1, <1>2
<1>4. ASSUME NEW i \in DOMAIN w, NEW j \in DOMAIN w, i < j
      PROVE  w[i].packet < w[j].packet
  <2>1. i \in 1 .. n
    BY <1>1, <1>4 DEF Grown
  <2>2. CASE j \in 1 .. n
    BY <1>4, <2>1, <2>2 DEF Grown
  <2>3. CASE j = n + 1
    BY <1>2, <2>1, <2>3
  <2> QED
    BY <1>1, <2>2, <2>3
<1> QED
  BY <1>3, <1>4

LEMMA EndsGrow ==
  ASSUME NEW n, NEW t, NEW w, Grown(t, w, n), EndsAgree(t),
         w[n + 1].packet \in Nat, Size(w[n + 1].packet) \in Nat,
         w[n + 1].end = (IF n = 0 THEN 0 ELSE t[n].end) + Size(w[n + 1].packet)
  PROVE  EndsAgree(w)
<1>1. \A i \in DOMAIN w : i \in 1 .. n \/ i = n + 1
  BY DEF Grown
<1>2. \A i \in 1 .. n :
        w[i].packet \in Nat /\ Size(w[i].packet) \in Nat /\ w[i].end \in Nat
  BY DEF Grown, EndsAgree
<1>3. n \in Nat /\ (n # 0 => n \in 1 .. n /\ w[n] = t[n])
  BY DEF Grown
<1>4. w[n + 1].end \in Nat
  BY <1>2, <1>3
<1>5. \A i \in DOMAIN w :
        w[i].packet \in Nat /\ Size(w[i].packet) \in Nat /\ w[i].end \in Nat
  BY <1>1, <1>2, <1>4
<1>6. ASSUME NEW i \in 1 .. n
      PROVE  w[i].end + Size(w[n + 1].packet) <= w[n + 1].end
  <2>1. n # 0 /\ w[n + 1].end = w[n].end + Size(w[n + 1].packet) /\ i \in Nat
    BY <1>3
  <2>2. i < n => w[i].end <= w[n].end
    <3>1. i < n => t[i].end + Size(t[n].packet) <= t[n].end
      <4>1. i \in DOMAIN t /\ n \in DOMAIN t
        BY <1>3, <2>1 DEF Grown
      <4> QED
        BY <4>1 DEF EndsAgree
    <3>2. w[i] = t[i] /\ w[n] = t[n]
      BY <1>3, <2>1 DEF Grown
    <3> QED
      BY <1>2, <1>3, <3>1, <3>2
  <2>3. w[i].end <= w[n].end
    BY <1>2, <1>3, <2>1, <2>2
  <2> QED
    BY <1>2, <1>3, <2>1, <2>3
<1>7. ASSUME NEW i \in DOMAIN w, NEW j \in DOMAIN w, i < j
      PROVE  w[i].end + Size(w[j].packet) <= w[j].end
  <2>1. i \in 1 .. n
    BY <1>1, <1>3, <1>7
  <2>2. CASE j \in 1 .. n
    BY <1>7, <2>1, <2>2 DEF Grown, EndsAgree
  <2>3. CASE j = n + 1
    BY <1>6, <2>1, <2>3
  <2> QED
    BY <1>1, <2>2, <2>3
<1> QED
  BY <1>5, <1>7 DEF EndsAgree

\* A group of k frames that one more makes no fuller than the limits stays within them,
\* wherever in it one begins to count.
LEMMA GroupGrows ==
  ASSUME NEW n, NEW t, NEW w, Grown(t, w, n), EndsAgree(w), GroupsAreBounded(t),
         NEW k \in Nat, k <= n, k < MaxFrames, k = 0 => w[n + 1].opens,
         k > 0 => /\ w[n - k + 1].opens
                  /\ w[n + 1].end - w[n - k + 1].end + Size(w[n - k + 1].packet) <= MaxBytes
  PROVE  GroupsAreBounded(w)
<1> USE LimitsAssumption
<1>1. n \in Nat /\ DOMAIN w = 1 .. n + 1 /\ Len(w) = n + 1 /\ DOMAIN t = 1 .. n /\ Len(t) = n
  BY DEF Grown
<1> SUFFICES ASSUME NEW a \in 1 .. n + 1, NEW b \in a .. n + 1, InOneGroup(w, a, b)
             PROVE  /\ b - a < MaxFrames
                    /\ a = b \/ w[b].end - w[a].end + Size(w[a].packet) <= MaxBytes
  BY <1>1 DEF GroupsAreBounded
<1>2. CASE a = b
  BY <1>1, <1>2
<1>3. CASE a # b /\ b = n + 1
  <2> DEFINE g == n - k + 1
  <2>1. k > 0
    BY <1>1, <1>3 DEF InOneGroup
  <2>2. g \in 1 .. n /\ a \in 1 .. n
    BY <1>1, <1>3, <2>1
  <2>3. g <= a
    BY <1>1, <1>3, <2>1, <2>2 DEF InOneGroup
  <2>4. b - a < MaxFrames
    BY <1>1, <1>3, <2>2, <2>3
  <2> HIDE DEF g
  <2>5. /\ w[g].end \in Nat /\ w[a].end \in Nat /\ w[n + 1].end \in Nat
        /\ Size(w[g].packet) \in Nat /\ Size(w[a].packet) \in Nat
    <3>1. g \in DOMAIN w /\ a \in DOMAIN w /\ n + 1 \in DOMAIN w
      BY <1>1, <2>2
    <3> QED
      BY <3>1 DEF EndsAgree
  <2>6. g < a => w[g].end + Size(w[a].packet) <= w[a].end
    BY SMTT(60), <1>1, <2>2 DEF EndsAgree
  <2>7. Size(w[a].packet) - w[a].end <= Size(w[g].packet) - w[g].end
    BY <2>2, <2>3, <2>5, <2>6
  <2>8. w[n + 1].end - w[g].end + Size(w[g].packet) <= MaxBytes
    BY <2>1 DEF g
  <2>9. w[n + 1].end - w[a].end + Size(w[a].packet) <= MaxBytes
    BY <2>5, <2>7, <2>8
  <2> QED
    BY <1>3, <2>4, <2>9
<1>4. CASE b \in 1 .. n
  <2>1. a \in 1 .. n /\ b \in a .. n /\ w[a] = t[a] /\ w[b] = t[b]
    BY <1>1, <1>4 DEF Grown
  <2>2. InOneGroup(t, a, b)
    BY <1>1, <2>1 DEF InOneGroup, Grown
  <2> QED
    BY <1>1, <2>1, <2>2 DEF GroupsAreBounded
<1> QED
  BY <1>1, <1>2, <1>3, <1>4

LEMMA FrameAdded ==
  ASSUME NEW s \in Stream, StreamInv(s), NEW p, p = s.next, NEW u, NEW v, Written(s, p, u, v)
  PROVE  StreamInv(v)
<1> DEFINE t == s.track
           w == v.track
           n == Len(t)
           f == [packet |-> p, opens |-> ~ u.group, end |-> Bytes(t) + Size(p)]
<1>0. /\ p \in Nat \ {0} /\ Size(p) \in Nat /\ u \in Stream /\ v \in Stream
      /\ v.first = s.first /\ v.next = p + 1 /\ v.skipped = s.skipped
      /\ v.group = TRUE /\ v.frames = u.frames + 1 /\ v.bytes = u.bytes + Size(p)
  BY DEF Written
<1>1. /\ t \in Seq(Frame) /\ n \in Nat /\ u.group \in BOOLEAN /\ u.frames \in Nat /\ u.bytes \in Nat
      /\ s.first \in Nat /\ s.skipped \in Nat /\ s.frames \in Nat /\ s.bytes \in Nat
      /\ s.group \in BOOLEAN /\ MaxFrames \in Nat \ {0} /\ MaxBytes \in Nat
  BY <1>0, LimitsAssumption DEF Stream
<1>2. /\ f.packet = p /\ f.opens = ~ u.group /\ f.end = Bytes(t) + Size(p)
      /\ Bytes(t) \in Nat /\ f \in Frame
  BY SMTT(60), <1>0, <1>1, BytesType DEF Frame
<1>3. Bytes(t) = IF n = 0 THEN 0 ELSE t[n].end
  BY <1>1 DEF Bytes
<1>4. Grown(t, w, n) /\ w[n + 1] = f
  <2>1. w = Append(t, f)
    BY DEF Written
  <2> HIDE DEF f, t, w
  <2> QED
    BY <1>1, <1>2, <2>1, FrameAppended
<1> HIDE DEF f
<1>5. TrackIsWhole(s) /\ GroupsAreBounded(t) /\ EndsAgree(t) /\ GroupIsCounted(s)
  BY DEF StreamInv
<1>6. EndsAgree(w)
  BY ZenonT(60), <1>0, <1>2, <1>3, <1>4, <1>5, EndsGrow
<1>7. TrackIsWhole(v)
  <2>1. InOrder(t, s.first, p - 1) /\ n + s.skipped = p - s.first
    BY <1>5 DEF TrackIsWhole, InOrder
  <2> HIDE DEF t, w, n
  <2>2. s.first <= p
    BY SMTT(60), <1>0, <1>1, <2>1
  <2>3. w[n + 1].packet = p
    BY <1>0, <1>2, <1>4
  <2>4. InOrder(w, s.first, p)
    BY <1>0, <1>1, <1>4, <2>1, <2>2, <2>3, OrderGrows
  <2>5. Len(w) + s.skipped = (p + 1) - s.first
    <3>1. Len(w) = n + 1
      BY <1>4 DEF Grown
    <3>2. PICK a, b, c : a = n /\ b = s.skipped /\ c = s.first
      OBVIOUS
    <3>3. a \in Nat /\ b \in Nat /\ c \in Nat /\ p \in Nat /\ a + b = p - c
      BY <1>0, <1>1, <2>1, <3>2
    <3>4. a + 1 + b = (p + 1) - c
      BY <3>3
    <3>5. n + 1 + s.skipped = (p + 1) - s.first
      BY <3>2, <3>4
    <3> QED
      BY <3>1, <3>5
  <2>6. v.first = s.first /\ v.skipped = s.skipped /\ v.next = p + 1 /\ v.next - 1 = p
    BY <1>0
  <2>7. v.track = w
    BY DEF w
  <2>8. InOrder(v.track, v.first, v.next - 1)
    BY <2>4, <2>6, <2>7, Zenon
  <2>9. Len(v.track) + v.skipped = v.next - v.first
    <3>1. v.next - v.first = (p + 1) - s.first
      BY <2>6
    <3>2. Len(v.track) + v.skipped = Len(w) + s.skipped
      BY <2>6, <2>7, Zenon
    <3> QED
      BY <2>5, <3>1, <3>2, Zenon
  <2> QED
    BY <2>8, <2>9, Zenon DEF TrackIsWhole, InOrder
<1>8. CASE ~ u.group
  <2>1. u.frames = 0 /\ u.bytes = 0
    BY <1>0, <1>1, <1>5, <1>8 DEF GroupIsCounted, Written
  <2>2. w[n + 1].opens /\ Len(w) = n + 1 /\ w[n + 1].packet = p /\ w[n + 1].end \in Nat
    <3>1. Len(w) = n + 1 /\ n + 1 \in DOMAIN w
      BY <1>0, <1>1, <1>4 DEF Grown
    <3>2. w[n + 1].end \in Nat
      BY <1>6, <3>1 DEF EndsAgree
    <3>3. w[n + 1].opens /\ w[n + 1].packet = p
      BY <1>0, <1>2, <1>4, <1>8
    <3> QED
      BY <3>1, <3>2, <3>3
  <2>3. GroupsAreBounded(w)
    <3> HIDE DEF t, w, n
    <3> QED
      BY SMTT(60), <1>0, <1>1, <1>4, <1>5, <1>6, <2>2, GroupGrows
  <2>4. GroupIsCounted(v)
    <3> HIDE DEF t, n
    <3>1. v.frames = 1 /\ v.bytes = Size(p) /\ Len(v.track) - v.frames + 1 = n + 1
      BY <1>0, <1>1, <2>1, <2>2
    <3>2. v.frames \in 1 .. Len(v.track) /\ v.frames <= MaxFrames
      <4>1. 1 \in 1 .. n + 1 /\ 1 <= MaxFrames
        BY <1>1
      <4> QED
        BY <2>2, <3>1, <4>1
    <3>3. v.track[Len(v.track) - v.frames + 1].opens
      BY <2>2, <3>1
    <3>4. v.bytes = v.track[Len(v.track)].end - v.track[Len(v.track) - v.frames + 1].end
                    + Size(v.track[Len(v.track) - v.frames + 1].packet)
      <4>1. PICK e : e = w[n + 1].end
        OBVIOUS
      <4>2. e - e + Size(p) = Size(p)
        BY <1>0, <2>2, <4>1
      <4> QED
        BY <2>2, <3>1, <4>1, <4>2
    <3> QED
      BY <1>0, <3>2, <3>3, <3>4, <3>1 DEF GroupIsCounted
  <2> QED
    BY <1>6, <1>7, <2>3, <2>4 DEF StreamInv
<1>9. CASE u.group
  <2> DEFINE k == s.frames
             g == n - k + 1
  <2>1. /\ ~ IsFull(s, p) /\ s.group /\ u.frames = k /\ u.bytes = s.bytes
    BY <1>9 DEF Written
  <2>2. s.bytes + Size(p) <= MaxBytes /\ k < MaxFrames
    BY SMTT(60), <1>0, <1>1, <2>1 DEF IsFull
  <2>3. /\ k \in 1 .. n /\ t[g].opens
        /\ s.bytes = t[n].end - t[g].end + Size(t[g].packet)
    BY <1>5, <2>1 DEF GroupIsCounted
  <2> HIDE DEF t, w, n, k
  <2>4. g \in 1 .. n /\ n \in 1 .. n
    BY <1>0, <1>1, <2>3
  <2> HIDE DEF g
  <2>5. /\ w[g] = t[g] /\ t[g].end \in Nat /\ t[n].end \in Nat /\ Size(t[g].packet) \in Nat
        /\ Len(w) = n + 1
    BY <1>4, <1>5, <2>4 DEF Grown, EndsAgree
  <2>6. w[n + 1].end = t[n].end + Size(p)
    BY <1>0, <1>1, <1>2, <1>3, <1>4, <2>4
  <2>7. w[n + 1].end - w[g].end + Size(w[g].packet) = s.bytes + Size(p)
    <3>1. PICK a, b, c, d : /\ a = t[n].end /\ b = t[g].end /\ c = Size(t[g].packet)
                            /\ d = Size(p)
      OBVIOUS
    <3>2. a \in Nat /\ b \in Nat /\ c \in Nat /\ d \in Nat /\ s.bytes = a - b + c
      BY <1>0, <2>3, <2>5, <3>1
    <3>3. a + d - b + c = a - b + c + d
      BY <3>2
    <3> QED
      BY <2>5, <2>6, <3>1, <3>2, <3>3
  <2>8. GroupsAreBounded(w)
    <3>1. k \in Nat /\ k <= n /\ k > 0
      BY <1>0, <1>1, <2>3
    <3>2. w[n - k + 1].opens
          /\ w[n + 1].end - w[n - k + 1].end + Size(w[n - k + 1].packet) <= MaxBytes
      BY <2>2, <2>3, <2>5, <2>7 DEF g
    <3> QED
      BY <1>4, <1>5, <1>6, <2>2, <3>1, <3>2, GroupGrows
  <2>9. GroupIsCounted(v)
    <3>1. /\ v.frames = k + 1 /\ Len(v.track) = n + 1 /\ v.bytes = s.bytes + Size(p)
          /\ k \in Nat /\ k <= n
      BY <1>0, <1>1, <2>1, <2>3, <2>5 DEF w, k
    <3>2. Len(v.track) - v.frames + 1 = g
      BY <1>0, <1>1, <3>1 DEF g
    <3>3. v.frames \in 1 .. Len(v.track) /\ v.frames <= MaxFrames
      <4>1. n \in Nat /\ MaxFrames \in Nat
        BY <1>0, <1>1
      <4>2. k + 1 \in 1 .. n + 1 /\ k + 1 <= MaxFrames
        BY <2>2, <3>1, <4>1
      <4> QED
        BY <3>1, <4>2
    <3>4. v.track[g].opens
      BY <2>3, <2>5 DEF w
    <3>5. v.bytes = v.track[Len(v.track)].end - v.track[g].end + Size(v.track[g].packet)
      BY <2>7, <3>1 DEF w
    <3>6. v.bytes <= MaxBytes
      BY <2>2, <3>1
    <3> QED
      BY <1>0, <3>2, <3>3, <3>4, <3>5, <3>6 DEF GroupIsCounted
  <2> QED
    BY <1>6, <1>7, <2>8, <2>9 DEF StreamInv, w
<1> QED
  BY <1>0, <1>1, <1>8, <1>9

LEMMA WriteFrameInv ==
  ASSUME NEW s \in Stream, StreamInv(s), Size(s.next) \in Nat
  PROVE  StreamInv([WriteFrame(s, s.next) EXCEPT !.next = s.next + 1])
<1>1. PICK p : p = s.next
  OBVIOUS
<1>2. PICK u : u = IF IsFull(s, p) THEN Rotated(s) ELSE s
  OBVIOUS
<1>3. PICK v : v = [WriteFrame(s, p) EXCEPT !.next = p + 1]
  OBVIOUS
<1>4. Written(s, p, u, v)
  <2>1. p \in Nat \ {0} /\ Size(p) \in Nat
    BY <1>1 DEF Stream
  <2> QED
    BY <1>2, <1>3, <2>1, WriteFrameFields, Zenon
<1>5. StreamInv(v)
  BY <1>1, <1>4, FrameAdded, Zenon
<1> QED
  BY <1>1, <1>3, <1>5

LEMMA StreamsInit == Init => \A c \in Cameras : StreamInv(stream[c])
<1> SUFFICES ASSUME Init, NEW c \in Cameras
             PROVE  StreamInv(stream[c])
  OBVIOUS
<1>1. stream[c] = NewStream(c) /\ sent[c] \in Nat
  BY DEF Init
<1> QED
  BY <1>1, NewStreamInv

\* A stream of which packets are skipped without a frame.
LEMMA LagInv ==
  ASSUME NEW s \in Stream, StreamInv(s), NEW n \in Nat, n >= s.next
  PROVE  StreamInv([s EXCEPT !.skipped = @ + n - s.next, !.next = n])
<1> DEFINE k == s.skipped + n - s.next
           v == [s EXCEPT !.skipped = k, !.next = n]
<1>1. /\ v.first = s.first /\ v.next = n /\ v.skipped = k /\ v.track = s.track
      /\ v.group = s.group /\ v.frames = s.frames /\ v.bytes = s.bytes
  BY DEF Stream
<1>2. /\ s.first \in Nat /\ s.next \in Nat /\ s.skipped \in Nat /\ s.track \in Seq(Frame)
      /\ \A i \in DOMAIN s.track : s.track[i].packet \in Nat
  BY DEF Stream, StreamInv, EndsAgree
<1>3. v = [s EXCEPT !.skipped = @ + n - s.next, !.next = n]
  BY DEF Stream
<1> HIDE DEF v
<1>4. TrackIsWhole(v)
  <2>1. TrackIsWhole(s)
    BY DEF StreamInv
  <2>2. \A i \in DOMAIN v.track : v.track[i].packet \in v.first .. v.next - 1
    <3> TAKE i \in DOMAIN v.track
    <3>1. v.track[i].packet \in s.first .. s.next - 1
      BY <1>1, <2>1 DEF TrackIsWhole
    <3> QED
      BY SMTT(60), <1>1, <1>2, <3>1
  <2>3. Len(v.track) + v.skipped = v.next - v.first
    <3>1. Len(s.track) + s.skipped = s.next - s.first
      BY <2>1 DEF TrackIsWhole
    <3>2. Len(s.track) \in Nat
      BY <1>2
    <3>3. Len(s.track) + k = n - s.first
      <4>1. PICK a, b, c, d : a = Len(s.track) /\ b = s.skipped /\ c = s.next /\ d = s.first
        OBVIOUS
      <4>2. a \in Nat /\ b \in Nat /\ c \in Nat /\ d \in Nat /\ a + b = c - d
        BY <1>2, <3>1, <3>2, <4>1
      <4>3. a + (b + n - c) = n - d
        BY <4>2
      <4> QED
        BY <4>1, <4>3
    <3> QED
      BY <1>1, <3>3
  <2>4. \A i, j \in DOMAIN v.track : i < j => v.track[i].packet < v.track[j].packet
    BY <1>1, <2>1 DEF TrackIsWhole
  <2> QED
    BY <2>2, <2>3, <2>4 DEF TrackIsWhole
<1>5. GroupIsCounted(v) /\ GroupsAreBounded(v.track) /\ EndsAgree(v.track)
  BY <1>1 DEF StreamInv, GroupIsCounted
<1> QED
  BY <1>3, <1>4, <1>5 DEF StreamInv

LEMMA StreamsStep ==
  TypeOK /\ (\A c \in Cameras : StreamInv(stream[c])) /\ [Next]_vars
    => \A c \in Cameras : StreamInv(stream'[c])
<1> SUFFICES ASSUME TypeOK, \A c \in Cameras : StreamInv(stream[c]), [Next]_vars
             PROVE  \A c \in Cameras : StreamInv(stream'[c])
  OBVIOUS
<1> USE DEF accessVars, publicationVars, shutdownVars
<1>0. /\ stream \in [Cameras -> Stream] /\ sent \in [Cameras -> Nat]
      /\ \A c \in Cameras : stream[c] \in Stream
  BY DEF TypeOK
<1>1. ASSUME NEW c \in Cameras, NEW s, StreamInv(s), stream' = [stream EXCEPT ![c] = s]
      PROVE  \A d \in Cameras : StreamInv(stream'[d])
  BY <1>0, <1>1
<1>2. ASSUME UNCHANGED stream
      PROVE  \A d \in Cameras : StreamInv(stream'[d])
  BY <1>2
<1>3. ASSUME NEW c \in Cameras, ProvisionCamera(c)
      PROVE  \A d \in Cameras : StreamInv(stream'[d])
  <2>1. StreamInv(NewStream(c))
    BY <1>0, NewStreamInv
  <2> QED
    BY <1>1, <1>2, <1>3, <2>1 DEF ProvisionCamera
<1>4. ASSUME NEW c \in Cameras, Rotate(c) \/ PublicationEnds(c) \/ PublicationFails(c)
      PROVE  \A d \in Cameras : StreamInv(stream'[d])
  <2>1. StreamInv(Rotated(stream[c]))
    BY <1>0, RotatedInv
  <2>2. stream' = [stream EXCEPT ![c] = Rotated(stream[c])]
    BY <1>0, <1>4 DEF Rotate, StreamBecomes, PublicationEnds, PublicationFails, TaskEnds
  <2> QED
    BY <1>1, <2>1, <2>2
<1>5. ASSUME NEW c \in Cameras, Lag(c)
      PROVE  \A d \in Cameras : StreamInv(stream'[d])
  <2> DEFINE oldest == sent[c] + 1 - Capacity
             s == [stream[c] EXCEPT !.skipped = @ + oldest - stream[c].next, !.next = oldest]
  <2>1. stream[c].next \in Nat \ {0} /\ sent[c] \in Nat
    BY <1>0 DEF Stream
  <2>2. oldest \in Nat /\ oldest >= stream[c].next
    BY <1>5, <2>1, LimitsAssumption DEF Lag, Lagged
  <2>3. stream' = [stream EXCEPT ![c] = s]
    BY <1>5 DEF Lag, StreamBecomes
  <2> HIDE DEF oldest
  <2>4. StreamInv(s)
    BY <1>0, <2>2, LagInv
  <2> QED
    BY <1>1, <2>3, <2>4
<1>6. ASSUME NEW c \in Cameras, Publish(c)
      PROVE  \A d \in Cameras : StreamInv(stream'[d])
  <2> DEFINE p == stream[c].next
             w == WriteFrame(stream[c], p)
             s == [w EXCEPT !.next = p + 1]
  <2>1. p \in Nat \ {0} /\ Size(p) \in Nat
    BY <1>6, PublishedPacket DEF Publish
  <2>2. w.next = p
    <3>1. PICK u, v : /\ u = IF IsFull(stream[c], p) THEN Rotated(stream[c]) ELSE stream[c]
                      /\ v = s
      OBVIOUS
    <3> QED
      BY <1>0, <2>1, <3>1, WriteFrameFields, Zenon
  <2>3. stream' = [stream EXCEPT ![c] = [w EXCEPT !.next = w.next + 1]]
    BY <1>6 DEF Publish, StreamBecomes
  <2>4. StreamInv(s)
    BY <1>0, <2>1, WriteFrameInv
  <2> HIDE DEF w, p
  <2>5. stream' = [stream EXCEPT ![c] = s]
    BY <2>2, <2>3
  <2> HIDE DEF s
  <2> QED
    BY <1>1, <2>4, <2>5
<1>7. ASSUME NEW c \in Cameras,
             \/ ProvisionFails(c) \/ RevokeCamera(c) \/ SendPacket(c) \/ WorkerEnds(c)
             \/ StopPublication(c)
      PROVE  UNCHANGED stream
  BY <1>7 DEF ProvisionFails, RevokeCamera, SendPacket, WorkerEnds, StopPublication
<1>8. ASSUME NEW s \in Sessions, NEW k \in Tokens, CreatePreviewAccess(s, k)
      PROVE  UNCHANGED stream
  BY <1>8 DEF CreatePreviewAccess
<1>9. ASSUME NEW u \in Subscribers,
             \/ \E s \in Sessions, k \in Tokens \cup {NoToken} : Request(u, s, k)
             \/ SubscriberStep(u) \/ Leave(u)
      PROVE  UNCHANGED stream
  BY <1>9 DEF Request, SubscriberStep, Authorize, Consume, Accept, Expire, Leave, SubscriberBecomes
<1>10. ASSUME Tick \/ Shutdown \/ PublicationJoined \/ ListenerJoined \/ Terminated \/ UNCHANGED vars
       PROVE  UNCHANGED stream
  BY <1>10 DEF Tick, Shutdown, PublicationJoined, ListenerJoined, Terminated, vars
<1> QED
  BY <1>2, <1>3, <1>4, <1>5, <1>6, <1>7, <1>8, <1>9, <1>10 DEF Next, Step

\* What the task of a camera publishes is what it read: in order, whole but for what it was
\* told it lagged behind, and in groups within their limits, for any sizes of packets.
THEOREM StreamsWhole == Spec => []StreamIsWhole
<1>1. TypeOK /\ (\A c \in Cameras : StreamInv(stream[c])) /\ [Next]_vars
        => (\A c \in Cameras : StreamInv(stream[c]))'
  BY StreamsStep
<1>2. (\A c \in Cameras : StreamInv(stream[c])) => StreamIsWhole
  BY DEF StreamInv, StreamIsWhole
<1> QED
  BY StreamsInit, PreviewTypes, <1>1, <1>2, PTL DEF Spec

-----------------------------------------------------------------------------
(* The publications and the shutdown.                                      *)

\* What the steps but Shutdown leave of the variables the invariants below are about.
LEMMA LivesStep == TypeOK /\ ServedIsPublished /\ [Next]_vars => ServedIsPublished'
<1> SUFFICES ASSUME TypeOK, ServedIsPublished, [Next]_vars,
                    relay' = "serving", NEW d \in sender' \ stopped'
             PROVE  (d \in published' /\ task'[d] = "running") \/ task'[d] = "failed"
  BY DEF ServedIsPublished, IsPublished
<1> USE DEF ServedIsPublished, IsPublished, accessVars, publicationVars, shutdownVars
<1>0. task \in [Cameras -> {"none", "running", "ended", "failed"}] /\ sender \subseteq Cameras
  BY DEF TypeOK
<1>1. ASSUME NEW c \in Cameras, ProvisionCamera(c) \/ ProvisionFails(c) \/ RevokeCamera(c)
      PROVE  (d \in published' /\ task'[d] = "running") \/ task'[d] = "failed"
  BY <1>0, <1>1 DEF ProvisionCamera, ProvisionFails, RevokeCamera
<1>2. ASSUME NEW c \in Cameras, SendPacket(c) \/ WorkerEnds(c) \/ StopPublication(c)
      PROVE  (d \in published' /\ task'[d] = "running") \/ task'[d] = "failed"
  BY <1>0, <1>2 DEF SendPacket, WorkerEnds, StopPublication
<1>3. ASSUME NEW c \in Cameras, Rotate(c) \/ Lag(c) \/ Publish(c)
      PROVE  (d \in published' /\ task'[d] = "running") \/ task'[d] = "failed"
  BY <1>0, <1>3 DEF Rotate, Lag, Publish, StreamBecomes
<1>4. ASSUME NEW c \in Cameras, PublicationEnds(c) \/ PublicationFails(c)
      PROVE  (d \in published' /\ task'[d] = "running") \/ task'[d] = "failed"
  BY <1>0, <1>4 DEF PublicationEnds, PublicationFails, TaskEnds, Closed
<1>5. ASSUME NEW s \in Sessions, NEW k \in Tokens, CreatePreviewAccess(s, k)
      PROVE  UNCHANGED <<published, sender, task, stopped, relay>>
  BY <1>5 DEF CreatePreviewAccess
<1>6. ASSUME NEW u \in Subscribers,
             \/ \E s \in Sessions, k \in Tokens \cup {NoToken} : Request(u, s, k)
             \/ SubscriberStep(u) \/ Leave(u)
      PROVE  UNCHANGED <<published, sender, task, stopped, relay>>
  BY <1>6 DEF Request, SubscriberStep, Authorize, Consume, Accept, Expire, Leave, SubscriberBecomes
<1>7. ASSUME Tick \/ PublicationJoined \/ Terminated \/ UNCHANGED vars
      PROVE  UNCHANGED <<published, sender, task, stopped, relay>>
  BY <1>7 DEF Tick, PublicationJoined, Terminated, vars
<1>8. ~ Shutdown /\ ~ ListenerJoined
  BY DEF Shutdown, ListenerJoined
<1> QED
  BY <1>1, <1>2, <1>3, <1>4, <1>5, <1>6, <1>7, <1>8 DEF Next, Step

\* Who stops the task of a camera: it was told to stop, the shutdown will tell it, or its
\* entry is there for the shutdown to find.
EachIsStopped ==
  /\ \A c \in Cameras : task[c] = "running" => c \in stopped \cup draining \cup published
  /\ relay # "serving" => published = {}
  /\ relay # "stopping" => draining = {}

LEMMA StoppedStep == TypeOK /\ EachIsStopped /\ [Next]_vars => EachIsStopped'
<1> SUFFICES ASSUME TypeOK, EachIsStopped, [Next]_vars
             PROVE  EachIsStopped'
  OBVIOUS
<1> USE DEF EachIsStopped, IsPublished, accessVars, publicationVars, shutdownVars
<1>0. /\ task \in [Cameras -> {"none", "running", "ended", "failed"}] /\ published \subseteq Cameras
      /\ relay \in {"serving", "stopping", "stopped"}
  BY DEF TypeOK
<1>1. ASSUME NEW c \in Cameras, ProvisionCamera(c) \/ ProvisionFails(c) \/ RevokeCamera(c)
      PROVE  EachIsStopped'
  BY <1>0, <1>1 DEF ProvisionCamera, ProvisionFails, RevokeCamera
<1>2. ASSUME NEW c \in Cameras, SendPacket(c) \/ WorkerEnds(c) \/ StopPublication(c)
      PROVE  EachIsStopped'
  BY <1>0, <1>2 DEF SendPacket, WorkerEnds, StopPublication
<1>3. ASSUME NEW c \in Cameras, StreamStep(c)
      PROVE  EachIsStopped'
  BY <1>0, <1>3 DEF StreamStep, Rotate, Lag, Publish, StreamBecomes, PublicationEnds, PublicationFails, TaskEnds
<1>4. ASSUME NEW s \in Sessions, NEW k \in Tokens, CreatePreviewAccess(s, k)
      PROVE  EachIsStopped'
  BY <1>4 DEF CreatePreviewAccess
<1>5. ASSUME NEW u \in Subscribers,
             \/ \E s \in Sessions, k \in Tokens \cup {NoToken} : Request(u, s, k)
             \/ SubscriberStep(u) \/ Leave(u)
      PROVE  EachIsStopped'
  BY <1>5 DEF Request, SubscriberStep, Authorize, Consume, Accept, Expire, Leave, SubscriberBecomes
<1>6. CASE Tick \/ PublicationJoined \/ Terminated \/ UNCHANGED vars
  BY <1>6 DEF Tick, PublicationJoined, Terminated, vars
<1>7. CASE Shutdown
  BY <1>0, <1>7 DEF Shutdown
<1>8. CASE ListenerJoined
  BY <1>0, <1>8 DEF ListenerJoined
<1> QED
  BY <1>1, <1>2, <1>3, <1>4, <1>5, <1>6, <1>7, <1>8 DEF Next, Step, StreamStep

\* A camera that is provisioned, not revoked, is published by a task that runs, however its
\* packets come and whoever subscribes, unless moq-net failed that task; and when the relay
\* is down every task that runs on was told to stop: none that was replaced, failed to be
\* replaced, or was revoked beside the shutdown is lost (MoqServer).
THEOREM PublicationsLive == Spec => []PublicationLives
<1>1. Init => ServedIsPublished /\ EachIsStopped
  BY DEF Init, ServedIsPublished, EachIsStopped
<1>2. ServedIsPublished /\ EachIsStopped => PublicationLives
  BY DEF PublicationLives, EachIsStopped, NothingOutlivesRelay
<1> QED
  BY <1>1, <1>2, LivesStep, StoppedStep, PreviewTypes, PTL DEF Spec

-----------------------------------------------------------------------------
(* Access.                                                                 *)

\* What AccessIsGranted says of one subscriber.
GrantedTo(me) ==
  me.phase \in {"authorized", "accepting", "open"} =>
    /\ me.token \in issued
    /\ IF me.token \in DOMAIN grants
       THEN grants[me.token] = [session |-> me.session, expires |-> me.expires]
       ELSE me.expires <= now

LEMMA GrantFields ==
  ASSUME NEW g \in Grant
  PROVE  g = [session |-> g.session, expires |-> g.expires]
BY DEF Grant

\* Forgetting the grants that have expired takes nothing from those who had them.
LEMMA GrantsForgotten ==
  ASSUME TypeOK, NEW me, GrantedTo(me), now' = now, issued \subseteq issued',
         DOMAIN grants' \cap issued = Valid, \A k \in Valid : grants'[k] = grants[k]
  PROVE  me.phase \in {"authorized", "accepting", "open"} =>
           /\ me.token \in issued'
           /\ IF me.token \in DOMAIN grants'
              THEN grants'[me.token] = [session |-> me.session, expires |-> me.expires]
              ELSE me.expires <= now'
<1> SUFFICES ASSUME me.phase \in {"authorized", "accepting", "open"}
             PROVE  /\ me.token \in issued'
                    /\ IF me.token \in DOMAIN grants'
                       THEN grants'[me.token] = [session |-> me.session, expires |-> me.expires]
                       ELSE me.expires <= now'
  OBVIOUS
<1>1. /\ me.token \in issued
      /\ IF me.token \in DOMAIN grants
         THEN grants[me.token] = [session |-> me.session, expires |-> me.expires]
         ELSE me.expires <= now
  BY DEF GrantedTo
<1>2. CASE me.token \in Valid
  BY <1>1, <1>2 DEF Valid
<1>3. CASE me.token \in DOMAIN grants \ Valid
  <2>1. grants[me.token] \in Grant /\ ~ (grants[me.token].expires > now)
    BY <1>3 DEF TypeOK, Valid
  <2>2. me.expires = grants[me.token].expires
    BY <1>1, <1>3
  <2>3. me.expires <= now
    BY <2>1, <2>2 DEF TypeOK, Grant
  <2> QED
    BY <1>1, <1>3, <2>3
<1>4. CASE me.token \notin DOMAIN grants
  BY <1>1, <1>4 DEF Valid
<1> QED
  BY <1>2, <1>3, <1>4

LEMMA GrantedStep ==
  TypeOK /\ (\A u \in Subscribers : GrantedTo(subscriber[u])) /\ [Next]_vars
    => (\A u \in Subscribers : GrantedTo(subscriber[u]))'
<1> SUFFICES ASSUME TypeOK, \A u \in Subscribers : GrantedTo(subscriber[u]), [Next]_vars,
                    NEW v \in Subscribers
             PROVE  GrantedTo(subscriber[v])'
  OBVIOUS
<1> USE DEF accessVars, publicationVars, shutdownVars
<1>0. GrantedTo(subscriber[v]) /\ subscriber \in [Subscribers -> Subscriber]
  BY DEF TypeOK
<1>1. CASE UNCHANGED <<now, issued, grants, subscriber>>
  BY <1>0, <1>1 DEF GrantedTo
<1>2. CASE Tick
  <2>1. /\ UNCHANGED <<issued, grants, subscriber>> /\ now' = now + 1 /\ now \in Nat
        /\ subscriber[v].expires \in Nat
    BY <1>0, <1>2, LimitsAssumption DEF Tick, TypeOK, Subscriber
  <2> QED
    BY <1>0, <2>1 DEF GrantedTo
<1>3. ASSUME NEW s \in Sessions, NEW k \in Tokens, CreatePreviewAccess(s, k)
      PROVE  GrantedTo(subscriber[v])'
  <2>1. /\ k \notin issued /\ issued' = issued \cup {k} /\ UNCHANGED <<now, subscriber>>
        /\ grants' = [j \in Valid \cup {k} |->
                        IF j = k THEN [session |-> s, expires |-> now + Lifetime] ELSE grants[j]]
    BY <1>3 DEF CreatePreviewAccess
  <2>2. Valid \subseteq issued
    BY DEF Valid, TypeOK
  <2>3. DOMAIN grants' \cap issued = Valid /\ \A j \in Valid : grants'[j] = grants[j]
    BY <2>1, <2>2
  <2> QED
    BY <1>0, <2>1, <2>3, GrantsForgotten DEF GrantedTo
<1>4. ASSUME NEW u \in Subscribers, Authorize(u)
      PROVE  GrantedTo(subscriber[v])'
  <2> DEFINE me == subscriber[u]
             granted == me.token \in Valid /\ grants[me.token].session = me.session
             t == IF granted
                  THEN [me EXCEPT !.phase = "authorized", !.expires = grants[me.token].expires]
                  ELSE [me EXCEPT !.phase = "ended"]
  <2>1. /\ grants' = [k \in Valid |-> grants[k]] /\ UNCHANGED <<now, issued>>
        /\ subscriber' = [subscriber EXCEPT ![u] = t]
    BY <1>4 DEF Authorize, SubscriberBecomes
  <2>2. DOMAIN grants' \cap issued = Valid /\ \A j \in Valid : grants'[j] = grants[j]
    BY <2>1 DEF Valid, TypeOK
  <2>3. CASE v # u
    <3>1. subscriber'[v] = subscriber[v]
      BY <1>0, <2>1, <2>3
    <3> QED
      BY <1>0, <2>1, <2>2, <3>1, GrantsForgotten DEF GrantedTo
  <2>4. CASE v = u /\ ~ granted
    <3>1. subscriber'[v] = [me EXCEPT !.phase = "ended"]
      BY <1>0, <2>1, <2>4
    <3>2. subscriber'[v].phase = "ended"
      BY <1>0, <2>4, <3>1 DEF Subscriber
    <3> QED
      BY <3>2 DEF GrantedTo
  <2>5. CASE v = u /\ granted
    <3>1. subscriber'[v] = [me EXCEPT !.phase = "authorized", !.expires = grants[me.token].expires]
      BY <1>0, <2>1, <2>5
    <3>2. /\ subscriber'[v].token = me.token /\ subscriber'[v].session = me.session
          /\ subscriber'[v].expires = grants[me.token].expires
      BY <1>0, <2>5, <3>1 DEF Subscriber
    <3>3. grants[me.token] \in Grant /\ me.token \in issued
      BY <2>5 DEF Valid, TypeOK
    <3>4. grants[me.token] = [session |-> me.session, expires |-> grants[me.token].expires]
      BY <2>5, <3>3, GrantFields
    <3>5. me.token \in DOMAIN grants' /\ grants'[me.token] = grants[me.token]
      BY <2>1, <2>5
    <3> HIDE DEF me
    <3> QED
      BY <2>1, <3>2, <3>3, <3>4, <3>5 DEF GrantedTo
  <2> QED
    BY <2>3, <2>4, <2>5
<1>5. ASSUME NEW u \in Subscribers, NEW s \in Sessions, NEW k \in Tokens \cup {NoToken}, Request(u, s, k)
      PROVE  GrantedTo(subscriber[v])'
  BY <1>0, <1>5 DEF Request, SubscriberBecomes, GrantedTo
<1>6. ASSUME NEW u \in Subscribers, NEW phase \in {"accepting", "open", "ended"},
             subscriber[u].phase \in {"authorized", "accepting", "open"},
             SubscriberBecomes(u, [subscriber[u] EXCEPT !.phase = phase]), UNCHANGED grants
      PROVE  GrantedTo(subscriber[v])'
  <2>1. UNCHANGED <<now, issued, grants>>
    BY <1>6 DEF SubscriberBecomes
  <2>2. /\ v # u => subscriber'[v] = subscriber[v]
        /\ v = u => subscriber'[v] = [subscriber[v] EXCEPT !.phase = phase]
    BY <1>0, <1>6 DEF SubscriberBecomes
  <2>3. /\ subscriber'[v].token = subscriber[v].token
        /\ subscriber'[v].session = subscriber[v].session
        /\ subscriber'[v].expires = subscriber[v].expires
        /\ v # u => subscriber'[v].phase = subscriber[v].phase
    BY <1>0, <2>2 DEF Subscriber
  <2> QED
    BY <1>0, <1>6, <2>1, <2>3 DEF GrantedTo
<1>7. ASSUME NEW u \in Subscribers, Consume(u) \/ Accept(u) \/ Expire(u) \/ Leave(u)
      PROVE  GrantedTo(subscriber[v])'
  BY <1>6, <1>7 DEF Consume, Accept, Expire, Leave
<1>8. ASSUME NEW c \in Cameras,
             \/ ProvisionCamera(c) \/ ProvisionFails(c) \/ RevokeCamera(c)
             \/ SendPacket(c) \/ WorkerEnds(c) \/ StreamStep(c) \/ StopPublication(c)
      PROVE  UNCHANGED <<now, issued, grants, subscriber>>
  BY <1>8 DEF ProvisionCamera, ProvisionFails, RevokeCamera, SendPacket, WorkerEnds,
              StreamStep, Rotate, Lag, Publish, StreamBecomes, PublicationEnds,
              PublicationFails, TaskEnds, StopPublication
<1>9. ASSUME Shutdown \/ PublicationJoined \/ ListenerJoined \/ Terminated \/ UNCHANGED vars
      PROVE  UNCHANGED <<now, issued, grants, subscriber>>
  BY <1>9 DEF Shutdown, PublicationJoined, ListenerJoined, Terminated, vars
<1> QED
  BY <1>1, <1>2, <1>3, <1>4, <1>5, <1>7, <1>8, <1>9 DEF Next, Step, SubscriberStep, StreamStep

\* Whoever is let in has the grant it was let in by, for its session and no longer than it
\* says, until that grant's own time is over: no other token, late acceptance or forgetting
\* of grants comes between.
THEOREM AccessGranted == Spec => []AccessIsGranted
<1>1. Init => \A u \in Subscribers : GrantedTo(subscriber[u])
  BY DEF Init, Nobody, GrantedTo
<1>2. (\A u \in Subscribers : GrantedTo(subscriber[u])) => AccessIsGranted
  BY DEF GrantedTo, AccessIsGranted
<1> QED
  BY <1>1, <1>2, GrantedStep, PreviewTypes, PTL DEF Spec
=============================================================================
