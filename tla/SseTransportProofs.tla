-------------------------- MODULE SseTransportProofs --------------------------
(***************************************************************************)
(* Proofs about the event streams of the local HTTP server, for any number *)
(* of streams, posts and sessions.                                         *)
(***************************************************************************)
EXTENDS SseTransport, FiniteSetTheorems, TLAPS

StreamStages == {"idle", "arriving", "open", "refused", "ended", "gone"}
PostStages == {"idle", "arriving", "reading", "dispatching", "answered"}
Statuses == {0, 200, 202, 400, 404, 413, 500}

PostRecord == [stage : PostStages, to : Targets, body : Bodies,
               status : Statuses, caller : {"waiting", "gone"}]

Shape ==
  /\ stream \in [Streams -> StreamStages]
  /\ sessions \subseteq Streams
  /\ post \in [Posts -> PostRecord]
  /\ sent \in [Streams -> Seq(Posts)]

\* The registry: what SessionsAreLive says, and that the set it bounds is finite
\* however many streams there are.
RegistryInv == IsFiniteSet(sessions) /\ SessionsAreLive

(***************************************************************************)
(* Between its two awaits a handler keeps the stream it looked up.  That   *)
(* stream may have ended since, but it did open: without this the stream   *)
(* of an undelivered answer might still be waiting to be opened, and       *)
(* DeliveredOrGone could not be carried across the dispatch.               *)
(***************************************************************************)
Opened(s) == stream[s] \in {"open", "ended", "gone"}

HeldStreamOpened ==
  \A p \in Posts :
    post[p].stage \in {"reading", "dispatching"} /\ post[p].to # None => Opened(post[p].to)

AcknowledgedHasStream ==
  \A p \in Posts : post[p].status = 202 /\ post[p].body = "request" => post[p].to # None

SseInv == Shape /\ RegistryInv /\ HeldStreamOpened /\ AcknowledgedHasStream /\ DeliveredOrGone

\* What a post's handler does to its own record, and to no other.
LEMMA PostStep ==
  ASSUME Shape, NEW p \in Posts,
         ArrivePost(p) \/ LookUp(p) \/ HangUp(p) \/ ReadBody(p) \/ Dispatch(p) \/ DispatchFails(p)
  PROVE  /\ post' \in [Posts -> PostRecord]
         /\ \A q \in Posts \ {p} : post'[q] = post[q]
         /\ post'[p].to = post[p].to /\ post'[p].body = post[p].body
         /\ UNCHANGED <<phase, stream, sessions>>
<1>1. /\ \A q \in Posts \ {p} : post'[q] = post[q]
      /\ UNCHANGED <<phase, stream, sessions>> /\ DOMAIN post' = DOMAIN post
      /\ post' = [post EXCEPT ![p] = post'[p]]
  BY DEF Shape, ArrivePost, LookUp, HangUp, ReadBody, Dispatch, DispatchFails, Answer
<1>2. /\ post'[p] \in PostRecord
      /\ post'[p].to = post[p].to /\ post'[p].body = post[p].body
  <2>1. post[p] \in PostRecord
    BY DEF Shape
  <2>2. ASSUME NEW status \in Statuses, Answer(p, status)
        PROVE  post'[p] = [post[p] EXCEPT !.stage = "answered", !.status = status]
    BY <2>2 DEF Shape, Answer
  <2>3. CASE \E status \in Statuses : Answer(p, status)
    <3> PICK status \in Statuses : Answer(p, status)
      BY <2>3
    <3> DEFINE answered == [post[p] EXCEPT !.stage = "answered"]
    <3>1. /\ answered \in PostRecord
          /\ answered.to = post[p].to /\ answered.body = post[p].body
      <4>1. "answered" \in PostStages
        BY DEF PostStages
      <4> QED
        BY <2>1, <4>1 DEF PostRecord
    <3>2. post'[p] = [answered EXCEPT !.status = status]
      BY <2>2
    <3> HIDE DEF answered
    <3>3. QED
      BY <3>1, <3>2 DEF PostRecord
  <2>4. ASSUME NEW stage \in PostStages, post' = [post EXCEPT ![p].stage = stage]
        PROVE  post'[p] = [post[p] EXCEPT !.stage = stage]
    BY <2>4 DEF Shape
  <2>5. CASE \E stage \in PostStages : post' = [post EXCEPT ![p].stage = stage]
    BY <2>1, <2>4, <2>5 DEF PostRecord
  <2>6. CASE HangUp(p)
    <3>1. post'[p] = [post[p] EXCEPT !.caller = "gone"]
      BY <2>6 DEF Shape, HangUp
    <3>2. QED
      BY <2>1, <3>1 DEF PostRecord
  <2>7. QED
    <3>1. ArrivePost(p) \/ LookUp(p) \/ ReadBody(p)
            => \/ \E status \in Statuses : Answer(p, status)
               \/ \E stage \in PostStages : post' = [post EXCEPT ![p].stage = stage]
      BY DEF ArrivePost, LookUp, ReadBody, PostStages, Statuses
    <3>2. Dispatch(p) \/ DispatchFails(p)
            => \E status \in Statuses : Answer(p, status)
      BY DEF Dispatch, DispatchFails, Statuses
    <3>3. QED
      BY <2>3, <2>5, <2>6, <3>1, <3>2
<1>3. post' \in [Posts -> PostRecord]
  BY <1>1, <1>2 DEF Shape
<1>4. QED
  BY <1>1, <1>2, <1>3

\* A handler that goes on with a stream found it registered, hence open.
LEMMA LookUpKeeps ==
  ASSUME SseInv, NEW p \in Posts,
         ArrivePost(p) \/ LookUp(p) \/ HangUp(p) \/ ReadBody(p) \/ Dispatch(p) \/ DispatchFails(p)
  PROVE  HeldStreamOpened'
<1> USE DEF SseInv
<1>1. /\ \A q \in Posts \ {p} : post'[q] = post[q]
      /\ post'[p].to = post[p].to /\ stream' = stream
  BY PostStep
<1>2. ASSUME post'[p].stage \in {"reading", "dispatching"}, post[p].to # None
      PROVE  Opened(post[p].to)
  <2>1. CASE LookUp(p)
    <3>1. post[p].to \in sessions
      BY <1>2, <2>1 DEF LookUp, Answer, Shape, PostRecord
    <3>2. QED
      BY <3>1 DEF RegistryInv, SessionsAreLive, Writable, Opened
  <2>2. CASE ~LookUp(p)
    <3>1. post[p].stage \in {"reading", "dispatching"}
      BY <1>2, <2>2 DEF ArrivePost, HangUp, ReadBody, Dispatch, DispatchFails, Answer, Shape,
            PostRecord
    <3>2. QED
      BY <1>2, <3>1 DEF HeldStreamOpened
  <2>3. QED
    BY <2>1, <2>2
<1>3. QED
  BY <1>1, <1>2 DEF HeldStreamOpened, Opened

\* What is appended to a sequence is among its elements.
LEMMA AppendedIsHeld ==
  ASSUME NEW S, NEW s \in Seq(S), NEW p \in S
  PROVE  p \in ToSet(Append(s, p))
<1>1. Len(s) + 1 \in DOMAIN Append(s, p) /\ Append(s, p)[Len(s) + 1] = p
  OBVIOUS
<1>2. QED
  BY <1>1 DEF ToSet

\* A 202 is written by the dispatch of a post for a stream; what it could not
\* deliver was for a stream that is over.
LEMMA AcknowledgementKeeps ==
  ASSUME SseInv, NEW p \in Posts,
         ArrivePost(p) \/ LookUp(p) \/ HangUp(p) \/ ReadBody(p) \/ Dispatch(p) \/ DispatchFails(p)
  PROVE  AcknowledgedHasStream' /\ DeliveredOrGone'
<1> USE DEF SseInv
<1>1. /\ \A q \in Posts \ {p} : post'[q] = post[q]
      /\ post'[p].to = post[p].to /\ post'[p].body = post[p].body /\ stream' = stream
      /\ post[p].to \in Targets
  BY PostStep DEF Shape, PostRecord
<1>2. \A s \in Streams : ToSet(sent[s]) \subseteq ToSet(sent'[s])
  <2>1. CASE sent' = sent
    BY <2>1
  <2>2. CASE post[p].to \in Streams /\ sent' = [sent EXCEPT ![post[p].to] = Append(@, p)]
    <3>1. \A s \in Streams : sent'[s] = IF s = post[p].to THEN Append(sent[s], p) ELSE sent[s]
      BY <2>2 DEF Shape
    <3>2. ASSUME NEW s \in Streams PROVE ToSet(sent[s]) \subseteq ToSet(Append(sent[s], p))
      BY DEF ToSet, Shape
    <3>3. QED
      BY <3>1, <3>2
  <2>3. ArrivePost(p) \/ LookUp(p) \/ HangUp(p) \/ ReadBody(p) \/ DispatchFails(p) => sent' = sent
    BY DEF ArrivePost, LookUp, HangUp, ReadBody, DispatchFails
  <2>4. Dispatch(p) => \/ sent' = sent
                       \/ post[p].to # None /\ sent' = [sent EXCEPT ![post[p].to] = Append(@, p)]
    BY DEF Dispatch
  <2>5. post[p].to # None => post[p].to \in Streams
    BY <1>1 DEF Targets
  <2>6. QED
    BY <2>1, <2>2, <2>3, <2>4, <2>5
<1>3. ASSUME post'[p].status = 202, post[p].body = "request"
      PROVE  /\ post[p].to # None
             /\ p \in ToSet(sent'[post[p].to]) \/ stream[post[p].to] \in {"ended", "gone"}
  <2>1. CASE post[p].status = 202
    <3>1. post[p].to \in Streams
      BY <1>1, <1>3, <2>1 DEF AcknowledgedHasStream, Targets
    <3>2. QED
      BY <1>2, <1>3, <2>1, <3>1 DEF AcknowledgedHasStream, DeliveredOrGone
  <2>2. CASE post[p].status # 202
    <3>1. Dispatch(p) /\ post[p].to # None
      BY <1>3, <2>2 DEF ArrivePost, LookUp, HangUp, ReadBody, Dispatch, DispatchFails, Answer,
            Shape, PostRecord
    <3>2. post[p].to \in Streams /\ Opened(post[p].to)
      BY <1>1, <3>1 DEF Dispatch, HeldStreamOpened, Targets
    <3>3. CASE Writable(post[p].to)
      <4>1. sent'[post[p].to] = Append(sent[post[p].to], p)
        BY <1>3, <3>1, <3>2, <3>3 DEF Dispatch, Shape
      <4>2. p \in ToSet(Append(sent[post[p].to], p))
        <5>1. sent[post[p].to] \in Seq(Posts)
          BY <3>2 DEF Shape
        <5>2. QED
          BY <5>1, AppendedIsHeld
      <4>3. QED
        BY <3>1, <4>1, <4>2
    <3>4. CASE ~Writable(post[p].to)
      BY <3>1, <3>2, <3>4 DEF Writable, Opened
    <3>5. QED
      BY <3>3, <3>4
  <2>3. QED
    BY <2>1, <2>2
<1>4. AcknowledgedHasStream'
  BY <1>1, <1>3 DEF AcknowledgedHasStream
<1>5. DeliveredOrGone'
  <2> SUFFICES ASSUME NEW q \in Posts, post'[q].status = 202, post'[q].body = "request"
               PROVE  \/ q \in ToSet(sent'[post'[q].to])
                      \/ stream'[post'[q].to] \in {"ended", "gone"}
    BY DEF DeliveredOrGone
  <2>1. CASE q = p
    BY <1>1, <1>3, <2>1
  <2>2. CASE q # p
    <3>1. post'[q] = post[q] /\ post[q].to \in Streams
      BY <1>1, <2>2 DEF AcknowledgedHasStream, Shape, PostRecord, Targets
    <3>2. QED
      BY <1>1, <1>2, <3>1 DEF DeliveredOrGone
  <2>3. QED
    BY <2>1, <2>2
<1>6. QED
  BY <1>4, <1>5

\* A step of the streams or of the shutdown leaves posts and answers alone and
\* takes no stream back from what it was.
LEMMA StreamStepKeepsPosts ==
  ASSUME SseInv, Shape', UNCHANGED <<post, sent>>,
         \A s \in Streams : /\ Opened(s) => Opened(s)'
                            /\ stream[s] \in {"ended", "gone"} => stream'[s] \in {"ended", "gone"}
  PROVE  HeldStreamOpened' /\ AcknowledgedHasStream' /\ DeliveredOrGone'
<1> USE DEF SseInv
<1>1. \A p \in Posts : post[p].to # None => post[p].to \in Streams
  BY DEF Shape, PostRecord, Targets
<1>2. HeldStreamOpened'
  BY <1>1 DEF HeldStreamOpened
<1>3. AcknowledgedHasStream'
  BY DEF AcknowledgedHasStream
<1>4. DeliveredOrGone'
  BY <1>1 DEF AcknowledgedHasStream, DeliveredOrGone
<1>5. QED
  BY <1>2, <1>3, <1>4

LEMMA SseInvariant == Spec => []SseInv
<1>1. Init => SseInv
  <2> SUFFICES ASSUME Init PROVE SseInv
    OBVIOUS
  <2>1. Shape
    BY DEF Init, Shape, PostRecord, StreamStages, PostStages, Statuses
  <2>2. RegistryInv
    BY FS_EmptySet, RoomAssumption DEF Init, RegistryInv, SessionsAreLive, Writable
  <2>3. HeldStreamOpened /\ AcknowledgedHasStream /\ DeliveredOrGone
    BY DEF Init, HeldStreamOpened, AcknowledgedHasStream, DeliveredOrGone
  <2>4. QED
    BY <2>1, <2>2, <2>3 DEF SseInv
<1>2. SseInv /\ [Next]_vars => SseInv'
  <2> SUFFICES ASSUME SseInv, [Next]_vars PROVE SseInv'
    OBVIOUS
  <2> USE DEF SseInv
  <2>1. CASE UNCHANGED vars
    BY <2>1 DEF vars, Shape, RegistryInv, SessionsAreLive, Writable, HeldStreamOpened, Opened,
          AcknowledgedHasStream, DeliveredOrGone
  <2>2. ASSUME NEW p \in Posts,
               ArrivePost(p) \/ LookUp(p) \/ HangUp(p) \/ ReadBody(p) \/ Dispatch(p)
                 \/ DispatchFails(p)
        PROVE  SseInv'
    <3>1. post' \in [Posts -> PostRecord] /\ UNCHANGED <<phase, stream, sessions>>
      BY <2>2, PostStep
    <3>2. sent' \in [Streams -> Seq(Posts)]
      <4>1. ASSUME NEW s \in Streams PROVE Append(sent[s], p) \in Seq(Posts)
        BY DEF Shape
      <4>2. post[p].to # None => post[p].to \in Streams
        BY DEF Shape, PostRecord, Targets
      <4>3. QED
        BY <2>2, <4>1, <4>2 DEF ArrivePost, LookUp, HangUp, ReadBody, Dispatch, DispatchFails, Shape
    <3>3. RegistryInv'
      BY <3>1 DEF RegistryInv, SessionsAreLive, Writable
    <3>4. QED
      BY <2>2, <3>1, <3>2, <3>3, LookUpKeeps, AcknowledgementKeeps DEF Shape
  <2>3. ASSUME NEW s \in Streams, Arrive(s) PROVE SseInv'
    <3>1. Shape' /\ UNCHANGED <<post, sent, sessions>>
      BY <2>3 DEF Arrive, Shape, StreamStages
    <3>2. stream[s] = "idle" /\ \A t \in Streams : stream'[t] = IF t = s THEN "arriving" ELSE stream[t]
      BY <2>3 DEF Arrive, Shape
    <3>3. RegistryInv'
      BY <3>1, <3>2 DEF RegistryInv, SessionsAreLive, Writable
    <3>4. QED
      BY <3>1, <3>2, <3>3, StreamStepKeepsPosts DEF Opened
  <2>4. ASSUME NEW s \in Streams, OpenSse(s) PROVE SseInv'
    <3>1. Shape' /\ UNCHANGED <<post, sent>> /\ stream[s] = "arriving"
      BY <2>4 DEF OpenSse, Shape, StreamStages
    <3>2. CASE HasRoom
      <4>1. /\ sessions' = sessions \union {s}
            /\ \A t \in Streams : stream'[t] = IF t = s THEN "open" ELSE stream[t]
        BY <2>4, <3>2 DEF OpenSse, Shape
      <4>2. IsFiniteSet(sessions') /\ Cardinality(sessions') <= MaxSessions
        <5>1. /\ IsFiniteSet(sessions) /\ Cardinality(sessions) \in Nat
              /\ Cardinality(sessions) < MaxSessions
          BY <3>2, FS_CardinalityType DEF RegistryInv, HasRoom
        <5>2. /\ IsFiniteSet(sessions \union {s})
              /\ Cardinality(sessions \union {s}) \in {Cardinality(sessions), Cardinality(sessions) + 1}
          BY <5>1, FS_AddElement
        <5>3. Cardinality(sessions \union {s}) <= MaxSessions
          BY <5>1, <5>2, RoomAssumption
        <5>4. QED
          BY <4>1, <5>2, <5>3
      <4>3. sessions' = {t \in Streams : Writable(t)'}
        <5>1. \A t \in Streams : Writable(t)' <=> Writable(t) \/ t = s
          BY <4>1 DEF Writable
        <5>2. QED
          BY <4>1, <5>1 DEF RegistryInv, SessionsAreLive
      <4>4. QED
        BY <3>1, <4>1, <4>2, <4>3, StreamStepKeepsPosts DEF RegistryInv, SessionsAreLive, Opened
    <3>3. CASE ~HasRoom
      <4>1. /\ sessions' = sessions
            /\ \A t \in Streams : stream'[t] = IF t = s THEN "refused" ELSE stream[t]
        BY <2>4, <3>3 DEF OpenSse, Shape
      <4>2. RegistryInv'
        BY <3>1, <4>1 DEF RegistryInv, SessionsAreLive, Writable
      <4>3. QED
        BY <3>1, <4>1, <4>2, StreamStepKeepsPosts DEF Opened
    <3>4. QED
      BY <3>2, <3>3
  <2>5. ASSUME NEW s \in Streams, Disconnect(s) PROVE SseInv'
    <3>1. Shape' /\ UNCHANGED <<post, sent>>
      BY <2>5 DEF Disconnect, Shape, StreamStages
    <3>2. /\ sessions' = sessions \ {s}
          /\ \A t \in Streams : stream'[t] = IF t = s THEN "gone" ELSE stream[t]
      BY <2>5 DEF Disconnect, Shape
    <3>3. IsFiniteSet(sessions') /\ Cardinality(sessions') <= MaxSessions
      <4>1. IsFiniteSet(sessions) /\ Cardinality(sessions) \in Nat /\ Cardinality(sessions) <= MaxSessions
        BY FS_CardinalityType DEF RegistryInv, SessionsAreLive
      <4>2. /\ IsFiniteSet(sessions \ {s})
            /\ Cardinality(sessions \ {s}) \in {Cardinality(sessions), Cardinality(sessions) - 1}
        BY <4>1, FS_RemoveElement
      <4>3. Cardinality(sessions \ {s}) <= MaxSessions
        BY <4>1, <4>2, RoomAssumption
      <4>4. QED
        BY <3>2, <4>2, <4>3
    <3>4. sessions' = {t \in Streams : Writable(t)'}
      <4>1. \A t \in Streams : Writable(t)' <=> Writable(t) /\ t # s
        BY <3>2 DEF Writable
      <4>2. QED
        BY <3>2, <4>1 DEF RegistryInv, SessionsAreLive
    <3>5. QED
      BY <3>1, <3>2, <3>3, <3>4, StreamStepKeepsPosts DEF RegistryInv, SessionsAreLive, Opened
  <2>6. CASE Close
    <3>1. /\ Shape' /\ UNCHANGED <<post, sent>> /\ sessions' = {}
          /\ \A t \in Streams : stream'[t] = IF t \in sessions THEN "ended" ELSE stream[t]
      BY <2>6 DEF Close, Shape, StreamStages
    <3>2. RegistryInv'
      BY <3>1, FS_EmptySet, RoomAssumption DEF RegistryInv, SessionsAreLive, Writable
    <3>3. QED
      BY <3>1, <3>2, StreamStepKeepsPosts DEF Opened
  <2>7. CASE Closed
    BY <2>7 DEF Closed, Shape, RegistryInv, SessionsAreLive, Writable, HeldStreamOpened, Opened,
          AcknowledgedHasStream, DeliveredOrGone
  <2>8. QED
    BY <2>1, <2>2, <2>3, <2>4, <2>5, <2>6, <2>7 DEF Next
<1>3. QED
  BY <1>1, <1>2, PTL DEF Spec

\* The registry is exactly the streams that can be written to, in every state
\* and through the shutdown, and never exceeds its limit.
THEOREM RegistryIsExact == Spec => []SessionsAreLive
<1>1. SseInv => SessionsAreLive
  BY DEF SseInv, RegistryInv
<1>2. QED
  BY <1>1, SseInvariant, PTL

\* An acknowledged request was answered on its stream, or its stream ended
\* between the look-up and the write.
THEOREM AcknowledgedIsDelivered == Spec => []DeliveredOrGone
<1>1. SseInv => DeliveredOrGone
  BY DEF SseInv
<1>2. QED
  BY <1>1, SseInvariant, PTL
=============================================================================
