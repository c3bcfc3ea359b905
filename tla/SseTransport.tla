----------------------------- MODULE SseTransport -----------------------------
(***************************************************************************)
(* The local HTTP server of src/src/mcp/server.ts: event streams, messages *)
(* posted for a stream or for a plain answer, and shutdown.  A handler     *)
(* looks its stream up when it starts and writes to it after it awaited    *)
(* the body of the request and the tool; in between the stream may end.    *)
(*                                                                         *)
(* A request exists from the moment its first bytes arrive: the listener   *)
(* accepts no new one once the server is closing, but serves those that    *)
(* were arriving.  What is written to a response that ended is lost.       *)
(***************************************************************************)
EXTENDS Naturals, FiniteSets, Sequences, SequencesExt

CONSTANTS Streams,      \* GET /sse requests
          Posts,        \* POST /message and POST /rpc requests
          MaxSessions,
          None

ASSUME RoomAssumption == MaxSessions \in Nat
ASSUME NoneIsNoStream == None \notin Streams

Targets == Streams \union {None}   \* None: POST /rpc
Bodies == {"request", "notification", "malformed", "oversized"}

VARIABLES phase,     \* listening, closing, closed
          stream,    \* the response of each GET
          sessions,  \* the streams a message can name
          post,      \* [stage, to, body, status, caller] of each POST
          sent       \* the posts answered on each stream, in order

vars == <<phase, stream, sessions, post, sent>>

Init ==
  /\ phase = "listening"
  /\ stream = [s \in Streams |-> "idle"]
  /\ sessions = {}
  /\ post \in [Posts -> [stage : {"idle"}, to : Targets, body : Bodies,
                         status : {0}, caller : {"waiting"}]]
  /\ sent = [s \in Streams |-> << >>]

Answer(p, status) == post' = [post EXCEPT ![p].stage = "answered", ![p].status = status]
Writable(s) == stream[s] = "open"

(* ------------------------------ event streams ---------------------------- *)

Arrive(s) ==
  /\ phase = "listening"
  /\ stream[s] = "idle"
  /\ stream' = [stream EXCEPT ![s] = "arriving"]
  /\ UNCHANGED <<phase, sessions, post, sent>>

HasRoom == Cardinality(sessions) < MaxSessions

\* The limit is checked and the session registered in one turn.
OpenSse(s) ==
  /\ stream[s] = "arriving"
  /\ IF HasRoom
       THEN /\ sessions' = sessions \union {s}
            /\ stream' = [stream EXCEPT ![s] = "open"]
       ELSE /\ stream' = [stream EXCEPT ![s] = "refused"]
            /\ UNCHANGED sessions
  /\ UNCHANGED <<phase, post, sent>>

DisconnectOnly(s) ==   \* mutant: the session stays registered
  /\ stream[s] \in {"open", "ended"}
  /\ stream' = [stream EXCEPT ![s] = "gone"]
  /\ UNCHANGED <<phase, sessions, post, sent>>

\* The connection of a stream closes: its client left, or the server ended it.
Disconnect(s) ==
  /\ stream[s] \in {"open", "ended"}
  /\ stream' = [stream EXCEPT ![s] = "gone"]
  /\ sessions' = sessions \ {s}
  /\ UNCHANGED <<phase, post, sent>>

(* -------------------------------- messages ------------------------------- *)

ArrivePost(p) ==
  /\ phase = "listening"
  /\ post[p].stage = "idle"
  /\ post' = [post EXCEPT ![p].stage = "arriving"]
  /\ UNCHANGED <<phase, stream, sessions, sent>>

\* The handler finds the stream the message is for, or refuses it.
LookUp(p) ==
  /\ post[p].stage = "arriving"
  /\ IF post[p].to \in sessions \union {None}
       THEN post' = [post EXCEPT ![p].stage = "reading"]
       ELSE Answer(p, 404)
  /\ UNCHANGED <<phase, stream, sessions, sent>>

\* The connection of a post breaks; what its handler awaits goes on.
HangUp(p) ==
  /\ post[p].stage \in {"reading", "dispatching"}
  /\ post[p].caller = "waiting"
  /\ post' = [post EXCEPT ![p].caller = "gone"]
  /\ UNCHANGED <<phase, stream, sessions, sent>>

ReadBodyOrHang(p) ==   \* mutant: nobody answers for a body that is not JSON
  /\ post[p].stage = "reading"
  /\ \/ post[p].caller = "gone" /\ Answer(p, 500)
     \/ post[p].body = "oversized" /\ Answer(p, 413)
     \/ /\ post[p].body \in {"request", "notification"}
        /\ post' = [post EXCEPT ![p].stage = "dispatching"]
  /\ UNCHANGED <<phase, stream, sessions, sent>>

\* readRequestBody and the parse; what they throw becomes the status.  A caller
\* that left may have sent its body before.
ReadBody(p) ==
  /\ post[p].stage = "reading"
  /\ \/ post[p].caller = "gone" /\ Answer(p, 500)
     \/ post[p].body = "oversized" /\ Answer(p, 413)
     \/ post[p].body = "malformed" /\ Answer(p, 400)
     \/ /\ post[p].body \in {"request", "notification"}
        /\ post' = [post EXCEPT ![p].stage = "dispatching"]
  /\ UNCHANGED <<phase, stream, sessions, sent>>

DispatchForCaller(p) ==   \* mutant: writes only while the poster is there
  /\ post[p].stage = "dispatching"
  /\ Answer(p, IF post[p].body = "request" /\ post[p].to = None THEN 200 ELSE 202)
  /\ sent' = IF /\ post[p].body = "request" /\ post[p].to # None
                /\ Writable(post[p].to) /\ post[p].caller = "waiting"
               THEN [sent EXCEPT ![post[p].to] = Append(@, p)] ELSE sent
  /\ UNCHANGED <<phase, stream, sessions>>

\* The tool has run: its response goes to the stream found at the start, which
\* may have ended, or to the poster; a notification has none.
Dispatch(p) ==
  /\ post[p].stage = "dispatching"
  /\ Answer(p, IF post[p].body = "request" /\ post[p].to = None THEN 200 ELSE 202)
  /\ sent' = IF post[p].body = "request" /\ post[p].to # None /\ Writable(post[p].to)
               THEN [sent EXCEPT ![post[p].to] = Append(@, p)] ELSE sent
  /\ UNCHANGED <<phase, stream, sessions>>

\* handleRequest throws: the status says so and no stream hears of it.
DispatchFails(p) ==
  /\ post[p].stage = "dispatching"
  /\ Answer(p, 500)
  /\ UNCHANGED <<phase, stream, sessions, sent>>

(* -------------------------------- shutdown ------------------------------- *)

CloseListener ==   \* mutant: the listener stops, the streams stay open
  /\ phase = "listening"
  /\ phase' = "closing"
  /\ UNCHANGED <<stream, sessions, post, sent>>

\* close(): every open stream is ended, then the listener stops.
Close ==
  /\ phase = "listening"
  /\ phase' = "closing"
  /\ stream' = [s \in Streams |-> IF s \in sessions THEN "ended" ELSE stream[s]]
  /\ sessions' = {}
  /\ UNCHANGED <<post, sent>>

Connected(s) == stream[s] \in {"arriving", "open", "ended"}
Waiting(p) == post[p].stage \notin {"idle", "answered"} /\ post[p].caller = "waiting"

\* The listener's callback: no connection is left, the artifact store closes.
Closed ==
  /\ phase = "closing"
  /\ \A s \in Streams : ~Connected(s)
  /\ \A p \in Posts : ~Waiting(p)
  /\ phase' = "closed"
  /\ UNCHANGED <<stream, sessions, post, sent>>

Next ==
  \/ \E s \in Streams : Arrive(s) \/ OpenSse(s) \/ Disconnect(s)
  \/ \E p \in Posts : ArrivePost(p) \/ LookUp(p) \/ HangUp(p) \/ ReadBody(p)
                       \/ Dispatch(p) \/ DispatchFails(p)
  \/ Close \/ Closed

\* The event loop serves what arrived; a body arrives or times out; a tool
\* ends; the connection of a stream the server ended is released.
Fairness ==
  /\ \A s \in Streams : WF_vars(OpenSse(s)) /\ WF_vars(stream[s] = "ended" /\ Disconnect(s))
  /\ \A p \in Posts : WF_vars(LookUp(p)) /\ WF_vars(ReadBody(p))
                      /\ WF_vars(Dispatch(p) \/ DispatchFails(p))
  /\ WF_vars(Closed)

Spec == Init /\ [][Next]_vars /\ Fairness

(* ------------------------------- properties ------------------------------ *)

\* The registry holds exactly the streams that can still be written to, so
\* that a slot is never leaked and the limit counts the right thing.
SessionsAreLive ==
  /\ sessions = {s \in Streams : Writable(s)}
  /\ Cardinality(sessions) <= MaxSessions

\* A request acknowledged with 202 was answered on its stream, unless the
\* stream ended while its body was read or its tool ran (postSseMessage uses a
\* stream it looked up two awaits earlier).
DeliveredOrGone ==
  \A p \in Posts :
    post[p].status = 202 /\ post[p].body = "request" =>
      p \in ToSet(sent[post[p].to]) \/ stream[post[p].to] \in {"ended", "gone"}

\* Every post that reached the server is answered, whatever becomes of the
\* stream it is for and of the server.
PostsSettle == \A p \in Posts : post[p].stage = "arriving" ~> post[p].stage = "answered"

\* Shutdown finishes, unless a stream was still arriving behind the sweep of
\* close(): it is opened all the same, and nothing ends it.
ShutdownCompletes ==
  \/ phase = "closing" ~> phase = "closed"
  \/ <>(phase = "closing" /\ \E s \in Streams : stream[s] = "arriving")
=============================================================================
