-------------------------- MODULE StdioCoordinator --------------------------
(***************************************************************************)
(* The stateful stdio coordinator of the local MCP server                  *)
(* (createStdioMessageProcessor and runStdio in src/mcp/server.ts).        *)
(*                                                                         *)
(* Input lines are numbered by arrival.  A line that is neither garbage    *)
(* nor a recognised cancellation takes a ticket in the admission gate, a   *)
(* promise chain that classifies lines one at a time and holds an          *)
(* initialize until its reply has chosen the era; everything after         *)
(* classification runs concurrently, one task per line.  Every JavaScript  *)
(* turn that another callback can precede is an action of its own.         *)
(*                                                                         *)
(* dispatch is a parameter of the code (the tests inject their own), so    *)
(* its call and its settlement are separate steps and it may reject.       *)
(***************************************************************************)
EXTENDS McpAdmission, Sequences

CONSTANTS
    MaxLines,      \* bound: number of input lines
    Ids,           \* JSON-RPC ids clients use
    InexactIds,    \* unsafe integers: preserveExactJsonRpcIds reads a sentinel
    Inputs,        \* the messages clients send
    StdioVersions  \* STDIO_PROTOCOL_VERSIONS

ASSUME MaxLinesAssumption == MaxLines \in Nat

ASSUME IdsAssumption == InexactIds \subseteq Ids /\ None \notin Ids

ASSUME InputsAssumption == Inputs \subseteq Message

\* Null is none of the responses dispatch returns, and no admission.
ASSUME NoneAssumption == None \notin {"result", "error", "admitted", "refused"}

ASSUME StdioVersionsAssumption ==
    /\ StdioVersions \subseteq KnownVersions
    /\ \E newest \in StdioVersions \cap LegacyVersions :
          \A v \in StdioVersions \cap LegacyVersions : v <= newest

VARIABLES
    era,        \* negotiatedEra
    version,    \* negotiatedProtocolVersion
    received,   \* how many lines accept() has been given
    line,       \* the message and id read from each line
    phase,      \* how far the line's promise chain has run
    admission,  \* the verdict of the line's admission
    aborted,    \* lines whose AbortController has fired
    revoked,    \* history: lines in flight when the client cancelled their id
    inFlight,   \* the map from request key to live controllers
    life,       \* the server: open, draining (gate, tasks), closed
    awaited,    \* the tasks drain()'s current allSettled waits for
    wire        \* the responses written for each line

coordVars == <<era, version, aborted, inFlight>>
drainVars == <<life, awaited>>
vars == <<era, version, received, line, phase, admission, aborted, revoked,
          inFlight, life, awaited, wire>>

Lines == 1..MaxLines

\* The key of an id in inFlight: all inexact ids read as the same sentinel.
Sentinel == [exact |-> FALSE, id |-> None]
KeyOf(id) == IF id \in InexactIds THEN Sentinel ELSE [exact |-> TRUE, id |-> id]
Keys == {KeyOf(id) : id \in Ids}

NoLine == [id |-> None, msg |-> None]
Unread == [verdict |-> None, era |-> None]

Phases == {"unread", "queued", "initializing", "classified", "dispatched",
           "failed", "emitted", "settled"}
Live == {"queued", "initializing", "classified", "dispatched", "failed", "emitted"}

TypeOK ==
    /\ era \in Eras \cup {None}
    /\ version \in Versions \cup {None}
    /\ received \in 0..MaxLines
    /\ line \in [Lines -> [id : Ids \cup {None}, msg : Message \cup {None}]]
    /\ phase \in [Lines -> Phases]
    /\ admission \in [Lines -> [verdict : {None, "admitted", "refused"}, era : Eras \cup {None}]]
    /\ aborted \subseteq Lines
    /\ revoked \subseteq Lines
    /\ inFlight \in [Keys -> SUBSET Lines]
    /\ life \in {"open", "gate", "tasks", "closed"}
    /\ awaited \subseteq Lines
    /\ wire \in [Lines -> Seq({"result", "error", "refusal", "internal", "parse-error"})]

Init ==
    /\ era = None
    /\ version = None
    /\ received = 0
    /\ line = [l \in Lines |-> NoLine]
    /\ phase = [l \in Lines |-> "unread"]
    /\ admission = [l \in Lines |-> Unread]
    /\ aborted = {}
    /\ revoked = {}
    /\ inFlight = [k \in Keys |-> {}]
    /\ life = "open"
    /\ awaited = {}
    /\ wire = [l \in Lines |-> <<>>]

-----------------------------------------------------------------------------
(***************************************************************************)
(* Helpers                                                                 *)
(***************************************************************************)
Tasks == {l \in Lines : phase[l] \in Live}

HasKey(l) == line[l].id # None

(***************************************************************************)
(* Defective variants: each is the like-named definition with one slip.    *)
(***************************************************************************)
\* The gate reopens without waiting for the reply to initialize.
GateIsAtTooSoon(l) ==
    /\ phase[l] = "queued"
    /\ \A earlier \in Lines : earlier < l => phase[earlier] # "queued"

\* The chain lacks its rejection handler: a failed initialize poisons it.
GateIsAtPoisoned(l) ==
    /\ phase[l] = "queued"
    /\ \A earlier \in Lines : earlier < l =>
          /\ phase[earlier] \notin {"queued", "initializing"}
          /\ ~(wire[earlier] = <<"internal">> /\ line[earlier].msg.method = "initialize")

\* A later initialize negotiates again.
IsInitializeAgain(l) == era # "modern" /\ line[l].msg.method = "initialize"

\* A null response is written like any other.
EmitNull(l, kind, nonNull) ==
    wire' = IF l \notin aborted THEN [wire EXCEPT ![l] = Append(@, kind)] ELSE wire

\* The abort signal is not consulted before writing.
EmitRegardless(l, kind, nonNull) ==
    wire' = IF nonNull THEN [wire EXCEPT ![l] = Append(@, kind)] ELSE wire

\* emit(): nothing is written for a null response or an aborted request.
Emit(l, kind, nonNull) ==
    wire' = IF nonNull /\ l \notin aborted
            THEN [wire EXCEPT ![l] = Append(@, kind)]
            ELSE wire

GateIsAt(l) ==
    /\ phase[l] = "queued"
    /\ \A earlier \in Lines : earlier < l => phase[earlier] \notin {"queued", "initializing"}

\* dispatchOptions for the pinned era, in the terms of the admission gate.
DispatchOptions ==
    [served |-> IF era = "legacy" /\ version # None THEN StdioVersions \cap {version}
                ELSE StdioVersions,
     header |-> None,
     negotiated |-> IF era = "legacy" THEN version ELSE None,
     pinned |-> era,
     needsHeader |-> FALSE,
     mirrorsOk |-> TRUE]

IsInitialize(l) == era = None /\ line[l].msg.method = "initialize"

NewestLegacy == CHOOSE v \in StdioVersions \cap LegacyVersions :
                    \A w \in StdioVersions \cap LegacyVersions : w <= v

\* What dispatch selects for an admitted legacy initialize with sound params.
SelectedVersion(m) ==
    IF m.offer \in StdioVersions \cap LegacyVersions THEN m.offer ELSE NewestLegacy

\* The kind of reply to a request admitted in era e; None for a notification.
ReplyKind(m, e) ==
    IF ~m.hasId THEN None
    ELSE IF m.method = "initialize" /\ (e = "modern" \/ m.offer = None) THEN "error"
    ELSE "result"

-----------------------------------------------------------------------------
(***************************************************************************)
(* accept(line): runs to completion, up to registering the task.           *)
(***************************************************************************)
NextLine(l) == life = "open" /\ received < MaxLines /\ l = received + 1

\* JSON.parse throws: answered at once, outside the gate.
AcceptGarbage(l) ==
    /\ NextLine(l)
    /\ received' = l
    /\ phase' = [phase EXCEPT ![l] = "settled"]
    /\ wire' = [wire EXCEPT ![l] = Append(@, "parse-error")]
    /\ UNCHANGED <<coordVars, drainVars, line, admission, revoked>>

TakeTicket(l, m, id) ==
    /\ NextLine(l)
    /\ received' = l
    /\ line' = [line EXCEPT ![l] = [id |-> id, msg |-> m]]
    /\ phase' = [phase EXCEPT ![l] = "queued"]
    /\ UNCHANGED <<era, version, aborted, drainVars, admission, wire>>

AcceptRequest(l, m, id) ==
    /\ m.valid /\ m.hasId
    /\ TakeTicket(l, m, id)
    /\ inFlight' = [inFlight EXCEPT ![KeyOf(id)] = @ \cup {l}]
    /\ UNCHANGED revoked

\* A notification or a malformed envelope registers no controller.
AcceptUnkeyed(l, m) ==
    /\ ~(m.valid /\ m.hasId)
    /\ TakeTicket(l, m, None)
    /\ UNCHANGED <<inFlight, revoked>>

Revoke(id) == revoked' = revoked \cup {l \in Tasks : line[l].id = id}

\* A cancellation naming an exact id aborts every controller under its key.
AcceptCancellation(l, id) ==
    /\ NextLine(l)
    /\ id \notin InexactIds
    /\ received' = l
    /\ phase' = [phase EXCEPT ![l] = "settled"]
    /\ aborted' = aborted \cup inFlight[KeyOf(id)]
    /\ Revoke(id)
    /\ UNCHANGED <<era, version, inFlight, drainVars, line, admission, wire>>

\* params.requestId is not protected by a sentinel: an unsafe integer there is
\* no cancellation target, and the line continues as an ordinary notification.
UnrecognisedCancellation ==
    [valid |-> TRUE, hasId |-> FALSE, method |-> "other", claim |-> None,
     metaOk |-> FALSE, offer |-> None]

AcceptInexactCancellation(l, id) ==
    /\ id \in InexactIds
    /\ TakeTicket(l, UnrecognisedCancellation, None)
    /\ Revoke(id)
    /\ UNCHANGED inFlight

Accept(l) ==
    \/ AcceptGarbage(l)
    \/ \E m \in Inputs, id \in Ids : AcceptRequest(l, m, id)
    \/ \E m \in Inputs : AcceptUnkeyed(l, m)
    \/ \E id \in Ids : AcceptCancellation(l, id) \/ AcceptInexactCancellation(l, id)

-----------------------------------------------------------------------------
(***************************************************************************)
(* The admission gate: one line at a time, in order of arrival.            *)
(***************************************************************************)
Verdict(l) ==
    LET m == line[l].msg
        o == DispatchOptions
    IN  IF Admitted(m, o)
        THEN [verdict |-> "admitted", era |-> EffectiveEra(m, o)]
        ELSE [verdict |-> "refused", era |-> None]

\* An admitted initialize keeps the gate while its dispatch is awaited.
BeginInitialize(l) ==
    /\ GateIsAt(l)
    /\ IsInitialize(l) /\ Verdict(l).verdict = "admitted"
    /\ admission' = [admission EXCEPT ![l] = Verdict(l)]
    /\ phase' = [phase EXCEPT ![l] = IF l \in aborted THEN "emitted" ELSE "initializing"]
    /\ UNCHANGED <<coordVars, drainVars, received, line, revoked, wire>>

\* Any other line is classified in one turn; a first modern one pins the era.
Classify(l) ==
    /\ GateIsAt(l)
    /\ ~(IsInitialize(l) /\ Verdict(l).verdict = "admitted")
    /\ admission' = [admission EXCEPT ![l] = Verdict(l)]
    /\ era' = IF era = None /\ Verdict(l).era = "modern" THEN "modern" ELSE era
    /\ phase' = [phase EXCEPT ![l] = "classified"]
    /\ UNCHANGED <<version, aborted, inFlight, drainVars, received, line, revoked, wire>>

\* Defective: the task forgets that initialize was handled, and dispatches it.
CompleteInitializeUnhandled(l) ==
    /\ phase[l] = "initializing"
    /\ era' = "legacy" /\ version' = SelectedVersion(line[l].msg)
    /\ Emit(l, "result", TRUE)
    /\ phase' = [phase EXCEPT ![l] = "classified"]
    /\ UNCHANGED <<aborted, inFlight, drainVars, received, line, admission, revoked>>

\* The reply to initialize pins the legacy era unless the line was cancelled.
CompleteInitialize(l) ==
    LET m == line[l].msg
        reply == ReplyKind(m, admission[l].era)
        selects == reply = "result" /\ l \notin aborted
    IN  /\ phase[l] = "initializing"
        /\ era' = IF selects THEN "legacy" ELSE era
        /\ version' = IF selects THEN SelectedVersion(m) ELSE version
        /\ Emit(l, reply, reply # None)
        /\ phase' = [phase EXCEPT ![l] = "emitted"]
        /\ UNCHANGED <<aborted, inFlight, drainVars, received, line, admission, revoked>>

-----------------------------------------------------------------------------
(***************************************************************************)
(* Each line's task, after the gate.                                       *)
(***************************************************************************)
Advance(l, from, to) ==
    /\ phase[l] = from
    /\ phase' = [phase EXCEPT ![l] = to]
    /\ UNCHANGED <<era, version, aborted, drainVars, received, line, admission, revoked>>

Refuse(l) ==
    /\ admission[l].verdict = "refused"
    /\ Advance(l, "classified", "emitted")
    /\ Emit(l, "refusal", RefusalIsAnswered(line[l].msg))
    /\ UNCHANGED inFlight

\* Cancelled before its turn: dispatch never starts.
SkipCancelled(l) ==
    /\ admission[l].verdict = "admitted" /\ l \in aborted
    /\ Advance(l, "classified", "emitted")
    /\ UNCHANGED <<inFlight, wire>>

Dispatch(l) ==
    /\ admission[l].verdict = "admitted" /\ l \notin aborted
    /\ Advance(l, "classified", "dispatched")
    /\ UNCHANGED <<inFlight, wire>>

Reply(l) ==
    LET reply == ReplyKind(line[l].msg, admission[l].era)
    IN  /\ Advance(l, "dispatched", "emitted")
        /\ Emit(l, reply, reply # None)
        /\ UNCHANGED inFlight

\* dispatch rejects, inside the gate or after it.
DispatchFails(l) ==
    /\ \/ Advance(l, "initializing", "failed")
       \/ Advance(l, "dispatched", "failed")
    /\ UNCHANGED <<inFlight, wire>>

\* Defective: the rejection is swallowed.
RescueSilently(l) == Advance(l, "failed", "emitted") /\ UNCHANGED <<inFlight, wire>>

\* The catch clause answers even a notification, with a null id.
Rescue(l) ==
    /\ Advance(l, "failed", "emitted")
    /\ Emit(l, "internal", TRUE)
    /\ UNCHANGED inFlight

\* Defective: the key is deleted although another request still uses it.
SettleDroppingKey(l) ==
    /\ Advance(l, "emitted", "settled")
    /\ inFlight' = IF HasKey(l) THEN [inFlight EXCEPT ![KeyOf(line[l].id)] = {}] ELSE inFlight
    /\ UNCHANGED wire

\* Defective: tasks.delete is forgotten.
SettleKeepingTask(l) == Advance(l, "emitted", "emitted") /\ UNCHANGED <<inFlight, wire>>

\* The finally clause.
Settle(l) ==
    /\ Advance(l, "emitted", "settled")
    /\ inFlight' = IF HasKey(l)
                   THEN [inFlight EXCEPT ![KeyOf(line[l].id)] = @ \ {l}]
                   ELSE inFlight
    /\ UNCHANGED wire

-----------------------------------------------------------------------------
(***************************************************************************)
(* runStdio: end of input, drain(), then the artifact store is closed.     *)
(***************************************************************************)
EndOfInput ==
    /\ life = "open"
    /\ life' = "gate"
    /\ UNCHANGED <<coordVars, received, line, phase, admission, revoked, wire, awaited>>

\* await admissionGate, then while (tasks.size > 0) await allSettled(tasks).
GateDrained == \A l \in Lines : phase[l] \notin {"queued", "initializing"}

WaitForTasks ==
    /\ \/ life = "gate" /\ GateDrained
       \/ life = "tasks" /\ awaited \cap Tasks = {}
    /\ life' = IF Tasks = {} THEN "closed" ELSE "tasks"
    /\ awaited' = Tasks
    /\ UNCHANGED <<coordVars, received, line, phase, admission, revoked, wire>>

-----------------------------------------------------------------------------
Turn(l) ==
    \/ BeginInitialize(l) \/ Classify(l) \/ CompleteInitialize(l)
    \/ Refuse(l) \/ SkipCancelled(l) \/ Dispatch(l) \/ Reply(l)
    \/ DispatchFails(l) \/ Rescue(l) \/ Settle(l)

Closed == life = "closed" /\ UNCHANGED vars

Next ==
    \/ \E l \in Lines : Accept(l) \/ Turn(l)
    \/ EndOfInput
    \/ WaitForTasks
    \/ Closed

Spec == Init /\ [][Next]_vars

\* Every promise settles: dispatch has its own time limits (the sandbox), and
\* the event loop runs every ready callback.  Clients owe nothing.
Fairness ==
    /\ \A l \in Lines : WF_vars(Turn(l))
    /\ WF_vars(WaitForTasks)

FairSpec == Spec /\ Fairness

-----------------------------------------------------------------------------
(***************************************************************************)
(* What makes the coordinator correct                                      *)
(***************************************************************************)
\* No line is answered twice, whichever of its three writers (the gate, the
\* task, the catch clause) runs.
AnsweredAtMostOnce == \A l \in Lines : Len(wire[l]) <= 1

\* A keyed request that was never cancelled has its answer once its promise
\* chain has settled, on every path through the gate, the task and the catch.
EveryKeyedRequestIsAnswered ==
    \A l \in Lines :
        phase[l] = "settled" /\ HasKey(l) /\ l \notin aborted => Len(wire[l]) = 1

\* The cancellation map holds exactly the requests still running, also when
\* several of them reuse one id: nothing leaks and nothing is lost.
InFlightIsExact ==
    \A k \in Keys : inFlight[k] = {l \in Tasks : HasKey(l) /\ KeyOf(line[l].id) = k}

\* Once the client has cancelled a request, nothing is written for it.  The
\* coordinator keeps this for ids it can compare exactly.
NoAnswerAfterCancel ==
    [][\A l \in revoked : line[l].id \notin InexactIds => wire'[l] = wire[l]]_vars

\* Requests are served in one era from the line that pinned it on: nothing
\* that follows a successful initialize is served as modern, and nothing that
\* follows a modern request other than initialize is served as legacy.
LaterLinesKeepTheEra ==
    \A i, j \in Lines : i < j /\ admission[j].verdict = "admitted" =>
        /\ wire[i] = <<"result">> /\ line[i].msg.method = "initialize"
              => admission[j].era = "legacy"
        /\ admission[i].era = "modern" /\ line[i].msg.method # "initialize"
              => admission[j].era = "modern"

\* Every line that enters the gate runs to the end of its chain, also behind a
\* failed or cancelled initialize.
EveryLineSettles == \A l \in Lines : phase[l] = "queued" ~> phase[l] = "settled"

\* After the end of input the server drains and closes its store.
DrainTerminates == life = "gate" ~> life = "closed"
=============================================================================
