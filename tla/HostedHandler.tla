--------------------------- MODULE HostedHandler ---------------------------
(***************************************************************************)
(* The hosted MCP endpoint (website/src/mcp-handler.ts): HTTP requests are *)
(* handled concurrently, each with one JSON-RPC message or a batch of      *)
(* them; successful results of deterministic tools are reused through a    *)
(* shared cache that is written after the response, may fail, may evict    *)
(* and outlives a deploy.                                                  *)
(*                                                                         *)
(* A body is [header, batch, items]; an item is [msg, work], its message   *)
(* for the admission gate and what it asks for: a call of a pure tool (a   *)
(* member of Calls), "execute", a tool call with bad "arguments", another  *)
(* "method", or an "unknown" one.                                          *)
(***************************************************************************)
EXTENDS McpAdmission, Sequences

CONSTANTS
    Requests,    \* HTTP requests
    Bodies,      \* bodies they may carry
    HostedVersions,  \* SUPPORTED_PROTOCOL_VERSIONS
    Calls,       \* distinct cacheable tool calls
    ErrCalls,    \* those whose result is a tool error
    Deploys,     \* deployed versions, first to last
    MaxBatchItems, MaxExecuteItems,
    BatchingEnds,  \* the revision that removed batching
    Unreadable,  \* a cache entry whose body is not JSON
    CacheMayRot  \* whether the cache can hold such an entry

ASSUME CallsAreTools ==
    /\ ErrCalls \subseteq Calls
    /\ HostedVersions \subseteq KnownVersions
    /\ Calls \cap {"execute", "arguments", "method", "unknown", None} = {}
ASSUME LimitsAreNaturals ==
    /\ {MaxBatchItems, MaxExecuteItems, BatchingEnds} \subseteq Nat
    /\ Deploys \subseteq Nat /\ CacheMayRot \in BOOLEAN
    /\ MaxExecuteItems >= 1   \* a lone execute call is never held to the limit
\* JSON.parse made an array of the items of a batch, or one message.
ASSUME BodiesAreParsed ==
    /\ None \notin Bodies
    /\ \A b \in Bodies :
          /\ b.items \in Seq([msg : Message,
                              work : Calls \cup {"execute", "arguments", "method", "unknown"}])
          /\ ~b.batch => Len(b.items) = 1

VARIABLES
    body,    \* the body of each request, None before it arrives
    deploy,  \* the deploy that handles it
    status,  \* the HTTP status, 0 before the response
    header,  \* the compute-cache header of the response
    step,    \* where each item of a request is
    hit,     \* cache_hit in each item's event
    reused,  \* whether its answer really came from the cache
    answer,  \* the tool result each item answers with, or has read so far
    ran,     \* items whose tool was run, per request
    cache,   \* entries [key, content], one per key
    writes,  \* cache writes not done yet
    current  \* the deploy new requests reach

vars == <<body, deploy, status, header, step, hit, reused, answer, ran, cache,
          writes, current>>

Steps == {"lookup", "read", "dispatch", "done"}
Result(c, d, e) == [call |-> c, deploy |-> d, era |-> e]
Neutral(c, d) == Result(c, d, None)

Items(r) == 1..Len(body[r].items)
Item(r, i) == body[r].items[i]
Fill(r, v) == [i \in Items(r) |-> v]
IsToolCall(item) == item.work \notin {"method", "unknown"}
RunsATool(item) == IsToolCall(item) /\ item.work # "arguments"
IsExecute(item) == item.work = "execute"

Init ==
    /\ body = [r \in Requests |-> None]
    /\ deploy = [r \in Requests |-> 0]
    /\ status = [r \in Requests |-> 0]
    /\ header = [r \in Requests |-> None]
    /\ step = [r \in Requests |-> <<>>]
    /\ hit = step /\ reused = step /\ answer = step
    /\ ran = [r \in Requests |-> {}]
    /\ cache = {} /\ writes = {}
    /\ current = CHOOSE d \in Deploys : \A e \in Deploys : d <= e

-----------------------------------------------------------------------------
(* Defective variants of the definitions below, the mutants. *)
ExecuteRequests(b) == Cardinality({i \in 1..Len(b.items) :
                        IsExecute(b.items[i]) /\ b.items[i].msg.hasId})
KeyWithoutDeploy(r, i, era, version) == <<0, era, version, Item(r, i).work>>
-----------------------------------------------------------------------------
(***************************************************************************)
(* What admission is told: a single message needs the header mirrors.      *)
(***************************************************************************)
OptionsFor(b) ==
    [served |-> HostedVersions, header |-> b.header, negotiated |-> None, pinned |-> None,
     needsHeader |-> ~b.batch, mirrorsOk |-> b.batch \/ b.mirrorsOk]

Refused(b, i) == ~Admitted(b.items[i].msg, OptionsFor(b))
ClaimsModern(b, i) ==
    LET m == b.items[i].msg
    IN  IF Admitted(m, OptionsFor(b)) THEN EffectiveEra(m, OptionsFor(b)) = "modern"
        ELSE m.valid /\ RequestedEra(m) = "modern"
HasModernItem(b) == \E i \in 1..Len(b.items) : ClaimsModern(b, i)
ExecuteItems(b) == Cardinality({i \in 1..Len(b.items) : IsExecute(b.items[i])})

(* The checks a batch must pass before any of its items runs. *)
BatchRefused(b) ==
    \/ b.header # None /\ b.header \notin HostedVersions
    \/ b.header # None /\ b.header >= BatchingEnds
    \/ Len(b.items) = 0
    \/ HasModernItem(b)
    \/ Len(b.items) > MaxBatchItems
    \/ ExecuteItems(b) > MaxExecuteItems

(* The status of a refused single message. *)
RefusalStatus(b) ==
    IF RefusalIsAnswered(b.items[1].msg)
       /\ Refusal(b.items[1].msg, OptionsFor(b)) = "invalid-request" THEN 200 ELSE 400

(***************************************************************************)
(* An admitted item goes through the cache if it is a request for a tool   *)
(* whose call has a key; a refused one is already answered.                *)
(***************************************************************************)
Eligible(item) == item.work \in Calls /\ item.msg.hasId
FirstStep(b, i) == IF Refused(b, i) THEN "done"
                   ELSE IF Eligible(b.items[i]) THEN "lookup" ELSE "dispatch"

Respond(r, s, h) ==
    /\ status' = [status EXCEPT ![r] = s]
    /\ header' = [header EXCEPT ![r] = h]

Receive(r, b) ==
    /\ body[r] = None
    /\ body' = [body EXCEPT ![r] = b]
    /\ deploy' = [deploy EXCEPT ![r] = current]
    /\ LET n == Len(b.items)
           each(v) == [i \in 1..n |-> v]
           refused == IF b.batch THEN BatchRefused(b) ELSE Refused(b, 1)
       IN  /\ step' = [step EXCEPT ![r] = [i \in 1..n |->
                  IF refused THEN "done" ELSE FirstStep(b, i)]]
           /\ hit' = [hit EXCEPT ![r] = each(FALSE)]
           /\ reused' = [reused EXCEPT ![r] = each(FALSE)]
           /\ answer' = [answer EXCEPT ![r] = each(None)]
           /\ IF refused THEN Respond(r, IF b.batch THEN 400 ELSE RefusalStatus(b), "bypass")
                         ELSE UNCHANGED <<status, header>>
    /\ UNCHANGED <<ran, cache, writes, current>>

Era(r, i) == EffectiveEra(Item(r, i).msg, OptionsFor(body[r]))
Version(r, i) == ContextVersion(Item(r, i).msg, OptionsFor(body[r]))
KeyOf(r, i, era, version) == <<deploy[r], era, version, Item(r, i).work>>
Key(r, i) == KeyOf(r, i, Era(r, i), Version(r, i))

Set(f, r, i, v) == [f EXCEPT ![r][i] = v]

(* A missing entry and a failing match both lead to the dispatch. *)
LookupMisses(r, i) ==
    /\ step[r][i] = "lookup"
    /\ step' = Set(step, r, i, "dispatch")
    /\ UNCHANGED <<body, deploy, status, header, hit, reused, answer, ran, cache, writes, current>>

LookupHits(r, i) ==
    /\ step[r][i] = "lookup"
    /\ \E e \in cache : e.key = Key(r, i) /\ answer' = Set(answer, r, i, e.content)
    /\ hit' = Set(hit, r, i, TRUE)
    /\ step' = Set(step, r, i, "read")
    /\ UNCHANGED <<body, deploy, status, header, reused, ran, cache, writes, current>>

(***************************************************************************)
(* The body of the hit: decorated for this request's era, or not JSON, in  *)
(* which case the call is dispatched after all.                            *)
(***************************************************************************)
ReadHit(r, i) ==
    /\ step[r][i] = "read"
    /\ answer[r][i] # Unreadable
    /\ answer' = Set(answer, r, i, [answer[r][i] EXCEPT !.era = Era(r, i)])
    /\ reused' = Set(reused, r, i, TRUE)
    /\ step' = Set(step, r, i, "done")
    /\ UNCHANGED <<body, deploy, status, header, hit, ran, cache, writes, current>>

ReadFails(r, i) ==
    /\ step[r][i] = "read"
    /\ answer[r][i] = Unreadable
    /\ answer' = Set(answer, r, i, None)
    /\ step' = Set(step, r, i, "dispatch")
    /\ UNCHANGED <<body, deploy, status, header, hit, reused, ran, cache, writes, current>>

(***************************************************************************)
(* The dispatch runs the tool.  A success of an eligible call is handed to *)
(* the cache without waiting for the write.                                *)
(***************************************************************************)
Cacheable(c) == c \notin ErrCalls

Dispatch(r, i) ==
    LET item == Item(r, i)
    IN  /\ step[r][i] = "dispatch"
        /\ step' = Set(step, r, i, "done")
        /\ answer' = Set(answer, r, i, IF RunsATool(item) /\ item.msg.hasId
                       THEN Result(item.work, deploy[r], Era(r, i)) ELSE None)
        /\ ran' = IF RunsATool(item) THEN [ran EXCEPT ![r] = @ \cup {i}] ELSE ran
        /\ writes' = IF Eligible(item) /\ Cacheable(item.work)
              THEN writes \cup {[key |-> Key(r, i), content |-> Neutral(item.work, deploy[r])]}
              ELSE writes
        /\ UNCHANGED <<body, deploy, status, header, hit, reused, cache, current>>

(***************************************************************************)
(* The response, once every item is done, and its compute-cache header.    *)
(***************************************************************************)
ToolItems(r) == {i \in Items(r) : IsToolCall(Item(r, i)) /\ ~Refused(body[r], i)}
EligibleItems(r) == {i \in ToolItems(r) : Eligible(Item(r, i))}
CacheStatus(r) ==
    IF EligibleItems(r) = {} THEN "bypass"
    ELSE IF ToolItems(r) = EligibleItems(r) /\ \A i \in EligibleItems(r) : hit[r][i] THEN "hit"
    ELSE IF \E i \in EligibleItems(r) : hit[r][i] THEN "mixed" ELSE "miss"

Answered(r) == {i \in Items(r) : IF Refused(body[r], i) THEN RefusalIsAnswered(Item(r, i).msg)
                                 ELSE Item(r, i).msg.hasId}

(* A modern client learns from the status that the method is missing. *)
FinalStatus(r) ==
    IF Answered(r) = {} THEN 202
    ELSE IF body[r].batch \/ Era(r, 1) = "legacy" THEN 200
    ELSE IF Item(r, 1).work = "unknown" THEN 404
    ELSE IF Item(r, 1).work = "arguments" THEN 400 ELSE 200

Finish(r) ==
    /\ body[r] # None /\ status[r] = 0
    /\ \A i \in Items(r) : step[r][i] = "done"
    /\ Respond(r, FinalStatus(r), CacheStatus(r))
    /\ UNCHANGED <<body, deploy, step, hit, reused, answer, ran, cache, writes, current>>

-----------------------------------------------------------------------------
(* The cache of the platform, and a new deploy. *)
Store(w, content) ==
    cache' = {e \in cache : e.key # w.key} \cup {[key |-> w.key, content |-> content]}

WriteLands(w) ==
    /\ writes' = writes \ {w}
    /\ \/ Store(w, w.content)
       \/ CacheMayRot /\ Store(w, Unreadable)
    /\ UNCHANGED <<body, deploy, status, header, step, hit, reused, answer, ran, current>>

WriteFails(w) ==
    /\ writes' = writes \ {w}
    /\ UNCHANGED <<body, deploy, status, header, step, hit, reused, answer, ran, cache, current>>

Evict(e) ==
    /\ cache' = cache \ {e}
    /\ UNCHANGED <<body, deploy, status, header, step, hit, reused, answer, ran, writes, current>>

Release ==
    /\ current + 1 \in Deploys
    /\ current' = current + 1
    /\ UNCHANGED <<body, deploy, status, header, step, hit, reused, answer, ran, cache, writes>>

Handle(r) ==
    \/ \E b \in Bodies : Receive(r, b)
    \/ /\ body[r] # None
       /\ \E i \in Items(r) : \/ LookupMisses(r, i) \/ LookupHits(r, i)
                              \/ ReadHit(r, i) \/ ReadFails(r, i) \/ Dispatch(r, i)
    \/ Finish(r)

Platform ==
    \/ \E w \in writes : WriteLands(w) \/ WriteFails(w)
    \/ \E e \in cache : Evict(e)
    \/ Release

Next == Platform \/ \E r \in Requests : Handle(r)

Spec == Init /\ [][Next]_vars
-----------------------------------------------------------------------------
(***************************************************************************)
(* The cache is transparent: whatever it held, lost or refused, an answer  *)
(* is the one its own deploy computes for its own call, in the envelope of *)
(* its own era.                                                            *)
(***************************************************************************)
CacheIsTransparent ==
    \A r \in Requests : status[r] # 0 =>
        \A i \in Items(r) : answer[r][i] # None =>
            answer[r][i] = Result(Item(r, i).work, deploy[r], Era(r, i))

(***************************************************************************)
(* One HTTP request never runs more than MaxExecuteItems execute calls,    *)
(* counting those sent as notifications; a refused batch runs nothing, and *)
(* no message of a batch is served in the modern era, which has no batch.  *)
(***************************************************************************)
RunsAreBounded ==
    \A r \in Requests :
        /\ Cardinality({i \in ran[r] : IsExecute(Item(r, i))}) <= MaxExecuteItems
        /\ status[r] = 400 /\ body[r].batch => ran[r] = {}
        /\ status[r] = 200 /\ body[r].batch => \A i \in Items(r) : ~ClaimsModern(body[r], i)
=============================================================================
