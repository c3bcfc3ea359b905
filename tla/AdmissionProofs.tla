--------------------------- MODULE AdmissionProofs ---------------------------
(***************************************************************************)
(* Proofs about the two modules over the admission gate: the hosted        *)
(* endpoint with its compute cache, for any number of requests, bodies,    *)
(* tool calls and deploys, and the retry protocol of the version errors,   *)
(* for any sets of legacy, modern and unknown revisions and whatever a     *)
(* transport serves.                                                       *)
(***************************************************************************)
EXTENDS HostedHandler, RetryingClient, FiniteSetTheorems, TLAPS

Shape ==
    /\ body \in [Requests -> Bodies \cup {None}]
    /\ status \in [Requests -> Nat]
    /\ DOMAIN deploy = Requests /\ DOMAIN step = Requests
    /\ DOMAIN answer = Requests /\ DOMAIN ran = Requests

(***************************************************************************)
(* What the cache holds, and what is on its way there: under a key, the    *)
(* neutral result of the call and the deploy the key names.  A key that    *)
(* left one of them out would make this false, and with it the transparency *)
(* of every later hit.                                                     *)
(***************************************************************************)
HoldsOwn(entry) == entry.content = Neutral(entry.key[4], entry.key[1])

CacheInv ==
    /\ \A e \in cache : e.content = Unreadable \/ HoldsOwn(e)
    /\ \A w \in writes : HoldsOwn(w)

\* What an item has read so far agrees with how far it has come.
ItemInv(r, i) ==
    /\ step[r][i] = "read"
          => answer[r][i] \in {Unreadable, Neutral(Item(r, i).work, deploy[r])}
    /\ step[r][i] = "done"
          => answer[r][i] \in {None, Result(Item(r, i).work, deploy[r], Era(r, i))}

AllDone(r) == \A i \in Items(r) : step[r][i] = "done"

\* A refused batch is answered as it arrives and never has an item to run.
BatchInv(r) ==
    IF BatchRefused(body[r]) THEN status[r] = 400 /\ ran[r] = {} /\ AllDone(r)
                             ELSE status[r] # 400

RequestInv(r) ==
    IF body[r] = None THEN status[r] = 0 /\ ran[r] = {}
    ELSE /\ DOMAIN step[r] = Items(r) /\ DOMAIN answer[r] = Items(r)
         /\ ran[r] \subseteq Items(r)
         /\ \A i \in Items(r) : ItemInv(r, i)
         /\ status[r] # 0 => AllDone(r)
         /\ body[r].batch => BatchInv(r)

HostedInv == Shape /\ CacheInv /\ \A r \in Requests : RequestInv(r)

\* A request that a step does not touch keeps its part of the invariant.
LEMMA RequestFrame ==
    ASSUME NEW r \in Requests, RequestInv(r),
           body'[r] = body[r], deploy'[r] = deploy[r], status'[r] = status[r],
           step'[r] = step[r], answer'[r] = answer[r], ran'[r] = ran[r]
    PROVE  RequestInv(r)'
BY DEF RequestInv, ItemInv, AllDone, BatchInv, Items, Item, Era

\* The record a request arrives as: its items are unanswered, and refused ones over.
LEMMA ReceiveKeeps ==
    ASSUME HostedInv, NEW r \in Requests, NEW b \in Bodies, Receive(r, b)
    PROVE  HostedInv'
<1> USE DEF HostedInv
<1>1. /\ body[r] = None /\ status[r] = 0 /\ ran[r] = {}
      /\ body' = [body EXCEPT ![r] = b] /\ ran' = ran /\ cache' = cache /\ writes' = writes
      /\ deploy' = [deploy EXCEPT ![r] = current]
  BY DEF Receive, RequestInv
<1> DEFINE refused == IF b.batch THEN BatchRefused(b) ELSE Refused(b, 1)
<1>2. /\ step' = [step EXCEPT ![r] = [i \in 1..Len(b.items) |->
                     IF refused THEN "done" ELSE FirstStep(b, i)]]
      /\ answer' = [answer EXCEPT ![r] = [i \in 1..Len(b.items) |-> None]]
      /\ IF refused THEN status' = [status EXCEPT ![r] = IF b.batch THEN 400 ELSE RefusalStatus(b)]
                    ELSE status' = status
  BY DEF Receive, Respond
<1> HIDE DEF refused
<1>3. RefusalStatus(b) \in {200, 400}
  BY DEF RefusalStatus
<1>4. /\ body'[r] = b /\ b # None /\ Items(r)' = 1..Len(b.items)
      /\ step'[r] = [i \in 1..Len(b.items) |-> IF refused THEN "done" ELSE FirstStep(b, i)]
      /\ answer'[r] = [i \in 1..Len(b.items) |-> None]
      /\ ran'[r] = {}
      /\ status'[r] = IF refused THEN (IF b.batch THEN 400 ELSE RefusalStatus(b)) ELSE 0
  BY <1>1, <1>2, BodiesAreParsed DEF Shape, Items
<1>5. Shape'
  <2>1. status' \in [Requests -> Nat]
    <3>1. CASE ~refused
      BY <1>2, <3>1 DEF Shape
    <3>2. CASE refused
      <4>1. \E code \in {200, 400} : status' = [status EXCEPT ![r] = code]
        BY <1>2, <1>3, <3>2
      <4>2. {200, 400} \subseteq Nat
        OBVIOUS
      <4> QED
        BY <4>1, <4>2 DEF Shape
    <3> QED
      BY <3>1, <3>2
  <2>2. QED
    BY <1>1, <1>2, <2>1 DEF Shape
<1>6. CacheInv'
  BY <1>1 DEF CacheInv, HoldsOwn
<1>7. RequestInv(r)'
  <2>1. \A i \in 1..Len(b.items) : step'[r][i] # "read"
    BY <1>4 DEF FirstStep
  <2>2. \A i \in Items(r)' : ItemInv(r, i)'
    BY <1>4, <2>1 DEF ItemInv
  <2>3. refused => AllDone(r)'
    BY <1>4 DEF AllDone
  <2>4. b.batch => BatchInv(r)'
    <3>1. b.batch => (refused <=> BatchRefused(b))
      BY DEF refused
    <3>2. QED
      BY <1>4, <2>3, <3>1 DEF BatchInv
  <2>5. QED
    BY <1>4, <2>2, <2>3, <2>4 DEF RequestInv
<1>8. \A q \in Requests \ {r} : RequestInv(q)'
  BY <1>1, <1>2, RequestFrame DEF Shape
<1>9. QED
  BY <1>5, <1>6, <1>7, <1>8

\* A step of one item: it, and no other item, moves on, and only a dispatch runs.
LEMMA ItemKeeps ==
    ASSUME HostedInv, NEW r \in Requests, body[r] # None, NEW i \in Items(r),
           NEW to, NEW value, step[r][i] # "done",
           step' = Set(step, r, i, to),
           \/ answer' = Set(answer, r, i, value)
           \/ answer' = answer /\ answer[r][i] = value,
           ran' \in {ran, [ran EXCEPT ![r] = @ \cup {i}]},
           to = "read" => value \in {Unreadable, Neutral(Item(r, i).work, deploy[r])},
           to = "done" => value \in {None, Result(Item(r, i).work, deploy[r], Era(r, i))},
           UNCHANGED <<body, deploy, status>>
    PROVE  Shape' /\ \A q \in Requests : RequestInv(q)'
<1> USE DEF HostedInv
<1>1. /\ \A q \in Requests \ {r} : /\ step'[q] = step[q] /\ answer'[q] = answer[q]
                                   /\ ran'[q] = ran[q]
      /\ step'[r] = [step[r] EXCEPT ![i] = to]
      /\ answer'[r] = [answer[r] EXCEPT ![i] = value] \/ answer'[r] = answer[r]
      /\ ran'[r] \in {ran[r], ran[r] \cup {i}}
  BY DEF Shape, Set
<1>2. Shape'
  BY DEF Shape, Set
<1>3. RequestInv(r)'
  <2>1. Items(r)' = Items(r) /\ DOMAIN step[r] = Items(r) /\ DOMAIN answer[r] = Items(r)
    BY DEF RequestInv, Items
  <2>2. \A j \in Items(r) : ItemInv(r, j)'
    <3> SUFFICES ASSUME NEW j \in Items(r) PROVE ItemInv(r, j)'
      OBVIOUS
    <3>1. CASE j = i
      <4>1. step'[r][j] = to
        BY <1>1, <2>1, <3>1
      <4>2. answer'[r][j] = value
        <5>1. CASE answer' = Set(answer, r, i, value)
          BY <2>1, <3>1, <5>1 DEF Set, Shape
        <5>2. CASE answer' = answer /\ answer[r][i] = value
          BY <3>1, <5>2
        <5>3. QED
          BY <5>1, <5>2
      <4>3. QED
        BY <3>1, <4>1, <4>2 DEF ItemInv, Item, Era
    <3>2. CASE j # i
      <4>1. step'[r][j] = step[r][j] /\ answer'[r][j] = answer[r][j]
        BY <1>1, <2>1, <3>2
      <4>2. ItemInv(r, j)
        BY DEF RequestInv
      <4>3. QED
        BY <4>1, <4>2 DEF ItemInv, Item, Era
    <3>3. QED
      BY <3>1, <3>2
  <2>3. ~AllDone(r) /\ status[r] = 0
    BY DEF AllDone, RequestInv
  <2>4. body[r].batch => ~BatchRefused(body[r])
    BY <2>3 DEF RequestInv, BatchInv
  <2>5. QED
    BY <1>1, <2>1, <2>2, <2>3, <2>4 DEF RequestInv, BatchInv
<1>4. \A q \in Requests \ {r} : RequestInv(q)'
  BY <1>1, RequestFrame
<1>5. QED
  BY <1>2, <1>3, <1>4

\* Reading and running an item keeps the cache honest and the answer its own.
LEMMA WorkKeeps ==
    ASSUME HostedInv, NEW r \in Requests, body[r] # None, NEW i \in Items(r),
           \/ LookupMisses(r, i) \/ LookupHits(r, i) \/ ReadHit(r, i)
           \/ ReadFails(r, i) \/ Dispatch(r, i)
    PROVE  HostedInv'
<1> USE DEF HostedInv
<1>0. i \in DOMAIN answer[r] /\ i \in DOMAIN step[r] /\ ItemInv(r, i)
  BY DEF RequestInv
<1>1. CASE LookupMisses(r, i)
  <2>1. Shape' /\ \A q \in Requests : RequestInv(q)'
    BY <1>1, ItemKeeps DEF LookupMisses
  <2>2. QED
    BY <1>1, <2>1 DEF LookupMisses, CacheInv, HoldsOwn
<1>2. CASE LookupHits(r, i)
  <2>1. PICK e \in cache : e.key = Key(r, i) /\ answer' = Set(answer, r, i, e.content)
    BY <1>2 DEF LookupHits
  <2>2. e.content \in {Unreadable, Neutral(Item(r, i).work, deploy[r])}
    BY <2>1 DEF CacheInv, HoldsOwn, Key, KeyOf
  <2>3. Shape' /\ \A q \in Requests : RequestInv(q)'
    BY <1>2, <2>1, <2>2, ItemKeeps DEF LookupHits
  <2>4. QED
    BY <1>2, <2>3 DEF LookupHits, CacheInv, HoldsOwn
<1>3. CASE ReadHit(r, i)
  <2>1. [answer[r][i] EXCEPT !.era = Era(r, i)] = Result(Item(r, i).work, deploy[r], Era(r, i))
    BY <1>0, <1>3 DEF ReadHit, ItemInv, Neutral, Result
  <2>2. Shape' /\ \A q \in Requests : RequestInv(q)'
    BY <1>3, <2>1, ItemKeeps DEF ReadHit
  <2>3. QED
    BY <1>3, <2>2 DEF ReadHit, CacheInv, HoldsOwn
<1>4. CASE ReadFails(r, i)
  <2>1. Shape' /\ \A q \in Requests : RequestInv(q)'
    BY <1>4, ItemKeeps DEF ReadFails
  <2>2. QED
    BY <1>4, <2>1 DEF ReadFails, CacheInv, HoldsOwn
<1>5. CASE Dispatch(r, i)
  <2>1. PICK value \in {None, Result(Item(r, i).work, deploy[r], Era(r, i))} :
           answer' = Set(answer, r, i, value)
    BY <1>5 DEF Dispatch
  <2>2. Shape' /\ \A q \in Requests : RequestInv(q)'
    BY <1>5, <2>1, ItemKeeps DEF Dispatch
  <2>3. \A w \in writes' : HoldsOwn(w)
    BY <1>5 DEF Dispatch, CacheInv, HoldsOwn, Key, KeyOf
  <2>4. QED
    BY <1>5, <2>2, <2>3 DEF Dispatch, CacheInv, HoldsOwn
<1>6. QED
  BY <1>1, <1>2, <1>3, <1>4, <1>5

\* The response is sent when nothing of the request is left to do; that of a
\* batch that was let in is never the refusal's.
LEMMA FinishKeeps ==
    ASSUME HostedInv, NEW r \in Requests, Finish(r)
    PROVE  HostedInv'
<1> USE DEF HostedInv
<1>1. /\ body[r] # None /\ status[r] = 0 /\ AllDone(r)
      /\ status' = [status EXCEPT ![r] = FinalStatus(r)]
      /\ UNCHANGED <<body, deploy, step, answer, ran, cache, writes>>
  BY DEF Finish, Respond, AllDone
<1>2. FinalStatus(r) \in {200, 202, 400, 404} /\ (body[r].batch => FinalStatus(r) # 400)
  BY DEF FinalStatus
<1>3. Shape' /\ CacheInv'
  BY <1>1, <1>2 DEF Shape, CacheInv, HoldsOwn
<1>4. RequestInv(r)'
  <2>1. status'[r] = FinalStatus(r)
    BY <1>1 DEF Shape
  <2>2. body[r].batch => ~BatchRefused(body[r])
    BY <1>1 DEF RequestInv, BatchInv
  <2>3. \A i \in Items(r) : ItemInv(r, i)'
    BY <1>1 DEF RequestInv, ItemInv, Item, Era
  <2>4. AllDone(r)' /\ Items(r)' = Items(r)
    BY <1>1 DEF AllDone, Items
  <2>5. QED
    BY <1>1, <1>2, <2>1, <2>2, <2>3, <2>4 DEF RequestInv, BatchInv
<1>5. \A q \in Requests \ {r} : RequestInv(q)'
  BY <1>1, RequestFrame DEF Shape
<1>6. QED
  BY <1>3, <1>4, <1>5

\* The platform may keep, spoil or drop what it was given, and nothing else.
LEMMA PlatformKeeps ==
    ASSUME HostedInv, Platform
    PROVE  HostedInv'
<1> USE DEF HostedInv
<1>1. UNCHANGED <<body, deploy, status, step, answer, ran>>
  BY DEF Platform, WriteLands, WriteFails, Evict, Release
<1>2. Shape' /\ \A r \in Requests : RequestInv(r)'
  BY <1>1, RequestFrame DEF Shape
<1>3. CacheInv'
  <2>1. ASSUME NEW w \in writes, WriteLands(w) PROVE CacheInv'
    BY <2>1 DEF WriteLands, Store, CacheInv, HoldsOwn
  <2>2. ASSUME ~\E w \in writes : WriteLands(w) PROVE CacheInv'
    BY <2>2 DEF Platform, WriteFails, Evict, Release, CacheInv, HoldsOwn
  <2>3. QED
    BY <2>1, <2>2
<1>4. QED
  BY <1>2, <1>3

LEMMA HostedInvariant == Spec => []HostedInv
<1>1. Init => HostedInv
  BY DEF Init, HostedInv, Shape, CacheInv, RequestInv
<1>2. HostedInv /\ [Next]_vars => HostedInv'
  <2> SUFFICES ASSUME HostedInv, [Next]_vars PROVE HostedInv'
    OBVIOUS
  <2>1. CASE UNCHANGED vars
    <3>1. \A r \in Requests : RequestInv(r)'
      BY <2>1, RequestFrame DEF vars, HostedInv
    <3>2. QED
      BY <2>1, <3>1 DEF vars, HostedInv, Shape, CacheInv, HoldsOwn
  <2>2. CASE Platform
    BY <2>2, PlatformKeeps
  <2>3. ASSUME NEW r \in Requests, Handle(r) PROVE HostedInv'
    BY <2>3, ReceiveKeeps, WorkKeeps, FinishKeeps DEF Handle
  <2>4. QED
    BY <2>1, <2>2, <2>3 DEF Next
<1>3. QED
  BY <1>1, <1>2, PTL DEF Spec

\* An answer is the one its own deploy computes for its own call and era,
\* whatever the shared cache held, lost, refused or kept from an older deploy.
THEOREM CacheTransparent == Spec => []CacheIsTransparent
<1>1. HostedInv => CacheIsTransparent
  BY DEF HostedInv, Shape, RequestInv, ItemInv, AllDone, CacheIsTransparent
<1>2. QED
  BY <1>1, HostedInvariant, PTL

\* No request runs more execute calls than the limit, a refused batch runs
\* nothing, and no message of an accepted batch is a modern one.
THEOREM RunsBounded == Spec => []RunsAreBounded
<1>1. HostedInv => RunsAreBounded
  <2> SUFFICES ASSUME HostedInv, NEW r \in Requests
               PROVE  /\ Cardinality({i \in ran[r] : IsExecute(Item(r, i))}) <= MaxExecuteItems
                      /\ status[r] = 400 /\ body[r].batch => ran[r] = {}
                      /\ status[r] = 200 /\ body[r].batch
                            => \A i \in Items(r) : ~ClaimsModern(body[r], i)
    BY DEF RunsAreBounded
  <2> DEFINE runs == {i \in ran[r] : IsExecute(Item(r, i))}
  <2>0. RequestInv(r) /\ body[r] \in Bodies \cup {None}
    BY DEF HostedInv, Shape
  <2>1. CASE body[r] = None
    <3>1. runs = {} /\ status[r] = 0 /\ ran[r] = {}
      BY <2>0, <2>1 DEF RequestInv
    <3>2. Cardinality(runs) = 0
      BY <3>1, FS_EmptySet
    <3>3. QED
      BY <3>1, <3>2, LimitsAreNaturals
  <2>2. CASE body[r] # None
    <3>1. /\ body[r] \in Bodies /\ runs \subseteq {i \in Items(r) : IsExecute(Item(r, i))}
          /\ Len(body[r].items) \in Nat
      BY <2>0, <2>2, BodiesAreParsed DEF RequestInv
    <3>2. IsFiniteSet(Items(r))
      BY <3>1, FS_Interval DEF Items
    <3>3. CASE body[r].batch /\ BatchRefused(body[r])
      <4>1. runs = {} /\ status[r] = 400 /\ ran[r] = {}
        BY <2>0, <2>2, <3>3 DEF RequestInv, BatchInv
      <4>2. Cardinality(runs) = 0
        BY <4>1, FS_EmptySet
      <4>3. QED
        BY <4>1, <4>2, LimitsAreNaturals
    <3>4. CASE body[r].batch /\ ~BatchRefused(body[r])
      <4>1. /\ status[r] # 400 /\ ~HasModernItem(body[r])
            /\ ~(ExecuteItems(body[r]) > MaxExecuteItems)
        BY <2>0, <2>2, <3>4 DEF RequestInv, BatchInv, BatchRefused
      <4>2. ExecuteItems(body[r]) = Cardinality({i \in Items(r) : IsExecute(Item(r, i))})
        BY DEF ExecuteItems, Items, Item
      <4>3. /\ IsFiniteSet({i \in Items(r) : IsExecute(Item(r, i))})
            /\ Cardinality({i \in Items(r) : IsExecute(Item(r, i))}) \in Nat
        BY <3>2, FS_Subset, FS_CardinalityType
      <4>4. /\ Cardinality(runs) <= Cardinality({i \in Items(r) : IsExecute(Item(r, i))})
            /\ Cardinality(runs) \in Nat
        BY <3>1, <4>3, FS_Subset, FS_CardinalityType
      <4>5. Cardinality(runs) <= MaxExecuteItems
        BY <4>1, <4>2, <4>3, <4>4, LimitsAreNaturals
      <4>6. QED
        BY <3>4, <4>1, <4>5 DEF HasModernItem, Items
    <3>5. CASE ~body[r].batch
      <4>1. runs \subseteq {1}
        <5>1. Len(body[r].items) = 1
          BY <3>1, <3>5, BodiesAreParsed
        <5>2. Items(r) = {1}
          BY <5>1 DEF Items
        <5>3. QED
          BY <3>1, <5>2
      <4>2. Cardinality(runs) <= 1 /\ Cardinality(runs) \in Nat
        <5>1. IsFiniteSet({1}) /\ Cardinality({1}) = 1
          BY FS_Singleton
        <5>2. IsFiniteSet(runs) /\ Cardinality(runs) <= 1
          BY <4>1, <5>1, FS_Subset
        <5>3. QED
          BY <5>2, FS_CardinalityType
      <4>3. QED
        BY <3>5, <4>2, LimitsAreNaturals
    <3>6. QED
      BY <3>3, <3>4, <3>5
  <2>3. QED
    BY <2>1, <2>2
<1>2. QED
  BY <1>1, HostedInvariant, PTL

(* ---------------------- the retries of a refused message ---------------------- *)

Shaped(o) == o \in Options /\ (IsHttp(o) \/ IsStdio(o))

\* What an error advertises is served, in the connection's era if it has one.
LEMMA AdvertisedIsServed ==
    ASSUME NEW m, NEW o, Shaped(o), NEW v \in Advertised(m, o)
    PROVE  v \in Served(o) /\ v \in o.served /\ v \in KnownVersions /\ v \in Nat
<1>1. v \in Served(o)
  BY DEF Advertised
<1>2. Served(o) \subseteq o.served /\ o.served \subseteq KnownVersions
  BY DEF Served, Shaped, Options
<1>3. QED
  BY <1>1, <1>2, VersionsAreDates DEF KnownVersions

\* A retry in the right shape is admitted: a modern revision as a claim with its
\* metadata, a legacy one nowhere in the body, and either mirrored if the
\* transport has headers.
LEMMA RightShapeIsAdmitted ==
    ASSUME NEW m \in Message, NEW o, Shaped(o), NEW v \in Served(o), v \in KnownVersions,
           m.valid,
           IsHttp(o) => o.header = v /\ o.mirrorsOk,
           \/ IsModernVersion(v) /\ m.claim = v /\ m.metaOk
           \/ IsLegacyVersion(v) /\ m.claim = None
    PROVE  Admitted(m, o)
<1> USE DEF Shaped, IsHttp, IsStdio, Options
<1>1. v \in Nat /\ v # None /\ v # NotAString /\ None # NotAString /\ ~IsModernVersion(None)
      /\ None \notin {"legacy", "modern"} /\ "legacy" # "modern"
      /\ ~(IsModernVersion(v) /\ IsLegacyVersion(v))
  BY VersionsAreDates, ErasAreDisjoint, SentinelsAreNotVersions
     DEF KnownVersions, IsModernVersion, IsLegacyVersion
<1>2. o.header \in {None, v} /\ ~UnsupportedHeader(o)
  BY DEF UnsupportedHeader
<1>3. ~UnsupportedNegotiated(o)
  BY DEF UnsupportedNegotiated, Served
<1>4. m.claim # NotAString /\ DeclaredVersion(m) = m.claim /\ m.claim \in {None, v}
  BY <1>1 DEF DeclaredVersion
<1>5. ~HeaderDisagrees(m, o) /\ ~UnsupportedDeclared(m, o)
  BY <1>2, <1>4 DEF HeaderDisagrees, UnsupportedDeclared
<1>6. CASE IsModernVersion(v) /\ m.claim = v /\ m.metaOk
  <2>1. RequestedEra(m) = "modern"
    BY <1>1, <1>6 DEF RequestedEra
  <2>2. o.pinned # "legacy"
    BY <1>1, <1>6 DEF Served, IsModernVersion, IsLegacyVersion
  <2>3. ~CrossesPinnedEra(m, o) /\ ~LegacyRevisionInModernClaim(m, o)
    BY <1>1, <1>4, <1>6, <2>1, <2>2 DEF CrossesPinnedEra, LegacyRevisionInModernClaim
  <2>4. EffectiveEra(m, o) = "modern"
    BY <2>1, <2>2 DEF EffectiveEra
  <2>5. ModernRefusal(m, o) = None
    BY <1>1, <1>4, <1>6 DEF ModernRefusal
  <2>6. QED
    BY <1>2, <1>3, <1>4, <1>5, <2>3, <2>4, <2>5 DEF Admitted, Refusal
<1>7. CASE IsLegacyVersion(v) /\ m.claim = None
  <2>1. RequestedEra(m) = "legacy"
    BY <1>7 DEF RequestedEra
  <2>2. o.pinned # "modern"
    BY <1>1, <1>7 DEF Served, IsModernVersion, IsLegacyVersion
  <2>3. ~CrossesPinnedEra(m, o) /\ ~LegacyRevisionInModernClaim(m, o)
    BY <1>1, <2>1, <2>2 DEF CrossesPinnedEra, LegacyRevisionInModernClaim
  <2>4. EffectiveEra(m, o) # "modern"
    <3>1. CASE o.pinned # None
      BY <2>2, <3>1 DEF EffectiveEra
    <3>2. CASE o.pinned = None
      <4>1. o.negotiated = None /\ ~IsModernVersion(o.header)
        BY <1>1, <1>2, <1>7, <3>2
      <4>2. QED
        BY <1>1, <2>1, <3>2, <4>1 DEF EffectiveEra
    <3>3. QED
      BY <3>1, <3>2
  <2>5. QED
    BY <1>2, <1>3, <1>4, <1>5, <2>3, <2>4 DEF Admitted, Refusal
<1>8. QED
  BY <1>6, <1>7

\* On a transport that pins no era, a claim of a served legacy revision is told
\* to use a modern one, and only those are advertised.
LegacyKept(m, o) ==
    /\ m.valid /\ m.claim \in o.served /\ IsLegacyVersion(m.claim)
    /\ IsHttp(o) => o.header = m.claim /\ o.mirrorsOk

LEMMA LegacyClaimIsRedirected ==
    ASSUME NEW m \in Message, NEW o, Shaped(o), o.pinned = None, LegacyKept(m, o),
           NEW v \in Advertised(m, o)
    PROVE  IsModernVersion(v)
<1> USE DEF Shaped, IsHttp, IsStdio, Options
<1>1. o.negotiated = None /\ Served(o) = o.served
  BY SentinelsAreNotVersions DEF Served
<1>2. m.claim \in Nat /\ m.claim # None /\ m.claim # NotAString
  BY VersionsAreDates, SentinelsAreNotVersions DEF LegacyKept, IsLegacyVersion
<1>3. ~UnsupportedHeader(o) /\ ~UnsupportedNegotiated(o) /\ ~CrossesPinnedEra(m, o)
  BY <1>1 DEF UnsupportedHeader, UnsupportedNegotiated, CrossesPinnedEra, LegacyKept
<1>4. LegacyRevisionInModernClaim(m, o)
  BY <1>2 DEF LegacyRevisionInModernClaim, RequestedEra, DeclaredVersion, LegacyKept
<1>5. QED
  BY <1>3, <1>4 DEF Advertised, IsModernVersion

\* An admitted message reaches dispatch with an era and a version of that era
\* that the transport serves.
LEMMA AdmittedIsCoherent ==
    ASSUME NEW m \in Message, Shaped(opts), Admitted(m, opts)
    PROVE  Coherent(EffectiveEra(m, opts), ContextVersion(m, opts))
<1> USE DEF Shaped, IsHttp, IsStdio, Options
<1> DEFINE o == opts
<1>1. /\ m.claim # NotAString /\ DeclaredVersion(m) = m.claim
      /\ ~UnsupportedHeader(o) /\ ~UnsupportedNegotiated(o) /\ ~HeaderDisagrees(m, o)
      /\ ~CrossesPinnedEra(m, o) /\ ~LegacyRevisionInModernClaim(m, o)
      /\ ~UnsupportedDeclared(m, o)
      /\ EffectiveEra(m, o) = "modern" => ModernRefusal(m, o) = None
  BY NoneIsNoReason DEF Admitted, Refusal, DeclaredVersion
<1>2. EffectiveEra(m, o) \in Eras
  BY SentinelsAreNotVersions DEF EffectiveEra, RequestedEra, Eras
<1>3. CASE EffectiveEra(m, o) = "modern"
  <2>1. IsModernVersion(m.claim)
    BY <1>1, <1>3, NoneIsNoReason DEF ModernRefusal
  <2>2. m.claim # None /\ ContextVersion(m, o) = m.claim
    BY <1>1, <2>1, VersionsAreDates, SentinelsAreNotVersions DEF ContextVersion, IsModernVersion
  <2>3. QED
    BY <1>1, <1>3, <2>1, <2>2 DEF Coherent, UnsupportedDeclared
<1>4. CASE EffectiveEra(m, o) = "legacy"
  <2>1. m.claim = None
    BY <1>1, <1>4 DEF EffectiveEra, CrossesPinnedEra, RequestedEra
  <2>2. ContextVersion(m, o) = TransportVersion(o)
    BY <1>1, <2>1 DEF ContextVersion
  <2>3. CASE o.negotiated # None
    <3>1. o.negotiated \in Served(o) /\ IsLegacyVersion(o.negotiated)
      BY <1>1, <2>3 DEF UnsupportedNegotiated, IsLegacyVersion
    <3>2. QED
      BY <1>4, <2>2, <2>3, <3>1 DEF Coherent, TransportVersion
  <2>4. CASE o.negotiated = None /\ o.header # None
    <3>1. o.header \in Served(o) /\ o.pinned = None
      BY <1>1, <2>4 DEF UnsupportedHeader
    <3>2. ~IsModernVersion(o.header) /\ o.header \in KnownVersions
      BY <1>4, <3>1, SentinelsAreNotVersions DEF EffectiveEra, Served
    <3>3. QED
      BY <1>4, <2>2, <2>4, <3>1, <3>2
         DEF Coherent, TransportVersion, IsLegacyVersion, IsModernVersion, KnownVersions
  <2>5. CASE o.negotiated = None /\ o.header = None
    BY <1>4, <2>2, <2>5 DEF Coherent, TransportVersion
  <2>6. QED
    BY <2>3, <2>4, <2>5
<1>5. QED
  BY <1>2, <1>3, <1>4 DEF Eras

(***************************************************************************)
(* RetriesConverge is not inductive: it says nothing of the message between *)
(* the first and the second retry.  What is kept there is a legacy claim   *)
(* that the next error redirects to the modern revisions.                  *)
(***************************************************************************)
ConvergeInv ==
    /\ msg \in Message /\ Shaped(opts) /\ retries \in Nat
    /\ reshapes /\ retries >= 1 => Admitted(msg, opts)
    /\ ~reshapes /\ opts.pinned = None /\ retries = 1
          => Admitted(msg, opts) \/ LegacyKept(msg, opts)
    /\ ~reshapes /\ opts.pinned = None /\ retries >= 2 => Admitted(msg, opts)

LEMMA ConvergeInvariant == ClientSpec => []ConvergeInv
<1>1. ClientInit => ConvergeInv
  BY MessagesAreMessages, TransportsAreOurs DEF ClientInit, ConvergeInv, Shaped
<1>2. ConvergeInv /\ [ClientNext]_clientVars => ConvergeInv'
  <2> SUFFICES ASSUME ConvergeInv, [ClientNext]_clientVars PROVE ConvergeInv'
    OBVIOUS
  <2> USE DEF ConvergeInv
  <2>1. CASE UNCHANGED clientVars
    BY <2>1 DEF clientVars, Shaped, Admitted, LegacyKept
  <2>2. CASE Retry
    <3>1. PICK v \in Advertised(msg, opts) :
             /\ msg' = Reshaped(v)
             /\ opts' = IF opts.needsHeader \/ opts.header # None
                        THEN [opts EXCEPT !.header = v, !.mirrorsOk = TRUE] ELSE opts
      BY <2>2 DEF Retry
    <3>2. /\ Refusal(msg, opts) = "unsupported-version" /\ msg.valid
          /\ ~Admitted(msg, opts) /\ reshapes' = reshapes /\ retries' = retries + 1
      BY <2>2, NoneIsNoReason DEF Retry, Refusal, Admitted
    <3>3. v \in Served(opts) /\ v \in opts.served /\ v \in KnownVersions /\ v \in Nat
      BY AdvertisedIsServed
    <3>4. msg' \in Message /\ msg'.valid
      BY <3>1, <3>2, <3>3 DEF Reshaped, Message, Versions
    <3>5. /\ Shaped(opts') /\ Served(opts') = Served(opts) /\ opts'.served = opts.served
          /\ opts'.pinned = opts.pinned
          /\ IsHttp(opts') => opts'.header = v /\ opts'.mirrorsOk
      <4>1. CASE opts.needsHeader \/ opts.header # None
        <5>1. /\ IsHttp(opts)
              /\ opts' = [[opts EXCEPT !.header = v] EXCEPT !.mirrorsOk = TRUE]
          BY <3>1, <4>1 DEF Shaped, IsHttp, IsStdio
        <5>2. QED
          BY <3>3, <5>1 DEF Shaped, Options, IsHttp, IsStdio, Served, Versions
      <4>2. CASE ~(opts.needsHeader \/ opts.header # None)
        BY <3>1, <4>2 DEF Shaped, IsHttp
      <4>3. QED
        BY <4>1, <4>2
    <3>6. ASSUME reshapes \/ msg.claim = None \/ IsModernVersion(v) PROVE Admitted(msg', opts')
      <4>1. \/ IsModernVersion(v) /\ msg'.claim = v /\ msg'.metaOk
            \/ IsLegacyVersion(v) /\ msg'.claim = None
        BY <3>1, <3>3, <3>6 DEF Reshaped, Message, KnownVersions, IsModernVersion, IsLegacyVersion
      <4>2. QED
        BY <3>3, <3>4, <3>5, <4>1, RightShapeIsAdmitted
    <3>7. ASSUME ~reshapes, opts.pinned = None
          PROVE  Admitted(msg', opts') \/ LegacyKept(msg', opts')
      <4>1. CASE msg.claim = None \/ IsModernVersion(v)
        BY <3>6, <4>1
      <4>2. CASE msg.claim # None /\ ~IsModernVersion(v)
        <5>1. msg'.claim = v /\ IsLegacyVersion(v)
          BY <3>1, <3>3, <3>7, <4>2 DEF Reshaped, Message, KnownVersions, IsModernVersion,
                IsLegacyVersion
        <5>2. QED
          BY <3>3, <3>4, <3>5, <5>1 DEF LegacyKept
      <4>3. QED
        BY <4>1, <4>2
    <3>8. ASSUME ~reshapes, opts.pinned = None, retries >= 1 PROVE Admitted(msg', opts')
      <4>1. LegacyKept(msg, opts)
        BY <3>2, <3>8
      <4>2. IsModernVersion(v)
        BY <3>8, <4>1, LegacyClaimIsRedirected
      <4>3. QED
        BY <3>6, <4>2
    <3>9. Admitted(msg, opts)' <=> Admitted(msg', opts')
      BY DEF Admitted
    <3>10. LegacyKept(msg, opts)' <=> LegacyKept(msg', opts')
      BY DEF LegacyKept
    <3>11. Shaped(opts)' <=> Shaped(opts')
      BY DEF Shaped
    <3>12. QED
      BY <3>2, <3>4, <3>5, <3>6, <3>7, <3>8, <3>9, <3>10, <3>11
  <2>3. QED
    BY <2>1, <2>2 DEF ClientNext
<1>3. QED
  BY <1>1, <1>2, PTL DEF ClientSpec

\* What a version error advertises is admitted on the first retry in the right
\* shape and on the second in any, and dispatch gets a coherent context.
THEOREM AdvertisedIsAdmitted == ClientSpec => []RetriesConverge
<1>1. ConvergeInv => RetriesConverge
  <2> SUFFICES ASSUME ConvergeInv PROVE RetriesConverge
    OBVIOUS
  <2>1. Admitted(msg, opts) => Coherent(EffectiveEra(msg, opts), ContextVersion(msg, opts))
    BY AdmittedIsCoherent DEF ConvergeInv
  <2>2. QED
    BY <2>1 DEF ConvergeInv, RetriesConverge
<1>2. QED
  BY <1>1, ConvergeInvariant, PTL
=============================================================================
