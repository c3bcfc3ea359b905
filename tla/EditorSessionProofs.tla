------------------------ MODULE EditorSessionProofs ------------------------
(***************************************************************************)
(* What holds of the editor page for any sources, options and links, and   *)
(* however many edits, renders, compressions and exports overlap.          *)
(***************************************************************************)
EXTENDS EditorSession, TLAPS

\* Until the initial source is chosen there is room for the render it asks for.
LoadIsEarly == loading => version <= MaxVersion

\* No render of the blank editor is ever started, and one of the newest
\* version is of the options on screen; its source may have been cleared.
RendersAreOfVersion ==
    \A r \in renders :
        /\ r.doc.source # Empty
        /\ r.version = version => r.doc.options = doc.options

ArtifactIsVerified == artifact # None => artifact.source \in Verified

\* While there is an artifact, the newest share link is of its document.
NewestLinkIsCurrent ==
    artifact # None => \A j \in jobs : j.token = token => j.doc = doc

PageTypes ==
    /\ doc \in Docs /\ version \in 1 .. MaxVersion + 1 /\ timer \in BOOLEAN
    /\ renders \subseteq RenderUpTo(version)
    /\ artifact \in MaybeDocs /\ preview \in MaybeDocs
    /\ loading \in BOOLEAN /\ LoadIsEarly

LinkTypes ==
    hash \in MaybeDocs \cup {Broken} /\ token \in Nat /\ jobs \subseteq LinkUpTo(token)

SavedTypes ==
    /\ draft \in MaybeDocs /\ draftTimer \in BOOLEAN /\ notice \in BOOLEAN
    /\ misled \in BOOLEAN /\ cleared \in BOOLEAN

ExportTypes == exports \subseteq ExportUpTo(version)

SessionTypes == PageTypes /\ LinkTypes /\ SavedTypes /\ ExportTypes

SessionInv ==
    /\ SessionTypes
    /\ RendersAreOfVersion
    /\ ArtifactIsVerified
    /\ NewestLinkIsCurrent
    /\ ArtifactIsCurrent
    /\ DeliveredIsCurrent
    /\ ClearedStaysBlank

-----------------------------------------------------------------------------
LEMMA SameDoc ==
    ASSUME NEW d \in Docs, NEW e \in Docs, d.source = e.source, d.options = e.options
    PROVE  d = e
BY DEF Docs

\* Renders, links and exports in flight stay typed while the counters grow.
LEMMA UpToGrows ==
    ASSUME NEW m \in Nat, NEW n \in Nat, m <= n
    PROVE  /\ RenderUpTo(m) \subseteq RenderUpTo(n)
           /\ LinkUpTo(m) \subseteq LinkUpTo(n)
           /\ ExportUpTo(m) \subseteq ExportUpTo(n)
<1>1. 1..m \subseteq 1..n
  OBVIOUS
<1> QED
  BY <1>1 DEF RenderUpTo, LinkUpTo, ExportUpTo

\* What each asynchronous call leaves in flight has its type.
LEMMA Newest ==
    ASSUME NEW n \in Nat \ {0}, NEW d \in Docs
    PROVE  /\ [version |-> n, doc |-> d] \in RenderUpTo(n)
           /\ \A copy \in BOOLEAN : [token |-> n, doc |-> d, copy |-> copy] \in LinkUpTo(n)
           /\ \A kind \in {"png", "svg"}, e \in Docs :
                 [kind |-> kind, version |-> n, doc |-> d, shown |-> e] \in ExportUpTo(n)
BY DEF RenderUpTo, LinkUpTo, ExportUpTo

\* Changing one part of a document gives a document.
LEMMA Edited ==
    ASSUME NEW d \in Docs, NEW s \in Sources, NEW o \in Options
    PROVE  /\ [d EXCEPT !.source = s] \in Docs
           /\ [d EXCEPT !.options = o] \in Docs
           /\ [source |-> s, options |-> o] \in Docs
           /\ [d EXCEPT !.source = s].options = d.options
           /\ [d EXCEPT !.source = s].source = s
           /\ [d EXCEPT !.options = o].source = d.source
BY DEF Docs

\* updateHash, of a document that is or is not verified, keeps the link typed.
LEMMA UpdateHashTypes ==
    ASSUME token \in Nat, jobs \subseteq LinkUpTo(token), hash \in MaybeDocs \cup {Broken},
           NEW verified \in BOOLEAN, NEW d \in Docs, NEW copy \in BOOLEAN,
           UpdateHash(verified, d, copy)
    PROVE  token' \in Nat /\ jobs' \subseteq LinkUpTo(token')
           /\ hash' \in MaybeDocs \cup {Broken}
<1>1. CASE verified
  <2>1. LinkUpTo(token) \subseteq LinkUpTo(token + 1)
    BY UpToGrows
  <2>2. token + 1 \in Nat \ {0}
    OBVIOUS
  <2>3. [token |-> token + 1, doc |-> d, copy |-> copy] \in LinkUpTo(token + 1)
    BY <2>2, Newest
  <2> QED
    BY <1>1, <2>1, <2>3 DEF UpdateHash
<1>2. CASE ~verified
  BY <1>2 DEF UpdateHash, link
<1> QED
  BY <1>1, <1>2

\* The initial page is well typed.
LEMMA InitTypes == Init => SessionTypes
<1> SUFFICES ASSUME Init PROVE SessionTypes
  OBVIOUS
<1>1. doc \in Docs /\ hash \in MaybeDocs \cup {Broken}
  BY EditorAssumption DEF Init, MaybeDocs, Docs
<1>2. PageTypes
  BY <1>1, EditorAssumption DEF Init, PageTypes, LoadIsEarly, MaybeDocs
<1>3. LinkTypes /\ SavedTypes /\ ExportTypes
  BY <1>1 DEF Init, LinkTypes, SavedTypes, ExportTypes, MaybeDocs
<1> QED
  BY <1>2, <1>3 DEF SessionTypes

\* A user action that changes the document, or asks for it to be drawn again;
\* one after Clear that does not bring a source back leaves the rest cleared.
Edit ==
    /\ UserMayRender /\ ScheduleRender
    /\ doc' \in Docs
    /\ cleared' => cleared /\ doc'.source = doc.source /\ draft' = draft
    /\ UNCHANGED <<renders, preview, hash, exports, misled, loading>>

\* What a step may do to the page, the link, the draft and what was handed out.
LEMMA SessionSteps ==
    ASSUME SessionTypes, [Next]_vars
    PROVE  \/ Reload \/ Load \/ Edit \/ Clear \/ Fire
           \/ \E r \in renders : Rendered(r)
           \/ \E j \in jobs : Compressed(j) \/ CompressionFails(j)
           \/ CopyLink \/ SaveDraft \/ CopyMarkup
           \/ \E x \in exports : FinishExport(x)
           \/ UNCHANGED <<page, link, draft, misled, loading, cleared>>
<1> USE DEF SessionTypes, PageTypes
<1>1. ASSUME NEW s \in Sources, Type(s) PROVE Edit
  BY <1>1 DEF Type, Edit, Docs, link
<1>2. ASSUME NEW o \in Options, Restyle(o) \/ Reconfigure(o) PROVE Edit
  <2>1. doc' = [doc EXCEPT !.options = o] /\ UserMayRender /\ ScheduleRender
    BY <1>2 DEF Restyle, Reconfigure
  <2>2. doc' \in Docs /\ doc'.source = doc.source
    BY <2>1 DEF Docs
  <2>3. UNCHANGED hash
    BY <1>2 DEF Restyle, Reconfigure, UpdateHash, link
  <2>4. UNCHANGED <<renders, preview, draft, exports, misled, history>>
    BY <1>2 DEF Restyle, Reconfigure, saved
  <2> QED
    BY <2>1, <2>2, <2>3, <2>4 DEF history, Edit
<1>3. ASSUME NEW d \in Docs, LoadExample(d) PROVE Edit
  BY <1>3 DEF LoadExample, Edit, link
<1>4. Rerender => Edit
  BY DEF Rerender, link, saved, history, Edit
<1>5. Discard => Edit
  BY EditorAssumption DEF Discard, Edit, Docs, link
<1>6. (\E kind \in {"png", "svg"} : StartExport(kind)) \/ (\E x \in exports : ExportFails(x))
      => UNCHANGED <<page, link, draft, misled, loading, cleared>>
  BY DEF StartExport, ExportFails, saved, history
<1>7. UNCHANGED vars => UNCHANGED <<page, link, draft, misled, loading, cleared>>
  BY DEF vars, saved, history
<1> QED
  BY <1>1, <1>2, <1>3, <1>4, <1>5, <1>6, <1>7 DEF Next, Browser, User

\* What a step may do to the page alone.
LEMMA PageSteps ==
    ASSUME SessionTypes, [Next]_vars
    PROVE  \/ Reload \/ Load \/ Edit \/ Clear \/ Fire
           \/ \E r \in renders : Rendered(r)
           \/ UNCHANGED <<page, loading>>
<1>1. CopyLink \/ SaveDraft \/ CopyMarkup => UNCHANGED <<page, loading>>
  BY DEF CopyLink, SaveDraft, CopyMarkup, history
<1>2. (\E j \in jobs : Compressed(j) \/ CompressionFails(j)) \/ (\E x \in exports : FinishExport(x))
      => UNCHANGED <<page, loading>>
  BY DEF Compressed, CompressionFails, FinishExport, history
<1> QED
  BY <1>1, <1>2, SessionSteps

\* The page and the renders and exports in flight stay typed.
LEMMA PageKept ==
    ASSUME SessionTypes, [Next]_vars
    PROVE  PageTypes'
<1> USE EditorAssumption DEF SessionTypes, PageTypes, LoadIsEarly
<1>1. CASE Reload
  BY <1>1 DEF Reload, FreshPage, MaybeDocs, Docs
<1>2. CASE Load
  <2>1. doc' \in Docs
    BY <1>2 DEF Load, Restore, Docs, LinkTypes, SavedTypes, MaybeDocs
  <2>2. RenderUpTo(version) \subseteq RenderUpTo(version + 1)
    BY UpToGrows
  <2>3. version + 1 \in 1 .. MaxVersion + 1
    BY <1>2 DEF Load
  <2> QED
    BY <1>2, <2>1, <2>2, <2>3 DEF Load, ScheduleRender, MaybeDocs
<1>3. CASE Edit
  <2>1. RenderUpTo(version) \subseteq RenderUpTo(version + 1)
    BY UpToGrows
  <2> QED
    BY <1>3, <2>1 DEF Edit, UserMayRender, ScheduleRender, MaybeDocs
<1>4. CASE Clear
  BY <1>4, EditorAssumption DEF Clear, MaybeDocs, Docs
<1>5. CASE Fire
  <2>1. [version |-> version, doc |-> doc] \in RenderUpTo(version)
    BY Newest
  <2> QED
    BY <1>5, <2>1 DEF Fire, history, MaybeDocs
<1>6. ASSUME NEW r \in renders, Rendered(r) PROVE PageTypes'
  <2>1. r.doc \in Docs
    BY DEF RenderUpTo
  <2> QED
    BY <1>6, <2>1 DEF Rendered, history, MaybeDocs
<1>7. CASE UNCHANGED <<page, loading>>
  BY <1>7 DEF page
<1> QED
  BY <1>1, <1>2, <1>3, <1>4, <1>5, <1>6, <1>7, PageSteps

\* Some updateHash, of whatever document.
AddressAsked ==
    \E verified \in BOOLEAN, d \in Docs, copy \in BOOLEAN : UpdateHash(verified, d, copy)

\* What a step may do to the address and the compressions in flight.
LEMMA LinkSteps ==
    ASSUME SessionTypes, [Next]_vars
    PROVE  \/ Reload \/ Load \/ Clear
           \/ \E j \in jobs : Compressed(j) \/ CompressionFails(j)
           \/ AddressAsked
           \/ UNCHANGED link
<1>1. ASSUME NEW o \in Options, Reconfigure(o) PROVE AddressAsked
  <2>1. doc' \in Docs /\ HasCurrentArtifact \in BOOLEAN
    BY <1>1 DEF Reconfigure, Docs, HasCurrentArtifact, SessionTypes, PageTypes
  <2>2. UpdateHash(HasCurrentArtifact, doc', FALSE)
    BY <1>1 DEF Reconfigure
  <2> QED
    BY <2>1, <2>2 DEF AddressAsked
<1>2. ASSUME NEW r \in renders, Rendered(r) PROVE AddressAsked
  <2>1. doc \in Docs /\ (IsCurrentRender(r) /\ r.doc.source \in Verified) \in BOOLEAN
    BY DEF SessionTypes, PageTypes
  <2>2. UpdateHash(IsCurrentRender(r) /\ r.doc.source \in Verified, doc, FALSE)
    BY <1>2 DEF Rendered
  <2> QED
    BY <2>1, <2>2 DEF AddressAsked
<1>3. CopyLink => AddressAsked
  BY DEF CopyLink, SessionTypes, PageTypes, AddressAsked
<1>4. ASSUME (\E s \in Sources : Type(s)) \/ (\E o \in Options : Restyle(o)) \/ Rerender
             \/ (\E d \in Docs : LoadExample(d)) \/ Discard \/ Fire \/ SaveDraft
      PROVE UNCHANGED link
  BY <1>4 DEF Type, Restyle, Rerender, LoadExample, Discard, Fire, SaveDraft
<1>5. ASSUME CopyMarkup \/ (\E kind \in {"png", "svg"} : StartExport(kind))
             \/ (\E x \in exports : FinishExport(x) \/ ExportFails(x)) \/ UNCHANGED vars
      PROVE UNCHANGED link
  BY <1>5 DEF CopyMarkup, StartExport, FinishExport, ExportFails, vars, link
<1> QED
  BY <1>1, <1>2, <1>3, <1>4, <1>5 DEF Next, Browser, User

\* The address and the compressions in flight stay typed.
LEMMA LinkKept ==
    ASSUME SessionTypes, [Next]_vars
    PROVE  LinkTypes'
<1> USE DEF SessionTypes, LinkTypes
<1>1. CASE Reload
  BY <1>1 DEF Reload, FreshPage, MaybeDocs, Docs
<1>2. CASE Load
  <2>1. hash' \in MaybeDocs \cup {Broken}
    BY <1>2 DEF Load, Restore, MaybeDocs, Docs
  <2> QED
    BY <1>2, <2>1 DEF Load
<1>3. CASE Clear
  BY <1>3 DEF Clear, MaybeDocs, Docs
<1>4. ASSUME NEW j \in jobs, Compressed(j) \/ CompressionFails(j) PROVE LinkTypes'
  <2>1. j.doc \in Docs
    BY DEF LinkUpTo
  <2>2. hash' \in MaybeDocs \cup {Broken}
    BY <1>4, <2>1 DEF Compressed, CompressionFails, MaybeDocs
  <2> QED
    BY <1>4, <2>2 DEF Compressed, CompressionFails
<1>5. ASSUME NEW verified \in BOOLEAN, NEW copy \in BOOLEAN, NEW d \in Docs,
             UpdateHash(verified, d, copy)
      PROVE LinkTypes'
  BY <1>5, UpdateHashTypes
<1>6. CASE UNCHANGED link
  BY <1>6 DEF link, MaybeDocs, Docs
<1> QED
  BY <1>1, <1>2, <1>3, <1>4, <1>5, <1>6, LinkSteps DEF AddressAsked

\* The draft and the history flags stay typed.
LEMMA SavedKept ==
    ASSUME SessionTypes, [Next]_vars
    PROVE  SavedTypes'
<1> USE DEF SessionTypes, PageTypes, SavedTypes, MaybeDocs
<1>1. CASE Reload
  BY <1>1 DEF Reload, FreshPage
<1>2. CASE Load
  BY <1>2 DEF Load, Restore
<1>3. ASSUME NEW s \in Sources, Type(s) PROVE SavedTypes'
  BY <1>3 DEF Type
<1>4. ASSUME NEW o \in Options, Restyle(o) \/ Reconfigure(o) PROVE SavedTypes'
  BY <1>4 DEF Restyle, Reconfigure, saved, history
<1>5. ASSUME NEW d \in Docs, LoadExample(d) PROVE SavedTypes'
  BY <1>5 DEF LoadExample
<1>6. CASE Rerender \/ Clear \/ Discard \/ Fire \/ CopyLink \/ SaveDraft
  BY <1>6 DEF Rerender, Clear, Discard, Fire, CopyLink, SaveDraft, saved, history
<1>7. ASSUME NEW r \in renders, Rendered(r) PROVE SavedTypes'
  BY <1>7 DEF Rendered, saved, history
<1>8. ASSUME NEW j \in jobs, Compressed(j) \/ CompressionFails(j) PROVE SavedTypes'
  <2>1. misled' \in BOOLEAN
    BY <1>8 DEF Compressed, CompressionFails, Deliver
  <2> QED
    BY <1>8, <2>1 DEF Compressed, CompressionFails, saved, history
<1>9. ASSUME NEW x \in exports, FinishExport(x) \/ ExportFails(x) PROVE SavedTypes'
  <2>1. misled' \in BOOLEAN
    BY <1>9 DEF FinishExport, ExportFails, Deliver
  <2> QED
    BY <1>9, <2>1 DEF FinishExport, ExportFails, saved, history
<1>10. CASE CopyMarkup
  <2>1. misled' \in BOOLEAN
    BY <1>10 DEF CopyMarkup, Deliver
  <2> QED
    BY <1>10, <2>1 DEF CopyMarkup, saved, history
<1>11. CASE (\E kind \in {"png", "svg"} : StartExport(kind)) \/ UNCHANGED vars
  BY <1>11 DEF StartExport, vars, saved, history
<1> QED
  BY <1>1, <1>2, <1>3, <1>4, <1>5, <1>6, <1>7, <1>8, <1>9, <1>10, <1>11 DEF Next, Browser, User

\* What a step may do to the exports in flight.
LEMMA ExportSteps ==
    ASSUME SessionTypes, [Next]_vars
    PROVE  \/ Reload
           \/ \E kind \in {"png", "svg"} : StartExport(kind)
           \/ exports' \subseteq exports
<1>1. Load \/ Clear \/ Discard \/ Fire \/ CopyLink \/ CopyMarkup \/ SaveDraft \/ Rerender
      => exports' \subseteq exports
  BY DEF Load, Clear, Discard, Fire, CopyLink, CopyMarkup, SaveDraft, Rerender
<1>2. ASSUME \/ \E s \in Sources : Type(s)
             \/ \E o \in Options : Restyle(o) \/ Reconfigure(o)
             \/ \E d \in Docs : LoadExample(d)
      PROVE exports' \subseteq exports
  BY <1>2 DEF Type, Restyle, Reconfigure, LoadExample
<1>3. ASSUME \/ \E r \in renders : Rendered(r)
             \/ \E j \in jobs : Compressed(j) \/ CompressionFails(j)
             \/ \E x \in exports : FinishExport(x) \/ ExportFails(x)
             \/ UNCHANGED vars
      PROVE exports' \subseteq exports
  BY <1>3 DEF Rendered, Compressed, CompressionFails, FinishExport, ExportFails, vars
<1> QED
  BY <1>1, <1>2, <1>3 DEF Next, Browser, User

\* Only a reload takes the version back.
LEMMA VersionGrows ==
    ASSUME SessionTypes, [Next]_vars, ~Reload
    PROVE  version' \in {version, version + 1}
<1>1. Load \/ Edit => version' = version + 1
  BY DEF Load, Edit, ScheduleRender
<1>2. Clear \/ Fire \/ (\E r \in renders : Rendered(r)) => version' = version
  BY DEF Clear, Fire, Rendered
<1>3. UNCHANGED <<page, loading>> => version' = version
  BY DEF page
<1> QED
  BY <1>1, <1>2, <1>3, PageSteps

\* Exports in flight stay typed: versions only grow while there are any.
LEMMA ExportKept ==
    ASSUME SessionTypes, [Next]_vars
    PROVE  ExportTypes'
<1> USE DEF SessionTypes, PageTypes, ExportTypes
<1>1. CASE Reload
  BY <1>1 DEF Reload, FreshPage
<1>2. ASSUME NEW kind \in {"png", "svg"}, StartExport(kind) PROVE ExportTypes'
  <2>1. artifact \in Docs
    BY <1>2 DEF StartExport, HasCurrentArtifact, MaybeDocs
  <2>2. [kind |-> kind, version |-> version, doc |-> doc, shown |-> artifact] \in ExportUpTo(version)
    <3>1. version \in Nat \ {0} /\ doc \in Docs
      BY EditorAssumption
    <3> HIDE DEF SessionTypes, PageTypes, ExportTypes
    <3> QED
      BY <2>1, <3>1, Newest
  <2> QED
    BY <1>2, <2>2 DEF StartExport, page
<1>3. CASE exports' \subseteq exports /\ ~Reload
  <2>1. version' \in Nat /\ version <= version'
    BY <1>3, VersionGrows
  <2>2. ExportUpTo(version) \subseteq ExportUpTo(version')
    BY <2>1, UpToGrows
  <2> QED
    BY <1>3, <2>2
<1> QED
  BY <1>1, <1>2, <1>3, ExportSteps

LEMMA TypesKept == SessionTypes /\ [Next]_vars => SessionTypes'
BY PageKept, LinkKept, SavedKept, ExportKept DEF SessionTypes

LEMMA TypesGiveTypeOK == SessionTypes => TypeOK
BY DEF SessionTypes, PageTypes, LinkTypes, SavedTypes, ExportTypes, TypeOK

\* Every variable of the page keeps its type.
THEOREM TypeCorrect == Spec => []TypeOK
<1>1. Spec => []SessionTypes
  BY InitTypes, TypesKept, PTL DEF Spec
<1> QED
  BY <1>1, TypesGiveTypeOK, PTL

-----------------------------------------------------------------------------
\* A render that is current is of the document on screen.
LEMMA CurrentIsOfDoc ==
    ASSUME SessionTypes, RendersAreOfVersion, NEW r \in renders, IsCurrentRender(r)
    PROVE  r.doc = doc /\ doc.source # Empty
<1>1. r.doc \in Docs /\ doc \in Docs
  BY DEF SessionTypes, PageTypes, RenderUpTo
<1>2. r.doc.source = doc.source /\ r.doc.options = doc.options /\ r.doc.source # Empty
  BY DEF RendersAreOfVersion, IsCurrentRender
<1> QED
  BY <1>1, <1>2, SameDoc

\* Versions outrun the renders in flight, so an edit makes all of them stale.
LEMMA RendersOfVersionKept ==
    ASSUME SessionTypes, RendersAreOfVersion, [Next]_vars
    PROVE  RendersAreOfVersion'
<1> USE DEF RendersAreOfVersion
<1>1. CASE Reload
  BY <1>1 DEF Reload, FreshPage
<1>2. CASE Load \/ Edit
  <2>1. version' = version + 1 /\ renders' = renders
    BY <1>2 DEF Load, Edit, ScheduleRender
  <2>2. \A r \in renders : r.version # version + 1
    BY DEF SessionTypes, PageTypes, RenderUpTo
  <2> QED
    BY <2>1, <2>2
<1>3. CASE Clear
  <2>1. doc'.options = doc.options
    BY <1>3, EditorAssumption, Edited DEF Clear, SessionTypes, PageTypes, Docs
  <2> QED
    BY <1>3, <2>1 DEF Clear
<1>4. CASE Fire
  BY <1>4 DEF Fire
<1>5. ASSUME NEW r \in renders, Rendered(r) PROVE RendersAreOfVersion'
  BY <1>5 DEF Rendered
<1>6. CASE UNCHANGED <<page, loading>>
  BY <1>6 DEF page
<1> QED
  BY <1>1, <1>2, <1>3, <1>4, <1>5, <1>6, PageSteps

\* Only a current render makes an artifact, and every edit revokes it.
LEMMA ArtifactKept ==
    ASSUME SessionTypes, RendersAreOfVersion, ArtifactIsVerified, ArtifactIsCurrent, [Next]_vars
    PROVE  ArtifactIsVerified' /\ ArtifactIsCurrent'
<1> USE DEF ArtifactIsVerified, ArtifactIsCurrent
<1>1. CASE Reload \/ Load \/ Edit \/ Clear
  BY <1>1 DEF Reload, FreshPage, Load, Edit, Clear, ScheduleRender
<1>2. CASE Fire
  BY <1>2 DEF Fire
<1>3. ASSUME NEW r \in renders, Rendered(r) PROVE ArtifactIsVerified' /\ ArtifactIsCurrent'
  <2>1. CASE IsCurrentRender(r)
    BY <1>3, <2>1, CurrentIsOfDoc DEF Rendered
  <2>2. CASE ~IsCurrentRender(r)
    BY <1>3, <2>2 DEF Rendered
  <2> QED
    BY <2>1, <2>2
<1>4. CASE UNCHANGED <<page, loading>>
  BY <1>4 DEF page
<1> QED
  BY <1>1, <1>2, <1>3, <1>4, PageSteps

\* A new link is of the verified document and outdates the older ones.
LEMMA NewestLinkKept ==
    ASSUME SessionTypes, RendersAreOfVersion, ArtifactIsCurrent, NewestLinkIsCurrent,
           [Next]_vars
    PROVE  NewestLinkIsCurrent'
<1> USE DEF NewestLinkIsCurrent
<1>1. CASE Reload \/ Load \/ Edit \/ Clear
  BY <1>1 DEF Reload, FreshPage, Load, Edit, Clear, ScheduleRender
<1>2. CASE Fire \/ SaveDraft \/ CopyMarkup \/ (\E x \in exports : FinishExport(x))
  BY <1>2 DEF Fire, SaveDraft, CopyMarkup, FinishExport, page, link
<1>3. ASSUME NEW copy \in BOOLEAN, UpdateHash(TRUE, doc, copy), doc' = doc
      PROVE NewestLinkIsCurrent'
  <2>1. \A j \in jobs : j.token # token + 1
    BY DEF SessionTypes, LinkTypes, LinkUpTo
  <2> QED
    BY <1>3, <2>1 DEF UpdateHash
<1>4. ASSUME NEW r \in renders, Rendered(r) PROVE NewestLinkIsCurrent'
  <2>1. CASE IsCurrentRender(r) /\ r.doc.source \in Verified
    BY <1>3, <1>4, <2>1 DEF Rendered
  <2>2. CASE IsCurrentRender(r) /\ r.doc.source \notin Verified
    BY <1>4, <2>2 DEF Rendered
  <2>3. CASE ~IsCurrentRender(r)
    BY <1>4, <2>3 DEF Rendered, UpdateHash, link
  <2> QED
    BY <2>1, <2>2, <2>3
<1>5. CASE CopyLink
  BY <1>3, <1>5 DEF CopyLink, page
<1>6. ASSUME NEW j \in jobs, Compressed(j) \/ CompressionFails(j) PROVE NewestLinkIsCurrent'
  BY <1>6 DEF Compressed, CompressionFails, page
<1>7. CASE UNCHANGED <<page, link, draft, misled, loading, cleared>>
  BY <1>7 DEF page, link
<1> QED
  BY <1>1, <1>2, <1>4, <1>5, <1>6, <1>7, SessionSteps

\* What the address is changed to, and what is copied from it.
LEMMA WrittenIsCurrent ==
    ASSUME SessionTypes, ArtifactIsVerified, ArtifactIsCurrent, NewestLinkIsCurrent,
           NEW j \in jobs, MayWriteHash(j)
    PROVE  j.doc = doc /\ doc.source \in Verified
BY DEF ArtifactIsVerified, ArtifactIsCurrent, NewestLinkIsCurrent, MayWriteHash, HasCurrentArtifact

\* Bytes that pass the checks were drawn from the artifact, which is current.
LEMMA DeliveredKept ==
    ASSUME SessionInv, [Next]_vars
    PROVE  DeliveredIsCurrent'
<1> USE DEF SessionInv, DeliveredIsCurrent
<1>1. CASE Reload \/ Load \/ Edit \/ Clear \/ Fire \/ CopyLink \/ SaveDraft
  BY <1>1 DEF Reload, Load, Edit, Clear, Fire, CopyLink, SaveDraft
<1>2. ASSUME NEW r \in renders, Rendered(r) PROVE DeliveredIsCurrent'
  BY <1>2 DEF Rendered
<1>3. ASSUME NEW j \in jobs, Compressed(j) \/ CompressionFails(j) PROVE DeliveredIsCurrent'
  BY <1>3, WrittenIsCurrent DEF Compressed, CompressionFails, Deliver
<1>4. ASSUME NEW x \in exports, FinishExport(x) PROVE DeliveredIsCurrent'
  <2>1. CASE StillCurrent(x)
    <3>1. x.kind \in {"png", "svg"} /\ x.shown \in Docs
      BY DEF SessionTypes, ExportTypes, ExportUpTo
    <3>2. artifact # None /\ x.shown = artifact
      BY <2>1, <3>1, NothingIsNoDocument DEF StillCurrent
    <3>3. x.shown = doc /\ (x.kind = "png" => x.doc = doc)
      BY <2>1, <3>2 DEF StillCurrent, ArtifactIsCurrent
    <3> QED
      BY <1>4, <2>1, <3>1, <3>3 DEF FinishExport, Deliver
  <2>2. CASE ~StillCurrent(x)
    BY <1>4, <2>2 DEF FinishExport
  <2> QED
    BY <2>1, <2>2
<1>5. CASE CopyMarkup
  BY <1>5 DEF CopyMarkup, Deliver, HasCurrentArtifact, ArtifactIsCurrent
<1>6. CASE UNCHANGED <<page, link, draft, misled, loading, cleared>>
  BY <1>6
<1> QED
  BY <1>1, <1>2, <1>3, <1>4, <1>5, <1>6, SessionSteps

\* A blank editor has no artifact, no current render and nothing to save.
LEMMA ClearedKept ==
    ASSUME SessionInv, [Next]_vars
    PROVE  ClearedStaysBlank'
<1> USE DEF SessionInv, ClearedStaysBlank
<1>1. CASE Reload \/ Load
  BY <1>1 DEF Reload, Load
<1>2. CASE Edit
  BY <1>2 DEF Edit
<1>3. CASE Clear
  BY <1>3 DEF Clear, SessionTypes, PageTypes, Docs
<1>4. CASE Fire
  BY <1>4 DEF Fire, link, saved, history
<1>5. ASSUME NEW r \in renders, Rendered(r) PROVE ClearedStaysBlank'
  <2>1. UNCHANGED <<doc, hash, draft, cleared>>
    BY <1>5 DEF Rendered, UpdateHash, link, saved, history
  <2>2. cleared => preview' = preview
    BY <1>5, CurrentIsOfDoc DEF Rendered
  <2> QED
    BY <2>1, <2>2
<1>6. ASSUME NEW j \in jobs, Compressed(j) \/ CompressionFails(j) PROVE ClearedStaysBlank'
  <2>1. cleared => ~MayWriteHash(j)
    BY WrittenIsCurrent, EditorAssumption
  <2>2. cleared => hash' = None
    BY <1>6, <2>1 DEF Compressed, CompressionFails
  <2> QED
    BY <1>6, <2>2 DEF Compressed, CompressionFails, page, saved, history
<1>7. CASE CopyLink \/ CopyMarkup \/ (\E x \in exports : FinishExport(x))
  BY <1>7 DEF CopyLink, CopyMarkup, FinishExport, UpdateHash, page, link, saved, history
<1>8. CASE SaveDraft
  BY <1>8 DEF SaveDraft, page, link
<1>9. CASE UNCHANGED <<page, link, draft, misled, loading, cleared>>
  BY <1>9 DEF page, link
<1> QED
  BY <1>1, <1>2, <1>3, <1>4, <1>5, <1>6, <1>7, <1>8, <1>9, SessionSteps

\* The address is changed only by Clear, a broken link and a compression.
LEMMA LinkStepIsCurrent ==
    ASSUME SessionInv, [Next]_vars, hash' # hash
    PROVE  hash' = None \/ (hash' = doc /\ doc.source \in Verified)
<1> USE DEF SessionInv
<1>1. CASE Clear \/ Load
  BY <1>1 DEF Clear, Load, Restore
<1>2. CASE Reload \/ Edit \/ Fire \/ CopyLink \/ SaveDraft \/ CopyMarkup
  BY <1>2 DEF Reload, Edit, Fire, CopyLink, UpdateHash, SaveDraft, CopyMarkup, link
<1>3. ASSUME NEW r \in renders, Rendered(r) PROVE hash' = hash
  BY <1>3 DEF Rendered, UpdateHash, link
<1>4. ASSUME NEW j \in jobs, Compressed(j) \/ CompressionFails(j)
      PROVE hash' = None \/ (hash' = doc /\ doc.source \in Verified)
  BY <1>4, WrittenIsCurrent DEF Compressed, CompressionFails
<1>5. CASE (\E x \in exports : FinishExport(x)) \/ UNCHANGED <<page, link, draft, misled, loading, cleared>>
  BY <1>5 DEF FinishExport, link
<1> QED
  BY <1>1, <1>2, <1>3, <1>4, <1>5, SessionSteps

-----------------------------------------------------------------------------
LEMMA InitSession == Init => SessionInv
BY InitTypes DEF Init, SessionInv, RendersAreOfVersion, ArtifactIsVerified,
   NewestLinkIsCurrent, ArtifactIsCurrent, DeliveredIsCurrent, ClearedStaysBlank

LEMMA SessionKept == SessionInv /\ [Next]_vars => SessionInv'
BY TypesKept, RendersOfVersionKept, ArtifactKept, NewestLinkKept, DeliveredKept, ClearedKept
   DEF SessionInv

\* The inductive invariant of the page.
THEOREM SessionInvariant == Spec => []SessionInv
BY InitSession, SessionKept, PTL DEF Spec

\* No edit, clear or late render leaves an artifact of another document.
THEOREM ArtifactCurrent == Spec => []ArtifactIsCurrent
<1>1. SessionInv => ArtifactIsCurrent
  BY DEF SessionInv
<1> QED
  BY <1>1, SessionInvariant, PTL

\* Every file, image and copied link is of the document on screen.
THEOREM DeliveredCurrent == Spec => []DeliveredIsCurrent
<1>1. SessionInv => DeliveredIsCurrent
  BY DEF SessionInv
<1> QED
  BY <1>1, SessionInvariant, PTL

\* Nothing comes back after Clear.
THEOREM ClearedBlank == Spec => []ClearedStaysBlank
<1>1. SessionInv => ClearedStaysBlank
  BY DEF SessionInv
<1> QED
  BY <1>1, SessionInvariant, PTL

\* The address only changes to a link of the verified document on screen.
THEOREM LinkCurrent == Spec => LinkIsCurrent
<1>1. SessionInv /\ [Next]_vars =>
          [hash' # hash => hash' = None \/ (hash' = doc /\ doc.source \in Verified)]_vars
  BY LinkStepIsCurrent
<1> QED
  BY <1>1, SessionInvariant, PTL DEF Spec, LinkIsCurrent

=============================================================================
