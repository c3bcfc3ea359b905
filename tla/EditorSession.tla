--------------------------- MODULE EditorSession ---------------------------
(***************************************************************************)
(* The live editor page (editor/js): a debounced, asynchronous render of   *)
(* the source, the verified artifact that exports and share links are      *)
(* taken from, the compressed share link in the address bar, the draft in  *)
(* sessionStorage, and what a reload restores.                             *)
(*                                                                         *)
(* A document is a source with its options: style, seed, palette and       *)
(* config together.  Whether a source renders and verifies is a property   *)
(* of the source (Verified); a failed render, whose error replaces the     *)
(* picture, and a picture that fails verification both leave no artifact.  *)
(* An artifact, its source and the digest of the preview are set and       *)
(* cleared together by the code and are one variable here.                 *)
(***************************************************************************)
EXTENDS Integers, FiniteSets

CONSTANTS
    Sources,        \* editor contents
    Empty,          \* the blank one
    DefaultSource,  \* DEFAULT_SOURCE of init.js
    Verified,       \* the sources that render and verify
    Options,        \* render options
    Links,          \* the hashes the page may be opened with
    None,           \* nothing: no artifact, blank preview, no hash, no draft
    Broken,         \* a hash that does not decode
    MaxVersion,     \* bound: renders asked for by the user, per page load
    MaxToken,       \* bound: share links asked for by the user, per page load
    MaxExports      \* bound: exports in flight

Docs == [source : Sources, options : Options]

ASSUME EditorAssumption ==
    /\ {Empty, DefaultSource} \subseteq Sources
    /\ Verified \subseteq Sources \ {Empty}
    /\ Links \subseteq [source : Sources \ {Empty}, options : Options] \cup {None, Broken}
    /\ MaxVersion \in Nat \ {0} /\ MaxToken \in Nat /\ MaxExports \in Nat

ASSUME NothingIsNoDocument == None \notin Docs /\ Broken \notin Docs \cup {None}

VARIABLES
    doc,        \* editor.value and state
    version,    \* renderRequestVersion
    timer,      \* renderTimer is set (always for the newest version)
    renders,    \* renders in flight
    artifact,   \* lastRenderedSvgArtifact: the document it was rendered from
    preview,    \* the document whose picture or error is on screen
    hash,       \* location.hash
    token,      \* hashUpdateToken
    jobs,       \* share links being compressed
    draft,      \* the saved draft
    draftTimer, \* draftSaveTimer is set
    notice,     \* the restored draft can be discarded
    exports,    \* exports in flight
    misled,     \* history: something handed out was not of the document on screen
    loading,    \* initializeEditorSource has not decoded the hash yet
    cleared     \* history: cleared and not edited since

page == <<doc, version, timer, renders, artifact, preview>>
link == <<hash, token, jobs>>
saved == <<draft, draftTimer, notice>>
history == <<loading, cleared>>
vars == <<page, link, saved, exports, misled, history>>

-----------------------------------------------------------------------------
\* Defective variants, the mutants, each stand before the definition they
\* replace.

\* A late render counts as current if its source still is, or its version.
IsCurrentSource(r) == r.doc.source = doc.source
IsCurrentVersion(r) == r.version = version

\* isCurrentRender
IsCurrentRender(r) == r.version = version /\ r.doc.source = doc.source

\* hasCurrentVerifiedSvgArtifact
HasCurrentArtifact == artifact # None /\ artifact.source = doc.source

\* scheduleRender: the old picture stays, its artifact does not.
ScheduleRender ==
    /\ version' = version + 1
    /\ timer' = TRUE
    /\ artifact' = None

\* The token of the newest request is never stored.
UpdateHashUncounted(verified, d, copy) ==
    IF verified
    THEN /\ jobs' = jobs \cup {[token |-> token + 1, doc |-> d, copy |-> copy]}
         /\ UNCHANGED <<hash, token>>
    ELSE UNCHANGED link

\* updateHash of document d, with or without a verified artifact to share.
UpdateHash(verified, d, copy) ==
    IF verified
    THEN /\ token' = token + 1
         /\ jobs' = jobs \cup {[token |-> token + 1, doc |-> d, copy |-> copy]}
         /\ UNCHANGED hash
    ELSE UNCHANGED link

UserMayRender == version < MaxVersion

\* A file, an image or a link of document d leaves the page.
Deliver(d) == misled' = (misled \/ d # doc)

-----------------------------------------------------------------------------
(* The page opens with the hash of a link, or none; the color mode, applied *)
(* first, asks for a render of the still empty editor.                      *)
FreshPage(o) ==
    /\ doc' = [source |-> Empty, options |-> o]
    /\ version' = 1 /\ timer' = TRUE /\ renders' = {}
    /\ artifact' = None /\ preview' = None
    /\ token' = 0 /\ jobs' = {}
    /\ draftTimer' = FALSE /\ notice' = FALSE
    /\ exports' = {}
    /\ loading' = TRUE

Init ==
    /\ \E o \in Options : doc = [source |-> Empty, options |-> o]
    /\ version = 1 /\ timer = TRUE /\ renders = {}
    /\ artifact = None /\ preview = None
    /\ hash \in Links /\ token = 0 /\ jobs = {}
    /\ draft = None /\ draftTimer = FALSE /\ notice = FALSE
    /\ exports = {} /\ misled = FALSE
    /\ loading = TRUE /\ cleared = FALSE

\* The browser reloads the page; saved preferences may be any.
Reload ==
    /\ \E o \in Options : FreshPage(o)
    /\ cleared' = FALSE
    /\ UNCHANGED <<hash, draft, misled>>

(* initializeEditorSource after the hash is decoded: a link wins over the  *)
(* draft, a broken link is removed, and nothing else is restored then.     *)
Restore ==
    \/ /\ hash \in Docs
       /\ doc' = hash
       /\ UNCHANGED <<hash, notice>>
    \/ /\ hash = Broken
       /\ \E o \in Options : doc' = [source |-> Empty, options |-> o]
       /\ hash' = None
       /\ UNCHANGED notice
    \/ /\ hash = None /\ draft # None
       /\ doc' = draft
       /\ notice' = TRUE
       /\ UNCHANGED hash
    \/ /\ hash = None /\ draft = None
       /\ doc' = [doc EXCEPT !.source = DefaultSource]
       /\ UNCHANGED <<hash, notice>>

Load ==
    /\ loading
    /\ Restore
    /\ ScheduleRender
    /\ loading' = FALSE /\ cleared' = FALSE
    /\ UNCHANGED <<renders, preview, token, jobs, draft, draftTimer, exports, misled>>

-----------------------------------------------------------------------------
\* The input handler, and the Tab key.
Type(s) ==
    /\ UserMayRender
    /\ doc' = [doc EXCEPT !.source = s]
    /\ ScheduleRender
    /\ draftTimer' = TRUE
    /\ cleared' = FALSE
    /\ UNCHANGED <<renders, preview, link, draft, notice, exports, misled, loading>>

\* setStyle and setTheme: the draft is not saved again.
Restyle(o) ==
    /\ UserMayRender
    /\ doc' = [doc EXCEPT !.options = o]
    /\ ScheduleRender
    /\ UNCHANGED <<renders, preview, link, saved, exports, misled, history>>

\* readConfig and the scheduleRender each of its callers does next.
Reconfigure(o) ==
    /\ UserMayRender
    /\ doc' = [doc EXCEPT !.options = o]
    /\ UpdateHash(HasCurrentArtifact, doc', FALSE)
    /\ ScheduleRender
    /\ draftTimer' = TRUE
    /\ UNCHANGED <<renders, preview, draft, notice, exports, misled, history>>

\* Ctrl+Enter, and a change of color mode.
Rerender ==
    /\ UserMayRender
    /\ ScheduleRender
    /\ UNCHANGED <<doc, renders, preview, link, saved, exports, misled, history>>

\* loadEditorExample: its updateHash finds the artifact just revoked.
LoadExample(d) ==
    /\ UserMayRender /\ d.source # Empty
    /\ doc' = d
    /\ ScheduleRender
    /\ draftTimer' = TRUE
    /\ cleared' = FALSE
    /\ UNCHANGED <<renders, preview, link, draft, notice, exports, misled, loading>>

\* clearEditor leaves timers, versions and renders in flight alone.
Clear ==
    /\ doc' = [doc EXCEPT !.source = Empty]
    /\ draft' = None /\ draftTimer' = FALSE
    /\ preview' = None /\ artifact' = None
    /\ hash' = None
    /\ cleared' = TRUE
    /\ UNCHANGED <<version, timer, renders, token, jobs, notice, exports, misled, loading>>

\* discardRestoredDraft, while its notice is on screen.
Discard ==
    /\ notice /\ UserMayRender
    /\ \E o \in Options : doc' = [source |-> DefaultSource, options |-> o]
    /\ draft' = None /\ draftTimer' = FALSE /\ notice' = FALSE
    /\ ScheduleRender
    /\ cleared' = FALSE
    /\ UNCHANGED <<renders, preview, link, exports, misled, loading>>

-----------------------------------------------------------------------------
\* The render timer fires: doRender up to its await.
Fire ==
    /\ timer
    /\ timer' = FALSE
    /\ IF doc.source = Empty
       THEN preview' = None /\ artifact' = None /\ UNCHANGED renders
       ELSE /\ renders' = renders \cup {[version |-> version, doc |-> doc]}
            /\ UNCHANGED <<preview, artifact>>
    /\ UNCHANGED <<doc, version, link, saved, exports, misled, history>>

\* The rest of doRender: a stale result changes nothing.
Rendered(r) ==
    /\ renders' = renders \ {r}
    /\ LET current == IsCurrentRender(r)
           verified == current /\ r.doc.source \in Verified
       IN  /\ preview' = IF current THEN r.doc ELSE preview
           /\ artifact' = IF ~current THEN artifact
                          ELSE IF verified THEN r.doc ELSE None
           /\ UpdateHash(verified, doc, FALSE)
    /\ UNCHANGED <<doc, version, timer, saved, exports, misled, history>>

\* copyURL: copies the address once updateHash has written it.
CopyLink ==
    /\ token < MaxToken /\ HasCurrentArtifact
    /\ UpdateHash(TRUE, doc, TRUE)
    /\ UNCHANGED <<page, saved, exports, misled, history>>

\* Any compression may write, not only the newest.
MayWriteHashAnyToken(j) == HasCurrentArtifact /\ j.doc.source = doc.source

MayWriteHash(j) == j.token = token /\ HasCurrentArtifact /\ j.doc.source = doc.source

Compressed(j) ==
    /\ jobs' = jobs \ {j}
    /\ hash' = IF MayWriteHash(j) THEN j.doc ELSE hash
    /\ IF MayWriteHash(j) /\ j.copy THEN Deliver(j.doc) ELSE UNCHANGED misled
    /\ UNCHANGED <<page, token, saved, exports, history>>

\* The old address stays.
CompressionFailsQuietly(j) ==
    /\ jobs' = jobs \ {j}
    /\ UNCHANGED <<page, hash, token, saved, exports, misled, history>>

\* Too large, or no CompressionStream: the newest request removes the link.
CompressionFails(j) ==
    /\ jobs' = jobs \ {j}
    /\ hash' = IF j.token = token THEN None ELSE hash
    /\ UNCHANGED <<page, token, saved, exports, misled, history>>

\* saveEditorDraft: an oversized draft, or a full storage, leaves none.
SaveDraft ==
    /\ draftTimer
    /\ draftTimer' = FALSE
    /\ draft' \in IF doc.source = Empty THEN {None} ELSE {doc, None}
   
    /\ UNCHANGED <<page, link, notice, exports, misled, loading, cleared>>

-----------------------------------------------------------------------------
\* exportPNG, copyPNG and exportSVG up to their first await.
StartExport(kind) ==
    /\ HasCurrentArtifact /\ Cardinality(exports) < MaxExports
    /\ exports' = exports \cup
           {[kind |-> kind, version |-> version, doc |-> doc, shown |-> artifact]}
    /\ UNCHANGED <<page, link, saved, misled, history>>

\* Only the source is compared.
SameSource(x) == x.doc.source = doc.source

\* The checks on the bytes that come back: both kinds compare the version and
\* the preview, the PNG, drawn anew from the document, also source and digest.
StillCurrent(x) ==
    /\ x.version = version
    /\ x.shown = artifact
    /\ x.kind = "png" => x.doc.source = doc.source /\ x.doc = x.shown

FinishExport(x) ==
    /\ exports' = exports \ {x}
    /\ IF StillCurrent(x)
       THEN Deliver(IF x.kind = "png" THEN x.doc ELSE x.shown)
       ELSE UNCHANGED misled
    /\ UNCHANGED <<page, link, saved, history>>

ExportFails(x) ==
    /\ exports' = exports \ {x}
    /\ UNCHANGED <<page, link, saved, misled, history>>

\* Copy SVG markup hands out the artifact at once.
CopyMarkup ==
    /\ HasCurrentArtifact
    /\ Deliver(artifact)
    /\ UNCHANGED <<page, link, saved, exports, history>>

-----------------------------------------------------------------------------
Browser ==
    \/ Fire
    \/ \E r \in renders : Rendered(r)
    \/ \E j \in jobs : Compressed(j) \/ CompressionFails(j)
    \/ SaveDraft
    \/ \E x \in exports : FinishExport(x) \/ ExportFails(x)
    \/ Load

User ==
    \/ \E s \in Sources : Type(s)
    \/ \E o \in Options : Restyle(o) \/ Reconfigure(o)
    \/ \E d \in Docs : LoadExample(d)
    \/ Rerender \/ Clear \/ Discard \/ CopyLink \/ CopyMarkup \/ Reload
    \/ \E kind \in {"png", "svg"} : StartExport(kind)

Next == Browser \/ User

Spec == Init /\ [][Next]_vars

\* Timers fire and promises settle; nothing is asked of the user.
Fairness ==
    /\ WF_vars(Fire) /\ WF_vars(Load)
    /\ WF_vars(\E r \in renders : Rendered(r))
    /\ WF_vars(\E j \in jobs : Compressed(j) \/ CompressionFails(j))

FairSpec == Spec /\ Fairness

-----------------------------------------------------------------------------
MaybeDocs == Docs \cup {None}
RenderUpTo(v) == [version : 1..v, doc : Docs]
LinkUpTo(t) == [token : 1..t, doc : Docs, copy : BOOLEAN]
ExportUpTo(v) == [kind : {"png", "svg"}, version : 1..v, doc : Docs, shown : Docs]

\* Every variable holds what the code puts in it.
TypeOK ==
    /\ doc \in Docs /\ version \in 1 .. MaxVersion + 1 /\ timer \in BOOLEAN
    /\ renders \subseteq RenderUpTo(version)
    /\ artifact \in MaybeDocs /\ preview \in MaybeDocs
    /\ hash \in MaybeDocs \cup {Broken} /\ token \in Nat
    /\ jobs \subseteq LinkUpTo(token)
    /\ draft \in MaybeDocs /\ draftTimer \in BOOLEAN /\ notice \in BOOLEAN
    /\ exports \subseteq ExportUpTo(version)
    /\ misled \in BOOLEAN
    /\ loading \in BOOLEAN /\ cleared \in BOOLEAN

\* An artifact is of the document in the editor, options included, and is what
\* the preview shows: no edit, restyle, clear or late render leaves a stale one.
ArtifactIsCurrent == artifact # None => artifact = doc /\ preview = doc

\* What leaves the page, be it a PNG, an SVG or a link, is of the document on
\* screen at that moment, whatever was edited while it was being made.
DeliveredIsCurrent == ~misled

\* The address only ever changes to a link of the verified document on screen,
\* however many compressions overlap.
LinkIsCurrent ==
    [][hash' # hash => hash' = None \/ (hash' = doc /\ doc.source \in Verified)]_vars

\* After Clear no late render, compression or draft timer brings anything back.
ClearedStaysBlank ==
    cleared => doc.source = Empty /\ preview = None /\ hash = None /\ draft = None

\* The screen and the address after the last edit.
Settled ==
    /\ preview = IF doc.source = Empty THEN None ELSE doc
    /\ doc.source \in Verified => artifact = doc /\ hash \in {None, doc}

\* Once nothing more is asked of it, the page shows the last document and the
\* address is of it or of none, behind any stale renders and compressions.
EditorCatchesUp ==
    []<><<version' # version \/ token' # token>>_vars \/ <>[]Settled
=============================================================================
