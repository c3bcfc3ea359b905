---------------------------- MODULE McpAdmission ----------------------------
(***************************************************************************)
(* The pure admission gate every MCP message crosses before dispatch       *)
(* (src/mcp/admission.ts), with the version predicates it uses             *)
(* (src/mcp/protocol-versions.ts).  A protocol revision is a number, its   *)
(* ISO date without dashes, so that "newest" is the greatest.              *)
(*                                                                         *)
(* A message is abstracted to the facts the gate tells apart:              *)
(*   valid   the JSON-RPC envelope is well formed and the id admissible    *)
(*   hasId   the message has an id, i.e. it is not a notification          *)
(*   method  "initialize" or any other method name                         *)
(*   claim   the value under _meta's protocolVersion key, or None          *)
(*   metaOk  the other modern _meta members have the required shapes       *)
(*   offer   initialize's params.protocolVersion, or None when the         *)
(*           params of initialize are malformed                            *)
(***************************************************************************)
EXTENDS Naturals, FiniteSets

CONSTANTS
    LegacyVersions,   \* revisions with an initialize handshake
    ModernVersions,   \* revisions carried by every request
    UnknownVersions,  \* version strings nobody implements
    NotAString,       \* a claim whose JSON value is not a string
    None              \* absent

ASSUME VersionsAreDates ==
    /\ LegacyVersions \subseteq Nat
    /\ ModernVersions \subseteq Nat
    /\ UnknownVersions \subseteq Nat

ASSUME ErasAreDisjoint ==
    /\ LegacyVersions \cap ModernVersions = {}
    /\ UnknownVersions \cap (LegacyVersions \cup ModernVersions) = {}

ASSUME SentinelsAreNotVersions ==
    /\ None # NotAString
    /\ {None, NotAString} \cap (Nat \cup {"legacy", "modern"}) = {}

\* No refusal is told apart from the reasons for one.
ASSUME NoneIsNoReason ==
    None \notin {"invalid-request", "invalid-modern-metadata", "unsupported-version",
                 "header-mismatch"}

KnownVersions == LegacyVersions \cup ModernVersions
Versions == KnownVersions \cup UnknownVersions
Eras == {"legacy", "modern"}

Message ==
    [valid : BOOLEAN, hasId : BOOLEAN, method : {"initialize", "other"},
     claim : Versions \cup {None, NotAString}, metaOk : BOOLEAN,
     offer : Versions \cup {None}]

(***************************************************************************)
(* What the transport contributes: the versions it serves, an HTTP header  *)
(* mirror, the version a stateful connection negotiated, the era it is     *)
(* pinned to, and whether a modern request needs the header mirrors.       *)
(***************************************************************************)
Options ==
    [served : SUBSET KnownVersions, header : Versions \cup {None},
     negotiated : Versions \cup {None}, pinned : Eras \cup {None},
     needsHeader : BOOLEAN, mirrorsOk : BOOLEAN]

-----------------------------------------------------------------------------
IsModernVersion(v) == v \in ModernVersions
IsLegacyVersion(v) == v \in LegacyVersions

RequestedEra(m) == IF m.claim = None THEN "legacy" ELSE "modern"

DeclaredVersion(m) == IF m.claim = NotAString THEN None ELSE m.claim

Served(o) ==
    CASE o.pinned = "legacy" -> o.served \cap LegacyVersions
      [] o.pinned = "modern" -> o.served \cap ModernVersions
      [] OTHER -> o.served

TransportVersion(o) == IF o.negotiated # None THEN o.negotiated ELSE o.header

\* The era an admissible message is served in.
EffectiveEra(m, o) ==
    IF o.pinned # None THEN o.pinned
    ELSE IF IsModernVersion(o.header) \/ IsModernVersion(o.negotiated) THEN "modern"
    ELSE RequestedEra(m)

UnsupportedHeader(o) == o.header # None /\ o.header \notin Served(o)

UnsupportedNegotiated(o) == o.negotiated # None /\ o.negotiated \notin Served(o)

HeaderDisagrees(m, o) ==
    /\ DeclaredVersion(m) # None
    /\ o.header # None
    /\ DeclaredVersion(m) # o.header

CrossesPinnedEra(m, o) == o.pinned # None /\ RequestedEra(m) # o.pinned

\* A legacy revision copied into the modern claim.
LegacyRevisionInModernClaim(m, o) ==
    /\ RequestedEra(m) = "modern"
    /\ IsLegacyVersion(DeclaredVersion(m))
    /\ ~o.needsHeader \/ o.header # None

UnsupportedDeclared(m, o) ==
    DeclaredVersion(m) # None /\ DeclaredVersion(m) \notin Served(o)

\* Checks that apply once the message is known to be served as modern.
ModernRefusal(m, o) ==
    IF ~IsModernVersion(DeclaredVersion(m)) \/ ~m.metaOk THEN "invalid-modern-metadata"
    ELSE IF (o.needsHeader /\ o.header = None) \/ ~o.mirrorsOk THEN "header-mismatch"
    ELSE None

(***************************************************************************)
(* The reason a message is refused, or None.  The order is the code's: the *)
(* first check that fails names the error the client sees.                 *)
(***************************************************************************)
Refusal(m, o) ==
    IF ~m.valid THEN "invalid-request"
    ELSE IF m.claim = NotAString THEN "invalid-modern-metadata"
    ELSE IF UnsupportedHeader(o) \/ UnsupportedNegotiated(o) THEN "unsupported-version"
    ELSE IF HeaderDisagrees(m, o) THEN "header-mismatch"
    ELSE IF \/ CrossesPinnedEra(m, o)
            \/ LegacyRevisionInModernClaim(m, o)
            \/ UnsupportedDeclared(m, o) THEN "unsupported-version"
    ELSE IF EffectiveEra(m, o) = "modern" THEN ModernRefusal(m, o)
    ELSE None

Admitted(m, o) == Refusal(m, o) = None

\* Version in the protocol context handed to dispatch.
ContextVersion(m, o) ==
    IF DeclaredVersion(m) # None THEN DeclaredVersion(m) ELSE TransportVersion(o)

\* A refused notification is silent; a malformed envelope never counts as one.
RefusalIsAnswered(m) == ~m.valid \/ m.hasId

\* Defective variant: what is served, whatever shape the message has.
AdvertisedServed(m, o) == Served(o)

\* Versions an unsupported-version error advertises to the client.
Advertised(m, o) ==
    IF /\ ~UnsupportedHeader(o) /\ ~UnsupportedNegotiated(o)
       /\ ~CrossesPinnedEra(m, o)
       /\ LegacyRevisionInModernClaim(m, o)
    THEN Served(o) \cap ModernVersions
    ELSE Served(o)
=============================================================================
