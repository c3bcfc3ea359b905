------------------------- MODULE MCStdioCoordinator -------------------------
(***************************************************************************)
(* Small instances of StdioCoordinator: three or four lines, the revisions *)
(* of the source that matter to a connection, and the shapes of message    *)
(* that take different paths through the gate.                             *)
(***************************************************************************)
EXTENDS StdioContract

MCLegacy == {20241105, 20250326, 20250618}
MCModern == {20260728}
MCUnknown == {20990101}
MCStdio == {20241105, 20250618, 20260728}

Request(method, claim, metaOk, offer) ==
    [valid |-> TRUE, hasId |-> TRUE, method |-> method, claim |-> claim,
     metaOk |-> metaOk, offer |-> offer]

LegacyInitialize == Request("initialize", None, FALSE, 20241105)
NewerInitialize == Request("initialize", None, FALSE, 20250618)
BadInitialize == Request("initialize", None, FALSE, None)
ModernInitialize == Request("initialize", 20260728, TRUE, None)
LegacyCall == Request("other", None, FALSE, None)
ModernCall == Request("other", 20260728, TRUE, None)
BadMetadata == Request("other", 20260728, FALSE, None)
LegacyNotification == [LegacyCall EXCEPT !.hasId = FALSE]
InitializeNotification == [LegacyInitialize EXCEPT !.hasId = FALSE]
Malformed == [LegacyCall EXCEPT !.valid = FALSE]

MCInputs == {LegacyInitialize, NewerInitialize, BadInitialize, ModernInitialize,
             LegacyCall, ModernCall, BadMetadata, InitializeNotification, Malformed}

CoreInputs == {LegacyInitialize, LegacyCall, ModernCall, LegacyNotification}

\* Ids vary over the core inputs; the other inputs are explored with one id.
CONSTANTS a, b, c, d
Scope ==
    \/ \A l \in Lines : line[l].id \in {a, None}
    \/ /\ \A l \in Lines : line[l].msg \in CoreInputs \cup {None}
       /\ {b, c, d} \cap {line[l].id : l \in Lines} \in {{b}, {c}, {c, d}}
=============================================================================
