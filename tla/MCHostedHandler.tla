-------------------------- MODULE MCHostedHandler --------------------------
(* Two or three HTTP requests over one cache, two deploys, two pure calls *)
(* and one that is a tool error.                                          *)
EXTENDS HostedHandler, TLC

CONSTANTS c1, c2, cbad

MCLegacy == {20241105, 20250326, 20250618}
MCModern == {20260728}
MCUnknown == {20990101}
MCHosted == {20250326, 20250618, 20260728}
MCCalls == {c1, c2, cbad}
MCErr == {cbad}

Message1(claim) == [valid |-> TRUE, hasId |-> TRUE, method |-> "other", claim |-> claim,
                    metaOk |-> TRUE, offer |-> None]
Quiet(m) == [m EXCEPT !.hasId = FALSE]
Broken(m) == [m EXCEPT !.valid = FALSE]
Old == Message1(None)
New == Message1(20260728)

Ask(m, w) == [msg |-> m, work |-> w]
Body(h, b, items) ==
    [header |-> h, batch |-> b, items |-> items, mirrorsOk |-> TRUE]
Single(h, m, w) == Body(h, FALSE, <<Ask(m, w)>>)
Batch(h, items) == Body(h, TRUE, items)

Singles ==
    {Single(None, Old, w) : w \in {c1, cbad, "execute", "method"}} \cup
    {Single(20260728, New, w) : w \in {c1, "arguments", "unknown"}} \cup
    {Single(20250618, Old, c1), Single(20990101, Old, c1), Single(None, New, c1),
     Single(None, Broken(Old), "method"), Single(None, Quiet(Old), c1),
     [Single(20260728, New, c1) EXCEPT !.mirrorsOk = FALSE]}

Batches ==
    {Batch(None, <<Ask(Old, c1), Ask(Old, w)>>) : w \in {c2, "execute", "method"}} \cup
    {Batch(None, <<Ask(Old, c1), Ask(Old, c1)>>),
     Batch(None, <<Ask(Old, "execute"), Ask(Quiet(Old), "execute")>>),
     Batch(None, <<Ask(Quiet(Old), "method")>>),
     Batch(None, <<Ask(New, c1), Ask(Old, c1)>>),
     Batch(None, <<Ask(Broken(Old), "method"), Ask(Old, c1)>>),
     Batch(None, <<>>),
     Batch(20250618, <<Ask(Old, c1)>>), Batch(20990101, <<Ask(Old, c1)>>),
     Batch(None, <<Ask(Old, c1), Ask(Old, c2), Ask(Old, cbad)>>)}

MCBodies == Singles \cup Batches
CacheBodies == {Single(None, Old, c1), Single(20260728, New, c1),
                Batch(None, <<Ask(Old, c1), Ask(Old, c2)>>)}

CONSTANTS h1, h2, h3
ThreeRequests == {h1, h2, h3}

\* Two requests with any bodies; a third one only among calls of one pure tool.
Scope ==
    LET came == {r \in Requests : body[r] # None}
    IN  Cardinality(came) <= 2
        \/ \A r \in came : body[r] \in CacheBodies /\ ~body[r].batch
MCSymmetry == Permutations(Requests)
=============================================================================
