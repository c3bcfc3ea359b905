---------------------------- MODULE StdioContract ----------------------------
(***************************************************************************)
(* The stdio coordinator keeps the connection contract.                    *)
(***************************************************************************)
EXTENDS StdioCoordinator

Contract == INSTANCE ConnectionContract WITH
    Exchanges <- Lines,
    NoEra <- <<None, None>>,
    pinned <- <<era, version>>,
    state <- [l \in Lines |-> IF phase[l] = "unread" THEN "new"
                              ELSE IF phase[l] = "settled" THEN "closed" ELSE "open"],
    answers <- [l \in Lines |-> Len(wire[l])],
    cancelled <- aborted,
    ended <- (life = "closed")

\* Every behaviour of the coordinator is one the contract allows: an answer is
\* written once, never after the abort, the era and the revision are chosen once,
\* and the store closes on an idle server.
KeepsContract == Contract!CSpec
=============================================================================
