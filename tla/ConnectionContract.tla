------------------------- MODULE ConnectionContract -------------------------
(***************************************************************************)
(* What one MCP connection promises its client, without gates, promises or *)
(* maps: an exchange opens once, is answered at most once and never after  *)
(* it was cancelled, and closes; the era is chosen once; the connection    *)
(* ends only when no exchange is open.                                     *)
(***************************************************************************)
EXTENDS Naturals

CONSTANTS Exchanges, NoEra

VARIABLES
    pinned,     \* the era of the connection, or NoEra
    state,      \* of each exchange: "new", "open" or "closed"
    answers,    \* how many responses each exchange has had
    cancelled,  \* the exchanges that may no longer be answered
    ended       \* the server has released its resources

cvars == <<pinned, state, answers, cancelled, ended>>

CInit ==
    /\ pinned = NoEra
    /\ state = [x \in Exchanges |-> "new"]
    /\ answers = [x \in Exchanges |-> 0]
    /\ cancelled = {}
    /\ ended = FALSE

Idle == \A x \in Exchanges : state[x] # "open"

Open(x) ==
    /\ ~ended /\ state[x] = "new"
    /\ state' = [state EXCEPT ![x] = "open"]
    /\ UNCHANGED <<pinned, answers, cancelled, ended>>

\* A line that is no request is over at once: unreadable ones are answered,
\* a cancellation silences some of the open exchanges.
Control(x) ==
    /\ ~ended /\ state[x] = "new"
    /\ state' = [state EXCEPT ![x] = "closed"]
    /\ answers' \in {answers, [answers EXCEPT ![x] = 1]}
    /\ \E S \in SUBSET {y \in Exchanges : state[y] = "open"} : cancelled' = cancelled \cup S
    /\ UNCHANGED <<pinned, ended>>

Answer(x) ==
    /\ state[x] = "open" /\ answers[x] = 0 /\ x \notin cancelled
    /\ answers' = [answers EXCEPT ![x] = 1]
    /\ pinned = NoEra \/ pinned' = pinned
    /\ UNCHANGED <<state, cancelled, ended>>

Pin ==
    /\ pinned = NoEra /\ pinned' # NoEra
    /\ UNCHANGED <<state, answers, cancelled, ended>>

Close(x) ==
    /\ state[x] = "open"
    /\ state' = [state EXCEPT ![x] = "closed"]
    /\ UNCHANGED <<pinned, answers, cancelled, ended>>

End == Idle /\ ended' = TRUE /\ UNCHANGED <<pinned, state, answers, cancelled>>

CNext ==
    \/ \E x \in Exchanges : Open(x) \/ Control(x) \/ Answer(x) \/ Close(x)
    \/ Pin
    \/ End

CSpec == CInit /\ [][CNext]_cvars
=============================================================================
