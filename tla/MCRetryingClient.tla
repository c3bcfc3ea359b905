-------------------------- MODULE MCRetryingClient --------------------------
(* Every message with a good envelope, on the two transports of the source: *)
(* stateless HTTP with header mirrors, and a connection with an era that    *)
(* negotiated a version of it.                                              *)
EXTENDS RetryingClient

MCLegacy == {20241105, 20250326, 20250618}
MCModern == {20260728}
MCUnknown == {20990101}
MCServed == {20250326, 20250618, 20260728}

MCMessages == {m \in Message : m.valid}

Serves(o) == o.served = IF o.pinned = "legacy" THEN {o.negotiated} ELSE MCServed

MCTransports == {o \in Options : (IsHttp(o) \/ IsStdio(o)) /\ Serves(o)}
=============================================================================
