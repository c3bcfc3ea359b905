--------------------------- MODULE RetryingClient ---------------------------
(***************************************************************************)
(* A client that is refused with an unsupported-version error sends its    *)
(* message again with one of the revisions the error advertises, mirrored  *)
(* in the header if the transport has one.  A client that reshapes its     *)
(* message puts a legacy revision nowhere in the body; one that keeps the  *)
(* shape writes it over the modern claim it made.                          *)
(*                                                                         *)
(* The gate is McpAdmission; the client is external.                       *)
(***************************************************************************)
EXTENDS McpAdmission

CONSTANTS
    Messages,    \* first messages
    Transports,  \* the options the transport passes to the gate
    MaxRetries   \* bound on the retries

ASSUME MessagesAreMessages == Messages \subseteq Message /\ Transports \subseteq Options
ASSUME RetriesAreBounded == MaxRetries \in Nat

\* What the stateless endpoint tells the gate of one message: a header, no state.
IsHttp(o) == o.needsHeader /\ o.negotiated = None /\ o.pinned = None

\* What a connection tells it: no header, and the era it is pinned to, if any.
IsStdio(o) ==
    /\ ~o.needsHeader /\ o.mirrorsOk /\ o.header = None
    /\ \/ o.pinned \in {None, "modern"} /\ o.negotiated = None
       \/ o.pinned = "legacy" /\ o.negotiated \in LegacyVersions /\ o.served = {o.negotiated}

ASSUME TransportsAreOurs == \A o \in Transports : IsHttp(o) \/ IsStdio(o)

VARIABLES msg, opts, reshapes, retries

clientVars == <<msg, opts, reshapes, retries>>

ClientInit ==
    /\ msg \in Messages
    /\ opts \in Transports
    /\ reshapes \in BOOLEAN
    /\ retries = 0

Reshaped(v) ==
    IF (msg.claim # None /\ ~reshapes) \/ IsModernVersion(v)
    THEN [msg EXCEPT !.claim = v, !.metaOk = TRUE]
    ELSE [msg EXCEPT !.claim = None]

Retry ==
    /\ retries < MaxRetries
    /\ Refusal(msg, opts) = "unsupported-version" /\ RefusalIsAnswered(msg)
    /\ \E v \in Advertised(msg, opts) :
          /\ msg' = Reshaped(v)
          /\ opts' = IF opts.needsHeader \/ opts.header # None
                     THEN [opts EXCEPT !.header = v, !.mirrorsOk = TRUE] ELSE opts
    /\ retries' = retries + 1
    /\ UNCHANGED reshapes

ClientNext == Retry
ClientSpec == ClientInit /\ [][ClientNext]_clientVars

-----------------------------------------------------------------------------
\* A modern message is dispatched with a served modern revision, a legacy one
\* with a served legacy revision or with none.
Coherent(era, version) ==
    \/ era = "modern" /\ IsModernVersion(version) /\ version \in Served(opts)
    \/ era = "legacy" /\ version = None
    \/ era = "legacy" /\ IsLegacyVersion(version) /\ version \in Served(opts)

(***************************************************************************)
(* What a refusal advertises can be retried: with the right shape the      *)
(* first retry is admitted; with the shape kept, on a transport that pins  *)
(* no era, the second one is; and dispatch is handed a coherent context.   *)
(***************************************************************************)
RetriesConverge ==
    /\ reshapes /\ retries >= 1 => Admitted(msg, opts)
    /\ ~reshapes /\ opts.pinned = None /\ retries >= 2 => Admitted(msg, opts)
    /\ Admitted(msg, opts) => Coherent(EffectiveEra(msg, opts), ContextVersion(msg, opts))
=============================================================================
