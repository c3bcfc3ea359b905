------------------------------ MODULE EditCore ------------------------------
(***************************************************************************)
(* The checked editing loop of src/src/agent (mutate.ts, apply.ts and the  *)
(* round trip of verify.ts), the same for every diagram family.  A family  *)
(* module instantiates it with its own parser, serializer and verifier.    *)
(*                                                                         *)
(* A caller holds the text it last received (`published`, kept as the body *)
(* that text parses to) and a working copy (`body`).  Operations are       *)
(* folded over the working copy; the copy replaces the text only when the  *)
(* verifier finds no error in it.                                          *)
(*                                                                         *)
(* A partial function of the code (a parser that gives up, an operation    *)
(* that is refused) is an operator that returns a set with at most one     *)
(* element: {} stands for null or for the error result.                    *)
(***************************************************************************)
EXTENDS Naturals

CONSTANTS Reparse(_),     \* the body of the text the body serializes to
          Empty(_),       \* the family's verifier says EMPTY_DIAGRAM
          Rejected(_),    \* the verifier reports a warning of error severity
          Tally(_),       \* structural-count.ts of the body
          MaxOps          \* bound: operations in a behaviour

VARIABLES published, body, ops

\* Verify reports CONTENT_DROPPED_ON_ROUNDTRIP (a warning, not an error); a text
\* that would be opaque is left to the check of Commit.
LossReported(b) == \E r \in Reparse(b) : Tally(r) # Tally(b)

Begin(documents) ==
  /\ published \in documents
  /\ body = published
  /\ ops = 0

\* One accepted operation: its result must serialize to text that parses back
\* to the same family and representation, or be an empty scaffold.
Commit(results) ==
  /\ ops < MaxOps
  /\ \E b \in results :
        /\ Reparse(b) # {} \/ Empty(b)
        /\ body' = b
  /\ ops' = ops + 1
  /\ UNCHANGED published

\* A refused operation stops the batch: the caller keeps the text it had.
Refuse ==
  /\ body # published
  /\ body' = published
  /\ UNCHANGED <<published, ops>>

\* The end of a batch: the verified text replaces the caller's, and the next
\* batch parses it; a body the verifier rejects is not emitted.
Publish ==
  /\ ops > 0
  /\ IF Rejected(body)
       THEN body' = published /\ UNCHANGED published
       ELSE \E b \in Reparse(body) : published' = b /\ body' = b
  /\ UNCHANGED ops
=============================================================================
