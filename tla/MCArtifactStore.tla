-------------------------- MODULE MCArtifactStore --------------------------
(* Two processes and three artifacts of one and two bytes; the quotas admit *)
(* two artifacts and two bytes.                                             *)
EXTENDS ArtifactStore, TLC

CONSTANTS p1, p2, n1, n2, n3

MCProcs == {p1, p2}
MCNames == {n1, n2, n3}
MCSize == [n \in MCNames |-> IF n = n3 THEN 2 ELSE 1]
SameMax == [p \in MCProcs |-> 2]
SameTotal == [p \in MCProcs |-> 2]
MCSymmetry == Permutations(MCProcs)

\* A lock in use is removed before anything but the first artifact exists,
\* and with a second fault nobody else touches the files and nothing crashes.
Scope ==
    /\ usurped => /\ clock = 0 /\ strays = {} /\ faults < 2 /\ tampered = {}
                  /\ \A n \in Names : n # n1 => expiry[n] = 0
    /\ faults = 2 => tampered = {} /\ crashes = 0
=============================================================================
