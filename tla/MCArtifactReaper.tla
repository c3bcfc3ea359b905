-------------------------- MODULE MCArtifactReaper --------------------------
(* One owner of an implicit namespace with two artifacts. *)
EXTENDS ArtifactReaper, TLC

CONSTANTS p1, n1, n2, r1, r2

MCProcs == {p1}
MCNames == {n1, n2}
OneReaper == {r1}
TwoReapers == {r1, r2}
MCSize == [n \in MCNames |-> 1]
MCMax == [p \in MCProcs |-> 2]
MCSymmetry == Permutations(MCNames) \cup Permutations(TwoReapers)
=============================================================================
