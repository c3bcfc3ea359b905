---------------------------- MODULE SankeyEditing ----------------------------
(***************************************************************************)
(* Sankey diagrams under the checked editing loop: src/src/agent/          *)
(* sankey-body.ts over the parser of src/src/sankey.                       *)
(*                                                                         *)
(* A body is its links; nodes are the labels they name, and two links      *)
(* between the same nodes are told apart by their order.  The flow must    *)
(* stay acyclic whatever is added or renamed.                              *)
(* Left out: the quoting of fields and labels refused for their letters.   *)
(***************************************************************************)
EXTENDS Naturals, FiniteSets, Sequences, SequencesExt

CONSTANTS Comments,        \* labels that, first on a line, make it a comment
          Sources,         \* authored sources: sequences of links
          Labels, Values,  \* arguments of operations
          MaxOps

VARIABLES published, body, ops

Link(source, target, value) == [source |-> source, target |-> target, value |-> value]
LabelsOf(b) == UNION {{link.source, link.target} : link \in ToSet(b)}
Between(b, source, target) == {k \in DOMAIN b : b[k].source = source /\ b[k].target = target}

Blank == << >>
EmptyDiagram(b) == b = Blank
Rejected(b) == EmptyDiagram(b)

\* A cycle is links of which each begins where another one ends.
Cyclic(b) ==
  \E cycle \in (SUBSET DOMAIN b) \ {{}} :
     \A k \in cycle : \E m \in cycle : b[m].target = b[k].source

ReadLine(b, link) == IF link.source \in Comments THEN b ELSE Append(b, link)

Parse(rows) ==
  LET links == FoldLeft(ReadLine, Blank, rows)
  IN IF links = << >> \/ Cyclic(links) THEN {} ELSE {links}

Render(b) == b
Reparse(b) == Parse(Render(b))
Tally(b) == <<Cardinality(LabelsOf(b)), Len(b), 0>>

Core == INSTANCE EditCore WITH Empty <- EmptyDiagram

(* ------------------------------ operations ------------------------------ *)

\* Every operation ends with the check of the whole body; a self-loop is a cycle.
Checked(b) == IF Cyclic(b) THEN {} ELSE {b}

AddLink(b, at, link) == Checked(InsertAt(b, at, link))

\* The links with these ends are counted in their order, from 0.
FindLink(b, source, target, occurrence) ==
  {k \in Between(b, source, target) : Cardinality({m \in Between(b, source, target) : m < k}) = occurrence}
RemoveLink(b, source, target, occurrence) ==
  UNION {Checked(RemoveAt(b, k)) : k \in FindLink(b, source, target, occurrence)}
SetLinkValue(b, source, target, occurrence, value) ==
  UNION {Checked([b EXCEPT ![k].value = value]) : k \in FindLink(b, source, target, occurrence)}

\* A label is the node: the new one may belong to no other node.
RenameNode(b, from, to) ==
  LET name(label) == IF label = from THEN to ELSE label
  IN IF to \in LabelsOf(b) \ {from} THEN {}
     ELSE Checked([k \in DOMAIN b |-> [b[k] EXCEPT !.source = name(@), !.target = name(@)]])

(* -------------------------------- actions ------------------------------- *)

vars == <<published, body, ops>>
Occurrences == 0 .. Len(body) - 1

add_link ==
  \E source, target \in Labels \union LabelsOf(body), value \in Values, at \in 1 .. Len(body) + 1 :
     Core!Commit(AddLink(body, at, Link(source, target, value)))
remove_link ==
  \E source, target \in LabelsOf(body), occurrence \in Occurrences :
     Core!Commit(RemoveLink(body, source, target, occurrence))
set_link_value ==
  \E source, target \in LabelsOf(body), occurrence \in Occurrences, value \in Values :
     Core!Commit(SetLinkValue(body, source, target, occurrence, value))
rename_node == \E from \in LabelsOf(body), to \in Labels : Core!Commit(RenameNode(body, from, to))

\* A diagram starts as authored text or as the draft of createMermaid.
Init == Core!Begin({Blank} \union UNION {Parse(source) : source \in Sources})

Next ==
  \/ add_link \/ remove_link \/ set_link_value \/ rename_node
  \/ Core!Refuse \/ Core!Publish

Spec == Init /\ [][Next]_vars

(* ------------------------------ properties ------------------------------ *)

\* The layout has a place for every node: some numbering of the nodes goes up
\* along every link (findSankeyCycle, whose depth-first search this does not repeat).
ReferencesResolve ==
  \E layer \in [LabelsOf(body) -> 1 .. Cardinality(LabelsOf(body))] :
     \A link \in ToSet(body) : layer[link.source] < layer[link.target]

\* Links that begin with a comment go with the text, and are counted.
LossIsAnnounced ==
  Rejected(body) \/ Core!LossReported(body) \/ \A r \in Reparse(body) : r = body

\* No operation merges two nodes or splits one: what a link says of two ends
\* being one node is the same for every link that is still there.
KeepsNodes ==
  (ops' # ops /\ Len(body') = Len(body))
  => \A k, m \in DOMAIN body :
       /\ (body'[k].source = body'[m].source) = (body[k].source = body[m].source)
       /\ (body'[k].source = body'[m].target) = (body[k].source = body[m].target)
       /\ (body'[k].target = body'[m].target) = (body[k].target = body[m].target)
=============================================================================
