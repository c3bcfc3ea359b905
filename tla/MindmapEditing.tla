--------------------------- MODULE MindmapEditing ---------------------------
(***************************************************************************)
(* Mind maps under the checked editing loop: the parser and serializer of  *)
(* src/src/mindmap/parser.ts and the operations of                         *)
(* src/src/agent/mindmap-body.ts.                                          *)
(*                                                                         *)
(* The tree is kept as its nodes in the order of the text, each with its   *)
(* depth: a subtree is a run of nodes.  A node of the default shape has no *)
(* id but its label, so operations that touch one or the other must keep   *)
(* them together, and everything is refused that would read back otherwise.*)
(* Left out: delimiters inside a label or an id, an indent that is not     *)
(* that of its depth, and the accessibility texts' blocks.                 *)
(***************************************************************************)
EXTENDS Naturals, FiniteSets, Sequences, SequencesExt

CONSTANTS None,        \* no id in a line, no decoration, no text
          Bold,        \* formatted labels, with the plain text of each
          Sources,     \* authored sources: sequences of lines
          Ids, Labels, Shapes, Texts,   \* arguments of operations
          MaxOps

VARIABLES published, body, ops

Nodes(b) == DOMAIN b.nodes
NodeIds(b) == {b.nodes[k].id : k \in Nodes(b)}
Blank == [nodes |-> << >>, accTitle |-> None, accDescr |-> None]

(* ------------------------------ the parser ------------------------------ *)

PlainLabel(label) == IF label \in DOMAIN Bold THEN Bold[label] ELSE label

\* A node line: without an id of its own the node is called by its plain
\* label; markdown is how a formatted label is written.
Read(line) ==
  [id |-> IF line.id = None THEN PlainLabel(line.label) ELSE line.id,
   label |-> line.label, shape |-> line.shape, depth |-> line.depth,
   markdown |-> line.markdown, icon |-> None, class |-> None]

\* Identities are unique and there is one root; decorations go to the node
\* above them.
ReadLine(b, line) ==
  CASE line.kind = "node" ->
         {[b EXCEPT !.nodes = Append(@, n)] :
            n \in {n \in {Read(line)} : n.id \notin NodeIds(b) /\ (n.depth = 0) = (b.nodes = << >>)}}
    [] line.kind \in {"icon", "class"} ->
         {[b EXCEPT !.nodes[Len(b.nodes)][line.kind] = line.value] : n \in {n \in {1} : b.nodes # << >>}}
    [] OTHER -> {[b EXCEPT ![line.kind] = line.value]}

Parse(lines) ==
  {b \in FoldLeft(LAMBDA bs, line : UNION {ReadLine(b, line) : b \in bs}, {Blank}, lines) : b.nodes # << >>}

(* ---------------------------- the serializer ---------------------------- *)

Decoration(kind, value) == IF value = None THEN << >> ELSE <<[kind |-> kind, value |-> value]>>

\* A label with format tags is written as markdown whether or not it was.
NodeLines(n) ==
  <<[kind |-> "node", id |-> IF n.shape = "default" THEN None ELSE n.id, label |-> n.label,
     shape |-> n.shape, depth |-> n.depth, markdown |-> n.markdown \/ n.label \in DOMAIN Bold]>>
    \o Decoration("icon", n.icon) \o Decoration("class", n.class)

Render(b) ==
  Decoration("accTitle", b.accTitle) \o Decoration("accDescr", b.accDescr)
    \o FlattenSeq([k \in Nodes(b) |-> NodeLines(b.nodes[k])])

Reparse(b) == Parse(Render(b))
EmptyDiagram(b) == FALSE
Tally(b) == <<Len(b.nodes), Len(b.nodes) - 1>>
\* The verifier only measures labels.
Rejected(b) == FALSE

Core == INSTANCE EditCore WITH Empty <- EmptyDiagram

(* ------------------------------ operations ------------------------------ *)

IndexOf(b, id) == CHOOSE k \in Nodes(b) : b.nodes[k].id = id

\* The last position of the subtree of the node at k.
Until(b, k) ==
  CHOOSE last \in k .. Len(b.nodes) :
    /\ \A n \in k + 1 .. last : b.nodes[n].depth > b.nodes[k].depth
    /\ last < Len(b.nodes) => b.nodes[last + 1].depth <= b.nodes[k].depth
Within(b, k) == k .. Until(b, k)

Children(b, k) ==
  SelectSeq([n \in Nodes(b) |-> n], LAMBDA n : n \in Within(b, k) /\ b.nodes[n].depth = b.nodes[k].depth + 1)

\* The position at which the child of this index (from 1) begins.
Slot(b, k, index) == IF index > Len(Children(b, k)) THEN Until(b, k) + 1 ELSE Children(b, k)[index]

Insert(b, at, nodes) == [b EXCEPT !.nodes = SubSeq(@, 1, at - 1) \o nodes \o SubSeq(@, at, Len(@))]
Cut(b, k) == [b EXCEPT !.nodes = SubSeq(@, 1, k - 1) \o SubSeq(@, Until(b, k) + 1, Len(@))]

\* stableNodeSyntax, of a node alone.
Stable(id, label, shape) == shape = "default" => id = PlainLabel(label)

AddNode(b, id, label, parent, shape, index) ==
  IF id \in NodeIds(b) \/ (shape = "default" /\ id # label) \/ ~Stable(id, label, shape) THEN {}
  ELSE {Insert(b, Slot(b, parent, index),
               <<[id |-> id, label |-> label, shape |-> shape, depth |-> b.nodes[parent].depth + 1,
                  markdown |-> FALSE, icon |-> None, class |-> None]>>)}

RemoveNode(b, k, recursive) ==
  IF k = 1 \/ (Children(b, k) # << >> /\ ~recursive) THEN {} ELSE {Cut(b, k)}

RenameNode(b, k, to) ==
  LET label == IF b.nodes[k].shape = "default" THEN to ELSE b.nodes[k].label
  IN IF to \in NodeIds(b) \/ ~Stable(to, label, b.nodes[k].shape) THEN {}
     ELSE {[b EXCEPT !.nodes[k].id = to, !.nodes[k].label = label]}

\* A default node is called as it is labelled; markdown stays what it was.
SetLabel(b, k, label) ==
  LET id == IF b.nodes[k].shape = "default" THEN label ELSE b.nodes[k].id
  IN IF id \in NodeIds(b) \ {b.nodes[k].id} \/ ~Stable(id, label, b.nodes[k].shape) THEN {}
     ELSE {[b EXCEPT !.nodes[k].id = id, !.nodes[k].label = label]}

\* The index is one among the children that are left.
MoveNode(b, k, parent, index) ==
  LET rest == Cut(b, k)
      to == IndexOf(rest, parent)
      subtree == SubSeq(b.nodes, k, Until(b, k))
      deeper(n) == [n EXCEPT !.depth = @ + rest.nodes[to].depth + 1 - b.nodes[k].depth]
  IN IF k = 1 \/ IndexOf(b, parent) \in Within(b, k) THEN {}
     ELSE IF index > Len(Children(rest, to)) + 1 THEN {}
     ELSE {Insert(rest, Slot(rest, to, index), [n \in DOMAIN subtree |-> deeper(subtree[n])])}

SetShape(b, k, shape) ==
  LET n == b.nodes[k]
  IN IF (shape = "default" /\ n.id # n.label) \/ ~Stable(n.id, n.label, shape) THEN {}
     ELSE {[b EXCEPT !.nodes[k].shape = shape]}

\* stableBodySyntax: what is set must leave the whole body as it reads back.
Decorated(b) == IF Reparse(b) = {b} THEN {b} ELSE {}

SetDecoration(b, k, kind, value) ==
  LET next == [b EXCEPT !.nodes[k][kind] = value]
  IN IF value = None THEN {next} ELSE Decorated(next)

SetAccessibility(b, kind, value) ==
  LET next == [b EXCEPT ![kind] = value]
  IN IF value = None THEN {next} ELSE Decorated(next)

(* -------------------------------- actions ------------------------------- *)

vars == <<published, body, ops>>
Values == Texts \union {None}

add_node ==
  \E id \in Ids, label \in Labels \union Ids, parent \in Nodes(body), shape \in Shapes :
     \E index \in 1 .. Len(Children(body, parent)) + 1 :
        Core!Commit(AddNode(body, id, label, parent, shape, index))
remove_node ==
  \E k \in Nodes(body), recursive \in BOOLEAN : Core!Commit(RemoveNode(body, k, recursive))
rename_node == \E k \in Nodes(body), to \in Ids : Core!Commit(RenameNode(body, k, to))
set_label == \E k \in Nodes(body), label \in Labels \union Ids : Core!Commit(SetLabel(body, k, label))
move_node ==
  \E k \in Nodes(body), parent \in NodeIds(body), index \in 1 .. Len(body.nodes) :
     Core!Commit(MoveNode(body, k, parent, index))
set_shape == \E k \in Nodes(body), shape \in Shapes : Core!Commit(SetShape(body, k, shape))
set_icon == \E k \in Nodes(body), value \in Values : Core!Commit(SetDecoration(body, k, "icon", value))
set_node_class == \E k \in Nodes(body), value \in Values : Core!Commit(SetDecoration(body, k, "class", value))
set_accessibility ==
  \E kind \in {"accTitle", "accDescr"}, value \in Values : Core!Commit(SetAccessibility(body, kind, value))

Init == Core!Begin(UNION {Parse(source) : source \in Sources})

Next ==
  \/ add_node \/ remove_node \/ rename_node \/ set_label \/ move_node \/ set_shape
  \/ set_icon \/ set_node_class \/ set_accessibility \/ Core!Refuse \/ Core!Publish

Spec == Init /\ [][Next]_vars

(* ------------------------------ properties ------------------------------ *)

\* Identities are unique, the nodes are one tree, and a node without an id of
\* its own is called by its label.
ReferencesResolve ==
  /\ Cardinality(NodeIds(body)) = Len(body.nodes)
  /\ \A k \in Nodes(body) :
       /\ IF k = 1 THEN body.nodes[k].depth = 0 ELSE body.nodes[k].depth \in 1 .. body.nodes[k - 1].depth + 1
       /\ Stable(body.nodes[k].id, body.nodes[k].label, body.nodes[k].shape)

\* How a formatted label was written is not kept in step with the label (the
\* README, known deviations).
Content(b) == [b EXCEPT !.nodes = [k \in DOMAIN @ |-> [@[k] EXCEPT !.markdown = FALSE]]]

\* A body always says what its text says: there is no verifier to object.
LossIsAnnounced == Core!LossReported(body) \/ \A r \in Reparse(body) : Content(r) = Content(body)
=============================================================================
