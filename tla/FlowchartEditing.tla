-------------------------- MODULE FlowchartEditing --------------------------
(***************************************************************************)
(* Flowcharts under the checked editing loop: the serializer and the       *)
(* operations of src/src/agent/flowchart-body.ts over the parser of        *)
(* src/src/parser.ts.                                                      *)
(*                                                                         *)
(* There is no statement stream: a text has its subgraphs first, because a *)
(* node belongs to the subgraph in whose block it is mentioned first, then *)
(* edges, the nodes no edge mentions, and paint.  The tree of subgraphs is *)
(* kept flat, each naming its parent, siblings in their order.             *)
(* A line mentions a node bare, in brackets, or with metadata (`@{ }`).    *)
(* Chains and `&` groups are the links they expand to.  Left out: ids that *)
(* are also words of the grammar (`end`), two subgraphs of one id, and the *)
(* properties of a style, which is one value.                              *)
(***************************************************************************)
EXTENDS Naturals, FiniteSets, Sequences, SequencesExt

CONSTANTS None,          \* no label, direction, icon, link, parent, edge id
          TypedShapes,   \* shapes written as metadata, by the authored name
          Sources,       \* authored sources: sequences of lines
          Ids, Texts, Shapes, Styles, Directions, Ends,   \* arguments of operations
          MaxOps

VARIABLES published, body, ops

(* ------------------------------ the parser ------------------------------ *)

Blank == [direction |-> "TD", nodes |-> << >>, edges |-> << >>, subgraphs |-> << >>,
          classDefs |-> {}, classes |-> << >>, styles |-> << >>, linkStyles |-> {}]

IdsOf(seq) == {seq[k].id : k \in DOMAIN seq}
NodeIds(b) == IdsOf(b.nodes)
GroupIds(b) == IdsOf(b.subgraphs)
IndexOf(seq, id) == CHOOSE k \in DOMAIN seq : seq[k].id = id

Plain(id) == [id |-> id, label |-> id, shape |-> "rectangle", icon |-> None, href |-> None]

\* The node a mention describes when it is the first one.
Described(ref) ==
  [Plain(ref.id) EXCEPT !.label = IF ref.label = None THEN @ ELSE ref.label,
                        !.shape = IF ref.shape = None THEN @ ELSE ref.shape,
                        !.icon = ref.icon]

Track(p, id) ==
  IF p.stack = << >> THEN p
  ELSE LET k == IndexOf(p.body.subgraphs, Last(p.stack))
       IN [p EXCEPT !.body.subgraphs[k].members = IF id \in ToSet(@) THEN @ ELSE Append(@, id)]

\* Metadata refines a known node; brackets do not.
Refine(node, ref) ==
  [node EXCEPT !.label = IF ref.label = None THEN @ ELSE ref.label,
               !.shape = IF ref.shape # None THEN ref.shape
                         ELSE IF ref.icon # None THEN "rectangle" ELSE @,
               !.icon = IF ref.icon = None THEN @ ELSE ref.icon]

\* A bare mention of a known node or of a subgraph declares nothing.
ReadNode(p, ref) ==
  LET known == ref.id \in NodeIds(p.body)
  IN IF ref.form = "bare" /\ (known \/ ref.id \in p.declared) THEN p
     ELSE IF ~known THEN Track([p EXCEPT !.body.nodes = Append(@, Described(ref))], ref.id)
     ELSE IF ref.form = "bracket" THEN Track(p, ref.id)
     ELSE Track([p EXCEPT !.body.nodes[IndexOf(p.body.nodes, ref.id)] = Refine(@, ref)], ref.id)

Enclosing(p) == IF p.stack = << >> THEN None ELSE Last(p.stack)

ReadDirection(p, direction) ==
  IF p.stack = << >> THEN [p EXCEPT !.body.direction = direction]
  ELSE [p EXCEPT !.body.subgraphs[IndexOf(p.body.subgraphs, Last(p.stack))].direction = direction]

ReadEdge(p, line) ==
  LET q == ReadNode(ReadNode(p, line.from), line.to)
  IN [q EXCEPT !.body.edges = Append(@, [id |-> line.id, from |-> line.from.id, to |-> line.to.id,
                                         label |-> line.label, style |-> line.style,
                                         arrow |-> line.arrow, motion |-> None])]

ReadLine(p, line) ==
  CASE line.kind = "node" -> ReadNode(p, line.ref)
    [] line.kind = "edge" -> ReadEdge(p, line)
    [] line.kind = "direction" -> ReadDirection(p, line.direction)
    [] line.kind = "subgraph" ->
         [p EXCEPT !.stack = Append(@, line.id),
                   !.body.subgraphs = Append(@, [id |-> line.id, parent |-> Enclosing(p), direction |-> None,
                                                 label |-> IF line.label = None THEN line.id ELSE line.label,
                                                 members |-> << >>])]
    [] line.kind = "end" -> IF p.stack = << >> THEN p ELSE [p EXCEPT !.stack = Front(@)]
    [] line.kind = "motion" ->
         IF line.id \in IdsOf(p.body.edges)
           THEN LET first == CHOOSE k \in DOMAIN p.body.edges :
                               p.body.edges[k].id = line.id /\ line.id \notin IdsOf(SubSeq(p.body.edges, 1, k - 1))
                IN [p EXCEPT !.body.edges[first].motion = line.motion]
           ELSE p
    [] line.kind = "click" ->
         IF line.id \in NodeIds(p.body)
           THEN [p EXCEPT !.body.nodes[IndexOf(p.body.nodes, line.id)].href = line.href] ELSE p
    [] line.kind = "classDef" -> [p EXCEPT !.body.classDefs = @ \union {line.name}]
    [] line.kind = "class" -> [p EXCEPT !.body.classes = line.id :> line.value @@ @]
    [] line.kind = "style" -> [p EXCEPT !.body.styles = line.id :> line.value @@ @]
    [] OTHER ->
         [p EXCEPT !.body.linkStyles = {s \in @ : s.index # line.index}
                                         \union {[index |-> line.index, value |-> line.value]}]

\* A subgraph that is never closed is lost with what it contains, except the
\* nodes.  The parser never falls back to opaque.
Parse(lines) ==
  LET p == FoldLeft(ReadLine, [body |-> Blank, stack |-> << >>,
                               declared |-> {line.id : line \in {line \in ToSet(lines) : line.kind = "subgraph"}}],
                    lines)
  IN {IF p.stack = << >> THEN p.body
      ELSE [p.body EXCEPT !.subgraphs = SubSeq(@, 1, IndexOf(@, Head(p.stack)) - 1)]}

(* ---------------------------- the serializer ---------------------------- *)

NeedsExplicitDeclaration(node) == node.label # node.id \/ node.shape # "rectangle" \/ node.icon # None

Bare(id) == [form |-> "bare", id |-> id, label |-> None, shape |-> None, icon |-> None]

\* renderShape: an icon hides the shape, a pseudostate has no spelling, and
\* that of a service is the rectangle's.
Spelled(node) ==
  LET ownLabel == IF node.label = node.id THEN None ELSE node.label
  IN IF node.icon # None THEN [Bare(node.id) EXCEPT !.form = "meta", !.label = ownLabel, !.icon = node.icon]
     ELSE IF node.shape \in TypedShapes
       THEN [Bare(node.id) EXCEPT !.form = "meta", !.label = ownLabel, !.shape = node.shape]
     ELSE IF node.shape = "state-start" THEN Bare(node.id)
     ELSE [Bare(node.id) EXCEPT !.form = "bracket", !.label = node.label,
                                !.shape = IF node.shape = "service" THEN "rectangle" ELSE node.shape]

\* The first mention of a node spells it out when it has to; `told` are the
\* nodes spelled out before.
Mention(b, id, told) ==
  IF id \in NodeIds(b) \ told /\ NeedsExplicitDeclaration(b.nodes[IndexOf(b.nodes, id)])
    THEN Spelled(b.nodes[IndexOf(b.nodes, id)]) ELSE Bare(id)

Members(b) == UNION {ToSet(g.members) : g \in ToSet(b.subgraphs)}

RenderSubgraphs(b) ==
  LET children(parent) == SelectSeq(b.subgraphs, LAMBDA g : g.parent = parent)
      render[parent \in GroupIds(b) \union {None}] ==
        LET block(g) ==
              <<[kind |-> "subgraph", id |-> g.id, label |-> IF g.label = g.id THEN None ELSE g.label]>>
                \o (IF g.direction = None THEN << >> ELSE <<[kind |-> "direction", direction |-> g.direction]>>)
                \o render[g.id]
                \o [k \in DOMAIN g.members |-> [kind |-> "node", ref |-> Mention(b, g.members[k], {})]]
                \o <<[kind |-> "end"]>>
        IN FlattenSeq([k \in DOMAIN children(parent) |-> block(children(parent)[k])])
  IN render[None]

\* An invisible link has no markers.
SpelledArrow(e) == IF e.style = "invisible" THEN "none" ELSE e.arrow

EdgeLines(b, k) ==
  LET e == b.edges[k]
      told == Members(b) \union UNION {{b.edges[n].from, b.edges[n].to} : n \in 1 .. k - 1}
  IN <<[kind |-> "edge", from |-> Mention(b, e.from, told), to |-> Mention(b, e.to, told \union {e.from}),
        id |-> e.id, label |-> e.label, style |-> e.style, arrow |-> SpelledArrow(e)]>>
     \o (IF e.id = None \/ e.motion = None THEN << >>
         ELSE <<[kind |-> "motion", id |-> e.id, motion |-> e.motion]>>)

\* A node that no block and no edge mentions gets a line, spelled out.
Orphans(b) ==
  SelectSeq(b.nodes, LAMBDA n : n.id \notin Members(b) /\ \A e \in ToSet(b.edges) : n.id \notin {e.from, e.to})

PaintLines(kind, paint) ==
  LET ids == SetToSeq(DOMAIN paint) IN [k \in DOMAIN ids |-> [kind |-> kind, id |-> ids[k], value |-> paint[ids[k]]]]

Render(b) ==
  LET names == SetToSeq(b.classDefs)
      links == SetToSeq(b.linkStyles)
      linked == SelectSeq(b.nodes, LAMBDA n : n.href # None)
  IN <<[kind |-> "direction", direction |-> b.direction]>>
       \o RenderSubgraphs(b)
       \o FlattenSeq([k \in DOMAIN b.edges |-> EdgeLines(b, k)])
       \o [k \in DOMAIN Orphans(b) |-> [kind |-> "node", ref |-> Spelled(Orphans(b)[k])]]
       \o [k \in DOMAIN names |-> [kind |-> "classDef", name |-> names[k]]]
       \o PaintLines("class", b.classes) \o PaintLines("style", b.styles)
       \o [k \in DOMAIN links |-> [kind |-> "linkStyle", index |-> links[k].index, value |-> links[k].value]]
       \o [k \in DOMAIN linked |-> [kind |-> "click", id |-> linked[k].id, href |-> linked[k].href]]

(* ------------------------------ the verifier ---------------------------- *)

Reparse(b) == Parse(Render(b))
EmptyDiagram(b) == b.nodes = << >>
Anchors(b) == NodeIds(b) \union GroupIds(b)
Unanchored(b) == UNION {{e.from, e.to} : e \in ToSet(b.edges)} \ Anchors(b)
Rejected(b) == EmptyDiagram(b) \/ Unanchored(b) # {}
Tally(b) == <<Len(b.nodes), Len(b.edges), Len(b.subgraphs)>>

Core == INSTANCE EditCore WITH Empty <- EmptyDiagram

(* ------------------------------ operations ------------------------------ *)

EnsureNode(b, id) == IF id \in NodeIds(b) THEN b ELSE [b EXCEPT !.nodes = Append(@, Plain(id))]

Join(b, group, id) ==
  IF group = None THEN b ELSE [b EXCEPT !.subgraphs[IndexOf(b.subgraphs, group)].members = Append(@, id)]

\* The id of a subgraph is not refused.
AddNode(b, id, label, shape, parent) ==
  IF id \in NodeIds(b) THEN {}
  ELSE {Join([b EXCEPT !.nodes = Append(@, [Plain(id) EXCEPT !.label = label, !.shape = shape])], parent, id)}

\* The edges that stay, and the link styles of those under their new numbers;
\* the default (0) and numbers that name no edge are kept as they are.
RetainEdges(b, kept) ==
  LET order == SelectSeq([k \in DOMAIN b.edges |-> k], LAMBDA k : k \in kept)
      number(n) == IF n \in kept THEN CHOOSE k \in DOMAIN order : order[k] = n ELSE n
  IN [b EXCEPT !.edges = [k \in DOMAIN order |-> @[order[k]]],
               !.linkStyles = {[s EXCEPT !.index = number(@)] :
                                 s \in {s \in @ : s.index \in DOMAIN b.edges => s.index \in kept}}]

Without(paint, ids) == Restrict(paint, DOMAIN paint \ ids)

\* The nodes go with their edges and their paint.
DropNodes(b, ids) ==
  [RetainEdges(b, {k \in DOMAIN b.edges : {b.edges[k].from, b.edges[k].to} \intersect ids = {}}) EXCEPT
     !.nodes = SelectSeq(@, LAMBDA n : n.id \notin ids),
     !.classes = Without(@, ids), !.styles = Without(@, ids)]

Leave(b, id) ==
  [b EXCEPT !.subgraphs = [k \in DOMAIN @ |-> [@[k] EXCEPT !.members = SelectSeq(@, LAMBDA m : m # id)]]]

Rekey(paint, from, to) ==
  IF from \in DOMAIN paint THEN to :> paint[from] @@ Without(paint, {from}) ELSE paint

\* The node goes to the end of the list; a label that was its id follows.
RenameNode(b, from, to) ==
  LET k == IndexOf(b.nodes, from)
      name(id) == IF id = from THEN to ELSE id
  IN IF to \in NodeIds(b) THEN {}
     ELSE {[b EXCEPT
              !.nodes = Append(RemoveAt(@, k), [@[k] EXCEPT !.id = to, !.label = name(@)]),
              !.edges = [n \in DOMAIN @ |-> [@[n] EXCEPT !.from = name(@), !.to = name(@)]],
              !.subgraphs = [n \in DOMAIN @ |->
                 [@[n] EXCEPT !.members = [m \in DOMAIN @ |-> name(@[m])]]],
              !.classes = Rekey(@, from, to), !.styles = Rekey(@, from, to)]}

\* Ends that are not nodes become nodes, also when they name a subgraph.
AddEdge(b, from, to, style) ==
  [EnsureNode(EnsureNode(b, from), to) EXCEPT
     !.edges = Append(@, [id |-> None, from |-> from, to |-> to, label |-> None, style |-> style,
                          arrow |-> "end", motion |-> None])]

AddSubgraph(b, id, parent, members) ==
  IF id \in Anchors(b) THEN {}
  ELSE {[FoldLeft(Leave, b, members) EXCEPT
           !.subgraphs = Append(@, [id |-> id, label |-> id, direction |-> None, parent |-> parent,
                                    members |-> members])]}

\* The positions of a subgraph and of all inside it.
Within(b, id) ==
  LET up[k \in DOMAIN b.subgraphs] ==
        \/ b.subgraphs[k].id = id
        \/ b.subgraphs[k].parent # None /\ up[IndexOf(b.subgraphs, b.subgraphs[k].parent)]
  IN {k \in DOMAIN b.subgraphs : up[k]}

RemoveWithMembers(b, id) ==
  LET gone == Within(b, id)
  IN [DropNodes(b, UNION {ToSet(b.subgraphs[k].members) : k \in gone}) EXCEPT
        !.subgraphs = SelectSeq(@, LAMBDA g : IndexOf(b.subgraphs, g.id) \notin gone)]

\* The box goes; its children take its place, its members go to the root.
Dissolve(b, id) ==
  LET k == IndexOf(b.subgraphs, id)
      others(seq) == SelectSeq(seq, LAMBDA g : g.parent # id)
      children == SelectSeq(b.subgraphs, LAMBDA g : g.parent = id)
  IN [b EXCEPT !.subgraphs =
        others(SubSeq(@, 1, k - 1))
          \o [n \in DOMAIN children |-> [children[n] EXCEPT !.parent = b.subgraphs[k].parent]]
          \o others(SubSeq(@, k + 1, Len(@)))]

Paint(paint, id, value) == IF value = None THEN Without(paint, {id}) ELSE id :> value @@ paint

(* -------------------------------- actions ------------------------------- *)

vars == <<published, body, ops>>
Parents == GroupIds(body) \union {None}
Values == Texts \union {None}

add_node ==
  \E id \in Ids, shape \in Shapes, parent \in Parents : \E label \in {id} \union Texts :
     Core!Commit(AddNode(body, id, label, shape, parent))
remove_node == \E id \in NodeIds(body) : Core!Commit({Leave(DropNodes(body, {id}), id)})
rename_node == \E from \in NodeIds(body), to \in Ids : Core!Commit(RenameNode(body, from, to))
set_label ==
  \E text \in Texts :
     \/ \E k \in DOMAIN body.nodes : Core!Commit({[body EXCEPT !.nodes[k].label = text]})
     \/ \E k \in DOMAIN body.edges : Core!Commit({[body EXCEPT !.edges[k].label = text]})
add_edge ==
  \E from \in Ends, to \in Ends, style \in Styles : Core!Commit({AddEdge(body, from, to, style)})
remove_edge == \E k \in DOMAIN body.edges : Core!Commit({RetainEdges(body, DOMAIN body.edges \ {k})})
set_shape ==
  \E k \in DOMAIN body.nodes, shape \in Shapes : Core!Commit({[body EXCEPT !.nodes[k].shape = shape]})
set_direction ==
  \E direction \in Directions :
     \/ Core!Commit({[body EXCEPT !.direction = direction]})
     \/ \E k \in DOMAIN body.subgraphs : Core!Commit({[body EXCEPT !.subgraphs[k].direction = direction]})
add_subgraph ==
  \E id \in Ids, parent \in Parents : \E members \in {<< >>} \union {<<m>> : m \in NodeIds(body)} :
     Core!Commit(AddSubgraph(body, id, parent, members))
remove_subgraph ==
  \E id \in GroupIds(body) :
     \/ Core!Commit({RemoveWithMembers(body, id)})
     \/ Core!Commit({Dissolve(body, id)})
move_node ==
  \E id \in NodeIds(body), group \in Parents : Core!Commit({Join(Leave(body, id), group, id)})
define_class == \E name \in Texts : Core!Commit({[body EXCEPT !.classDefs = @ \union {name}]})
set_node_class ==
  \E id \in NodeIds(body), value \in Values : Core!Commit({[body EXCEPT !.classes = Paint(@, id, value)]})
set_node_style ==
  \E id \in NodeIds(body), value \in Values : Core!Commit({[body EXCEPT !.styles = Paint(@, id, value)]})

Init == Core!Begin(UNION {Parse(source) : source \in Sources})

Next ==
  \/ add_node \/ remove_node \/ rename_node \/ set_label \/ add_edge \/ remove_edge
  \/ set_shape \/ set_direction \/ add_subgraph \/ remove_subgraph \/ move_node
  \/ define_class \/ set_node_class \/ set_node_style \/ Core!Refuse \/ Core!Publish

Spec == Init /\ [][Next]_vars

(* ------------------------------ properties ------------------------------ *)

\* Ids name one thing of their kind, the subgraphs are a tree, a member is a
\* node and of one subgraph, a numbered link style is that of an edge, and paint
\* or an edge of what is neither node nor subgraph was that of a subgraph.
ReferencesResolve ==
  /\ Cardinality(NodeIds(body)) = Len(body.nodes)
  /\ Cardinality(GroupIds(body)) = Len(body.subgraphs)
  /\ UNION {Within(body, g.id) : g \in {g \in ToSet(body.subgraphs) : g.parent = None}} = DOMAIN body.subgraphs
  /\ Members(body) \subseteq NodeIds(body)
  /\ Len(FlattenSeq([k \in DOMAIN body.subgraphs |-> body.subgraphs[k].members])) = Cardinality(Members(body))
  /\ {s.index : s \in body.linkStyles} \subseteq 0 .. Len(body.edges)
  /\ DOMAIN body.classes \union DOMAIN body.styles \union Unanchored(body)
       \subseteq Anchors(body) \union GroupIds(published)

\* A node without what no spelling keeps: the shape under an icon, a
\* pseudostate and its label, a service's shape (the README, known deviations).
Shown(n) ==
  CASE n.icon # None -> [n EXCEPT !.shape = "rectangle"]
    [] n.icon = None /\ n.shape = "state-start" -> [n EXCEPT !.shape = "rectangle", !.label = n.id]
    [] n.icon = None /\ n.shape = "service" -> [n EXCEPT !.shape = "rectangle"]
    [] OTHER -> n

\* What a body says: its nodes, edges and tree, its paint.
Content(b) ==
  [direction |-> b.direction, classDefs |-> b.classDefs, classes |-> b.classes, styles |-> b.styles,
   linkStyles |-> b.linkStyles, subgraphs |-> ToSet(b.subgraphs),
   nodes |-> {Shown(n) : n \in ToSet(b.nodes)},
   edges |-> [k \in DOMAIN b.edges |-> [b.edges[k] EXCEPT !.arrow = SpelledArrow(b.edges[k])]]]

\* A body that does not say the same as the text it is written to is one the
\* verifier rejects or reports dropped content for.
LossIsAnnounced ==
  Rejected(body) \/ Core!LossReported(body)
    \/ \A r \in Reparse(body) : Content(r) = Content(body)
=============================================================================
