------------------------ MODULE ArchitectureEditing ------------------------
(***************************************************************************)
(* Architecture documents under the checked editing loop: the parser,      *)
(* serializer, operations and verifier of                                  *)
(* src/src/agent/architecture-body.ts.                                     *)
(*                                                                         *)
(* The body has no statement stream: a text is always written in canonical *)
(* order (furniture, groups, services, junctions, edges, alignments), and  *)
(* is only structured when every name in it resolves.                      *)
(***************************************************************************)
EXTENDS Naturals, FiniteSets, Sequences, SequencesExt

CONSTANTS None,        \* no text, icon, label or parent
          Sources,     \* authored sources: sequences of lines
          Ids, Texts, Sides,   \* arguments of operations
          MaxOps

VARIABLES published, body, ops

Furniture == {"title", "accTitle", "accDescr"}
Blank == [texts |-> [f \in Furniture |-> None], groups |-> << >>, services |-> << >>,
          junctions |-> << >>, edges |-> << >>, alignments |-> << >>]

IdsOf(seq) == {seq[k].id : k \in DOMAIN seq}
GroupIds(b) == IdsOf(b.groups)
EndpointIds(b) == IdsOf(b.services) \union IdsOf(b.junctions)
AllIds(b) == GroupIds(b) \union EndpointIds(b)
Ends(e) == {e.source, e.target}

(* ------------------------------ the parser ------------------------------ *)

\* One line; a repeated id or title and an alignment of something not yet
\* declared make the source opaque.
ReadLine(b, line) ==
  CASE line.kind \in Furniture ->
         {[b EXCEPT !.texts[line.kind] = text] :
            text \in {text \in {line.text} : line.kind = "title" => b.texts.title = None}}
    [] line.kind = "group" ->
         {[b EXCEPT !.groups = Append(@, g)] : g \in {g \in {line.node} : g.id \notin AllIds(b)}}
    [] line.kind = "service" ->
         {[b EXCEPT !.services = Append(@, s)] : s \in {s \in {line.node} : s.id \notin AllIds(b)}}
    [] line.kind = "junction" ->
         {[b EXCEPT !.junctions = Append(@, j)] : j \in {j \in {line.node} : j.id \notin AllIds(b)}}
    [] line.kind = "align" ->
         {[b EXCEPT !.alignments = Append(@, a)] :
            a \in {a \in {line.alignment} : ToSet(a.members) \subseteq EndpointIds(b)}}
    [] OTHER -> {[b EXCEPT !.edges = Append(@, line.edge)]}

InGroup(b, id) == \E s \in ToSet(b.services) : s.id = id /\ s.parent # None

\* What the whole must satisfy: parents and endpoints are declared, a group
\* boundary is that of a service in a group, something is there to draw.
Consistent(b) ==
  /\ \A n \in ToSet(b.groups) \union ToSet(b.services) \union ToSet(b.junctions) :
        n.parent \in GroupIds(b) \union {None}
  /\ \A e \in ToSet(b.edges) : \A end \in Ends(e) :
        /\ end.id \in EndpointIds(b)
        /\ end.boundary = "group" => InGroup(b, end.id)
  /\ AllIds(b) # {} \/ \E f \in Furniture : b.texts[f] # None

Parse(lines) ==
  {b \in FoldLeft(LAMBDA bodies, line : UNION {ReadLine(b, line) : b \in bodies}, {Blank}, lines) :
     Consistent(b)}

(* ---------------------------- the serializer ---------------------------- *)

NodeLines(kind, nodes) == [k \in DOMAIN nodes |-> [kind |-> kind, node |-> nodes[k]]]

TextLine(b, f) == IF b.texts[f] = None THEN << >> ELSE <<[kind |-> f, text |-> b.texts[f]]>>

Render(b) ==
  TextLine(b, "title") \o TextLine(b, "accTitle") \o TextLine(b, "accDescr")
    \o NodeLines("group", b.groups) \o NodeLines("service", b.services)
    \o NodeLines("junction", b.junctions)
    \o [k \in DOMAIN b.edges |-> [kind |-> "edge", edge |-> b.edges[k]]]
    \o [k \in DOMAIN b.alignments |-> [kind |-> "align", alignment |-> b.alignments[k]]]

(* ------------------------------ the verifier ---------------------------- *)

Reparse(b) == Parse(Render(b))
EmptyDiagram(b) == AllIds(b) = {} /\ \A f \in Furniture : b.texts[f] = None
Rejected(b) ==
  EmptyDiagram(b) \/ \E e \in ToSet(b.edges) : \E end \in Ends(e) : end.id \notin EndpointIds(b)
Tally(b) == <<Len(b.services) + Len(b.junctions), Len(b.edges), Len(b.groups)>>

Core == INSTANCE EditCore WITH Empty <- EmptyDiagram

(* ------------------------------ operations ------------------------------ *)

Without(seq, id) == SelectSeq(seq, LAMBDA n : n.id # id)

\* The edges of a removed endpoint go with it, and so does its place in every
\* alignment; an alignment of fewer than two is dissolved.
DropEndpoint(b, id) ==
  LET shortened == [k \in DOMAIN b.alignments |->
                      [b.alignments[k] EXCEPT !.members = SelectSeq(@, LAMBDA m : m # id)]]
  IN [b EXCEPT !.services = Without(@, id), !.junctions = Without(@, id),
               !.edges = SelectSeq(@, LAMBDA e : id \notin {e.source.id, e.target.id}),
               !.alignments = SelectSeq(shortened, LAMBDA a : Len(a.members) >= 2)]

RenameEndpoint(b, from, to) ==
  LET new(id) == IF id = from THEN to ELSE id
      renamed(nodes) == [k \in DOMAIN nodes |-> [nodes[k] EXCEPT !.id = new(@)]]
  IN IF from # to /\ to \in AllIds(b) THEN {}
     ELSE {[b EXCEPT !.services = renamed(@), !.junctions = renamed(@),
                     !.edges = [k \in DOMAIN @ |-> [@[k] EXCEPT !.source.id = new(@), !.target.id = new(@)]],
                     !.alignments = [k \in DOMAIN @ |->
                        [@[k] EXCEPT !.members = [i \in DOMAIN @ |-> new(@[i])]]]]}

\* A service leaves its group for the root only without a boundary edge.
MoveService(b, k, parent) ==
  LET bounded == \E e \in ToSet(b.edges) : \E end \in Ends(e) :
                    end.id = b.services[k].id /\ end.boundary = "group"
  IN IF parent = None /\ bounded THEN {} ELSE {[b EXCEPT !.services[k].parent = parent]}

RemoveGroup(b, id) ==
  IF \E n \in ToSet(b.groups) \union ToSet(b.services) \union ToSet(b.junctions) : n.parent = id
    THEN {} ELSE {[b EXCEPT !.groups = Without(@, id)]}

ValidEndpoint(b, end) ==
  end.id \in EndpointIds(b) /\ (end.boundary = "group" => InGroup(b, end.id))

WithEdges(b, edges, e) ==
  IF \A end \in Ends(e) : ValidEndpoint(b, end) THEN {[b EXCEPT !.edges = edges]} ELSE {}

\* The structured floor: an operation may not leave nothing to draw.
Keeping(results) == {b \in results : ~EmptyDiagram(b)}

(* -------------------------------- actions ------------------------------- *)

vars == <<published, body, ops>>
Commit(results) == Core!Commit(Keeping(results))
Parents == GroupIds(body) \union {None}
Labels == Texts \union {None}
Endpoints == [id : Ids \union EndpointIds(body), side : Sides, boundary : {"item", "group"}]
New(id, label, icon, parent) == [id |-> id, label |-> label, icon |-> icon, parent |-> parent]

set_title == \E text \in Labels : Commit({[body EXCEPT !.texts.title = text]})
set_accessibility_title == \E text \in Labels : Commit({[body EXCEPT !.texts.accTitle = text]})
set_accessibility_description == \E text \in Labels : Commit({[body EXCEPT !.texts.accDescr = text]})
add_service ==
  \E id \in Ids \ AllIds(body), label \in Texts, parent \in Parents :
     Commit({[body EXCEPT !.services = Append(@, New(id, label, None, parent))]})
remove_service == \E id \in IdsOf(body.services) : Commit({DropEndpoint(body, id)})
rename_service == \E from \in IdsOf(body.services), to \in Ids : Commit(RenameEndpoint(body, from, to))
set_service_label ==
  \E k \in DOMAIN body.services, text \in Texts : Commit({[body EXCEPT !.services[k].label = text]})
set_service_icon ==
  \E k \in DOMAIN body.services, icon \in Labels : Commit({[body EXCEPT !.services[k].icon = icon]})
move_service == \E k \in DOMAIN body.services, parent \in Parents : Commit(MoveService(body, k, parent))
add_junction ==
  \E id \in Ids \ AllIds(body), parent \in Parents :
     Commit({[body EXCEPT !.junctions = Append(@, [id |-> id, parent |-> parent])]})
remove_junction == \E id \in IdsOf(body.junctions) : Commit({DropEndpoint(body, id)})
rename_junction == \E from \in IdsOf(body.junctions), to \in Ids : Commit(RenameEndpoint(body, from, to))
move_junction ==
  \E k \in DOMAIN body.junctions, parent \in Parents : Commit({[body EXCEPT !.junctions[k].parent = parent]})
add_group ==
  \E id \in Ids \ AllIds(body), label \in Texts, parent \in Parents :
     Commit({[body EXCEPT !.groups = Append(@, New(id, label, None, parent))]})
set_group_label ==
  \E k \in DOMAIN body.groups, text \in Texts : Commit({[body EXCEPT !.groups[k].label = text]})
remove_group == \E id \in GroupIds(body) : Commit(RemoveGroup(body, id))
add_edge ==
  \E source \in Endpoints, target \in Endpoints :
     LET e == [source |-> source, target |-> target, label |-> None]
     IN Commit(WithEdges(body, Append(body.edges, e), e))
update_edge ==
  \E k \in DOMAIN body.edges, source \in Endpoints, label \in Labels :
     LET e == [body.edges[k] EXCEPT !.source = source, !.label = label]
     IN Commit(WithEdges(body, [body.edges EXCEPT ![k] = e], e))
remove_edge == \E k \in DOMAIN body.edges : Commit({[body EXCEPT !.edges = RemoveAt(@, k)]})

Init == Core!Begin({Blank} \union UNION {Parse(source) : source \in Sources})

Next ==
  \/ set_title \/ set_accessibility_title \/ set_accessibility_description
  \/ add_service \/ remove_service \/ rename_service \/ set_service_label
  \/ set_service_icon \/ move_service
  \/ add_junction \/ remove_junction \/ rename_junction \/ move_junction
  \/ add_group \/ set_group_label \/ remove_group
  \/ add_edge \/ update_edge \/ remove_edge
  \/ Core!Refuse \/ Core!Publish

Spec == Init /\ [][Next]_vars

(* ------------------------------ properties ------------------------------ *)

Nodes(b) == AllIds(b)
Links(b) == [k \in DOMAIN b.edges |-> <<b.edges[k].source.id, b.edges[k].target.id>>]

\* Names stand for one thing, parents, endpoints and aligned members exist, a
\* group boundary belongs to a service in a group, alignments keep two members.
ReferencesResolve ==
  body = Blank \/
  /\ Cardinality(AllIds(body)) = Len(body.groups) + Len(body.services) + Len(body.junctions)
  /\ Consistent(body)
  /\ \A a \in ToSet(body.alignments) :
        Len(a.members) >= 2 /\ ToSet(a.members) \subseteq EndpointIds(body)

\* The canonical text of an accepted body says exactly what the body says.
LossIsAnnounced == body = Blank \/ Reparse(body) = {body}
=============================================================================
