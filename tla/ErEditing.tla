----------------------------- MODULE ErEditing -----------------------------
(***************************************************************************)
(* Entity-relationship documents under the checked editing loop: the       *)
(* parser, serializer, operations and verifier of src/src/agent/er-body.ts.*)
(*                                                                         *)
(* Entities are created by any line that mentions them; only some of them  *)
(* have a line of their own.  The statement stream orders the lines and    *)
(* brackets the groups.                                                    *)
(***************************************************************************)
EXTENDS Naturals, FiniteSets, Sequences, SequencesExt

CONSTANTS None,        \* no label, class, style, direction or group
          Sources,     \* authored sources: sequences of lines
          Ids, Texts, Attributes, Directions,   \* arguments of operations
          MaxOps

VARIABLES published, body, ops

(* ------------------------------ the parser ------------------------------ *)

Blank == [entities |-> << >>, relations |-> << >>, groups |-> << >>, direction |-> None,
          classes |-> {}, statements |-> << >>]

IdsOf(seq) == {seq[k].id : k \in DOMAIN seq}
EntityIds(b) == IdsOf(b.entities)
GroupIds(b) == IdsOf(b.groups)
IndexOf(seq, id) == CHOOSE k \in DOMAIN seq : seq[k].id = id

\* Creates an entity at its first mention; a later mention sets its label.
Upsert(b, id, label) ==
  IF id \in EntityIds(b)
    THEN IF label = None THEN b ELSE [b EXCEPT !.entities[IndexOf(b.entities, id)].label = label]
    ELSE [b EXCEPT !.entities = Append(@, [id |-> id, label |-> label, attributes |-> << >>,
                                           class |-> None, style |-> None, group |-> None])]

\* The relation's endpoint: a group, or an entity that the enclosing group
\* claims unless it already belongs to one.
Endpoint(b, ref, group) ==
  IF ref.id \in GroupIds(b) THEN b
  ELSE LET c == Upsert(b, ref.id, ref.label)
           k == IndexOf(c.entities, ref.id)
       IN IF group # None /\ c.entities[k].group = None
            THEN [c EXCEPT !.entities[k].group = group] ELSE c

LastStatementIs(b, id) ==   \* mutant: looks at the last line only
  b.statements # << >> /\ Last(b.statements).kind = "entity" /\ Last(b.statements).id = id
HasEntityStatement(b, id) == \E st \in ToSet(b.statements) : st.kind = "entity" /\ st.id = id

\* An entity's own line moves it to the enclosing group.
Declare(b, line, group) ==
  LET c == Upsert(b, line.ref.id, line.ref.label)
      k == IndexOf(c.entities, line.ref.id)
  IN [c EXCEPT !.entities[k].group = IF group = None THEN @ ELSE group,
               !.entities[k].attributes = @ \o line.attributes,
               !.statements = IF HasEntityStatement(c, line.ref.id) THEN @
                              ELSE Append(@, [kind |-> "entity", id |-> line.ref.id])]

Enclosing(stack) == IF stack = << >> THEN None ELSE Last(stack)

OpenGroup(p, id) ==
  {[body |-> [p.body EXCEPT
                !.groups = Append(@, [id |-> id, parent |-> Enclosing(p.stack), direction |-> None]),
                !.statements = Append(@, [kind |-> "group-open", id |-> id])],
    stack |-> Append(p.stack, g)] : g \in {id} \ GroupIds(p.body)}

CloseGroup(p) ==
  [body |-> [p.body EXCEPT !.statements = Append(@, [kind |-> "group-close", id |-> Last(p.stack)])],
   stack |-> Front(p.stack)]

SetDirectionOf(b, group, direction) ==
  IF group = None THEN [b EXCEPT !.direction = direction]
  ELSE [b EXCEPT !.groups[IndexOf(b.groups, group)].direction = direction]

ReadBody(b, group, line) ==
  CASE line.kind = "direction" ->
         [SetDirectionOf(b, group, line.direction) EXCEPT
            !.statements = Append(@, [kind |-> "direction", group |-> group])]
    [] line.kind = "classDef" -> [b EXCEPT !.classes = @ \union {line.class}]
    [] line.kind = "class" ->
         LET c == Upsert(b, line.id, None)
         IN [c EXCEPT !.entities[IndexOf(c.entities, line.id)].class = line.class]
    [] line.kind = "style" ->
         LET c == Upsert(b, line.id, None)
         IN [c EXCEPT !.entities[IndexOf(c.entities, line.id)].style = line.style]
    [] line.kind = "relation" ->
         LET c == [b EXCEPT !.relations = Append(@, [from |-> line.from.id, to |-> line.to.id])]
         IN [Endpoint(Endpoint(c, line.from, group), line.to, group) EXCEPT
               !.statements = Append(@, [kind |-> "relation", ref |-> Len(c.relations)])]
    [] OTHER -> Declare(b, line, group)

ReadLine(p, line) ==
  CASE line.kind = "group" -> OpenGroup(p, line.id)
    [] line.kind = "end" -> {CloseGroup(p)}
    [] OTHER -> {[p EXCEPT !.body = ReadBody(@, Enclosing(p.stack), line)]}

\* A repeated group id or an unclosed group makes the whole source opaque.
Parse(lines) ==
  {p.body : p \in {p \in FoldLeft(LAMBDA states, line : UNION {ReadLine(p, line) : p \in states},
                                  {[body |-> Blank, stack |-> << >>]}, lines) :
                     p.stack = << >>}}

(* ---------------------------- the serializer ---------------------------- *)

Reference(b, id) ==
  [id |-> id, label |-> IF id \in EntityIds(b) THEN b.entities[IndexOf(b.entities, id)].label ELSE None]

DirectionOf(b, group) ==
  IF group = None THEN b.direction ELSE b.groups[IndexOf(b.groups, group)].direction

StatementLines(b, st) ==
  CASE st.kind = "entity" ->
         <<[kind |-> "entity", ref |-> Reference(b, st.id),
            attributes |-> b.entities[IndexOf(b.entities, st.id)].attributes]>>
    [] st.kind = "relation" ->
         <<[kind |-> "relation", from |-> Reference(b, b.relations[st.ref].from),
            to |-> Reference(b, b.relations[st.ref].to)]>>
    [] st.kind = "direction" ->
         IF DirectionOf(b, st.group) = None THEN << >>
         ELSE <<[kind |-> "direction", direction |-> DirectionOf(b, st.group)]>>
    [] st.kind = "group-open" -> <<[kind |-> "group", id |-> st.id]>>
    [] OTHER -> <<[kind |-> "end"]>>

AppearanceLines(e) ==
  (IF e.class = None THEN << >> ELSE <<[kind |-> "class", id |-> e.id, class |-> e.class]>>)
    \o (IF e.style = None THEN << >> ELSE <<[kind |-> "style", id |-> e.id, style |-> e.style]>>)

Render(b) ==
  FlattenSeq([k \in DOMAIN b.statements |-> StatementLines(b, b.statements[k])])
    \o FlattenSeq([k \in 1 .. Cardinality(b.classes) |->
                     <<[kind |-> "classDef", class |-> SetToSeq(b.classes)[k]]>>])
    \o FlattenSeq([k \in DOMAIN b.entities |-> AppearanceLines(b.entities[k])])

(* ------------------------------ the verifier ---------------------------- *)

Reparse(b) == Parse(Render(b))
EmptyDiagram(b) == b.entities = << >> /\ b.relations = << >> /\ b.groups = << >>
Misanchored(b) ==
  \E r \in ToSet(b.relations) : ~({r.from, r.to} \subseteq EntityIds(b) \union GroupIds(b))
Rejected(b) == EmptyDiagram(b) \/ Misanchored(b)
Tally(b) == <<Len(b.entities), Len(b.relations), Len(b.groups)>>

Core == INSTANCE EditCore WITH Empty <- EmptyDiagram

(* ------------------------------ operations ------------------------------ *)

AddEntity(b, id, label, attributes) ==
  IF id \in EntityIds(b) THEN {}
  ELSE {[b EXCEPT !.entities = Append(@, [id |-> id, label |-> label, attributes |-> attributes,
                                          class |-> None, style |-> None, group |-> None]),
                  !.statements = Append(@, [kind |-> "entity", id |-> id])]}

\* Drops the relations that satisfy Drop and renumbers the statements.
RemoveRelations(b, Drop(_)) ==
  LET kept == SelectSeq([k \in DOMAIN b.relations |-> k], LAMBDA k : ~Drop(k))
      stream == SelectSeq(b.statements, LAMBDA st : st.kind # "relation" \/ ~Drop(st.ref))
  IN [b EXCEPT !.relations = [k \in DOMAIN kept |-> b.relations[kept[k]]],
               !.statements = [k \in DOMAIN stream |->
                  IF stream[k].kind = "relation"
                    THEN [stream[k] EXCEPT !.ref = CHOOSE n \in DOMAIN kept : kept[n] = @]
                    ELSE stream[k]]]

RemoveEntity(b, id) ==
  LET c == RemoveRelations(b, LAMBDA k : id \in {b.relations[k].from, b.relations[k].to})
  IN [c EXCEPT !.entities = SelectSeq(@, LAMBDA e : e.id # id),
               !.statements = SelectSeq(@, LAMBDA st : ~(st.kind = "entity" /\ st.id = id))]

RenameEntityAlone(b, from, to) ==   \* mutant: the relations keep the old name
  IF to \in EntityIds(b) THEN {}
  ELSE {[b EXCEPT !.entities[IndexOf(b.entities, from)].id = to,
                  !.statements = [k \in DOMAIN @ |->
                     IF @[k].kind = "entity" /\ @[k].id = from THEN [@[k] EXCEPT !.id = to] ELSE @[k]]]}

RenameEntity(b, from, to) ==
  LET new(id) == IF id = from THEN to ELSE id
  IN IF to \in EntityIds(b) THEN {}
     ELSE {[b EXCEPT
              !.entities[IndexOf(b.entities, from)].id = to,
              !.relations = [k \in DOMAIN @ |-> [from |-> new(@[k].from), to |-> new(@[k].to)]],
              !.statements = [k \in DOMAIN @ |->
                 IF @[k].kind = "entity" THEN [@[k] EXCEPT !.id = new(@)] ELSE @[k]]]}

\* An entity without a line of its own gets one before its first relation.
AddAttribute(b, id, text) ==
  LET c == [b EXCEPT !.entities[IndexOf(b.entities, id)].attributes = Append(@, text)]
      uses == {k \in DOMAIN b.statements :
                 /\ b.statements[k].kind = "relation"
                 /\ id \in {b.relations[b.statements[k].ref].from, b.relations[b.statements[k].ref].to}}
      at == IF uses = {} THEN Len(b.statements) + 1 ELSE CHOOSE k \in uses : \A n \in uses : k <= n
  IN IF HasEntityStatement(b, id) THEN c
     ELSE [c EXCEPT !.statements = InsertAt(@, at, [kind |-> "entity", id |-> id])]

SetDirection(b, direction) ==
  [b EXCEPT !.direction = direction,
            !.statements = IF \E st \in ToSet(@) : st.kind = "direction" THEN @
                           ELSE <<[kind |-> "direction", group |-> None]>> \o @]

(* -------------------------------- actions ------------------------------- *)

vars == <<published, body, ops>>
Entities(b) == DOMAIN b.entities

add_entity ==
  \E id \in Ids, label \in Texts \union {None}, attributes \in {<< >>} \union {<<a>> : a \in Attributes} :
     Core!Commit(AddEntity(body, id, label, attributes))
remove_entity == \E id \in EntityIds(body) : Core!Commit({RemoveEntity(body, id)})
rename_entity == \E from \in EntityIds(body), to \in Ids : Core!Commit(RenameEntity(body, from, to))
set_entity_label ==
  \E k \in Entities(body), label \in Texts \union {None} :
     Core!Commit({[body EXCEPT !.entities[k].label = label]})
add_attribute == \E id \in EntityIds(body), a \in Attributes : Core!Commit({AddAttribute(body, id, a)})
remove_attribute ==
  \E k \in Entities(body) : \E n \in DOMAIN body.entities[k].attributes :
     Core!Commit({[body EXCEPT !.entities[k].attributes = RemoveAt(@, n)]})
add_relation ==
  \E from \in EntityIds(body), to \in EntityIds(body) :
     Core!Commit({[body EXCEPT !.relations = Append(@, [from |-> from, to |-> to]),
                               !.statements = Append(@, [kind |-> "relation",
                                                         ref |-> Len(body.relations) + 1])]})
remove_relation == \E n \in DOMAIN body.relations : Core!Commit({RemoveRelations(body, LAMBDA k : k = n)})
set_direction == \E direction \in Directions : Core!Commit({SetDirection(body, direction)})
define_class == \E name \in Texts : Core!Commit({[body EXCEPT !.classes = @ \union {name}]})
set_entity_class ==
  \E k \in Entities(body), name \in Texts \union {None} : Core!Commit({[body EXCEPT !.entities[k].class = name]})
set_entity_style ==
  \E k \in Entities(body), style \in Texts \union {None} : Core!Commit({[body EXCEPT !.entities[k].style = style]})

Init == Core!Begin(UNION {Parse(source) : source \in Sources})

Next ==
  \/ add_entity \/ remove_entity \/ rename_entity \/ set_entity_label
  \/ add_attribute \/ remove_attribute \/ add_relation \/ remove_relation
  \/ set_direction \/ define_class \/ set_entity_class \/ set_entity_style
  \/ Core!Refuse \/ Core!Publish

Spec == Init /\ [][Next]_vars

(* ------------------------------ properties ------------------------------ *)

Nodes(b) == EntityIds(b) \union GroupIds(b)
Links(b) == [k \in DOMAIN b.relations |-> <<b.relations[k].from, b.relations[k].to>>]

\* The statement stream and the relations agree, an entity has at most one
\* line of its own, relations end on something, groups are bracketed.
ReferencesResolve ==
  LET stream == body.statements
      refs == SelectSeq(stream, LAMBDA st : st.kind = "relation")
      lines(id) == {k \in DOMAIN stream : stream[k].kind = "entity" /\ stream[k].id = id}
      at(kind, g) == {k \in DOMAIN stream : stream[k].kind = kind /\ stream[k].id = g}
  IN /\ [k \in DOMAIN refs |-> refs[k].ref] = [k \in DOMAIN body.relations |-> k]
     /\ \A st \in ToSet(stream) : st.kind = "entity" => st.id \in EntityIds(body)
     /\ Cardinality(EntityIds(body)) = Len(body.entities)
     /\ \A id \in EntityIds(body) : Cardinality(lines(id)) <= 1
     /\ \A r \in ToSet(body.relations) : {r.from, r.to} \subseteq Nodes(body)
     /\ \A g \in GroupIds(body) :
          \E i, j \in DOMAIN stream : at("group-open", g) = {i} /\ at("group-close", g) = {j} /\ i < j

\* What a body says of its entities, relations and groups.  Left out: the
\* group and the label of an entity without a line of its own, and the
\* direction of the whole, which a text may lose without a warning.
Content(b) ==
  [entities |-> {[b.entities[k] EXCEPT !.group = None, !.label = None] : k \in Entities(b)},
   relations |-> b.relations, groups |-> b.groups, classes |-> b.classes]

\* A body that does not say the same as the text it is written to is one the
\* verifier rejects or reports dropped content for.
LossIsAnnounced ==
  Rejected(body) \/ Core!LossReported(body)
    \/ \A r \in Reparse(body) : Content(r) = Content(body)
=============================================================================
