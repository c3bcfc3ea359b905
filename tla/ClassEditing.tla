---------------------------- MODULE ClassEditing ----------------------------
(***************************************************************************)
(* Class documents under the checked editing loop: the parser, serializer, *)
(* operations and verifier of src/src/agent/class-body.ts, with the        *)
(* namespace and relationship grammar of src/src/class/parser.ts.          *)
(*                                                                         *)
(* There is no statement stream: notes come first, then a block for every  *)
(* namespace of the registry, the other classes, relations and paint.      *)
(* A namespace's name is the sequence of the segments of its dot path, and *)
(* that of a class outside of all of them is empty.                        *)
(* Arrows with a marker at both ends and lollipops keep their spelling     *)
(* and are left out.                                                       *)
(***************************************************************************)
EXTENDS Naturals, FiniteSets, Sequences, SequencesExt

CONSTANTS None,        \* no title, label, generic, target or paint
          Sources,     \* authored sources: sequences of lines
          Ids, Texts, Paths, Types,   \* arguments of operations
          MaxOps

VARIABLES published, body, ops

(* ----------------------------- relationships ---------------------------- *)

\* The arrow a relation is written with: chosen by its type alone.
ArrowFor(type) ==
  CASE type = "inheritance" -> "<|--" [] type = "composition" -> "*--"
    [] type = "aggregation" -> "o--"  [] type = "association" -> "-->"
    [] type = "dependency" -> "..>"   [] type = "realization" -> "..|>"
    [] type = "link-solid" -> "--"    [] type = "link-dashed" -> ".."

\* What an arrow means: a type and the end that carries its marker.
ParseArrow(arrow) ==
  LET sense(type, markerAt) == [type |-> type, markerAt |-> markerAt]
  IN CASE arrow = "<|--" -> sense("inheritance", "from")
       [] arrow = "--|>" -> sense("inheritance", "to")
       [] arrow = "<|.." -> sense("realization", "from")
       [] arrow = "..|>" -> sense("realization", "to")
       [] arrow = "*--" -> sense("composition", "from")
       [] arrow = "--*" -> sense("composition", "to")
       [] arrow = "o--" -> sense("aggregation", "from")
       [] arrow = "--o" -> sense("aggregation", "to")
       [] arrow = "<--" -> sense("association", "from")
       [] arrow \in {"-->", "--"} -> sense("association", "to")
       [] arrow = "<.." -> sense("dependency", "from")
       [] arrow = "..>" -> sense("dependency", "to")
       [] arrow = ".." -> sense("link-dashed", None)

(* ------------------------------ the parser ------------------------------ *)

Looks == {"css", "style", "href"}
NewClass(id, label, generic) ==
  [id |-> id, label |-> label, generic |-> generic, members |-> << >>, namespace |-> << >>,
   looks |-> [look \in Looks |-> None]]
Blank == [title |-> None, classes |-> << >>, relations |-> << >>, notes |-> << >>,
          namespaces |-> << >>, classDefs |-> {}]

ClassIds(b) == {c.id : c \in ToSet(b.classes)}
ClassAt(b, id) == CHOOSE k \in DOMAIN b.classes : b.classes[k].id = id
Names(b) == {n.name : n \in ToSet(b.namespaces)}

\* The first label and the first generic parameter given to a class stay.
Upsert(b, id, label, generic) ==
  IF id \notin ClassIds(b) THEN [b EXCEPT !.classes = Append(@, NewClass(id, label, generic))]
  ELSE [b EXCEPT !.classes[ClassAt(b, id)] =
          [@ EXCEPT !.label = IF @ = None THEN label ELSE @,
                    !.generic = IF @ = None THEN generic ELSE @]]

\* The innermost open namespace claims a class no namespace has claimed.
Claim(b, id, path) ==
  [b EXCEPT !.classes[ClassAt(b, id)].namespace = IF @ = << >> THEN path ELSE @]

DeclareNamespace(b, path, label) ==
  IF path \notin Names(b)
    THEN [b EXCEPT !.namespaces = Append(@, [name |-> path, label |-> label])]
    ELSE [b EXCEPT !.namespaces = [k \in DOMAIN @ |->
            IF @[k].name = path /\ @[k].label = None THEN [@[k] EXCEPT !.label = label] ELSE @[k]]]

ReadBody(b, path, line) ==
  CASE line.kind = "title" -> [b EXCEPT !.title = line.text]
    [] line.kind = "classDef" -> [b EXCEPT !.classDefs = @ \union {line.name}]
    [] line.kind = "look" ->
         LET c == Claim(Upsert(b, line.id, None, None), line.id, path)
         IN [c EXCEPT !.classes[ClassAt(c, line.id)].looks[line.look] = line.value]
    [] line.kind = "class" ->
         LET c == Claim(Upsert(b, line.id, line.label, line.generic), line.id, path)
         IN [c EXCEPT !.classes[ClassAt(c, line.id)].members = @ \o line.members]
    [] line.kind = "note" -> [b EXCEPT !.notes = Append(@, [text |-> line.text, for |-> line.for])]
    [] line.kind = "relation" ->
         [Upsert(Upsert(b, line.from, None, None), line.to, None, None) EXCEPT
            !.relations = Append(@, [from |-> line.from, to |-> line.to,
                                     sense |-> ParseArrow(line.arrow)])]
    [] OTHER ->
         LET c == Upsert(b, line.id, None, None)
         IN [c EXCEPT !.classes[ClassAt(c, line.id)].members = Append(@, line.text)]

\* One closing brace pops every segment its opener pushed.
ReadLine(p, line) ==
  CASE line.kind = "namespace" ->
         LET path == p.path \o line.path
         IN [body |-> DeclareNamespace(p.body, path, line.label), path |-> path,
             frames |-> Append(p.frames, Len(line.path))]
    [] line.kind = "close" ->
         [p EXCEPT !.path = SubSeq(@, 1, Len(@) - Last(p.frames)), !.frames = Front(@)]
    [] OTHER -> [p EXCEPT !.body = ReadBody(@, p.path, line)]

\* A namespace nothing closes makes the whole source opaque.
Parse(lines) ==
  {p.body : p \in {p \in {FoldLeft(ReadLine, [body |-> Blank, path |-> << >>, frames |-> << >>], lines)} :
                     p.frames = << >>}}

(* ---------------------------- the serializer ---------------------------- *)

ClassLine(c) ==
  [kind |-> "class", id |-> c.id, label |-> c.label, generic |-> c.generic, members |-> c.members]
ClassLines(b, Test(_)) ==
  LET chosen == SelectSeq(b.classes, Test) IN [k \in DOMAIN chosen |-> ClassLine(chosen[k])]

\* A namespace without classes and label is implied by the paths below it.
Implied(b, n) ==
  /\ \A c \in ToSet(b.classes) : c.namespace # n.name
  /\ n.label = None
  /\ \E m \in Names(b) : IsStrictPrefix(n.name, m)

NamespaceLines(b, n) ==
  IF Implied(b, n) THEN << >>
  ELSE <<[kind |-> "namespace", path |-> n.name, label |-> n.label]>>
         \o ClassLines(b, LAMBDA c : c.namespace = n.name) \o <<[kind |-> "close"]>>

LookLines(c) ==
  FlattenSeq([k \in 1 .. 3 |->
    LET look == <<"css", "style", "href">>[k]
    IN IF c.looks[look] = None THEN << >>
       ELSE <<[kind |-> "look", id |-> c.id, look |-> look, value |-> c.looks[look]]>>])

Render(b) ==
  (IF b.title = None THEN << >> ELSE <<[kind |-> "title", text |-> b.title]>>)
    \o [k \in DOMAIN b.notes |-> [kind |-> "note", text |-> b.notes[k].text, for |-> b.notes[k].for]]
    \o FlattenSeq([k \in DOMAIN b.namespaces |-> NamespaceLines(b, b.namespaces[k])])
    \o ClassLines(b, LAMBDA c : c.namespace \notin Names(b))
    \o [k \in DOMAIN b.relations |->
          [kind |-> "relation", from |-> b.relations[k].from, to |-> b.relations[k].to,
           arrow |-> ArrowFor(b.relations[k].sense.type)]]
    \o [k \in 1 .. Cardinality(b.classDefs) |-> [kind |-> "classDef", name |-> SetToSeq(b.classDefs)[k]]]
    \o FlattenSeq([k \in DOMAIN b.classes |-> LookLines(b.classes[k])])

(* ------------------------------ the verifier ---------------------------- *)

Reparse(b) == Parse(Render(b))
EmptyDiagram(b) == b.classes = << >> /\ b.title = None
Misanchored(b) ==
  \/ \E r \in ToSet(b.relations) : ~({r.from, r.to} \subseteq ClassIds(b))
  \/ \E n \in ToSet(b.notes) : n.for \notin ClassIds(b) \union {None}
Rejected(b) == EmptyDiagram(b) \/ Misanchored(b)
Tally(b) == <<Len(b.classes), Len(b.relations), Len(b.namespaces)>>

Core == INSTANCE EditCore WITH Empty <- EmptyDiagram

(* ------------------------------ operations ------------------------------ *)

AddClass(b, c) ==
  IF c.id \in ClassIds(b) THEN {}
  ELSE LET d == [b EXCEPT !.classes = Append(@, c)]
       IN {IF c.namespace = << >> THEN d ELSE DeclareNamespace(d, c.namespace, None)}

SetNamespace(b, k, path) ==
  LET c == [b EXCEPT !.classes[k].namespace = path]
  IN IF path = << >> THEN c ELSE DeclareNamespace(c, path, None)

\* The relations that end on a class and the notes for it go with it.
RemoveClass(b, id) ==
  [b EXCEPT !.classes = SelectSeq(@, LAMBDA c : c.id # id),
            !.relations = SelectSeq(@, LAMBDA r : id \notin {r.from, r.to}),
            !.notes = SelectSeq(@, LAMBDA n : n.for # id)]

RenameClass(b, from, to) ==
  LET new(id) == IF id = from THEN to ELSE id
  IN IF to \in ClassIds(b) THEN {}
     ELSE {[b EXCEPT !.classes[ClassAt(b, from)].id = to,
                     !.relations = [k \in DOMAIN @ |-> [@[k] EXCEPT !.from = new(@), !.to = new(@)]],
                     !.notes = [k \in DOMAIN @ |-> [@[k] EXCEPT !.for = new(@)]]]}

(* -------------------------------- actions ------------------------------- *)

vars == <<published, body, ops>>
Classes == DOMAIN body.classes
Labels == Texts \union {None}
SetLook(look) ==
  \E k \in Classes, value \in Labels : Core!Commit({[body EXCEPT !.classes[k].looks[look] = value]})

set_title == \E title \in Labels : Core!Commit({[body EXCEPT !.title = title]})
add_class ==
  \E id \in Ids, label \in Labels, generic \in Labels, path \in Paths \union {<< >>} :
     Core!Commit(AddClass(body, [NewClass(id, label, generic) EXCEPT !.namespace = path]))
set_class_namespace ==
  \E k \in Classes, path \in Paths \union {<< >>} : Core!Commit({SetNamespace(body, k, path)})
define_class == \E name \in Texts : Core!Commit({[body EXCEPT !.classDefs = @ \union {name}]})
set_css_class == SetLook("css")
set_class_style == SetLook("style")
remove_class == \E id \in ClassIds(body) : Core!Commit({RemoveClass(body, id)})
rename_class == \E from \in ClassIds(body), to \in Ids : Core!Commit(RenameClass(body, from, to))
set_class_generic ==
  \E k \in Classes, generic \in Labels : Core!Commit({[body EXCEPT !.classes[k].generic = generic]})
add_member ==
  \E k \in Classes, text \in Texts : Core!Commit({[body EXCEPT !.classes[k].members = Append(@, text)]})
remove_member ==
  \E k \in Classes : \E n \in DOMAIN body.classes[k].members :
     Core!Commit({[body EXCEPT !.classes[k].members = RemoveAt(@, n)]})
add_relation ==
  \E from \in ClassIds(body), to \in ClassIds(body), type \in Types :
     Core!Commit({[body EXCEPT !.relations =
        Append(@, [from |-> from, to |-> to, sense |-> [type |-> type, markerAt |-> None]])]})
remove_relation ==
  \E k \in DOMAIN body.relations : Core!Commit({[body EXCEPT !.relations = RemoveAt(@, k)]})
add_note ==
  \E text \in Texts, for \in ClassIds(body) \union {None} :
     Core!Commit({[body EXCEPT !.notes = Append(@, [text |-> text, for |-> for])]})
remove_note == \E k \in DOMAIN body.notes : Core!Commit({[body EXCEPT !.notes = RemoveAt(@, k)]})

Init == Core!Begin(UNION {Parse(source) : source \in Sources})

Next ==
  \/ set_title \/ add_class \/ set_class_namespace \/ define_class
  \/ set_css_class \/ set_class_style \/ remove_class \/ rename_class
  \/ set_class_generic \/ add_member \/ remove_member
  \/ add_relation \/ remove_relation \/ add_note \/ remove_note
  \/ Core!Refuse \/ Core!Publish

Spec == Init /\ [][Next]_vars

(* ------------------------------ properties ------------------------------ *)

Nodes(b) == ClassIds(b)
Links(b) == [k \in DOMAIN b.relations |-> <<b.relations[k].from, b.relations[k].to>>]

\* Relations and notes end on classes, an id is that of one class, and every
\* class is in a namespace the registry knows, without which it is written at
\* the top level.
ReferencesResolve ==
  /\ Cardinality(ClassIds(body)) = Len(body.classes)
  /\ Cardinality(Names(body)) = Len(body.namespaces)
  /\ \A c \in ToSet(body.classes) : c.namespace \in Names(body) \union {<< >>}
  /\ ~Misanchored(body)

\* What a body says, in whatever order its classes stand; namespaces that are
\* implied and the sense of the arrows are left out.
Content(b) ==
  [title |-> b.title, classes |-> ToSet(b.classes), relations |-> Links(b), notes |-> b.notes,
   namespaces |-> {n \in ToSet(b.namespaces) : ~Implied(b, n)}, classDefs |-> b.classDefs]

\* A body that does not say the same as the text it is written to is one the
\* verifier rejects or reports dropped content for.
LossIsAnnounced ==
  Rejected(body) \/ Core!LossReported(body)
    \/ \A r \in Reparse(body) : Content(r) = Content(body)

\* A relation read from a text is written with an arrow of the same sense.
ArrowsKeepTheirSense ==
  \A r \in ToSet(body.relations) :
     r.sense.markerAt # None => ParseArrow(ArrowFor(r.sense.type)) = r.sense
=============================================================================
