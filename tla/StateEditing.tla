---------------------------- MODULE StateEditing ----------------------------
(***************************************************************************)
(* State documents under the checked editing loop: the parser, serializer, *)
(* operations and verifier of src/src/agent/state-body.ts.                 *)
(*                                                                         *)
(* The tree of composites is kept flat: every state and transition names   *)
(* its scope, which is empty at the root and the pair of a composite's id  *)
(* and a region's number inside it.  A composite without concurrency has   *)
(* one region, a simple state has none.  The parser resolves names within  *)
(* a scope, the operations over the whole tree, in its order.              *)
(***************************************************************************)
EXTENDS Naturals, FiniteSets, Sequences, SequencesExt

CONSTANTS None,        \* no label, stereotype, base of a history, parent, style
          Sources,     \* authored sources: sequences of lines, well bracketed
          Ids, Texts, Directions, Ends, Parents,   \* arguments of operations
          MaxOps

VARIABLES published, body, ops

Root == << >>
Pseudo == [kind |-> "pseudo", id |-> None]

(* ------------------------------ the parser ------------------------------ *)

Blank == [states |-> << >>, transitions |-> << >>, notes |-> << >>, directions |-> {},
          classDefs |-> {}, defaultStyle |-> None]

New(id, scope) ==
  [id |-> id, scope |-> scope, label |-> None, bare |-> FALSE, stereotype |-> None,
   regions |-> 0, css |-> None, style |-> None]

StateIds(b) == {s.id : s \in ToSet(b.states)}
InScope(b, scope) == SelectSeq([k \in DOMAIN b.states |-> k], LAMBDA k : b.states[k].scope = scope)
HasInScope(b, scope, id) == \E s \in ToSet(b.states) : s.scope = scope /\ s.id = id
AtScope(b, scope, id) == CHOOSE k \in DOMAIN b.states : b.states[k].scope = scope /\ b.states[k].id = id

Ensure(b, scope, id) ==
  IF HasInScope(b, scope, id) THEN b ELSE [b EXCEPT !.states = Append(@, New(id, scope))]

\* A composite is not materialized by what mentions it.
Mention(b, scope, id, composites) == IF id \in composites THEN b ELSE Ensure(b, scope, id)

MentionEnd(b, scope, end, composites) ==
  IF end.kind = "state" THEN Mention(b, scope, end.id, composites) ELSE b

Relabel(b, scope, id, label) ==
  LET c == Ensure(b, scope, id)
  IN [c EXCEPT !.states[AtScope(c, scope, id)].label = IF @ = None THEN label ELSE @]

\* Where the direction of a scope is kept: on the composite for its first region.
DirectionKey(scope) == IF scope # Root /\ scope[2] = 1 THEN <<scope[1], 0>> ELSE scope
Point(b, key, direction) ==
  [b EXCEPT !.directions = {d \in @ : d.key # key} \union {[key |-> key, direction |-> direction]}]

PendingLabel(p, id) == IF id \in DOMAIN p.labels THEN p.labels[id] ELSE None

\* A composite takes the place of a simple state of its scope, and the label
\* that was waiting for it unless its own line gives one.
OpenComposite(p, scope, line) ==
  LET node == [New(line.id, scope) EXCEPT
                 !.label = IF line.label = None THEN PendingLabel(p, line.id) ELSE line.label,
                 !.regions = 1]
  IN [p EXCEPT !.stack = Append(@, <<line.id, 1>>),
               !.body.states = IF HasInScope(p.body, scope, line.id)
                                 THEN [@ EXCEPT ![AtScope(p.body, scope, line.id)] = node]
                                 ELSE Append(@, node)]

Block(b, id) == CHOOSE k \in DOMAIN b.states : b.states[k].id = id /\ b.states[k].regions > 0

\* `--` opens the next region of the innermost composite.
Separate(p, scope) ==
  [p EXCEPT !.stack = Append(Front(@), <<scope[1], scope[2] + 1>>),
            !.body.states[Block(p.body, scope[1])].regions = @ + 1]

ReadBody(b, scope, composites, line) ==
  CASE line.kind = "note" ->
         [Mention(b, scope, line.target, composites) EXCEPT
            !.notes = Append(@, [target |-> line.target, text |-> line.text])]
    [] line.kind = "classDef" -> [b EXCEPT !.classDefs = @ \union {line.name}]
    [] line.kind = "direction" -> Point(b, DirectionKey(scope), line.direction)
    [] line.kind = "transition" ->
         [MentionEnd(MentionEnd(b, scope, line.from, composites), scope, line.to, composites) EXCEPT
            !.transitions = Append(@, [from |-> line.from, to |-> line.to, label |-> line.label,
                                       style |-> None, scope |-> scope])]
    [] line.kind = "stereotype" ->
         LET c == Relabel(b, scope, line.id, line.label)
         IN [c EXCEPT !.states[AtScope(c, scope, line.id)].stereotype = line.stereotype]
    [] OTHER ->
         LET c == Ensure(b, scope, line.id)
         IN [c EXCEPT !.states[AtScope(c, scope, line.id)].bare = TRUE]

ReadLine(p, composites, line) ==
  LET scope == IF p.stack = << >> THEN Root ELSE Last(p.stack)
  IN CASE line.kind = "open" -> OpenComposite(p, scope, line)
       [] line.kind = "close" -> [p EXCEPT !.stack = Front(@)]
       [] line.kind = "separator" -> Separate(p, scope)
       [] line.kind \in {"css", "style"} -> [p EXCEPT !.paint = Append(@, line @@ [scope |-> scope])]
       [] line.kind = "linkStyle" -> [p EXCEPT !.linkStyles = Append(@, line)]
       [] line.kind = "label" ->
            IF line.id \in composites /\ ~HasInScope(p.body, scope, line.id)
              THEN [p EXCEPT !.labels = @ @@ (line.id :> line.label)]
              ELSE [p EXCEPT !.body = Relabel(@, scope, line.id, line.label)]
       [] OTHER -> [p EXCEPT !.body = ReadBody(@, scope, composites, line)]

Scopes(b) == {Root} \union UNION {{<<s.id, r>> : r \in 1 .. s.regions} : s \in ToSet(b.states)}
Inside(b, k) == [r \in 1 .. b.states[k].regions |-> <<b.states[k].id, r>>]

\* The states in the order of the tree, and the transitions in the order of
\* their lines: those inside a composite come before those beside it.
Visit(b, scope) ==
  LET visit[sc \in Scopes(b)] ==
        LET own == InScope(b, sc)
        IN FlattenSeq([i \in DOMAIN own |->
             <<own[i]>> \o FlattenSeq([r \in 1 .. b.states[own[i]].regions |->
                                         visit[Inside(b, own[i])[r]]])])
  IN visit[scope]

VisitTransitions(b) ==
  LET visit[sc \in Scopes(b)] ==
        LET own == InScope(b, sc)
        IN FlattenSeq([i \in DOMAIN own |->
             FlattenSeq([r \in 1 .. b.states[own[i]].regions |-> visit[Inside(b, own[i])[r]]])])
           \o SelectSeq([k \in DOMAIN b.transitions |-> k], LAMBDA k : b.transitions[k].scope = sc)
  IN visit[Root]

Found(b, id) == SelectSeq(Visit(b, Root), LAMBDA k : b.states[k].id = id)
Locate(b, id) == Found(b, id)[1]

\* Paint is applied when the tree is known, to the state of that name anywhere,
\* or to a new one in the scope of its line.
Paint(b, line) ==
  LET known == line.id \in StateIds(b)
      c == IF known THEN b ELSE Ensure(b, line.scope, line.id)
      k == IF known THEN Last(Found(b, line.id)) ELSE Len(c.states)
  IN IF line.kind = "css"
       THEN [c EXCEPT !.states[k].css = line.value, !.states[k].bare = IF known THEN @ ELSE TRUE]
       ELSE [c EXCEPT !.states[k].style = line.value, !.states[k].bare = IF known THEN @ ELSE TRUE]

\* A link style names the default or a transition by the number of its line.
StyleLink(b, line) ==
  IF line.index = 0 THEN [b EXCEPT !.defaultStyle = line.value]
  ELSE IF line.index \in DOMAIN b.transitions
    THEN [b EXCEPT !.transitions[line.index].style = line.value] ELSE b

IsImplicit(s) == s.label = None /\ ~s.bare /\ s.stereotype = None /\ s.regions = 0

\* canonicalizeStateOrder: states with a line of their own come first.
CanonicalOrder(b) ==
  [b EXCEPT !.states = SelectSeq(@, LAMBDA s : ~IsImplicit(s)) \o SelectSeq(@, LAMBDA s : IsImplicit(s))]

EmptyDiagram(b) == b.states = << >> /\ b.transitions = << >> /\ b.notes = << >>

\* A composite opened twice, or nothing to draw, leaves the source opaque.
Parse(lines) ==
  LET opens == SelectSeq(lines, LAMBDA line : line.kind = "open")
      composites == {line.id : line \in ToSet(opens)}
      p == FoldLeft(LAMBDA q, line : ReadLine(q, composites, line),
                    [body |-> Blank, stack |-> << >>, labels |-> << >>, paint |-> << >>,
                     linkStyles |-> << >>], lines)
      b == CanonicalOrder(FoldLeft(StyleLink, FoldLeft(Paint, p.body, p.paint), p.linkStyles))
  IN IF Cardinality(composites) # Len(opens) \/ EmptyDiagram(b) THEN {} ELSE {b}

(* ---------------------------- the serializer ---------------------------- *)

DirectionLines(b, key) ==
  IF \E d \in b.directions : d.key = key
    THEN <<[kind |-> "direction", direction |-> (CHOOSE d \in b.directions : d.key = key).direction]>>
    ELSE << >>

SimpleLines(s) ==
  CASE s.stereotype # None ->
         <<[kind |-> "stereotype", id |-> s.id, stereotype |-> s.stereotype, label |-> s.label]>>
    [] s.stereotype = None /\ s.label # None -> <<[kind |-> "label", id |-> s.id, label |-> s.label]>>
    [] s.stereotype = None /\ s.label = None /\ s.bare -> <<[kind |-> "bare", id |-> s.id]>>
    [] OTHER -> << >>

RenderScopes(b) ==
  LET render[sc \in Scopes(b)] ==
        LET own == SelectSeq(b.states, LAMBDA s : s.scope = sc)
            region(s, r) == (IF r = 1 THEN << >> ELSE <<[kind |-> "separator"]>>)
                              \o DirectionLines(b, DirectionKey(<<s.id, r>>)) \o render[<<s.id, r>>]
            lines(s) ==
              IF s.regions = 0 THEN SimpleLines(s)
              ELSE <<[kind |-> "open", id |-> s.id, label |-> s.label]>>
                     \o FlattenSeq([r \in 1 .. s.regions |-> region(s, r)]) \o <<[kind |-> "close"]>>
            transitions == SelectSeq(b.transitions, LAMBDA t : t.scope = sc)
        IN FlattenSeq([i \in DOMAIN own |-> lines(own[i])])
             \o [k \in DOMAIN transitions |-> [kind |-> "transition", from |-> transitions[k].from,
                                               to |-> transitions[k].to, label |-> transitions[k].label]]
  IN render[Root]

PaintLines(s) ==
  (IF s.css = None THEN << >> ELSE <<[kind |-> "css", id |-> s.id, value |-> s.css]>>)
    \o (IF s.style = None THEN << >> ELSE <<[kind |-> "style", id |-> s.id, value |-> s.style]>>)

LinkStyleLines(index, style) ==
  IF style = None THEN << >> ELSE <<[kind |-> "linkStyle", index |-> index, value |-> style]>>

Render(b) ==
  LET order == Visit(b, Root)
      links == VisitTransitions(b)
  IN DirectionLines(b, Root) \o RenderScopes(b)
       \o [k \in DOMAIN b.notes |-> [kind |-> "note", target |-> b.notes[k].target, text |-> b.notes[k].text]]
       \o [k \in 1 .. Cardinality(b.classDefs) |-> [kind |-> "classDef", name |-> SetToSeq(b.classDefs)[k]]]
       \o FlattenSeq([i \in DOMAIN order |-> PaintLines(b.states[order[i]])])
       \o LinkStyleLines(0, b.defaultStyle)
       \o FlattenSeq([i \in DOMAIN links |-> LinkStyleLines(i, b.transitions[links[i]].style)])

(* ------------------------------ the verifier ---------------------------- *)

Reparse(b) == Parse(Render(b))
Anchors(b, end) == end.kind = "state" \/ (end.kind = "history" /\ end.id # None) => end.id \in StateIds(b)
Misanchored(b) ==
  \/ \E t \in ToSet(b.transitions) : ~(Anchors(b, t.from) /\ Anchors(b, t.to))
  \/ \E n \in ToSet(b.notes) : n.target \notin StateIds(b)
Rejected(b) == EmptyDiagram(b) \/ Misanchored(b)
Tally(b) == <<Len(b.states), Len(b.transitions), 0>>

Core == INSTANCE EditCore WITH Empty <- EmptyDiagram

(* ------------------------------ operations ------------------------------ *)

Touches(end, id) == end.kind # "pseudo" /\ end.id = id
IsIn(scope, id) == scope # Root /\ scope[1] = id

\* preserveOrphanedImplicitStates: a state with no line of its own that no
\* transition mentions any more gets one.
PreserveOrphans(b) ==
  LET referenced == UNION {{e.id : e \in {e \in {t.from, t.to} : e.kind = "state"}} :
                             t \in ToSet(b.transitions)}
  IN [b EXCEPT !.states = [k \in DOMAIN @ |->
        IF IsImplicit(@[k]) /\ @[k].id \notin referenced THEN [@[k] EXCEPT !.bare = TRUE] ELSE @[k]]]

Settled(results) == {CanonicalOrder(PreserveOrphans(b)) : b \in results}

\* The scope an operation names: the root, or a region of a composite, which a
\* simple state becomes by being named (region 0: none was given).
ResolveScope(b, parent, region) ==
  IF parent = None THEN IF region = 0 THEN {[body |-> b, scope |-> Root]} ELSE {}
  ELSE IF parent \notin StateIds(b) THEN {}
  ELSE LET k == Locate(b, parent)
           n == IF region = 0 THEN 1 ELSE region
       IN IF b.states[k].regions = 0
            THEN IF region # 0 THEN {}
                 ELSE {[body |-> [b EXCEPT !.states[k].regions = 1], scope |-> <<parent, 1>>]}
          ELSE IF n > b.states[k].regions THEN {}
          ELSE {[body |-> b, scope |-> <<parent, n>>]}

AddState(b, id, label, parent, region) ==
  IF id \in StateIds(b) THEN {}
  ELSE {[at.body EXCEPT !.states = Append(@, [New(id, at.scope) EXCEPT !.label = label, !.bare = label = None])] :
          at \in ResolveScope(b, parent, region)}

\* A state and everything inside it, as positions.
Subtree(b, k) ==
  {k} \union UNION {ToSet(Visit(b, <<b.states[k].id, r>>)) : r \in 1 .. b.states[k].regions}
Keep(seq, Test(_)) ==
  LET kept == SelectSeq([k \in DOMAIN seq |-> k], Test) IN [i \in DOMAIN kept |-> seq[kept[i]]]

\* The subtree goes with every transition, at any level, and every note that
\* names one of its states; a composite with content only when asked to.
RemoveState(b, id, recursive) ==
  LET gone == Subtree(b, Locate(b, id))
      ids == {b.states[k].id : k \in gone}
      inside(scope) == \E k \in gone : b.states[k].regions > 0 /\ IsIn(scope, b.states[k].id)
      full == Cardinality(gone) > 1 \/ \E t \in ToSet(b.transitions) : inside(t.scope)
  IN IF full /\ ~recursive THEN {}
     ELSE {[b EXCEPT
              !.states = Keep(@, LAMBDA k : k \notin gone),
              !.transitions = SelectSeq(@, LAMBDA t :
                 ~inside(t.scope) /\ \A x \in ids : ~Touches(t.from, x) /\ ~Touches(t.to, x)),
              !.notes = SelectSeq(@, LAMBDA n : n.target \notin ids),
              !.directions = {d \in @ : ~inside(d.key)}]}

RenameState(b, from, to) ==
  LET k == Locate(b, from)
      scope(sc) == IF b.states[k].regions > 0 /\ IsIn(sc, from) THEN <<to, sc[2]>> ELSE sc
      end(e) == IF Touches(e, from) THEN [e EXCEPT !.id = to] ELSE e
  IN IF to \in StateIds(b) THEN {}
     ELSE {[b EXCEPT
              !.states = [i \in DOMAIN @ |-> [@[i] EXCEPT !.scope = scope(@),
                                                          !.id = IF i = k THEN to ELSE @]],
              !.transitions = [i \in DOMAIN @ |-> [@[i] EXCEPT !.scope = scope(@), !.from = end(@),
                                                               !.to = end(@)]],
              !.notes = [i \in DOMAIN @ |-> IF @[i].target = from THEN [@[i] EXCEPT !.target = to] ELSE @[i]],
              !.directions = {[d EXCEPT !.key = scope(@)] : d \in @}]}

SetLabel(b, id, label) ==
  LET k == Locate(b, id)
  IN [b EXCEPT !.states[k].label = label, !.states[k].bare = IF label = None THEN TRUE ELSE @]

\* A bare history needs a composite around it, a qualified one names one.
HistoryAllowed(b, end, parent) ==
  end.kind = "history" =>
    LET base == IF end.id = None THEN parent ELSE end.id
    IN base \in StateIds(b) /\ b.states[Locate(b, base)].regions > 0

\* A state nothing in the tree is called by is created in the transition's scope.
Create(b, scope, end) ==
  IF end.kind = "state" /\ end.id \notin StateIds(b)
    THEN [b EXCEPT !.states = Append(@, New(end.id, scope))] ELSE b

AddTransition(b, from, to, parent, region) ==
  IF ~HistoryAllowed(b, from, parent) \/ ~HistoryAllowed(b, to, parent) THEN {}
  ELSE {[Create(Create(at.body, at.scope, from), at.scope, to) EXCEPT
           !.transitions = Append(@, [from |-> from, to |-> to, label |-> None, style |-> None,
                                      scope |-> at.scope])] :
          at \in ResolveScope(b, parent, region)}

SetDirection(b, id, direction) ==
  IF id = None THEN {Point(b, Root, direction)}
  ELSE IF b.states[Locate(b, id)].regions = 0 THEN {}
  ELSE {Point(b, <<id, 0>>, direction)}

\* The state goes to the end of its new scope; its transitions stay.
MoveState(b, id, parent, region) ==
  LET k == Locate(b, id)
      ids == {b.states[i].id : i \in Subtree(b, k)}
      moved(at) == [at.body EXCEPT !.states =
                      Append(RemoveAt(@, k), [@[k] EXCEPT !.scope = at.scope])]
  IN IF parent \in ids THEN {}
     ELSE IF parent = None /\ region = 0 /\ b.states[k].scope = Root THEN {b}
     ELSE {moved(at) : at \in ResolveScope(b, parent, region)}

\* Children and inner transitions are hoisted, the children to the place of
\* the composite; refused while something names the composite.
Dissolve(b, id) ==
  LET k == Locate(b, id)
      outer == b.states[k].scope
      inner(r) == SelectSeq(b.states, LAMBDA s : s.scope = <<id, r>>)
      children == FlattenSeq([r \in 1 .. b.states[k].regions |-> inner(r)])
      lifted(seq) == [i \in DOMAIN seq |-> [seq[i] EXCEPT !.scope = outer]]
      others(seq) == SelectSeq(seq, LAMBDA s : ~IsIn(s.scope, id))
      inside == FlattenSeq([r \in 1 .. b.states[k].regions |->
                              SelectSeq(b.transitions, LAMBDA t : t.scope = <<id, r>>)])
  IN IF \/ b.states[k].regions = 0
        \/ \E t \in ToSet(b.transitions) : Touches(t.from, id) \/ Touches(t.to, id)
        \/ \E n \in ToSet(b.notes) : n.target = id
       THEN {}
     ELSE {[b EXCEPT !.states = others(SubSeq(@, 1, k - 1)) \o lifted(children)
                                  \o others(SubSeq(@, k + 1, Len(@))),
                     !.transitions = others(@) \o lifted(inside),
                     !.directions = {d \in @ : ~IsIn(d.key, id)}]}

\* Top-level states go into a new composite, in the order they are given, with
\* the transitions among them.  No state is given twice (the code would put it
\* there twice).
MakeComposite(b, id, label, members) ==
  LET goes(s) == s.scope = Root /\ s.id \in ToSet(members)
      within(t) == /\ t.scope = Root
                   /\ \A e \in {t.from, t.to} : e.kind = "state" /\ e.id \in ToSet(members)
      enter(x) == [x EXCEPT !.scope = <<id, 1>>]
  IN IF id \in StateIds(b) THEN {}
     ELSE {[b EXCEPT !.states = SelectSeq(@, LAMBDA s : ~goes(s))
                                  \o [i \in DOMAIN members |->
                                        enter(CHOOSE s \in ToSet(@) : goes(s) /\ s.id = members[i])]
                                  \o <<[New(id, Root) EXCEPT !.label = label, !.regions = 1]>>,
                     !.transitions = [i \in DOMAIN @ |-> IF within(@[i]) THEN enter(@[i]) ELSE @[i]]]}

(* -------------------------------- actions ------------------------------- *)

vars == <<published, body, ops>>
Commit(results) == Core!Commit(Settled(results))
Labels == Texts \union {None}
Known == StateIds(body)
RootIds == {s.id : s \in {s \in ToSet(body.states) : s.scope = Root}}
Regions == {0, 2}
OnState(field, values) ==
  \E id \in Known, value \in values : Commit({[body EXCEPT !.states[Locate(body, id)][field] = value]})
OnTransition(field, values) ==
  \E k \in DOMAIN body.transitions, value \in values :
     Commit({[body EXCEPT !.transitions[k][field] = value]})

add_state ==
  \E id \in Ids, label \in Labels, parent \in Parents, region \in Regions :
     Commit(AddState(body, id, label, parent, region))
remove_state ==
  \E id \in Known, recursive \in BOOLEAN : Commit(RemoveState(body, id, recursive))
rename_state == \E from \in Known, to \in Ids : Commit(RenameState(body, from, to))
set_state_label == \E id \in Known, label \in Labels : Commit({SetLabel(body, id, label)})
add_transition ==
  \E from \in Ends, to \in Ends, parent \in Parents, region \in Regions :
     Commit(AddTransition(body, from, to, parent, region))
remove_transition ==
  \E k \in DOMAIN body.transitions : Commit({[body EXCEPT !.transitions = RemoveAt(@, k)]})
set_transition_label == OnTransition("label", Labels)
set_direction ==
  \E id \in Parents \intersect (Known \union {None}), direction \in Directions : Commit(SetDirection(body, id, direction))
move_state ==
  \E id \in Known, parent \in Parents, region \in Regions : Commit(MoveState(body, id, parent, region))
dissolve_composite == \E id \in Known : Commit(Dissolve(body, id))
add_note ==
  \E target \in Known, text \in Texts :
     Commit({[body EXCEPT !.notes = Append(@, [target |-> target, text |-> text])]})
remove_note == \E k \in DOMAIN body.notes : Commit({[body EXCEPT !.notes = RemoveAt(@, k)]})
set_note_text ==
  \E k \in DOMAIN body.notes, text \in Texts : Commit({[body EXCEPT !.notes[k].text = text]})
define_class == \E name \in Texts : Commit({[body EXCEPT !.classDefs = @ \union {name}]})
set_state_class == OnState("css", Labels)
set_state_style == OnState("style", Labels)
set_transition_style ==
  \/ \E style \in Labels : Commit({[body EXCEPT !.defaultStyle = style]})
  \/ OnTransition("style", Labels)
make_composite ==
  \E id \in Ids, label \in Labels, members \in {m \in SetToAllKPermutations(RootIds) : Len(m) \in 1 .. 2} :
     Commit(MakeComposite(body, id, label, members))

Init == Core!Begin(UNION {Parse(source) : source \in Sources})

Next ==
  \/ add_state \/ remove_state \/ rename_state \/ set_state_label
  \/ add_transition \/ remove_transition \/ set_transition_label
  \/ set_direction \/ move_state \/ dissolve_composite
  \/ add_note \/ remove_note \/ set_note_text
  \/ define_class \/ set_state_class \/ set_state_style \/ set_transition_style
  \/ make_composite \/ Core!Refuse \/ Core!Publish

Spec == Init /\ [][Next]_vars

(* ------------------------------ properties ------------------------------ *)

Distinct(b) == Cardinality(StateIds(b)) = Len(b.states)

\* Every scope is a region of one composite, so that nothing hangs outside of
\* the tree; transitions and notes end on states; a state without a line of
\* its own is named by a line that brings it back.
ReferencesResolve ==
  LET owners(scope) == {s \in ToSet(body.states) : scope # Root /\ s.id = scope[1] /\ scope[2] <= s.regions}
      scopes == {x.scope : x \in ToSet(body.states) \union ToSet(body.transitions)}
                  \union {d.key : d \in body.directions}
  IN /\ \A scope \in scopes \ {Root} : Cardinality(owners(scope)) = 1
     /\ Len(Visit(body, Root)) = Len(body.states)
     /\ ~Misanchored(body)
     /\ \A s \in ToSet(PreserveOrphans(body).states) \ ToSet(body.states) :
           \E n \in ToSet(body.notes) : n.target = s.id

\* The tree alone: states of different scopes stand in no order, and a bare
\* line is needed only by a state no other line declares.
Tree(b) == [b EXCEPT !.states = [i \in DOMAIN @ |-> LET s == @[Visit(b, Root)[i]]
                                                   IN [s EXCEPT !.bare = ~IsImplicit(s)]],
                     !.transitions = [i \in DOMAIN @ |-> @[VisitTransitions(b)[i]]]]
TextIsStable(b) == ~Distinct(b) \/ {Tree(r) : r \in Reparse(b)} = {Tree(b)}

\* What a body says: a state with a line of its own with the scope it is in,
\* any other with its name and paint, the transitions in their scopes.  The
\* stereotype of a composite is left out: no line says it.
Content(b) ==
  [states |-> {IF IsImplicit(s) THEN [id |-> s.id, css |-> s.css, style |-> s.style]
               ELSE [s EXCEPT !.bare = FALSE, !.stereotype = IF s.regions > 0 THEN None ELSE @] :
                 s \in ToSet(b.states)},
   transitions |-> [k \in DOMAIN b.transitions |-> b.transitions[VisitTransitions(b)[k]]],
   notes |-> b.notes, directions |-> b.directions, classDefs |-> b.classDefs, style |-> b.defaultStyle]

\* A body that does not say the same as the text it is written to is one the
\* verifier rejects or reports dropped content for; a body in which an id is
\* that of two states has no text of its own (the README, known deviations).
LossIsAnnounced ==
  ~Distinct(body) \/ Rejected(body) \/ Core!LossReported(body)
    \/ \A r \in Reparse(body) : Content(r) = Content(body)
=============================================================================
