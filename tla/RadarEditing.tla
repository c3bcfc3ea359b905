---------------------------- MODULE RadarEditing ----------------------------
(***************************************************************************)
(* Radar charts under the checked editing loop: src/src/agent/             *)
(* radar-body.ts over the renderer's parser and scale (src/src/radar).     *)
(*                                                                         *)
(* A curve holds one value per axis, by position: whatever rearranges the  *)
(* axes rearranges the values of every curve with them.  A body is only    *)
(* accepted with a scale that is not degenerate, so removing an axis or a  *)
(* curve may be refused for the values that are left.                      *)
(* Left out: ticks, graticule and legend are one option `look`; ids and    *)
(* numbers refused for their characters; the limit of 256 axes.            *)
(***************************************************************************)
EXTENDS Naturals, Sequences, FiniteSetsExt, SequencesExt

CONSTANTS None,            \* no title
          Default,         \* the default look
          CutOf,           \* titles with a comment in them: what is left of each
          Sources,         \* authored sources: sequences of lines
          Ids, Titles, Labels, Values, Configs,    \* arguments of operations
          MaxOps

VARIABLES published, body, ops

IdsOf(items) == [k \in DOMAIN items |-> items[k].id]
IndexOf(items, id) == SelectInSeq(items, LAMBDA item : item.id = id)
AllValues(b) == UNION {ToSet(curve.values) : curve \in ToSet(b.curves)}

\* `max` is a set of at most one number: {} is the scale's own.
Blank == [title |-> None, axes |-> << >>, curves |-> << >>, min |-> 0, max |-> {}, look |-> Default]
EmptyDiagram(b) == b.axes = << >> /\ b.curves = << >>
Rejected(b) == EmptyDiagram(b)

(* ------------------------------- the scale ------------------------------ *)

Top(b) ==
  CASE b.max # {} -> Max(b.max)
    [] b.max = {} /\ AllValues(b) = {} -> 1
    [] OTHER -> Max(AllValues(b))

Degenerate(b) == Top(b) <= b.min

\* What a typed body may not be; the draft without axes and curves has no
\* values to scale.
Problem(b) ==
  \/ b.axes = << >> /\ b.curves # << >>
  \/ ~ IsInjective(IdsOf(b.axes)) \/ ~ IsInjective(IdsOf(b.curves))
  \/ \E curve \in ToSet(b.curves) : Len(curve.values) # Len(b.axes)
  \/ Degenerate(b) /\ (EmptyDiagram(b) => b.max # {})

(* ------------------------ the parser and serializer --------------------- *)

\* Statements come in any order; curves are resolved against all axes.  The
\* entries of a keyed curve are pairs, of which the first for an axis wins.
Resolved(curve, axes) ==
  LET entry(id) == SelectInSeq(curve.keyed, LAMBDA e : e[1] = id)
  IN CASE curve.keyed = << >> -> {curve}
       [] curve.keyed # << >> /\ (\E a \in ToSet(axes) : entry(a.id) = 0) -> {}
       [] OTHER -> {[curve EXCEPT !.values = [k \in DOMAIN axes |-> curve.keyed[entry(axes[k].id)][2]]]}

\* A line sets one option, an operation several; the other fields stay.
Configured(b, config) ==
  [field \in DOMAIN b |-> IF field \in DOMAIN config THEN config[field] ELSE b[field]]

ReadLine(b, line) ==
  CASE line.kind = "axis" -> [b EXCEPT !.axes = @ \o line.axes]
    [] line.kind = "curve" -> [b EXCEPT !.curves = Append(@, line.curve)]
    [] line.kind = "title" ->
         [b EXCEPT !.title = IF line.title \in DOMAIN CutOf THEN CutOf[line.title] ELSE line.title]
    [] OTHER -> Configured(b, line.config)

Parse(lines) ==
  LET read == FoldLeft(ReadLine, Blank, lines)
      resolved == [k \in DOMAIN read.curves |-> Resolved(read.curves[k], read.axes)]
      chart == [read EXCEPT !.curves = [k \in DOMAIN @ |->
                  LET curve == CHOOSE c \in resolved[k] : TRUE
                  IN [id |-> curve.id, label |-> curve.label, values |-> curve.values]]]
  IN IF {} \in ToSet(resolved) \/ EmptyDiagram(chart) \/ Problem(chart) THEN {} ELSE {chart}

Option(b, field) ==
  IF b[field] = Blank[field] THEN << >> ELSE <<[kind |-> "option", config |-> [f \in {field} |-> b[f]]]>>

CurveLine(c) ==
  [kind |-> "curve",
   curve |-> [id |-> c.id, label |-> c.label, values |-> c.values, keyed |-> << >>]]

Render(b) ==
  (IF b.title = None THEN << >> ELSE <<[kind |-> "title", title |-> b.title]>>)
    \o (IF b.axes = << >> THEN << >> ELSE <<[kind |-> "axis", axes |-> b.axes]>>)
    \o [k \in DOMAIN b.curves |-> CurveLine(b.curves[k])]
    \o Option(b, "min") \o Option(b, "max") \o Option(b, "look")

Reparse(b) == Parse(Render(b))

Tally(b) == <<Len(FlattenSeq([k \in DOMAIN b.curves |-> b.curves[k].values])), 0, Len(b.axes)>>

Core == INSTANCE EditCore WITH Empty <- EmptyDiagram

(* ------------------------------ operations ------------------------------ *)

\* Every operation ends with the check of the whole body.
Checked(b) == IF Problem(b) THEN {} ELSE {b}

Moved(items, from, to) == InsertAt(RemoveAt(items, from), to, items[from])
\* The values of every curve, rearranged as the axes are.
InsertValue(curves, at, value) ==
  [c \in DOMAIN curves |-> [curves[c] EXCEPT !.values = InsertAt(@, at, value)]]
RemoveValue(curves, at) == [c \in DOMAIN curves |-> [curves[c] EXCEPT !.values = RemoveAt(@, at)]]
MoveValue(curves, from, to) == [c \in DOMAIN curves |-> [curves[c] EXCEPT !.values = Moved(@, from, to)]]
Relabelled(item, to) == [item EXCEPT !.id = to, !.label = IF item.label = item.id THEN to ELSE @]

SetTitle(b, title) == Checked([b EXCEPT !.title = title])

AddAxis(b, id, at, fill) ==
  IF IndexOf(b.axes, id) # 0 THEN {}
  ELSE Checked([b EXCEPT !.axes = InsertAt(@, at, [id |-> id, label |-> id]),
                         !.curves = InsertValue(@, at, fill)])
RemoveAxis(b, k) ==
  Checked([b EXCEPT !.axes = RemoveAt(@, k), !.curves = RemoveValue(@, k)])
RenameAxis(b, k, to) ==
  IF IndexOf(b.axes, to) \notin {0, k} THEN {} ELSE Checked([b EXCEPT !.axes[k] = Relabelled(@, to)])
SetAxisLabel(b, k, label) == Checked([b EXCEPT !.axes[k].label = label])
ReorderAxis(b, from, to) ==
  Checked([b EXCEPT !.axes = Moved(@, from, to), !.curves = MoveValue(@, from, to)])

AddCurve(b, id, at, values) ==
  IF IndexOf(b.curves, id) # 0 THEN {}
  ELSE Checked([b EXCEPT !.curves = InsertAt(@, at, [id |-> id, label |-> id, values |-> values])])
RemoveCurve(b, k) == Checked([b EXCEPT !.curves = RemoveAt(@, k)])
SetCurveValues(b, k, values) == Checked([b EXCEPT !.curves[k].values = values])
SetCurveValue(b, k, axis, value) == Checked([b EXCEPT !.curves[k].values[axis] = value])
SetCurveLabel(b, k, label) == Checked([b EXCEPT !.curves[k].label = label])
RenameCurve(b, k, to) ==
  IF IndexOf(b.curves, to) \notin {0, k} THEN {} ELSE Checked([b EXCEPT !.curves[k] = Relabelled(@, to)])
ReorderCurve(b, from, to) == Checked([b EXCEPT !.curves = Moved(@, from, to)])

\* Of min and max only a maximum that is given is compared here; the check of
\* the whole body sees the scale the values make.
SetConfig(b, config) ==
  LET next == Configured(b, config)
  IN IF \E max \in next.max : max <= next.min THEN {} ELSE Checked(next)

(* -------------------------------- actions ------------------------------- *)

vars == <<published, body, ops>>
Axes == DOMAIN body.axes
Curves == DOMAIN body.curves
Slots(items) == 1 .. Len(items) + 1
Vectors == [Axes -> Values]
LabelsFor(item) == Labels \union {item.id}

set_title == \E title \in Titles \union {None} : Core!Commit(SetTitle(body, title))
add_axis ==
  \E id \in Ids, at \in Slots(body.axes), fill \in Values \union {body.min} :
     Core!Commit(AddAxis(body, id, at, fill))
remove_axis == \E k \in Axes : Core!Commit(RemoveAxis(body, k))
rename_axis == \E k \in Axes, to \in Ids : Core!Commit(RenameAxis(body, k, to))
set_axis_label ==
  \E k \in Axes : \E label \in LabelsFor(body.axes[k]) : Core!Commit(SetAxisLabel(body, k, label))
reorder_axis == \E from, to \in Axes : Core!Commit(ReorderAxis(body, from, to))
add_curve ==
  \E id \in Ids, at \in Slots(body.curves), values \in Vectors : Core!Commit(AddCurve(body, id, at, values))
remove_curve == \E k \in Curves : Core!Commit(RemoveCurve(body, k))
set_curve_values == \E k \in Curves, values \in Vectors : Core!Commit(SetCurveValues(body, k, values))
set_curve_value ==
  \E k \in Curves, axis \in Axes, value \in Values : Core!Commit(SetCurveValue(body, k, axis, value))
set_curve_label ==
  \E k \in Curves : \E label \in LabelsFor(body.curves[k]) : Core!Commit(SetCurveLabel(body, k, label))
rename_curve == \E k \in Curves, to \in Ids : Core!Commit(RenameCurve(body, k, to))
reorder_curve == \E from, to \in Curves : Core!Commit(ReorderCurve(body, from, to))
set_config == \E config \in Configs : Core!Commit(SetConfig(body, config))

\* A chart starts as authored text or as the draft of createMermaid.
Init == Core!Begin({Blank} \union UNION {Parse(source) : source \in Sources})

Next ==
  \/ set_title \/ set_config
  \/ add_axis \/ remove_axis \/ rename_axis \/ set_axis_label \/ reorder_axis
  \/ add_curve \/ remove_curve \/ rename_curve \/ set_curve_label \/ reorder_curve
  \/ set_curve_values \/ set_curve_value
  \/ Core!Refuse \/ Core!Publish

Spec == Init /\ [][Next]_vars

(* ------------------------------ properties ------------------------------ *)

\* Every curve has one value per axis, ids tell axes and curves apart, and a
\* chart with axes has a scale that every value can be drawn on.
ReferencesResolve ==
  /\ \A curve \in ToSet(body.curves) : Len(curve.values) = Len(body.axes)
  /\ IsInjective(IdsOf(body.axes)) /\ IsInjective(IdsOf(body.curves))
  /\ body.axes # << >> => Top(body) > body.min

\* A chart whose text would say something else is the draft or one the
\* verifier reports; a comment in a title cuts it (the README, known deviations).
LossIsAnnounced ==
  \/ Rejected(body) \/ Core!LossReported(body) \/ body.title \in DOMAIN CutOf
  \/ \A r \in Reparse(body) : r = body

ValueOf(b, curve, axis) == b.curves[IndexOf(b.curves, curve)].values[IndexOf(b.axes, axis)]
InBoth(items, others) == ToSet(IdsOf(items)) \intersect ToSet(IdsOf(others))

\* An operation that adds, removes, renames or moves axes or curves leaves the
\* value of every curve on every axis that is still there (the splices of the
\* values beside those of the axes).
KeepsValues ==
  (/\ ops' # ops
   /\ <<IdsOf(body'.axes), IdsOf(body'.curves)>> # <<IdsOf(body.axes), IdsOf(body.curves)>>)
  => \A curve \in InBoth(body.curves, body'.curves), axis \in InBoth(body.axes, body'.axes) :
        ValueOf(body', curve, axis) = ValueOf(body, curve, axis)
=============================================================================
