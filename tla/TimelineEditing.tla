-------------------------- MODULE TimelineEditing --------------------------
(***************************************************************************)
(* Timelines under the checked editing loop: the parser, serializer and    *)
(* operations of src/src/agent/timeline-body.ts and its verifier.          *)
(*                                                                         *)
(* Periods that precede every section line form a section without a label. *)
(* A text is read line by line, and what an operation calls a section or a *)
(* period may be written to a line that the grammar takes for another.     *)
(* Left out: allocated ids, direction, and texts refused for their         *)
(* characters alone.                                                       *)
(***************************************************************************)
EXTENDS Naturals, Sequences, SequencesExt

CONSTANTS None,          \* no label, title or event
          TitleOf,       \* period labels that begin with the word title: the title they are read as
          SectionOf,     \* period labels that begin with the word section: its label
          PeriodOf,      \* section labels with a colon: the period and the event they are read as
          Sources,       \* authored sources: sequences of lines
          Texts, SectionLabels, PeriodLabels,   \* arguments of operations
          MaxOps

VARIABLES published, body, ops

Sections(b) == DOMAIN b.sections
Periods(b, s) == DOMAIN b.sections[s].periods
Section(label, periods) == [label |-> label, periods |-> periods]
Period(label, events) == [label |-> label, events |-> events]
\* A text is the sequence of its parts: << >> is none.
Blank == [title |-> << >>, accTitle |-> << >>, accDescr |-> << >>, sections |-> << >>]

(* ------------------------------ the parser ------------------------------ *)

\* The period events are added to: the last one since the last section line.
HasPeriod(b) == b.sections # << >> /\ Last(b.sections).periods # << >>

\* A period goes to the current section, or opens the one without a label.
ReadPeriod(b, line) ==
  LET opened == IF b.sections = << >> THEN [b EXCEPT !.sections = <<Section(None, << >>)>>] ELSE b
      events == IF line.event = None THEN << >> ELSE <<line.event>>
  IN [opened EXCEPT !.sections[Len(opened.sections)].periods = Append(@, Period(line.label, events))]

ReadContinuation(b, line) ==
  LET s == Len(b.sections)
      p == Len(b.sections[s].periods)
  IN [b EXCEPT !.sections[s].periods[p].events = Append(@, line.event)]

\* A continuation without a period makes the whole text opaque.
ReadLine(b, line) ==
  CASE line.kind = "section" -> {[b EXCEPT !.sections = Append(@, Section(line.label, << >>))]}
    [] line.kind = "period" -> {ReadPeriod(b, line)}
    [] line.kind = "continuation" -> IF HasPeriod(b) THEN {ReadContinuation(b, line)} ELSE {}
    [] OTHER -> {[b EXCEPT ![line.kind] = line.text]}

Parse(lines) == FoldLeft(LAMBDA bs, line : UNION {ReadLine(b, line) : b \in bs}, {Blank}, lines)

(* ---------------------------- the serializer ---------------------------- *)

TextLine(b, kind) == IF b[kind] = << >> THEN << >> ELSE <<[kind |-> kind, text |-> b[kind]]>>

\* A section line, as the grammar takes it: its label may hold no colon.
SectionLine(label) ==
  CASE label = None -> << >>
    [] label \in DOMAIN PeriodOf ->
         <<[kind |-> "period", label |-> PeriodOf[label].label, event |-> PeriodOf[label].event]>>
    [] OTHER -> <<[kind |-> "section", label |-> label]>>

\* The first event stands on the period's own line; only a period without
\* events can be taken for a section.
PeriodLine(p) ==
  LET event == IF p.events = << >> THEN None ELSE p.events[1]
  IN CASE p.label \in DOMAIN TitleOf -> [kind |-> "title", text |-> <<TitleOf[p.label], event>>]
       [] p.label \in DOMAIN SectionOf /\ event = None -> [kind |-> "section", label |-> SectionOf[p.label]]
       [] OTHER -> [kind |-> "period", label |-> p.label, event |-> event]

PeriodLines(p) ==
  LET more == SubSeq(p.events, 2, Len(p.events))
  IN <<PeriodLine(p)>> \o [k \in DOMAIN more |-> [kind |-> "continuation", event |-> more[k]]]

Render(b) ==
  TextLine(b, "title") \o TextLine(b, "accTitle") \o TextLine(b, "accDescr")
    \o FlattenSeq([s \in Sections(b) |->
         SectionLine(b.sections[s].label)
           \o FlattenSeq([p \in Periods(b, s) |-> PeriodLines(b.sections[s].periods[p])])])

Reparse(b) == Parse(Render(b))
EmptyDiagram(b) == b = Blank
Rejected(b) == EmptyDiagram(b)

Tally(b) ==
  LET periods == FlattenSeq([s \in Sections(b) |-> b.sections[s].periods])
  IN <<Len(periods) + Len(FlattenSeq([k \in DOMAIN periods |-> periods[k].events])), 0, Len(b.sections)>>

Core == INSTANCE EditCore WITH Empty <- EmptyDiagram

(* ------------------------------ operations ------------------------------ *)

SetText(b, kind, text) == {[b EXCEPT ![kind] = text]}
AddSection(b, at, label) == {[b EXCEPT !.sections = InsertAt(@, at, Section(label, << >>))]}
RemoveSection(b, s) == {[b EXCEPT !.sections = RemoveAt(@, s)]}
SetSectionLabel(b, s, label) == {[b EXCEPT !.sections[s].label = label]}

\* A section without a label that lost its last period is dropped.
DropEmptiedImplicitSection(b, s) ==
  IF b.sections[s] = Section(None, << >>) THEN [b EXCEPT !.sections = RemoveAt(@, s)] ELSE b

AddPeriod(b, s, at, label, events) ==
  {[b EXCEPT !.sections[s].periods = InsertAt(@, at, Period(label, events))]}
RemovePeriod(b, s, p) ==
  {DropEmptiedImplicitSection([b EXCEPT !.sections[s].periods = RemoveAt(@, p)], s)}
SetPeriodLabel(b, s, p, label) == {[b EXCEPT !.sections[s].periods[p].label = label]}

AddEvent(b, s, p, at, text) == {[b EXCEPT !.sections[s].periods[p].events = InsertAt(@, at, text)]}
RemoveEvent(b, s, p, e) == {[b EXCEPT !.sections[s].periods[p].events = RemoveAt(@, e)]}
SetEventText(b, s, p, e, text) == {[b EXCEPT !.sections[s].periods[p].events[e] = text]}

\* Positions count what is left after the removal.
MovePeriod(b, s, p, to, at) ==
  LET rest == [b EXCEPT !.sections[s].periods = RemoveAt(@, p)]
      moved == [rest EXCEPT !.sections[to].periods = InsertAt(@, at, b.sections[s].periods[p])]
  IN IF at > Len(rest.sections[to].periods) + 1 THEN {}
     ELSE {IF s = to THEN moved ELSE DropEmptiedImplicitSection(moved, s)}

MoveEvent(b, s, p, e, to, at) ==
  LET rest == [b EXCEPT !.sections[s].periods[p].events = RemoveAt(@, e)]
  IN IF at > Len(rest.sections[to[1]].periods[to[2]].events) + 1 THEN {}
     ELSE {[rest EXCEPT !.sections[to[1]].periods[to[2]].events =
              InsertAt(@, at, b.sections[s].periods[p].events[e])]}

MoveSection(b, from, to) == {[b EXCEPT !.sections = InsertAt(RemoveAt(@, from), to, b.sections[from])]}

(* -------------------------------- actions ------------------------------- *)

vars == <<published, body, ops>>
Values == {<< >>} \union {<<t>> : t \in Texts}
Slots(seq) == 1 .. Len(seq) + 1
PeriodRefs == UNION {{<<s, p>> : p \in Periods(body, s)} : s \in Sections(body)}
PeriodAt(ref) == body.sections[ref[1]].periods[ref[2]]

set_title == \E text \in Values : Core!Commit(SetText(body, "title", text))
set_accessibility_title == \E text \in Values : Core!Commit(SetText(body, "accTitle", text))
set_accessibility_description == \E text \in Values : Core!Commit(SetText(body, "accDescr", text))
add_section ==
  \E at \in Slots(body.sections), label \in SectionLabels : Core!Commit(AddSection(body, at, label))
remove_section == \E s \in Sections(body) : Core!Commit(RemoveSection(body, s))
set_section_label ==
  \E s \in Sections(body), label \in SectionLabels : Core!Commit(SetSectionLabel(body, s, label))
add_period ==
  \E s \in Sections(body), label \in PeriodLabels, events \in {<< >>} \union {<<t, t>> : t \in Texts} :
     \E at \in Slots(body.sections[s].periods) : Core!Commit(AddPeriod(body, s, at, label, events))
remove_period == \E ref \in PeriodRefs : Core!Commit(RemovePeriod(body, ref[1], ref[2]))
set_period_label ==
  \E ref \in PeriodRefs, label \in PeriodLabels : Core!Commit(SetPeriodLabel(body, ref[1], ref[2], label))
add_event ==
  \E ref \in PeriodRefs, text \in Texts : \E at \in Slots(PeriodAt(ref).events) :
     Core!Commit(AddEvent(body, ref[1], ref[2], at, text))
remove_event ==
  \E ref \in PeriodRefs : \E e \in DOMAIN PeriodAt(ref).events : Core!Commit(RemoveEvent(body, ref[1], ref[2], e))
set_event_text ==
  \E ref \in PeriodRefs, text \in Texts : \E e \in DOMAIN PeriodAt(ref).events :
     Core!Commit(SetEventText(body, ref[1], ref[2], e, text))
move_period ==
  \E ref \in PeriodRefs, to \in Sections(body) : \E at \in Slots(body.sections[to].periods) :
     Core!Commit(MovePeriod(body, ref[1], ref[2], to, at))
move_event ==
  \E ref, to \in PeriodRefs : \E e \in DOMAIN PeriodAt(ref).events, at \in Slots(PeriodAt(to).events) :
     Core!Commit(MoveEvent(body, ref[1], ref[2], e, to, at))
move_section == \E from, to \in Sections(body) : Core!Commit(MoveSection(body, from, to))

Init == Core!Begin(UNION {Parse(source) : source \in Sources})

Next ==
  \/ set_title \/ set_accessibility_title \/ set_accessibility_description
  \/ add_section \/ remove_section \/ set_section_label \/ move_section
  \/ add_period \/ remove_period \/ set_period_label \/ move_period
  \/ add_event \/ remove_event \/ set_event_text \/ move_event
  \/ Core!Refuse \/ Core!Publish

Spec == Init /\ [][Next]_vars

(* ------------------------------ properties ------------------------------ *)

\* At most one section has no label, and it is not empty: no text says that
\* there is one (dropEmptiedImplicitSection).
ReferencesResolve ==
  \A s \in Sections(body) : body.sections[s].label = None =>
    /\ Periods(body, s) # {}
    /\ \A other \in Sections(body) \ {s} : body.sections[other].label # None

\* Sections read as periods with an event add to the counts what periods read
\* as sections or as the title take from them (the README, known deviations).
CountsCancel(b) ==
  /\ \E s \in Sections(b) : b.sections[s].label \in DOMAIN PeriodOf
  /\ \E s \in Sections(b) : \E p \in Periods(b, s) :
       b.sections[s].periods[p].label \in DOMAIN TitleOf \union DOMAIN SectionOf

\* A body whose text would say something else is one the verifier rejects or
\* reports dropped content for: sections that merge, periods read as sections
\* or titles and sections read as periods change the counts.
LossIsAnnounced ==
  Rejected(body) \/ Core!LossReported(body) \/ CountsCancel(body) \/ \A r \in Reparse(body) : r = body
=============================================================================
