---------------------------- MODULE GanttEditing ----------------------------
(***************************************************************************)
(* Gantt documents under the checked editing loop: the parser, serializer, *)
(* operations and verifier of src/src/agent/gantt-body.ts.                 *)
(*                                                                         *)
(* A source is a sequence of lines.  A body keeps the sections with their  *)
(* tasks and, in parallel, the statement stream that remembers where each  *)
(* of them and every line the body does not model stood in the source.     *)
(* A task carries its allocated number `n`, which is its identity.         *)
(***************************************************************************)
EXTENDS GanttSchedule, SequencesExt

CONSTANTS NoLabel,    \* the label of the implicit section, a removed title
          TagOrder,   \* GANTT_TASK_TAGS
          Statuses,   \* the tags set_task_status may choose
          Flags,      \* the tags set_task_flags may toggle
          Sources,    \* authored sources: sequences of lines
          Titles, Labels, TaskIds, Starts, Ends,   \* arguments of operations
          MaxOps

VARIABLES published, body, ops

NoExpr == [form |-> "none", args |-> << >>]
Tags == ToSet(TagOrder)

(* ------------------------------ the parser ------------------------------ *)

IndexesOf(seq) == 1 .. Len(seq)
IsTagWord(e) == e.form = "word" /\ Word(e) \in Tags

Canonical(tags) == SelectSeq(TagOrder, LAMBDA x : x \in tags)

\* Leading tags, then `[id,] [start,] end`.
ParseTaskMeta(items) ==
  LET n == Cardinality({i \in IndexesOf(items) : \A j \in 1 .. i : IsTagWord(items[j])})
      tags == [j \in 1 .. n |-> Word(items[j])]
      rest == SubSeq(items, n + 1, Len(items))
      k == Len(rest)
  IN {m \in {[tags |-> tags,
              id |-> IF k = 3 /\ rest[1].form = "word" THEN Word(rest[1]) ELSE NoId,
              start |-> IF k >= 2 THEN rest[k - 1] ELSE NoExpr,
              end |-> IF k > 0 THEN rest[k] ELSE NoExpr]} :
        /\ Cardinality(ToSet(tags)) = n
        /\ k \in 1 .. 3
        /\ k = 3 => rest[1].form = "word"}

RenderTaskMeta(t) ==
  [i \in DOMAIN t.tags |-> [form |-> "word", args |-> <<t.tags[i]>>]]
    \o (IF t.id = NoId THEN << >> ELSE <<[form |-> "word", args |-> <<t.id>>]>>)
    \o (IF HasStart(t) THEN <<t.start>> ELSE << >>)
    \o <<t.end>>

AllTasks(b) == UNION {ToSet(b.sections[s].tasks) : s \in DOMAIN b.sections}
AllTaskIds(b) == {t.id : t \in AllTasks(b)} \ {NoId}

\* The lowest free task number.
NextTaskNumber(b) ==
  LET used == {t.n : t \in AllTasks(b)}
  IN CHOOSE n \in 0 .. Cardinality(used) : n \notin used /\ 0 .. n - 1 \subseteq used

Blank == [title |-> NoLabel, sections |-> << >>, statements |-> << >>]

StartOpaque(statements, line) ==   \* mutant: a segment holds its first line only
  IF statements # << >> /\ Last(statements).kind = "opaque" THEN statements
  ELSE Append(statements, [kind |-> "opaque", lines |-> <<line>>])

AppendOpaque(statements, line) ==
  IF statements # << >> /\ Last(statements).kind = "opaque"
    THEN Front(statements) \o <<[kind |-> "opaque", lines |-> Append(Last(statements).lines, line)]>>
    ELSE Append(statements, [kind |-> "opaque", lines |-> <<line>>])

\* One task line; the implicit section is created for a task that precedes
\* every section header, a repeated task id makes the whole body opaque.
ReadTask(b, line) ==
  LET sections == IF b.sections = << >> THEN <<[label |-> NoLabel, tasks |-> << >>]>> ELSE b.sections
      s == Len(sections)
  IN {[b EXCEPT !.sections = [sections EXCEPT ![s].tasks =
                     Append(@, [n |-> NextTaskNumber(b), label |-> line.label, id |-> m.id,
                                tags |-> Canonical(ToSet(m.tags)), start |-> m.start, end |-> m.end])],
                !.statements = Append(@, [kind |-> "task", section |-> s,
                                          ref |-> Len(sections[s].tasks) + 1])] :
        m \in {m \in ParseTaskMeta(line.items) : m.id = NoId \/ m.id \notin AllTaskIds(b)}}

ReadLine(b, line) ==
  CASE line.kind = "title" ->
         {[b EXCEPT !.title = line.label, !.statements = Append(@, [kind |-> "title"])]}
    [] line.kind = "section" ->
         {[b EXCEPT !.sections = Append(@, [label |-> line.label, tasks |-> << >>]),
                    !.statements = Append(@, [kind |-> "section", ref |-> Len(b.sections) + 1])]}
    [] line.kind = "task" /\ ParseTaskMeta(line.items) # {} -> ReadTask(b, line)
    [] OTHER -> {[b EXCEPT !.statements = AppendOpaque(@, line)]}

Parse(lines) ==
  FoldLeft(LAMBDA bodies, line : UNION {ReadLine(b, line) : b \in bodies}, {Blank}, lines)

(* ---------------------------- the serializer ---------------------------- *)

TaskLine(t) == [kind |-> "task", label |-> t.label, items |-> RenderTaskMeta(t)]

StatementLines(b, st) ==
  CASE st.kind = "opaque" -> st.lines
    [] st.kind = "title" ->
         IF b.title = NoLabel THEN << >> ELSE <<[kind |-> "title", label |-> b.title]>>
    [] st.kind = "section" ->
         IF b.sections[st.ref].label = NoLabel THEN << >>
         ELSE <<[kind |-> "section", label |-> b.sections[st.ref].label]>>
    [] OTHER -> <<TaskLine(b.sections[st.section].tasks[st.ref])>>

Render(b) == FoldLeft(LAMBDA lines, st : lines \o StatementLines(b, st), << >>, b.statements)

(* ------------------------------ the verifier ---------------------------- *)

\* Tasks in the order of their lines, which is the order they are chained in.
FlatTasks(b) ==
  LET tasks == SelectSeq(b.statements, LAMBDA st : st.kind = "task")
  IN [i \in DOMAIN tasks |-> b.sections[tasks[i].section].tasks[tasks[i].ref]]

OpaqueLines(b) ==
  FoldLeft(LAMBDA lines, st : IF st.kind = "opaque" THEN lines \o st.lines ELSE lines,
           << >>, b.statements)

Calendar(b) ==
  LET days(k) == UNION {l.days : l \in {l \in ToSet(OpaqueLines(b)) : l.kind = k}}
  IN [excluded |-> days("excludes") \ days("includes"),
      inclusive |-> \E l \in ToSet(OpaqueLines(b)) : l.kind = "inclusiveEndDates"]

EmptyDiagram(b) == AllTasks(b) = {} /\ b.title = NoLabel /\ OpaqueLines(b) = << >>

Reparse(b) == Parse(Render(b))

\* Every remaining line must be one the renderer's own parser recognizes.
Recognized(b) == \A l \in ToSet(OpaqueLines(b)) : l.kind # "task"

DanglingRef(b) ==
  \E t \in AllTasks(b) : \E e \in {t.start, t.end} :
    e.form \in {"after", "until"} /\ \E id \in Ids(e) : id \notin AllTaskIds(b)

\* EMPTY_DIAGRAM, EDGE_MISANCHORED and UNRESOLVABLE_SCHEDULE; the schedule is
\* that of the serialized text.
Rejected(b) ==
  \/ EmptyDiagram(b)
  \/ DanglingRef(b)
  \/ \A r \in Reparse(b) : ~(Recognized(r) /\ Resolvable(FlatTasks(r)))

Tally(b) == <<Cardinality(AllTasks(b)), 0, Len(b.sections)>>

Core == INSTANCE EditCore WITH Empty <- EmptyDiagram
(* ------------------------------ operations ------------------------------ *)

\* The task survives its own canonical line: the line parses, and what it
\* parses to is written the same way.
ValidTask(t) ==
  \E m \in ParseTaskMeta(RenderTaskMeta(t)) : RenderTaskMeta(m) = RenderTaskMeta(t)

IsTaskOf(st, s) == st.kind = "task" /\ st.section = s

\* A task statement goes before the task it displaces, after the last
\* statement of its section, or, when the section has none, at the end.
InsertTaskStatement(statements, s, ref) ==
  LET shifted == [k \in DOMAIN statements |->
                    IF IsTaskOf(statements[k], s) /\ statements[k].ref >= ref
                      THEN [statements[k] EXCEPT !.ref = @ + 1] ELSE statements[k]]
      displaced == {k \in DOMAIN shifted : IsTaskOf(shifted[k], s) /\ shifted[k].ref > ref}
      own == {k \in DOMAIN shifted : \/ IsTaskOf(shifted[k], s)
                                     \/ shifted[k].kind = "section" /\ shifted[k].ref = s}
      at == IF displaced # {} THEN Min(displaced)
            ELSE IF own # {} THEN Max(own) + 1 ELSE Len(shifted) + 1
  IN InsertAt(shifted, at, [kind |-> "task", section |-> s, ref |-> ref])

RemoveTaskStatement(statements, s, ref) ==
  LET kept == SelectSeq(statements, LAMBDA st : ~(IsTaskOf(st, s) /\ st.ref = ref))
  IN [k \in DOMAIN kept |-> IF IsTaskOf(kept[k], s) /\ kept[k].ref > ref
                              THEN [kept[k] EXCEPT !.ref = @ - 1] ELSE kept[k]]

PutTask(b, s, i, t) ==
  [b EXCEPT !.sections[s].tasks = InsertAt(@, i, t),
            !.statements = InsertTaskStatement(@, s, i)]

TakeTask(b, s, i) ==
  [b EXCEPT !.sections[s].tasks = RemoveAt(@, i),
            !.statements = RemoveTaskStatement(@, s, i)]

WithTask(b, s, i, t) == {[b EXCEPT !.sections[s].tasks[i] = u] : u \in {u \in {t} : ValidTask(u)}}

\* A task without a start whose predecessor in source order changes.
ChainDisturbed(before, after) ==
  LET previous(tasks, n) == {tasks[k - 1].n : k \in {k \in DOMAIN tasks : k > 1 /\ tasks[k].n = n}}
  IN \E t \in ToSet(after) : ~HasStart(t) /\ previous(before, t.n) # previous(after, t.n)

Unchecked(b, c) == {c}   \* mutant: nobody looks at the chain
Undisturbed(b, c) == IF ChainDisturbed(FlatTasks(b), FlatTasks(c)) THEN {} ELSE {c}

SetTitle(b, title) ==
  IF title = NoLabel
    THEN [b EXCEPT !.title = NoLabel, !.statements = SelectSeq(@, LAMBDA st : st.kind # "title")]
    ELSE [b EXCEPT !.title = title,
                   !.statements = IF b.title = NoLabel THEN <<[kind |-> "title"]>> \o @ ELSE @]

AddSection(b, label) ==
  [b EXCEPT !.sections = Append(@, [label |-> label, tasks |-> << >>]),
            !.statements = Append(@, [kind |-> "section", ref |-> Len(b.sections) + 1])]

\* The section's header and tasks go; the unmodelled lines between them stay.
RemoveSection(b, s) ==
  LET kept == SelectSeq(b.statements,
                LAMBDA st : ~(IsTaskOf(st, s) \/ (st.kind = "section" /\ st.ref = s)))
  IN [b EXCEPT !.sections = RemoveAt(@, s),
               !.statements = [k \in DOMAIN kept |->
                  CASE kept[k].kind = "section" /\ kept[k].ref > s -> [kept[k] EXCEPT !.ref = @ - 1]
                    [] kept[k].kind = "task" /\ kept[k].section > s -> [kept[k] EXCEPT !.section = @ - 1]
                    [] OTHER -> kept[k]]]

AddTask(b, s, i, t) ==
  {PutTask(b, s, i, u) : u \in {u \in {[t EXCEPT !.n = NextTaskNumber(b)]} :
      ValidTask(u) /\ (u.id = NoId \/ u.id \notin AllTaskIds(b))}}

MoveTask(b, s, i, toSection, to) ==
  LET without == TakeTask(b, s, i)
  IN IF to > Len(without.sections[toSection].tasks) + 1 THEN {}
     ELSE Undisturbed(b, PutTask(without, toSection, to, b.sections[s].tasks[i]))

\* A labelled section moves with its whole span of lines; what precedes the
\* first header stays where it is.
MoveSection(b, from, to) ==
  LET stream == b.statements
      headers == {k \in DOMAIN stream : stream[k].kind = "section"}
      span(s) == LET first == CHOOSE k \in headers : stream[k].ref = s
                     later == {k \in headers : k > first}
                 IN SubSeq(stream, first, IF later = {} THEN Len(stream) ELSE Min(later) - 1)
      preamble == IF headers = {} THEN stream ELSE SubSeq(stream, 1, Min(headers) - 1)
      spanned == {stream[k].ref : k \in headers}
      order == InsertAt(RemoveAt([s \in DOMAIN b.sections |-> s], from), to, from)
      newIndex(s) == CHOOSE k \in DOMAIN order : order[k] = s
      moved == preamble \o FlattenSeq([k \in DOMAIN order |->
                             IF order[k] \in spanned THEN span(order[k]) ELSE << >>])
  IN IF \/ b.sections[from].label = NoLabel
        \/ b.sections[1].label = NoLabel /\ to = 1
       THEN {}
     ELSE IF from = to THEN {b}
     ELSE IF \E s \in DOMAIN b.sections : b.sections[s].label # NoLabel /\ s \notin spanned THEN {}
     ELSE Undisturbed(b,
            [b EXCEPT !.sections = [k \in DOMAIN order |-> b.sections[order[k]]],
                      !.statements = [k \in DOMAIN moved |->
                         CASE moved[k].kind = "section" -> [moved[k] EXCEPT !.ref = newIndex(@)]
                           [] moved[k].kind = "task" -> [moved[k] EXCEPT !.section = newIndex(@)]
                           [] OTHER -> moved[k]]])

Names(e, id) == e.form \in {"after", "until"} /\ id \in Ids(e)

ReferredInLines(b, id) ==
  \E l \in ToSet(OpaqueLines(b)) : \/ l.kind = "click" /\ l.id = id
                                   \/ l.kind = "task" /\ \E e \in ToSet(l.items) : Names(e, id)

RewriteRef(e, form, old, new) ==
  IF e.form = form THEN [e EXCEPT !.args = ReplaceAll(@, old, new)] ELSE e

RewriteRefs(b, old, new) ==
  [b EXCEPT !.sections = [s \in DOMAIN @ |-> [@[s] EXCEPT !.tasks = [i \in DOMAIN @ |->
     [@[i] EXCEPT !.start = RewriteRef(@, "after", old, new),
                  !.end = RewriteRef(@, "until", old, new)]]]]]

\* Clearing an id is refused while another task or a line refers to it.
ClearTaskId(b, s, i) ==
  LET t == b.sections[s].tasks[i]
  IN IF t.id = NoId THEN {b}
     ELSE IF \/ \E u \in AllTasks(b) \ {t} : Names(u.start, t.id) \/ Names(u.end, t.id)
             \/ ReferredInLines(b, t.id)
       THEN {}
     ELSE WithTask(b, s, i, [t EXCEPT !.id = NoId])

\* Changing one rewrites the references of every task, and is refused while a
\* line the body does not model refers to the old id.
ChangeTaskId(b, s, i, id) ==
  LET t == b.sections[s].tasks[i]
  IN IF id = t.id THEN {b}
     ELSE IF id \in AllTaskIds(b) \/ (t.id # NoId /\ ReferredInLines(b, t.id)) THEN {}
     ELSE {IF t.id = NoId THEN c ELSE RewriteRefs(c, t.id, id) :
             c \in WithTask(b, s, i, [t EXCEPT !.id = id])}

SetTaskStatus(b, s, i, status) ==
  LET structural == {x \in ToSet(b.sections[s].tasks[i].tags) : x \in Flags}
  IN [b EXCEPT !.sections[s].tasks[i].tags = Canonical(structural \union status)]

SetTaskFlags(b, s, i, flags) ==
  LET t == b.sections[s].tasks[i]
  IN WithTask(b, s, i, [t EXCEPT !.tags = Canonical((ToSet(@) \ Flags) \union flags)])

(* -------------------------------- actions ------------------------------- *)

vars == <<published, body, ops>>

OnTask(Op(_, _)) ==
  \E s \in DOMAIN body.sections : \E i \in DOMAIN body.sections[s].tasks : Core!Commit(Op(s, i))

NewTask(label, id, start, end) ==
  [n |-> 0, label |-> label, id |-> id, tags |-> << >>, start |-> start, end |-> end]

set_title == \E title \in Titles \union {NoLabel} : Core!Commit({SetTitle(body, title)})
add_section == \E label \in Labels : Core!Commit({AddSection(body, label)})
rename_section ==
  \E s \in DOMAIN body.sections, label \in Labels :
     /\ body.sections[s].label # NoLabel
     /\ Core!Commit({[body EXCEPT !.sections[s].label = label]})
remove_section == \E s \in DOMAIN body.sections : Core!Commit({RemoveSection(body, s)})
add_task ==
  \E s \in DOMAIN body.sections : \E i \in 1 .. Len(body.sections[s].tasks) + 1 :
    \E label \in Labels, id \in TaskIds \union {NoId}, start \in Starts \union {NoExpr}, end \in Ends :
       Core!Commit(AddTask(body, s, i, NewTask(label, id, start, end)))
remove_task == OnTask(LAMBDA s, i : {TakeTask(body, s, i)})
move_task ==
  \E toSection \in DOMAIN body.sections :
    \E to \in 1 .. Len(body.sections[toSection].tasks) + 1 :
       OnTask(LAMBDA s, i : MoveTask(body, s, i, toSection, to))
move_section ==
  \E from \in DOMAIN body.sections, to \in DOMAIN body.sections :
     Core!Commit(MoveSection(body, from, to))
rename_task ==
  \E label \in Labels :
     OnTask(LAMBDA s, i : WithTask(body, s, i, [body.sections[s].tasks[i] EXCEPT !.label = label]))
set_task_status ==
  \E status \in {{}} \union {{x} : x \in Statuses} :
     OnTask(LAMBDA s, i : {SetTaskStatus(body, s, i, status)})
set_task_dates ==
  \E start \in Starts \union {NoExpr}, end \in Ends :
     OnTask(LAMBDA s, i : WithTask(body, s, i,
              [body.sections[s].tasks[i] EXCEPT !.start = start, !.end = end]))
set_task_flags ==
  \E flags \in SUBSET Flags : OnTask(LAMBDA s, i : SetTaskFlags(body, s, i, flags))
set_task_id ==
  \/ OnTask(LAMBDA s, i : ClearTaskId(body, s, i))
  \/ \E id \in TaskIds : OnTask(LAMBDA s, i : ChangeTaskId(body, s, i, id))

Init == Core!Begin(UNION {Parse(source) : source \in Sources})

Next ==
  \/ set_title \/ add_section \/ rename_section \/ remove_section
  \/ add_task \/ remove_task \/ move_task \/ move_section \/ rename_task
  \/ set_task_status \/ set_task_dates \/ set_task_flags \/ set_task_id
  \/ Core!Refuse \/ Core!Publish

Spec == Init /\ [][Next]_vars
(* ------------------------------ properties ------------------------------ *)

\* What a body says, its allocated numbers and statement stream aside.
Content(b) ==
  [title |-> b.title,
   sections |-> [s \in DOMAIN b.sections |->
      [label |-> b.sections[s].label,
       tasks |-> [i \in DOMAIN b.sections[s].tasks |->
                    [b.sections[s].tasks[i] EXCEPT !.n = 0]]]]]

\* The statement stream and the sections agree: every task and every labelled
\* section has exactly one statement, the tasks of a section are written in
\* their order, a title that is set has a statement, numbers are not reused.
ReferencesResolve ==
  LET refs(s) == SelectSeq(body.statements, LAMBDA st : IsTaskOf(st, s))
      headers(s) == {k \in DOMAIN body.statements :
                       body.statements[k].kind = "section" /\ body.statements[k].ref = s}
  IN /\ \A st \in ToSet(body.statements) : st.kind = "task" => st.section \in DOMAIN body.sections
     /\ \A s \in DOMAIN body.sections :
          /\ [k \in DOMAIN refs(s) |-> refs(s)[k].ref] = [i \in DOMAIN body.sections[s].tasks |-> i]
          /\ Cardinality(headers(s)) = IF body.sections[s].label = NoLabel THEN 0 ELSE 1
     /\ body.title # NoLabel => \E st \in ToSet(body.statements) : st.kind = "title"
     /\ \A t, u \in AllTasks(body) : t.n = u.n => t = u

\* A body the verifier passes without a dropped-content warning says the same
\* as the text it is written to.
LossIsAnnounced ==
  Rejected(body) \/ Core!LossReported(body)
    \/ \A r \in Reparse(body) : Content(r) = Content(body)

\* The lines the body does not model, before the first section header and under
\* each header; they stay in their order, or move with their sections.
UnmodelledBySection(b) ==
  FoldLeft(LAMBDA spans, st :
             CASE st.kind = "section" -> Append(spans, << >>)
               [] st.kind = "opaque" -> Front(spans) \o <<Last(spans) \o st.lines>>
               [] OTHER -> spans,
           << << >> >>, b.statements)
KeepsUnmodelled ==
  \/ OpaqueLines(body)' = OpaqueLines(body)
  \/ /\ Head(UnmodelledBySection(body))' = Head(UnmodelledBySection(body))
     /\ ToBag(UnmodelledBySection(body))' = ToBag(UnmodelledBySection(body))

Intervals(b) ==
  LET tasks == FlatTasks(b)
      resolved == Resolve(tasks, Calendar(b))
  IN [n \in {t.n : t \in AllTasks(b)} |-> resolved[CHOOSE i \in DOMAIN tasks : tasks[i].n = n]]

\* An accepted operation that leaves every task as it is, and so can only have
\* changed their order or their sections, leaves every interval as it is.
KeepsSchedule ==
  (/\ ops' # ops
   /\ ToSet(FlatTasks(body')) = ToSet(FlatTasks(body))
   /\ Resolvable(FlatTasks(body)))
  => /\ Resolvable(FlatTasks(body'))
     /\ Intervals(body') = Intervals(body)

\* The end of the project when task i finishes `days` later, in a schedule
\* whose tasks start on dates or after other tasks and last a number of days.
DelayedEnd(tasks, schedule, i, days) ==
  LET end[j \in DOMAIN tasks] ==
        LET length == schedule[j].end - schedule[j].start
            start == IF tasks[j].start.form = "after"
                       THEN Max({end[d] : d \in Named(tasks, tasks[j].start)})
                       ELSE schedule[j].start
        IN start + length + (IF j = i THEN days ELSE 0)
  IN Max({end[j] : j \in DOMAIN tasks})

\* Slack is what a task can lose without moving the project's end, and no more.
SlackIsSpendable ==
  LET tasks == FlatTasks(body)
      schedule == Resolve(tasks, Calendar(body))
  IN (/\ Resolvable(tasks)
      /\ AfterEdges(tasks) # {}
      /\ Calendar(body).excluded = {}
      /\ \A i \in DOMAIN tasks : IsDuration(tasks[i].end) /\ HasStart(tasks[i]))
     => \A i \in DOMAIN tasks :
          LET slack == Slack(tasks, schedule)[i]
          IN /\ slack >= 0
             /\ DelayedEnd(tasks, schedule, i, slack) = ProjectEnd(tasks, schedule)
             /\ DelayedEnd(tasks, schedule, i, slack + 1) > ProjectEnd(tasks, schedule)
=============================================================================
