--------------------------- MODULE GanttSchedule ---------------------------
(***************************************************************************)
(* The calendar and dependency resolver of src/src/gantt/schedule.ts.      *)
(*                                                                         *)
(* Instants are whole days.  A task is a record with an id (NoId when it   *)
(* has none), a start and an end.  An expression is a record: its form is  *)
(* "after", "until", "word" or "none", and `args` holds the ids it names   *)
(* or the one word it is.  DayOf and DaysIn say which words are dates and  *)
(* which are durations.  A calendar gives the excluded days and whether    *)
(* an explicit end date is inclusive.                                      *)
(***************************************************************************)
EXTENDS Integers, FiniteSets, Sequences, FiniteSetsExt

CONSTANTS NoId,     \* the id of a task without one
          DayOf,    \* word that is a date -> its day
          DaysIn    \* word that is a duration -> its days

Word(e) == e.args[1]
Ids(e) == {e.args[k] : k \in DOMAIN e.args}
IsDate(e) == e.form = "word" /\ Word(e) \in DOMAIN DayOf
IsDuration(e) == e.form = "word" /\ Word(e) \in DOMAIN DaysIn
HasStart(t) == t.start.form # "none"

\* Tasks that carry one of the ids of an expression.
Named(tasks, e) == {i \in DOMAIN tasks : tasks[i].id # NoId /\ tasks[i].id \in Ids(e)}

KnownRefs(tasks, e) == \A id \in Ids(e) : \E i \in DOMAIN tasks : tasks[i].id = id

\* What a task waits for: the task before it when it has no start of its own,
\* the tasks its start follows, the tasks its end is anchored to.
DependencyIndexes(tasks, i) ==
  (IF ~HasStart(tasks[i]) /\ i > 1 THEN {i - 1} ELSE {})
    \union (IF tasks[i].start.form = "after" THEN Named(tasks, tasks[i].start) ELSE {})
    \union (IF tasks[i].end.form = "until" THEN Named(tasks, tasks[i].end) ELSE {})

\* No dependency cycle: the tasks can be ranked below what waits for them.
Acyclic(tasks) ==
  \E rank \in [DOMAIN tasks -> DOMAIN tasks] :
    \A i \in DOMAIN tasks : \A d \in DependencyIndexes(tasks, i) : rank[d] < rank[i]

\* Every excluded day met in (start, end] pushes the end one day out; the drawn
\* end is the last end seen while the walk was on working days.
ExtendOverExcludedDays(start, end, excluded) ==
  LET walk[day \in Int, last \in Int, drawn \in Int, off \in BOOLEAN] ==
        IF day > last THEN [end |-> last, renderEnd |-> drawn]
        ELSE walk[day + 1,
                  IF day \in excluded THEN last + 1 ELSE last,
                  IF off THEN drawn ELSE last,
                  day \in excluded]
  IN walk[start + 1, end, end, FALSE]

\* The source is one the resolver accepts: a start for the first task, dates
\* that parse, references that exist, no cycle, at least one task.
Resolvable(tasks) ==
  /\ tasks # << >>
  /\ HasStart(tasks[1])
  /\ \A i \in DOMAIN tasks :
       LET t == tasks[i] IN
       /\ \/ t.start.form = "none"
          \/ t.start.form = "after" /\ KnownRefs(tasks, t.start)
          \/ IsDate(t.start)
       /\ \/ t.end.form = "until" /\ KnownRefs(tasks, t.end)
          \/ IsDuration(t.end)
          \/ IsDate(t.end)
  /\ Acyclic(tasks)

\* The interval of every task of a resolvable source.
Resolve(tasks, calendar) ==
  LET at[i \in DOMAIN tasks] ==
        LET t == tasks[i]
            start == CASE t.start.form = "none"  -> at[i - 1].end
                       [] t.start.form = "after" -> Max({at[j].end : j \in Named(tasks, t.start)})
                       [] OTHER                  -> DayOf[Word(t.start)]
            raw == CASE t.end.form = "until" -> Min({at[j].start : j \in Named(tasks, t.end)})
                     [] IsDuration(t.end)    -> start + DaysIn[Word(t.end)]
                     [] OTHER -> DayOf[Word(t.end)] + (IF calendar.inclusive THEN 1 ELSE 0)
            fixed == IF IsDuration(t.end)
                       THEN ExtendOverExcludedDays(start, raw, calendar.excluded)
                       ELSE [end |-> raw, renderEnd |-> raw]
            end == Max({start, fixed.end})
        IN [start |-> start, end |-> end,
            renderEnd |-> Min({end, Max({start, fixed.renderEnd})})]
  IN [i \in DOMAIN tasks |-> at[i]]

AfterEdges(tasks) ==
  {e \in (DOMAIN tasks) \X (DOMAIN tasks) :
     tasks[e[2]].start.form = "after" /\ e[1] \in Named(tasks, tasks[e[2]].start)}

ProjectEnd(tasks, schedule) == Max({schedule[i].end : i \in DOMAIN tasks})

LooseSlack(tasks, schedule) ==   \* mutant: only the direct successors are looked at
  [i \in DOMAIN tasks |->
     Min({ProjectEnd(tasks, schedule)}
           \union {schedule[e[2]].start + ProjectEnd(tasks, schedule) - schedule[e[2]].end :
                     e \in {e \in AfterEdges(tasks) : e[1] = i}}) - schedule[i].end]

\* The backward pass of the critical path analysis, over `after` edges only.
Slack(tasks, schedule) ==
  LET latest[i \in DOMAIN tasks] ==
        Min({ProjectEnd(tasks, schedule)}
              \union {latest[e[2]] - (schedule[e[2]].end - schedule[e[2]].start) :
                        e \in {e \in AfterEdges(tasks) : e[1] = i}})
  IN [i \in DOMAIN tasks |-> latest[i] - schedule[i].end]

CriticalTasks(tasks, schedule) ==
  {i \in DOMAIN tasks : /\ \E e \in AfterEdges(tasks) : i \in {e[1], e[2]}
                        /\ tasks[i].id # NoId
                        /\ Slack(tasks, schedule)[i] = 0}
=============================================================================
