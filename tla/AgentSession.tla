---------------------------- MODULE AgentSession ----------------------------
(***************************************************************************)
(* An agent that edits one diagram through src/src/agent: the families     *)
(* under the checked editing loop, of which one is chosen by the first     *)
(* line of the text and stays the same for as long as the diagram lives.   *)
(***************************************************************************)
EXTENDS ChartEditing

CONSTANTS gantt, er, sequence, architecture, class, state, flowchart, gitgraph,
          mindmap \* of each family its sources and arguments

VARIABLE kind

Gantt == INSTANCE GanttEditing
  WITH NoId <- None, NoLabel <- None, DayOf <- gantt.dayOf, DaysIn <- gantt.daysIn,
       TagOrder <- gantt.tagOrder, Statuses <- gantt.statuses, Flags <- gantt.flags,
       Sources <- gantt.sources, Titles <- gantt.titles, Labels <- gantt.labels,
       TaskIds <- gantt.ids, Starts <- gantt.starts, Ends <- gantt.ends
Er == INSTANCE ErEditing
  WITH Sources <- er.sources, Ids <- er.ids, Texts <- er.texts,
       Attributes <- er.attributes, Directions <- er.directions
Sequence == INSTANCE SequenceEditing
  WITH Sources <- sequence.sources, Ids <- sequence.ids, Texts <- sequence.texts,
       FragmentKinds <- sequence.fragmentKinds, BlockWords <- sequence.blockWords
Architecture == INSTANCE ArchitectureEditing
  WITH Sources <- architecture.sources, Ids <- architecture.ids,
       Texts <- architecture.texts, Sides <- architecture.sides
Class == INSTANCE ClassEditing
  WITH Sources <- class.sources, Ids <- class.ids, Texts <- class.texts,
       Paths <- class.paths, Types <- class.types
State == INSTANCE StateEditing
  WITH Sources <- state.sources, Ids <- state.ids, Texts <- state.texts,
       Directions <- state.directions, Ends <- state.ends, Parents <- state.parents
Flowchart == INSTANCE FlowchartEditing
  WITH Sources <- flowchart.sources, Ids <- flowchart.ids, Texts <- flowchart.texts,
       TypedShapes <- flowchart.typedShapes, Shapes <- flowchart.shapes,
       Styles <- flowchart.styles, Directions <- flowchart.directions, Ends <- flowchart.ends
GitGraph == INSTANCE GitGraphEditing
  WITH Sources <- gitgraph.sources, Ids <- gitgraph.ids, Texts <- gitgraph.texts,
       Main <- gitgraph.main, AutoIds <- gitgraph.autoIds, Names <- gitgraph.names,
       Types <- gitgraph.types
Mindmap == INSTANCE MindmapEditing
  WITH Sources <- mindmap.sources, Ids <- mindmap.ids, Texts <- mindmap.texts,
       Bold <- mindmap.bold, Labels <- mindmap.labels, Shapes <- mindmap.shapes

vars == <<kind, published, body, ops>>

Init ==
  \/ kind = "gantt" /\ Gantt!Init
  \/ kind = "er" /\ Er!Init
  \/ kind = "sequence" /\ Sequence!Init
  \/ kind = "architecture" /\ Architecture!Init
  \/ kind = "class" /\ Class!Init
  \/ kind = "state" /\ State!Init
  \/ kind = "flowchart" /\ Flowchart!Init
  \/ kind = "gitgraph" /\ GitGraph!Init
  \/ kind = "mindmap" /\ Mindmap!Init
  \/ kind = "timeline" /\ Timeline!Init
  \/ kind = "radar" /\ Radar!Init
  \/ kind = "sankey" /\ Sankey!Init

Next ==
  \/ kind = "gantt" /\ Gantt!Next /\ UNCHANGED kind
  \/ kind = "er" /\ Er!Next /\ UNCHANGED kind
  \/ kind = "sequence" /\ Sequence!Next /\ UNCHANGED kind
  \/ kind = "architecture" /\ Architecture!Next /\ UNCHANGED kind
  \/ kind = "class" /\ Class!Next /\ UNCHANGED kind
  \/ kind = "state" /\ State!Next /\ UNCHANGED kind
  \/ kind = "flowchart" /\ Flowchart!Next /\ UNCHANGED kind
  \/ kind = "gitgraph" /\ GitGraph!Next /\ UNCHANGED kind
  \/ kind = "mindmap" /\ Mindmap!Next /\ UNCHANGED kind
  \/ kind = "timeline" /\ Timeline!Next /\ UNCHANGED kind
  \/ kind = "radar" /\ Radar!Next /\ UNCHANGED kind
  \/ kind = "sankey" /\ Sankey!Next /\ UNCHANGED kind

Spec == Init /\ [][Next]_vars

(* ------------------------------ properties ------------------------------ *)

\* Whatever operations are accepted in whatever order, the parallel structures
\* of a body agree: the statement stream with what it refers to, links with
\* their ends, parents with groups (the splices of the *-body.ts files).
ReferencesResolve ==
  CASE kind = "gantt" -> Gantt!ReferencesResolve
    [] kind = "er" -> Er!ReferencesResolve
    [] kind = "sequence" -> Sequence!ReferencesResolve
    [] kind = "architecture" -> Architecture!ReferencesResolve
    [] kind = "class" -> Class!ReferencesResolve
    [] kind = "state" -> State!ReferencesResolve
    [] kind = "flowchart" -> Flowchart!ReferencesResolve
    [] kind = "gitgraph" -> GitGraph!ReferencesResolve
    [] kind = "mindmap" -> Mindmap!ReferencesResolve
    [] kind = "timeline" -> Timeline!ReferencesResolve
    [] kind = "radar" -> Radar!ReferencesResolve
    [] OTHER -> Sankey!ReferencesResolve

\* A body whose text would say something else than the body is one that verify
\* rejects or reports dropped content for (roundtripFaithfulnessWarnings
\* compares counts only).
LossIsAnnounced ==
  CASE kind = "gantt" -> Gantt!LossIsAnnounced
    [] kind = "er" -> Er!LossIsAnnounced
    [] kind = "sequence" -> Sequence!LossIsAnnounced
    [] kind = "architecture" -> Architecture!LossIsAnnounced
    [] kind = "class" -> Class!LossIsAnnounced
    [] kind = "state" -> State!LossIsAnnounced
    [] kind = "flowchart" -> Flowchart!LossIsAnnounced
    [] kind = "gitgraph" -> GitGraph!LossIsAnnounced
    [] kind = "mindmap" -> Mindmap!LossIsAnnounced
    [] kind = "timeline" -> Timeline!LossIsAnnounced
    [] kind = "radar" -> Radar!LossIsAnnounced
    [] OTHER -> Sankey!LossIsAnnounced

TextIsStable(b) ==
  CASE kind = "gantt" -> Gantt!Reparse(b) = {b}
    [] kind = "er" -> Er!Reparse(b) = {b}
    [] kind = "sequence" -> Sequence!Reparse(b) = {b}
    [] kind = "architecture" -> b = Architecture!Blank \/ Architecture!Reparse(b) = {b}
    [] kind = "class" -> Class!Reparse(b) = {b}
    [] kind = "state" -> State!TextIsStable(b)
    [] kind = "flowchart" -> Flowchart!Reparse(b) = {b}
    [] kind = "gitgraph" -> GitGraph!Reparse(b) = {b}
    [] kind = "mindmap" -> Mindmap!Reparse(b) = {b}
    [] kind = "timeline" -> Timeline!Reparse(b) = {b}
    [] kind = "radar" -> Radar!Reparse(b) = {b}
    [] OTHER -> Sankey!Reparse(b) = {b}

\* The text a batch hands out says what the agent is told: written again, it
\* parses to the same body (serialize after parse is a fixed point).
HeldTextIsStable == [][published' # published => TextIsStable(published')]_vars

\* No operation, refusal or round trip loses, repeats or reorders a line the
\* body does not model (the opaque segments of the statement stream), except
\* that move_section takes the lines of a section along with it.
OpaqueEndures ==
  [][/\ kind = "gantt" => Gantt!KeepsUnmodelled
     /\ kind = "sequence" => Sequence!KeepsUnmodelled]_vars

\* A change of order or of names changes nothing else: moving tasks and
\* sections moves no task in time (implicitChainError), rearranging a radar
\* chart leaves every value with its curve and axis (the splices of
\* reorder_axis), renaming merges no two nodes of a flow (rename_node).
NothingElseChanges ==
  [][/\ kind = "gantt" => Gantt!KeepsSchedule
     /\ kind = "radar" => Radar!KeepsValues
     /\ kind = "sankey" => Sankey!KeepsNodes]_vars

\* The slack the schedule reports can be spent without moving the project's
\* end, and not exceeded (analyzeGanttSchedule's backward pass).
SlackIsSpendable == kind = "gantt" => Gantt!SlackIsSpendable

NodesOf(b) ==
  CASE kind = "er" -> Er!Nodes(b)
    [] kind = "sequence" -> Sequence!Nodes(b)
    [] kind = "architecture" -> Architecture!Nodes(b)
    [] kind = "class" -> Class!Nodes(b)
    [] kind = "gitgraph" -> GitGraph!Nodes(b)
    [] OTHER -> {}

LinksOf(b) ==
  CASE kind = "er" -> Er!Links(b)
    [] kind = "sequence" -> Sequence!Links(b)
    [] kind = "architecture" -> Architecture!Links(b)
    [] kind = "class" -> Class!Links(b)
    [] kind = "gitgraph" -> GitGraph!Links(b)
    [] OTHER -> << >>

Graph == INSTANCE GraphEditing
  WITH nodes <- NodesOf(body), links <- LinksOf(body),
       savedNodes <- NodesOf(published), savedLinks <- LinksOf(published)

\* Every operation changes the graph by one thing and what hangs on it, every
\* refusal restores the text the agent holds.
ImplementsGraphEditing == Graph!GSpec

\* A class relation is written with an arrow of the sense it was read with
\* (renderClass and parseArrow; the run ClassArrows shows that it is not).
ArrowsKeepTheirSense == kind = "class" => Class!ArrowsKeepTheirSense
=============================================================================
