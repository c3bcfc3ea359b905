-------------------------- MODULE AgentSessionProofs --------------------------
(***************************************************************************)
(* Proofs about the checked editing loop of src/src/agent, for three of its *)
(* families, any authored sources, any arguments of operations and any     *)
(* number of operations.  What the operations, the parser and the verifier *)
(* of a family do is shown in ChartEditingProofs.                          *)
(***************************************************************************)
EXTENDS AgentSession, ChartEditingProofs

\* A diagram keeps the family it is read as, and takes that family's steps.
LEMMA FamilyStep ==
    ASSUME [Next]_vars
    PROVE  /\ kind = "sankey" => kind' = kind /\ (Sankey!Next \/ UNCHANGED <<published, body>>)
           /\ kind = "radar" => kind' = kind /\ (Radar!Next \/ UNCHANGED <<published, body>>)
           /\ kind = "timeline" => kind' = kind /\ (Timeline!Next \/ UNCHANGED <<published, body>>)
BY DEF Next, vars

(***************************************************************************)
(* Sankey diagrams.                                                        *)
(***************************************************************************)
FlowSession == kind = "sankey" /\ SankeyInv

\* The inductive invariant: a diagram that starts as a flow stays one.
THEOREM SankeyInvariant == Spec /\ kind = "sankey" => []FlowSession
<1>1. Init /\ kind = "sankey" => FlowSession
  BY SankeyInit DEF Init, FlowSession
<1>2. FlowSession /\ [Next]_vars => FlowSession'
  BY FamilyStep, SankeyStep DEF FlowSession
<1>3. QED
  BY <1>1, <1>2, PTL DEF Spec

\* Whatever links are added, removed, weighed and renamed, the layout has a
\* place for every node of a flow (sankey-body.ts checks each body with
\* findSankeyCycle, which finds cycles; that a flow without one can be laid
\* out is shown here).
THEOREM FlowsResolve == Spec /\ kind = "sankey" => []ReferencesResolve
<1>1. FlowSession => ReferencesResolve
  BY FlowsAreLaidOut DEF FlowSession, ReferencesResolve
<1>2. QED
  BY <1>1, SankeyInvariant, PTL

\* The links a flow would lose with its text are always announced: the body
\* verify counts against has more links than what is read back.
THEOREM FlowLossIsAnnounced == Spec /\ kind = "sankey" => []LossIsAnnounced
<1>1. FlowSession => LossIsAnnounced
  BY FlowLoss DEF FlowSession, LossIsAnnounced
<1>2. QED
  BY <1>1, SankeyInvariant, PTL

\* The text of a flow is a fixed point: written again it is read as the same
\* links (serialize after parse, for the text every batch hands out).
THEOREM FlowTextIsStable == Spec /\ kind = "sankey" => HeldTextIsStable
<1>1. FlowSession /\ [Next]_vars => [published' # published => TextIsStable(published')]_vars
  <2> SUFFICES ASSUME FlowSession, Next, published' # published PROVE TextIsStable(published')
    OBVIOUS
  <2>1. kind' = "sankey" /\ SankeyInv /\ Sankey!Next
    BY FamilyStep DEF FlowSession
  <2>2. Sankey!Reparse(published') = {published'}
    BY <2>1, FlowText
  <2>3. QED
    BY <2>2 DEF FlowSession, TextIsStable
<1>2. QED
  BY <1>1, SankeyInvariant, PTL DEF Spec, HeldTextIsStable

\* No operation on a flow merges two nodes or splits one, whatever label a
\* node is renamed to (rename_node refuses a label another node has).
THEOREM RenamingKeepsNodes == Spec /\ kind = "sankey" => NothingElseChanges
<1>1. FlowSession /\ [Next]_vars =>
        [/\ kind = "gantt" => Gantt!KeepsSchedule
         /\ kind = "radar" => Radar!KeepsValues
         /\ kind = "sankey" => Sankey!KeepsNodes]_vars
  <2> SUFFICES ASSUME FlowSession, Next PROVE Sankey!KeepsNodes
    BY DEF FlowSession
  <2>1. SankeyInv /\ Sankey!Next
    BY DEF FlowSession, Next
  <2>2. QED
    BY <2>1, FlowNodesStay
<1>2. QED
  BY <1>1, SankeyInvariant, PTL DEF Spec, NothingElseChanges

(***************************************************************************)
(* Radar charts.                                                           *)
(***************************************************************************)
ChartSession == kind = "radar" /\ RadarInv

\* The inductive invariant: a chart that can be drawn stays one.
THEOREM RadarInvariant == Spec /\ kind = "radar" => []ChartSession
<1>1. Init /\ kind = "radar" => ChartSession
  BY RadarInit DEF Init, ChartSession
<1>2. ChartSession /\ [Next]_vars => ChartSession'
  BY FamilyStep, RadarStep DEF ChartSession
<1>3. QED
  BY <1>1, <1>2, PTL DEF Spec

\* A body is only accepted with one value per axis on every curve and a scale
\* that is not degenerate (radar-body.ts checks the whole body at the end of
\* every operation): whatever is added, removed, moved and renamed keeps it so.
THEOREM ChartsResolve == Spec /\ kind = "radar" => []ReferencesResolve
<1>1. ChartSession => ReferencesResolve
  BY ChartsAreDrawn DEF ChartSession, ReferencesResolve
<1>2. QED
  BY <1>1, RadarInvariant, PTL

\* Whatever rearranges the axes rearranges the values of every curve with them
\* (the splices of add_axis, remove_axis and reorder_axis in radar-body.ts), and
\* nothing that adds, removes, renames or moves curves touches another curve's.
THEOREM RearrangingKeepsValues == Spec /\ kind = "radar" => NothingElseChanges
<1>1. ChartSession /\ [Next]_vars =>
        [/\ kind = "gantt" => Gantt!KeepsSchedule
         /\ kind = "radar" => Radar!KeepsValues
         /\ kind = "sankey" => Sankey!KeepsNodes]_vars
  <2> SUFFICES ASSUME ChartSession, Next PROVE Radar!KeepsValues
    BY DEF ChartSession
  <2>1. RadarInv /\ Radar!Next
    BY DEF ChartSession, Next
  <2>2. QED
    BY <2>1, ChartValuesStay
<1>2. QED
  BY <1>1, RadarInvariant, PTL DEF Spec, NothingElseChanges

\* What is lost is announced: a chart whose text would say something else than
\* the chart is the draft, or one whose title a comment cuts (renderRadar in
\* radar-body.ts writes all that the parser reads, in the order of the body).
THEOREM ChartLossIsAnnounced == Spec /\ kind = "radar" => []LossIsAnnounced
<1>1. ChartSession => LossIsAnnounced
  BY ChartLoss DEF ChartSession, LossIsAnnounced
<1>2. QED
  BY <1>1, RadarInvariant, PTL

\* What a batch hands out is a fixed point of writing and reading, a title that
\* lost its comment included.
THEOREM ChartTextIsStable == Spec /\ kind = "radar" => HeldTextIsStable
<1>1. ChartSession /\ [Next]_vars => [published' # published => TextIsStable(published')]_vars
  <2> SUFFICES ASSUME ChartSession, Next, published' # published PROVE TextIsStable(published')
    OBVIOUS
  <2>1. kind' = "radar" /\ RadarInv /\ Radar!Next
    BY FamilyStep DEF ChartSession
  <2>2. Radar!Reparse(published') = {published'}
    BY <2>1, ChartText
  <2>3. QED
    BY <2>2 DEF ChartSession, TextIsStable
<1>2. QED
  BY <1>1, RadarInvariant, PTL DEF Spec, HeldTextIsStable

(***************************************************************************)
(* Timelines.                                                              *)
(***************************************************************************)
TimelineSession == kind = "timeline" /\ TimelineInv

\* The inductive invariant: of the sections of a timeline at most one has no
\* label, and in what is published that is the first.
THEOREM TimelineInvariant == Spec /\ kind = "timeline" => []TimelineSession
<1>1. Init /\ kind = "timeline" => TimelineSession
  BY TimelineInit DEF Init, TimelineSession
<1>2. TimelineSession /\ [Next]_vars => TimelineSession'
  BY FamilyStep, TimelineStep DEF TimelineSession
<1>3. QED
  BY <1>1, <1>2, PTL DEF Spec

\* Whatever sections, periods and events are added, moved, relabelled and
\* removed, a section without a label has a period and no other lacks one:
\* every body is one that some text says (dropEmptiedImplicitSection in
\* timeline-body.ts is called wherever a period leaves a section).
THEOREM SectionsResolve == Spec /\ kind = "timeline" => []ReferencesResolve
<1>1. TimelineSession => ReferencesResolve
  BY SectionsAreTold DEF TimelineSession, ReferencesResolve
<1>2. QED
  BY <1>1, TimelineInvariant, PTL

\* A timeline whose text would say something else is announced, unless labels
\* that add to the counts and labels that take from them are in one body (the
\* README's known deviation): sections that merge and labels that are read as
\* another kind of line each change the counts verify compares.
THEOREM TimelineLossIsAnnounced == Spec /\ kind = "timeline" => []LossIsAnnounced
<1>1. TimelineSession => LossIsAnnounced
  BY SectionLoss DEF TimelineSession, LossIsAnnounced
<1>2. QED
  BY <1>1, TimelineInvariant, PTL

\* The text of a timeline that a batch hands out is a fixed point of writing and
\* reading, whatever its labels were taken for.
THEOREM TimelineTextIsStable == Spec /\ kind = "timeline" => HeldTextIsStable
<1>1. TimelineSession /\ TimelineSession'
        => [published' # published => TextIsStable(published')]_vars
  <2> SUFFICES ASSUME TimelineSession, TimelineSession' PROVE TextIsStable(published')
    OBVIOUS
  <2>1. kind = "timeline" /\ published' \in Read
    BY DEF TimelineSession, TimelineInv
  <2>2. Timeline!Reparse(published') = {published'}
    BY <2>1, TimelineTextStays
  <2>3. QED
    BY <2>1, <2>2 DEF TextIsStable
<1>2. QED
  BY <1>1, TimelineInvariant, PTL DEF Spec, HeldTextIsStable
=============================================================================
