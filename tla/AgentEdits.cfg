CONSTANTS
  None = "none"
  MaxOps = 2
  gantt <- MCGantt
  er <- MCEr
  sequence <- MCSequence
  architecture <- MCArchitecture
  class <- MCClass
  state <- MCState
  flowchart <- MCFlowchart
  gitgraph <- MCGitGraph
  mindmap <- MCMindmap
  timeline <- MCTimeline
  radar <- MCRadar
  sankey <- MCSankey
SPECIFICATION Spec
INVARIANTS ReferencesResolve LossIsAnnounced SlackIsSpendable
PROPERTIES HeldTextIsStable OpaqueEndures NothingElseChanges ImplementsGraphEditing
CHECK_DEADLOCK FALSE
