\* A class source with `--|>`: the arrow it is written with points the other way.
CONSTANTS
  None = "none"
  MaxOps = 2
  gantt <- MCGantt
  er <- MCEr
  sequence <- MCSequence
  architecture <- MCArchitecture
  class <- MCClass
  state <- MCState
  flowchart <- MCFlowchart
  gitgraph <- MCGitGraph
  mindmap <- MCMindmap
  timeline <- MCTimeline
  radar <- MCRadar
  sankey <- MCSankey
SPECIFICATION Spec
INVARIANT ArrowsKeepTheirSense
CHECK_DEADLOCK FALSE
