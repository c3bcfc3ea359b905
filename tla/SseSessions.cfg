\* Streams that end under the messages posted to them, and the shutdown.
SPECIFICATION Spec
CONSTANTS
  s1 = s1
  s2 = s2
  p1 = p1
  p2 = p2
  None = None
  Streams <- MCStreams
  Posts <- MCPosts
  MaxSessions = 1
INVARIANTS SessionsAreLive DeliveredOrGone
PROPERTIES PostsSettle ShutdownCompletes
CHECK_DEADLOCK FALSE
