---------------------------- MODULE MCSseTransport ----------------------------
(* Two event streams, of which one fits, and two posts, to either or to none. *)
EXTENDS SseTransport

CONSTANTS s1, s2, p1, p2

MCStreams == {s1, s2}
MCPosts == {p1, p2}
=============================================================================
