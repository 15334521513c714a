--------------------------- MODULE MCSseSession ---------------------------
(* Instances of the SSE session for TLC. *)
EXTENDS SseSession

\* Both sides are configured with the same path.
SessionUris == {Path}
=============================================================================
