--------------------------- MODULE MCSseBroadcast ---------------------------
(* Instances of the SSE server for TLC. *)
EXTENDS SseBroadcastRefinement

\* A request for the path, and one for another.
PlainUris == [path : {path, "other"}, query : {""}, form : {"origin"}]
=============================================================================
