----------------------- MODULE EventStreamRefinement -----------------------
(***************************************************************************)
(* The client's EventStream implements the contract of a stream.            *)
(***************************************************************************)
EXTENDS EventStream

\* What the owner can tell of a state: a stream that is being retried is open.
Phase ==
  CASE state \in {"Active", "Retry"} -> "open"
    [] state = "End" /\ ~finished    -> "closing"
    [] OTHER                         -> "ended"

Contract == INSTANCE StreamContract WITH
  phase <- Phase, told <- finished, count <- yielded, retrying <- busy = "retry"

\* However polls, retries the server asks for and manual retries interleave, the
\* owner sees items, possibly a last error, and then None, and a stream that
\* failed does tell None.
ContractImplemented == Contract!Spec
=============================================================================
