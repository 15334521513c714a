----------------------- MODULE SseBroadcastRefinement -----------------------
(***************************************************************************)
(* The SSE server implements the promise of LossyBroadcast.                 *)
(***************************************************************************)
EXTENDS SseBroadcast, FiniteSetsExt

StatusOf(c) ==
  CASE conn[c] \in {"none", "inner"}          -> "new"
    [] conn[c] \in {"calling", "streaming"}   -> "on"
    [] conn[c] = "ended"                      -> "ended"
    [] conn[c] \in {"failed", "gone"}         -> "left"

Seen(c) == delivered[c] \cup {subscribed[c]}

LastGot(c) == Max(Seen(c))

Promise == INSTANCE LossyBroadcast WITH
  Subscribers <- Clients, publishing <- open, published <- sent,
  status <- [c \in Clients |-> StatusOf(c)], last <- [c \in Clients |-> LastGot(c)]

\* What the response bodies yield, through the ring, the tasks and the channels,
\* is what the broadcast promises, up to the end of each body.
BroadcastImplemented == Promise!Spec
=============================================================================
