--------------------- MODULE BundleSimulatorRefinement ---------------------
(***************************************************************************)
(* The service implements SimulationLifecycle: the status of a bundle is    *)
(* where its request is, the attempts are the simulator calls.              *)
(***************************************************************************)
EXTENDS BundleSimulatorService

StatusOf(r) ==
  CASE reply[r] = "none"          -> "new"
    [] InChannel(r)               -> "offered"
    [] IsQueued(r) \/ IsReady(r)  -> "queued"
    [] InFlight(r)                -> "running"
    [] OTHER                      -> "done"

Full(prio) ==
  \/ prio = "High" /\ Len(high_priority_queue) >= max_high_prio_queue_len
  \/ prio = "Normal" /\ Len(normal_priority_queue) >= max_normal_prio_queue_len

\* Offered bundles whose queue is full at the moment.
NoRoom == {r \in Requests : \E i \in DOMAIN from_handle :
             /\ from_handle[i].type = "AddSimulation"
             /\ from_handle[i].request.id = r
             /\ Full(from_handle[i].request.priority)}

\* Bundles that wait although the block to build is past their max_block.
Outdated == {r \in Requests : \E pos \in DOMAIN Waiting :
               /\ Waiting[pos].id = r
               /\ Waiting[pos].inclusion.max_block # NoMaxBlock
               /\ current_block_number + 1 > Waiting[pos].inclusion.max_block}

Lifecycle == INSTANCE SimulationLifecycle WITH
  MaxAttempts <- max_retries + 1,
  open        <- alive,
  status      <- [r \in Requests |-> StatusOf(r)],
  attempts    <- simulator_calls,
  answers     <- relay_answers,
  no_room     <- NoRoom,
  outdated    <- Outdated,
  clearing    <- \E i \in DOMAIN from_handle : from_handle[i].type = "ClearQueue"

\* Every behaviour of the service is a behaviour of the lifecycle: no simulation is
\* started twice for one request, a retry is neither lost nor goes past max_retries,
\* a request is rejected only by a full queue and outdated only past its window, and
\* nothing else removes a request on the way but the drop of the service and
\* clear_queue, which spares what runs.
LifecycleImplemented == Lifecycle!Spec
=============================================================================
