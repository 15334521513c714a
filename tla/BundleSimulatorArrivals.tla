----------------------- MODULE BundleSimulatorArrivals -----------------------
(***************************************************************************)
(* The queue under an endless stream of bundles.  In BundleSimulatorService *)
(* every bundle has an identity of its own; here some identities make up    *)
(* the load: when such a bundle is gone, its identity is given to the next  *)
(* one, so that callers never stop submitting.  What becomes of the other   *)
(* bundles in the long run is what this module is about.                    *)
(***************************************************************************)
EXTENDS BundleSimulatorService

CONSTANT Load   \* the identities that are used again and again

ASSUME LoadAssumption == Load \subseteq Requests

\* The bundles that are looked at: each of them is any bundle at all.
Watched == Requests \ Load

\* The service is done with the bundle, and a later one gets its identity.
Renew(r) ==
  /\ reply[r] \notin {"none", "Awaiting"}
  /\ ~InService(r)
  /\ reply' = [reply EXCEPT ![r] = "none"]
  /\ heard_by' = [heard_by EXCEPT ![r] = {}]
  /\ simulator_calls' = [simulator_calls EXCEPT ![r] = 0]
  /\ relay_answers' = [relay_answers EXCEPT ![r] = <<>>]
  /\ UNCHANGED <<block_updates, clears, from_handle, taskVars, queueVars, ready,
                 simulations, innerVars, listenerVars, receiver>>

\* The callers of the load do not wait for answers (bound).
NextArrivals ==
  \/ Next /\ \A r \in Load : reply'[r] # "Awaiting"
  \/ \E r \in Load : Renew(r)

\* The call for r has come to an end.
Concludes(r) == \E s \in simulations, answer \in RelayAnswer :
                  s.request.id = r /\ OnSimulationOutcome(s, answer)

\* tokio polls a task that is scheduled, and its budget ends a poll that would go on
\* receiving messages for ever.  A simulation ends: as often as it may be woken in
\* vain, at some time it has its answer.  Callers and listeners owe nothing.
Fairness ==
  /\ WF_vars(PollStep) /\ WF_vars(CoopYield)
  /\ \A r \in Requests : WF_vars(Wakes(r)) /\ SF_vars(Concludes(r))

FairArrivals == Init /\ [][NextArrivals]_vars /\ Fairness
-----------------------------------------------------------------------------
(* Liveness, under FairArrivals.                                           *)

\* The caller of add_bundle_simulation* is not left waiting, however many others
\* submit at the same time, and even if the service is dropped with the message in
\* its channel.
CallerAnswered ==
  \A r \in Watched : reply[r] = "Awaiting" ~> reply[r] # "Awaiting"

WaitsForBlock(r) ==
  \E pos \in DOMAIN Waiting : /\ Waiting[pos].id = r
                              /\ ~Selectable(Waiting[pos], NextBlock)

\* r has normal priority and a high priority request is to be served before it.
Outranked(r) ==
  /\ \E pos \in DOMAIN normal_priority_queue : normal_priority_queue[pos].id = r
  /\ \E pos \in DOMAIN high_priority_queue :
       Selectable(high_priority_queue[pos], NextBlock)

\* A request leaves the service unless it waits for its min block, or again and again
\* high priority requests are to be served before it: they may starve a normal one
\* (service.rs:225), but nobody starves a high priority request, and equals do not
\* starve each other, whatever is rescheduled and however many are submitted.
RequestSettles ==
  \A r \in Watched :
    InService(r) ~> ~InService(r) \/ WaitsForBlock(r) \/ Outranked(r)
=============================================================================
