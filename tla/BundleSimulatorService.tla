----------------------- MODULE BundleSimulatorService -----------------------
(***************************************************************************)
(* The bundle simulation queue of mev-share-backend                        *)
(* (crates/mev-share-backend/src/service.rs, lib.rs and rpc.rs).           *)
(*                                                                         *)
(* BundleSimulatorHandle is cloned into any number of threads; its methods *)
(* only send messages over an unbounded mpsc channel.  The service is a    *)
(* future: a tokio task polls it, and one poll                             *)
(*   1. drains the messages of the handles          (phase "messages"),    *)
(*   2. processes the simulations that are finished (phase "outcomes"),    *)
(*   3. pops requests up to the free capacity       (phase "requests"),    *)
(*   4. starts a simulation for each of them        (phase "starting"),    *)
(* and goes round again while step 3 found something.  Then it returns     *)
(* Poll::Pending and the task is parked until a waker schedules it again.  *)
(* Handles, simulations and listeners run in between any two of these      *)
(* steps.                                                                  *)
(*                                                                         *)
(* A definition named X_Y is a mutant of X: X with the bug Y.  No           *)
(* specification uses it; it is there to show that a property notices Y.    *)
(***************************************************************************)
EXTENDS Naturals, Sequences, FiniteSets, SequencesExt

CONSTANTS
  Requests,         \* identities of the bundles callers submit, each at most once
  Inclusions,       \* the inclusion windows of the bundles, see Window
  NoMaxBlock,       \* max_block: None
  Listeners,        \* identities of the event listeners
  BlockNumbers,     \* block numbers the handles report
  InitialBlock,     \* the current_block_number the service is created with
  max_retries, max_normal_prio_queue_len, max_high_prio_queue_len,
  max_concurrent_simulations,  \* BundleSimulatorServiceConfig
  MaxBlockUpdates,  \* bound: update_block_number calls in a behaviour
  MaxClears         \* bound: clear_queue calls in a behaviour

ASSUME ConfigAssumption ==
  /\ max_retries \in Nat
  /\ max_normal_prio_queue_len \in Nat
  /\ max_high_prio_queue_len \in Nat
  /\ max_concurrent_simulations \in Nat

\* Inclusion: block is the min block of a bundle, max_block its optional max.
Window == [block : Nat, max_block : Nat \cup {NoMaxBlock}]

ASSUME InputAssumption ==
  /\ NoMaxBlock \notin Nat
  /\ Inclusions \subseteq Window
  /\ InitialBlock \in Nat
  /\ BlockNumbers \subseteq Nat
  /\ MaxBlockUpdates \in Nat
  /\ MaxClears \in Nat

VARIABLES
  \* the handles' side
  reply,                 \* what the caller of each request has been told
  block_updates, clears, \* calls made so far, for the two bounds
  \* the channel and the task
  from_handle,           \* messages sent and not received yet
  alive,                 \* the service future has not been dropped
  phase,                 \* where in poll() the task is, or "parked"
  notified,              \* the task is scheduled for another poll
  progressed,            \* this poll has handled a message or an outcome
  rx_waker, sim_waker,   \* a waker is registered with the channel / the simulations
  \* the service
  high_priority_queue, normal_priority_queue,
  ready,                 \* requests popped in this round and not started yet
  simulations,           \* the FuturesUnordered set
  simulator_calls,       \* simulate_bundle calls made per request
  relay_answers,         \* what the relay answered to them, in order
  current_block_number, queued_jobs,  \* BundleSimulatorInner
  listeners,             \* listeners the service would notify
  \* the listeners' side
  receiver,              \* state of the receiving half of each listener
  mailbox,               \* every event sent to a listener, in order
  heard_by               \* listeners that subscribed before the request was made

handleVars   == <<reply, block_updates, clears, heard_by>>
taskVars     == <<alive, phase, notified, progressed, rx_waker, sim_waker>>
queueVars    == <<high_priority_queue, normal_priority_queue>>
simVars      == <<ready, simulations, simulator_calls, relay_answers>>
innerVars    == <<current_block_number, queued_jobs>>
listenerVars == <<listeners, mailbox>>

vars == <<handleVars, from_handle, taskVars, queueVars, simVars, innerVars,
          listenerVars, receiver>>
-----------------------------------------------------------------------------
(* The data.                                                               *)

Priority == {"Normal", "High"}

SimulationRequest ==
  [id : Requests, priority : Priority, inclusion : Window, retries : Nat]

\* A future in the set: pushed and never polled, polled and pending, or woken.
Simulation == [request : SimulationRequest, poll : {"unpolled", "pending", "woken"}]

Message ==
       [type : {"AddSimulation"}, request : SimulationRequest]
  \cup [type : {"UpdateBlockNumber"}, num : Nat]
  \cup [type : {"ClearQueue"}]
  \cup [type : {"AddEventListener"}, tx : Listeners]

SimulationEvent ==
       [type : {"SimulatedBundle"}, id : Requests, ok : BOOLEAN, retries : Nat]
  \cup [type : {"OutdatedRequest"}, id : Requests, inclusion : Window, next_block : Nat]
  \cup [type : {"ExceededMaxRetries"}, id : Requests]
  \cup [type : {"BlockNumberUpdated"}, old : Nat, current : Nat]

\* "Sent" is the Ok(()) of the send_ methods, returned before the service decides.
Reply == {"none", "Awaiting", "Cancelled", "Sent", "Ok", "QueueFull",
          "ServiceUnavailable"}

is_high(req) == req.priority = "High"

is_min_block(req, block) == block > req.inclusion.block

exceeds_target_block(req, block) ==
  /\ req.inclusion.max_block # NoMaxBlock
  /\ block > req.inclusion.max_block

Selectable_NoWindow(req, block) == TRUE

\* The test of pop_next_ready.  is_ready_at() is left out: backed_off_until is
\* None in every request the handle builds and nothing assigns it later.
Selectable(req, block) == exceeds_target_block(req, block) \/ is_min_block(req, block)

NextBlock == current_block_number + 1

has_high_priority_capacity_IgnoresRetries ==
  Cardinality({i \in DOMAIN high_priority_queue : high_priority_queue[i].retries = 0})
    < max_high_prio_queue_len

has_high_priority_capacity   == Len(high_priority_queue) < max_high_prio_queue_len
has_normal_priority_capacity == Len(normal_priority_queue) < max_normal_prio_queue_len

Capacity_IgnoresRunning == max_concurrent_simulations

Capacity ==
  IF Cardinality(simulations) >= max_concurrent_simulations THEN 0
  ELSE max_concurrent_simulations - Cardinality(simulations)

\* high_priority_queue.iter().chain(normal_priority_queue.iter())
Waiting == high_priority_queue \o normal_priority_queue

IsFirstSelectable_Last(pos) ==
  /\ Selectable(Waiting[pos], NextBlock)
  /\ \A after \in pos + 1 .. Len(Waiting) : ~Selectable(Waiting[after], NextBlock)

IsFirstSelectable(pos) ==
  /\ Selectable(Waiting[pos], NextBlock)
  /\ \A before \in 1 .. pos - 1 : ~Selectable(Waiting[before], NextBlock)

exceeds_max_retries_OneEarly(req) == req.retries >= max_retries

exceeds_max_retries(req) == req.retries > max_retries

\* What the relay may answer to mev_simBundle, and how RpcSimulator sees it.
RelayAnswer == {"Response", "NonceTooLow", "OtherError"}

\* What is recorded of an answer: whether it is about the nonce, so that a later
\* call may succeed.
Kind(answer) == IF answer = "NonceTooLow" THEN "retryable" ELSE "final"

is_nonce_too_low(answer) == answer = "NonceTooLow"

SimulationOutcome(answer) ==
  CASE answer = "Response"      -> "Success"
    [] is_nonce_too_low(answer) -> "Reschedule"
    [] OTHER                    -> "Fatal"
-----------------------------------------------------------------------------
(* Building blocks of the actions.                                         *)

Notify_RetainInverted(event) ==
  /\ listeners' = {l \in listeners : receiver[l] # "open"}
  /\ mailbox' = [l \in Listeners |-> IF l \in listeners'
                                     THEN Append(mailbox[l], event)
                                     ELSE mailbox[l]]

\* notify_listeners: a listener whose receiver is gone is dropped for good.
Notify(event) ==
  /\ listeners' = {l \in listeners : receiver[l] = "open"}
  /\ mailbox' = [l \in Listeners |-> IF l \in listeners'
                                     THEN Append(mailbox[l], event)
                                     ELSE mailbox[l]]

Send_NoWake(msg) ==
  /\ from_handle' = Append(from_handle, msg)
  /\ UNCHANGED <<notified, rx_waker>>

\* UnboundedSender::send: enqueue and wake the task if it waits on the channel.
Send(msg) ==
  /\ from_handle' = Append(from_handle, msg)
  /\ notified' = (notified \/ rx_waker)
  /\ rx_waker' = FALSE

NewRequest(r, prio, inclusion) ==
  [id |-> r, priority |-> prio, inclusion |-> inclusion, retries |-> 0]

\* oneshot::Sender::send(..).ok(): nothing happens when the receiver is gone.
Answer(r, verdict) ==
  reply' = IF reply[r] = "Awaiting" THEN [reply EXCEPT ![r] = verdict] ELSE reply

PushBack(req) ==
  \/ /\ is_high(req)
     /\ high_priority_queue' = Append(high_priority_queue, req)
     /\ UNCHANGED normal_priority_queue
  \/ /\ ~is_high(req)
     /\ normal_priority_queue' = Append(normal_priority_queue, req)
     /\ UNCHANGED high_priority_queue

Dequeue(pos) ==
  LET highs == Len(high_priority_queue) IN
  \/ /\ pos <= highs
     /\ high_priority_queue' = RemoveAt(high_priority_queue, pos)
     /\ UNCHANGED normal_priority_queue
  \/ /\ pos > highs
     /\ normal_priority_queue' = RemoveAt(normal_priority_queue, pos - highs)
     /\ UNCHANGED high_priority_queue
-----------------------------------------------------------------------------
(* The handles.                                                            *)

\* send_bundle_simulation*: the receiver of the answer is dropped at once and
\* Ok(()) returned; add_bundle_simulation*: the caller awaits the answer.
Submit(r, told) ==
  /\ reply[r] = "none"
  /\ alive
  /\ \E prio \in Priority, inclusion \in Inclusions :
       Send([type |-> "AddSimulation", request |-> NewRequest(r, prio, inclusion)])
  /\ reply' = [reply EXCEPT ![r] = told]
  /\ heard_by' = [heard_by EXCEPT ![r] = {l \in Listeners : receiver[l] # "none"}]
  /\ UNCHANGED <<block_updates, clears, alive, phase, progressed, sim_waker,
                 queueVars, simVars, innerVars, listenerVars, receiver>>

send_bundle_simulation(r) == Submit(r, "Sent")

add_bundle_simulation(r) == Submit(r, "Awaiting")

\* Both flavours when the service is gone: the send fails.
SubmitToDroppedService(r) ==
  /\ reply[r] = "none"
  /\ ~alive
  /\ reply' = [reply EXCEPT ![r] = "ServiceUnavailable"]
  /\ UNCHANGED <<block_updates, clears, heard_by, from_handle, taskVars, queueVars,
                 simVars, innerVars, listenerVars, receiver>>

\* The caller stops waiting (a timeout, a select): its oneshot receiver drops.
CancelAdd(r) ==
  /\ reply[r] = "Awaiting"
  /\ reply' = [reply EXCEPT ![r] = "Cancelled"]
  /\ UNCHANGED <<block_updates, clears, heard_by, from_handle, taskVars, queueVars,
                 simVars, innerVars, listenerVars, receiver>>

update_block_number(num) ==
  /\ alive
  /\ block_updates < MaxBlockUpdates
  /\ Send([type |-> "UpdateBlockNumber", num |-> num])
  /\ block_updates' = block_updates + 1
  /\ UNCHANGED <<reply, clears, heard_by, alive, phase, progressed, sim_waker,
                 queueVars, simVars, innerVars, listenerVars, receiver>>

clear_queue ==
  /\ alive
  /\ clears < MaxClears
  /\ Send([type |-> "ClearQueue"])
  /\ clears' = clears + 1
  /\ UNCHANGED <<reply, block_updates, heard_by, alive, phase, progressed, sim_waker,
                 queueVars, simVars, innerVars, listenerVars, receiver>>

events(l) ==
  /\ alive
  /\ receiver[l] = "none"
  /\ receiver' = [receiver EXCEPT ![l] = "open"]
  /\ Send([type |-> "AddEventListener", tx |-> l])
  /\ UNCHANGED <<handleVars, alive, phase, progressed, sim_waker,
                 queueVars, simVars, innerVars, listenerVars>>

DropEventStream(l) ==
  /\ receiver[l] = "open"
  /\ receiver' = [receiver EXCEPT ![l] = "closed"]
  /\ UNCHANGED <<handleVars, from_handle, taskVars, queueVars, simVars, innerVars,
                 listenerVars>>
-----------------------------------------------------------------------------
(* poll(): messages.                                                       *)

\* The runtime polls the task: the notification is consumed first.
BeginPoll ==
  /\ alive
  /\ phase = "parked"
  /\ notified
  /\ phase' = "messages"
  /\ notified' = FALSE
  /\ progressed' = FALSE
  /\ UNCHANGED <<handleVars, from_handle, alive, rx_waker, sim_waker, queueVars,
                 simVars, innerVars, listenerVars, receiver>>

Receive_IfInsteadOfWhile(type) ==
  /\ phase = "messages"
  /\ from_handle # <<>>
  /\ Head(from_handle).type = type
  /\ from_handle' = Tail(from_handle)
  /\ progressed' = TRUE
  /\ phase' = "outcomes"
  /\ UNCHANGED <<alive, notified, rx_waker, sim_waker, receiver, simVars,
                 block_updates, clears, heard_by, queued_jobs>>

Receive(type) ==
  /\ phase = "messages"
  /\ from_handle # <<>>
  /\ Head(from_handle).type = type
  /\ from_handle' = Tail(from_handle)
  /\ progressed' = TRUE
  /\ UNCHANGED <<alive, phase, notified, rx_waker, sim_waker, receiver, simVars,
                 block_updates, clears, heard_by, queued_jobs>>

OnUpdateBlockNumber ==
  /\ Receive("UpdateBlockNumber")
  /\ LET num == Head(from_handle).num IN
     \/ /\ num # current_block_number
        /\ current_block_number' = num
        /\ Notify([type |-> "BlockNumberUpdated",
                   old |-> current_block_number, current |-> current_block_number])
     \/ /\ num = current_block_number
        /\ UNCHANGED <<current_block_number, listenerVars>>
  /\ UNCHANGED <<reply, queueVars>>

OnClearQueue ==
  /\ Receive("ClearQueue")
  /\ high_priority_queue' = <<>>
  /\ normal_priority_queue' = <<>>
  /\ UNCHANGED <<reply, current_block_number, listenerVars>>

OnAddEventListener ==
  /\ Receive("AddEventListener")
  /\ listeners' = listeners \cup {Head(from_handle).tx}
  /\ UNCHANGED <<reply, queueVars, current_block_number, mailbox>>

OnAddSimulation_NoElse ==
  /\ Receive("AddSimulation")
  /\ LET req == Head(from_handle).request
         has_capacity == IF is_high(req) THEN has_high_priority_capacity
                                         ELSE has_normal_priority_capacity
     IN /\ PushBack(req)
        /\ Answer(req.id, IF has_capacity THEN "Ok" ELSE "QueueFull")
  /\ UNCHANGED <<current_block_number, listenerVars>>

OnAddSimulation ==
  /\ Receive("AddSimulation")
  /\ LET req == Head(from_handle).request
         has_capacity == IF is_high(req) THEN has_high_priority_capacity
                                         ELSE has_normal_priority_capacity
     IN \/ has_capacity /\ PushBack(req) /\ Answer(req.id, "Ok")
        \/ ~has_capacity /\ UNCHANGED queueVars /\ Answer(req.id, "QueueFull")
  /\ UNCHANGED <<current_block_number, listenerVars>>

\* poll_recv returns Pending on an empty channel, with the waker registered.
MessagesDrained ==
  /\ phase = "messages"
  /\ from_handle = <<>>
  /\ rx_waker' = TRUE
  /\ phase' = "outcomes"
  /\ UNCHANGED <<handleVars, from_handle, alive, notified, progressed, sim_waker,
                 queueVars, simVars, innerVars, listenerVars, receiver>>

\* tokio's cooperative budget, or FuturesUnordered yielding: after some work a
\* poll may see Pending early, with no waker registered but the task woken.
CoopYield ==
  /\ progressed
  /\ \/ phase = "messages" /\ phase' = "outcomes"
     \/ phase = "outcomes" /\ phase' = "requests"
  /\ notified' = TRUE
  /\ UNCHANGED <<handleVars, from_handle, alive, progressed, rx_waker, sim_waker,
                 queueVars, simVars, innerVars, listenerVars, receiver>>
-----------------------------------------------------------------------------
(* poll(): outcomes.                                                       *)

\* Polling a simulation future: the waker is registered before.
PollSimulation(s) ==
  /\ phase = "outcomes"
  /\ s.poll # "pending"
  /\ sim_waker' = TRUE
  /\ progressed' = TRUE
  /\ UNCHANGED <<handleVars, from_handle, alive, phase, notified, rx_waker, ready,
                 simulator_calls, innerVars, receiver>>

\* A future that was woken may be pending again: the wake-up was not the answer.
SimulationPending(s) ==
  /\ PollSimulation(s)
  /\ simulations' = (simulations \ {s}) \cup {[s EXCEPT !.poll = "pending"]}
  /\ UNCHANGED <<relay_answers, queueVars, listenerVars>>

OnSuccess(s) ==
  /\ Notify([type |-> "SimulatedBundle", id |-> s.request.id, ok |-> TRUE,
             retries |-> s.request.retries])
  /\ UNCHANGED queueVars

OnFatal_RetriesOffByOne(s) ==
  /\ Notify([type |-> "SimulatedBundle", id |-> s.request.id, ok |-> FALSE,
             retries |-> s.request.retries - 1])
  /\ UNCHANGED queueVars

OnFatal(s) ==
  /\ Notify([type |-> "SimulatedBundle", id |-> s.request.id, ok |-> FALSE,
             retries |-> s.request.retries])
  /\ UNCHANGED queueVars

OnReschedule_NoReturn(s) ==
  LET sim == [s.request EXCEPT !.retries = @ + 1] IN
  /\ PushBack(sim)
  /\ \/ exceeds_max_retries(sim) /\ Notify([type |-> "ExceededMaxRetries", id |-> sim.id])
     \/ ~exceeds_max_retries(sim) /\ UNCHANGED listenerVars

OnReschedule_IfCapacity(s) ==
  LET sim == [s.request EXCEPT !.retries = @ + 1]
      has_capacity == IF is_high(sim) THEN has_high_priority_capacity
                                      ELSE has_normal_priority_capacity
  IN \/ /\ exceeds_max_retries(sim)
        /\ Notify([type |-> "ExceededMaxRetries", id |-> sim.id])
        /\ UNCHANGED queueVars
     \/ /\ ~exceeds_max_retries(sim)
        /\ IF has_capacity THEN PushBack(sim) ELSE UNCHANGED queueVars
        /\ UNCHANGED listenerVars

\* The queue's length is not checked when a request is put back.
OnReschedule(s) ==
  LET sim == [s.request EXCEPT !.retries = @ + 1] IN
  \/ /\ exceeds_max_retries(sim)
     /\ Notify([type |-> "ExceededMaxRetries", id |-> sim.id])
     /\ UNCHANGED queueVars
  \/ /\ ~exceeds_max_retries(sim)
     /\ PushBack(sim)
     /\ UNCHANGED listenerVars

OnSimulationOutcome(s, answer) ==
  /\ PollSimulation(s)
  /\ simulations' = simulations \ {s}
  /\ relay_answers' = [relay_answers EXCEPT ![s.request.id] = Append(@, Kind(answer))]
  /\ \/ SimulationOutcome(answer) = "Success" /\ OnSuccess(s)
     \/ SimulationOutcome(answer) = "Fatal" /\ OnFatal(s)
     \/ SimulationOutcome(answer) = "Reschedule" /\ OnReschedule(s)

OutcomesDrained ==
  /\ phase = "outcomes"
  /\ \A s \in simulations : s.poll = "pending"
  /\ sim_waker' = TRUE
  /\ phase' = "requests"
  /\ UNCHANGED <<handleVars, from_handle, alive, notified, progressed, rx_waker,
                 queueVars, simVars, innerVars, listenerVars, receiver>>

\* Something arrives for the call to the relay: the future wakes the task.
SimulationWakes(s) ==
  /\ s.poll = "pending"
  /\ simulations' = (simulations \ {s}) \cup {[s EXCEPT !.poll = "woken"]}
  /\ notified' = (notified \/ sim_waker)
  /\ sim_waker' = FALSE
  /\ UNCHANGED <<handleVars, from_handle, alive, phase, progressed, rx_waker, queueVars,
                 ready, simulator_calls, relay_answers, innerVars, listenerVars, receiver>>
-----------------------------------------------------------------------------
(* poll(): requests.                                                       *)

\* One turn of pop_next_ready: drop an outdated request or take a ready one.
PopNextReady ==
  /\ phase = "requests"
  /\ Len(ready) # Capacity
  /\ \E pos \in DOMAIN Waiting :
       /\ IsFirstSelectable(pos)
       /\ Dequeue(pos)
       /\ LET item == Waiting[pos] IN
          \/ /\ exceeds_target_block(item, NextBlock)
             /\ Notify([type |-> "OutdatedRequest", id |-> item.id,
                        inclusion |-> item.inclusion, next_block |-> NextBlock])
             /\ UNCHANGED ready
          \/ /\ ~exceeds_target_block(item, NextBlock)
             /\ ready' = Append(ready, item)
             /\ UNCHANGED listenerVars
  /\ UNCHANGED <<handleVars, from_handle, taskVars, simulations, simulator_calls,
                 relay_answers, innerVars, receiver>>

PopBestRequestsDone ==
  /\ phase = "requests"
  /\ \/ Len(ready) = Capacity
     \/ \A pos \in DOMAIN Waiting : ~Selectable(Waiting[pos], NextBlock)
  /\ phase' = IF ready = <<>> THEN "parked" ELSE "starting"
  /\ UNCHANGED <<handleVars, from_handle, alive, notified, progressed, rx_waker,
                 sim_waker, queueVars, simVars, innerVars, listenerVars, receiver>>

PhaseAfterStart_NoLoop == IF Tail(ready) = <<>> THEN "parked" ELSE "starting"

\* When the last one is started, the loop of poll() goes round again.
PhaseAfterStart == IF Tail(ready) = <<>> THEN "messages" ELSE "starting"

\* simulate_bundle() and push: the new future is not polled here.
StartSimulation ==
  /\ phase = "starting"
  /\ ready # <<>>
  /\ simulations' = simulations \cup {[request |-> Head(ready), poll |-> "unpolled"]}
  /\ simulator_calls' = [simulator_calls EXCEPT ![Head(ready).id] = @ + 1]
  /\ ready' = Tail(ready)
  /\ phase' = PhaseAfterStart
  /\ UNCHANGED <<handleVars, from_handle, alive, notified, progressed, rx_waker,
                 sim_waker, queueVars, relay_answers, innerVars, listenerVars, receiver>>

\* The task is aborted or its runtime shut down: tokio drops the future between
\* two polls.  The channel closes and the answers still owed become errors.
DropService ==
  /\ alive
  /\ phase = "parked"
  /\ alive' = FALSE
  /\ notified' = FALSE
  /\ reply' = [r \in Requests |->
                 IF /\ reply[r] = "Awaiting"
                    /\ \E i \in DOMAIN from_handle :
                         /\ from_handle[i].type = "AddSimulation"
                         /\ from_handle[i].request.id = r
                 THEN "ServiceUnavailable" ELSE reply[r]]
  /\ from_handle' = <<>>
  /\ high_priority_queue' = <<>>
  /\ normal_priority_queue' = <<>>
  /\ simulations' = {}
  /\ listeners' = {}
  /\ UNCHANGED <<block_updates, clears, heard_by, phase, progressed, rx_waker,
                 sim_waker, ready, simulator_calls, relay_answers, innerVars, mailbox,
                 receiver>>
-----------------------------------------------------------------------------
(* The specification.                                                      *)

Init ==
  /\ reply = [r \in Requests |-> "none"]
  /\ heard_by = [r \in Requests |-> {}]
  /\ block_updates = 0
  /\ clears = 0
  /\ from_handle = <<>>
  /\ alive = TRUE
  /\ phase = "parked"
  /\ notified = TRUE        \* a spawned task is polled once
  /\ progressed = FALSE
  /\ rx_waker = FALSE
  /\ sim_waker = FALSE
  /\ high_priority_queue = <<>>
  /\ normal_priority_queue = <<>>
  /\ ready = <<>>
  /\ simulations = {}
  /\ simulator_calls = [r \in Requests |-> 0]
  /\ relay_answers = [r \in Requests |-> <<>>]
  /\ current_block_number = InitialBlock
  /\ queued_jobs = 0
  /\ listeners = {}
  /\ receiver = [l \in Listeners |-> "none"]
  /\ mailbox = [l \in Listeners |-> <<>>]

OnMessage ==
  OnUpdateBlockNumber \/ OnClearQueue \/ OnAddEventListener \/ OnAddSimulation

\* The steps the runtime takes on behalf of the service once it is scheduled.
PollStep ==
  \/ BeginPoll
  \/ OnMessage
  \/ MessagesDrained
  \/ CoopYield
  \/ \E s \in simulations : SimulationPending(s)
  \/ \E s \in simulations, answer \in RelayAnswer : OnSimulationOutcome(s, answer)
  \/ OutcomesDrained
  \/ PopNextReady
  \/ PopBestRequestsDone
  \/ StartSimulation

Wakes(r) == \E s \in simulations : s.request.id = r /\ SimulationWakes(s)

HandleStep ==
  \/ \E r \in Requests : \/ send_bundle_simulation(r)
                         \/ add_bundle_simulation(r)
                         \/ SubmitToDroppedService(r)
                         \/ CancelAdd(r)
  \/ \E num \in BlockNumbers : update_block_number(num)
  \/ clear_queue
  \/ \E l \in Listeners : events(l) \/ DropEventStream(l)

Next == PollStep \/ (\E r \in Requests : Wakes(r)) \/ HandleStep \/ DropService

Spec == Init /\ [][Next]_vars
-----------------------------------------------------------------------------
(* What the properties are stated with.                                    *)

InChannel(r) == \E i \in DOMAIN from_handle :
                  /\ from_handle[i].type = "AddSimulation"
                  /\ from_handle[i].request.id = r

IsQueued(r) == \E i \in DOMAIN Waiting : Waiting[i].id = r

IsReady(r) == \E i \in DOMAIN ready : ready[i].id = r

InFlight(r) == \E s \in simulations : s.request.id = r

InService(r) == InChannel(r) \/ IsQueued(r) \/ IsReady(r) \/ InFlight(r)

\* How often the request occurs in the channel, the queues and the simulations.
Copies(r) ==
    Cardinality({i \in DOMAIN from_handle : /\ from_handle[i].type = "AddSimulation"
                                            /\ from_handle[i].request.id = r})
  + Cardinality({i \in DOMAIN Waiting : Waiting[i].id = r})
  + Cardinality({i \in DOMAIN ready : ready[i].id = r})
  + Cardinality({s \in simulations : s.request.id = r})

IsVerdict(event, r) == event.type # "BlockNumberUpdated" /\ event.id = r

results_OnlyOk(l) ==
  {i \in DOMAIN mailbox[l] : mailbox[l][i].type = "SimulatedBundle" /\ mailbox[l][i].ok}

\* What a listener is given that turned its stream into SimulationResultStream, in
\* the order of the mailbox.
results(l) == {i \in DOMAIN mailbox[l] : mailbox[l][i].type = "SimulatedBundle"}

ResultsFor(l, r) == {i \in results(l) : mailbox[l][i].id = r}

Verdicts(l, r) == {i \in DOMAIN mailbox[l] : IsVerdict(mailbox[l][i], r)}
-----------------------------------------------------------------------------
(* Safety.                                                                 *)

\* Every variable holds a value of its type.
TypeOK ==
  /\ reply \in [Requests -> Reply]
  /\ heard_by \in [Requests -> SUBSET Listeners]
  /\ block_updates \in Nat /\ clears \in Nat
  /\ from_handle \in Seq(Message)
  /\ alive \in BOOLEAN
  /\ phase \in {"parked", "messages", "outcomes", "requests", "starting"}
  /\ notified \in BOOLEAN /\ progressed \in BOOLEAN
  /\ rx_waker \in BOOLEAN /\ sim_waker \in BOOLEAN
  /\ high_priority_queue \in Seq(SimulationRequest)
  /\ normal_priority_queue \in Seq(SimulationRequest)
  /\ ready \in Seq(SimulationRequest)
  /\ simulations \in SUBSET Simulation
  /\ simulator_calls \in [Requests -> Nat]
  /\ relay_answers \in [Requests -> Seq({"retryable", "final"})]
  /\ current_block_number \in Nat /\ queued_jobs \in Nat
  /\ listeners \in SUBSET Listeners
  /\ receiver \in [Listeners -> {"none", "open", "closed"}]
  /\ mailbox \in [Listeners -> Seq(SimulationEvent)]

\* A task that sleeps has nothing to do: no message, no simulation to be polled,
\* and no request it could start, whatever happened while poll() was running.
NoLostWakeup ==
  alive /\ phase = "parked" /\ ~notified =>
    /\ from_handle = <<>>
    /\ \A s \in simulations : s.poll = "pending"
    /\ \/ Capacity = 0
       \/ \A pos \in DOMAIN Waiting : ~Selectable(Waiting[pos], NextBlock)

\* max_concurrent_simulations is never exceeded, not even by the requests that
\* are popped and not started yet.
ConcurrencyBound ==
  Cardinality(simulations) + Len(ready) <= max_concurrent_simulations

\* The requests of one priority outside their queue.
Outside(prio) ==
    Cardinality({i \in DOMAIN ready : ready[i].priority = prio})
  + Cardinality({s \in simulations : s.request.priority = prio})

\* The requests of a queue that were never simulated.
Fresh(queue) == {i \in DOMAIN queue : queue[i].retries = 0}

\* Rescheduling may push a queue over its configured length, but only by what is
\* being simulated, and what is admitted from handles stays within it.
OverflowBound ==
  /\ Len(high_priority_queue) + Outside("High")
       <= max_high_prio_queue_len + max_concurrent_simulations
  /\ Len(normal_priority_queue) + Outside("Normal")
       <= max_normal_prio_queue_len + max_concurrent_simulations
  /\ Cardinality(Fresh(high_priority_queue)) <= max_high_prio_queue_len
  /\ Cardinality(Fresh(normal_priority_queue)) <= max_normal_prio_queue_len

\* A request is in at most one place, and a listener hears one verdict about it,
\* after it has left the service: retries neither fork nor resurrect a request.
OneVerdict ==
  \A r \in Requests :
    /\ Copies(r) <= 1
    /\ \A l \in Listeners : Copies(r) + Cardinality(Verdicts(l, r)) <= 1

\* retries counts the simulator calls wherever the request is, and the events
\* report it: max_retries is exceeded after max_retries + 1 calls and not before.
RetryAccounting ==
  /\ \A i \in DOMAIN from_handle : from_handle[i].type = "AddSimulation" =>
       simulator_calls[from_handle[i].request.id] = 0
  /\ \A i \in DOMAIN Waiting : simulator_calls[Waiting[i].id] = Waiting[i].retries
  /\ \A i \in DOMAIN ready : simulator_calls[ready[i].id] = ready[i].retries
  /\ \A s \in simulations : simulator_calls[s.request.id] = s.request.retries + 1
  /\ \A r \in Requests : simulator_calls[r] <= max_retries + 1
  /\ \A l \in Listeners : \A i \in DOMAIN mailbox[l] : LET event == mailbox[l][i] IN
       /\ event.type = "SimulatedBundle" =>
            simulator_calls[event.id] = event.retries + 1
       /\ event.type = "ExceededMaxRetries" =>
            simulator_calls[event.id] = max_retries + 1

\* What is about to be simulated is inside its inclusion window, also when it is
\* tried again after the block number has changed.
WindowRespected ==
  \A i \in DOMAIN ready : /\ is_min_block(ready[i], NextBlock)
                          /\ ~exceeds_target_block(ready[i], NextBlock)

\* A normal request gets a slot only when no high priority request could use it.
NoPriorityInversion ==
  \A i \in DOMAIN ready : ~is_high(ready[i]) =>
    /\ \A pos \in DOMAIN high_priority_queue :
         ~Selectable(high_priority_queue[pos], NextBlock)
    /\ \A j \in DOMAIN ready : j > i => ~is_high(ready[j])

\* A caller that waits is owed an answer by a message still in the channel, a
\* caller that was refused is right to think the bundle is not simulated, and a
\* bundle reported as outdated is past its window.
AnswersTruthful ==
  /\ \A r \in Requests :
       /\ reply[r] = "Awaiting" => alive /\ InChannel(r)
       /\ reply[r] \in {"QueueFull", "ServiceUnavailable"} =>
            /\ ~InService(r)
            /\ simulator_calls[r] = 0
            /\ \A l \in Listeners : Verdicts(l, r) = {}
  /\ \A l \in Listeners : \A i \in DOMAIN mailbox[l] : LET event == mailbox[l][i] IN
       event.type = "OutdatedRequest" => exceeds_target_block(event, event.next_block)

\* An accepted request does not vanish: a listener that subscribed before it was
\* submitted, and still listens, has heard its verdict once it has left the
\* service (clear_queue is the documented exception).
NoSilentLoss ==
  \A r \in Requests :
    alive /\ clears = 0 /\ reply[r] = "Ok" /\ ~InService(r) =>
      \A l \in heard_by[r] : receiver[l] = "open" => Verdicts(l, r) # {}

\* results() hides two ends of a bundle, and only these: a bundle that is gone
\* without a result has been simulated max_retries + 1 times or was outdated, and
\* any other has exactly one result.
ResultsExplained ==
  \A r \in Requests :
    alive /\ clears = 0 /\ reply[r] = "Ok" /\ ~InService(r) =>
      \A l \in heard_by[r] : receiver[l] = "open" =>
        \/ Cardinality(ResultsFor(l, r)) = 1
        \/ /\ ResultsFor(l, r) = {}
           /\ \/ simulator_calls[r] = max_retries + 1
              \/ \E i \in Verdicts(l, r) : mailbox[l][i].type = "OutdatedRequest"
=============================================================================
